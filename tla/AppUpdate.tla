------------------------------- MODULE AppUpdate -------------------------------
(***************************************************************************)
(* What the boot chain, the KWP server and the flasher promise together:    *)
(* at any moment the board has one whole application that it would start,   *)
(* or none; an update withdraws the old one before the new one is there.    *)
(***************************************************************************)
CONSTANTS Apps, NoApp   \* NoApp is not one of Apps

VARIABLE app   \* the application that would be started

Init == app \in Apps \cup {NoApp}

Withdraw == app' = NoApp
Install  == app = NoApp /\ app' \in Apps

Next == Withdraw \/ Install

Spec == Init /\ [][Next]_app
=============================================================================
