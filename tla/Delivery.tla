-------------------------------- MODULE Delivery --------------------------------
(***************************************************************************)
(* What a diagnostic transport promises to the server behind it: the        *)
(* server takes requests of the tester, each at most once and in the order  *)
(* in which they were sent.  Requests may be missed.                        *)
(***************************************************************************)
EXTENDS Naturals

VARIABLES
  sent,  \* requests the tester has begun to send so far, numbered from 1
  taken, \* the request that the server took last, 0 for none
  calls  \* how often it took one

deliveryVars == <<sent, taken, calls>>

Init == sent = 0 /\ taken = 0 /\ calls = 0

Send == sent' = sent + 1 /\ UNCHANGED <<taken, calls>>
Take ==
  /\ taken' \in taken + 1 .. sent /\ calls' = calls + 1
  /\ UNCHANGED sent

Next == Send \/ Take
Spec == Init /\ [][Next]_deliveryVars
=============================================================================
