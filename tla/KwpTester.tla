------------------------------- MODULE KwpTester -------------------------------
(***************************************************************************)
(* The bootloader's KWP server (BootKwp) on its own, under a tester that    *)
(* sends any command at any time: diag_task of bootloader/src/main.rs, which *)
(* alternates process_cmd and update.  A reset starts a new server over the *)
(* same memory.                                                             *)
(***************************************************************************)
EXTENDS BootKwp

\* A board with an application and without a production date.
Init ==
  /\ \E app \in AppImages :
       mem = [u \in Units |-> IF u - BlSectors \in 1 .. AppLen
                              THEN <<app, u - BlSectors>> ELSE Erased]
  /\ see = [year |-> 255, appDone |-> TRUE, blPend |-> FALSE,
            appCrc |-> TRUE, blCrc |-> NoCrc]
  /\ mode \in {"Normal", "Reprogramming"}
  /\ pending = NoOp /\ completed = "none"
  /\ quiet = 0 /\ longOp = FALSE /\ qspiUp = FALSE /\ updateDue = FALSE

\* The pending reset: the next bootloader run starts in either session.
Reset ==
  /\ pending.op = "reset" /\ ~Expired
  /\ ServerStart("Normal") \/ ServerStart("Reprogramming")
  /\ UNCHANGED nvm

DiagTask == Update \/ Reset

Next == (\E r \in Replies : Command(r)) \/ DiagTask \/ Tick

Spec == Init /\ [][Next]_kwpVars

\* diag_task runs its background step at least every millisecond, and time passes.
FairSpec == Spec /\ WF_kwpVars(DiagTask) /\ WF_kwpVars(Tick)

-----------------------------------------------------------------------------
(* Properties *)

Erasing == pending.op \in {"erase", "qspiErase"}

\* The units the request in progress names.
Requested ==
  IF pending.op = "erase"
  THEN {pending.at + k : k \in 0 .. pending.total - 1}
  ELSE {QspiUnit(k) : k \in 0 .. pending.total - 1}

\* While an erase runs nothing outside the requested range changes, whatever
\* block sizes it is cut into, and when it is reported as done the whole range
\* is erased, whatever commands came in between.
EraseExact ==
  [][Erasing =>
       /\ \A u \in Units \ Requested : mem'[u] = mem[u]
       /\ pending'.op = "none" /\ completed' = "ok"
            => \A u \in Requested : mem'[u] = Erased]_kwpVars

\* A production date that reads as set is never replaced.
DateBurnedOnce == [][DateSet(see) => see'.year = see.year]_kwpVars

\* An erase that has been accepted comes to an end, also when the controller
\* fails, the tester goes away or keeps asking.
EraseEnds == Erasing ~> ~Erasing

\* A tester that falls silent for good loses its session, except after a QSPI
\* block, which leaves the timeout off.  (A step that lowers quiet is a command.)
SilenceEndsSession ==
  <>[][quiet' >= quiet]_kwpVars => <>[](mode = "Normal" \/ longOp)
=============================================================================
