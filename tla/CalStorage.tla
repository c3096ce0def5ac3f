------------------------------- MODULE CalStorage -------------------------------
(***************************************************************************)
(* How the gearbox gets its calibrations: EgsCalStorage asks for one after  *)
(* the other (egs_logic_impl.rs), the QSPI commander reads them from the    *)
(* key-value database (tasks/qspi_commander.rs, storage/qspi.rs), and two   *)
(* channels of two places lie between them.                                 *)
(***************************************************************************)
EXTENDS Naturals, Sequences

CONSTANTS
  Slots  \* places of a channel

ASSUME CalAssumption == Slots \in Nat \ {0}

VARIABLES
  db,         \* what the database holds for each calibration
  calState,   \* requests sent so far
  cmds,       \* the channel of requests
  resps,      \* the channel of responses
  cals,       \* the calibrations received
  commander   \* what the commander does

calVars == <<db, calState, cmds, resps, cals, commander>>

\* In the order in which they are asked for.
CalOrder == <<"mech", "hydr", "tccPump", "shiftMap">>
Cals     == {CalOrder[i] : i \in 1 .. 4}

Unset == "unset"

\* A key that is missing or of another size gives the default of its type.
Contents == {"valid", "invalid", "missing"}
GetKey(c) == IF db[c] = "missing" THEN "default" ELSE db[c]

-----------------------------------------------------------------------------
(* The commander *)

At(what, c, v) == [at |-> what, cal |-> c, val |-> v]

\* Mounting the database, formatting it if need be.
Mount ==
  /\ commander.at = "mount"
  /\ commander' = At("receive", "mech", Unset)
  /\ UNCHANGED <<db, calState, cmds, resps, cals>>

ReceiveCmd ==
  /\ commander.at = "receive" /\ cmds # <<>>
  /\ cmds' = Tail(cmds)
  /\ commander' = At("read", Head(cmds), Unset)
  /\ UNCHANGED <<db, calState, resps, cals>>

ReadKey ==
  /\ commander.at = "read"
  /\ commander' = At("send", commander.cal, GetKey(commander.cal))
  /\ UNCHANGED <<db, calState, cmds, resps, cals>>

\* Waits for a free place.
SendResp ==
  /\ commander.at = "send" /\ Len(resps) < Slots
  /\ resps' = Append(resps, [cal |-> commander.cal, val |-> commander.val])
  /\ commander' = At("receive", "mech", Unset)
  /\ UNCHANGED <<db, calState, cmds, cals>>

Commander == Mount \/ ReceiveCmd \/ ReadKey \/ SendResp

-----------------------------------------------------------------------------
(* init_poll, called once in a cycle while the gearbox initialises *)

CanSendAlways == calState < 4

\* try_send succeeds when there is a place; the next poll tries again if not.
CanSend == calState < 4 /\ Len(cmds) < Slots

PollSendsOnce ==
  /\ calState' = IF calState < 4 THEN calState + 1 ELSE calState
  /\ cmds' = IF CanSend THEN Append(cmds, CalOrder[calState + 1]) ELSE cmds

PollSends ==
  /\ calState' = IF CanSend THEN calState + 1 ELSE calState
  /\ cmds' = IF CanSend THEN Append(cmds, CalOrder[calState + 1]) ELSE cmds

PollReceives ==
  IF resps = <<>> THEN UNCHANGED <<resps, cals>>
  ELSE /\ resps' = Tail(resps)
       /\ cals' = [cals EXCEPT ![Head(resps).cal] = Head(resps).val]

LoadedButShiftMap(c) == \A k \in Cals \ {"shiftMap"} : c[k] # Unset

Loaded(c) == \A k \in Cals : c[k] # Unset

\* The defaults of both are invalid; the other two are not looked at.
ValidCals(c) == c["mech"] = "valid" /\ c["hydr"] = "valid"

PollResult(c) ==
  IF ~Loaded(c) THEN "waiting" ELSE IF ValidCals(c) THEN "ready" ELSE "error"

InitPoll == PollSends /\ PollReceives /\ UNCHANGED <<db, commander>>

CalInit ==
  /\ calState = 0 /\ cmds = <<>> /\ resps = <<>>
  /\ cals = [c \in Cals |-> Unset]
  /\ commander = At("mount", "mech", Unset)
=============================================================================
