-------------------------------- MODULE CanIsoTp --------------------------------
(***************************************************************************)
(* The ISO-TP endpoint on CAN (isotp_endpoints/can_isotp.rs) in two halves: *)
(* the interrupt handler, which reassembles requests and passes flow        *)
(* control on, and the asynchronous task, which writes answers.             *)
(*                                                                          *)
(* A payload is a sequence of pieces <<m, k>>, the k-th part of message m:  *)
(* what one frame carries.  A message of one piece is a single frame.       *)
(***************************************************************************)
EXTENDS Naturals, Sequences

CONSTANTS
  BlockSizes,   \* values of ecu_bs: the frames of a block, 0 for no limit
  U8,           \* 2^8, the width of rx_count
  SnMod,        \* sequence numbers wrap here (16)
  QueueSlots,   \* transmit buffers behind the dedicated mailbox
  IsrPreempts   \* the interrupt may come while the task holds the transmitter

ASSUME IsoTpAssumption ==
  /\ BlockSizes \subseteq 0 .. U8 - 1 /\ U8 \in Nat \ {0}
  /\ SnMod \in Nat \ {0} /\ QueueSlots \in Nat
  /\ IsrPreempts \in BOOLEAN

VARIABLES
  rxState,  \* rx_state: Idle, or the reassembly under way
  rxReady,  \* the signal with a payload for the task
  cts,      \* the signal with a flow control for the task
  mailbox,  \* the dedicated transmit buffer
  queue,    \* the transmit queue
  held,     \* the task holds can_tx
  tx,       \* where the task is in write_payload
  refused   \* something was given up: a transmit buffer was in use, or the
            \* tester refused an answer (no variable of the code)

isotpVars == <<rxState, rxReady, cts, mailbox, queue, held, tx, refused>>

Idle      == [mode |-> "idle"]
NoPayload == <<>>                \* an empty signal
NoFrame   == [pci |-> "none"]    \* an empty signal or transmit buffer

Frame(pci, m, k, size) == [pci |-> pci, data |-> <<m, k>>, size |-> size, sn |-> (k - 1) % SnMod]
FlowControl(fs, bs)    == [pci |-> "flow", fs |-> fs, bs |-> bs]

\* The k-th frame of a message.
FrameOf(m, k, size) ==
  Frame(IF k > 1 THEN "consecutive" ELSE IF size = 1 THEN "single" ELSE "first", m, k, size)

Payload(m, size) == [k \in 1 .. size |-> <<m, k>>]

-----------------------------------------------------------------------------
(* The interrupt: on_frame_rx *)

\* A new payload replaces one that the task has not fetched yet.
SingleFrame(f) ==
  /\ f.pci = "single"
  /\ rxReady' = <<f.data>>
  /\ UNCHANGED <<rxState, cts, mailbox, queue, held, tx, refused>>

CanWrite == ~held /\ mailbox = NoFrame

ReassemblyGoesOn(f, bs) ==
  [mode |-> "rx", bs |-> bs, buf |-> IF rxState = Idle THEN <<f.data>> ELSE rxState.buf,
   count |-> 0, size |-> f.size]

\* A first frame always starts anew.
Reassembly(f, bs) ==
  [mode |-> "rx", bs |-> bs, buf |-> <<f.data>>, count |-> 0, size |-> f.size]

\* Dropped without a word when the transmitter or its mailbox is in use.
FirstFrame(f) ==
  /\ f.pci = "first"
  /\ \/ /\ CanWrite
        /\ \E bs \in BlockSizes :
             /\ mailbox' = FlowControl("ok", bs)
             /\ rxState' = Reassembly(f, bs)
        /\ UNCHANGED refused
     \/ ~CanWrite /\ refused' = TRUE /\ UNCHANGED <<rxState, mailbox>>
  /\ UNCHANGED <<rxReady, cts, queue, held, tx>>

BlockFullLate(count) == rxState.bs # 0 /\ count > rxState.bs

\* The tester waits for flow control after a block.
BlockFull(count) == rxState.bs # 0 /\ count = rxState.bs

\* The sequence number of the frame is not looked at.
ConsecutiveFrame(f) ==
  /\ f.pci = "consecutive"
  /\ \/ rxState = Idle /\ UNCHANGED <<rxState, rxReady, mailbox, refused>>
     \/ /\ rxState # Idle
        /\ LET buf   == Append(rxState.buf, f.data)
               count == (rxState.count + 1) % U8
               more  == [rxState EXCEPT !.buf = buf, !.count = count]
               block == BlockFull(count)
           IN  \/ /\ Len(buf) = rxState.size
                  /\ rxReady' = buf /\ rxState' = Idle
                  /\ UNCHANGED <<mailbox, refused>>
               \/ /\ Len(buf) < rxState.size /\ ~block
                  /\ rxState' = more
                  /\ UNCHANGED <<rxReady, mailbox, refused>>
               \/ /\ Len(buf) < rxState.size /\ block /\ CanWrite
                  /\ mailbox' = FlowControl("ok", rxState.bs)
                  /\ rxState' = [more EXCEPT !.count = 0]
                  /\ UNCHANGED <<rxReady, refused>>
               \/ /\ Len(buf) < rxState.size /\ block /\ ~CanWrite
                  /\ rxState' = Idle /\ refused' = TRUE
                  /\ UNCHANGED <<rxReady, mailbox>>
  /\ UNCHANGED <<cts, queue, held, tx>>

FlowControlFrame(f) ==
  /\ f.pci = "flow"
  /\ cts' = f
  /\ UNCHANGED <<rxState, rxReady, mailbox, queue, held, tx, refused>>

OnFrameRx(f) ==
  /\ held => IsrPreempts
  /\ SingleFrame(f) \/ FirstFrame(f) \/ ConsecutiveFrame(f) \/ FlowControlFrame(f)

-----------------------------------------------------------------------------
(* The task: write_payload *)

NoTx == [at |-> "none"]
Tx(at, m, size, pos, left) == [at |-> at, of |-> m, size |-> size, pos |-> pos, left |-> left]

\* The transmitter is held until the frame is written and the guard dropped.
Release ==
  /\ held /\ held' = FALSE
  /\ UNCHANGED <<rxState, rxReady, cts, mailbox, queue, tx, refused>>

\* The first frame, or the only one; a mailbox in use ends the attempt.
WritePayload(m, size) ==
  /\ tx = NoTx /\ ~held /\ held' = TRUE
  /\ \/ /\ mailbox = NoFrame
        /\ mailbox' = FrameOf(m, 1, size)
        /\ tx' = IF size = 1 THEN NoTx ELSE Tx("flow", m, size, 1, 0)
        /\ UNCHANGED refused
     \/ mailbox # NoFrame /\ refused' = TRUE /\ UNCHANGED <<mailbox, tx>>
  /\ UNCHANGED <<rxState, rxReady, cts, queue>>

AtFlow == tx.at = "flow" /\ ~held

FlowOk ==
  /\ AtFlow /\ cts # NoFrame /\ cts.fs = "ok"
  /\ tx' = [tx EXCEPT !.at = "block", !.left = cts.bs]
  /\ cts' = NoFrame
  /\ UNCHANGED <<rxState, rxReady, mailbox, queue, held, refused>>

FlowWait ==
  /\ AtFlow /\ cts # NoFrame /\ cts.fs = "wait"
  /\ cts' = NoFrame
  /\ UNCHANGED <<rxState, rxReady, mailbox, queue, held, tx, refused>>

\* Refused: the endpoint writes a refusal itself and gives up.
FlowReject ==
  /\ AtFlow /\ cts # NoFrame /\ cts.fs = "reject"
  /\ cts' = NoFrame /\ tx' = NoTx /\ held' = TRUE /\ refused' = TRUE
  /\ mailbox' = IF mailbox = NoFrame THEN FlowControl("reject", 0) ELSE mailbox
  /\ UNCHANGED <<rxState, rxReady, queue>>

FlowTimeoutRetries ==
  /\ AtFlow /\ cts = NoFrame
  /\ UNCHANGED isotpVars

\* 1000 ms without flow control.
FlowTimeout ==
  /\ AtFlow /\ cts = NoFrame
  /\ tx' = NoTx
  /\ UNCHANGED <<rxState, rxReady, cts, mailbox, queue, held, refused>>

AfterFrameUncounted ==
  [tx EXCEPT !.pos = @ + 1, !.left = IF @ = 0 THEN 0 ELSE @ - 1]

\* The end of a block: bs_count has come to zero, and there was a limit.
AfterFrame ==
  IF tx.left = 1 THEN [tx EXCEPT !.at = "flow", !.pos = @ + 1, !.left = 0]
  ELSE [tx EXCEPT !.pos = @ + 1, !.left = IF @ = 0 THEN 0 ELSE @ - 1]

QueueHasRoomLate == Len(queue) <= QueueSlots

QueueHasRoom == Len(queue) < QueueSlots

\* One frame of a block, by the queue; a full queue ends the attempt.
SendConsecutive ==
  /\ tx.at = "block" /\ ~held /\ held' = TRUE
  /\ \/ /\ QueueHasRoom
        /\ queue' = Append(queue, FrameOf(tx.of, tx.pos + 1, tx.size))
        /\ tx' = IF tx.pos + 1 = tx.size THEN NoTx ELSE AfterFrame
        /\ UNCHANGED refused
     \/ ~QueueHasRoom /\ tx' = NoTx /\ refused' = TRUE /\ UNCHANGED queue
  /\ UNCHANGED <<rxState, rxReady, cts, mailbox>>

Writing == tx # NoTx \/ held

IsoTpInit ==
  /\ rxState = Idle /\ rxReady = NoPayload /\ cts = NoFrame
  /\ mailbox = NoFrame /\ queue = <<>> /\ held = FALSE /\ tx = NoTx
  /\ refused = FALSE
=============================================================================
