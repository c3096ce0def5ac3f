-------------------------------- MODULE DiagLink --------------------------------
(***************************************************************************)
(* The diagnostic task (firmware/src/tasks/diag.rs and diag_task of the     *)
(* bootloader) between its two transports, CAN and USB, with the testers    *)
(* at the far ends.  The server is any function from requests to answers.   *)
(*                                                                          *)
(* The two tasks differ in one thing: the firmware's waits 10 ms after an   *)
(* answer before it selects again (setting.waits), the bootloader's does    *)
(* not.                                                                     *)
(*                                                                          *)
(* The tester on CAN follows ISO 15765-2: it sends consecutive frames only  *)
(* as flow control allows, checks the sequence numbers of what it receives, *)
(* and gives up when nothing comes.  It asks again at any moment            *)
(* (setting.early), or only when its last exchange is over on the board     *)
(* too.                                                                     *)
(***************************************************************************)
EXTENDS CanIsoTp, UsbIsoTp, FiniteSets

CONSTANTS
  Sizes,       \* frames of a request
  ReplySizes,  \* frames of an answer
  TesterBs,    \* the block sizes the tester asks for
  Settings,    \* the boards and testers that may meet: bounds on the transmissions on
               \* CAN and USB; whether the task waits after an answer, as the firmware's
               \* does and the bootloader's does not; whether the tester on CAN may ask
               \* while the board is still at an answer
  MaxLost      \* bound on lost frames

ASSUME DiagAssumption ==
  /\ Sizes \subseteq Nat \ {0} /\ ReplySizes \subseteq Nat \ {0} /\ TesterBs \subseteq Nat
  /\ Settings \subseteq [can : Nat, usb : Nat, waits : BOOLEAN, early : BOOLEAN]
  /\ MaxLost \in Nat

VARIABLES
  job,       \* where the diagnostic task is, and for which transport
  rxFifo,    \* frames to the board
  sends,     \* transmissions of requests so far
  ttx, trx,  \* what the tester is sending and receiving
  got,       \* the last answer it has received
  handed,    \* the last request the server took from CAN
  served,    \* how many it took (no variable of the code, nor is handed)
  lost,      \* frames lost
  setting    \* the board and the testers of this behaviour (no variable of the code)

taskVars   == <<job, handed, served>>
testerVars == <<rxFifo, sends, ttx, trx, got>>
diagVars   == <<isotpVars, usbVars, taskVars, testerVars, lost, setting>>

-----------------------------------------------------------------------------
(* The diagnostic task *)

\* What the CAN controller can send next.
Transmitted == (IF mailbox = NoFrame THEN {} ELSE {mailbox}) \cup
               (IF queue = <<>> THEN {} ELSE {Head(queue)})

Select == [at |-> "select", via |-> "none", of |-> 0]

\* select_biased: a request on CAN goes first.
TakeCan ==
  /\ job.at = "select" /\ rxReady # NoPayload
  /\ job' = [at |-> "process", via |-> "can", of |-> rxReady[1][1]]
  /\ handed' = rxReady /\ served' = served + 1 /\ rxReady' = NoPayload
  /\ UNCHANGED <<rxState, cts, mailbox, queue, held, tx, refused, usbVars>>

TakeUsbKept ==
  /\ job.at = "select" /\ rxReady = NoPayload /\ usbReady # <<>>
  /\ job' = [at |-> "process", via |-> "usb", of |-> usbReady[1].of]
  /\ UNCHANGED <<isotpVars, usbVars, handed, served>>

TakeUsb ==
  /\ job.at = "select" /\ rxReady = NoPayload /\ usbReady # <<>>
  /\ job' = [at |-> "process", via |-> "usb", of |-> usbReady[1].of]
  /\ usbReady' = <<>>
  /\ UNCHANGED <<isotpVars, usbIn, reading, usbOut, usbSends, host, handed, served>>

\* process_cmd is done; the answer goes back where the request came from.
AnswerCan ==
  /\ job.at = "process" /\ job.via = "can"
  /\ \E size \in ReplySizes : WritePayload(job.of, size)
  /\ job' = [job EXCEPT !.at = "reply"]
  /\ UNCHANGED <<usbVars, handed, served>>

AnswerUsb ==
  /\ job.at = "process" /\ job.via = "usb"
  /\ UsbWrite(job.of)
  /\ job' = Select
  /\ UNCHANGED <<isotpVars, handed, served>>

RepliedAtOnce ==
  /\ job.at = "reply" /\ ~Writing
  /\ job' = Select
  /\ UNCHANGED <<isotpVars, usbVars, handed, served>>

\* The result of write_payload is ignored.  The bootloader selects again at once; in
\* the firmware Mono::delay comes first: 10 ms are enough for the controller to send
\* what the task has queued.  (It waits after an answer on USB too, which is left out:
\* nothing goes to the bus then.)
Replied ==
  /\ job.at = "reply" /\ ~Writing
  /\ setting.waits => Transmitted = {}
  /\ job' = Select
  /\ UNCHANGED <<isotpVars, usbVars, handed, served>>

-----------------------------------------------------------------------------
(* The tester on CAN *)

NotSending   == [at |-> "idle", size |-> 0, pos |-> 0, left |-> 0]
NotReceiving == [at |-> "none", size |-> 0, left |-> 0, bs |-> 0, buf |-> <<>>]

\* Timeouts of a second, here and on the board, are longer than any delay of the bus:
\* they pass only when no frame is on its way and nobody is about to send one.
Quiet ==
  /\ rxFifo = <<>> /\ Transmitted = {} /\ ~held
  /\ tx.at # "block" /\ (tx.at = "flow" => cts = NoFrame)
  /\ ttx.at # "block" /\ trx.at # "pause"

\* The exchange before is over, for the board too.
AtRest == Quiet /\ job = Select /\ rxReady = NoPayload

Ask ==
  /\ ttx = NotSending /\ trx = NotReceiving /\ sends < setting.can /\ sends' = sends + 1
  /\ setting.early \/ AtRest
  /\ \E size \in Sizes :
       /\ rxFifo' = Append(rxFifo, FrameOf(sends + 1, 1, size))
       /\ ttx' = IF size = 1 THEN NotSending
                 ELSE [at |-> "flow", size |-> size, pos |-> 1, left |-> 0]
  /\ UNCHANGED <<trx, got>>

SendBlock ==
  /\ ttx.at = "block"
  /\ rxFifo' = Append(rxFifo, FrameOf(sends, ttx.pos + 1, ttx.size))
  /\ ttx' = IF ttx.pos + 1 = ttx.size THEN NotSending
            ELSE [ttx EXCEPT !.pos = @ + 1,
                             !.at = IF ttx.left = 1 THEN "flow" ELSE "block",
                             !.left = IF @ = 0 THEN 0 ELSE @ - 1]
  /\ UNCHANGED <<sends, trx, got>>

\* A tester whose request is refused lets the line become quiet.
GetsFlow(f) ==
  /\ f.pci = "flow"
  /\ ttx' = IF ttx.at # "flow" THEN ttx
            ELSE IF f.fs = "ok" THEN [ttx EXCEPT !.at = "block", !.left = f.bs]
            ELSE [NotSending EXCEPT !.at = "refused"]
  /\ UNCHANGED <<rxFifo, trx, got>>

GetsSingle(f) ==
  /\ f.pci = "single"
  /\ got' = <<f.data>> /\ trx' = NotReceiving
  /\ UNCHANGED <<rxFifo, ttx>>

\* The tester goes on at once, asks the board to wait, or refuses.
GetsFirst(f) ==
  /\ f.pci = "first"
  /\ \E bs \in TesterBs, fs \in {"ok", "wait", "reject"} :
       /\ rxFifo' = Append(rxFifo, FlowControl(fs, IF fs = "ok" THEN bs ELSE 0))
       /\ trx' = CASE fs = "reject" -> NotReceiving
                   [] OTHER -> [at |-> IF fs = "ok" THEN "rx" ELSE "pause",
                                size |-> f.size, left |-> bs, bs |-> bs, buf |-> <<f.data>>]
  /\ UNCHANGED <<ttx, got>>

Resume ==
  /\ trx.at = "pause"
  /\ trx' = [trx EXCEPT !.at = "rx"]
  /\ rxFifo' = Append(rxFifo, FlowControl("ok", trx.bs))
  /\ UNCHANGED <<sends, ttx, got>>

GetsConsecutive(f) ==
  /\ f.pci = "consecutive"
  /\ LET buf == Append(trx.buf, f.data)
     IN  \/ trx.buf = <<>> /\ UNCHANGED <<rxFifo, trx, got>>
         \/ /\ trx.buf # <<>> /\ f.sn # Len(trx.buf) % SnMod
            /\ trx' = NotReceiving /\ UNCHANGED <<rxFifo, got>>
         \/ /\ trx.buf # <<>> /\ f.sn = Len(trx.buf) % SnMod
            /\ IF Len(buf) = trx.size
               THEN got' = buf /\ trx' = NotReceiving /\ UNCHANGED rxFifo
               ELSE /\ trx' = [trx EXCEPT !.buf = buf,
                                          !.left = IF @ = 1 THEN trx.bs ELSE IF @ = 0 THEN 0 ELSE @ - 1]
                    /\ rxFifo' = IF trx.left = 1 THEN Append(rxFifo, FlowControl("ok", trx.bs))
                                 ELSE rxFifo
                    /\ UNCHANGED got
  /\ UNCHANGED ttx

TesterGets(f) ==
  /\ GetsFlow(f) \/ GetsSingle(f) \/ GetsFirst(f) \/ GetsConsecutive(f)
  /\ UNCHANGED sends

-----------------------------------------------------------------------------
(* The bus *)

\* The controller sends a frame of its mailbox or the oldest of its queue.
Sent(f) ==
  \/ /\ mailbox # NoFrame /\ f = mailbox /\ mailbox' = NoFrame
     /\ UNCHANGED queue
  \/ /\ queue # <<>> /\ f = Head(queue) /\ queue' = Tail(queue)
     /\ UNCHANGED mailbox

ToTester ==
  /\ \E f \in Transmitted : Sent(f) /\ TesterGets(f)
  /\ UNCHANGED <<rxState, rxReady, cts, held, tx, refused, usbVars, taskVars, lost>>

\* The interrupt takes a frame from the FIFO.
ToBoard ==
  /\ rxFifo # <<>> /\ OnFrameRx(Head(rxFifo)) /\ rxFifo' = Tail(rxFifo)
  /\ UNCHANGED <<usbVars, taskVars, sends, ttx, trx, got, lost>>

Lose ==
  /\ lost < MaxLost /\ lost' = lost + 1
  /\ \/ /\ \E f \in Transmitted : Sent(f)
        /\ UNCHANGED rxFifo
     \/ /\ rxFifo # <<>> /\ rxFifo' = Tail(rxFifo)
        /\ UNCHANGED <<mailbox, queue>>
  /\ UNCHANGED <<rxState, rxReady, cts, held, tx, refused, usbVars, taskVars, sends, ttx, trx, got>>

TesterTimeout ==
  /\ Quiet
  /\ \/ ttx.at \in {"flow", "refused"} /\ ttx' = NotSending /\ UNCHANGED trx
     \/ trx.at = "rx" /\ trx' = NotReceiving /\ UNCHANGED ttx
  /\ UNCHANGED <<rxFifo, sends, got>>

-----------------------------------------------------------------------------
(* The whole *)

Board ==
  \/ /\ TakeCan \/ TakeUsb \/ AnswerCan \/ AnswerUsb \/ Replied
     /\ UNCHANGED <<testerVars, lost>>
  \/ /\ FlowOk \/ FlowWait \/ FlowReject \/ SendConsecutive \/ Release
     /\ UNCHANGED <<usbVars, taskVars, testerVars, lost>>
  \/ /\ Quiet /\ FlowTimeout
     /\ UNCHANGED <<usbVars, taskVars, testerVars, lost>>
  \/ Poll /\ UNCHANGED <<isotpVars, taskVars, testerVars, lost>>

Tester ==
  /\ Ask \/ SendBlock \/ Resume \/ TesterTimeout
  /\ UNCHANGED <<isotpVars, usbVars, taskVars, lost>>

Host ==
  /\ \/ usbSends < setting.usb /\ (HostAsk \/ HostReopen)
     \/ HostGivesUp \/ HostReceive
  /\ UNCHANGED <<isotpVars, taskVars, testerVars, lost>>

DiagInit ==
  /\ IsoTpInit /\ UsbInit
  /\ job = Select /\ handed = <<>> /\ served = 0 /\ rxFifo = <<>> /\ sends = 0
  /\ ttx = NotSending /\ trx = NotReceiving /\ got = <<>> /\ lost = 0
  /\ setting \in Settings

DiagNext ==
  /\ Board \/ ToTester \/ ToBoard \/ Lose \/ Tester \/ Host
  /\ UNCHANGED setting

DiagSpec == DiagInit /\ [][DiagNext]_diagVars

\* The controller sends what is in its buffers, the interrupt and the task are
\* scheduled, the tester finishes a block it has begun and does not pause for
\* ever.  It need not ask, nor take an answer.
FairDiagSpec ==
  /\ DiagSpec
  /\ WF_diagVars(Board /\ UNCHANGED setting)
  /\ WF_diagVars(ToTester /\ UNCHANGED setting) /\ WF_diagVars(ToBoard /\ UNCHANGED setting)
  /\ WF_diagVars((SendBlock \/ Resume) /\ UNCHANGED <<isotpVars, usbVars, taskVars, lost, setting>>)

-----------------------------------------------------------------------------
(* Properties *)

\* Everything an endpoint, the task or a tester holds is of its kind; a
\* reassembly never has more pieces than its message and never a whole one.
DiagTypeOK ==
  /\ rxState # Idle => Len(rxState.buf) < rxState.size /\ rxState.count < U8
  /\ Len(queue) <= QueueSlots
  /\ tx.at \in {"none", "flow", "block"} /\ (tx # NoTx => tx.pos < tx.size)
  /\ job.at \in {"select", "process", "reply"} /\ job.via \in {"none", "can", "usb"}
  /\ ttx.at \in {"idle", "flow", "block", "refused"} /\ trx.at \in {"none", "pause", "rx"}
  /\ sends \in 0 .. setting.can /\ lost \in 0 .. MaxLost /\ usbSends \in 0 .. setting.usb

\* The number of a payload, provided that it is one message as it was sent.
NumberOf(p) ==
  IF p = <<>> THEN 0
  ELSE IF p = Payload(p[1][1], Len(p)) THEN p[1][1] ELSE 0 - 1

OnCan == INSTANCE Delivery WITH sent <- sends, taken <- NumberOf(handed), calls <- served

\* Requests on CAN are delivered as Delivery says: whole, in order, each
\* transmission at most once, although the endpoint checks no sequence
\* number, frames are lost, and a request may overtake another.
CanDelivers == OnCan!Spec

\* An answer that the tester has put together is a whole answer of the server,
\* whatever was lost, refused or sent at the same time.
AnswersWhole == got # <<>> => NumberOf(got) \in 1 .. sends

\* The board sends no consecutive frame that the tester has not allowed: those
\* in the queue fit in what is left of the block.
FlowRespected ==
  trx.buf # <<>> =>
    LET coming == {i \in DOMAIN queue : queue[i].data[1] = trx.buf[1][1]}
    IN  /\ trx.at = "pause" => coming = {}
        /\ trx.bs # 0 => Cardinality(coming) <= trx.left

\* When nothing is on its way, no frame was lost and no buffer was in use, the
\* tester has the answer to its last request.
Still == AtRest /\ tx = NoTx /\ ttx = NotSending
NothingSilent ==
  Still /\ lost = 0 /\ ~refused /\ sends > 0 => NumberOf(got) = sends

\* As long as no read of the flasher has timed out, the answer that it takes is
\* that of its request.
UsbAnswersMatch == host.at = "idle" /\ ~host.late => host.got = host.since

\* Also after reads that timed out and requests that were sent again, the flasher takes
\* answers in the order of its transmissions and none of them twice: a late answer is
\* taken for a later one, never a later one for an earlier.
AnswerTaken == host.at # "idle" /\ host'.at = "idle"
UsbAnswersInOrder == [][AnswerTaken => host'.got > host.got]_diagVars

\* The task always comes back to its requests: a write ends also when the tester
\* is gone, refuses, or its flow control is lost.
TaskReturns == job.at # "select" ~> job.at = "select"
=============================================================================
