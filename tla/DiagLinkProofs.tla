----------------------------- MODULE DiagLinkProofs -----------------------------
(***************************************************************************)
(* The diagnostic task between its transports, for messages, blocks, counters *)
(* and transmit queues of any size and any number of lost frames.           *)
(***************************************************************************)
EXTENDS DiagLink, SequenceTheorems, FiniteSetTheorems, TLAPS

-----------------------------------------------------------------------------
(* Types *)

Pieces     == Nat \X Nat
DataFrames == [pci : {"single", "first", "consecutive"}, data : Pieces, size : Nat, sn : Nat]
FlowFrames == [pci : {"flow"}, fs : {"ok", "wait", "reject"}, bs : Nat]
Frames     == DataFrames \cup FlowFrames
Assemblies == [mode : {"rx"}, bs : BlockSizes, buf : Seq(Pieces), count : Nat, size : Nat]
Writes     == [at : {"flow", "block"}, of : Nat, size : Nat, pos : Nat, left : Nat]

\* The endpoint on CAN, the task's part of it included.
EndpointType ==
  /\ rxState \in Assemblies \cup {Idle}
  /\ rxReady \in Seq(Pieces) /\ cts \in FlowFrames \cup {NoFrame}
  /\ mailbox \in Frames \cup {NoFrame} /\ queue \in Seq(DataFrames)
  /\ tx \in Writes \cup {NoTx}
  /\ held \in BOOLEAN /\ refused \in BOOLEAN

\* What limits the endpoint: a reassembly is never whole, a write never done.
EndpointBounds ==
  /\ rxState # Idle => Len(rxState.buf) < rxState.size /\ rxState.count < U8
  /\ Len(queue) <= QueueSlots
  /\ tx # NoTx => tx.pos < tx.size

TaskType ==
  /\ job \in [at : {"select", "process", "reply"}, via : {"none", "can", "usb"}, of : Nat]
  /\ handed \in Seq(Pieces) /\ served \in Nat

TesterType ==
  /\ rxFifo \in Seq(Frames)
  /\ ttx \in [at : {"idle", "flow", "block", "refused"}, size : Nat, pos : Nat, left : Nat]
  /\ trx \in [at : {"none", "pause", "rx"}, size : Nat, left : Nat, bs : Nat, buf : Seq(Pieces)]
  /\ got \in Seq(Pieces)

\* A transmission under way has begun and is not done.
Begun == ttx.at \in {"flow", "block"} => ttx.pos \in 1 .. ttx.size - 1

\* A first frame on its way to the board is that of a message of several.
Firsts == \A i \in 1 .. Len(rxFifo) : rxFifo[i].pci = "first" => rxFifo[i].size > 1

BoundsType ==
  /\ setting \in [can : Nat, usb : Nat, waits : BOOLEAN, early : BOOLEAN]
  /\ sends \in 0 .. setting.can /\ lost \in 0 .. MaxLost /\ usbSends \in 0 .. setting.usb

UsbPackets == [of : Nat, part : Nat, size : Nat]

UsbType ==
  /\ usbIn \in Seq(UsbPackets) /\ usbReady \in Seq(UsbPackets) /\ usbOut \in Seq(Nat)
  /\ reading \in [size : Nat, buf : Seq(UsbPackets)] \cup {NotReading}
  /\ host \in [at : {"idle", "first", "second", "failed"}, size : Nat, since : Nat,
               got : Nat, late : BOOLEAN]

LinkType ==
  EndpointType /\ EndpointBounds /\ TaskType /\ TesterType /\ Begun /\ Firsts /\ BoundsType /\ UsbType

-----------------------------------------------------------------------------
(* Frames and sequences *)

LEMMA Params ==
  /\ U8 \in Nat \ {0} /\ SnMod \in Nat \ {0} /\ QueueSlots \in Nat
  /\ \A bs \in BlockSizes : bs \in Nat /\ bs < U8
  /\ \A n \in Sizes \cup ReplySizes \cup UsbSizes : n \in Nat \ {0}
  /\ \A bs \in TesterBs : bs \in Nat
  BY IsoTpAssumption, UsbAssumption, DiagAssumption

LEMMA FrameType ==
  ASSUME NEW m \in Nat, NEW k \in Nat \ {0}, NEW size \in Nat
  PROVE  /\ FrameOf(m, k, size) \in DataFrames
         /\ FrameOf(m, k, size).data = <<m, k>> /\ FrameOf(m, k, size).size = size
         /\ FrameOf(m, k, size).pci =
              (IF k > 1 THEN "consecutive" ELSE IF size = 1 THEN "single" ELSE "first")
  <1> DEFINE pci == IF k > 1 THEN "consecutive" ELSE IF size = 1 THEN "single" ELSE "first"
             sn  == (k - 1) % SnMod
  <1>1. sn \in Nat
    BY Params
  <1>2. <<m, k>> \in Pieces
    BY DEF Pieces
  <1>3. FrameOf(m, k, size) = [pci |-> pci, data |-> <<m, k>>, size |-> size, sn |-> sn]
    BY DEF FrameOf, Frame
  <1>4. pci \in {"single", "first", "consecutive"}
    OBVIOUS
  <1> HIDE DEF pci, sn
  <1>5. /\ FrameOf(m, k, size) \in DataFrames /\ FrameOf(m, k, size).data = <<m, k>>
        /\ FrameOf(m, k, size).size = size /\ FrameOf(m, k, size).pci = pci
    BY <1>1, <1>2, <1>3, <1>4 DEF DataFrames
  <1> QED
    BY <1>5 DEF pci

LEMMA FlowType ==
  ASSUME NEW fs \in {"ok", "wait", "reject"}, NEW bs \in Nat
  PROVE  /\ FlowControl(fs, bs) \in FlowFrames /\ FlowControl(fs, bs) \in Frames
         /\ FlowControl(fs, bs).pci = "flow" /\ FlowControl(fs, bs).fs = fs
         /\ FlowControl(fs, bs).bs = bs /\ FlowControl(fs, bs) # NoFrame
  <1>1. FlowControl(fs, bs).pci = "flow" /\ NoFrame.pci = "none"
    BY DEF FlowControl, NoFrame
  <1>2. FlowControl(fs, bs) \in FlowFrames
    BY DEF FlowControl, FlowFrames
  <1> QED
    BY <1>1, <1>2 DEF FlowControl, Frames

\* A frame is one of two kinds.
LEMMA FrameKinds ==
  ASSUME NEW f \in Frames
  PROVE  /\ f.pci \in {"single", "first", "consecutive"} <=> f \in DataFrames
         /\ f.pci = "flow" <=> f \in FlowFrames
         /\ f # NoFrame
  <1>1. NoFrame.pci = "none"
    BY DEF NoFrame
  <1> QED
    BY <1>1 DEF Frames, DataFrames, FlowFrames

\* What is appended is last, and the rest is as it was.
LEMMA Appended ==
  ASSUME NEW S, NEW q \in Seq(S), NEW x \in S
  PROVE  /\ Append(q, x) \in Seq(S) /\ Len(Append(q, x)) = Len(q) + 1 /\ Len(q) \in Nat
         /\ \A i \in 1 .. Len(q) : Append(q, x)[i] = q[i]
         /\ Append(q, x)[Len(q) + 1] = x /\ Append(q, x) # <<>>
  <1>1. /\ Append(q, x) \in Seq(S) /\ Append(q, x) # <<>> /\ Len(Append(q, x)) = Len(q) + 1
        /\ \A i \in 1 .. Len(q) : Append(q, x)[i] = q[i]
        /\ Append(q, x)[Len(q) + 1] = x
    BY AppendProperties
  <1> QED
    BY <1>1

\* What is taken from the front is gone, and the rest moves up.
LEMMA Taken ==
  ASSUME NEW S, NEW q \in Seq(S), q # <<>>
  PROVE  /\ Head(q) \in S /\ Head(q) = q[1] /\ Tail(q) \in Seq(S)
         /\ Len(q) \in Nat \ {0} /\ Len(Tail(q)) = Len(q) - 1
         /\ \A i \in 1 .. Len(Tail(q)) : Tail(q)[i] = q[i + 1]
  <1>1. /\ Head(q) \in S /\ Tail(q) \in Seq(S) /\ Len(Tail(q)) = Len(q) - 1
        /\ \A i \in 1 .. Len(Tail(q)) : Tail(q)[i] = q[i + 1]
    BY HeadTailProperties
  <1>2. Len(q) \in Nat \ {0}
    BY EmptySeq, LenProperties
  <1>3. Head(q) = q[1]
    OBVIOUS
  <1> QED
    BY <1>1, <1>2, <1>3

-----------------------------------------------------------------------------
(* The endpoint on CAN keeps its types *)

Endpoint == EndpointType /\ EndpointBounds

LEMMA EndpointKept ==
  ASSUME Endpoint, UNCHANGED isotpVars
  PROVE  Endpoint'
  BY DEF Endpoint, EndpointType, EndpointBounds, isotpVars

LEMMA NewAssembly ==
  ASSUME NEW f \in DataFrames, NEW bs \in BlockSizes
  PROVE  /\ Reassembly(f, bs) \in Assemblies /\ Reassembly(f, bs) # Idle
         /\ Reassembly(f, bs).buf = <<f.data>> /\ Reassembly(f, bs).count = 0
         /\ Reassembly(f, bs).size = f.size /\ Reassembly(f, bs).bs = bs
  <1>1. f.data \in Pieces /\ f.size \in Nat
    BY DEF DataFrames
  <1>2. <<f.data>> \in Seq(Pieces)
    BY <1>1
  <1>3. Reassembly(f, bs) \in Assemblies
    BY <1>1, <1>2 DEF Reassembly, Assemblies
  <1>4. DOMAIN Reassembly(f, bs) # DOMAIN Idle
    <2>1. "bs" \in DOMAIN Reassembly(f, bs)
      BY DEF Reassembly
    <2>2. "bs" \notin DOMAIN Idle
      BY DEF Idle
    <2> QED
      BY <2>1, <2>2
  <1>5. Reassembly(f, bs) # Idle
    BY <1>4
  <1> QED
    BY <1>3, <1>5 DEF Reassembly

\* A reassembly after one more frame.
More(s, f, c) == [s EXCEPT !.buf = Append(s.buf, f.data), !.count = c]

LEMMA MoreAssembly ==
  ASSUME NEW s \in Assemblies, NEW f \in DataFrames, NEW c \in Nat
  PROVE  /\ More(s, f, c) \in Assemblies /\ More(s, f, c) # Idle /\ More(s, f, c).count = c
         /\ More(s, f, c).buf = Append(s.buf, f.data) /\ More(s, f, c).size = s.size
         /\ More(s, f, c).bs = s.bs
  <1> DEFINE buf  == Append(s.buf, f.data)
             more == [s EXCEPT !.buf = buf, !.count = c]
  <1>1. s.buf \in Seq(Pieces) /\ f.data \in Pieces
    BY DEF Assemblies, DataFrames
  <1>2. buf \in Seq(Pieces)
    BY <1>1, Appended
  <1> HIDE DEF buf
  <1>3. /\ more \in Assemblies /\ more.count = c /\ more.buf = buf /\ more.size = s.size
        /\ more.bs = s.bs
    BY <1>2 DEF Assemblies
  <1>4. more # Idle
    <2>1. "bs" \in DOMAIN more
      BY <1>3 DEF Assemblies
    <2>2. "bs" \notin DOMAIN Idle
      BY DEF Idle
    <2> QED
      BY <2>1, <2>2
  <1> QED
    BY <1>3, <1>4 DEF buf, More

LEMMA SingleFrameType ==
  ASSUME Endpoint, NEW f \in Frames, SingleFrame(f)
  PROVE  Endpoint'
  <1>1. f \in DataFrames /\ f.data \in Pieces
    BY FrameKinds DEF SingleFrame, DataFrames
  <1>2. rxReady' \in Seq(Pieces)
    BY <1>1 DEF SingleFrame
  <1> QED
    BY <1>2 DEF SingleFrame, Endpoint, EndpointType, EndpointBounds

LEMMA FirstFrameType ==
  ASSUME Endpoint, NEW f \in Frames, f.pci = "first" => f.size > 1, FirstFrame(f)
  PROVE  Endpoint'
  <1>1. f \in DataFrames /\ f.size > 1
    BY FrameKinds DEF FirstFrame
  <1>2. CASE refused' = TRUE /\ UNCHANGED <<rxState, mailbox>>
    BY <1>2 DEF FirstFrame, Endpoint, EndpointType, EndpointBounds
  <1>3. CASE \E bs \in BlockSizes :
               /\ mailbox' = FlowControl("ok", bs) /\ rxState' = Reassembly(f, bs)
               /\ UNCHANGED refused
    <2>1. PICK bs \in BlockSizes :
            mailbox' = FlowControl("ok", bs) /\ rxState' = Reassembly(f, bs) /\ UNCHANGED refused
      BY <1>3
    <2>2. mailbox' \in Frames
      BY <2>1, Params, FlowType
    <2>3. /\ rxState' \in Assemblies /\ rxState'.size = f.size /\ rxState'.count = 0
          /\ Len(rxState'.buf) = 1
      <3>1. Len(<<f.data>>) = 1
        OBVIOUS
      <3> QED
        BY <1>1, <2>1, <3>1, NewAssembly
    <2>4. Len(rxState'.buf) < rxState'.size /\ rxState'.count < U8
      BY <1>1, <2>3, Params
    <2> QED
      BY <2>1, <2>2, <2>3, <2>4 DEF FirstFrame, Endpoint, EndpointType, EndpointBounds
  <1> QED
    BY <1>2, <1>3 DEF FirstFrame

LEMMA ConsecutiveFrameType ==
  ASSUME Endpoint, NEW f \in Frames, ConsecutiveFrame(f)
  PROVE  Endpoint'
  <1>1. f \in DataFrames
    BY FrameKinds DEF ConsecutiveFrame
  <1>2. CASE rxState = Idle /\ UNCHANGED <<rxState, rxReady, mailbox, refused>>
    BY <1>2 DEF ConsecutiveFrame, Endpoint, EndpointType, EndpointBounds
  <1>3. CASE rxState # Idle
    <2> DEFINE buf   == Append(rxState.buf, f.data)
               count == (rxState.count + 1) % U8
               more  == More(rxState, f, count)
               fresh == More(rxState, f, 0)
    <2>1. rxState \in Assemblies /\ rxState.count \in Nat /\ rxState.buf \in Seq(Pieces)
          /\ rxState.bs \in BlockSizes
      BY <1>3 DEF Endpoint, EndpointType, Assemblies
    <2>2. count \in Nat /\ count < U8
      BY <2>1, Params
    <2>3. /\ more \in Assemblies /\ more # Idle /\ more.count = count /\ more.buf = buf
          /\ more.size = rxState.size
      BY <1>1, <2>1, <2>2, MoreAssembly
    <2>4. buf \in Seq(Pieces)
      BY <1>1, <2>1, Appended DEF DataFrames
    <2>5. [more EXCEPT !.count = 0] = fresh
      BY <2>1 DEF Assemblies, More
    <2>6. /\ fresh \in Assemblies /\ fresh.count = 0 /\ fresh.buf = buf
          /\ fresh.size = rxState.size
      BY <1>1, <2>1, MoreAssembly
    <2>7. /\ UNCHANGED <<cts, queue, held, tx>>
          /\ \/ /\ rxReady' = buf /\ rxState' = Idle /\ UNCHANGED <<mailbox, refused>>
             \/ /\ Len(buf) < rxState.size /\ rxState' = more
                /\ UNCHANGED <<rxReady, mailbox, refused>>
             \/ /\ Len(buf) < rxState.size
                /\ mailbox' = FlowControl("ok", rxState.bs) /\ rxState' = fresh
                /\ UNCHANGED <<rxReady, refused>>
             \/ /\ rxState' = Idle /\ refused' = TRUE /\ UNCHANGED <<rxReady, mailbox>>
      BY <1>3, <2>5 DEF ConsecutiveFrame, More
    <2>8. FlowControl("ok", rxState.bs) \in Frames
      BY <2>1, Params, FlowType
    <2> HIDE DEF buf, count, more, fresh
    <2>9. CASE rxReady' = buf /\ rxState' = Idle /\ UNCHANGED <<mailbox, refused>>
      BY <2>4, <2>7, <2>9 DEF Endpoint, EndpointType, EndpointBounds
    <2>10. CASE /\ Len(buf) < rxState.size /\ rxState' = more
                /\ UNCHANGED <<rxReady, mailbox, refused>>
      BY <2>2, <2>3, <2>7, <2>10 DEF Endpoint, EndpointType, EndpointBounds
    <2>11. CASE /\ Len(buf) < rxState.size
                /\ mailbox' = FlowControl("ok", rxState.bs) /\ rxState' = fresh
                /\ UNCHANGED <<rxReady, refused>>
      <3>1. rxState'.count < U8
        BY <2>6, <2>11, Params
      <3> QED
        BY <2>6, <2>7, <2>8, <2>11, <3>1 DEF Endpoint, EndpointType, EndpointBounds
    <2>12. CASE rxState' = Idle /\ refused' = TRUE /\ UNCHANGED <<rxReady, mailbox>>
      BY <2>7, <2>12 DEF Endpoint, EndpointType, EndpointBounds
    <2> QED
      BY <2>7, <2>9, <2>10, <2>11, <2>12
  <1> QED
    BY <1>2, <1>3 DEF ConsecutiveFrame

LEMMA FlowControlFrameType ==
  ASSUME Endpoint, NEW f \in Frames, FlowControlFrame(f)
  PROVE  Endpoint'
  <1>1. f \in FlowFrames
    BY FrameKinds DEF FlowControlFrame
  <1> QED
    BY <1>1 DEF FlowControlFrame, Endpoint, EndpointType, EndpointBounds

\* The task's side of the endpoint.
LEMMA NewWrite ==
  ASSUME NEW at \in {"flow", "block"}, NEW m \in Nat, NEW size \in Nat, NEW pos \in Nat, NEW left \in Nat
  PROVE  Tx(at, m, size, pos, left) \in Writes /\ Tx(at, m, size, pos, left) # NoTx
  <1>1. Tx(at, m, size, pos, left).at # NoTx.at
    BY DEF Tx, NoTx
  <1> QED
    BY <1>1 DEF Tx, Writes

LEMMA WriteFields ==
  ASSUME Endpoint, tx.at # "none"
  PROVE  /\ tx \in Writes /\ tx # NoTx /\ tx.of \in Nat /\ tx.size \in Nat /\ tx.pos \in Nat
         /\ tx.left \in Nat /\ tx.pos < tx.size /\ tx.at \in {"flow", "block"}
  <1>1. tx # NoTx
    BY DEF NoTx
  <1> QED
    BY <1>1 DEF Endpoint, EndpointType, EndpointBounds, Writes

LEMMA WritePayloadType ==
  ASSUME Endpoint, NEW m \in Nat, NEW size \in Nat \ {0}, WritePayload(m, size)
  PROVE  Endpoint'
  <1>1. CASE /\ mailbox' = FrameOf(m, 1, size) /\ UNCHANGED refused
             /\ tx' = IF size = 1 THEN NoTx ELSE Tx("flow", m, size, 1, 0)
    <2>1. mailbox' \in Frames
      BY <1>1, FrameType DEF Frames
    <2>2. CASE size = 1
      BY <1>1, <2>1, <2>2 DEF WritePayload, Endpoint, EndpointType, EndpointBounds
    <2>3. CASE size # 1
      <3>1. tx' \in Writes /\ tx'.pos = 1 /\ tx'.size = size
        BY <1>1, <2>3, NewWrite DEF Tx
      <3>2. tx'.pos < tx'.size
        BY <2>3, <3>1
      <3> QED
        BY <1>1, <2>1, <3>1, <3>2 DEF WritePayload, Endpoint, EndpointType, EndpointBounds
    <2> QED
      BY <2>2, <2>3
  <1>2. CASE refused' = TRUE /\ UNCHANGED <<mailbox, tx>>
    BY <1>2 DEF WritePayload, Endpoint, EndpointType, EndpointBounds
  <1> QED
    BY <1>1, <1>2 DEF WritePayload

LEMMA FlowType2 ==
  ASSUME Endpoint, FlowOk \/ FlowWait \/ FlowReject \/ FlowTimeout \/ Release
  PROVE  Endpoint'
  <1>1. CASE FlowOk
    <2>1. /\ tx \in Writes /\ cts \in FlowFrames /\ cts.bs \in Nat /\ tx.pos < tx.size
      BY <1>1, WriteFields DEF FlowOk, AtFlow, Endpoint, EndpointType, FlowFrames
    <2>2. tx' = [tx EXCEPT !.at = "block", !.left = cts.bs]
      BY <1>1 DEF FlowOk
    <2>3. tx' \in Writes /\ tx'.pos = tx.pos /\ tx'.size = tx.size
      BY <2>1, <2>2 DEF Writes
    <2> QED
      BY <1>1, <2>1, <2>3 DEF FlowOk, Endpoint, EndpointType, EndpointBounds
  <1>2. CASE FlowWait
    BY <1>2 DEF FlowWait, Endpoint, EndpointType, EndpointBounds
  <1>3. CASE FlowReject
    <2>1. mailbox' \in Frames \cup {NoFrame}
      BY <1>3, FlowType DEF FlowReject, Endpoint, EndpointType
    <2> QED
      BY <1>3, <2>1 DEF FlowReject, Endpoint, EndpointType, EndpointBounds
  <1>4. CASE FlowTimeout
    BY <1>4 DEF FlowTimeout, Endpoint, EndpointType, EndpointBounds
  <1>5. CASE Release
    BY <1>5 DEF Release, Endpoint, EndpointType, EndpointBounds
  <1> QED
    BY <1>1, <1>2, <1>3, <1>4, <1>5

LEMMA AfterFrameFacts ==
  ASSUME Endpoint, tx.at = "block"
  PROVE  /\ AfterFrame \in Writes /\ AfterFrame # NoTx /\ AfterFrame.pos = tx.pos + 1
         /\ AfterFrame.size = tx.size /\ AfterFrame.of = tx.of
         /\ AfterFrame.at = (IF tx.left = 1 THEN "flow" ELSE "block")
         /\ AfterFrame.left = (IF tx.left = 0 THEN 0 ELSE tx.left - 1)
  <1>1. tx \in Writes /\ tx.pos + 1 \in Nat /\ tx.left \in Nat
    BY WriteFields
  <1> DEFINE left == IF tx.left = 0 THEN 0 ELSE tx.left - 1
             pos  == tx.pos + 1
  <1>2. left \in Nat /\ (tx.left = 1 => left = 0) /\ pos \in Nat
    BY <1>1
  <1>3. CASE tx.left = 1
    <2>1. AfterFrame = [tx EXCEPT !.at = "flow", !.pos = pos, !.left = 0]
      BY <1>3 DEF AfterFrame
    <2> HIDE DEF left, pos
    <2>2. /\ AfterFrame \in Writes /\ AfterFrame.pos = pos /\ AfterFrame.size = tx.size
          /\ AfterFrame.of = tx.of /\ AfterFrame.at = "flow" /\ AfterFrame.left = 0
      BY <1>1, <1>2, <2>1 DEF Writes
    <2>3. AfterFrame # NoTx
      BY <2>2 DEF NoTx
    <2> QED
      BY <1>2, <1>3, <2>2, <2>3 DEF left, pos
  <1>4. CASE tx.left # 1
    <2>1. AfterFrame = [tx EXCEPT !.pos = pos, !.left = left]
      BY <1>4 DEF AfterFrame
    <2> HIDE DEF left, pos
    <2>2. /\ AfterFrame \in Writes /\ AfterFrame.pos = pos /\ AfterFrame.size = tx.size
          /\ AfterFrame.of = tx.of /\ AfterFrame.at = "block" /\ AfterFrame.left = left
      BY <1>1, <1>2, <2>1 DEF Writes
    <2>3. AfterFrame # NoTx
      BY <2>2 DEF NoTx
    <2> QED
      BY <1>4, <2>2, <2>3 DEF left, pos
  <1> QED
    BY <1>3, <1>4

LEMMA SendConsecutiveType ==
  ASSUME Endpoint, SendConsecutive
  PROVE  Endpoint'
  <1>1. /\ tx.at = "block" /\ tx.pos \in Nat /\ tx.size \in Nat /\ tx.of \in Nat /\ tx.pos < tx.size
        /\ queue \in Seq(DataFrames) /\ Len(queue) \in Nat
    BY WriteFields DEF SendConsecutive, Endpoint, EndpointType
  <1>2. CASE /\ QueueHasRoom /\ queue' = Append(queue, FrameOf(tx.of, tx.pos + 1, tx.size))
             /\ tx' = (IF tx.pos + 1 = tx.size THEN NoTx ELSE AfterFrame) /\ UNCHANGED refused
    <2>1. queue' \in Seq(DataFrames) /\ Len(queue') = Len(queue) + 1
      <3>1. tx.pos + 1 \in Nat \ {0}
        BY <1>1
      <3>2. FrameOf(tx.of, tx.pos + 1, tx.size) \in DataFrames
        BY <1>1, <3>1, FrameType
      <3> QED
        BY <1>1, <1>2, <3>2, Appended
    <2>2. Len(queue') <= QueueSlots
      BY <1>1, <1>2, <2>1, Params DEF QueueHasRoom
    <2>3. tx' \in Writes \cup {NoTx} /\ (tx' # NoTx => tx'.pos < tx'.size)
      <3>1. CASE tx.pos + 1 = tx.size
        BY <1>2, <3>1
      <3>2. CASE tx.pos + 1 # tx.size
        BY <1>1, <1>2, <3>2, AfterFrameFacts
      <3> QED
        BY <3>1, <3>2
    <2> QED
      BY <1>2, <2>1, <2>2, <2>3 DEF SendConsecutive, Endpoint, EndpointType, EndpointBounds
  <1>3. CASE tx' = NoTx /\ refused' = TRUE /\ UNCHANGED queue
    BY <1>3 DEF SendConsecutive, Endpoint, EndpointType, EndpointBounds
  <1> QED
    BY <1>2, <1>3 DEF SendConsecutive

LEMMA OnFrameType ==
  ASSUME Endpoint, NEW f \in Frames, f.pci = "first" => f.size > 1, OnFrameRx(f)
  PROVE  Endpoint'
  BY SingleFrameType, FirstFrameType, ConsecutiveFrameType, FlowControlFrameType DEF OnFrameRx

\* What the controller takes from its buffers to send.
LEMMA SentType ==
  ASSUME Endpoint, NEW f \in Transmitted, Sent(f)
  PROVE  /\ f \in Frames /\ f # NoFrame
         /\ mailbox' \in Frames \cup {NoFrame} /\ queue' \in Seq(DataFrames)
         /\ Len(queue') <= QueueSlots
  <1>1. CASE mailbox # NoFrame /\ f = mailbox /\ mailbox' = NoFrame /\ UNCHANGED queue
    BY <1>1 DEF Endpoint, EndpointType, EndpointBounds
  <1>2. CASE queue # <<>> /\ f = Head(queue) /\ queue' = Tail(queue) /\ UNCHANGED mailbox
    <2>1. queue \in Seq(DataFrames) /\ Len(queue) <= QueueSlots
      BY DEF Endpoint, EndpointType, EndpointBounds
    <2>2. /\ f \in DataFrames /\ queue' \in Seq(DataFrames) /\ Len(queue) \in Nat
          /\ Len(queue') = Len(queue) - 1
      BY <1>2, <2>1, Taken
    <2>3. f \in Frames
      BY <2>2 DEF Frames
    <2>4. f # NoFrame /\ Len(queue') <= QueueSlots
      BY <2>1, <2>2, <2>3, FrameKinds, Params
    <2> QED
      BY <1>2, <2>2, <2>3, <2>4 DEF Endpoint, EndpointType
  <1> QED
    BY <1>1, <1>2 DEF Sent

-----------------------------------------------------------------------------
(* The frames on their way to the board *)

Channel == rxFifo \in Seq(Frames) /\ Firsts

LEMMA MoreFrames ==
  ASSUME Channel, NEW f \in Frames, f.pci = "first" => f.size > 1, rxFifo' = Append(rxFifo, f)
  PROVE  Channel'
  <1>1. /\ rxFifo' \in Seq(Frames) /\ Len(rxFifo') = Len(rxFifo) + 1 /\ Len(rxFifo) \in Nat
        /\ \A i \in 1 .. Len(rxFifo) : rxFifo'[i] = rxFifo[i]
        /\ rxFifo'[Len(rxFifo) + 1] = f
    BY Appended DEF Channel
  <1>2. ASSUME NEW i \in 1 .. Len(rxFifo'), rxFifo'[i].pci = "first"  PROVE rxFifo'[i].size > 1
    <2>1. i \in 1 .. Len(rxFifo) \/ i = Len(rxFifo) + 1
      BY <1>1
    <2> QED
      BY <1>1, <1>2, <2>1 DEF Channel, Firsts
  <1> QED
    BY <1>1, <1>2 DEF Channel, Firsts

LEMMA FewerFrames ==
  ASSUME Channel, rxFifo # <<>>, rxFifo' = Tail(rxFifo)
  PROVE  /\ Channel' /\ Head(rxFifo) \in Frames
         /\ Head(rxFifo).pci = "first" => Head(rxFifo).size > 1
  <1>1. /\ Head(rxFifo) \in Frames /\ Head(rxFifo) = rxFifo[1] /\ rxFifo' \in Seq(Frames)
        /\ Len(rxFifo) \in Nat \ {0} /\ Len(rxFifo') = Len(rxFifo) - 1
        /\ \A i \in 1 .. Len(rxFifo') : rxFifo'[i] = rxFifo[i + 1]
    BY Taken DEF Channel
  <1>2. ASSUME NEW i \in 1 .. Len(rxFifo'), rxFifo'[i].pci = "first"  PROVE rxFifo'[i].size > 1
    <2>1. i + 1 \in 1 .. Len(rxFifo) /\ rxFifo'[i] = rxFifo[i + 1]
      BY <1>1
    <2> QED
      BY <1>2, <2>1 DEF Channel, Firsts
  <1>3. 1 \in 1 .. Len(rxFifo)
    BY <1>1
  <1> QED
    BY <1>1, <1>2, <1>3 DEF Channel, Firsts

-----------------------------------------------------------------------------
(* The tester on CAN keeps its types *)

Senders   == [at : {"idle", "flow", "block", "refused"}, size : Nat, pos : Nat, left : Nat]
Receivers == [at : {"none", "pause", "rx"}, size : Nat, left : Nat, bs : Nat, buf : Seq(Pieces)]

CanTester == Channel /\ ttx \in Senders /\ Begun /\ trx \in Receivers /\ got \in Seq(Pieces)

LEMMA CanTesterIs == TesterType /\ Begun /\ Firsts <=> CanTester
  BY DEF TesterType, CanTester, Channel, Senders, Receivers

LEMMA Quiescent == NotSending \in Senders /\ NotReceiving \in Receivers
  <1>1. NotSending \in Senders
    BY DEF NotSending, Senders
  <1>2. <<>> \in Seq(Pieces)
    OBVIOUS
  <1>3. NotReceiving \in Receivers
    BY <1>2 DEF NotReceiving, Receivers
  <1> QED
    BY <1>1, <1>3

LEMMA AskType ==
  ASSUME CanTester, sends \in Nat, Ask
  PROVE  CanTester' /\ sends' = sends + 1 /\ sends < setting.can
  <1>1. PICK size \in Sizes :
          /\ rxFifo' = Append(rxFifo, FrameOf(sends + 1, 1, size))
          /\ ttx' = IF size = 1 THEN NotSending
                    ELSE [at |-> "flow", size |-> size, pos |-> 1, left |-> 0]
    BY DEF Ask
  <1>2. size \in Nat \ {0}
    BY Params
  <1> DEFINE f == FrameOf(sends + 1, 1, size)
  <1>3. f \in DataFrames /\ f.size = size /\ f.pci = (IF size = 1 THEN "single" ELSE "first")
    <2> DEFINE m == sends + 1
               k == 1
    <2>1. m \in Nat /\ k \in Nat \ {0} /\ size \in Nat /\ ~(k > 1)
      BY <1>2
    <2>2. f = FrameOf(m, k, size)
      OBVIOUS
    <2> HIDE DEF m, k, f
    <2>3. /\ FrameOf(m, k, size) \in DataFrames /\ FrameOf(m, k, size).size = size
          /\ FrameOf(m, k, size).pci =
               (IF k > 1 THEN "consecutive" ELSE IF size = 1 THEN "single" ELSE "first")
      BY <2>1, FrameType
    <2> QED
      BY <2>1, <2>2, <2>3
  <1> HIDE DEF f
  <1>4. f \in Frames /\ (f.pci = "first" => f.size > 1)
    BY <1>2, <1>3 DEF Frames
  <1>5. Channel'
    BY <1>1, <1>4, MoreFrames DEF CanTester, f
  <1>6. ttx' \in Senders /\ Begun'
    <2>1. CASE size = 1
      BY <1>1, <2>1, Quiescent DEF Begun, NotSending
    <2>2. CASE size # 1
      <3>1. ttx' = [at |-> "flow", size |-> size, pos |-> 1, left |-> 0]
        BY <1>1, <2>2
      <3>2. ttx' \in Senders /\ ttx'.pos = 1 /\ ttx'.size = size
        BY <1>2, <3>1 DEF Senders
      <3> QED
        BY <1>2, <2>2, <3>2 DEF Begun
    <2> QED
      BY <2>1, <2>2
  <1> QED
    BY <1>5, <1>6 DEF Ask, CanTester

LEMMA SendBlockType ==
  ASSUME CanTester, sends \in Nat, SendBlock
  PROVE  CanTester' /\ UNCHANGED sends
  <1>1. /\ ttx \in Senders /\ ttx.pos \in Nat \ {0} /\ ttx.size \in Nat /\ ttx.left \in Nat
        /\ ttx.pos < ttx.size
    BY DEF SendBlock, CanTester, Senders, Begun
  <1> DEFINE f    == FrameOf(sends, ttx.pos + 1, ttx.size)
             pos  == ttx.pos + 1
             at   == IF ttx.left = 1 THEN "flow" ELSE "block"
             left == IF ttx.left = 0 THEN 0 ELSE ttx.left - 1
  <1>2. f \in Frames /\ f.pci # "first"
    <2>1. pos \in Nat \ {0} /\ pos > 1 /\ sends \in Nat /\ ttx.size \in Nat
      BY <1>1
    <2> HIDE DEF pos
    <2>2. FrameOf(sends, pos, ttx.size) \in DataFrames /\ FrameOf(sends, pos, ttx.size).pci = "consecutive"
      BY <2>1, FrameType
    <2>3. f = FrameOf(sends, pos, ttx.size)
      BY DEF pos
    <2> HIDE DEF f
    <2> QED
      BY <2>2, <2>3 DEF Frames
  <1> HIDE DEF f
  <1>3. Channel'
    BY <1>2, MoreFrames DEF SendBlock, CanTester, f
  <1>4. ttx' = IF ttx.pos + 1 = ttx.size THEN NotSending
               ELSE [ttx EXCEPT !.pos = pos, !.at = at, !.left = left]
    BY DEF SendBlock
  <1>5. pos \in Nat \ {0} /\ left \in Nat /\ at \in {"flow", "block"} /\ pos = ttx.pos + 1
    BY <1>1
  <1> HIDE DEF pos, at, left
  <1>6. ttx' \in Senders /\ Begun'
    <2>1. CASE pos = ttx.size
      BY <1>4, <1>5, <2>1, Quiescent DEF Begun, NotSending
    <2>2. CASE pos # ttx.size
      <3>1. ttx' = [ttx EXCEPT !.pos = pos, !.at = at, !.left = left]
        BY <1>4, <1>5, <2>2
      <3>2. ttx' \in Senders /\ ttx'.pos = pos /\ ttx'.size = ttx.size
        BY <1>1, <1>5, <3>1 DEF Senders
      <3> QED
        BY <1>1, <1>5, <2>2, <3>2 DEF Begun
    <2> QED
      BY <2>1, <2>2
  <1> QED
    BY <1>3, <1>6 DEF SendBlock, CanTester

LEMMA ResumeType ==
  ASSUME CanTester, Resume
  PROVE  CanTester' /\ UNCHANGED sends
  <1>1. trx \in Receivers /\ trx.bs \in Nat
    BY DEF CanTester, Receivers
  <1>2. Channel'
    BY <1>1, FlowType, MoreFrames DEF Resume, CanTester
  <1>3. trx' \in Receivers
    BY <1>1 DEF Resume, Receivers
  <1> QED
    BY <1>2, <1>3 DEF Resume, CanTester, Begun

LEMMA TesterTimeoutType ==
  ASSUME CanTester, TesterTimeout
  PROVE  CanTester' /\ UNCHANGED sends
  <1>1. CASE ttx' = NotSending /\ UNCHANGED trx
    BY <1>1, Quiescent DEF TesterTimeout, CanTester, Channel, Firsts, Begun, NotSending
  <1>2. CASE trx' = NotReceiving /\ UNCHANGED ttx
    BY <1>2, Quiescent DEF TesterTimeout, CanTester, Channel, Firsts, Begun
  <1> QED
    BY <1>1, <1>2 DEF TesterTimeout

LEMMA GetsFlowType ==
  ASSUME CanTester, NEW f \in Frames, GetsFlow(f)
  PROVE  CanTester'
  <1>1. f \in FlowFrames /\ f.bs \in Nat /\ ttx \in Senders
    BY FrameKinds DEF GetsFlow, CanTester, FlowFrames
  <1>2. ttx' \in Senders /\ Begun'
    <2>1. CASE ttx.at # "flow"
      BY <1>1, <2>1 DEF GetsFlow, CanTester, Begun
    <2>2. CASE ttx.at = "flow" /\ f.fs = "ok"
      <3>1. ttx' = [ttx EXCEPT !.at = "block", !.left = f.bs]
        BY <2>2 DEF GetsFlow
      <3>2. ttx' \in Senders /\ ttx'.pos = ttx.pos /\ ttx'.size = ttx.size
        BY <1>1, <3>1 DEF Senders
      <3> QED
        BY <2>2, <3>2 DEF CanTester, Begun
    <2>3. CASE ttx.at = "flow" /\ f.fs # "ok"
      <3>1. ttx' = [NotSending EXCEPT !.at = "refused"]
        BY <2>3 DEF GetsFlow
      <3>2. ttx' = [at |-> "refused", size |-> 0, pos |-> 0, left |-> 0]
        BY <3>1 DEF NotSending
      <3> QED
        BY <3>2 DEF Senders, Begun
    <2> QED
      BY <2>1, <2>2, <2>3
  <1> QED
    BY <1>2 DEF GetsFlow, CanTester, Channel, Firsts

LEMMA GetsSingleType ==
  ASSUME CanTester, NEW f \in Frames, GetsSingle(f)
  PROVE  CanTester'
  <1>1. f.data \in Pieces
    BY FrameKinds DEF GetsSingle, DataFrames
  <1>2. got' \in Seq(Pieces)
    BY <1>1 DEF GetsSingle
  <1> QED
    BY <1>2, Quiescent DEF GetsSingle, CanTester, Channel, Firsts, Begun

\* What a tester is receiving after a first frame.
LEMMA NewReceiver ==
  ASSUME NEW at \in {"pause", "rx"}, NEW f \in DataFrames, NEW bs \in Nat,
         NEW r, r = [at |-> at, size |-> f.size, left |-> bs, bs |-> bs, buf |-> <<f.data>>]
  PROVE  /\ r \in Receivers /\ r.buf = <<f.data>> /\ r.size = f.size /\ r.at = at
         /\ r.left = bs /\ r.bs = bs
  <1>1. f.data \in Pieces /\ f.size \in Nat
    BY DEF DataFrames
  <1>2. <<f.data>> \in Seq(Pieces)
    BY <1>1
  <1> QED
    BY <1>1, <1>2 DEF Receivers

LEMMA GetsFirstType ==
  ASSUME CanTester, NEW f \in Frames, GetsFirst(f)
  PROVE  CanTester'
  <1>1. f \in DataFrames
    BY FrameKinds DEF GetsFirst
  <1>2. PICK bs \in TesterBs, fs \in {"ok", "wait", "reject"} :
          /\ rxFifo' = Append(rxFifo, FlowControl(fs, IF fs = "ok" THEN bs ELSE 0))
          /\ trx' = CASE fs = "reject" -> NotReceiving
                      [] OTHER -> [at |-> IF fs = "ok" THEN "rx" ELSE "pause",
                                   size |-> f.size, left |-> bs, bs |-> bs, buf |-> <<f.data>>]
    BY DEF GetsFirst
  <1> DEFINE x  == IF fs = "ok" THEN bs ELSE 0
             at == IF fs = "ok" THEN "rx" ELSE "pause"
  <1>3. bs \in Nat /\ x \in Nat /\ at \in {"pause", "rx"}
    BY Params
  <1> HIDE DEF x, at
  <1>4. Channel'
    <2>1. FlowControl(fs, x) \in Frames /\ FlowControl(fs, x).pci # "first"
      BY <1>3, FlowType
    <2> QED
      BY <1>2, <2>1, MoreFrames DEF CanTester, x
  <1>5. trx' \in Receivers
    <2>1. CASE fs = "reject"
      BY <1>2, <2>1, Quiescent
    <2>2. CASE fs # "reject"
      <3>1. trx' = [at |-> at, size |-> f.size, left |-> bs, bs |-> bs, buf |-> <<f.data>>]
        BY <1>2, <2>2 DEF at
      <3> QED
        BY <1>1, <1>3, <3>1, NewReceiver
    <2> QED
      BY <2>1, <2>2
  <1> QED
    BY <1>4, <1>5 DEF GetsFirst, CanTester, Begun

\* A receiver after one more frame, of a block that goes on or has ended.
MoreReceived(f) ==
  [trx EXCEPT !.buf = Append(trx.buf, f.data),
              !.left = IF trx.left = 1 THEN trx.bs ELSE IF trx.left = 0 THEN 0 ELSE trx.left - 1]

LEMMA MoreReceiver ==
  ASSUME trx \in Receivers, NEW f \in DataFrames
  PROVE  /\ MoreReceived(f) \in Receivers /\ MoreReceived(f).buf = Append(trx.buf, f.data)
         /\ MoreReceived(f).size = trx.size /\ MoreReceived(f).bs = trx.bs
         /\ MoreReceived(f).at = trx.at
         /\ MoreReceived(f).left =
              (IF trx.left = 1 THEN trx.bs ELSE IF trx.left = 0 THEN 0 ELSE trx.left - 1)
  <1>1. trx.left \in Nat /\ trx.bs \in Nat /\ trx.buf \in Seq(Pieces) /\ f.data \in Pieces
    BY DEF Receivers, DataFrames
  <1> DEFINE buf  == Append(trx.buf, f.data)
             left == IF trx.left = 1 THEN trx.bs ELSE IF trx.left = 0 THEN 0 ELSE trx.left - 1
  <1>2. buf \in Seq(Pieces) /\ left \in Nat
    BY <1>1, Appended
  <1>3. MoreReceived(f) = [trx EXCEPT !.buf = buf, !.left = left]
    BY DEF MoreReceived
  <1> HIDE DEF buf, left
  <1>4. /\ MoreReceived(f) \in Receivers /\ MoreReceived(f).buf = buf
        /\ MoreReceived(f).size = trx.size /\ MoreReceived(f).bs = trx.bs
        /\ MoreReceived(f).at = trx.at /\ MoreReceived(f).left = left
    BY <1>2, <1>3 DEF Receivers
  <1> QED
    BY <1>4 DEF buf, left

\* The four things that a consecutive frame may do to a tester.
LEMMA ConsecutiveCases ==
  ASSUME trx \in Receivers, NEW f \in DataFrames, GetsConsecutive(f)
  PROVE  /\ UNCHANGED ttx
         /\ \/ trx.buf = <<>> /\ UNCHANGED <<rxFifo, trx, got>>
            \/ trx' = NotReceiving /\ UNCHANGED <<rxFifo, got>>
            \/ /\ trx.buf # <<>> /\ f.sn = Len(trx.buf) % SnMod
               /\ Len(Append(trx.buf, f.data)) = trx.size
               /\ got' = Append(trx.buf, f.data) /\ trx' = NotReceiving /\ UNCHANGED rxFifo
            \/ /\ trx.buf # <<>> /\ f.sn = Len(trx.buf) % SnMod
               /\ Len(Append(trx.buf, f.data)) # trx.size
               /\ trx' = MoreReceived(f) /\ UNCHANGED got
               /\ rxFifo' = IF trx.left = 1 THEN Append(rxFifo, FlowControl("ok", trx.bs))
                            ELSE rxFifo
  <1>1. trx.left \in Nat
    BY DEF Receivers
  <1> DEFINE left == IF trx.left = 1 THEN trx.bs ELSE IF trx.left = 0 THEN 0 ELSE trx.left - 1
             buf  == Append(trx.buf, f.data)
  <1>2. MoreReceived(f) = [trx EXCEPT !.buf = buf, !.left = left]
    BY DEF MoreReceived
  <1>3. /\ UNCHANGED ttx
        /\ \/ trx.buf = <<>> /\ UNCHANGED <<rxFifo, trx, got>>
           \/ trx' = NotReceiving /\ UNCHANGED <<rxFifo, got>>
           \/ /\ trx.buf # <<>> /\ f.sn = Len(trx.buf) % SnMod
              /\ IF Len(buf) = trx.size
                 THEN got' = buf /\ trx' = NotReceiving /\ UNCHANGED rxFifo
                 ELSE /\ trx' = [trx EXCEPT !.buf = buf, !.left = left]
                      /\ rxFifo' = IF trx.left = 1 THEN Append(rxFifo, FlowControl("ok", trx.bs))
                                   ELSE rxFifo
                      /\ UNCHANGED got
    BY DEF GetsConsecutive
  <1> HIDE DEF left
  <1> QED
    BY <1>2, <1>3

LEMMA GetsConsecutiveType ==
  ASSUME CanTester, NEW f \in Frames, GetsConsecutive(f)
  PROVE  CanTester'
  <1>1. f \in DataFrames /\ f.data \in Pieces /\ trx \in Receivers /\ trx.buf \in Seq(Pieces)
        /\ trx.bs \in Nat
    BY FrameKinds DEF GetsConsecutive, DataFrames, CanTester, Receivers
  <1>2. MoreReceived(f) \in Receivers /\ Append(trx.buf, f.data) \in Seq(Pieces)
    BY <1>1, MoreReceiver, Appended
  <1>3. UNCHANGED ttx
    BY <1>1, ConsecutiveCases
  <1>4. CASE UNCHANGED rxFifo /\ trx' \in Receivers /\ got' \in Seq(Pieces)
    BY <1>3, <1>4 DEF CanTester, Channel, Firsts, Begun
  <1>5. CASE rxFifo' = Append(rxFifo, FlowControl("ok", trx.bs)) /\ trx' \in Receivers /\ UNCHANGED got
    <2>1. Channel'
      BY <1>1, <1>5, FlowType, MoreFrames DEF CanTester
    <2> QED
      BY <1>3, <1>5, <2>1 DEF CanTester, Begun
  <1> QED
    BY <1>1, <1>2, <1>4, <1>5, ConsecutiveCases, Quiescent DEF CanTester

LEMMA TesterGetsType ==
  ASSUME CanTester, NEW f \in Frames, TesterGets(f)
  PROVE  CanTester' /\ UNCHANGED sends
  BY GetsFlowType, GetsSingleType, GetsFirstType, GetsConsecutiveType DEF TesterGets

-----------------------------------------------------------------------------
(* The channel over USB keeps its types *)

LEMMA PacketsType ==
  ASSUME NEW m \in Nat, NEW size \in Nat
  PROVE  Packets(m, size) \in Seq(UsbPackets) /\ Len(Packets(m, size)) = size
  <1>1. \A k \in 1 .. size : [of |-> m, part |-> k, size |-> size] \in UsbPackets
    BY DEF UsbPackets
  <1>2. Packets(m, size) \in [1 .. size -> UsbPackets]
    BY <1>1 DEF Packets
  <1> QED
    BY <1>2

LEMMA TransmitType ==
  ASSUME UsbType, usbSends \in Nat, NEW size \in Nat, Transmit(size)
  PROVE  usbIn' \in Seq(UsbPackets) /\ usbSends' = usbSends + 1
  BY PacketsType, ConcatProperties DEF UsbType, Transmit

LEMMA PollType ==
  ASSUME UsbType, Poll
  PROVE  UsbType' /\ UNCHANGED usbSends
  <1> DEFINE p   == Head(usbIn)
             now == IF reading = NotReading THEN [size |-> p.size, buf |-> <<p>>]
                    ELSE [reading EXCEPT !.buf = Append(@, p)]
  <1>1. p \in UsbPackets /\ p.size \in Nat /\ usbIn' \in Seq(UsbPackets)
    <2>1. usbIn \in Seq(UsbPackets) /\ usbIn # <<>> /\ usbIn' = Tail(usbIn)
      BY DEF UsbType, Poll
    <2>2. p \in UsbPackets /\ usbIn' \in Seq(UsbPackets)
      BY <2>1, Taken
    <2> HIDE DEF p
    <2> QED
      BY <2>2 DEF UsbPackets
  <1> HIDE DEF p
  <1>2. now \in [size : Nat, buf : Seq(UsbPackets)]
    <2>1. CASE reading = NotReading
      <3>1. <<p>> \in Seq(UsbPackets)
        BY <1>1
      <3> QED
        BY <1>1, <2>1, <3>1
    <2>2. CASE reading # NotReading
      <3>1. reading \in [size : Nat, buf : Seq(UsbPackets)]
        BY <2>2 DEF UsbType
      <3>2. Append(reading.buf, p) \in Seq(UsbPackets)
        BY <1>1, <3>1, Appended
      <3> DEFINE buf == Append(reading.buf, p)
      <3>3. now = [reading EXCEPT !.buf = buf]
        BY <2>2
      <3> HIDE DEF buf, now
      <3> QED
        BY <3>1, <3>2, <3>3 DEF buf
    <2> QED
      BY <2>1, <2>2
  <1>3. \/ usbReady' = now.buf /\ reading' = NotReading
        \/ reading' = now /\ UNCHANGED usbReady
    BY DEF Poll, p
  <1> HIDE DEF now
  <1>4. now.buf \in Seq(UsbPackets)
    BY <1>2
  <1> QED
    BY <1>1, <1>2, <1>3, <1>4 DEF Poll, UsbType

LEMMA HostType ==
  ASSUME UsbType, usbSends \in Nat, HostAsk \/ HostReopen \/ HostGivesUp \/ HostReceive
  PROVE  /\ UsbType'
         /\ usbSends' = usbSends \/ ((HostAsk \/ HostReopen) /\ usbSends' = usbSends + 1)
  <1> DEFINE Hosts == [at : {"idle", "first", "second", "failed"}, size : Nat, since : Nat,
                       got : Nat, late : BOOLEAN]
  <1>1. host \in Hosts /\ host.size \in Nat /\ host.since \in Nat
    BY DEF UsbType
  <1>2. CASE HostAsk
    <2>1. PICK size \in UsbSizes \cup {host.size}, since \in Nat :
            /\ Transmit(size)
            /\ host' = [host EXCEPT !.at = "first", !.size = size, !.since = since]
      <3>1. PICK size \in UsbSizes \cup {host.size} :
              /\ Transmit(size)
              /\ \E again \in BOOLEAN :
                   host' = [host EXCEPT !.at = "first", !.size = size,
                                        !.since = IF again THEN @ ELSE usbSends + 1]
        BY <1>2 DEF HostAsk
      <3>2. PICK again \in BOOLEAN :
              host' = [host EXCEPT !.at = "first", !.size = size,
                                   !.since = IF again THEN @ ELSE usbSends + 1]
        BY <3>1
      <3> DEFINE since == IF again THEN host.since ELSE usbSends + 1
      <3>3. host' = [host EXCEPT !.at = "first", !.size = size, !.since = since] /\ since \in Nat
        BY <1>1, <3>2
      <3> HIDE DEF since
      <3> QED
        BY <3>1, <3>3
    <2>2. size \in Nat
      BY <1>1, Params
    <2>3. host' \in Hosts
      BY <1>1, <2>1, <2>2
    <2>4. usbIn' \in Seq(UsbPackets) /\ usbSends' = usbSends + 1
      BY <2>1, <2>2, TransmitType
    <2> QED
      BY <1>2, <2>3, <2>4 DEF HostAsk, UsbType
  <1>3. CASE HostReopen
    <2>1. host' \in Hosts
      BY <1>1, <1>3 DEF HostReopen
    <2>2. usbIn' \in Seq(UsbPackets) /\ usbSends' = usbSends + 1
      BY <1>1, <1>3, TransmitType DEF HostReopen
    <2>3. usbOut' \in Seq(Nat)
      BY <1>3 DEF HostReopen
    <2> QED
      BY <1>3, <2>1, <2>2, <2>3 DEF HostReopen, UsbType
  <1>4. CASE HostGivesUp
    <2>1. host' \in Hosts
      BY <1>1, <1>4 DEF HostGivesUp
    <2> QED
      BY <1>4, <2>1 DEF HostGivesUp, UsbType
  <1>5. CASE HostReceive
    <2>1. Head(usbOut) \in Nat /\ usbOut' \in Seq(Nat)
      BY <1>5, Taken DEF HostReceive, UsbType
    <2>2. host' \in Hosts
      BY <1>1, <1>5, <2>1 DEF HostReceive
    <2> QED
      BY <1>5, <2>1, <2>2 DEF HostReceive, UsbType
  <1> QED
    BY <1>2, <1>3, <1>4, <1>5

-----------------------------------------------------------------------------
(* Every step keeps the types *)

LEMMA LinkTypeIs ==
  LinkType <=> Endpoint /\ TaskType /\ CanTester /\ BoundsType /\ UsbType
  BY CanTesterIs DEF LinkType, Endpoint

LEMMA LinkTypeNext ==
  ASSUME Endpoint', TaskType', CanTester', BoundsType', UsbType'
  PROVE  LinkType'
  BY DEF LinkType, Endpoint, CanTester, TesterType, Channel, Senders, Receivers

LEMMA TaskActionsType ==
  ASSUME LinkType, TakeCan \/ TakeUsb \/ AnswerCan \/ AnswerUsb \/ Replied
  PROVE  Endpoint' /\ TaskType' /\ UsbType' /\ UNCHANGED usbSends
  <1> DEFINE Jobs == [at : {"select", "process", "reply"}, via : {"none", "can", "usb"}, of : Nat]
  <1>1. /\ Endpoint /\ UsbType /\ job \in Jobs /\ job.of \in Nat
        /\ handed \in Seq(Pieces) /\ served \in Nat /\ rxReady \in Seq(Pieces)
    BY DEF LinkType, Endpoint, EndpointType, TaskType
  <1>2. Select \in Jobs
    BY DEF Select
  <1>3. CASE TakeCan
    <2>1. rxReady[1] \in Pieces
      BY <1>1, <1>3, Taken DEF TakeCan, NoPayload
    <2>2. rxReady[1][1] \in Nat
      BY <2>1 DEF Pieces
    <2>3. job' \in Jobs
      BY <1>3, <2>2 DEF TakeCan
    <2>4. <<>> \in Seq(Pieces)
      OBVIOUS
    <2>5. Endpoint'
      BY <1>1, <1>3, <2>4 DEF TakeCan, NoPayload, Endpoint, EndpointType, EndpointBounds
    <2>6. handed' \in Seq(Pieces) /\ served' \in Nat
      BY <1>1, <1>3 DEF TakeCan
    <2> QED
      BY <1>1, <1>3, <2>3, <2>5, <2>6 DEF TakeCan, TaskType, UsbType, usbVars
  <1>4. CASE TakeUsb
    <2>1. usbReady \in Seq(UsbPackets) /\ usbReady # <<>>
      BY <1>4 DEF TakeUsb, LinkType, UsbType
    <2>2. usbReady[1] \in UsbPackets
      BY <2>1, Taken
    <2>3. usbReady[1].of \in Nat
      BY <2>2 DEF UsbPackets
    <2>4. job' \in Jobs
      BY <1>4, <2>3 DEF TakeUsb
    <2>5. <<>> \in Seq(UsbPackets)
      OBVIOUS
    <2>6. UsbType'
      BY <1>1, <1>4, <2>5 DEF TakeUsb, UsbType
    <2> QED
      BY <1>1, <1>4, <2>4, <2>6, EndpointKept DEF TakeUsb, TaskType
  <1>5. CASE AnswerCan
    <2>1. Endpoint'
      <3>1. PICK size \in ReplySizes : WritePayload(job.of, size)
        BY <1>5 DEF AnswerCan
      <3>2. size \in Nat \ {0}
        BY Params
      <3> QED
        BY <1>1, <3>1, <3>2, WritePayloadType
    <2>2. job' \in Jobs
      BY <1>1, <1>5 DEF AnswerCan
    <2> QED
      BY <1>1, <1>5, <2>1, <2>2 DEF AnswerCan, TaskType, UsbType, usbVars
  <1>6. CASE AnswerUsb
    <2>1. usbOut' \in Seq(Nat)
      BY <1>1, <1>6, Appended DEF AnswerUsb, UsbWrite, UsbType
    <2> QED
      BY <1>1, <1>2, <1>6, <2>1, EndpointKept DEF AnswerUsb, UsbWrite, TaskType, UsbType
  <1>7. CASE Replied
    BY <1>1, <1>2, <1>7, EndpointKept DEF Replied, TaskType, UsbType, usbVars
  <1> QED
    BY <1>3, <1>4, <1>5, <1>6, <1>7

LEMMA BoardType ==
  ASSUME LinkType, Board, UNCHANGED setting
  PROVE  LinkType'
  <1>1. Endpoint /\ TaskType /\ CanTester /\ BoundsType /\ UsbType /\ usbSends \in Nat
    BY LinkTypeIs DEF BoundsType
  <1>2. UNCHANGED <<testerVars, lost>>
    BY DEF Board
  <1>3. CanTester'
    BY <1>1, <1>2 DEF testerVars, CanTester, Channel, Firsts, Begun
  <1>4. CASE TakeCan \/ TakeUsb \/ AnswerCan \/ AnswerUsb \/ Replied
    <2>1. Endpoint' /\ TaskType' /\ UsbType' /\ UNCHANGED usbSends
      BY <1>4, TaskActionsType
    <2>2. BoundsType'
      BY <1>1, <1>2, <2>1 DEF BoundsType, testerVars
    <2> QED
      BY <1>3, <2>1, <2>2, LinkTypeNext
  <1>5. CASE /\ FlowOk \/ FlowWait \/ FlowReject \/ SendConsecutive \/ Release \/ FlowTimeout
             /\ UNCHANGED <<usbVars, taskVars>>
    <2>1. Endpoint'
      BY <1>1, <1>5, FlowType2, SendConsecutiveType
    <2>2. TaskType' /\ UsbType' /\ BoundsType'
      BY <1>1, <1>2, <1>5 DEF TaskType, UsbType, BoundsType, taskVars, usbVars, testerVars
    <2> QED
      BY <1>3, <2>1, <2>2, LinkTypeNext
  <1>6. CASE Poll /\ UNCHANGED <<isotpVars, taskVars>>
    <2>1. Endpoint' /\ UsbType' /\ UNCHANGED usbSends
      BY <1>1, <1>6, EndpointKept, PollType
    <2>2. TaskType' /\ BoundsType'
      BY <1>1, <1>2, <1>6, <2>1 DEF TaskType, BoundsType, taskVars, testerVars
    <2> QED
      BY <1>3, <2>1, <2>2, LinkTypeNext
  <1> QED
    BY <1>4, <1>5, <1>6 DEF Board

LEMMA ToTesterType ==
  ASSUME LinkType, ToTester, UNCHANGED setting
  PROVE  LinkType'
  <1>1. Endpoint /\ TaskType /\ CanTester /\ BoundsType /\ UsbType
    BY LinkTypeIs
  <1>2. PICK f \in Transmitted : Sent(f) /\ TesterGets(f)
    BY DEF ToTester
  <1>3. /\ f \in Frames /\ mailbox' \in Frames \cup {NoFrame} /\ queue' \in Seq(DataFrames)
        /\ Len(queue') <= QueueSlots
    BY <1>1, <1>2, SentType
  <1>4. Endpoint'
    BY <1>1, <1>3 DEF ToTester, Endpoint, EndpointType, EndpointBounds
  <1>5. CanTester' /\ UNCHANGED sends
    BY <1>1, <1>2, <1>3, TesterGetsType
  <1>6. TaskType' /\ UsbType' /\ BoundsType'
    BY <1>1, <1>5 DEF ToTester, TaskType, UsbType, BoundsType, taskVars, usbVars
  <1> QED
    BY <1>4, <1>5, <1>6, LinkTypeNext

LEMMA ToBoardType ==
  ASSUME LinkType, ToBoard, UNCHANGED setting
  PROVE  LinkType'
  <1>1. Endpoint /\ TaskType /\ CanTester /\ BoundsType /\ UsbType
    BY LinkTypeIs
  <1>2. /\ Channel' /\ Head(rxFifo) \in Frames
        /\ Head(rxFifo).pci = "first" => Head(rxFifo).size > 1
    BY <1>1, FewerFrames DEF CanTester, ToBoard
  <1>3. Endpoint'
    BY <1>1, <1>2, OnFrameType DEF ToBoard
  <1>4. CanTester' /\ TaskType' /\ UsbType' /\ BoundsType'
    BY <1>1, <1>2 DEF ToBoard, CanTester, Begun, TaskType, UsbType, BoundsType, taskVars, usbVars
  <1> QED
    BY <1>3, <1>4, LinkTypeNext

LEMMA LoseType ==
  ASSUME LinkType, Lose, UNCHANGED setting
  PROVE  LinkType'
  <1>1. Endpoint /\ TaskType /\ CanTester /\ BoundsType /\ UsbType
    BY LinkTypeIs
  <1>2. TaskType' /\ UsbType' /\ BoundsType'
    BY <1>1, DiagAssumption DEF Lose, TaskType, UsbType, BoundsType, taskVars, usbVars
  <1>3. CASE (\E f \in Transmitted : Sent(f)) /\ UNCHANGED rxFifo
    <2>1. /\ mailbox' \in Frames \cup {NoFrame} /\ queue' \in Seq(DataFrames)
          /\ Len(queue') <= QueueSlots
      BY <1>1, <1>3, SentType
    <2>2. Endpoint' /\ CanTester'
      BY <1>1, <1>3, <2>1
         DEF Lose, Endpoint, EndpointType, EndpointBounds, CanTester, Channel, Firsts, Begun
    <2> QED
      BY <1>2, <2>2, LinkTypeNext
  <1>4. CASE rxFifo # <<>> /\ rxFifo' = Tail(rxFifo) /\ UNCHANGED <<mailbox, queue>>
    <2>1. Channel'
      BY <1>1, <1>4, FewerFrames DEF CanTester
    <2>2. Endpoint' /\ CanTester'
      BY <1>1, <1>4, <2>1 DEF Lose, Endpoint, EndpointType, EndpointBounds, CanTester, Begun
    <2> QED
      BY <1>2, <2>2, LinkTypeNext
  <1> QED
    BY <1>3, <1>4 DEF Lose

LEMMA EndsType ==
  ASSUME LinkType, Tester \/ Host, UNCHANGED setting
  PROVE  LinkType'
  <1>1. /\ Endpoint /\ TaskType /\ CanTester /\ BoundsType /\ UsbType
        /\ sends \in Nat /\ usbSends \in Nat
        /\ setting.can \in Nat /\ setting.usb \in Nat
    BY LinkTypeIs DEF BoundsType
  <1>2. CASE Tester
    <2>1. Endpoint' /\ TaskType' /\ UsbType'
      BY <1>1, <1>2, EndpointKept DEF Tester, TaskType, UsbType, taskVars, usbVars
    <2>2. CanTester' /\ (UNCHANGED sends \/ (sends' = sends + 1 /\ sends < setting.can))
      BY <1>1, <1>2, AskType, SendBlockType, ResumeType, TesterTimeoutType DEF Tester
    <2>3. BoundsType'
      BY <1>1, <1>2, <2>2 DEF Tester, BoundsType, usbVars
    <2> QED
      BY <2>1, <2>2, <2>3, LinkTypeNext
  <1>3. CASE Host
    <2>1. Endpoint' /\ TaskType' /\ CanTester'
      BY <1>1, <1>3, EndpointKept
         DEF Host, TaskType, taskVars, testerVars, CanTester, Channel, Firsts, Begun
    <2>2. /\ UsbType' /\ usbSends' \in {usbSends, usbSends + 1}
          /\ usbSends' # usbSends => usbSends < setting.usb
      <3>1. CASE usbSends < setting.usb /\ (HostAsk \/ HostReopen)
        BY <1>1, <3>1, HostType
      <3>2. CASE HostGivesUp \/ HostReceive
        BY <1>1, <3>2, HostType DEF HostGivesUp, HostReceive
      <3> QED
        BY <1>3, <3>1, <3>2 DEF Host
    <2>3. BoundsType'
      BY <1>1, <1>3, <2>2 DEF Host, BoundsType, testerVars
    <2> QED
      BY <2>1, <2>2, <2>3, LinkTypeNext
  <1> QED
    BY <1>2, <1>3

LEMMA LinkTypeInit == DiagInit => LinkType
  <1> SUFFICES ASSUME DiagInit  PROVE LinkType
    OBVIOUS
  <1>1. Endpoint
    <2>1. /\ rxState = Idle /\ cts = NoFrame /\ mailbox = NoFrame /\ tx = NoTx
          /\ held = FALSE /\ refused = FALSE
      BY DEF DiagInit, IsoTpInit
    <2>2. rxReady \in Seq(Pieces) /\ queue \in Seq(DataFrames)
      BY DEF DiagInit, IsoTpInit, NoPayload
    <2>3. Len(queue) = 0
      BY DEF DiagInit, IsoTpInit
    <2>4. EndpointType
      BY <2>1, <2>2 DEF EndpointType
    <2>5. EndpointBounds
      BY <2>1, <2>3, Params DEF EndpointBounds
    <2> QED
      BY <2>4, <2>5 DEF Endpoint
  <1>2. TaskType
    BY DEF DiagInit, TaskType, Select
  <1>3. CanTester
    BY Quiescent DEF DiagInit, CanTester, Channel, Firsts, Begun, NotSending
  <1>4. BoundsType
    BY DiagAssumption DEF DiagInit, UsbInit, BoundsType
  <1>5. UsbType
    BY DEF DiagInit, UsbInit, UsbType
  <1> QED
    BY <1>1, <1>2, <1>3, <1>4, <1>5, LinkTypeIs

LEMMA LinkTypeStep == LinkType /\ [DiagNext]_diagVars => LinkType'
  <1> SUFFICES ASSUME LinkType, [DiagNext]_diagVars  PROVE LinkType'
    OBVIOUS
  <1>1. CASE DiagNext
    BY <1>1, BoardType, ToTesterType, ToBoardType, LoseType, EndsType DEF DiagNext
  <1>2. CASE UNCHANGED diagVars
    BY <1>2 DEF diagVars, isotpVars, usbVars, taskVars, testerVars, LinkType, EndpointType,
                EndpointBounds, TaskType, TesterType, Begun, Firsts, BoundsType, UsbType
  <1> QED
    BY <1>1, <1>2

\* Whatever is sent, lost, refused or given up, what the endpoint, the task and
\* the testers hold is of its kind: a reassembly is never whole and never has
\* more pieces than its message, the block counter stays in its byte, the
\* transmit queue in its buffers, and a write within its answer.
THEOREM LinkTyped == DiagSpec => []DiagTypeOK
  <1>1. LinkType => DiagTypeOK
    <2> SUFFICES ASSUME LinkType  PROVE DiagTypeOK
      OBVIOUS
    <2>1. tx.at \in {"none", "flow", "block"}
      BY DEF LinkType, EndpointType, Writes, NoTx
    <2>2. /\ job.at \in {"select", "process", "reply"} /\ job.via \in {"none", "can", "usb"}
          /\ ttx.at \in {"idle", "flow", "block", "refused"} /\ trx.at \in {"none", "pause", "rx"}
      BY DEF LinkType, TaskType, TesterType
    <2> QED
      BY <2>1, <2>2 DEF LinkType, EndpointBounds, BoundsType, DiagTypeOK
  <1> QED
    BY <1>1, LinkTypeInit, LinkTypeStep, PTL DEF DiagSpec

-----------------------------------------------------------------------------
(* Answers over USB *)

\* Until a read times out there is one request at a time, and it is in one place:
\* on its way to the board or being assembled, complete, with the task, or
\* answered.
NothingIn    == usbIn = <<>> /\ reading = NotReading
NothingReady == usbReady = <<>>
NotInTask    == job.via # "usb"
NothingOut   == usbOut = <<>>

Uniform(q) == \A i \in 1 .. Len(q) : q[i].of = host.since /\ q[i].size = host.size

Arriving ==
  /\ Uniform(usbIn)
  /\ \/ reading = NotReading /\ Len(usbIn) = host.size
     \/ /\ reading # NotReading /\ reading.size = host.size /\ Uniform(reading.buf)
        /\ reading.buf # <<>> /\ usbIn # <<>>
        /\ Len(reading.buf) + Len(usbIn) = host.size

Waiting  == host.at = "idle" /\ host.got = host.since /\ NothingIn /\ NothingReady /\ NotInTask /\ NothingOut
Asked    == host.at = "first" /\ Arriving /\ NothingReady /\ NotInTask /\ NothingOut
Complete == /\ host.at = "first" /\ NothingIn /\ NotInTask /\ NothingOut
            /\ usbReady # <<>> /\ usbReady[1].of = host.since
InTask   == /\ host.at = "first" /\ NothingIn /\ NothingReady /\ NothingOut
            /\ job.at = "process" /\ job.via = "usb" /\ job.of = host.since
Answered == host.at = "first" /\ NothingIn /\ NothingReady /\ NotInTask /\ usbOut = <<host.since>>

OneRequest ==
  ~host.late => host.size \in Nat /\ (Waiting \/ (host.size > 0 /\ (Asked \/ Complete \/ InTask \/ Answered)))

LEMMA OneRequestKept ==
  ASSUME OneRequest, UNCHANGED usbVars, UNCHANGED job \/ (job.via # "usb" /\ job'.via # "usb")
  PROVE  OneRequest'
  <1>1. /\ Waiting' <=> (Waiting /\ NotInTask') \/ (Waiting' /\ ~NotInTask)
        /\ UNCHANGED <<usbIn, reading, usbReady, usbOut, usbSends, host>>
    BY DEF usbVars, Waiting, NothingIn, NothingReady, NotInTask, NothingOut
  <1> QED
    BY <1>1 DEF OneRequest, Waiting, Asked, Complete, InTask, Answered, Arriving, Uniform,
                NothingIn, NothingReady, NotInTask, NothingOut

LEMMA OneRequestPoll ==
  ASSUME OneRequest, UsbType, Poll, UNCHANGED job
  PROVE  OneRequest'
  <1> SUFFICES ASSUME ~host.late  PROVE OneRequest'
    BY DEF Poll, OneRequest
  <1>1. /\ usbIn \in Seq(UsbPackets) /\ usbIn # <<>> /\ usbIn' = Tail(usbIn) /\ UNCHANGED host
    BY DEF Poll, UsbType
  <1>2. Asked /\ host.size \in Nat \ {0}
    BY <1>1 DEF OneRequest, Waiting, Complete, InTask, Answered, NothingIn
  <1> DEFINE p   == Head(usbIn)
             now == IF reading = NotReading THEN [size |-> p.size, buf |-> <<p>>]
                    ELSE [reading EXCEPT !.buf = Append(@, p)]
  <1>3. /\ p \in UsbPackets /\ p = usbIn[1] /\ Len(usbIn) \in Nat \ {0}
        /\ Len(usbIn') = Len(usbIn) - 1 /\ \A i \in 1 .. Len(usbIn') : usbIn'[i] = usbIn[i + 1]
        /\ usbIn' \in Seq(UsbPackets)
    BY <1>1, Taken
  <1>4. /\ IF Len(now.buf) = now.size
           THEN usbReady' = now.buf /\ reading' = NotReading
           ELSE reading' = now /\ UNCHANGED usbReady
        /\ UNCHANGED usbOut
    BY DEF Poll
  <1>5. p.of = host.since /\ p.size = host.size
    <2>1. 1 \in 1 .. Len(usbIn)
      BY <1>3
    <2> QED
      BY <1>2, <1>3, <2>1 DEF Asked, Arriving, Uniform
  <1>6. Uniform(usbIn)'
    <2> SUFFICES ASSUME NEW i \in 1 .. Len(usbIn')
                 PROVE  usbIn'[i].of = host.since /\ usbIn'[i].size = host.size
      BY <1>1 DEF Uniform
    <2>1. i + 1 \in 1 .. Len(usbIn) /\ usbIn'[i] = usbIn[i + 1]
      BY <1>3
    <2> QED
      BY <1>2, <2>1 DEF Asked, Arriving, Uniform
  <1> HIDE DEF p
  <1>7. /\ now.size = host.size /\ now.buf \in Seq(UsbPackets) /\ now.buf # <<>> /\ now # NotReading
        /\ Len(now.buf) + Len(usbIn') = host.size /\ Uniform(now.buf) /\ now.buf[1].of = host.since
    <2>1. CASE reading = NotReading
      <3>1. now = [size |-> host.size, buf |-> <<p>>]
        BY <1>5, <2>1
      <3>2. Len(usbIn) = host.size
        BY <1>2, <2>1 DEF Asked, Arriving
      <3> HIDE DEF now
      <3>3. now.size = host.size /\ now.buf = <<p>>
        BY <3>1
      <3>4. "buf" \in DOMAIN now /\ "buf" \notin DOMAIN NotReading
        BY <3>1 DEF NotReading
      <3>5. <<p>> \in Seq(UsbPackets) /\ <<p>> # <<>> /\ Len(<<p>>) = 1 /\ <<p>>[1] = p
        BY <1>3
      <3>6. Uniform(now.buf)
        <4> SUFFICES ASSUME NEW i \in 1 .. 1  PROVE <<p>>[i].of = host.since /\ <<p>>[i].size = host.size
          BY <3>3, <3>5 DEF Uniform
        <4>1. i = 1
          OBVIOUS
        <4> QED
          BY <1>5, <3>5, <4>1
      <3>7. Len(now.buf) + Len(usbIn') = host.size
        BY <1>2, <1>3, <3>2, <3>3, <3>5
      <3>8. now # NotReading
        BY <3>4
      <3> QED
        BY <1>5, <3>3, <3>5, <3>6, <3>7, <3>8
    <2>2. CASE reading # NotReading
      <3>1. /\ reading \in [size : Nat, buf : Seq(UsbPackets)] /\ reading.size = host.size
            /\ Uniform(reading.buf) /\ reading.buf # <<>> /\ reading.buf \in Seq(UsbPackets)
            /\ Len(reading.buf) + Len(usbIn) = host.size
        BY <1>2, <2>2 DEF Asked, Arriving, UsbType
      <3> DEFINE buf == Append(reading.buf, p)
      <3>2. /\ buf \in Seq(UsbPackets) /\ buf # <<>> /\ Len(reading.buf) \in Nat \ {0}
            /\ Len(buf) = Len(reading.buf) + 1 /\ buf[Len(reading.buf) + 1] = p
            /\ \A i \in 1 .. Len(reading.buf) : buf[i] = reading.buf[i]
        BY <1>3, <3>1, Appended, EmptySeq
      <3>3. now = [reading EXCEPT !.buf = buf]
        BY <2>2
      <3>4. Uniform(buf)
        <4> SUFFICES ASSUME NEW i \in 1 .. Len(buf)
                     PROVE  buf[i].of = host.since /\ buf[i].size = host.size
          BY DEF Uniform
        <4>1. i \in 1 .. Len(reading.buf) \/ i = Len(reading.buf) + 1
          BY <3>2
        <4> HIDE DEF buf
        <4> QED
          BY <1>5, <3>1, <3>2, <4>1 DEF Uniform
      <3> HIDE DEF buf, now
      <3>5. now.size = host.size /\ now.buf = buf
        BY <3>1, <3>3
      <3>6. "buf" \in DOMAIN now /\ "buf" \notin DOMAIN NotReading
        BY <3>1, <3>3 DEF NotReading
      <3>7. Len(buf) + Len(usbIn') = host.size
        BY <1>3, <3>1, <3>2
      <3>8. buf[1].of = host.since
        <4>1. 1 \in 1 .. Len(buf)
          BY <3>2
        <4> QED
          BY <3>4, <4>1 DEF Uniform
      <3>9. now # NotReading
        BY <3>6
      <3> QED
        BY <3>2, <3>4, <3>5, <3>7, <3>8, <3>9
    <2> QED
      BY <2>1, <2>2
  <1> HIDE DEF now
  <1>8. CASE Len(now.buf) = now.size
    <2>1. Len(usbIn') = 0
      BY <1>2, <1>3, <1>7, <1>8
    <2>2. usbIn' = <<>>
      BY <1>3, <2>1, EmptySeq
    <2>3. Complete'
      BY <1>1, <1>2, <1>4, <1>7, <1>8, <2>2
         DEF Complete, Asked, NothingIn, NotInTask, NothingOut
    <2> QED
      BY <1>1, <1>2, <2>3 DEF OneRequest
  <1>9. CASE Len(now.buf) # now.size
    <2>1. usbIn' # <<>>
      <3>1. Len(usbIn') # 0
        BY <1>2, <1>3, <1>7, <1>9
      <3> QED
        BY <3>1
    <2>2. Arriving'
      BY <1>1, <1>4, <1>6, <1>7, <1>9, <2>1 DEF Arriving, Uniform
    <2>3. Asked'
      BY <1>1, <1>2, <1>4, <1>9, <2>2 DEF Asked, NothingReady, NotInTask, NothingOut
    <2> QED
      BY <1>1, <1>2, <2>3 DEF OneRequest
  <1> QED
    BY <1>8, <1>9

LEMMA OneRequestTask ==
  ASSUME OneRequest, UsbType, TaskType, TakeCan \/ TakeUsb \/ AnswerCan \/ AnswerUsb \/ Replied
  PROVE  OneRequest'
  <1>0. UNCHANGED host
    BY DEF TakeCan, TakeUsb, AnswerCan, AnswerUsb, UsbWrite, Replied, usbVars
  <1> SUFFICES ASSUME ~host.late  PROVE OneRequest'
    BY <1>0 DEF OneRequest
  <1>1. job.via = "usb" => job.at = "process"
    BY DEF OneRequest, Waiting, Asked, Complete, InTask, Answered, NotInTask
  <1>2. CASE TakeCan \/ AnswerCan \/ Replied
    <2>1. job.via # "usb" /\ UNCHANGED usbVars
      BY <1>1, <1>2 DEF TakeCan, AnswerCan, Replied
    <2>2. job'.via # "usb"
      <3>1. CASE TakeCan \/ Replied
        BY <3>1 DEF TakeCan, Replied, Select
      <3>2. CASE AnswerCan
        BY <2>1, <3>2 DEF AnswerCan, TaskType
      <3> QED
        BY <1>2, <3>1, <3>2
    <2> QED
      BY <2>1, <2>2, OneRequestKept
  <1>3. CASE TakeUsb
    <2>1. Complete /\ host.size > 0 /\ host.size \in Nat
      BY <1>3 DEF TakeUsb, OneRequest, Waiting, Asked, InTask, Answered, NothingReady
    <2>2. InTask'
      BY <1>3, <2>1 DEF TakeUsb, Complete, InTask, NothingIn, NothingReady, NothingOut
    <2> QED
      BY <1>0, <2>1, <2>2 DEF OneRequest
  <1>4. CASE AnswerUsb
    <2>1. InTask /\ host.size > 0 /\ host.size \in Nat
      BY <1>4 DEF AnswerUsb, OneRequest, Waiting, Asked, Complete, Answered, NotInTask
    <2>2. usbOut' = <<host.since>>
      BY <1>4, <2>1 DEF AnswerUsb, UsbWrite, InTask, NothingOut
    <2>3. Answered'
      BY <1>4, <2>1, <2>2
         DEF AnswerUsb, UsbWrite, InTask, Answered, NothingIn, NothingReady, NotInTask, Select
    <2> QED
      BY <1>0, <2>1, <2>3 DEF OneRequest
  <1> QED
    BY <1>2, <1>3, <1>4

LEMMA OneRequestHost ==
  ASSUME OneRequest, UsbType, usbSends \in Nat, UNCHANGED job,
         HostAsk \/ HostReopen \/ HostGivesUp \/ HostReceive
  PROVE  OneRequest'
  <1> DEFINE Hosts == [at : {"idle", "first", "second", "failed"}, size : Nat, since : Nat,
                       got : Nat, late : BOOLEAN]
  <1>1. host \in Hosts /\ UsbType'
    BY HostType DEF UsbType
  <1>2. CASE HostAsk
    <2>1. PICK size \in UsbSizes \cup {host.size} :
            /\ host.at # "failed" => size \in UsbSizes
            /\ Transmit(size)
            /\ \E again \in BOOLEAN :
                 /\ again => host.at = "failed" /\ size = host.size
                 /\ host' = [host EXCEPT !.at = "first", !.size = size,
                                         !.since = IF again THEN @ ELSE usbSends + 1]
      BY <1>2 DEF HostAsk
    <2>2. host'.late = host.late
      BY <1>1, <2>1
    <2> SUFFICES ASSUME ~host.late  PROVE OneRequest'
      BY <2>2 DEF OneRequest
    <2>3. Waiting
      BY <1>2 DEF HostAsk, OneRequest, Asked, Complete, InTask, Answered
    <2>4. size \in Nat \ {0}
      BY <2>1, <2>3, Params DEF Waiting
    <2>5. /\ host' = [host EXCEPT !.at = "first", !.size = size, !.since = usbSends + 1]
      BY <2>1, <2>3 DEF Waiting
    <2>6. host'.at = "first" /\ host'.size = size /\ host'.since = usbSends + 1
      BY <1>1, <2>5
    <2>7. usbIn' = Packets(usbSends + 1, size)
      <3>1. Packets(usbSends + 1, size) \in Seq(UsbPackets)
        BY <2>4, PacketsType
      <3> QED
        BY <2>1, <2>3, <3>1 DEF Transmit, Waiting, NothingIn
    <2>8. Arriving'
      <3>1. Len(usbIn') = size
        BY <2>4, <2>7, PacketsType
      <3>2. \A i \in 1 .. size : usbIn'[i].of = usbSends + 1 /\ usbIn'[i].size = size
        BY <2>7 DEF Packets
      <3>3. reading' = NotReading
        BY <1>2, <2>3 DEF HostAsk, Waiting, NothingIn
      <3> QED
        BY <2>6, <3>1, <3>2, <3>3 DEF Arriving, Uniform
    <2>9. Asked'
      BY <1>2, <2>3, <2>6, <2>8 DEF HostAsk, Waiting, Asked, NothingReady, NotInTask, NothingOut
    <2> QED
      BY <2>4, <2>6, <2>9 DEF OneRequest
  <1>3. CASE HostReopen
    <2>1. host'.late
      BY <1>1, <1>3 DEF HostReopen
    <2> QED
      BY <2>1 DEF OneRequest
  <1>4. CASE HostGivesUp
    <2>1. host'.late = host.late
      BY <1>1, <1>4 DEF HostGivesUp
    <2>2. host.late
      BY <1>4 DEF HostGivesUp, OneRequest, Waiting, Asked, Complete, InTask, Answered
    <2> QED
      BY <2>1, <2>2 DEF OneRequest
  <1>5. CASE HostReceive
    <2>1. host' = [host EXCEPT !.at = "idle", !.got = Head(usbOut)]
      BY <1>5 DEF HostReceive
    <2>2. /\ host'.at = "idle" /\ host'.got = Head(usbOut) /\ host'.since = host.since
          /\ host'.size = host.size /\ host'.late = host.late
      BY <1>1, <2>1
    <2> SUFFICES ASSUME ~host.late  PROVE OneRequest'
      BY <2>2 DEF OneRequest
    <2>3. Answered /\ host.size \in Nat
      BY <1>5 DEF HostReceive, OneRequest, Waiting, Asked, Complete, InTask, NothingOut
    <2>4. Head(usbOut) = host.since /\ usbOut' = <<>>
      BY <1>5, <2>3 DEF HostReceive, Answered
    <2>5. Waiting'
      BY <1>5, <2>2, <2>3, <2>4
         DEF HostReceive, Answered, Waiting, NothingIn, NothingReady, NotInTask, NothingOut
    <2> QED
      BY <2>2, <2>3, <2>5 DEF OneRequest
  <1> QED
    BY <1>2, <1>3, <1>4, <1>5

LEMMA OneRequestStep ==
  ASSUME LinkType, OneRequest, [DiagNext]_diagVars
  PROVE  OneRequest'
  <1>1. UsbType /\ TaskType /\ usbSends \in Nat
    BY DEF LinkType, BoundsType
  <1>2. CASE Board
    <2>1. CASE TakeCan \/ TakeUsb \/ AnswerCan \/ AnswerUsb \/ Replied
      BY <1>1, <2>1, OneRequestTask
    <2>2. CASE UNCHANGED <<usbVars, taskVars>>
      BY <2>2, OneRequestKept DEF taskVars
    <2>3. CASE Poll /\ UNCHANGED taskVars
      BY <1>1, <2>3, OneRequestPoll DEF taskVars
    <2> QED
      BY <1>2, <2>1, <2>2, <2>3 DEF Board
  <1>3. CASE ToTester \/ ToBoard \/ Lose \/ Tester
    BY <1>3, OneRequestKept DEF ToTester, ToBoard, Lose, Tester, taskVars
  <1>4. CASE Host
    BY <1>1, <1>4, OneRequestHost DEF Host, taskVars
  <1>5. CASE UNCHANGED diagVars
    BY <1>5, OneRequestKept DEF diagVars, taskVars
  <1> QED
    BY <1>2, <1>3, <1>4, <1>5 DEF DiagNext

\* As long as no read of the flasher has timed out, the answer that it takes is
\* that of its request: there is one request at a time, and it is in one place.
THEOREM AnswersMatch == DiagSpec => []UsbAnswersMatch
  <1>1. DiagInit => OneRequest
    BY DEF DiagInit, UsbInit, Select, OneRequest, Waiting, NothingIn, NothingReady, NotInTask, NothingOut
  <1>2. LinkType /\ OneRequest /\ [DiagNext]_diagVars => (LinkType /\ OneRequest)'
    BY LinkTypeStep, OneRequestStep
  <1>3. OneRequest => UsbAnswersMatch
    BY DEF OneRequest, Waiting, Asked, Complete, InTask, Answered, UsbAnswersMatch
  <1> QED
    BY <1>1, <1>2, <1>3, LinkTypeInit, PTL DEF DiagSpec

-----------------------------------------------------------------------------
(* The order of answers over USB, also after reads that timed out *)

\* Where transmissions are: answered, with the task, complete in the endpoint, being
\* assembled, in the packets that still come.
Answers  == {usbOut[i] : i \in 1 .. Len(usbOut)}
AtTask   == IF job.at = "process" /\ job.via = "usb" THEN {job.of} ELSE {}
AtReady  == IF usbReady # <<>> THEN {usbReady[1].of} ELSE {}
AtReader == IF reading # NotReading THEN {reading.buf[1].of} ELSE {}
Incoming == {usbIn[i].of : i \in 1 .. Len(usbIn)}

AllBefore(S, T) == \A a \in S, b \in T : a < b

\* What has come further is earlier, and nothing is later than the last transmission.
InLine ==
  /\ \A i, j \in 1 .. Len(usbOut) : i < j => usbOut[i] < usbOut[j]
  /\ AllBefore({host.got}, Answers \cup AtTask \cup AtReady \cup AtReader \cup Incoming)
  /\ AllBefore(Answers, AtTask \cup AtReady \cup AtReader \cup Incoming)
  /\ AllBefore(AtTask, AtReady \cup AtReader \cup Incoming)
  /\ AllBefore(AtReady, AtReader \cup Incoming)
  /\ {host.got} \cup Answers \cup AtTask \cup AtReady \cup AtReader \cup Incoming \subseteq 0 .. usbSends

\* The packets on their way are those of one transmission after the other, from the
\* place on that the endpoint has reached.
Successor(p, q) ==
  IF p.part = p.size THEN q.part = 1
  ELSE q.of = p.of /\ q.size = p.size /\ q.part = p.part + 1
Earlier(p, q) == p.of < q.of \/ (p.of = q.of /\ p.size = q.size /\ p.part < q.part)

InStream ==
  /\ \A i \in 1 .. Len(usbIn) : usbIn[i].part \in 1 .. usbIn[i].size
  /\ \A i, j \in 1 .. Len(usbIn) : i < j => Earlier(usbIn[i], usbIn[j])
  /\ \A i \in 1 .. Len(usbIn) - 1 : Successor(usbIn[i], usbIn[i + 1])
  /\ usbIn # <<>> => usbIn[Len(usbIn)].part = usbIn[Len(usbIn)].size

\* What the endpoint assembles goes on with the next packet.
GoesOnWith(p) ==
  /\ reading.buf # <<>> /\ p.of = reading.buf[1].of
  /\ p.size = reading.size /\ p.part = Len(reading.buf) + 1

AtItsPlace ==
  IF reading = NotReading THEN usbIn # <<>> => usbIn[1].part = 1
  ELSE usbIn # <<>> /\ GoesOnWith(usbIn[1])

OrderInv == InLine /\ InStream /\ AtItsPlace /\ (host.at # "idle" => host.size > 0)

LEMMA OrderKept ==
  ASSUME OrderInv, UNCHANGED usbVars,
         \/ UNCHANGED job
         \/ ~(job.at = "process" /\ job.via = "usb") /\ ~(job'.at = "process" /\ job'.via = "usb")
  PROVE  OrderInv'
  <1>1. UNCHANGED <<usbIn, reading, usbReady, usbOut, usbSends, host>>
    BY DEF usbVars
  <1>2. AtTask' = AtTask
    BY DEF AtTask
  <1> QED
    BY <1>1, <1>2 DEF OrderInv, InLine, InStream, AtItsPlace, GoesOnWith, Successor, Earlier,
                      Answers, AtReady, AtReader, Incoming, AllBefore

\* One packet more: the transmission goes on, or is complete and earlier than all that come.
LEMMA PollStream ==
  ASSUME UsbType, InStream, AtItsPlace, Poll
  PROVE  /\ InStream' /\ AtItsPlace' /\ Incoming' \subseteq Incoming
         /\ \E n \in Incoming :
              /\ AtReader \subseteq {n}
              /\ \/ AtReady' = AtReady /\ AtReader' = {n}
                 \/ AtReady' = {n} /\ AtReader' = {} /\ AllBefore({n}, Incoming')
  <1> DEFINE p   == Head(usbIn)
             now == IF reading = NotReading THEN [size |-> p.size, buf |-> <<p>>]
                    ELSE [reading EXCEPT !.buf = Append(@, p)]
  <1>1. /\ p \in UsbPackets /\ p = usbIn[1] /\ usbIn' = Tail(usbIn) /\ usbIn \in Seq(UsbPackets)
        /\ Len(usbIn) \in Nat \ {0} /\ Len(usbIn') = Len(usbIn) - 1 /\ usbIn' \in Seq(UsbPackets)
        /\ \A i \in 1 .. Len(usbIn') : usbIn'[i] = usbIn[i + 1]
    BY Taken DEF Poll, UsbType
  <1>2. \/ Len(now.buf) = now.size /\ usbReady' = now.buf /\ reading' = NotReading
        \/ Len(now.buf) # now.size /\ reading' = now /\ UNCHANGED usbReady
    BY DEF Poll
  <1>3. /\ \A i \in 1 .. Len(usbIn) : usbIn[i] \in UsbPackets
        /\ 1 \in 1 .. Len(usbIn)
    BY <1>1
  <1>4. p.of \in Nat /\ p.part \in 1 .. p.size /\ p.size \in Nat /\ p.of \in Incoming
    BY <1>1, <1>3 DEF UsbPackets, InStream, Incoming
  <1> HIDE DEF p
  <1>5. /\ now.size = p.size /\ now.buf # <<>> /\ now.buf[1].of = p.of /\ Len(now.buf) = p.part
        /\ now # NotReading
    <2>1. CASE reading = NotReading
      <3>1. now = [size |-> p.size, buf |-> <<p>>]
        BY <2>1
      <3>2. p.part = 1
        BY <1>1, <2>1, EmptySeq DEF AtItsPlace
      <3>3. "buf" \in DOMAIN now /\ "buf" \notin DOMAIN NotReading
        BY <3>1 DEF NotReading
      <3> HIDE DEF now
      <3> QED
        BY <3>1, <3>2, <3>3
    <2>2. CASE reading # NotReading
      <3>1. /\ reading \in [size : Nat, buf : Seq(UsbPackets)] /\ reading.buf \in Seq(UsbPackets)
            /\ reading.buf # <<>> /\ p.of = reading.buf[1].of /\ p.size = reading.size
            /\ p.part = Len(reading.buf) + 1
        BY <1>1, <2>2 DEF UsbType, AtItsPlace, GoesOnWith
      <3> DEFINE buf == Append(reading.buf, p)
      <3>2. /\ buf # <<>> /\ Len(buf) = Len(reading.buf) + 1 /\ Len(reading.buf) \in Nat \ {0}
            /\ \A i \in 1 .. Len(reading.buf) : buf[i] = reading.buf[i]
        BY <1>1, <3>1, Appended, EmptySeq
      <3>3. now = [reading EXCEPT !.buf = buf]
        BY <2>2
      <3> HIDE DEF buf, now
      <3>4. now.size = p.size /\ now.buf = buf
        BY <3>1, <3>3
      <3>5. "buf" \in DOMAIN now /\ "buf" \notin DOMAIN NotReading
        BY <3>1, <3>3 DEF NotReading
      <3>6. buf[1] = reading.buf[1]
        BY <3>2
      <3>7. now # NotReading
        BY <3>5
      <3> QED
        BY <3>1, <3>2, <3>4, <3>6, <3>7
    <2> QED
      BY <2>1, <2>2
  <1> HIDE DEF now
  <1>6. InStream'
    <2>1. ASSUME NEW i \in 1 .. Len(usbIn')
          PROVE  i + 1 \in 1 .. Len(usbIn) /\ usbIn'[i] = usbIn[i + 1]
      BY <1>1
    <2>2. ASSUME NEW i \in 1 .. Len(usbIn')
          PROVE  usbIn'[i].part \in 1 .. usbIn'[i].size
      BY <2>1 DEF InStream
    <2>3. ASSUME NEW i \in 1 .. Len(usbIn'), NEW j \in 1 .. Len(usbIn'), i < j
          PROVE  Earlier(usbIn'[i], usbIn'[j])
      BY <2>1, <2>3 DEF InStream
    <2>4. ASSUME NEW i \in 1 .. Len(usbIn') - 1
          PROVE  Successor(usbIn'[i], usbIn'[i + 1])
      <3>1. /\ i \in 1 .. Len(usbIn') /\ i + 1 \in 1 .. Len(usbIn') /\ i + 1 \in 1 .. Len(usbIn) - 1
        BY <1>1
      <3>2. usbIn'[i] = usbIn[i + 1] /\ usbIn'[i + 1] = usbIn[(i + 1) + 1]
        BY <2>1, <3>1
      <3> QED
        BY <3>1, <3>2 DEF InStream
    <2>5. ASSUME usbIn' # <<>>
          PROVE  usbIn'[Len(usbIn')].part = usbIn'[Len(usbIn')].size
      <3>1. Len(usbIn') \in Nat \ {0}
        BY <1>1, <2>5, EmptySeq
      <3>2. usbIn'[Len(usbIn')] = usbIn[Len(usbIn)]
        BY <1>1, <2>1, <3>1
      <3> QED
        BY <1>1, <3>2, EmptySeq DEF InStream
    <2> QED
      BY <2>2, <2>3, <2>4, <2>5 DEF InStream, Earlier, Successor
  <1>7. Incoming' \subseteq Incoming
    BY <1>1 DEF Incoming
  <1>8. AtReader \subseteq {p.of}
    BY <1>1 DEF AtReader, AtItsPlace, GoesOnWith
  <1>9. CASE p.part = p.size
    <2>1. usbReady' = now.buf /\ reading' = NotReading
      BY <1>2, <1>5, <1>9
    <2>2. ASSUME NEW j \in 1 .. Len(usbIn')  PROVE p.of < usbIn'[j].of
      <3>1. j + 1 \in 1 .. Len(usbIn) /\ 1 < j + 1 /\ usbIn'[j] = usbIn[j + 1]
        BY <1>1
      <3>2. Earlier(p, usbIn[j + 1]) /\ usbIn[j + 1].part \in 1 .. usbIn[j + 1].size
        BY <1>1, <1>3, <3>1 DEF InStream
      <3>3. usbIn[j + 1].part \in Nat /\ usbIn[j + 1].size \in Nat
        BY <1>3, <3>1 DEF UsbPackets
      <3> QED
        BY <1>4, <1>9, <3>1, <3>2, <3>3 DEF Earlier
    <2>3. AllBefore({p.of}, Incoming')
      BY <2>2 DEF AllBefore, Incoming
    <2>4. usbIn' # <<>> => usbIn'[1].part = 1
      <3> SUFFICES ASSUME usbIn' # <<>>  PROVE usbIn'[1].part = 1
        OBVIOUS
      <3>1. 1 \in 1 .. Len(usbIn') /\ 1 \in 1 .. Len(usbIn) - 1
        BY <1>1, EmptySeq
      <3>2. usbIn'[1] = usbIn[1 + 1]
        BY <1>1, <3>1
      <3>3. Successor(usbIn[1], usbIn[1 + 1])
        BY <3>1 DEF InStream
      <3> QED
        BY <1>1, <1>9, <3>2, <3>3 DEF Successor
    <2>5. AtReady' = {p.of} /\ AtReader' = {}
      BY <1>5, <2>1 DEF AtReady, AtReader
    <2>6. AtItsPlace'
      BY <2>1, <2>4 DEF AtItsPlace
    <2> QED
      BY <1>4, <1>6, <1>7, <1>8, <2>3, <2>5, <2>6
  <1>10. CASE p.part # p.size
    <2>1. reading' = now /\ UNCHANGED usbReady
      BY <1>2, <1>5, <1>10
    <2>2. Len(usbIn) # 1
      BY <1>1, <1>10, EmptySeq DEF InStream
    <2>3. 1 \in 1 .. Len(usbIn') /\ 1 \in 1 .. Len(usbIn) - 1
      BY <1>1, <2>2
    <2>4. usbIn'[1] = usbIn[1 + 1]
      BY <1>1, <2>3
    <2>5. Successor(p, usbIn'[1])
      BY <1>1, <2>3, <2>4 DEF InStream
    <2>6. usbIn' # <<>>
      <3>1. Len(usbIn') # 0
        BY <1>1, <2>2
      <3> QED
        BY <3>1
    <2>7. AtItsPlace'
      BY <1>5, <1>10, <2>1, <2>5, <2>6 DEF AtItsPlace, GoesOnWith, Successor
    <2>8. AtReader' = {p.of} /\ AtReady' = AtReady
      BY <1>5, <2>1 DEF AtReady, AtReader
    <2> QED
      BY <1>4, <1>6, <1>7, <1>8, <2>7, <2>8
  <1> QED
    BY <1>9, <1>10

LEMMA OrderPoll ==
  ASSUME UsbType, OrderInv, Poll, UNCHANGED job
  PROVE  OrderInv'
  <1>1. /\ InStream' /\ AtItsPlace' /\ Incoming' \subseteq Incoming
        /\ UNCHANGED <<usbOut, usbSends, host>>
    BY PollStream DEF OrderInv, Poll
  <1>2. PICK n \in Incoming :
          /\ AtReader \subseteq {n}
          /\ \/ AtReady' = AtReady /\ AtReader' = {n}
             \/ AtReady' = {n} /\ AtReader' = {} /\ AllBefore({n}, Incoming')
    BY PollStream DEF OrderInv
  <1>3. Answers' = Answers /\ AtTask' = AtTask
    BY <1>1 DEF Answers, AtTask
  <1>4. InLine'
    BY <1>1, <1>2, <1>3 DEF OrderInv, InLine, AllBefore
  <1> QED
    BY <1>1, <1>4 DEF OrderInv

LEMMA OrderTask ==
  ASSUME LinkType, OrderInv, TakeCan \/ TakeUsb \/ AnswerCan \/ AnswerUsb \/ Replied
  PROVE  OrderInv'
  <1>1. CASE TakeCan \/ AnswerCan \/ Replied
    <2>1. ~(job.at = "process" /\ job.via = "usb") /\ UNCHANGED usbVars
      BY <1>1 DEF TakeCan, AnswerCan, Replied
    <2>2. ~(job'.at = "process" /\ job'.via = "usb")
      <3>1. CASE TakeCan \/ Replied
        BY <3>1 DEF TakeCan, Replied, Select
      <3>2. CASE AnswerCan
        BY <3>2 DEF AnswerCan, LinkType, TaskType
      <3> QED
        BY <1>1, <3>1, <3>2
    <2> QED
      BY <2>1, <2>2, OrderKept
  <1>2. CASE TakeUsb
    <2>1. UNCHANGED <<usbIn, reading, usbOut, usbSends, host>>
      BY <1>2 DEF TakeUsb
    <2>2. AtTask = {} /\ AtTask' = AtReady /\ AtReady' = {}
      BY <1>2 DEF TakeUsb, AtTask, AtReady
    <2>3. Answers' = Answers /\ AtReader' = AtReader /\ Incoming' = Incoming
      BY <2>1 DEF Answers, AtReader, Incoming
    <2>4. InLine'
      BY <2>1, <2>2, <2>3 DEF OrderInv, InLine, AllBefore
    <2> QED
      BY <2>1, <2>4 DEF OrderInv, InStream, AtItsPlace, GoesOnWith, Successor, Earlier
  <1>3. CASE AnswerUsb
    <2>1. /\ UNCHANGED <<usbIn, reading, usbReady, usbSends, host>> /\ job.of \in Nat
          /\ usbOut' = Append(usbOut, job.of) /\ usbOut \in Seq(Nat)
      BY <1>3 DEF AnswerUsb, UsbWrite, LinkType, UsbType, TaskType
    <2>2. AtTask = {job.of} /\ AtTask' = {}
      BY <1>3 DEF AnswerUsb, AtTask, Select
    <2>3. /\ Len(usbOut') = Len(usbOut) + 1 /\ Len(usbOut) \in Nat /\ usbOut'[Len(usbOut) + 1] = job.of
          /\ \A i \in 1 .. Len(usbOut) : usbOut'[i] = usbOut[i]
      BY <2>1, Appended
    <2>4. Answers' = Answers \cup {job.of}
      BY <2>3 DEF Answers
    <2>5. AtReady' = AtReady /\ AtReader' = AtReader /\ Incoming' = Incoming
      BY <2>1 DEF AtReady, AtReader, Incoming
    <2>6. ASSUME NEW i \in 1 .. Len(usbOut'), NEW j \in 1 .. Len(usbOut'), i < j
          PROVE  usbOut'[i] < usbOut'[j]
      <3>1. i \in 1 .. Len(usbOut) /\ usbOut'[i] = usbOut[i]
        BY <2>3, <2>6
      <3>2. CASE j \in 1 .. Len(usbOut)
        BY <2>3, <2>6, <3>1, <3>2 DEF OrderInv, InLine
      <3>3. CASE j = Len(usbOut) + 1
        BY <2>2, <2>3, <3>1, <3>3 DEF OrderInv, InLine, AllBefore, Answers
      <3> QED
        BY <2>3, <3>2, <3>3
    <2>7. InLine'
      BY <2>1, <2>2, <2>4, <2>5, <2>6 DEF OrderInv, InLine, AllBefore
    <2> QED
      BY <2>1, <2>7 DEF OrderInv, InStream, AtItsPlace, GoesOnWith, Successor, Earlier
  <1> QED
    BY <1>1, <1>2, <1>3

\* A transmission is later than all before it, and its packets follow theirs.
LEMMA TransmitStream ==
  ASSUME UsbType, usbSends \in Nat, InLine, InStream, AtItsPlace, UNCHANGED reading,
         NEW size \in Nat \ {0}, Transmit(size)
  PROVE  InStream' /\ AtItsPlace' /\ Incoming' = Incoming \cup {usbSends + 1}
  <1> DEFINE new == Packets(usbSends + 1, size)
             old == Len(usbIn)
  <1>1. /\ usbIn \in Seq(UsbPackets) /\ new \in Seq(UsbPackets) /\ Len(new) = size
        /\ old \in Nat
    <2>1. usbSends + 1 \in Nat /\ size \in Nat
      OBVIOUS
    <2>2. new \in Seq(UsbPackets) /\ Len(new) = size
      BY <2>1, PacketsType
    <2>3. usbIn \in Seq(UsbPackets) /\ old \in Nat
      BY DEF UsbType
    <2> QED
      BY <2>2, <2>3
  <1>2. /\ usbIn' \in Seq(UsbPackets) /\ Len(usbIn') = old + size
        /\ \A i \in 1 .. old : usbIn'[i] = usbIn[i]
        /\ \A i \in 1 .. size : usbIn'[old + i] = new[i]
    <2>1. /\ usbIn \o new \in Seq(UsbPackets) /\ Len(usbIn \o new) = old + size
          /\ \A i \in 1 .. old + size :
               (usbIn \o new)[i] = IF i <= old THEN usbIn[i] ELSE new[i - old]
      BY <1>1, ConcatProperties
    <2>2. ASSUME NEW i \in 1 .. size
          PROVE  (usbIn \o new)[old + i] = new[i]
      <3>1. old + i \in 1 .. old + size /\ ~(old + i <= old) /\ (old + i) - old = i
        BY <1>1
      <3> QED
        BY <2>1, <3>1
    <2>3. usbIn' = usbIn \o new
      BY DEF Transmit
    <2>4. \A i \in 1 .. old : i \in 1 .. old + size /\ i <= old
      BY <1>1
    <2> QED
      BY <2>1, <2>2, <2>3, <2>4
  <1>3. \A i \in 1 .. size : new[i] = [of |-> usbSends + 1, part |-> i, size |-> size]
    BY DEF Packets
  <1> HIDE DEF new
  <1>4. /\ \A i \in 1 .. old : usbIn[i] \in UsbPackets /\ usbIn[i].of \in Incoming
        /\ Incoming \subseteq 0 .. usbSends
    BY <1>1 DEF Incoming, InLine
  <1>5. \A i \in 1 .. old : usbIn[i].of \in Nat /\ usbIn[i].of < usbSends + 1
    <2> SUFFICES ASSUME NEW i \in 1 .. old  PROVE usbIn[i].of \in Nat /\ usbIn[i].of < usbSends + 1
      OBVIOUS
    <2>1. usbIn[i].of \in 0 .. usbSends
      BY <1>4
    <2> QED
      BY <2>1
  <1>6. ASSUME NEW i \in 1 .. Len(usbIn')
        PROVE  i \in 1 .. old \/ (i - old \in 1 .. size /\ i = old + (i - old))
    BY <1>1, <1>2
  <1>7. ASSUME NEW i \in 1 .. size
        PROVE  /\ usbIn'[old + i].of = usbSends + 1 /\ usbIn'[old + i].part = i
               /\ usbIn'[old + i].size = size
    <2>1. usbIn'[old + i] = [of |-> usbSends + 1, part |-> i, size |-> size]
      BY <1>2, <1>3
    <2> QED
      BY <2>1
  <1>8. ASSUME NEW i \in 1 .. Len(usbIn')  PROVE usbIn'[i].part \in 1 .. usbIn'[i].size
    <2>1. CASE i \in 1 .. old
      BY <1>2, <2>1 DEF InStream
    <2>2. CASE i - old \in 1 .. size /\ i = old + (i - old)
      BY <1>7, <2>2
    <2> QED
      BY <1>6, <2>1, <2>2
  <1>9. ASSUME NEW i \in 1 .. Len(usbIn'), NEW j \in 1 .. Len(usbIn'), i < j
        PROVE  Earlier(usbIn'[i], usbIn'[j])
    <2>1. CASE j \in 1 .. old
      <3>1. i \in 1 .. old
        BY <1>1, <1>9, <2>1
      <3> QED
        BY <1>2, <1>9, <2>1, <3>1 DEF InStream
    <2>2. CASE i \in 1 .. old /\ j - old \in 1 .. size /\ j = old + (j - old)
      BY <1>2, <1>5, <1>7, <2>2 DEF Earlier
    <2>3. CASE /\ i - old \in 1 .. size /\ i = old + (i - old)
               /\ j - old \in 1 .. size /\ j = old + (j - old)
      <3>1. i - old < j - old
        BY <1>1, <1>9
      <3> QED
        BY <1>7, <2>3, <3>1 DEF Earlier
    <2>4. ~(i - old \in 1 .. size /\ j \in 1 .. old)
      BY <1>1, <1>9
    <2> QED
      BY <1>6, <2>1, <2>2, <2>3, <2>4
  <1>10. ASSUME NEW i \in 1 .. Len(usbIn') - 1
         PROVE  Successor(usbIn'[i], usbIn'[i + 1])
    <2>1. i \in 1 .. old - 1 \/ (i = old /\ old > 0) \/ (i - old \in 1 .. size - 1)
      BY <1>1, <1>2
    <2>2. CASE i \in 1 .. old - 1
      <3>1. i \in 1 .. old /\ i + 1 \in 1 .. old
        BY <1>1, <2>2
      <3> QED
        BY <1>2, <2>2, <3>1 DEF InStream
    <2>3. CASE i = old /\ old > 0
      <3>1. i \in 1 .. old /\ 1 \in 1 .. size
        BY <1>1, <2>3
      <3>2. usbIn'[i] = usbIn[old] /\ usbIn'[i + 1].part = 1
        BY <1>2, <1>7, <2>3, <3>1
      <3>3. usbIn[old].part = usbIn[old].size
        BY <1>1, <2>3, EmptySeq DEF InStream
      <3> QED
        BY <3>2, <3>3 DEF Successor
    <2>4. CASE i - old \in 1 .. size - 1
      <3>1. /\ i - old \in 1 .. size /\ (i - old) + 1 \in 1 .. size
            /\ i = old + (i - old) /\ i + 1 = old + ((i - old) + 1) /\ i - old # size
        BY <1>1, <2>4
      <3> DEFINE k == i - old
      <3>2. usbIn'[i].of = usbSends + 1 /\ usbIn'[i].part = k /\ usbIn'[i].size = size
        BY <1>7, <3>1
      <3>3. /\ usbIn'[i + 1].of = usbSends + 1 /\ usbIn'[i + 1].part = k + 1
            /\ usbIn'[i + 1].size = size
        BY <1>7, <3>1
      <3> QED
        BY <3>1, <3>2, <3>3 DEF Successor
    <2> QED
      BY <2>1, <2>2, <2>3, <2>4
  <1>11. usbIn'[Len(usbIn')].part = usbIn'[Len(usbIn')].size
    <2>1. size \in 1 .. size
      OBVIOUS
    <2> QED
      BY <1>2, <1>7, <2>1
  <1>12. InStream'
    BY <1>8, <1>9, <1>10, <1>11 DEF InStream, Successor, Earlier
  <1>13. usbIn' # <<>>
    <2>1. Len(usbIn') # 0
      BY <1>1, <1>2
    <2> QED
      BY <2>1
  <1>14. usbIn # <<>> => usbIn'[1] = usbIn[1]
    <2>1. usbIn # <<>> => 1 \in 1 .. old
      BY <1>1, EmptySeq
    <2> QED
      BY <1>2, <2>1
  <1>15. usbIn = <<>> => usbIn'[1].part = 1
    <2> SUFFICES ASSUME usbIn = <<>>  PROVE usbIn'[1].part = 1
      OBVIOUS
    <2>1. old = 0 /\ 1 \in 1 .. size
      OBVIOUS
    <2>2. usbIn'[old + 1].part = 1
      BY <1>7, <2>1
    <2> QED
      BY <2>1, <2>2
  <1>16. AtItsPlace'
    BY <1>13, <1>14, <1>15 DEF AtItsPlace, GoesOnWith
  <1>17. Incoming' = Incoming \cup {usbSends + 1}
    <2>1. ASSUME NEW i \in 1 .. Len(usbIn')  PROVE usbIn'[i].of \in Incoming \cup {usbSends + 1}
      <3>1. CASE i \in 1 .. old
        BY <1>2, <1>4, <3>1
      <3>2. CASE i - old \in 1 .. size /\ i = old + (i - old)
        BY <1>7, <3>2
      <3> QED
        BY <1>6, <3>1, <3>2
    <2>2. ASSUME NEW i \in 1 .. old  PROVE i \in 1 .. Len(usbIn') /\ usbIn'[i].of = usbIn[i].of
      BY <1>1, <1>2
    <2>3. old + 1 \in 1 .. Len(usbIn') /\ usbIn'[old + 1].of = usbSends + 1
      BY <1>1, <1>2, <1>7
    <2> QED
      BY <2>1, <2>2, <2>3 DEF Incoming
  <1> QED
    BY <1>12, <1>16, <1>17

\* A new transmission is the last in the line.
LEMMA LineGrows ==
  ASSUME InLine, usbSends \in Nat, usbSends' = usbSends + 1, host'.got = host.got,
         Incoming' = Incoming \cup {usbSends + 1}, UNCHANGED usbOut \/ usbOut' = <<>>,
         AtTask' = AtTask, AtReady' = AtReady, AtReader' = AtReader
  PROVE  InLine'
  <1> DEFINE All == {host.got} \cup Answers \cup AtTask \cup AtReady \cup AtReader \cup Incoming
  <1>1. Answers' \subseteq Answers
    BY DEF Answers
  <1>2. \A n \in All : n \in 0 .. usbSends
    BY DEF InLine
  <1>3. \A n \in All : n < usbSends + 1 /\ n \in 0 .. usbSends + 1
    BY <1>2
  <1>4. All' \subseteq All \cup {usbSends + 1}
    BY <1>1
  <1>5. All' \subseteq 0 .. usbSends'
    BY <1>3, <1>4
  <1>6. /\ AllBefore({host.got}, {usbSends + 1}) /\ AllBefore(Answers, {usbSends + 1})
        /\ AllBefore(AtTask, {usbSends + 1}) /\ AllBefore(AtReady, {usbSends + 1})
    BY <1>3 DEF AllBefore
  <1>7. \A i, j \in 1 .. Len(usbOut') : i < j => usbOut'[i] < usbOut'[j]
    BY DEF InLine
  <1> QED
    BY <1>1, <1>5, <1>6, <1>7 DEF InLine, AllBefore

LEMMA OrderHost ==
  ASSUME UsbType, usbSends \in Nat, OrderInv, UNCHANGED job,
         HostAsk \/ HostReopen \/ HostGivesUp \/ HostReceive
  PROVE  OrderInv' /\ (AnswerTaken => host'.got > host.got)
  <1> DEFINE Hosts == [at : {"idle", "first", "second", "failed"}, size : Nat, since : Nat,
                       got : Nat, late : BOOLEAN]
  <1>1. host \in Hosts /\ host.got \in Nat
    BY DEF UsbType
  <1>2. CASE HostAsk
    <2>1. PICK size \in UsbSizes \cup {host.size} :
            /\ host.at # "failed" => size \in UsbSizes
            /\ Transmit(size)
            /\ \E again \in BOOLEAN :
                 host' = [host EXCEPT !.at = "first", !.size = size,
                                      !.since = IF again THEN @ ELSE usbSends + 1]
      BY <1>2 DEF HostAsk
    <2>2. size \in Nat \ {0}
      BY <1>1, <2>1, Params DEF OrderInv
    <2>3. host'.at = "first" /\ host'.size = size /\ host'.got = host.got
      BY <1>1, <2>1
    <2>4. UNCHANGED <<reading, usbReady, usbOut>> /\ usbSends' = usbSends + 1
      BY <1>2, <2>1 DEF HostAsk, Transmit
    <2>5. InStream' /\ AtItsPlace' /\ Incoming' = Incoming \cup {usbSends + 1}
      BY <2>1, <2>2, <2>4, TransmitStream DEF OrderInv
    <2>6. AtTask' = AtTask /\ AtReady' = AtReady /\ AtReader' = AtReader
      BY <2>4 DEF AtTask, AtReady, AtReader
    <2>7. InLine'
      BY <2>3, <2>4, <2>5, <2>6, LineGrows DEF OrderInv
    <2> QED
      BY <2>2, <2>3, <2>5, <2>7 DEF OrderInv, AnswerTaken
  <1>3. CASE HostReopen
    <2>1. Transmit(host.size) /\ host.size \in Nat \ {0}
      BY <1>1, <1>3 DEF HostReopen, OrderInv
    <2>2. host'.at = "second" /\ host'.size = host.size /\ host'.got = host.got
      BY <1>1, <1>3 DEF HostReopen
    <2>3. UNCHANGED <<reading, usbReady>> /\ usbOut' = <<>> /\ usbSends' = usbSends + 1
      BY <1>3 DEF HostReopen, Transmit
    <2>4. InStream' /\ AtItsPlace' /\ Incoming' = Incoming \cup {usbSends + 1}
      BY <2>1, <2>3, TransmitStream DEF OrderInv
    <2>5. AtTask' = AtTask /\ AtReady' = AtReady /\ AtReader' = AtReader
      BY <2>3 DEF AtTask, AtReady, AtReader
    <2>6. InLine'
      BY <2>2, <2>3, <2>4, <2>5, LineGrows DEF OrderInv
    <2> QED
      BY <2>1, <2>2, <2>4, <2>6 DEF OrderInv, AnswerTaken
  <1>4. CASE HostGivesUp
    <2>1. /\ UNCHANGED <<usbIn, reading, usbReady, usbOut, usbSends>> /\ host.at = "second"
          /\ host'.at = "failed" /\ host'.size = host.size /\ host'.got = host.got
      BY <1>1, <1>4 DEF HostGivesUp
    <2> QED
      BY <2>1 DEF OrderInv, InLine, InStream, AtItsPlace, GoesOnWith, Successor, Earlier,
                  Answers, AtTask, AtReady, AtReader, Incoming, AllBefore, AnswerTaken
  <1>5. CASE HostReceive
    <2>1. /\ UNCHANGED <<usbIn, reading, usbReady, usbSends>>
          /\ usbOut # <<>> /\ usbOut' = Tail(usbOut) /\ usbOut \in Seq(Nat)
          /\ host'.at = "idle" /\ host'.size = host.size /\ host'.got = Head(usbOut)
      BY <1>1, <1>5 DEF HostReceive, UsbType
    <2>2. /\ Head(usbOut) = usbOut[1] /\ Len(usbOut) \in Nat \ {0} /\ Len(usbOut') = Len(usbOut) - 1
          /\ \A i \in 1 .. Len(usbOut') : usbOut'[i] = usbOut[i + 1]
      BY <2>1, Taken
    <2>3. 1 \in 1 .. Len(usbOut) /\ Head(usbOut) \in Answers
      BY <2>2 DEF Answers
    <2>4. ASSUME NEW i \in 1 .. Len(usbOut')
          PROVE  i + 1 \in 1 .. Len(usbOut) /\ 1 < i + 1 /\ usbOut'[i] = usbOut[i + 1]
      BY <2>2
    <2>5. Answers' \subseteq Answers /\ AllBefore({Head(usbOut)}, Answers')
      BY <2>2, <2>3, <2>4 DEF Answers, AllBefore, OrderInv, InLine
    <2>6. ASSUME NEW i \in 1 .. Len(usbOut'), NEW j \in 1 .. Len(usbOut'), i < j
          PROVE  usbOut'[i] < usbOut'[j]
      BY <2>4, <2>6 DEF OrderInv, InLine
    <2>7. AtTask' = AtTask /\ AtReady' = AtReady /\ AtReader' = AtReader /\ Incoming' = Incoming
      BY <2>1 DEF AtTask, AtReady, AtReader, Incoming
    <2>8. InLine'
      BY <2>1, <2>3, <2>5, <2>6, <2>7 DEF OrderInv, InLine, AllBefore
    <2>9. host.got < Head(usbOut)
      BY <2>3 DEF OrderInv, InLine, AllBefore
    <2>10. host'.got > host.got
      BY <1>1, <2>1, <2>2, <2>3, <2>9
    <2> QED
      BY <2>1, <2>8, <2>10 DEF OrderInv, InStream, AtItsPlace, GoesOnWith, Successor, Earlier
  <1> QED
    BY <1>2, <1>3, <1>4, <1>5

LEMMA OrderStep ==
  ASSUME LinkType, OrderInv, [DiagNext]_diagVars
  PROVE  OrderInv' /\ (AnswerTaken => host'.got > host.got)
  <1>1. UsbType /\ usbSends \in Nat
    BY DEF LinkType, BoundsType
  <1>2. CASE UNCHANGED host
    <2>0. ~AnswerTaken
      BY <1>2 DEF AnswerTaken
    <2>1. CASE Board
      <3>1. CASE TakeCan \/ TakeUsb \/ AnswerCan \/ AnswerUsb \/ Replied
        BY <2>0, <3>1, OrderTask
      <3>2. CASE UNCHANGED <<usbVars, taskVars>>
        BY <2>0, <3>2, OrderKept DEF taskVars
      <3>3. CASE Poll /\ UNCHANGED taskVars
        BY <1>1, <2>0, <3>3, OrderPoll DEF taskVars
      <3> QED
        BY <2>1, <3>1, <3>2, <3>3 DEF Board
    <2>2. CASE ToTester \/ ToBoard \/ Lose \/ Tester
      BY <2>0, <2>2, OrderKept DEF ToTester, ToBoard, Lose, Tester, taskVars
    <2>3. CASE Host
      BY <1>1, <2>3, OrderHost DEF Host, taskVars
    <2>4. CASE UNCHANGED diagVars
      BY <2>0, <2>4, OrderKept DEF diagVars, taskVars
    <2> QED
      BY <2>1, <2>2, <2>3, <2>4 DEF DiagNext
  <1>3. CASE host' # host
    <2>1. Host
      BY <1>3 DEF DiagNext, Board, TakeCan, TakeUsb, AnswerCan, AnswerUsb, UsbWrite, Replied, Poll,
                  ToTester, ToBoard, Lose, Tester, usbVars, diagVars
    <2> QED
      BY <1>1, <2>1, OrderHost DEF Host, taskVars
  <1> QED
    BY <1>2, <1>3

\* Also when reads time out and requests are sent again, the flasher takes answers in the
\* order of its transmissions and none twice.  What is on its way keeps its order, from
\* the packets to the answers, and a packet is assembled only with those of its request.
THEOREM AnswersInOrder == DiagSpec => UsbAnswersInOrder
  <1>1. DiagInit => OrderInv
    <2> SUFFICES ASSUME DiagInit  PROVE OrderInv
      OBVIOUS
    <2>1. /\ usbIn = <<>> /\ reading = NotReading /\ usbReady = <<>> /\ usbOut = <<>>
          /\ usbSends = 0 /\ host.got = 0 /\ host.at = "idle" /\ job.at # "process"
      BY DEF DiagInit, UsbInit, Select
    <2>2. Answers = {} /\ AtTask = {} /\ AtReady = {} /\ AtReader = {} /\ Incoming = {}
      BY <2>1 DEF Answers, AtTask, AtReady, AtReader, Incoming
    <2>3. InLine
      BY <2>1, <2>2 DEF InLine, AllBefore
    <2> QED
      BY <2>1, <2>3 DEF OrderInv, InStream, AtItsPlace
  <1>2. LinkType /\ OrderInv /\ [DiagNext]_diagVars
        => (LinkType /\ OrderInv)' /\ [AnswerTaken => host'.got > host.got]_diagVars
    BY LinkTypeStep, OrderStep
  <1> QED
    BY <1>1, <1>2, LinkTypeInit, PTL DEF DiagSpec, UsbAnswersInOrder

-----------------------------------------------------------------------------
(* What delivery rests on: the invariant of requests on CAN *)

\* The request that the server has taken, or will take next.
Reached == IF rxReady # <<>> THEN rxReady[1][1] ELSE NumberOf(handed)

\* The frames of requests on their way to the board.
Pending == {rxFifo[i] : i \in {j \in 1 .. Len(rxFifo) : rxFifo[j].pci # "flow"}}

\* The reassembly: its message, the last piece it holds, the last of its block.
Buffered == rxState.buf[1][1]
LastPart == rxState.buf[Len(rxState.buf)][2]
BlockEnd == Len(rxState.buf) - rxState.count + rxState.bs

\* What waits for the task is a whole request, later than what the server took.
Delivered ==
  /\ NumberOf(handed) \in 0 .. sends
  /\ rxReady # <<>> =>
       /\ rxReady = Payload(rxReady[1][1], Len(rxReady))
       /\ rxReady[1][1] \in NumberOf(handed) + 1 .. sends

\* A reassembly holds pieces of one message.  If the last of them is where it
\* belongs, so are the others: pieces that were lost leave the last one too far on.
Reassembling ==
  rxState # Idle =>
    /\ rxState.buf # <<>> /\ Buffered \in 1 .. sends
    /\ rxState.buf[Len(rxState.buf)][1] = Buffered
    /\ LastPart \in Len(rxState.buf) .. rxState.size
    /\ LastPart = Len(rxState.buf) => rxState.buf = Payload(Buffered, Len(rxState.buf))
    /\ rxState.bs # 0 => rxState.count < rxState.bs

\* A block ends with the message, or where its tester waits, if it still sends.
BlockOpen ==
  \/ rxState.size <= BlockEnd
  \/ /\ Buffered = sends
     /\ ttx.at \in {"refused", "block"} \/ (ttx.at = "flow" /\ ttx.pos = BlockEnd)

Later(f) ==
  /\ f.data[1] \in Reached + 1 .. sends /\ f.data[2] \in 1 .. f.size
  /\ f.pci = "single" => f.size = 1

Begins(f) ==
  f.pci = "first" =>
    /\ f.data[2] = 1 /\ f.data[1] = sends
    /\ ttx.at = "refused" \/ (ttx.at = "flow" /\ ttx.pos = 1)

Continues(f) ==
  f.pci = "consecutive" =>
    /\ rxState # Idle /\ f.data[1] = Buffered /\ f.data[2] > LastPart /\ f.size = rxState.size
    /\ rxState.bs # 0 => f.data[2] <= BlockEnd /\ BlockOpen

OfRequest(f) ==
  f.data[1] = sends /\ ttx.at \in {"flow", "block"} =>
    f.pci # "single" /\ f.size = ttx.size /\ f.data[2] <= ttx.pos

\* A frame on its way belongs to a request not taken, and the board can use it.
Coming(f) == Later(f) /\ Begins(f) /\ Continues(f) /\ OfRequest(f)

Before(f, g) ==
  \/ f.data[1] < g.data[1]
  \/ /\ f.pci = "consecutive" /\ g.pci = "consecutive"
     /\ f.data[1] = g.data[1] /\ f.data[2] < g.data[2]

Ordered ==
  \A i, j \in 1 .. Len(rxFifo) :
    i < j /\ rxFifo[i].pci # "flow" /\ rxFifo[j].pci # "flow" => Before(rxFifo[i], rxFifo[j])

\* A tester that sends a block sends the one which the board reassembles.
Sending ==
  /\ ttx.at \in {"flow", "block"} => Reached < sends
  /\ ttx.at = "block" =>
       /\ rxState # Idle /\ Buffered = sends /\ rxState.size = ttx.size /\ LastPart <= ttx.pos
       /\ rxState.bs = 0 => ttx.left = 0
       /\ rxState.bs # 0 => ttx.left > 0 /\ ttx.pos + ttx.left = BlockEnd

\* A tester to which the board offers a block waits for it.
Offering == mailbox.pci = "flow" /\ mailbox.fs = "ok"
Offered ==
  Offering =>
    /\ Pending = {}
    /\ ttx.at # "refused" =>
         /\ ttx.at = "flow" /\ rxState # Idle /\ Buffered = sends /\ rxState.size = ttx.size
         /\ Len(rxState.buf) = ttx.pos /\ LastPart = ttx.pos /\ rxState.count = 0
         /\ mailbox.bs = rxState.bs

DeliverInv ==
  /\ Delivered /\ Reassembling /\ (\A f \in Pending : Coming(f)) /\ Ordered
  /\ Sending /\ Offered

-----------------------------------------------------------------------------
(* The frames on their way, as a set *)

FifoTyped == rxFifo \in Seq(Frames)

LEMMA PendingFrames ==
  ASSUME FifoTyped
  PROVE  Pending \subseteq DataFrames
  BY FrameKinds DEF FifoTyped, Pending, Frames, DataFrames, FlowFrames

LEMMA PendingData ==
  ASSUME FifoTyped, Ordered, NEW x \in DataFrames, rxFifo' = Append(rxFifo, x),
         \A g \in Pending : Before(g, x)
  PROVE  Pending' = Pending \cup {x} /\ Ordered'
  <1>1. /\ Len(rxFifo') = Len(rxFifo) + 1 /\ Len(rxFifo) \in Nat
        /\ \A i \in 1 .. Len(rxFifo) : rxFifo'[i] = rxFifo[i]
        /\ rxFifo'[Len(rxFifo) + 1] = x
    BY Appended DEF FifoTyped, Frames
  <1>2. x.pci # "flow"
    BY DEF DataFrames
  <1>3. \A i \in 1 .. Len(rxFifo') : i \in 1 .. Len(rxFifo) \/ i = Len(rxFifo) + 1
    BY <1>1
  <1>4. Len(rxFifo) + 1 \in 1 .. Len(rxFifo') /\ 1 .. Len(rxFifo) \subseteq 1 .. Len(rxFifo')
    BY <1>1
  <1>5. Pending' = Pending \cup {x}
    <2>1. ASSUME NEW f \in Pending'  PROVE f \in Pending \cup {x}
      BY <1>1, <1>3 DEF Pending
    <2>2. ASSUME NEW f \in Pending \cup {x}  PROVE f \in Pending'
      <3>1. CASE f = x
        BY <1>1, <1>2, <1>4, <3>1 DEF Pending
      <3>2. CASE f \in Pending
        BY <1>1, <1>4, <3>2 DEF Pending
      <3> QED
        BY <3>1, <3>2
    <2> QED
      BY <2>1, <2>2
  <1>6. Ordered'
    <2> SUFFICES ASSUME NEW i \in 1 .. Len(rxFifo'), NEW j \in 1 .. Len(rxFifo'), i < j,
                        rxFifo'[i].pci # "flow", rxFifo'[j].pci # "flow"
                 PROVE  Before(rxFifo'[i], rxFifo'[j])
      BY DEF Ordered, Before
    <2>1. i \in 1 .. Len(rxFifo) /\ rxFifo'[i] = rxFifo[i]
      BY <1>1
    <2>2. CASE j \in 1 .. Len(rxFifo)
      BY <1>1, <2>1, <2>2 DEF Ordered
    <2>3. CASE j = Len(rxFifo) + 1
      <3>1. rxFifo[i] \in Pending
        BY <2>1 DEF Pending
      <3> QED
        BY <1>1, <2>1, <2>3, <3>1
    <2> QED
      BY <1>3, <2>2, <2>3
  <1> QED
    BY <1>5, <1>6

LEMMA PendingFlow ==
  ASSUME FifoTyped, Ordered, NEW x \in FlowFrames, rxFifo' = Append(rxFifo, x)
  PROVE  Pending' = Pending /\ Ordered'
  <1>1. /\ Len(rxFifo') = Len(rxFifo) + 1 /\ Len(rxFifo) \in Nat
        /\ \A i \in 1 .. Len(rxFifo) : rxFifo'[i] = rxFifo[i]
        /\ rxFifo'[Len(rxFifo) + 1] = x
    BY Appended DEF FifoTyped, Frames
  <1>2. x.pci = "flow"
    BY DEF FlowFrames
  <1>3. \A i \in 1 .. Len(rxFifo') : rxFifo'[i].pci # "flow" => i \in 1 .. Len(rxFifo)
    BY <1>1, <1>2
  <1>4. 1 .. Len(rxFifo) \subseteq 1 .. Len(rxFifo')
    BY <1>1
  <1>5. Pending' = Pending
    BY <1>1, <1>3, <1>4 DEF Pending
  <1>6. Ordered'
    <2> SUFFICES ASSUME NEW i \in 1 .. Len(rxFifo'), NEW j \in 1 .. Len(rxFifo'), i < j,
                        rxFifo'[i].pci # "flow", rxFifo'[j].pci # "flow"
                 PROVE  Before(rxFifo'[i], rxFifo'[j])
      BY DEF Ordered, Before
    <2>1. /\ i \in 1 .. Len(rxFifo) /\ rxFifo'[i] = rxFifo[i]
          /\ j \in 1 .. Len(rxFifo) /\ rxFifo'[j] = rxFifo[j]
      BY <1>1, <1>3
    <2> QED
      BY <2>1 DEF Ordered
  <1> QED
    BY <1>5, <1>6

LEMMA PendingTaken ==
  ASSUME FifoTyped, Ordered, rxFifo # <<>>, rxFifo' = Tail(rxFifo)
  PROVE  /\ Pending' \subseteq Pending /\ Ordered' /\ Head(rxFifo) \in Frames
         /\ Head(rxFifo).pci # "flow" =>
              Head(rxFifo) \in Pending /\ \A g \in Pending' : Before(Head(rxFifo), g)
  <1>1. /\ Head(rxFifo) \in Frames /\ Head(rxFifo) = rxFifo[1]
        /\ Len(rxFifo) \in Nat \ {0} /\ Len(rxFifo') = Len(rxFifo) - 1
        /\ \A i \in 1 .. Len(rxFifo') : rxFifo'[i] = rxFifo[i + 1]
    BY Taken DEF FifoTyped
  <1>2. \A i \in 1 .. Len(rxFifo') : i + 1 \in 1 .. Len(rxFifo) /\ 1 < i + 1
    BY <1>1
  <1>3. 1 \in 1 .. Len(rxFifo)
    BY <1>1
  <1>4. ASSUME NEW g \in Pending'
        PROVE  /\ g \in Pending
               /\ Head(rxFifo).pci # "flow" => Before(Head(rxFifo), g)
    <2>1. PICK i \in 1 .. Len(rxFifo') : rxFifo'[i].pci # "flow" /\ g = rxFifo'[i]
      BY DEF Pending
    <2>2. i + 1 \in 1 .. Len(rxFifo) /\ 1 < i + 1 /\ g = rxFifo[i + 1] /\ g.pci # "flow"
      BY <1>1, <1>2, <2>1
    <2> QED
      BY <1>1, <1>3, <2>2 DEF Pending, Ordered
  <1>5. Ordered'
    <2> SUFFICES ASSUME NEW i \in 1 .. Len(rxFifo'), NEW j \in 1 .. Len(rxFifo'), i < j,
                        rxFifo'[i].pci # "flow", rxFifo'[j].pci # "flow"
                 PROVE  Before(rxFifo'[i], rxFifo'[j])
      BY DEF Ordered, Before
    <2>1. i + 1 \in 1 .. Len(rxFifo) /\ j + 1 \in 1 .. Len(rxFifo) /\ i + 1 < j + 1
      BY <1>2
    <2>2. rxFifo'[i] = rxFifo[i + 1] /\ rxFifo'[j] = rxFifo[j + 1]
      BY <1>1
    <2> QED
      BY <2>1, <2>2 DEF Ordered
  <1>6. Head(rxFifo).pci # "flow" => Head(rxFifo) \in Pending
    BY <1>1, <1>3 DEF Pending
  <1> QED
    BY <1>1, <1>4, <1>5, <1>6

\* The fields of a data frame.
LEMMA FrameFields ==
  ASSUME NEW f \in DataFrames
  PROVE  /\ f.data \in Pieces /\ f.data[1] \in Nat /\ f.data[2] \in Nat /\ f.size \in Nat
         /\ f.data = <<f.data[1], f.data[2]>> /\ f.pci \in {"single", "first", "consecutive"}
         /\ f.sn \in Nat /\ f \in Frames
  <1>1. f.data \in Pieces
    BY DEF DataFrames
  <1>2. f.data[1] \in Nat /\ f.data[2] \in Nat /\ f.data = <<f.data[1], f.data[2]>>
    BY <1>1 DEF Pieces
  <1> QED
    BY <1>1, <1>2 DEF DataFrames, Frames

LEMMA NoWrap == \A n \in Nat \ {0} : \A k \in 0 .. n - 1 : k % n = k
  OBVIOUS

-----------------------------------------------------------------------------
(* Payloads *)

LEMMA PayloadType ==
  ASSUME NEW m \in Nat, NEW n \in Nat
  PROVE  /\ Payload(m, n) \in Seq(Pieces) /\ Len(Payload(m, n)) = n
         /\ \A i \in 1 .. n : Payload(m, n)[i] = <<m, i>>
  <1>1. \A k \in 1 .. n : <<m, k>> \in Pieces
    BY DEF Pieces
  <1>2. Payload(m, n) \in [1 .. n -> Pieces]
    BY <1>1 DEF Payload
  <1> QED
    BY <1>2 DEF Payload

LEMMA PayloadNumber ==
  ASSUME NEW m \in Nat, NEW n \in Nat \ {0}
  PROVE  /\ NumberOf(Payload(m, n)) = m /\ Payload(m, n) # <<>> /\ Payload(m, n)[1] = <<m, 1>>
  <1>1. Len(Payload(m, n)) = n /\ Payload(m, n)[1] = <<m, 1>>
    BY PayloadType
  <1>2. Payload(m, n) # <<>>
    BY <1>1
  <1> QED
    BY <1>1, <1>2 DEF NumberOf

\* The next piece where it belongs makes a longer payload.
LEMMA PayloadMore ==
  ASSUME NEW m \in Nat, NEW n \in Nat
  PROVE  Append(Payload(m, n), <<m, n + 1>>) = Payload(m, n + 1)
  <1> DEFINE p == Payload(m, n)
             q == Payload(m, n + 1)
             r == Append(p, <<m, n + 1>>)
  <1>1. p \in Seq(Pieces) /\ Len(p) = n /\ \A i \in 1 .. n : p[i] = <<m, i>>
    BY PayloadType
  <1>2. q \in Seq(Pieces) /\ Len(q) = n + 1 /\ \A i \in 1 .. n + 1 : q[i] = <<m, i>>
    BY PayloadType
  <1>3. <<m, n + 1>> \in Pieces
    BY DEF Pieces
  <1> HIDE DEF p, q
  <1>4. /\ r \in Seq(Pieces) /\ Len(r) = n + 1 /\ r[n + 1] = <<m, n + 1>>
        /\ \A i \in 1 .. n : r[i] = <<m, i>>
    BY <1>1, <1>3, Appended
  <1> HIDE DEF r
  <1>5. ASSUME NEW i \in 1 .. n + 1  PROVE r[i] = q[i]
    <2>1. CASE i \in 1 .. n
      BY <1>2, <1>4, <2>1
    <2>2. CASE i = n + 1
      BY <1>2, <1>4, <2>2
    <2> QED
      BY <2>1, <2>2
  <1>6. r = q
    BY <1>2, <1>4, <1>5, SeqEqual
  <1> QED
    BY <1>6 DEF p, q, r

-----------------------------------------------------------------------------
(* Requests on CAN are delivered *)

LEMMA LinkFacts ==
  ASSUME LinkType
  PROVE  /\ FifoTyped /\ Endpoint /\ EndpointType /\ EndpointBounds /\ sends \in Nat
         /\ handed \in Seq(Pieces) /\ rxReady \in Seq(Pieces) /\ served \in Nat
         /\ ttx \in Senders /\ ttx.pos \in Nat /\ ttx.size \in Nat /\ ttx.left \in Nat /\ Begun
  <1>1. /\ FifoTyped /\ Endpoint /\ EndpointType /\ EndpointBounds /\ sends \in Nat
        /\ handed \in Seq(Pieces) /\ rxReady \in Seq(Pieces) /\ served \in Nat
        /\ ttx \in Senders /\ Begun
    BY DEF LinkType, FifoTyped, TesterType, Endpoint, EndpointType, TaskType, BoundsType, Senders
  <1> QED
    BY <1>1 DEF Senders

LEMMA ReachedFacts ==
  ASSUME LinkType, Delivered
  PROVE  /\ Reached \in Nat /\ Reached <= sends /\ NumberOf(handed) \in Nat
         /\ NumberOf(handed) <= Reached
  BY LinkFacts DEF Delivered, Reached

LEMMA RxFacts ==
  ASSUME LinkType, Reassembling, rxState # Idle
  PROVE  /\ rxState \in Assemblies /\ rxState.buf \in Seq(Pieces) /\ Len(rxState.buf) \in Nat \ {0}
         /\ Buffered \in Nat /\ LastPart \in Nat /\ rxState.size \in Nat
         /\ rxState.count \in Nat /\ rxState.bs \in Nat /\ rxState.bs < U8 /\ BlockEnd \in Int
         /\ Len(rxState.buf) < rxState.size /\ rxState.count < U8
         /\ Len(rxState.buf) <= LastPart /\ LastPart <= rxState.size
         /\ rxState.buf[1][1] = Buffered
  <1>1. /\ rxState \in Assemblies /\ Len(rxState.buf) < rxState.size /\ rxState.count < U8
    BY LinkFacts DEF EndpointType, EndpointBounds
  <1>2. /\ rxState.buf \in Seq(Pieces) /\ rxState.size \in Nat /\ rxState.count \in Nat
        /\ rxState.bs \in BlockSizes
    BY <1>1 DEF Assemblies
  <1>3. rxState.bs \in Nat /\ rxState.bs < U8
    BY <1>2, Params
  <1>4. rxState.buf # <<>> /\ Buffered \in 1 .. sends /\ LastPart \in Len(rxState.buf) .. rxState.size
    BY DEF Reassembling
  <1>5. Len(rxState.buf) \in Nat \ {0}
    BY <1>2, <1>4, EmptySeq, LenProperties
  <1>6. Buffered \in Nat /\ LastPart \in Nat /\ Len(rxState.buf) <= LastPart /\ LastPart <= rxState.size
    BY <1>2, <1>4, <1>5, LinkFacts
  <1> QED
    BY <1>1, <1>2, <1>3, <1>5, <1>6 DEF BlockEnd, Buffered

\* Steps that leave the request and its reassembly alone.
LEMMA DeliverKept ==
  ASSUME DeliverInv, UNCHANGED <<rxState, rxReady, handed, sends, ttx>>,
         Pending' \subseteq Pending, Ordered',
         Offering' => Offering /\ mailbox'.bs = mailbox.bs
  PROVE  DeliverInv'
  <1>1. Delivered'
    BY DEF DeliverInv, Delivered, NumberOf
  <1>2. Reassembling'
    BY DEF DeliverInv, Reassembling, Buffered, LastPart
  <1>3. (\A f \in Pending : Coming(f))'
    <2> SUFFICES ASSUME NEW f \in Pending'  PROVE Coming(f)'
      OBVIOUS
    <2>1. Coming(f)
      BY DEF DeliverInv
    <2> QED
      BY <2>1 DEF Coming, Later, Begins, Continues, OfRequest, Reached, NumberOf, Buffered, LastPart,
                  BlockEnd, BlockOpen
  <1>4. Sending'
    BY DEF DeliverInv, Sending, Reached, NumberOf, Buffered, LastPart, BlockEnd
  <1>5. Offered'
    BY DEF DeliverInv, Offered, Buffered, LastPart
  <1> QED
    BY <1>1, <1>2, <1>3, <1>4, <1>5 DEF DeliverInv

\* A frame sent by the board that is no flow control the tester waits for.
LEMMA DeliverTake ==
  ASSUME LinkType, DeliverInv, TakeCan, UNCHANGED testerVars
  PROVE  /\ DeliverInv' /\ NumberOf(handed)' \in NumberOf(handed) + 1 .. sends
  <1>1. /\ rxReady \in Seq(Pieces) /\ rxReady # <<>> /\ handed' = rxReady /\ rxReady' = <<>>
        /\ UNCHANGED <<rxState, mailbox, rxFifo, sends, ttx>>
    BY LinkFacts DEF TakeCan, NoPayload, testerVars
  <1>2. Len(rxReady) \in Nat \ {0} /\ rxReady[1] \in Pieces
    BY <1>1, Taken
  <1>3. rxReady[1][1] \in Nat
    BY <1>2 DEF Pieces
  <1>4. /\ rxReady = Payload(rxReady[1][1], Len(rxReady))
        /\ rxReady[1][1] \in NumberOf(handed) + 1 .. sends /\ NumberOf(handed) \in 0 .. sends
    BY <1>1 DEF DeliverInv, Delivered
  <1>5. NumberOf(rxReady) = rxReady[1][1]
    BY <1>2, <1>3, <1>4, PayloadNumber
  <1>6. NumberOf(handed)' = NumberOf(rxReady)
    BY <1>1 DEF NumberOf
  <1>7. Reached' = Reached
    BY <1>1, <1>5, <1>6 DEF Reached
  <1>8. Delivered'
    <2>1. NumberOf(handed)' \in 0 .. sends
      BY <1>3, <1>4, <1>5, <1>6, LinkFacts
    <2> QED
      BY <1>1, <2>1 DEF Delivered
  <1>9. Reassembling'
    BY <1>1 DEF DeliverInv, Reassembling, Buffered, LastPart
  <1>10. (\A f \in Pending : Coming(f))' /\ Ordered'
    <2>1. Pending' = Pending /\ Ordered'
      BY <1>1 DEF Pending, DeliverInv, Ordered
    <2> SUFFICES ASSUME NEW f \in Pending'  PROVE Coming(f)'
      BY <2>1
    <2>2. Coming(f)
      BY <2>1 DEF DeliverInv
    <2> QED
      BY <1>1, <1>7, <2>2 DEF Coming, Later, Begins, Continues, OfRequest, Buffered, LastPart,
                  BlockEnd, BlockOpen
  <1>11. Sending'
    BY <1>1, <1>7 DEF DeliverInv, Sending, Buffered, LastPart, BlockEnd
  <1>12. Offered'
    BY <1>1 DEF DeliverInv, Offered, Offering, Buffered, LastPart, Pending
  <1> QED
    BY <1>4, <1>5, <1>6, <1>8, <1>9, <1>10, <1>11, <1>12 DEF DeliverInv

LEMMA DeliverAsk ==
  ASSUME LinkType, DeliverInv, Ask, UNCHANGED <<rxState, rxReady, handed, mailbox>>
  PROVE  DeliverInv'
  <1>1. PICK size \in Sizes :
          /\ rxFifo' = Append(rxFifo, FrameOf(sends + 1, 1, size))
          /\ ttx' = IF size = 1 THEN NotSending
                    ELSE [at |-> "flow", size |-> size, pos |-> 1, left |-> 0]
    BY DEF Ask
  <1>2. size \in Nat \ {0} /\ sends \in Nat /\ sends' = sends + 1 /\ ttx.at = "idle" /\ FifoTyped
    BY Params, LinkFacts DEF Ask, NotSending
  <1> DEFINE x == FrameOf(sends + 1, 1, size)
  <1>3. /\ x \in DataFrames /\ x.data[1] = sends + 1 /\ x.data[2] = 1 /\ x.size = size
        /\ x.pci = (IF size = 1 THEN "single" ELSE "first")
    BY <1>2, FrameType
  <1> HIDE DEF x
  <1>4. Reached \in Nat /\ Reached <= sends /\ NumberOf(handed) \in 0 .. sends /\ Reached' = Reached
    BY ReachedFacts DEF DeliverInv, Delivered, Reached, NumberOf
  <1>5. Pending \subseteq DataFrames
    BY <1>2, PendingFrames
  <1>6. Pending' = Pending \cup {x} /\ Ordered'
    <2>1. ASSUME NEW g \in Pending  PROVE Before(g, x)
      <3>1. g.data[1] \in Reached + 1 .. sends
        BY DEF DeliverInv, Coming, Later
      <3> QED
        BY <1>2, <1>3, <1>4, <3>1 DEF Before
    <2> QED
      BY <1>1, <1>2, <1>3, <2>1, PendingData DEF DeliverInv, x
  <1>7. Delivered'
    BY <1>2, <1>4 DEF DeliverInv, Delivered, NumberOf
  <1>8. Reassembling'
    BY <1>2 DEF DeliverInv, Reassembling, Buffered, LastPart
  <1>9. ASSUME NEW f \in Pending'  PROVE Coming(f)'
    <2>1. CASE f \in Pending
      <3>1. f \in DataFrames /\ f.data[1] \in Nat
        BY <1>5, <2>1, FrameFields
      <3>2. Coming(f)
        BY <2>1 DEF DeliverInv
      <3>3. f.data[1] \in Reached + 1 .. sends
        BY <3>2 DEF Coming, Later
      <3>4. Later(f)' /\ OfRequest(f)'
        BY <1>2, <1>4, <3>1, <3>2, <3>3 DEF Coming, Later, OfRequest
      <3>5. Begins(f)'
        BY <1>2, <3>2 DEF Coming, Begins
      <3>6. Continues(f)'
        <4>1. BlockOpen => BlockOpen'
          BY <1>2 DEF BlockOpen, BlockEnd
        <4> QED
          BY <3>2, <4>1 DEF Coming, Continues, Buffered, LastPart, BlockEnd
      <3> QED
        BY <3>4, <3>5, <3>6 DEF Coming
    <2>2. CASE f = x
      <3>1. Later(f)'
        BY <1>2, <1>3, <1>4, <2>2 DEF Later
      <3>2. f.pci # "consecutive"
        BY <1>3, <2>2
      <3>3. CASE size = 1
        BY <1>1, <1>3, <2>2, <3>1, <3>2, <3>3 DEF Coming, Begins, Continues, OfRequest, NotSending
      <3>4. CASE size # 1
        <4>1. ttx'.at = "flow" /\ ttx'.pos = 1 /\ ttx'.size = size
          BY <1>1, <3>4
        <4> QED
          BY <1>2, <1>3, <2>2, <3>1, <3>2, <3>4, <4>1 DEF Coming, Begins, Continues, OfRequest
      <3> QED
        BY <3>3, <3>4
    <2> QED
      BY <1>6, <2>1, <2>2
  <1>10. Sending'
    <2>1. ttx'.at # "block"
      BY <1>1 DEF NotSending
    <2> QED
      BY <1>2, <1>4, <2>1 DEF Sending
  <1>11. Offered'
    BY <1>2 DEF DeliverInv, Offered, Offering
  <1> QED
    BY <1>6, <1>7, <1>8, <1>9, <1>10, <1>11 DEF DeliverInv

LEMMA DeliverSendBlock ==
  ASSUME LinkType, DeliverInv, SendBlock, UNCHANGED <<rxState, rxReady, handed, mailbox>>
  PROVE  DeliverInv'
  <1>1. /\ ttx.at = "block" /\ ttx \in Senders /\ ttx.pos \in Nat \ {0} /\ ttx.size \in Nat
        /\ ttx.left \in Nat /\ ttx.pos < ttx.size /\ sends \in Nat /\ UNCHANGED sends /\ FifoTyped
        /\ rxFifo' = Append(rxFifo, FrameOf(sends, ttx.pos + 1, ttx.size))
    BY LinkFacts DEF SendBlock, Begun
  <1>2. /\ rxState # Idle /\ Buffered = sends /\ rxState.size = ttx.size /\ LastPart <= ttx.pos
        /\ rxState.bs = 0 => ttx.left = 0
        /\ rxState.bs # 0 => ttx.left > 0 /\ ttx.pos + ttx.left = BlockEnd
        /\ Reached < sends
    BY <1>1 DEF DeliverInv, Sending
  <1>3. LastPart \in Nat /\ BlockEnd \in Int /\ rxState.bs \in Nat /\ rxState.size \in Nat
    BY <1>2, RxFacts DEF DeliverInv
  <1>4. Reached \in Nat /\ Reached' = Reached
    BY ReachedFacts DEF DeliverInv, Reached, NumberOf
  <1> DEFINE x == FrameOf(sends, ttx.pos + 1, ttx.size)
  <1>5. /\ x \in DataFrames /\ x.data[1] = sends /\ x.data[2] = ttx.pos + 1 /\ x.size = ttx.size
        /\ x.pci = "consecutive"
    <2> DEFINE k == ttx.pos + 1
    <2>1. k \in Nat \ {0} /\ k > 1
      BY <1>1
    <2>2. sends \in Nat /\ ttx.size \in Nat
      BY <1>1
    <2>3. /\ x \in DataFrames /\ x.data = <<sends, k>> /\ x.size = ttx.size
          /\ x.pci = (IF k > 1 THEN "consecutive" ELSE IF ttx.size = 1 THEN "single" ELSE "first")
      BY <2>1, <2>2, FrameType
    <2> HIDE DEF x
    <2> QED
      BY <2>1, <2>3
  <1> HIDE DEF x
  <1>6. Pending \subseteq DataFrames
    BY <1>1, PendingFrames
  <1>7. ASSUME NEW g \in Pending
        PROVE  /\ g \in DataFrames /\ g.data[1] \in Nat /\ g.data[2] \in Nat /\ g.size \in Nat
               /\ Coming(g) /\ g.data[1] <= sends /\ g.pci # "first"
               /\ g.data[1] = sends =>
                    g.pci = "consecutive" /\ g.size = ttx.size /\ g.data[2] <= ttx.pos
    <2>1. g \in DataFrames /\ Coming(g)
      BY <1>6 DEF DeliverInv
    <2>2. /\ g.data[1] \in Nat /\ g.data[2] \in Nat /\ g.size \in Nat
          /\ g.pci \in {"single", "first", "consecutive"}
      BY <2>1, FrameFields
    <2>3. g.data[1] <= sends
      BY <1>1, <1>4, <2>1, <2>2 DEF Coming, Later
    <2>4. g.pci # "first"
      BY <1>1, <2>1 DEF Coming, Begins
    <2> QED
      BY <1>1, <2>1, <2>2, <2>3, <2>4 DEF Coming, OfRequest
  <1>8. Pending' = Pending \cup {x} /\ Ordered'
    <2>1. ASSUME NEW g \in Pending  PROVE Before(g, x)
      <3>1. CASE g.data[1] = sends
        BY <1>1, <1>5, <1>7, <3>1 DEF Before
      <3>2. CASE g.data[1] # sends
        BY <1>1, <1>5, <1>7, <3>2 DEF Before
      <3> QED
        BY <3>1, <3>2
    <2> QED
      BY <1>1, <1>5, <2>1, PendingData DEF DeliverInv, x
  <1>9. \/ ttx.pos + 1 = ttx.size /\ ttx'.at = "idle"
        \/ /\ ttx.pos + 1 # ttx.size /\ ttx'.pos = ttx.pos + 1 /\ ttx'.size = ttx.size
           /\ ttx'.at = (IF ttx.left = 1 THEN "flow" ELSE "block")
           /\ ttx'.left = (IF ttx.left = 0 THEN 0 ELSE ttx.left - 1)
    <2> DEFINE pos  == ttx.pos + 1
               at   == IF ttx.left = 1 THEN "flow" ELSE "block"
               left == IF ttx.left = 0 THEN 0 ELSE ttx.left - 1
    <2>1. ttx' = IF ttx.pos + 1 = ttx.size THEN NotSending
                 ELSE [ttx EXCEPT !.pos = pos, !.at = at, !.left = left]
      BY DEF SendBlock
    <2>2. CASE ttx.pos + 1 = ttx.size
      BY <2>1, <2>2 DEF NotSending
    <2>3. CASE ttx.pos + 1 # ttx.size
      <3>1. ttx' = [ttx EXCEPT !.pos = pos, !.at = at, !.left = left]
        BY <2>1, <2>3
      <3> HIDE DEF pos, at, left
      <3>2. ttx'.pos = pos /\ ttx'.at = at /\ ttx'.left = left /\ ttx'.size = ttx.size
        BY <1>1, <3>1 DEF Senders
      <3> QED
        BY <2>3, <3>2 DEF pos, at, left
    <2> QED
      BY <2>2, <2>3
  <1>10. rxState.bs # 0 => ttx.pos + 1 <= BlockEnd /\ BlockOpen' /\ BlockEnd' = BlockEnd
    <2> SUFFICES ASSUME rxState.bs # 0
                 PROVE  ttx.pos + 1 <= BlockEnd /\ BlockOpen' /\ BlockEnd' = BlockEnd
      OBVIOUS
    <2>1. ttx.left > 0 /\ ttx.pos + ttx.left = BlockEnd /\ BlockEnd' = BlockEnd
      BY <1>2 DEF BlockEnd
    <2>2. Buffered' = sends /\ rxState'.size = ttx.size /\ sends' = sends
      BY <1>1, <1>2 DEF Buffered
    <2>3. CASE ttx.pos + 1 = ttx.size
      BY <1>1, <1>3, <2>1, <2>2, <2>3 DEF BlockOpen
    <2>4. CASE ttx.pos + 1 # ttx.size
      BY <1>1, <1>3, <1>9, <2>1, <2>2, <2>4 DEF BlockOpen
    <2> QED
      BY <1>1, <1>3, <2>1, <2>3, <2>4
  <1>11. Delivered'
    BY <1>1 DEF DeliverInv, Delivered, NumberOf
  <1>12. Reassembling'
    BY <1>1 DEF DeliverInv, Reassembling, Buffered, LastPart
  <1>13. ASSUME NEW f \in Pending'  PROVE Coming(f)'
    <2>1. CASE f \in Pending
      <3>1. Later(f)' /\ Begins(f)'
        BY <1>1, <1>4, <1>7, <2>1 DEF Coming, Later, Begins
      <3>2. Continues(f)'
        BY <1>1, <1>7, <1>10, <2>1 DEF Coming, Continues, Buffered, LastPart
      <3>3. OfRequest(f)'
        BY <1>1, <1>7, <1>9, <2>1 DEF OfRequest
      <3> QED
        BY <3>1, <3>2, <3>3 DEF Coming
    <2>2. CASE f = x
      <3>1. Later(f)' /\ Begins(f)'
        BY <1>1, <1>2, <1>4, <1>5, <2>2 DEF Later, Begins
      <3>2. Continues(f)'
        BY <1>1, <1>2, <1>3, <1>5, <1>10, <2>2 DEF Continues, Buffered, LastPart
      <3>3. OfRequest(f)'
        BY <1>1, <1>5, <1>9, <2>2 DEF OfRequest
      <3> QED
        BY <3>1, <3>2, <3>3 DEF Coming
    <2> QED
      BY <1>8, <2>1, <2>2
  <1>14. Sending'
    <2>1. ttx'.at = "block" => ttx.left # 1 /\ ttx'.pos = ttx.pos + 1 /\ ttx'.size = ttx.size
                               /\ ttx'.left = (IF ttx.left = 0 THEN 0 ELSE ttx.left - 1)
      BY <1>9
    <2>2. /\ Buffered' = Buffered /\ LastPart' = LastPart /\ BlockEnd' = BlockEnd
      BY DEF Buffered, LastPart, BlockEnd
    <2>3. ttx'.at \in {"flow", "block"} => Reached' < sends'
      BY <1>1, <1>2, <1>4
    <2>4. ttx'.at = "block" => LastPart' <= ttx'.pos
      BY <1>1, <1>2, <1>3, <2>1, <2>2
    <2>5. ttx'.at = "block" /\ rxState.bs = 0 => ttx'.left = 0
      BY <1>2, <2>1
    <2>6. ttx'.at = "block" /\ rxState.bs # 0 => ttx'.left > 0 /\ ttx'.pos + ttx'.left = BlockEnd'
      BY <1>1, <1>2, <2>1, <2>2
    <2> QED
      BY <1>1, <1>2, <2>1, <2>2, <2>3, <2>4, <2>5, <2>6 DEF Sending
  <1>15. Offered'
    BY <1>1 DEF DeliverInv, Offered, Offering
  <1> QED
    BY <1>8, <1>11, <1>12, <1>13, <1>14, <1>15 DEF DeliverInv

LEMMA DeliverTimeout ==
  ASSUME LinkType, DeliverInv, TesterTimeout, UNCHANGED <<rxState, rxReady, handed, mailbox>>
  PROVE  DeliverInv'
  <1>1. Pending = {} /\ Pending' = {} /\ ~Offering' /\ UNCHANGED <<rxFifo, sends>>
    <2>1. rxFifo = <<>> /\ mailbox = NoFrame /\ UNCHANGED <<rxFifo, sends>>
      BY DEF TesterTimeout, Quiet, Transmitted
    <2>2. Len(rxFifo) = 0
      BY <2>1
    <2>3. Pending = {}
      BY <2>2 DEF Pending
    <2> QED
      BY <2>1, <2>3 DEF Pending, Offering, NoFrame
  <1>2. ttx'.at # "block" /\ (ttx'.at = "flow" => ttx' = ttx)
    BY DEF TesterTimeout, Quiet, NotSending
  <1>3. Delivered' /\ Reassembling' /\ Ordered'
    BY <1>1 DEF DeliverInv, Delivered, NumberOf, Reassembling, Buffered, LastPart, Ordered
  <1>4. Sending'
    BY <1>1, <1>2 DEF DeliverInv, Sending, Reached, NumberOf
  <1> QED
    BY <1>1, <1>3, <1>4 DEF DeliverInv, Offered

\* The tester gets flow control: the board offers it a block, or refuses.
LEMMA DeliverFlow ==
  ASSUME LinkType, DeliverInv, NEW f \in Transmitted, Sent(f), GetsFlow(f),
         UNCHANGED <<rxState, rxReady, handed, sends>>
  PROVE  DeliverInv'
  <1>1. f = mailbox /\ mailbox # NoFrame /\ mailbox' = NoFrame /\ UNCHANGED rxFifo /\ f \in FlowFrames
    <2>1. CASE mailbox # NoFrame /\ f = mailbox /\ mailbox' = NoFrame
      BY <2>1, LinkFacts, FrameKinds DEF EndpointType, GetsFlow
    <2>2. CASE queue # <<>> /\ f = Head(queue)
      <3>1. f \in DataFrames
        BY <2>2, LinkFacts, Taken DEF EndpointType
      <3> QED
        BY <3>1 DEF DataFrames, GetsFlow
    <2> QED
      BY <2>1, <2>2 DEF Sent, GetsFlow
  <1>2. ~Offering' /\ Pending' = Pending /\ Ordered'
    BY <1>1 DEF Offering, NoFrame, Pending, DeliverInv, Ordered
  <1>3. CASE ttx.at # "flow"
    <2>1. UNCHANGED ttx
      BY <1>3 DEF GetsFlow
    <2> QED
      BY <1>2, <2>1, DeliverKept
  <1>4. CASE ttx.at = "flow" /\ f.fs = "ok"
    <2>1. f.bs \in Nat /\ f.pci = "flow"
      BY <1>1 DEF FlowFrames
    <2>2. ttx' = [ttx EXCEPT !.at = "block", !.left = f.bs]
      BY <1>4 DEF GetsFlow
    <2>3. ttx'.at = "block" /\ ttx'.left = f.bs /\ ttx'.pos = ttx.pos /\ ttx'.size = ttx.size
      BY <2>2, LinkFacts DEF Senders
    <2>4. /\ Pending = {} /\ rxState # Idle /\ Buffered = sends /\ rxState.size = ttx.size
          /\ Len(rxState.buf) = ttx.pos /\ LastPart = ttx.pos /\ rxState.count = 0
          /\ f.bs = rxState.bs
      BY <1>1, <1>4, <2>1 DEF DeliverInv, Offered, Offering
    <2>5. /\ LastPart \in Nat /\ rxState.bs \in Nat /\ Len(rxState.buf) \in Nat
          /\ BlockEnd = ttx.pos + f.bs
      BY <2>4, RxFacts DEF DeliverInv, BlockEnd
    <2>6. Delivered' /\ Reassembling'
      BY DEF DeliverInv, Delivered, NumberOf, Reassembling, Buffered, LastPart
    <2>7. Sending'
      <3>1. /\ Buffered' = Buffered /\ LastPart' = LastPart /\ BlockEnd' = BlockEnd
            /\ Reached' = Reached /\ Reached < sends
        BY <1>4 DEF Buffered, LastPart, BlockEnd, Reached, NumberOf, DeliverInv, Sending
      <3> QED
        BY <2>1, <2>3, <2>4, <2>5, <3>1 DEF Sending
    <2> QED
      BY <1>2, <2>4, <2>6, <2>7 DEF DeliverInv, Offered
  <1>5. CASE ttx.at = "flow" /\ f.fs # "ok"
    <2>1. ttx'.at = "refused"
      BY <1>5 DEF GetsFlow, NotSending
    <2>2. Delivered' /\ Reassembling' /\ Sending'
      BY <2>1 DEF DeliverInv, Delivered, NumberOf, Reassembling, Buffered, LastPart, Sending
    <2>3. ASSUME NEW g \in Pending'  PROVE Coming(g)'
      <3>1. Coming(g)
        BY <1>2 DEF DeliverInv
      <3>2. Later(g)' /\ Begins(g)' /\ OfRequest(g)'
        BY <2>1, <3>1 DEF Coming, Later, Reached, NumberOf, Begins, OfRequest
      <3>3. BlockOpen => BlockOpen'
        BY <2>1 DEF BlockOpen, BlockEnd, Buffered
      <3> QED
        BY <3>1, <3>2, <3>3 DEF Coming, Continues, Buffered, LastPart, BlockEnd
    <2> QED
      BY <1>2, <2>2, <2>3 DEF DeliverInv, Offered
  <1> QED
    BY <1>3, <1>4, <1>5

\* The frames that come after x, the one that the interrupt takes.
After(x) == \A g \in Pending' : g \in Pending /\ Before(x, g)

LEMMA PendingFacts ==
  ASSUME LinkType, DeliverInv, NEW g \in Pending
  PROVE  /\ g \in DataFrames /\ g.data \in Pieces /\ g.data[1] \in Nat /\ g.data[2] \in Nat
         /\ g.size \in Nat /\ g.data = <<g.data[1], g.data[2]>>
         /\ g.pci \in {"single", "first", "consecutive"}
         /\ Coming(g) /\ Reached < g.data[1] /\ g.data[1] <= sends
         /\ 1 <= g.data[2] /\ g.data[2] <= g.size
  <1>1. g \in DataFrames /\ Coming(g)
    BY LinkFacts, PendingFrames DEF DeliverInv
  <1>2. /\ g.data \in Pieces /\ g.data[1] \in Nat /\ g.data[2] \in Nat /\ g.size \in Nat
        /\ g.data = <<g.data[1], g.data[2]>> /\ g.pci \in {"single", "first", "consecutive"}
    BY <1>1, FrameFields
  <1>3. Reached \in Nat /\ sends \in Nat
    BY LinkFacts, ReachedFacts DEF DeliverInv
  <1> QED
    BY <1>1, <1>2, <1>3 DEF Coming, Later

\* While a frame is on its way no block is offered.
LEMMA NoOffer ==
  ASSUME DeliverInv, NEW x \in Pending, UNCHANGED mailbox
  PROVE  ~Offering'
  BY DEF DeliverInv, Offered, Offering

LEMMA DeliverSingle ==
  ASSUME LinkType, DeliverInv, NEW x \in Pending, SingleFrame(x), After(x), Ordered',
         UNCHANGED <<handed, sends, ttx>>
  PROVE  DeliverInv'
  <1>1. /\ x.pci = "single" /\ rxReady' = <<x.data>> /\ UNCHANGED <<rxState, mailbox>>
    BY DEF SingleFrame
  <1>2. /\ x.data \in Pieces /\ x.data[1] \in Nat /\ x.data[2] = 1
        /\ x.data = <<x.data[1], 1>> /\ Coming(x) /\ Reached < x.data[1] /\ x.data[1] <= sends
    <2>1. x.size = 1
      BY <1>1, PendingFacts DEF Coming, Later
    <2> QED
      BY <2>1, PendingFacts
  <1>3. /\ Reached \in Nat /\ NumberOf(handed) \in Nat /\ NumberOf(handed) <= Reached /\ sends \in Nat
    BY LinkFacts, ReachedFacts DEF DeliverInv
  <1>4. rxReady' = Payload(x.data[1], 1) /\ rxReady' # <<>> /\ rxReady'[1][1] = x.data[1] /\ Len(rxReady') = 1
    <2>1. Payload(x.data[1], 1) = << <<x.data[1], 1>> >>
      BY DEF Payload
    <2> QED
      BY <1>1, <1>2, <2>1
  <1>5. Reached' = x.data[1]
    BY <1>4 DEF Reached
  <1>6. Delivered'
    <2>1. NumberOf(handed)' = NumberOf(handed)
      BY DEF NumberOf
    <2>2. /\ NumberOf(handed)' \in 0 .. sends'
          /\ rxReady'[1][1] \in NumberOf(handed)' + 1 .. sends'
      BY <1>2, <1>3, <1>4, <2>1
    <2>3. rxReady' = Payload(rxReady'[1][1], Len(rxReady'))
      BY <1>4
    <2> QED
      BY <2>2, <2>3 DEF Delivered
  <1>7. Reassembling'
    BY <1>1 DEF DeliverInv, Reassembling, Buffered, LastPart
  <1>8. ASSUME NEW g \in Pending'  PROVE Coming(g)'
    <2>1. g \in Pending /\ Before(x, g)
      BY DEF After
    <2>2. x.data[1] < g.data[1]
      BY <1>1, <2>1 DEF Before
    <2>3. Coming(g) /\ g.data[1] \in Nat /\ g.data[1] <= sends
      BY <2>1, PendingFacts
    <2>4. Later(g)'
      BY <1>2, <1>3, <1>5, <2>2, <2>3 DEF Coming, Later
    <2> QED
      BY <1>1, <2>3, <2>4
         DEF Coming, Begins, Continues, OfRequest, Buffered, LastPart, BlockEnd, BlockOpen
  <1>9. Sending'
    <2>1. ttx.at \in {"flow", "block"} => x.data[1] < sends
      BY <1>1, <1>2, <1>3 DEF Coming, OfRequest
    <2> QED
      BY <1>1, <1>5, <2>1 DEF DeliverInv, Sending, Buffered, LastPart, BlockEnd
  <1>10. Offered'
    BY <1>1, NoOffer DEF Offered
  <1> QED
    BY <1>6, <1>7, <1>8, <1>9, <1>10 DEF DeliverInv

LEMMA DeliverFirst ==
  ASSUME LinkType, DeliverInv, NEW x \in Pending, FirstFrame(x), After(x), Ordered',
         UNCHANGED <<handed, sends, ttx>>
  PROVE  DeliverInv'
  <1>1. /\ x.pci = "first" /\ UNCHANGED rxReady
    BY DEF FirstFrame
  <1>2. /\ x \in DataFrames /\ x.data[1] = sends /\ x.data[2] = 1 /\ Coming(x) /\ sends \in Nat
        /\ x.data = <<sends, 1>> /\ x.size \in Nat /\ 1 <= x.size /\ Reached < sends
        /\ ttx.at = "refused" \/ (ttx.at = "flow" /\ ttx.pos = 1)
    BY <1>1, LinkFacts, PendingFacts DEF Coming, Begins
  <1>3. Pending' = {}
    <2> SUFFICES ASSUME NEW g \in Pending'  PROVE FALSE
      OBVIOUS
    <2>1. g \in Pending /\ x.data[1] < g.data[1]
      BY <1>1 DEF After, Before
    <2> QED
      BY <1>2, <2>1, PendingFacts
  <1>4. Delivered' /\ Reached' = Reached
    BY <1>1 DEF DeliverInv, Delivered, Reached, NumberOf
  <1>5. CASE UNCHANGED <<rxState, mailbox>>
    <2>1. Reassembling' /\ Sending'
      BY <1>4, <1>5 DEF DeliverInv, Reassembling, Sending, Buffered, LastPart, BlockEnd
    <2>2. Offered'
      BY <1>5, NoOffer DEF Offered
    <2> QED
      BY <1>3, <1>4, <2>1, <2>2 DEF DeliverInv
  <1>6. CASE \E bs \in BlockSizes : mailbox' = FlowControl("ok", bs) /\ rxState' = Reassembly(x, bs)
    <2>1. PICK bs \in BlockSizes : mailbox' = FlowControl("ok", bs) /\ rxState' = Reassembly(x, bs)
      BY <1>6
    <2>2. /\ rxState' # Idle /\ rxState'.buf = << <<sends, 1>> >> /\ rxState'.count = 0
          /\ rxState'.size = x.size /\ rxState'.bs = bs /\ bs \in Nat /\ mailbox'.bs = bs
      <3>1. bs \in Nat
        BY Params
      <3>2. mailbox'.bs = bs
        BY <2>1, <3>1, FlowType
      <3> QED
        BY <1>2, <2>1, <3>1, <3>2, NewAssembly
    <2>3. /\ Len(rxState'.buf) = 1 /\ Buffered' = sends /\ LastPart' = 1
          /\ rxState'.buf[1][1] = sends /\ rxState'.buf # <<>>
      BY <2>2 DEF Buffered, LastPart
    <2>4. rxState'.buf = Payload(sends, 1)
      BY <2>2 DEF Payload
    <2>5. Reassembling'
      <3>1. Buffered' \in 1 .. sends'
        BY <1>2, <2>3, ReachedFacts DEF DeliverInv
      <3> QED
        BY <1>2, <2>2, <2>3, <2>4, <3>1 DEF Reassembling
    <2>6. Sending'
      BY <1>2, <1>4 DEF Sending
    <2>7. Offered'
      <3>1. ttx.at # "refused" => x.size = ttx.size
        BY <1>2 DEF Coming, OfRequest
      <3> QED
        BY <1>2, <1>3, <2>2, <2>3, <3>1 DEF Offered
    <2> QED
      BY <1>3, <1>4, <2>5, <2>6, <2>7 DEF DeliverInv
  <1> QED
    BY <1>5, <1>6 DEF FirstFrame

LEMMA DeliverConsecutive ==
  ASSUME LinkType, DeliverInv, NEW x \in Pending, ConsecutiveFrame(x), After(x), Ordered',
         UNCHANGED <<handed, sends, ttx>>
  PROVE  DeliverInv'
  <1>1. x.pci = "consecutive"
    BY DEF ConsecutiveFrame
  <1>2. /\ x \in DataFrames /\ x.data \in Pieces /\ x.data[1] = Buffered /\ x.data[2] \in Nat
        /\ x.size = rxState.size /\ x.data = <<Buffered, x.data[2]>> /\ rxState # Idle
        /\ LastPart < x.data[2] /\ x.data[2] <= rxState.size
        /\ Reached < Buffered /\ Buffered <= sends
        /\ rxState.bs # 0 => x.data[2] <= BlockEnd /\ BlockOpen
        /\ Buffered = sends /\ ttx.at \in {"flow", "block"} =>
             rxState.size = ttx.size /\ x.data[2] <= ttx.pos
    <2>1. Coming(x)
      BY PendingFacts
    <2>2. LastPart \in Nat
      BY <1>1, <2>1, RxFacts DEF DeliverInv, Coming, Continues
    <2> QED
      BY <1>1, <2>1, <2>2, PendingFacts DEF Coming, Continues, OfRequest
  <1> DEFINE buf   == Append(rxState.buf, x.data)
             count == (rxState.count + 1) % U8
             more  == More(rxState, x, count)
             fresh == More(rxState, x, 0)
             len   == Len(rxState.buf)
  <1>3. /\ rxState \in Assemblies /\ rxState.buf \in Seq(Pieces) /\ len \in Nat \ {0}
        /\ Buffered \in Nat /\ LastPart \in Nat /\ rxState.size \in Nat
        /\ rxState.count \in Nat /\ rxState.bs \in Nat /\ rxState.bs < U8 /\ BlockEnd \in Int
        /\ len < rxState.size /\ len <= LastPart /\ sends \in Nat /\ U8 \in Nat \ {0}
        /\ rxState.buf[1][1] = Buffered /\ Reached \in Nat
        /\ NumberOf(handed) \in Nat /\ NumberOf(handed) <= Reached
    BY <1>2, RxFacts, LinkFacts, ReachedFacts, Params DEF DeliverInv
  <1>4. /\ buf \in Seq(Pieces) /\ buf # <<>> /\ Len(buf) = len + 1 /\ buf[len + 1] = x.data
        /\ buf[1] = rxState.buf[1]
    <2>1. 1 \in 1 .. len
      BY <1>3
    <2>0. rxState.buf \in Seq(Pieces) /\ x.data \in Pieces
      BY <1>2, <1>3
    <2> HIDE DEF len
    <2>2. buf \in Seq(Pieces) /\ buf # <<>> /\ Len(buf) = Len(rxState.buf) + 1
          /\ buf[Len(rxState.buf) + 1] = x.data
          /\ \A i \in 1 .. Len(rxState.buf) : buf[i] = rxState.buf[i]
      BY <2>0, Appended
    <2> QED
      BY <2>1, <2>2 DEF len
  <1>5. count \in Nat
    BY <1>3
  <1>6. /\ more # Idle /\ more.count = count /\ more.buf = buf /\ more.size = rxState.size
        /\ more.bs = rxState.bs
    <2>1. x \in DataFrames /\ rxState \in Assemblies
      BY <1>2, <1>3
    <2> HIDE DEF count
    <2> QED
      BY <1>5, <2>1, MoreAssembly
  <1>7. /\ fresh # Idle /\ fresh.count = 0 /\ fresh.buf = buf /\ fresh.size = rxState.size
        /\ fresh.bs = rxState.bs
    BY <1>2, <1>3, MoreAssembly
  <1>8. [more EXCEPT !.count = 0] = fresh
    BY <1>3 DEF Assemblies, More
  <1>9. rxState.bs # 0 => rxState.count < rxState.bs /\ count = rxState.count + 1
    <2> SUFFICES ASSUME rxState.bs # 0
                 PROVE  rxState.count < rxState.bs /\ count = rxState.count + 1
      OBVIOUS
    <2>1. rxState.count < rxState.bs
      BY <1>2 DEF DeliverInv, Reassembling
    <2>2. rxState.count + 1 \in 0 .. U8 - 1 /\ U8 \in Nat \ {0}
      BY <1>3, <2>1
    <2>3. count = rxState.count + 1
      BY <2>2, NoWrap
    <2> QED
      BY <2>1, <2>3
  <1>10. \* If this piece is where it belongs, all are.
         x.data[2] = len + 1 => buf = Payload(Buffered, len + 1)
    <2> SUFFICES ASSUME x.data[2] = len + 1  PROVE buf = Payload(Buffered, len + 1)
      OBVIOUS
    <2>1. LastPart = len
      BY <1>2, <1>3
    <2>2. rxState.buf = Payload(Buffered, len)
      BY <1>2, <2>1 DEF DeliverInv, Reassembling
    <2>3. x.data = <<Buffered, len + 1>>
      BY <1>2
    <2>4. buf = Append(Payload(Buffered, len), <<Buffered, len + 1>>)
      BY <2>2, <2>3
    <2> HIDE DEF buf, len
    <2> QED
      BY <1>3, <2>4, PayloadMore
  <1>11. ASSUME NEW g \in Pending'
         PROVE  /\ g \in Pending /\ g.data[1] \in Nat /\ g.data[2] \in Nat /\ g.data[1] <= sends
                /\ Coming(g) /\ Buffered <= g.data[1]
                /\ g.pci = "consecutive" => x.data[2] < g.data[2] /\ g.size = rxState.size
                                            /\ g.data[2] <= rxState.size /\ g.data[1] = Buffered
                /\ g.pci # "consecutive" => Buffered < g.data[1]
    <2>1. g \in Pending /\ Before(x, g)
      BY DEF After
    <2>2. /\ g.data[1] \in Nat /\ g.data[2] \in Nat /\ Coming(g) /\ g.data[1] <= sends
          /\ g.data[2] <= g.size
      BY <2>1, PendingFacts
    <2>3. g.pci = "consecutive" => g.data[1] = Buffered /\ g.size = rxState.size
      BY <2>2 DEF Coming, Continues
    <2> QED
      BY <1>1, <1>2, <1>3, <2>1, <2>2, <2>3 DEF Before
  <1>12. \* At the end of a block nothing else of it comes.
         rxState.bs # 0 /\ len + 1 = BlockEnd =>
           /\ x.data[2] = len + 1 /\ \A g \in Pending' : g.pci # "consecutive"
    <2> SUFFICES ASSUME rxState.bs # 0, len + 1 = BlockEnd
                 PROVE  x.data[2] = len + 1 /\ \A g \in Pending' : g.pci # "consecutive"
      OBVIOUS
    <2>1. x.data[2] = len + 1
      BY <1>2, <1>3
    <2>2. ASSUME NEW g \in Pending', g.pci = "consecutive"  PROVE FALSE
      <3>1. g.data[2] <= BlockEnd
        BY <1>11, <2>2 DEF Coming, Continues
      <3> QED
        BY <1>2, <1>3, <1>11, <2>1, <2>2, <3>1
    <2> QED
      BY <2>1, <2>2
  <1>13. BlockEnd = len - rxState.count + rxState.bs
    BY DEF BlockEnd
  <1>14. /\ \/ /\ Len(buf) = rxState.size /\ rxReady' = buf /\ rxState' = Idle /\ UNCHANGED mailbox
            \/ /\ Len(buf) < rxState.size /\ ~(rxState.bs # 0 /\ count = rxState.bs)
               /\ rxState' = more /\ UNCHANGED <<rxReady, mailbox>>
            \/ /\ Len(buf) < rxState.size /\ rxState.bs # 0 /\ count = rxState.bs
               /\ mailbox' = FlowControl("ok", rxState.bs) /\ rxState' = fresh /\ UNCHANGED rxReady
            \/ /\ rxState.bs # 0 /\ count = rxState.bs
               /\ rxState' = Idle /\ UNCHANGED <<rxReady, mailbox>>
    BY <1>2, <1>8 DEF ConsecutiveFrame, BlockFull, More
  <1> HIDE DEF buf, count, more, fresh, len
  <1>15. CASE Len(buf) = rxState.size /\ rxReady' = buf /\ rxState' = Idle /\ UNCHANGED mailbox
    <2>1. x.data[2] = len + 1 /\ rxState.size = len + 1
      BY <1>2, <1>3, <1>4, <1>15
    <2>2. rxReady' = Payload(Buffered, Len(rxReady')) /\ rxReady'[1][1] = Buffered /\ rxReady' # <<>>
      BY <1>3, <1>4, <1>10, <1>15, <2>1
    <2>3. Reached' = Buffered
      BY <2>2 DEF Reached
    <2>4. Delivered'
      <3>1. NumberOf(handed)' = NumberOf(handed)
        BY DEF NumberOf
      <3> QED
        BY <1>2, <1>3, <2>2, <3>1 DEF Delivered
    <2>5. ASSUME NEW g \in Pending'  PROVE Coming(g)'
      <3>1. g.pci # "consecutive"
        BY <1>2, <1>3, <1>11, <2>1
      <3>2. Later(g)'
        BY <1>3, <1>11, <2>3, <3>1 DEF Coming, Later
      <3> QED
        BY <1>11, <3>1, <3>2 DEF Coming, Begins, Continues, OfRequest
    <2>6. Sending'
      <3>1. ttx.at \in {"flow", "block"} => Buffered < sends
        <4> SUFFICES ASSUME ttx.at \in {"flow", "block"}, Buffered = sends  PROVE FALSE
          BY <1>2, <1>3
        <4>1. ttx.pos < ttx.size /\ ttx.pos \in Nat /\ ttx.size \in Nat
          BY LinkFacts DEF Begun
        <4> QED
          BY <1>2, <1>3, <2>1, <4>1
      <3>2. ttx.at # "block"
        BY <1>2, <1>3, <3>1 DEF DeliverInv, Sending
      <3> QED
        BY <2>3, <3>1, <3>2 DEF Sending
    <2>7. Reassembling' /\ Offered'
      BY <1>15, NoOffer DEF Reassembling, Offered
    <2> QED
      BY <2>4, <2>5, <2>6, <2>7 DEF DeliverInv
  <1>16. CASE /\ Len(buf) < rxState.size /\ ~(rxState.bs # 0 /\ count = rxState.bs)
              /\ rxState' = more /\ UNCHANGED <<rxReady, mailbox>>
    <2>1. /\ Buffered' = Buffered /\ LastPart' = x.data[2] /\ rxState'.buf[Len(rxState'.buf)][1] = Buffered
          /\ Len(rxState'.buf) = len + 1 /\ rxState'.buf # <<>>
      <3>1. rxState'.buf = buf
        BY <1>6, <1>16
      <3>2. Buffered' = buf[1][1] /\ LastPart' = buf[len + 1][2]
        BY <1>4, <3>1 DEF Buffered, LastPart
      <3>3. x.data[1] = Buffered
        BY <1>2
      <3> QED
        BY <1>3, <1>4, <3>1, <3>2, <3>3
    <2>2. rxState.bs # 0 => BlockEnd' = BlockEnd
      <3>1. BlockEnd' = (len + 1) - count + rxState.bs
        BY <1>6, <1>16, <2>1 DEF BlockEnd
      <3> QED
        <4>1. rxState.count \in Nat /\ rxState.bs \in Nat /\ len \in Nat
          BY <1>3
        <4> QED
          BY <1>9, <1>13, <3>1, <4>1
    <2>3. Delivered' /\ Reached' = Reached
      BY <1>16 DEF DeliverInv, Delivered, Reached, NumberOf
    <2>4. Reassembling'
      <3>1. Buffered' \in 1 .. sends'
        BY <1>2, <1>3, <2>1
      <3>2. LastPart' \in Len(rxState'.buf) .. rxState'.size
        BY <1>2, <1>3, <1>6, <1>16, <2>1
      <3>3. LastPart' = Len(rxState'.buf) => rxState'.buf = Payload(Buffered', Len(rxState'.buf))
        BY <1>6, <1>10, <1>16, <2>1
      <3>4. rxState'.bs # 0 => rxState'.count < rxState'.bs
        BY <1>3, <1>6, <1>9, <1>16
      <3> QED
        BY <2>1, <3>1, <3>2, <3>3, <3>4 DEF Reassembling
    <2>5. ASSUME NEW g \in Pending'  PROVE Coming(g)'
      <3>1. Later(g)' /\ Begins(g)' /\ OfRequest(g)'
        BY <1>11, <2>3 DEF Coming, Later, Begins, OfRequest
      <3>2. rxState.bs # 0 /\ BlockOpen => BlockOpen'
        BY <1>6, <1>16, <2>1, <2>2 DEF BlockOpen
      <3>3. Continues(g)'
        BY <1>6, <1>11, <1>16, <2>1, <2>2, <3>2 DEF Coming, Continues
      <3> QED
        BY <3>1, <3>3 DEF Coming
    <2>6. Sending'
      <3>1. ttx.at = "block" => x.data[2] <= ttx.pos
        BY <1>2 DEF DeliverInv, Sending
      <3> QED
        BY <1>6, <1>16, <2>1, <2>2, <2>3, <3>1 DEF DeliverInv, Sending
    <2>7. Offered'
      BY <1>16, NoOffer DEF Offered
    <2> QED
      BY <2>3, <2>4, <2>5, <2>6, <2>7 DEF DeliverInv
  <1>17. \* The end of a block, where the tester waits.
         rxState.bs # 0 /\ count = rxState.bs =>
           /\ len + 1 = BlockEnd /\ x.data[2] = len + 1 /\ ttx.at # "block"
           /\ \A g \in Pending' : g.pci # "consecutive"
    <2> SUFFICES ASSUME rxState.bs # 0, count = rxState.bs
                 PROVE  /\ len + 1 = BlockEnd /\ x.data[2] = len + 1 /\ ttx.at # "block"
                        /\ \A g \in Pending' : g.pci # "consecutive"
      OBVIOUS
    <2>1. len + 1 = BlockEnd
      BY <1>3, <1>9, <1>13
    <2>2. x.data[2] = len + 1 /\ \A g \in Pending' : g.pci # "consecutive"
      BY <1>12, <2>1
    <2>3. ttx.at # "block"
      <3> SUFFICES ASSUME ttx.at = "block"  PROVE FALSE
        OBVIOUS
      <3>1. ttx.left > 0 /\ ttx.pos + ttx.left = BlockEnd /\ x.data[2] <= ttx.pos
        BY <1>2 DEF DeliverInv, Sending
      <3>2. ttx.left \in Nat /\ ttx.pos \in Nat
        BY LinkFacts
      <3> QED
        BY <1>3, <2>1, <2>2, <3>1, <3>2
    <2> QED
      BY <2>1, <2>2, <2>3
  <1>18. CASE /\ Len(buf) < rxState.size /\ rxState.bs # 0 /\ count = rxState.bs
              /\ mailbox' = FlowControl("ok", rxState.bs) /\ rxState' = fresh /\ UNCHANGED rxReady
    <2>1. /\ Buffered' = Buffered /\ LastPart' = len + 1 /\ rxState'.buf[Len(rxState'.buf)][1] = Buffered
          /\ Len(rxState'.buf) = len + 1 /\ rxState'.buf # <<>>
      <3>1. rxState'.buf = buf
        BY <1>7, <1>18
      <3>2. Buffered' = buf[1][1] /\ LastPart' = buf[len + 1][2]
        BY <1>4, <3>1 DEF Buffered, LastPart
      <3>3. x.data[1] = Buffered
        BY <1>2
      <3> QED
        BY <1>3, <1>4, <1>17, <1>18, <3>1, <3>2, <3>3
    <2>2. Delivered' /\ Reached' = Reached
      BY <1>18 DEF DeliverInv, Delivered, Reached, NumberOf
    <2>3. /\ Buffered = sends
          /\ ttx.at = "refused" \/ (ttx.at = "flow" /\ ttx.pos = len + 1)
      <3>1. BlockOpen /\ ~(rxState.size <= BlockEnd)
        BY <1>2, <1>3, <1>4, <1>17, <1>18
      <3> QED
        BY <1>17, <1>18, <3>1 DEF BlockOpen
    <2>4. Pending' = {}
      <3> SUFFICES ASSUME NEW g \in Pending'  PROVE FALSE
        OBVIOUS
      <3> QED
        BY <1>3, <1>11, <1>17, <1>18, <2>3
    <2>5. Reassembling'
      <3>1. Buffered' \in 1 .. sends'
        BY <1>2, <1>3, <2>1
      <3>2. LastPart' \in Len(rxState'.buf) .. rxState'.size
        BY <1>3, <1>4, <1>7, <1>18, <2>1
      <3>3. rxState'.buf = Payload(Buffered', Len(rxState'.buf))
        BY <1>7, <1>10, <1>17, <1>18, <2>1
      <3>4. rxState'.bs # 0 => rxState'.count < rxState'.bs
        BY <1>3, <1>7, <1>18
      <3> QED
        BY <2>1, <3>1, <3>2, <3>3, <3>4 DEF Reassembling
    <2>6. Sending'
      BY <1>17, <1>18, <2>2 DEF DeliverInv, Sending
    <2>7. Offered'
      <3>1. mailbox'.bs = rxState.bs
        BY <1>3, <1>18, FlowType
      <3>2. ttx.at = "flow" => rxState.size = ttx.size
        BY <1>2, <2>3
      <3> QED
        BY <1>7, <1>18, <2>1, <2>3, <2>4, <3>1, <3>2 DEF Offered
    <2> QED
      BY <2>2, <2>4, <2>5, <2>6, <2>7 DEF DeliverInv
  <1>19. CASE /\ rxState.bs # 0 /\ count = rxState.bs
              /\ rxState' = Idle /\ UNCHANGED <<rxReady, mailbox>>
    <2>1. Delivered' /\ Reached' = Reached
      BY <1>19 DEF DeliverInv, Delivered, Reached, NumberOf
    <2>2. ASSUME NEW g \in Pending'  PROVE Coming(g)'
      <3>1. g.pci # "consecutive"
        BY <1>17, <1>19
      <3> QED
        BY <1>11, <2>1, <3>1 DEF Coming, Later, Begins, Continues, OfRequest
    <2>3. Sending'
      BY <1>17, <1>19, <2>1 DEF DeliverInv, Sending
    <2>4. Reassembling' /\ Offered'
      BY <1>19, NoOffer DEF Reassembling, Offered
    <2> QED
      BY <2>1, <2>2, <2>3, <2>4 DEF DeliverInv
  <1> QED
    BY <1>14, <1>15, <1>16, <1>18, <1>19

LEMMA DeliverToBoard ==
  ASSUME LinkType, DeliverInv, ToBoard
  PROVE  DeliverInv'
  <1> DEFINE x == Head(rxFifo)
  <1>1. /\ FifoTyped /\ Ordered /\ rxFifo # <<>> /\ rxFifo' = Tail(rxFifo)
        /\ UNCHANGED <<handed, sends, ttx>> /\ OnFrameRx(x)
    BY LinkFacts DEF DeliverInv, ToBoard, taskVars
  <1>2. /\ Pending' \subseteq Pending /\ Ordered' /\ x \in Frames
        /\ x.pci # "flow" => x \in Pending /\ \A g \in Pending' : Before(x, g)
    BY <1>1, PendingTaken
  <1> HIDE DEF x
  <1>3. CASE x.pci # "flow"
    <2>1. x \in Pending /\ After(x)
      BY <1>2, <1>3 DEF After
    <2>2. SingleFrame(x) \/ FirstFrame(x) \/ ConsecutiveFrame(x)
      BY <1>1, <1>3 DEF OnFrameRx, FlowControlFrame
    <2> QED
      BY <1>1, <1>2, <2>1, <2>2, DeliverSingle, DeliverFirst, DeliverConsecutive
  <1>4. CASE x.pci = "flow"
    <2>1. UNCHANGED <<rxState, rxReady, mailbox>>
      BY <1>1, <1>4
         DEF OnFrameRx, FlowControlFrame, SingleFrame, FirstFrame, ConsecutiveFrame
    <2> QED
      BY <1>1, <1>2, <2>1, DeliverKept DEF Offering
  <1> QED
    BY <1>3, <1>4

\* What the tester gets of an answer brings at most flow control of its own.
LEMMA TesterReplies ==
  ASSUME LinkType, DeliverInv, NEW f \in Frames, GetsSingle(f) \/ GetsFirst(f) \/ GetsConsecutive(f)
  PROVE  UNCHANGED ttx /\ Pending' = Pending /\ Ordered'
  <1>1. FifoTyped /\ Ordered /\ trx \in Receivers
    BY LinkFacts DEF DeliverInv, LinkType, TesterType, Receivers
  <1>2. CASE UNCHANGED <<rxFifo, ttx>>
    BY <1>1, <1>2 DEF Pending, Ordered
  <1>3. CASE \E x \in FlowFrames : rxFifo' = Append(rxFifo, x) /\ UNCHANGED ttx
    BY <1>1, <1>3, PendingFlow
  <1>4. CASE GetsSingle(f)
    BY <1>2, <1>4 DEF GetsSingle
  <1>5. CASE GetsFirst(f)
    <2>1. PICK bs \in TesterBs, fs \in {"ok", "wait", "reject"} :
            rxFifo' = Append(rxFifo, FlowControl(fs, IF fs = "ok" THEN bs ELSE 0))
      BY <1>5 DEF GetsFirst
    <2> DEFINE b == IF fs = "ok" THEN bs ELSE 0
    <2>2. b \in Nat
      BY Params
    <2>3. FlowControl(fs, b) \in FlowFrames
      BY <2>2, FlowType
    <2> QED
      BY <1>3, <1>5, <2>1, <2>3 DEF GetsFirst
  <1>6. CASE GetsConsecutive(f)
    <2>1. f \in DataFrames
      BY <1>6, FrameKinds DEF GetsConsecutive
    <2>2. FlowControl("ok", trx.bs) \in FlowFrames
      <3>1. trx.bs \in Nat
        BY <1>1 DEF Receivers
      <3> QED
        BY <3>1, FlowType
    <2>3. UNCHANGED ttx /\ (UNCHANGED rxFifo \/ rxFifo' = Append(rxFifo, FlowControl("ok", trx.bs)))
      BY <1>1, <1>6, <2>1, ConsecutiveCases
    <2> QED
      BY <1>2, <1>3, <2>2, <2>3
  <1> QED
    BY <1>4, <1>5, <1>6

\* Sending a frame leaves the mailbox alone, or empty.
LEMMA SentOffer ==
  ASSUME NEW f, Sent(f)
  PROVE  Offering' => Offering /\ mailbox'.bs = mailbox.bs
  <1>1. ~Offering' \/ UNCHANGED mailbox
    BY DEF Sent, Offering, NoFrame
  <1> QED
    BY <1>1 DEF Offering

LEMMA DeliverToTester ==
  ASSUME LinkType, DeliverInv, ToTester
  PROVE  DeliverInv'
  <1>1. PICK f \in Transmitted : Sent(f) /\ TesterGets(f)
    BY DEF ToTester
  <1>2. f \in Frames /\ UNCHANGED <<rxState, rxReady, handed, sends>>
    BY <1>1, LinkFacts, SentType DEF ToTester, TesterGets, taskVars
  <1>3. CASE GetsFlow(f)
    BY <1>1, <1>2, <1>3, DeliverFlow
  <1>4. CASE GetsSingle(f) \/ GetsFirst(f) \/ GetsConsecutive(f)
    <2>1. UNCHANGED ttx /\ Pending' = Pending /\ Ordered'
      BY <1>2, <1>4, TesterReplies
    <2> QED
      BY <1>1, <1>2, <2>1, SentOffer, DeliverKept
  <1> QED
    BY <1>1, <1>3, <1>4 DEF TesterGets

LEMMA DeliverLose ==
  ASSUME LinkType, DeliverInv, Lose
  PROVE  DeliverInv'
  <1>1. UNCHANGED <<rxState, rxReady, handed, sends, ttx>> /\ FifoTyped /\ Ordered
    BY LinkFacts DEF Lose, taskVars, DeliverInv
  <1>2. CASE (\E f \in Transmitted : Sent(f)) /\ UNCHANGED rxFifo
    <2>1. Pending' = Pending /\ Ordered'
      BY <1>1, <1>2 DEF Pending, Ordered
    <2> QED
      BY <1>1, <1>2, <2>1, SentOffer, DeliverKept
  <1>3. CASE rxFifo # <<>> /\ rxFifo' = Tail(rxFifo) /\ UNCHANGED <<mailbox, queue>>
    <2>1. Pending' \subseteq Pending /\ Ordered'
      BY <1>1, <1>3, PendingTaken
    <2> QED
      BY <1>1, <1>3, <2>1, DeliverKept DEF Offering
  <1> QED
    BY <1>2, <1>3 DEF Lose

LEMMA DeliverResume ==
  ASSUME LinkType, DeliverInv, Resume, UNCHANGED <<rxState, rxReady, handed, mailbox>>
  PROVE  DeliverInv'
  <1>1. FlowControl("ok", trx.bs) \in FlowFrames
    <2>1. trx.bs \in Nat
      BY DEF LinkType, TesterType
    <2> QED
      BY <2>1, FlowType
  <1>2. Pending' = Pending /\ Ordered'
    BY <1>1, LinkFacts, PendingFlow DEF Resume, DeliverInv
  <1> QED
    BY <1>2, DeliverKept DEF Resume, Offering

LEMMA DeliverBoard ==
  ASSUME LinkType, DeliverInv, Board, ~TakeCan
  PROVE  DeliverInv' /\ UNCHANGED <<handed, served, sends>>
  <1>1. UNCHANGED testerVars
    BY DEF Board
  <1>2. Pending' = Pending /\ Ordered'
    BY <1>1 DEF testerVars, Pending, DeliverInv, Ordered
  <1>3. UNCHANGED <<rxState, rxReady, handed, served>>
    BY DEF Board, TakeUsb, AnswerCan, AnswerUsb, Replied, WritePayload, FlowOk, FlowWait, FlowReject,
           SendConsecutive, Release, FlowTimeout, isotpVars, taskVars
  <1>4. Offering' => Offering /\ mailbox'.bs = mailbox.bs
    <2>1. CASE UNCHANGED mailbox
      BY <2>1 DEF Offering
    <2>2. CASE AnswerCan
      <3>1. PICK size \in ReplySizes : WritePayload(job.of, size)
        BY <2>2 DEF AnswerCan
      <3>2. job.of \in Nat /\ size \in Nat \ {0}
        BY Params DEF LinkType, TaskType
      <3>3. FrameOf(job.of, 1, size).pci # "flow"
        <4>1. job.of \in Nat /\ size \in Nat /\ 1 \in Nat \ {0}
          BY <3>2
        <4>2. FrameOf(job.of, 1, size) \in DataFrames
          BY <4>1, FrameType
        <4> QED
          BY <4>2, FrameFields
      <3>4. UNCHANGED mailbox \/ ~Offering'
        BY <3>1, <3>3 DEF WritePayload, Offering
      <3> QED
        BY <3>4 DEF Offering
    <2>3. CASE FlowReject
      <3>1. UNCHANGED mailbox \/ mailbox'.fs = "reject"
        BY <2>3 DEF FlowReject, FlowControl
      <3> QED
        BY <3>1 DEF Offering
    <2> QED
      BY <2>1, <2>2, <2>3
         DEF Board, TakeUsb, AnswerUsb, Replied, FlowOk, FlowWait, SendConsecutive, Release,
             FlowTimeout, isotpVars
  <1> QED
    BY <1>1, <1>2, <1>3, <1>4, DeliverKept DEF testerVars

\* Every step keeps the invariant, and does to the abstract variables what
\* Delivery allows.
LEMMA DeliverStep ==
  ASSUME LinkType, DeliverInv, [DiagNext]_diagVars
  PROVE  DeliverInv' /\ [OnCan!Next]_(OnCan!deliveryVars)
  <1> DEFINE Same == UNCHANGED <<handed, served, sends>>
  <1>1. ASSUME Same  PROVE UNCHANGED OnCan!deliveryVars
    BY <1>1 DEF OnCan!deliveryVars, NumberOf
  <1> SUFFICES DeliverInv' /\ (Same \/ OnCan!Next)
    BY <1>1
  <1>2. CASE TakeCan /\ Board
    <2>1. UNCHANGED testerVars
      BY <1>2 DEF Board
    <2>2. DeliverInv' /\ NumberOf(handed)' \in NumberOf(handed) + 1 .. sends
      BY <1>2, <2>1, DeliverTake
    <2>3. OnCan!Take
      BY <1>2, <2>1, <2>2 DEF TakeCan, OnCan!Take, NumberOf, testerVars
    <2> QED
      BY <2>2, <2>3 DEF OnCan!Next
  <1>3. CASE Board /\ ~TakeCan
    BY <1>3, DeliverBoard
  <1>4. CASE ToTester
    BY <1>4, DeliverToTester DEF ToTester, TesterGets, taskVars
  <1>5. CASE ToBoard
    BY <1>5, DeliverToBoard DEF ToBoard, taskVars
  <1>6. CASE Lose
    BY <1>6, DeliverLose DEF Lose, taskVars
  <1>7. CASE Tester
    <2>1. UNCHANGED <<rxState, rxReady, handed, served, mailbox>>
      BY <1>7 DEF Tester, isotpVars, taskVars
    <2>2. CASE Ask
      <3>1. OnCan!Send
        BY <2>1, <2>2 DEF Ask, OnCan!Send, NumberOf
      <3> QED
        BY <2>1, <2>2, <3>1, DeliverAsk DEF OnCan!Next
    <2>3. CASE SendBlock
      BY <2>1, <2>3, DeliverSendBlock DEF SendBlock
    <2>4. CASE Resume
      BY <2>1, <2>4, DeliverResume DEF Resume
    <2>5. CASE TesterTimeout
      BY <2>1, <2>5, DeliverTimeout DEF TesterTimeout
    <2> QED
      BY <1>7, <2>2, <2>3, <2>4, <2>5 DEF Tester
  <1>8. CASE Host \/ UNCHANGED diagVars
    <2>1. UNCHANGED <<rxState, rxReady, handed, served, sends, ttx, rxFifo, mailbox>>
      BY <1>8 DEF Host, diagVars, isotpVars, taskVars, testerVars
    <2>2. Pending' = Pending /\ Ordered'
      BY <2>1 DEF Pending, DeliverInv, Ordered
    <2> QED
      BY <2>1, <2>2, DeliverKept DEF Offering
  <1> QED
    BY <1>2, <1>3, <1>4, <1>5, <1>6, <1>7, <1>8 DEF DiagNext

LEMMA DeliverInit == DiagInit => DeliverInv /\ OnCan!Init
  <1> SUFFICES ASSUME DiagInit  PROVE DeliverInv /\ OnCan!Init
    OBVIOUS
  <1>1. /\ rxReady = <<>> /\ handed = <<>> /\ rxState = Idle /\ sends = 0 /\ served = 0
        /\ mailbox = NoFrame /\ ttx = NotSending /\ Len(rxFifo) = 0
    BY DEF DiagInit, IsoTpInit, NoPayload
  <1>2. NumberOf(handed) = 0
    BY <1>1 DEF NumberOf
  <1>3. Pending = {} /\ Ordered
    BY <1>1 DEF Pending, Ordered
  <1>4. Delivered
    BY <1>1, <1>2 DEF Delivered
  <1>5. Reassembling
    BY <1>1 DEF Reassembling
  <1>6. ttx.at = "idle" /\ mailbox.pci = "none"
    BY <1>1 DEF NotSending, NoFrame
  <1>7. Sending /\ Offered
    BY <1>6 DEF Sending, Offered, Offering
  <1>8. OnCan!Init
    BY <1>1, <1>2 DEF OnCan!Init
  <1> QED
    BY <1>3, <1>4, <1>5, <1>7, <1>8 DEF DeliverInv

\* Requests on CAN are delivered as Delivery promises: the server takes whole
\* requests, in the order in which they were sent and each at most once, although
\* the endpoint looks at no sequence number, frames are lost, buffers are found in
\* use, and a tester may ask again while its last request is being assembled.
THEOREM Delivers == DiagSpec => CanDelivers
  <1>1. LinkType /\ DeliverInv /\ [DiagNext]_diagVars =>
          (LinkType /\ DeliverInv)' /\ [OnCan!Next]_(OnCan!deliveryVars)
    BY LinkTypeStep, DeliverStep
  <1> QED
    BY <1>1, LinkTypeInit, DeliverInit, PTL DEF DiagSpec, CanDelivers, OnCan!Spec

-----------------------------------------------------------------------------
(* Answers on their way to the tester, when the task waits after each *)

IsData(f) == f.pci \in {"single", "first", "consecutive"}

\* What the tester puts together: its message, and the last piece it holds.
Answer  == trx.buf[1][1]
LastGot == trx.buf[Len(trx.buf)][2]

\* The task answers a request of the tester.
Answering ==
  /\ job.at = "reply" => job.via = "can"
  /\ job.at # "select" /\ job.via = "can" => job.of \in 1 .. sends

\* Until it takes another request everything in the transmit buffers is of its
\* answer; size is that of the answer, end the number of frames passed on.
Passed(end, size) ==
  /\ end <= size
  /\ tx # NoTx => tx.of = job.of /\ tx.pos = end /\ tx.size = size /\ end > 0
  /\ \A i \in 1 .. Len(queue) :
       /\ queue[i].pci = "consecutive" /\ queue[i].size = size
       /\ queue[i].data = <<job.of, end - Len(queue) + i>>
  /\ job.at # "reply" => tx = NoTx /\ queue = <<>> /\ ~IsData(mailbox)
  /\ IsData(mailbox) =>
       /\ queue = <<>> /\ mailbox.data = <<job.of, 1>> /\ mailbox.pci # "consecutive"
       /\ mailbox.pci = "single" => tx = NoTx
       /\ mailbox.pci = "first" => mailbox.size = size /\ end = 1 /\ tx.at = "flow"

\* The tester holds pieces of one answer, short of all; if the last is where it
\* belongs, so are the others.
Receiving ==
  /\ trx.buf = <<>> => trx = NotReceiving
  /\ trx.buf # <<>> =>
       /\ trx.at # "none" /\ Answer \in 1 .. sends /\ Len(trx.buf) < trx.size
       /\ trx.buf[Len(trx.buf)][1] = Answer /\ LastGot \in Len(trx.buf) .. trx.size
       /\ LastGot = Len(trx.buf) => trx.buf = Payload(Answer, Len(trx.buf))
       /\ IF trx.bs = 0 THEN trx.left = 0 ELSE trx.left \in 1 .. trx.bs

\* Frames of the block that the task may still pass on.
Allowed == IF tx.at = "block" THEN tx.left ELSE 0

\* A tester that gets consecutive frames gets those of the answer it is putting
\* together, no more than its block has room for, and just as many only if none of
\* them was lost and the answer does not stop short of its end.
Aligned(end, size) ==
  (queue # <<>> \/ tx.at = "block") /\ trx.buf # <<>> =>
    /\ trx.at = "rx" /\ Answer = job.of /\ trx.size = size /\ LastGot + Len(queue) <= end
    /\ trx.bs = 0 => Allowed = 0
    /\ trx.bs # 0 =>
         /\ tx.at = "block" => tx.left > 0
         /\ Len(queue) + Allowed <= trx.left
         /\ Len(queue) + Allowed = trx.left =>
              Len(trx.buf) + Len(queue) = end /\ (tx = NoTx => end = size)

\* Where flow control is on its way.
Flows == {i \in 1 .. Len(rxFifo) : rxFifo[i].pci = "flow"}

\* The tester and the task have the same frames, and the tester has room for a block.
Agreed ==
  /\ trx.buf # <<>> /\ Answer = tx.of /\ trx.size = tx.size
  /\ Len(trx.buf) = tx.pos /\ LastGot = tx.pos /\ trx.left = trx.bs

\* Flow control that ends the wait of the task is the last; that which allows a
\* block allows the one for which the tester has room.
Final(f) ==
  /\ f.fs # "wait" => trx.at # "pause"
  /\ f.fs = "ok" => trx.at = "rx" /\ f.bs = trx.bs /\ Agreed

\* Flow control is on its way only to a task that waits for it.
Released ==
  /\ cts # NoFrame \/ Flows # {} \/ trx.at = "pause" =>
       tx.at = "flow" /\ queue = <<>> /\ ~IsData(mailbox)
  /\ trx.at = "pause" => Agreed
  /\ cts # NoFrame => Final(cts) /\ (cts.fs # "wait" => Flows = {})
  /\ \A i \in Flows : Final(rxFifo[i]) /\ (rxFifo[i].fs # "wait" => \A j \in Flows : j <= i)

\* What the tester has put together is a whole answer.
GotWhole == got # <<>> => got = Payload(got[1][1], Len(got)) /\ got[1][1] \in 1 .. sends

AnswerInv ==
  /\ Answering /\ Receiving /\ Released /\ GotWhole
  /\ \E end, size \in Nat : Passed(end, size) /\ Aligned(end, size)

LEMMA AnswerTypes ==
  ASSUME LinkType
  PROVE  /\ trx \in Receivers /\ trx.buf \in Seq(Pieces) /\ trx.size \in Nat /\ trx.left \in Nat
         /\ trx.bs \in Nat /\ Len(trx.buf) \in Nat /\ got \in Seq(Pieces)
         /\ queue \in Seq(DataFrames) /\ Len(queue) \in Nat /\ FifoTyped /\ sends \in Nat
         /\ job.of \in Nat /\ cts \in FlowFrames \cup {NoFrame}
         /\ mailbox \in Frames \cup {NoFrame} /\ tx \in Writes \cup {NoTx} /\ Endpoint
         /\ tx # NoTx => /\ tx \in Writes /\ tx.of \in Nat /\ tx.pos \in Nat /\ tx.size \in Nat
                         /\ tx.left \in Nat /\ tx.pos < tx.size
  <1>1. /\ trx \in Receivers /\ got \in Seq(Pieces) /\ queue \in Seq(DataFrames) /\ FifoTyped
        /\ sends \in Nat /\ cts \in FlowFrames \cup {NoFrame} /\ mailbox \in Frames \cup {NoFrame}
        /\ tx \in Writes \cup {NoTx} /\ Endpoint /\ (tx # NoTx => tx.pos < tx.size)
    BY LinkFacts DEF LinkType, TesterType, Receivers, EndpointType, EndpointBounds
  <1>2. job.of \in Nat
    BY DEF LinkType, TaskType
  <1>3. trx.buf \in Seq(Pieces) /\ trx.size \in Nat /\ trx.left \in Nat /\ trx.bs \in Nat
    BY <1>1 DEF Receivers
  <1>4. tx # NoTx => tx \in Writes /\ tx.of \in Nat /\ tx.pos \in Nat /\ tx.size \in Nat /\ tx.left \in Nat
    BY <1>1 DEF Writes
  <1>5. Len(trx.buf) \in Nat /\ Len(queue) \in Nat
    BY <1>1, <1>3
  <1> QED
    BY <1>1, <1>2, <1>3, <1>4, <1>5

\* Where the task is in a write.
LEMMA TxAt ==
  ASSUME LinkType
  PROVE  /\ tx = NoTx => tx.at = "none"
         /\ tx # NoTx => tx.at \in {"flow", "block"}
  BY AnswerTypes DEF NoTx, Writes

LEMMA TrxFacts ==
  ASSUME LinkType, Receiving, trx.buf # <<>>
  PROVE  /\ Len(trx.buf) \in Nat \ {0} /\ Answer \in Nat /\ LastGot \in Nat /\ Answer \in 1 .. sends
         /\ Len(trx.buf) <= LastGot /\ LastGot <= trx.size /\ Len(trx.buf) < trx.size
         /\ LastGot = Len(trx.buf) => trx.buf = Payload(Answer, Len(trx.buf))
         /\ trx.at # "none" /\ trx.buf[Len(trx.buf)][1] = Answer
         /\ trx.bs = 0 => trx.left = 0
         /\ trx.bs # 0 => trx.left \in 1 .. trx.bs
  <1>1. Len(trx.buf) \in Nat \ {0} /\ trx.size \in Nat /\ sends \in Nat
    BY AnswerTypes, EmptySeq, LenProperties
  <1>2. Answer \in 1 .. sends /\ LastGot \in Len(trx.buf) .. trx.size /\ Len(trx.buf) < trx.size
    BY DEF Receiving
  <1>3. Answer \in Nat /\ LastGot \in Nat /\ Len(trx.buf) <= LastGot /\ LastGot <= trx.size
    BY <1>1, <1>2
  <1> QED
    BY <1>1, <1>2, <1>3 DEF Receiving

\* Data frames, and those that are none.
LEMMA DataKinds ==
  /\ ~IsData(NoFrame)
  /\ \A f \in DataFrames : IsData(f)
  /\ \A f \in Frames : IsData(f) <=> f.pci # "flow"
  <1>1. ~IsData(NoFrame)
    BY DEF IsData, NoFrame
  <1>2. \A f \in DataFrames : IsData(f)
    BY DEF IsData, DataFrames
  <1>3. \A f \in FlowFrames : f.pci = "flow"
    BY DEF FlowFrames
  <1>4. \A f \in DataFrames : f.pci # "flow"
    BY DEF DataFrames
  <1> QED
    BY <1>1, <1>2, <1>3, <1>4 DEF Frames, IsData

-----------------------------------------------------------------------------
(* Flow control on its way *)

LEMMA FlowsMore ==
  ASSUME FifoTyped, NEW x \in Frames, rxFifo' = Append(rxFifo, x)
  PROVE  /\ \A i \in Flows : rxFifo'[i] = rxFifo[i] /\ i \in Nat /\ i < Len(rxFifo) + 1
         /\ rxFifo'[Len(rxFifo) + 1] = x /\ Len(rxFifo) \in Nat
         /\ x.pci # "flow" => Flows' = Flows
         /\ x.pci = "flow" => Flows' = Flows \cup {Len(rxFifo) + 1}
  <1>1. /\ Len(rxFifo') = Len(rxFifo) + 1 /\ Len(rxFifo) \in Nat
        /\ \A i \in 1 .. Len(rxFifo) : rxFifo'[i] = rxFifo[i]
        /\ rxFifo'[Len(rxFifo) + 1] = x
    BY Appended DEF FifoTyped
  <1>2. \A i \in 1 .. Len(rxFifo') : i \in 1 .. Len(rxFifo) \/ i = Len(rxFifo) + 1
    BY <1>1
  <1>3. Len(rxFifo) + 1 \in 1 .. Len(rxFifo') /\ 1 .. Len(rxFifo) \subseteq 1 .. Len(rxFifo')
    BY <1>1
  <1>4. \A i \in Flows : rxFifo'[i] = rxFifo[i] /\ i \in Nat /\ i < Len(rxFifo) + 1
    BY <1>1 DEF Flows
  <1>5. \A i \in Flows' : i \in Flows \/ i = Len(rxFifo) + 1
    BY <1>1, <1>2 DEF Flows
  <1>6. Flows \subseteq Flows'
    BY <1>1, <1>3 DEF Flows
  <1>7. Len(rxFifo) + 1 \in Flows' <=> x.pci = "flow"
    BY <1>1, <1>3 DEF Flows
  <1>8. x.pci # "flow" => Flows' = Flows
    BY <1>5, <1>6, <1>7
  <1>9. x.pci = "flow" => Flows' = Flows \cup {Len(rxFifo) + 1}
    BY <1>5, <1>6, <1>7
  <1> QED
    BY <1>1, <1>4, <1>8, <1>9

LEMMA FlowsTaken ==
  ASSUME FifoTyped, rxFifo # <<>>, rxFifo' = Tail(rxFifo)
  PROVE  /\ \A i \in Flows' : i \in Nat /\ i + 1 \in Flows /\ rxFifo'[i] = rxFifo[i + 1] /\ i >= 1
         /\ Head(rxFifo) = rxFifo[1]
         /\ Head(rxFifo).pci = "flow" => 1 \in Flows
  <1>1. /\ Head(rxFifo) = rxFifo[1] /\ Len(rxFifo) \in Nat \ {0} /\ Len(rxFifo') = Len(rxFifo) - 1
        /\ \A i \in 1 .. Len(rxFifo') : rxFifo'[i] = rxFifo[i + 1]
    BY Taken DEF FifoTyped
  <1>2. \A i \in 1 .. Len(rxFifo') : i + 1 \in 1 .. Len(rxFifo) /\ i \in Nat /\ i >= 1
    BY <1>1
  <1>3. 1 \in 1 .. Len(rxFifo)
    BY <1>1
  <1> QED
    BY <1>1, <1>2, <1>3 DEF Flows

\* Steps after which there is no more flow control than before.
LEMMA ReleasedKept ==
  ASSUME Released, UNCHANGED <<trx, tx>>, queue = <<>> => queue' = <<>>,
         IsData(mailbox)' => IsData(mailbox), cts' \in {cts, NoFrame},
         NEW d \in {0, 1}, Flows \subseteq Nat, Flows' \subseteq Nat,
         \A i \in Flows' : i + d \in Flows /\ rxFifo'[i] = rxFifo[i + d]
  PROVE  Released'
  <1>2. Agreed => Agreed'
    BY DEF Agreed, Answer, LastGot
  <1>3. Flows' # {} => Flows # {}
    OBVIOUS
  <1>4. ASSUME NEW i \in Flows'
        PROVE  Final(rxFifo[i])' /\ ((rxFifo[i].fs # "wait")' => \A j \in Flows' : j <= i)
    <2>1. i + d \in Flows /\ rxFifo'[i] = rxFifo[i + d]
      OBVIOUS
    <2>2. Final(rxFifo[i + d]) /\ (rxFifo[i + d].fs # "wait" => \A j \in Flows : j <= i + d)
      BY <2>1 DEF Released
    <2>3. Final(rxFifo[i])'
      BY <1>2, <2>1, <2>2 DEF Final
    <2>4. ASSUME rxFifo'[i].fs # "wait", NEW j \in Flows'  PROVE j <= i
      <3>1. j + d \in Flows /\ j + d <= i + d
        BY <2>1, <2>2, <2>4
      <3>2. i \in Nat /\ j \in Nat
        OBVIOUS
      <3> QED
        BY <3>1, <3>2
    <2> QED
      BY <2>3, <2>4
  <1>5. (cts # NoFrame)' => cts' = cts
    OBVIOUS
  <1>6. (cts # NoFrame)' => Final(cts)' /\ ((cts.fs # "wait")' => Flows' = {})
    BY <1>2, <1>3, <1>5 DEF Released, Final
  <1>7. (cts # NoFrame \/ Flows # {} \/ trx.at = "pause")' =>
          (tx.at = "flow" /\ queue = <<>> /\ ~IsData(mailbox))'
    BY <1>3, <1>5 DEF Released
  <1>8. (trx.at = "pause" => Agreed)'
    BY <1>2 DEF Released
  <1> QED
    BY <1>4, <1>6, <1>7, <1>8 DEF Released

LEMMA NotOnItsWay ==
  ASSUME Released, tx.at # "flow" \/ queue # <<>> \/ IsData(mailbox)
  PROVE  cts = NoFrame /\ Flows = {} /\ trx.at # "pause"
  BY DEF Released

LEMMA NoneReleased ==
  ASSUME cts' = NoFrame, Flows' = {}, trx'.at # "pause"
  PROVE  Released'
  BY DEF Released

LEMMA ReceivingKept ==
  ASSUME UNCHANGED trx, sends \in Nat, sends' \in Nat, sends <= sends', trx.buf # <<>> => Answer \in Nat
  PROVE  Receiving => Receiving'
  <1>1. Answer' = Answer /\ LastGot' = LastGot
    BY DEF Answer, LastGot
  <1>2. trx.buf # <<>> /\ Answer \in 1 .. sends => Answer \in 1 .. sends'
    OBVIOUS
  <1> QED
    BY <1>1, <1>2 DEF Receiving

LEMMA GotKept ==
  ASSUME UNCHANGED got, sends \in Nat, sends' \in Nat, sends <= sends', got \in Seq(Pieces)
  PROVE  GotWhole => GotWhole'
  <1> SUFFICES ASSUME GotWhole, got # <<>>
               PROVE  got = Payload(got[1][1], Len(got)) /\ got[1][1] \in 1 .. sends'
    BY DEF GotWhole
  <1>1. got = Payload(got[1][1], Len(got)) /\ got[1][1] \in 1 .. sends
    BY DEF GotWhole
  <1> QED
    BY <1>1

\* A tester that is receiving nothing.
LEMMA NothingReceived ==
  ASSUME trx' = NotReceiving
  PROVE  /\ Receiving' /\ trx'.buf = <<>> /\ trx'.at = "none"
         /\ \A end, size : Aligned(end, size)'
  <1>1. trx'.buf = <<>> /\ trx'.at = "none"
    BY DEF NotReceiving
  <1> QED
    BY <1>1 DEF Receiving, Aligned

\* The steps of others than the writer and the tester that receives.
LEMMA AnswerKept ==
  ASSUME LinkType, AnswerInv, Answering', UNCHANGED <<trx, got, tx, queue>>,
         sends' \in Nat, sends <= sends',
         cts' \in {cts, NoFrame}, IsData(mailbox)' => UNCHANGED mailbox,
         job' = job \/ (job'.at # "reply" /\ job.at # "reply") \/
           (tx = NoTx /\ queue = <<>> /\ mailbox = NoFrame),
         NEW d \in {0, 1}, Flows \subseteq Nat, Flows' \subseteq Nat,
         \A i \in Flows' : i + d \in Flows /\ rxFifo'[i] = rxFifo[i + d]
  PROVE  AnswerInv'
  <1>1. Receiving'
    <2>1. trx.buf # <<>> => Answer \in Nat
      BY TrxFacts DEF AnswerInv
    <2> QED
      BY <2>1, AnswerTypes, ReceivingKept DEF AnswerInv
  <1>2. GotWhole'
    BY AnswerTypes, GotKept DEF AnswerInv
  <1>3. Released'
    BY ReleasedKept DEF AnswerInv
  <1>4. PICK end \in Nat, size \in Nat : Passed(end, size) /\ Aligned(end, size)
    BY DEF AnswerInv
  <1>5. ~IsData(NoFrame) /\ (tx = NoTx => tx.at # "block")
    BY DataKinds, TxAt
  <1>6. CASE job' = job
    <2>1. Passed(end, size)'
      BY <1>4, <1>6 DEF Passed
    <2>2. Aligned(end, size)'
      BY <1>4, <1>6 DEF Aligned, Allowed, Answer, LastGot
    <2> QED
      BY <1>1, <1>2, <1>3, <2>1, <2>2 DEF AnswerInv
  <1>7. CASE job' # job
    <2>1. tx = NoTx /\ queue = <<>> /\ ~IsData(mailbox)
      BY <1>4, <1>5, <1>7 DEF Passed
    <2>2. ~IsData(mailbox)'
      BY <2>1
    <2>3. Passed(end, size)'
      BY <1>4, <2>1, <2>2 DEF Passed
    <2>4. Aligned(end, size)'
      BY <1>5, <2>1 DEF Aligned
    <2> QED
      BY <1>1, <1>2, <1>3, <2>3, <2>4 DEF AnswerInv
  <1> QED
    BY <1>6, <1>7

\* When the frames to the board stay where they are.
LEMMA AnswerStill ==
  ASSUME LinkType, AnswerInv, Answering', UNCHANGED <<trx, got, tx, queue, sends, rxFifo>>,
         cts' \in {cts, NoFrame}, IsData(mailbox)' => UNCHANGED mailbox,
         job' = job \/ (job'.at # "reply" /\ job.at # "reply") \/
           (tx = NoTx /\ queue = <<>> /\ mailbox = NoFrame)
  PROVE  AnswerInv'
  <1>1. Flows' = Flows /\ Flows \subseteq Nat /\ \A i \in Flows : i \in Nat /\ rxFifo'[i] = rxFifo[i]
    BY DEF Flows
  <1>2. \A i \in Flows' : i + 0 \in Flows /\ rxFifo'[i] = rxFifo[i + 0]
    BY <1>1
  <1>3. sends' \in Nat /\ sends <= sends'
    BY AnswerTypes
  <1>4. 0 \in {0, 1} /\ Flows' \subseteq Nat
    BY <1>1
  <1> QED
    BY <1>1, <1>2, <1>3, <1>4, AnswerKept

-----------------------------------------------------------------------------
(* Steps of the task *)

LEMMA AnswerTask ==
  ASSUME setting.waits, LinkType, DeliverInv, AnswerInv, UNCHANGED testerVars,
         TakeCan \/ TakeUsb \/ AnswerUsb \/ Replied
  PROVE  AnswerInv'
  <1>1. UNCHANGED <<trx, got, tx, queue, sends, cts, mailbox, rxFifo>>
    BY DEF testerVars, TakeCan, TakeUsb, AnswerUsb, Replied, isotpVars
  <1>2. CASE TakeCan
    <2>1. job'.at = "process" /\ job'.of = rxReady[1][1] /\ job.at = "select" /\ rxReady # <<>>
      BY <1>2 DEF TakeCan, NoPayload
    <2>2. rxReady[1][1] \in 1 .. sends
      <3>1. rxReady[1][1] \in NumberOf(handed) + 1 .. sends /\ NumberOf(handed) \in Nat
        BY <2>1, LinkFacts, ReachedFacts DEF DeliverInv, Delivered
      <3> QED
        BY <3>1, LinkFacts
    <2>3. Answering'
      BY <1>1, <2>1, <2>2 DEF Answering
    <2> QED
      BY <1>1, <2>1, <2>3, AnswerStill
  <1>3. CASE TakeUsb
    <2>1. job'.at = "process" /\ job'.via = "usb" /\ job.at = "select"
      BY <1>3 DEF TakeUsb
    <2>2. Answering'
      BY <2>1 DEF Answering
    <2> QED
      BY <1>1, <2>1, <2>2, AnswerStill
  <1>4. CASE AnswerUsb
    <2>1. job'.at = "select" /\ job.at = "process"
      BY <1>4 DEF AnswerUsb, Select
    <2>2. Answering'
      BY <2>1 DEF Answering
    <2> QED
      BY <1>1, <2>1, <2>2, AnswerStill
  <1>5. CASE Replied
    <2>1. job'.at = "select" /\ tx = NoTx /\ queue = <<>> /\ mailbox = NoFrame
      BY <1>5 DEF Replied, Select, Writing, Transmitted
    <2>2. Answering'
      BY <2>1 DEF Answering
    <2> QED
      BY <1>1, <2>1, <2>2, AnswerStill
  <1> QED
    BY <1>2, <1>3, <1>4, <1>5

\* The answer is begun.
LEMMA AnswerBegun ==
  ASSUME LinkType, AnswerInv, UNCHANGED testerVars, AnswerCan
  PROVE  AnswerInv'
  <1>1. /\ UNCHANGED <<trx, got, sends, rxFifo, cts, queue>>
        /\ job.at = "process" /\ job.via = "can"
    BY DEF testerVars, AnswerCan, WritePayload
  <1>2. PICK size \in ReplySizes : WritePayload(job.of, size)
    BY DEF AnswerCan
  <1>3. size \in Nat \ {0} /\ job.of \in Nat /\ 1 \in Nat
    BY Params, AnswerTypes
  <1>4. job'.at = "reply" /\ job'.via = "can" /\ job'.of = job.of
    BY <1>1 DEF AnswerCan, LinkType, TaskType
  <1>5. Answering'
    BY <1>1, <1>4 DEF AnswerInv, Answering
  <1>6. tx = NoTx /\ queue = <<>> /\ ~IsData(mailbox) /\ tx.at = "none"
    BY <1>1, TxAt DEF AnswerInv, Passed
  <1>7. Released'
    <2>1. cts = NoFrame /\ Flows = {} /\ trx.at # "pause"
      BY <1>6, NotOnItsWay DEF AnswerInv
    <2>2. Flows' = {}
      BY <1>1, <2>1 DEF Flows
    <2> QED
      BY <1>1, <2>1, <2>2, NoneReleased
  <1>8. Receiving' /\ GotWhole'
    BY <1>1 DEF AnswerInv, Receiving, GotWhole, Answer, LastGot
  <1>9. CASE /\ mailbox' = FrameOf(job.of, 1, size)
             /\ tx' = IF size = 1 THEN NoTx ELSE Tx("flow", job.of, size, 1, 0)
    <2>1. /\ mailbox'.data = <<job.of, 1>> /\ mailbox'.size = size
          /\ mailbox'.pci = IF size = 1 THEN "single" ELSE "first"
      BY <1>3, <1>9, FrameType
    <2>2. tx' # NoTx => /\ tx'.of = job.of /\ tx'.pos = 1 /\ tx'.size = size /\ tx'.at = "flow"
      BY <1>9 DEF Tx
    <2>3. size = 1 => tx' = NoTx
      BY <1>9
    <2>4. size # 1 => tx'.at = "flow"
      BY <1>9 DEF Tx
    <2>5. Passed(1, size)'
      <3>1. queue' = <<>> /\ Len(queue') = 0 /\ 1 <= size
        BY <1>1, <1>3, <1>6
      <3> QED
        BY <1>4, <2>1, <2>2, <2>3, <2>4, <3>1 DEF Passed
    <2>6. Aligned(1, size)'
      <3>1. tx'.at # "block"
        BY <2>3, <2>4 DEF NoTx
      <3> QED
        BY <1>1, <1>6, <3>1 DEF Aligned
    <2> QED
      BY <1>3, <1>5, <1>7, <1>8, <2>5, <2>6 DEF AnswerInv
  <1>10. CASE UNCHANGED <<mailbox, tx>>
    <2>1. Passed(1, size)'
      <3>1. queue' = <<>> /\ Len(queue') = 0 /\ 1 <= size /\ ~IsData(mailbox)' /\ tx' = NoTx
        BY <1>1, <1>3, <1>6, <1>10 DEF IsData
      <3> QED
        BY <3>1 DEF Passed
    <2>2. Aligned(1, size)'
      BY <1>1, <1>6, <1>10 DEF Aligned
    <2> QED
      BY <1>3, <1>5, <1>7, <1>8, <2>1, <2>2 DEF AnswerInv
  <1> QED
    BY <1>2, <1>9, <1>10 DEF WritePayload

\* What the steps of the writer leave alone, of the tester and the task.
LEMMA WriterFacts ==
  ASSUME AnswerInv, UNCHANGED <<job, trx, got, sends, rxFifo>>
  PROVE  Answering' /\ Receiving' /\ GotWhole' /\ Flows' = Flows
  BY DEF AnswerInv, Answering, Receiving, GotWhole, Answer, LastGot, Flows

\* The tester allows a block.
LEMMA AnswerAllowed ==
  ASSUME LinkType, AnswerInv, FlowOk, UNCHANGED <<job, trx, got, sends, rxFifo>>
  PROVE  AnswerInv'
  <1>1. /\ tx.at = "flow" /\ cts # NoFrame /\ cts.fs = "ok" /\ cts' = NoFrame
        /\ UNCHANGED <<mailbox, queue>> /\ tx' = [tx EXCEPT !.at = "block", !.left = cts.bs]
    BY DEF FlowOk, AtFlow
  <1>2. Final(cts) /\ Flows = {} /\ queue = <<>> /\ ~IsData(mailbox)
    BY <1>1 DEF AnswerInv, Released
  <1>3. /\ trx.at = "rx" /\ cts.bs = trx.bs /\ trx.buf # <<>> /\ Answer = tx.of /\ trx.size = tx.size
        /\ Len(trx.buf) = tx.pos /\ LastGot = tx.pos /\ trx.left = trx.bs
    BY <1>1, <1>2 DEF Final, Agreed
  <1>4. tx # NoTx /\ tx \in Writes /\ tx.pos \in Nat /\ trx.bs \in Nat /\ cts.bs \in Nat
    BY <1>1, <1>3, TxAt, AnswerTypes DEF NoTx
  <1>5. /\ tx'.at = "block" /\ tx'.left = trx.bs /\ tx'.of = tx.of /\ tx'.pos = tx.pos
        /\ tx'.size = tx.size /\ tx' # NoTx
    <2>1. /\ tx'.at = "block" /\ tx'.left = trx.bs /\ tx'.of = tx.of /\ tx'.pos = tx.pos
          /\ tx'.size = tx.size
      BY <1>1, <1>3, <1>4 DEF Writes
    <2> QED
      BY <2>1 DEF NoTx
  <1>6. PICK end \in Nat, size \in Nat : Passed(end, size)
    BY DEF AnswerInv
  <1>7. end <= size /\ tx.of = job.of /\ tx.pos = end /\ tx.size = size /\ end > 0 /\ job.at = "reply"
    BY <1>4, <1>6 DEF Passed
  <1>8. Len(queue') = 0 /\ queue' = <<>> /\ ~IsData(mailbox)'
    BY <1>1, <1>2 DEF IsData
  <1>9. Passed(end, size)'
    BY <1>5, <1>7, <1>8 DEF Passed
  <1>10. Aligned(end, size)'
    <2>1. Allowed' = trx.bs
      BY <1>5 DEF Allowed
    <2>2. Answer' = Answer /\ LastGot' = LastGot
      BY DEF Answer, LastGot
    <2>3. LastGot + 0 <= end /\ 0 + trx.bs <= trx.left /\ (trx.bs # 0 => trx.bs > 0)
          /\ Len(trx.buf) + 0 = end
      BY <1>3, <1>4, <1>7
    <2> QED
      BY <1>3, <1>5, <1>7, <1>8, <2>1, <2>2, <2>3 DEF Aligned
  <1>11. Released'
    BY <1>1, <1>2, <1>3, WriterFacts, NoneReleased
  <1> QED
    BY <1>9, <1>10, <1>11, WriterFacts DEF AnswerInv

\* The tester refuses, or says nothing.
LEMMA AnswerGivenUp ==
  ASSUME LinkType, AnswerInv, UNCHANGED <<job, trx, got, sends, rxFifo>>,
         FlowReject \/ (Quiet /\ FlowTimeout)
  PROVE  AnswerInv'
  <1>1. /\ tx.at = "flow" /\ tx' = NoTx /\ UNCHANGED queue /\ cts' = NoFrame
        /\ cts # NoFrame => cts.fs = "reject"
    BY DEF FlowReject, FlowTimeout, AtFlow
  <1>2. queue = <<>> /\ Flows = {} /\ trx.at # "pause"
    <2>1. CASE FlowReject
      BY <2>1 DEF FlowReject, AnswerInv, Released, Final
    <2>2. CASE Quiet /\ FlowTimeout
      BY <2>2 DEF Quiet, Flows, Transmitted
    <2> QED
      BY <2>1, <2>2
  <1>3. ~IsData(mailbox)'
    <2>1. CASE FlowReject
      <3>1. ~IsData(mailbox) /\ ~IsData(FlowControl("reject", 0))
        BY <2>1 DEF FlowReject, AnswerInv, Released, IsData, FlowControl
      <3>2. mailbox' = mailbox \/ mailbox' = FlowControl("reject", 0)
        BY <2>1 DEF FlowReject
      <3> QED
        BY <3>1, <3>2 DEF IsData
    <2>2. CASE Quiet /\ FlowTimeout
      BY <2>2, DataKinds DEF Quiet, FlowTimeout, Transmitted, IsData
    <2> QED
      BY <2>1, <2>2
  <1>4. PICK end \in Nat, size \in Nat : Passed(end, size)
    BY DEF AnswerInv
  <1>5. Len(queue') = 0 /\ queue' = <<>> /\ tx'.at # "block"
    BY <1>1, <1>2 DEF NoTx
  <1>6. Passed(end, size)'
    BY <1>1, <1>3, <1>4, <1>5 DEF Passed
  <1>7. Aligned(end, size)'
    BY <1>5 DEF Aligned
  <1>8. Released'
    BY <1>1, <1>2, WriterFacts, NoneReleased
  <1> QED
    BY <1>6, <1>7, <1>8, WriterFacts DEF AnswerInv

\* The next frame of a block.
LEMMA AnswerSends ==
  ASSUME LinkType, AnswerInv, SendConsecutive, UNCHANGED <<job, trx, got, sends, rxFifo>>
  PROVE  AnswerInv'
  <1>1. tx.at = "block" /\ UNCHANGED <<cts, mailbox>>
    BY DEF SendConsecutive
  <1>2. /\ tx # NoTx /\ tx \in Writes /\ tx.of \in Nat /\ tx.pos \in Nat /\ tx.size \in Nat
        /\ tx.left \in Nat /\ tx.pos < tx.size /\ queue \in Seq(DataFrames) /\ Len(queue) \in Nat
        /\ Endpoint
    BY <1>1, TxAt, AnswerTypes DEF NoTx
  <1>3. cts = NoFrame /\ Flows = {} /\ trx.at # "pause"
    BY <1>1, NotOnItsWay DEF AnswerInv
  <1>4. Released'
    BY <1>1, <1>3, WriterFacts, NoneReleased
  <1>5. PICK end \in Nat, size \in Nat : Passed(end, size) /\ Aligned(end, size)
    BY DEF AnswerInv
  <1>6. end <= size /\ tx.of = job.of /\ tx.pos = end /\ tx.size = size /\ end > 0 /\ job.at = "reply"
    BY <1>2, <1>5 DEF Passed
  <1>7. ~IsData(mailbox) /\ ~IsData(mailbox)'
    <2>1. ~IsData(mailbox)
      <3> SUFFICES ASSUME IsData(mailbox)  PROVE FALSE
        OBVIOUS
      <3>1. mailbox.pci = "single" \/ mailbox.pci = "first"
        BY <1>5 DEF Passed, IsData
      <3> QED
        BY <1>1, <1>2, <1>5, <3>1 DEF Passed
    <2> QED
      BY <1>1, <2>1 DEF IsData
  <1>8. trx.buf # <<>> =>
          /\ trx.at = "rx" /\ Answer = job.of /\ trx.size = size /\ LastGot + Len(queue) <= end
          /\ trx.bs = 0 => tx.left = 0
          /\ trx.bs # 0 =>
               /\ tx.left > 0 /\ Len(queue) + tx.left <= trx.left
               /\ Len(queue) + tx.left = trx.left => Len(trx.buf) + Len(queue) = end
    BY <1>1, <1>2, <1>5 DEF Aligned, Allowed
  <1>9. /\ Answer' = Answer /\ LastGot' = LastGot /\ UNCHANGED trx
        /\ trx.buf # <<>> => LastGot \in Nat /\ Len(trx.buf) \in Nat
        /\ trx.left \in Nat /\ trx.bs \in Nat
    BY TrxFacts, AnswerTypes DEF Answer, LastGot, AnswerInv
  <1>10. ASSUME QueueHasRoom, queue' = Append(queue, FrameOf(tx.of, tx.pos + 1, tx.size)),
                tx' = IF tx.pos + 1 = tx.size THEN NoTx ELSE AfterFrame
         PROVE  AnswerInv'
    <2> DEFINE f == FrameOf(tx.of, tx.pos + 1, tx.size)
    <2>1. /\ f \in DataFrames /\ f.data = <<job.of, end + 1>> /\ f.size = size
          /\ f.pci = "consecutive"
      <3>1. end + 1 \in Nat \ {0} /\ end + 1 > 1 /\ job.of \in Nat
        BY <1>2, <1>6
      <3>2. f = FrameOf(job.of, end + 1, size)
        BY <1>6
      <3> HIDE DEF f
      <3> QED
        BY <3>1, <3>2, FrameType
    <2> HIDE DEF f
    <2>2. /\ Len(queue') = Len(queue) + 1 /\ queue'[Len(queue) + 1] = f
          /\ \A i \in 1 .. Len(queue) : queue'[i] = queue[i]
      BY <1>2, <1>10, <2>1, Appended DEF f
    <2>3. /\ tx'.at = "block" => tx.left # 1
          /\ Allowed' = IF tx.left = 0 \/ tx' = NoTx THEN 0 ELSE tx.left - 1
          /\ tx' # NoTx => tx'.of = job.of /\ tx'.pos = end + 1 /\ tx'.size = size
          /\ tx' = NoTx => end + 1 = size
          /\ tx'.at = "block" => tx'.left = IF tx.left = 0 THEN 0 ELSE tx.left - 1
      <3>1. CASE tx.pos + 1 = tx.size
        <4>1. tx' = NoTx /\ tx'.at = "none"
          BY <1>10, <3>1 DEF NoTx
        <4> QED
          BY <1>6, <3>1, <4>1 DEF Allowed
      <3>2. CASE tx.pos + 1 # tx.size
        <4>1. tx' = AfterFrame
          BY <1>10, <3>2
        <4>2. /\ tx' # NoTx /\ tx'.pos = tx.pos + 1 /\ tx'.size = tx.size /\ tx'.of = tx.of
              /\ tx'.at = (IF tx.left = 1 THEN "flow" ELSE "block")
              /\ tx'.left = (IF tx.left = 0 THEN 0 ELSE tx.left - 1)
          BY <1>1, <1>2, <4>1, AfterFrameFacts
        <4> QED
          BY <1>2, <1>6, <4>2 DEF Allowed
      <3> QED
        BY <3>1, <3>2
    <2>4. Passed(end + 1, size)'
      <3>1. ASSUME NEW i \in 1 .. Len(queue')
            PROVE  /\ queue'[i].pci = "consecutive" /\ queue'[i].size = size
                   /\ queue'[i].data = <<job.of, end + 1 - Len(queue') + i>>
        <4>1. CASE i \in 1 .. Len(queue)
          <5>1. queue[i].pci = "consecutive" /\ queue[i].size = size
                /\ queue[i].data = <<job.of, end - Len(queue) + i>>
            BY <1>5, <4>1 DEF Passed
          <5>2. end - Len(queue) + i = end + 1 - Len(queue') + i
            BY <1>2, <2>2, <4>1
          <5> QED
            BY <2>2, <4>1, <5>1, <5>2
        <4>2. CASE i = Len(queue) + 1
          <5>1. end + 1 = end + 1 - Len(queue') + i
            BY <1>2, <2>2, <4>2
          <5> QED
            BY <2>1, <2>2, <4>2, <5>1
        <4> QED
          BY <1>2, <2>2, <4>1, <4>2
      <3>2. end + 1 <= size /\ end + 1 > 0
        BY <1>2, <1>6
      <3> QED
        BY <1>6, <1>7, <2>3, <3>1, <3>2 DEF Passed
    <2>5. Aligned(end + 1, size)'
      <3> SUFFICES ASSUME trx.buf # <<>>
                   PROVE  /\ trx.at = "rx" /\ Answer = job.of /\ trx.size = size
                          /\ LastGot + Len(queue') <= end + 1
                          /\ trx.bs = 0 => Allowed' = 0
                          /\ trx.bs # 0 =>
                               /\ tx'.at = "block" => tx'.left > 0
                               /\ Len(queue') + Allowed' <= trx.left
                               /\ Len(queue') + Allowed' = trx.left =>
                                    Len(trx.buf) + Len(queue') = end + 1 /\ (tx' = NoTx => end + 1 = size)
        BY <1>9 DEF Aligned
      <3>1. trx.bs = 0 => Allowed' = 0
        BY <1>8, <2>3
      <3>2. trx.bs # 0 /\ tx'.at = "block" => tx'.left > 0
        BY <1>2, <1>8, <2>3
      <3>3. trx.bs # 0 => Allowed' + 1 <= tx.left /\ Allowed' \in Nat
        BY <1>2, <1>8, <2>3
      <3>4. trx.bs # 0 => Len(queue') + Allowed' <= trx.left
        BY <1>2, <1>8, <1>9, <2>2, <3>3
      <3>5. trx.bs # 0 /\ Len(queue') + Allowed' = trx.left => Len(trx.buf) + Len(queue') = end + 1
        <4> SUFFICES ASSUME trx.bs # 0, Len(queue') + Allowed' = trx.left
                     PROVE  Len(trx.buf) + Len(queue') = end + 1
          OBVIOUS
        <4>1. /\ Len(queue) \in Nat /\ Len(trx.buf) \in Nat /\ tx.left \in Nat /\ trx.left \in Nat
              /\ Len(queue') = Len(queue) + 1 /\ Allowed' \in Nat /\ Allowed' + 1 <= tx.left
              /\ Len(queue) + tx.left <= trx.left
          BY <1>2, <1>8, <1>9, <2>2, <3>3
        <4>2. Len(queue) + tx.left = trx.left
          BY <4>1
        <4>3. Len(trx.buf) + Len(queue) = end
          BY <1>8, <4>2
        <4> DEFINE m == Len(trx.buf)
                   n == Len(queue)
        <4>4. m \in Nat /\ n \in Nat /\ m + n = end
          BY <4>1, <4>3
        <4> HIDE DEF m, n
        <4>5. m + (n + 1) = end + 1
          BY <4>4
        <4> QED
          BY <4>1, <4>5 DEF m, n
      <3>6. LastGot + Len(queue') <= end + 1
        BY <1>2, <1>8, <1>9, <2>2
      <3> QED
        BY <1>8, <2>3, <3>1, <3>2, <3>4, <3>5, <3>6
    <2>6. end + 1 \in Nat
      OBVIOUS
    <2> QED
      BY <1>4, <2>4, <2>5, <2>6, WriterFacts DEF AnswerInv
  <1>11. CASE tx' = NoTx /\ UNCHANGED queue
    <2>1. Passed(end, size)'
      BY <1>5, <1>6, <1>7, <1>11 DEF Passed
    <2>2. Allowed' = 0 /\ tx'.at # "block"
      BY <1>11 DEF Allowed, NoTx
    <2>3. Aligned(end, size)'
      <3> SUFFICES ASSUME trx.buf # <<>>
                   PROVE  /\ trx.at = "rx" /\ Answer = job.of /\ trx.size = size
                          /\ LastGot + Len(queue) <= end
                          /\ trx.bs # 0 => Len(queue) + 0 < trx.left
        BY <1>9, <1>11, <2>2 DEF Aligned
      <3> QED
        BY <1>2, <1>8, <1>9
    <2> QED
      BY <1>4, <2>1, <2>3, WriterFacts DEF AnswerInv
  <1> QED
    BY <1>10, <1>11 DEF SendConsecutive

LEMMA AnswerBoard ==
  ASSUME setting.waits, LinkType, DeliverInv, AnswerInv, Board
  PROVE  AnswerInv'
  <1>1. UNCHANGED testerVars /\ UNCHANGED <<trx, got, sends, rxFifo>>
    BY DEF Board, testerVars
  <1>2. CASE TakeCan \/ TakeUsb \/ AnswerUsb \/ Replied
    BY <1>1, <1>2, AnswerTask
  <1>3. CASE AnswerCan
    BY <1>1, <1>3, AnswerBegun
  <1>4. CASE (FlowOk \/ FlowReject \/ SendConsecutive \/ (Quiet /\ FlowTimeout)) /\ UNCHANGED taskVars
    <2>1. UNCHANGED job
      BY <1>4 DEF taskVars
    <2> QED
      BY <1>1, <1>4, <2>1, AnswerAllowed, AnswerGivenUp, AnswerSends
  <1>5. CASE (FlowWait \/ Release \/ UNCHANGED isotpVars) /\ UNCHANGED taskVars
    <2>1. UNCHANGED <<job, tx, queue, mailbox>> /\ cts' \in {cts, NoFrame}
      BY <1>5 DEF taskVars, FlowWait, Release, isotpVars
    <2>2. Answering'
      BY <1>1, <2>1, WriterFacts
    <2> QED
      BY <1>1, <2>1, <2>2, AnswerStill
  <1> QED
    BY <1>2, <1>3, <1>4, <1>5 DEF Board

-----------------------------------------------------------------------------
(* Steps of the tester *)

LEMMA OnePiece ==
  ASSUME NEW m \in Nat
  PROVE  Payload(m, 1) = <<<<m, 1>>>>
  <1> DEFINE p == Payload(m, 1)
             q == <<<<m, 1>>>>
  <1>1. 1 \in Nat /\ <<m, 1>> \in Pieces
    BY DEF Pieces
  <1>2. p \in Seq(Pieces) /\ Len(p) = 1 /\ \A i \in 1 .. 1 : p[i] = <<m, i>>
    BY <1>1, PayloadType
  <1>3. q \in Seq(Pieces) /\ Len(q) = 1 /\ q[1] = <<m, 1>>
    BY <1>1
  <1> HIDE DEF p, q
  <1>4. \A i \in 1 .. 1 : p[i] = q[i]
    BY <1>2, <1>3
  <1>5. p = q
    BY <1>2, <1>3, <1>4, SeqEqual
  <1> QED
    BY <1>5 DEF p, q

\* A frame of the queue is the oldest piece passed on.
LEMMA OldestPassed ==
  ASSUME LinkType, NEW end \in Nat, NEW size \in Nat, Passed(end, size), queue # <<>>
  PROVE  /\ Head(queue) \in DataFrames /\ Head(queue).pci = "consecutive"
         /\ Head(queue).data = <<job.of, end - Len(queue) + 1>> /\ Len(queue) \in Nat \ {0}
         /\ Head(queue).size = size /\ ~IsData(mailbox) /\ job.at = "reply"
         /\ Len(Tail(queue)) = Len(queue) - 1
         /\ \A i \in 1 .. Len(Tail(queue)) :
              /\ Tail(queue)[i].pci = "consecutive" /\ Tail(queue)[i].size = size
              /\ Tail(queue)[i].data = <<job.of, end - Len(Tail(queue)) + i>>
  <1>1. /\ Head(queue) \in DataFrames /\ Head(queue) = queue[1] /\ Len(queue) \in Nat \ {0}
        /\ Len(Tail(queue)) = Len(queue) - 1
        /\ \A i \in 1 .. Len(Tail(queue)) : Tail(queue)[i] = queue[i + 1]
    BY AnswerTypes, Taken
  <1>2. 1 \in 1 .. Len(queue)
    BY <1>1
  <1>3. /\ queue[1].pci = "consecutive" /\ queue[1].size = size
        /\ queue[1].data = <<job.of, end - Len(queue) + 1>>
    BY <1>2 DEF Passed
  <1>4. ASSUME NEW i \in 1 .. Len(Tail(queue))
        PROVE  /\ Tail(queue)[i].pci = "consecutive" /\ Tail(queue)[i].size = size
               /\ Tail(queue)[i].data = <<job.of, end - Len(Tail(queue)) + i>>
    <2>1. i + 1 \in 1 .. Len(queue) /\ Tail(queue)[i] = queue[i + 1]
      BY <1>1
    <2>2. end - Len(Tail(queue)) + i = end - Len(queue) + (i + 1)
      BY <1>1
    <2>3. queue[i + 1].data = <<job.of, end - Len(queue) + (i + 1)>>
          /\ queue[i + 1].pci = "consecutive" /\ queue[i + 1].size = size
      BY <2>1 DEF Passed
    <2> QED
      BY <2>1, <2>2, <2>3
  <1>5. ~IsData(mailbox) /\ job.at = "reply"
    BY DEF Passed
  <1> QED
    BY <1>1, <1>3, <1>4, <1>5

\* The queue without its oldest frame is passed on as well.
LEMMA PassedTaken ==
  ASSUME LinkType, NEW end \in Nat, NEW size \in Nat, Passed(end, size), queue # <<>>,
         queue' = Tail(queue), UNCHANGED <<mailbox, tx, job>>
  PROVE  Passed(end, size)'
  <1>1. /\ ~IsData(mailbox)' /\ job'.at = "reply"
        /\ \A i \in 1 .. Len(queue') :
             /\ queue'[i].pci = "consecutive" /\ queue'[i].size = size
             /\ queue'[i].data = <<job'.of, end - Len(queue') + i>>
    BY OldestPassed
  <1> QED
    BY <1>1 DEF Passed

\* The mailbox without its frame.
LEMMA PassedSent ==
  ASSUME NEW end \in Nat, NEW size \in Nat, Passed(end, size), mailbox' = NoFrame,
         UNCHANGED <<queue, tx, job>>
  PROVE  Passed(end, size)'
  <1>1. ~IsData(mailbox)'
    BY DataKinds
  <1> QED
    BY <1>1 DEF Passed

\* The tester gets an answer of one frame.
LEMMA AnswerSingle ==
  ASSUME LinkType, AnswerInv, NEW f, Sent(f), GetsSingle(f), UNCHANGED <<job, tx, cts, sends>>
  PROVE  AnswerInv'
  <1>1. PICK end \in Nat, size \in Nat : Passed(end, size)
    BY DEF AnswerInv
  <1>2. queue = <<>> \/ Head(queue).pci = "consecutive"
    BY <1>1, OldestPassed
  <1>3. f.pci = "single" /\ got' = <<f.data>> /\ trx' = NotReceiving /\ UNCHANGED rxFifo
    BY DEF GetsSingle
  <1>4. mailbox # NoFrame /\ f = mailbox /\ mailbox' = NoFrame /\ UNCHANGED queue
    BY <1>2, <1>3 DEF Sent
  <1>5. IsData(mailbox) /\ mailbox.data = <<job.of, 1>> /\ queue = <<>> /\ job.at = "reply"
        /\ tx = NoTx
    BY <1>1, <1>3, <1>4 DEF Passed, IsData
  <1>6. job.of \in 1 .. sends
    BY <1>5 DEF AnswerInv, Answering
  <1>7. GotWhole'
    <2>1. got' = <<<<job.of, 1>>>> /\ Len(got') = 1 /\ got'[1] = <<job.of, 1>>
      BY <1>3, <1>4, <1>5
    <2>2. job.of \in Nat /\ 1 \in Nat
      BY AnswerTypes
    <2>3. Payload(job.of, 1) = <<<<job.of, 1>>>>
      BY AnswerTypes, OnePiece
    <2> QED
      BY <1>6, <2>1, <2>3 DEF GotWhole
  <1>8. Released'
    <2>1. cts = NoFrame /\ Flows = {}
      BY <1>5, NotOnItsWay DEF AnswerInv
    <2>2. Flows' = {}
      BY <1>3, <2>1 DEF Flows
    <2> QED
      BY <1>3, <2>1, <2>2, NoneReleased, NothingReceived
  <1>9. Passed(end, size)'
    BY <1>1, <1>4, PassedSent
  <1>10. Answering'
    BY DEF AnswerInv, Answering
  <1> QED
    BY <1>3, <1>7, <1>8, <1>9, <1>10, NothingReceived DEF AnswerInv

\* The tester answers a first frame, with flow control that is the only one.
LEMMA AnswerFirst ==
  ASSUME LinkType, AnswerInv, NEW f, Sent(f), GetsFirst(f), UNCHANGED <<job, tx, cts, sends>>
  PROVE  AnswerInv'
  <1>1. PICK end \in Nat, size \in Nat : Passed(end, size)
    BY DEF AnswerInv
  <1>2. queue = <<>> \/ Head(queue).pci = "consecutive"
    BY <1>1, OldestPassed
  <1>3. f.pci = "first" /\ UNCHANGED got
    BY DEF GetsFirst
  <1>4. mailbox # NoFrame /\ f = mailbox /\ mailbox' = NoFrame /\ UNCHANGED queue
    BY <1>2, <1>3 DEF Sent
  <1>5. /\ IsData(mailbox) /\ f.data = <<job.of, 1>> /\ queue = <<>> /\ job.at = "reply"
        /\ f.size = size /\ end = 1 /\ tx.at = "flow"
    BY <1>1, <1>3, <1>4 DEF Passed, IsData
  <1>6. job.of \in 1 .. sends /\ job.of \in Nat
    BY <1>5, AnswerTypes DEF AnswerInv, Answering
  <1>7. tx # NoTx /\ tx.of = job.of /\ tx.pos = 1 /\ tx.size = size /\ 1 < size
    <2>1. tx # NoTx
      BY <1>5, TxAt
    <2>2. tx.of = job.of /\ tx.pos = 1 /\ tx.size = size /\ tx.pos < tx.size
      BY <1>1, <1>5, <2>1, AnswerTypes DEF Passed
    <2> QED
      BY <2>1, <2>2
  <1>8. cts = NoFrame /\ Flows = {} /\ FifoTyped
    BY <1>5, NotOnItsWay, AnswerTypes DEF AnswerInv
  <1>9. PICK bs \in TesterBs, fs \in {"ok", "wait", "reject"} :
          /\ rxFifo' = Append(rxFifo, FlowControl(fs, IF fs = "ok" THEN bs ELSE 0))
          /\ trx' = CASE fs = "reject" -> NotReceiving
                      [] OTHER -> [at |-> IF fs = "ok" THEN "rx" ELSE "pause",
                                   size |-> f.size, left |-> bs, bs |-> bs, buf |-> <<f.data>>]
    BY DEF GetsFirst
  <1> DEFINE x == IF fs = "ok" THEN bs ELSE 0
             g == FlowControl(fs, x)
  <1>10. bs \in Nat /\ x \in Nat /\ (fs = "ok" => x = bs)
    BY Params
  <1>11. rxFifo' = Append(rxFifo, g)
    BY <1>9
  <1> HIDE DEF x
  <1>12. g \in Frames /\ g.pci = "flow" /\ g.fs = fs /\ g.bs = x
    BY <1>10, FlowType
  <1> HIDE DEF g
  <1>13. Flows' = {Len(rxFifo) + 1} /\ rxFifo'[Len(rxFifo) + 1] = g /\ Len(rxFifo) \in Nat
    BY <1>8, <1>11, <1>12, FlowsMore
  <1>14. queue' = <<>> /\ ~IsData(mailbox)' /\ tx'.at = "flow" /\ cts' = NoFrame
    BY <1>4, <1>5, <1>8, DataKinds
  <1>15. Passed(end, size)' /\ Aligned(end, size)'
    BY <1>1, <1>4, <1>14, PassedSent DEF Aligned
  <1>16. GotWhole' /\ Answering'
    BY <1>3 DEF AnswerInv, GotWhole, Answering
  <1>17. CASE fs = "reject"
    <2>1. trx' = NotReceiving
      BY <1>9, <1>17
    <2>2. Receiving' /\ trx'.at = "none"
      BY <2>1, NothingReceived
    <2>3. Released'
      BY <1>12, <1>13, <1>14, <1>17, <2>2 DEF Released, Final
    <2> QED
      BY <1>15, <1>16, <2>2, <2>3 DEF AnswerInv
  <1>18. CASE fs # "reject"
    <2> DEFINE at == IF fs = "ok" THEN "rx" ELSE "pause"
    <2>1. trx' = [at |-> at, size |-> f.size, left |-> bs, bs |-> bs, buf |-> <<f.data>>]
      BY <1>9, <1>18
    <2>2. at \in {"rx", "pause"} /\ (fs = "ok" <=> at = "rx")
      OBVIOUS
    <2> HIDE DEF at
    <2>3. /\ trx'.at = at /\ trx'.size = size /\ trx'.left = bs /\ trx'.bs = bs
          /\ trx'.buf = <<<<job.of, 1>>>> /\ trx'.buf # <<>>
      BY <1>5, <2>1
    <2>4. /\ Len(trx'.buf) = 1 /\ trx'.buf[1] = <<job.of, 1>>
          /\ Answer' = job.of /\ LastGot' = 1
      <3>1. Len(trx'.buf) = 1 /\ trx'.buf[1] = <<job.of, 1>>
        BY <2>3
      <3> QED
        BY <3>1 DEF Answer, LastGot
    <2>5. Payload(job.of, 1) = <<<<job.of, 1>>>>
      BY AnswerTypes, OnePiece
    <2>6. Receiving'
      <3>1. bs # 0 => bs \in 1 .. bs
        BY <1>10
      <3>2. 1 \in 1 .. size /\ 1 < size
        BY <1>7
      <3> QED
        BY <1>6, <2>2, <2>3, <2>4, <2>5, <3>1, <3>2 DEF Receiving
    <2>7. Agreed'
      BY <1>7, <2>3, <2>4 DEF Agreed
    <2>8. Released'
      BY <1>10, <1>12, <1>13, <1>14, <1>18, <2>2, <2>3, <2>7 DEF Released, Final
    <2> QED
      BY <1>15, <1>16, <2>6, <2>8 DEF AnswerInv
  <1> QED
    BY <1>17, <1>18

\* The next piece of the answer; a block that ends has nothing behind it.
LEMMA AnswerPiece ==
  ASSUME LinkType, AnswerInv, NEW f, Sent(f), GetsConsecutive(f), UNCHANGED <<job, tx, cts, sends>>
  PROVE  AnswerInv'
  <1>1. PICK end \in Nat, size \in Nat : Passed(end, size) /\ Aligned(end, size)
    BY DEF AnswerInv
  <1>2. f.pci = "consecutive"
    BY DEF GetsConsecutive
  <1>3. queue # <<>> /\ f = Head(queue) /\ queue' = Tail(queue) /\ UNCHANGED mailbox
    <2>1. ~(mailbox # NoFrame /\ f = mailbox)
      BY <1>1, <1>2 DEF Passed, IsData
    <2> QED
      BY <2>1 DEF Sent
  <1> DEFINE n   == Len(queue)
             p   == end - n + 1
             len == Len(trx.buf)
  <1>4. /\ f \in DataFrames /\ f.data = <<job.of, p>> /\ n \in Nat \ {0}
        /\ ~IsData(mailbox) /\ job.at = "reply" /\ Len(queue') = n - 1 /\ queue' \in Seq(DataFrames)
    <2>1. queue' \in Seq(DataFrames)
      BY <1>3, AnswerTypes, Taken
    <2> QED
      BY <1>1, <1>3, <2>1, OldestPassed
  <1>5. job.of \in 1 .. sends /\ job.of \in Nat
    BY <1>4, AnswerTypes DEF AnswerInv, Answering
  <1>6. cts = NoFrame /\ Flows = {} /\ trx.at # "pause" /\ FifoTyped /\ trx \in Receivers
    BY <1>3, NotOnItsWay, AnswerTypes DEF AnswerInv, LinkType, TesterType, Receivers
  <1>7. Passed(end, size)' /\ Answering'
    BY <1>1, <1>3, PassedTaken DEF AnswerInv, Answering
  <1>8. UNCHANGED rxFifo => Flows' = {}
    BY <1>6 DEF Flows
  <1>9. Allowed \in Nat /\ Allowed' = Allowed /\ (tx.at = "block" => tx # NoTx /\ Allowed = tx.left)
    BY AnswerTypes, TxAt DEF Allowed
  <1>10. CASE trx' = NotReceiving /\ UNCHANGED <<rxFifo, got>>
    <2>1. GotWhole'
      BY <1>10 DEF AnswerInv, GotWhole
    <2>2. Released'
      BY <1>6, <1>8, <1>10, NoneReleased, NothingReceived
    <2> QED
      BY <1>7, <1>10, <2>1, <2>2, NothingReceived DEF AnswerInv
  <1>11. CASE trx.buf = <<>> /\ UNCHANGED <<rxFifo, trx, got>>
    <2>1. GotWhole' /\ Receiving'
      BY <1>11 DEF AnswerInv, GotWhole, Receiving
    <2>2. Released'
      BY <1>6, <1>8, <1>11, NoneReleased
    <2>3. Aligned(end, size)'
      BY <1>11 DEF Aligned
    <2> QED
      BY <1>7, <2>1, <2>2, <2>3 DEF AnswerInv
  <1>12. ASSUME trx.buf # <<>>
         PROVE  /\ len \in Nat \ {0} /\ Answer = job.of /\ LastGot \in Nat /\ len <= LastGot
                /\ LastGot + n <= end /\ end <= size /\ trx.size = size /\ trx.at = "rx" /\ len < size
                /\ p \in Nat \ {0} /\ p > LastGot /\ p <= size /\ trx.buf \in Seq(Pieces)
                /\ p = len + 1 => trx.buf = Payload(job.of, len)
                /\ trx.left \in Nat /\ trx.bs \in Nat
    <2>1. /\ len \in Nat \ {0} /\ LastGot \in Nat /\ len <= LastGot /\ len < trx.size
          /\ LastGot = len => trx.buf = Payload(Answer, len)
          /\ trx.buf \in Seq(Pieces) /\ trx.left \in Nat /\ trx.bs \in Nat
      BY <1>12, TrxFacts, AnswerTypes DEF AnswerInv
    <2>2. Answer = job.of /\ LastGot + n <= end /\ trx.size = size /\ trx.at = "rx"
      BY <1>1, <1>3, <1>12 DEF Aligned
    <2>3. end <= size
      BY <1>1 DEF Passed
    <2> HIDE DEF n, len
    <2>4. p \in Nat \ {0} /\ p > LastGot /\ p <= size /\ (p = len + 1 => LastGot = len)
      BY <1>4, <2>1, <2>2, <2>3
    <2> QED
      BY <2>1, <2>2, <2>3, <2>4
  <1> DEFINE buf == Append(trx.buf, f.data)
  <1>13. trx.buf # <<>> =>
           /\ buf \in Seq(Pieces) /\ buf # <<>> /\ Len(buf) = len + 1 /\ buf[1] = trx.buf[1]
           /\ buf[len + 1] = <<job.of, p>> /\ buf[1][1] = job.of
           /\ p = len + 1 => buf = Payload(job.of, len + 1)
    <2> SUFFICES ASSUME trx.buf # <<>>
                 PROVE  /\ buf \in Seq(Pieces) /\ buf # <<>> /\ Len(buf) = len + 1
                        /\ buf[1] = trx.buf[1] /\ buf[len + 1] = <<job.of, p>> /\ buf[1][1] = job.of
                        /\ p = len + 1 => buf = Payload(job.of, len + 1)
      OBVIOUS
    <2>1. /\ buf \in Seq(Pieces) /\ buf # <<>> /\ Len(buf) = len + 1 /\ buf[len + 1] = f.data
          /\ \A i \in 1 .. len : buf[i] = trx.buf[i]
      <3>1. f.data \in Pieces /\ trx.buf \in Seq(Pieces)
        BY <1>4, <1>12, FrameFields
      <3> QED
        BY <3>1, Appended
    <2>2. buf[1] = trx.buf[1]
      <3>1. 1 \in 1 .. len
        BY <1>12
      <3> QED
        BY <2>1, <3>1
    <2>3. trx.buf[1][1] = job.of
      BY <1>12 DEF Answer
    <2>4. p = len + 1 => buf = Payload(job.of, len + 1)
      <3> SUFFICES ASSUME p = len + 1  PROVE buf = Payload(job.of, len + 1)
        OBVIOUS
      <3>1. trx.buf = Payload(job.of, len) /\ f.data = <<job.of, len + 1>> /\ len \in Nat
        BY <1>4, <1>12
      <3>2. buf = Append(Payload(job.of, len), <<job.of, len + 1>>)
        BY <3>1
      <3> HIDE DEF buf, len
      <3> QED
        BY <1>5, <3>1, <3>2, PayloadMore
    <2> QED
      BY <1>4, <2>1, <2>2, <2>3, <2>4
  <1> HIDE DEF buf, p, len, n
  <1>14. CASE /\ trx.buf # <<>> /\ Len(buf) = trx.size
              /\ got' = buf /\ trx' = NotReceiving /\ UNCHANGED rxFifo
    <2>1. p = len + 1
      BY <1>12, <1>13, <1>14
    <2>2. GotWhole'
      BY <1>5, <1>12, <1>13, <1>14, <2>1 DEF GotWhole
    <2>3. Released'
      BY <1>6, <1>8, <1>14, NoneReleased, NothingReceived
    <2> QED
      BY <1>7, <1>14, <2>2, <2>3, NothingReceived DEF AnswerInv
  <1>15. ASSUME trx.buf # <<>>, Len(buf) # trx.size, trx' = MoreReceived(f), UNCHANGED got,
                rxFifo' = IF trx.left = 1 THEN Append(rxFifo, FlowControl("ok", trx.bs)) ELSE rxFifo
         PROVE  AnswerInv'
    <2> DEFINE left == IF trx.left = 1 THEN trx.bs ELSE IF trx.left = 0 THEN 0 ELSE trx.left - 1
    <2>1. /\ trx'.buf = buf /\ trx'.size = size /\ trx'.bs = trx.bs /\ trx'.at = "rx" /\ trx'.left = left
      BY <1>4, <1>6, <1>12, <1>15, MoreReceiver DEF buf
    <2>2. Answer' = job.of /\ LastGot' = p /\ Len(trx'.buf) = len + 1 /\ trx'.buf # <<>>
          /\ trx'.buf[Len(trx'.buf)][1] = job.of
      BY <1>13, <1>15, <2>1 DEF Answer, LastGot
    <2>3. GotWhole'
      BY <1>15 DEF AnswerInv, GotWhole
    <2>4. IF trx.bs = 0 THEN trx.left = 0 ELSE trx.left \in 1 .. trx.bs
      BY <1>15 DEF AnswerInv, Receiving
    <2>5. IF trx.bs = 0 THEN left = 0 ELSE left \in 1 .. trx.bs
      BY <1>12, <1>15, <2>4
    <2> HIDE DEF left
    <2>6. Receiving'
      <3>1. p \in len + 1 .. size /\ len + 1 < size
        BY <1>12, <1>13, <1>15
      <3> QED
        BY <1>5, <1>13, <1>15, <2>1, <2>2, <2>5, <3>1 DEF Receiving
    <2>7. /\ trx.bs = 0 => Allowed = 0
          /\ trx.bs # 0 =>
               /\ tx.at = "block" => tx.left > 0
               /\ n + Allowed <= trx.left
               /\ n + Allowed = trx.left => len + n = end /\ (tx = NoTx => end = size)
      BY <1>1, <1>3, <1>15 DEF Aligned, n, len
    <2>8. CASE trx.left = 1
      <3>1. trx.bs # 0 /\ n = 1 /\ Allowed = 0 /\ len + 1 = end /\ p = end /\ end # size /\ left = trx.bs
        <4>1. trx.bs # 0
          BY <2>4, <2>8
        <4>2. n = 1 /\ Allowed = 0
          BY <1>4, <1>9, <2>7, <2>8, <4>1
        <4>3. len + 1 = end
          BY <2>7, <2>8, <4>1, <4>2
        <4>4. p = end
          BY <4>2 DEF p
        <4> QED
          BY <1>12, <1>13, <1>15, <2>8, <4>1, <4>2, <4>3, <4>4 DEF left
      <3>2. tx # NoTx /\ tx.at = "flow"
        <4>1. tx # NoTx
          BY <2>7, <2>8, <3>1
        <4>2. tx.at # "block"
          BY <1>9, <2>7, <3>1
        <4> QED
          BY <4>1, <4>2, TxAt
      <3>3. tx.of = job.of /\ tx.pos = end /\ tx.size = size
        BY <1>1, <3>2 DEF Passed
      <3>4. queue' = <<>>
        BY <1>4, <3>1, EmptySeq
      <3> DEFINE g == FlowControl("ok", trx.bs)
      <3>5. g \in Frames /\ g.pci = "flow" /\ g.fs = "ok" /\ g.bs = trx.bs
        BY <1>12, <1>15, FlowType
      <3>6. rxFifo' = Append(rxFifo, g)
        BY <1>15, <2>8
      <3> HIDE DEF g
      <3>7. Flows' = {Len(rxFifo) + 1} /\ rxFifo'[Len(rxFifo) + 1] = g /\ Len(rxFifo) \in Nat
        BY <1>6, <3>5, <3>6, FlowsMore
      <3>8. Agreed'
        BY <2>1, <2>2, <3>1, <3>3 DEF Agreed
      <3>9. ~IsData(mailbox)' /\ cts' = NoFrame /\ tx'.at = "flow"
        BY <1>3, <1>4, <1>6, <3>2 DEF IsData
      <3>10. Released'
        BY <2>1, <3>4, <3>5, <3>7, <3>8, <3>9 DEF Released, Final
      <3>11. Aligned(end, size)'
        BY <3>4, <3>9 DEF Aligned
      <3> QED
        BY <1>7, <2>3, <2>6, <3>10, <3>11 DEF AnswerInv
    <2>9. CASE trx.left # 1
      <3>1. left = (IF trx.left = 0 THEN 0 ELSE trx.left - 1) /\ UNCHANGED rxFifo
        BY <1>15, <2>9 DEF left
      <3>2. Released'
        BY <1>6, <1>8, <2>1, <3>1, NoneReleased
      <3>3. p + (n - 1) <= end
        BY <1>4 DEF p
      <3>4. trx.bs # 0 => left = trx.left - 1 /\ trx.left \in Nat
        BY <1>12, <1>15, <2>4, <3>1
      <3>5. trx.bs # 0 =>
              /\ n - 1 + Allowed <= left
              /\ n - 1 + Allowed = left => len + 1 + (n - 1) = end /\ (tx = NoTx => end = size)
        <4> SUFFICES ASSUME trx.bs # 0
                     PROVE  /\ n - 1 + Allowed <= left
                            /\ n - 1 + Allowed = left =>
                                 len + 1 + (n - 1) = end /\ (tx = NoTx => end = size)
          OBVIOUS
        <4> DEFINE a == Allowed
        <4>1. /\ a \in Nat /\ n \in Nat \ {0} /\ len \in Nat /\ trx.left \in Nat /\ left = trx.left - 1
              /\ n + a <= trx.left
              /\ n + a = trx.left => len + n = end /\ (tx = NoTx => end = size)
          BY <1>4, <1>9, <1>12, <1>15, <2>7, <3>4
        <4> HIDE DEF a
        <4> QED
          BY <4>1 DEF a
      <3>6. Aligned(end, size)'
        BY <1>4, <1>9, <2>1, <2>2, <2>7, <3>3, <3>5 DEF Aligned
      <3> QED
        BY <1>7, <2>3, <2>6, <3>2, <3>6 DEF AnswerInv
    <2> QED
      BY <2>8, <2>9
  <1>16. \/ trx.buf = <<>> /\ UNCHANGED <<rxFifo, trx, got>>
         \/ trx' = NotReceiving /\ UNCHANGED <<rxFifo, got>>
         \/ /\ trx.buf # <<>> /\ Len(buf) = trx.size
            /\ got' = buf /\ trx' = NotReceiving /\ UNCHANGED rxFifo
         \/ /\ trx.buf # <<>> /\ Len(buf) # trx.size /\ trx' = MoreReceived(f) /\ UNCHANGED got
            /\ rxFifo' = IF trx.left = 1 THEN Append(rxFifo, FlowControl("ok", trx.bs)) ELSE rxFifo
    BY <1>4, <1>6, ConsecutiveCases DEF buf
  <1> QED
    BY <1>10, <1>11, <1>14, <1>15, <1>16

LEMMA AnswerToTester ==
  ASSUME LinkType, AnswerInv, ToTester
  PROVE  AnswerInv'
  <1>1. PICK f \in Transmitted : Sent(f) /\ TesterGets(f)
    BY DEF ToTester
  <1>2. UNCHANGED <<job, tx, cts, sends>>
    BY <1>1 DEF ToTester, TesterGets, taskVars
  <1>3. CASE GetsFlow(f)
    <2>1. PICK end \in Nat, size \in Nat : Passed(end, size)
      BY DEF AnswerInv
    <2>2. f.pci = "flow" /\ UNCHANGED <<rxFifo, trx, got>>
      BY <1>3 DEF GetsFlow
    <2>3. queue = <<>> \/ Head(queue).pci = "consecutive"
      BY <2>1, OldestPassed
    <2>4. mailbox' = NoFrame /\ UNCHANGED queue
      BY <1>1, <2>2, <2>3 DEF Sent
    <2>5. ~IsData(mailbox)'
      BY <2>4, DataKinds
    <2>6. Answering'
      BY <1>2 DEF AnswerInv, Answering
    <2> QED
      BY <1>2, <2>2, <2>4, <2>5, <2>6, AnswerStill
  <1> QED
    BY <1>1, <1>2, <1>3, AnswerSingle, AnswerFirst, AnswerPiece DEF TesterGets

\* A frame to the board is taken from the fifo, or lost.
LEMMA AnswerFewer ==
  ASSUME LinkType, AnswerInv, rxFifo # <<>>, rxFifo' = Tail(rxFifo),
         UNCHANGED <<trx, got, tx, queue, sends, cts, job>>, IsData(mailbox)' => UNCHANGED mailbox
  PROVE  AnswerInv'
  <1>1. FifoTyped /\ Flows \subseteq Nat
    BY AnswerTypes DEF Flows
  <1>2. \A i \in Flows' : i \in Nat /\ i + 1 \in Flows /\ rxFifo'[i] = rxFifo[i + 1]
    BY <1>1, FlowsTaken
  <1>3. Answering'
    BY DEF AnswerInv, Answering
  <1>4. 1 \in {0, 1} /\ Flows' \subseteq Nat /\ sends' \in Nat /\ sends <= sends'
    BY <1>2, AnswerTypes
  <1> QED
    BY <1>1, <1>2, <1>3, <1>4, AnswerKept

\* Flow control reaches the task; what ends its wait is the last.
LEMMA AnswerHeard ==
  ASSUME LinkType, AnswerInv, rxFifo # <<>>, rxFifo' = Tail(rxFifo), FlowControlFrame(Head(rxFifo)),
         UNCHANGED <<job, trx, got, sends>>
  PROVE  AnswerInv'
  <1> DEFINE f == Head(rxFifo)
  <1>1. f.pci = "flow" /\ cts' = f /\ UNCHANGED <<mailbox, queue, tx>>
    BY DEF FlowControlFrame
  <1>2. FifoTyped
    BY AnswerTypes
  <1>3. /\ \A i \in Flows' : i \in Nat /\ i + 1 \in Flows /\ rxFifo'[i] = rxFifo[i + 1] /\ i >= 1
        /\ f = rxFifo[1] /\ 1 \in Flows
    BY <1>1, <1>2, FlowsTaken
  <1> HIDE DEF f
  <1>4. /\ tx.at = "flow" /\ queue = <<>> /\ ~IsData(mailbox)
        /\ trx.at = "pause" => Agreed
        /\ Final(f) /\ (f.fs # "wait" => \A j \in Flows : j <= 1)
        /\ \A i \in Flows : Final(rxFifo[i]) /\ (rxFifo[i].fs # "wait" => \A j \in Flows : j <= i)
    BY <1>3 DEF AnswerInv, Released
  <1>5. Agreed => Agreed'
    BY <1>1 DEF Agreed, Answer, LastGot
  <1>6. Final(cts)'
    BY <1>1, <1>4, <1>5 DEF Final
  <1>7. cts'.fs # "wait" => Flows' = {}
    <2> SUFFICES ASSUME f.fs # "wait", NEW i \in Flows'  PROVE FALSE
      BY <1>1
    <2>1. i \in Nat /\ i >= 1 /\ i + 1 \in Flows
      BY <1>3
    <2>2. i + 1 <= 1
      BY <1>4, <2>1
    <2> QED
      BY <2>1, <2>2
  <1>8. ASSUME NEW i \in Flows'
        PROVE  Final(rxFifo[i])' /\ ((rxFifo[i].fs # "wait")' => \A j \in Flows' : j <= i)
    <2>1. i \in Nat /\ i + 1 \in Flows /\ rxFifo'[i] = rxFifo[i + 1]
      BY <1>3
    <2>2. Final(rxFifo[i + 1]) /\ (rxFifo[i + 1].fs # "wait" => \A j \in Flows : j <= i + 1)
      BY <1>4, <2>1
    <2>3. Final(rxFifo[i])'
      BY <1>5, <2>1, <2>2 DEF Final
    <2>4. ASSUME rxFifo'[i].fs # "wait", NEW j \in Flows'  PROVE j <= i
      <3>1. j \in Nat /\ j + 1 \in Flows
        BY <1>3
      <3>2. j + 1 <= i + 1
        BY <2>1, <2>2, <2>4, <3>1
      <3> QED
        BY <2>1, <3>1, <3>2
    <2> QED
      BY <2>3, <2>4
  <1>9. Released'
    <2>1. tx'.at = "flow" /\ queue' = <<>> /\ ~IsData(mailbox)'
      BY <1>1, <1>4 DEF IsData
    <2>2. trx'.at = "pause" => Agreed'
      BY <1>4, <1>5
    <2> QED
      BY <1>6, <1>7, <1>8, <2>1, <2>2 DEF Released
  <1>10. PICK end \in Nat, size \in Nat : Passed(end, size) /\ Aligned(end, size)
    BY DEF AnswerInv
  <1>11. Passed(end, size)' /\ Aligned(end, size)'
    BY <1>1, <1>4, <1>10 DEF Passed, Aligned
  <1>12. Answering' /\ Receiving' /\ GotWhole'
    BY DEF AnswerInv, Answering, Receiving, GotWhole, Answer, LastGot
  <1> QED
    BY <1>9, <1>11, <1>12 DEF AnswerInv

LEMMA AnswerToBoard ==
  ASSUME LinkType, AnswerInv, ToBoard
  PROVE  AnswerInv'
  <1>1. /\ rxFifo # <<>> /\ rxFifo' = Tail(rxFifo) /\ UNCHANGED <<job, trx, got, sends>>
        /\ OnFrameRx(Head(rxFifo))
    BY DEF ToBoard, taskVars
  <1> DEFINE f == Head(rxFifo)
  <1>2. CASE FlowControlFrame(f)
    BY <1>1, <1>2, AnswerHeard
  <1>3. CASE SingleFrame(f) \/ FirstFrame(f) \/ ConsecutiveFrame(f)
    <2>1. UNCHANGED <<cts, queue, tx>>
      BY <1>3 DEF SingleFrame, FirstFrame, ConsecutiveFrame
    <2>2. UNCHANGED mailbox \/ \E bs : mailbox' = FlowControl("ok", bs)
      BY <1>3 DEF SingleFrame, FirstFrame, ConsecutiveFrame
    <2>3. IsData(mailbox)' => UNCHANGED mailbox
      BY <2>2 DEF IsData, FlowControl
    <2> QED
      BY <1>1, <2>1, <2>3, AnswerFewer
  <1> QED
    BY <1>1, <1>2, <1>3 DEF OnFrameRx

\* A frame is lost: what the tester gets is then one short of its block.
LEMMA AnswerLose ==
  ASSUME LinkType, AnswerInv, Lose
  PROVE  AnswerInv'
  <1>1. UNCHANGED <<job, trx, got, tx, sends, cts>>
    BY DEF Lose, taskVars
  <1>2. Answering'
    BY <1>1 DEF AnswerInv, Answering
  <1>3. CASE mailbox' = NoFrame /\ UNCHANGED <<queue, rxFifo>>
    <2>1. ~IsData(mailbox)'
      BY <1>3, DataKinds
    <2> QED
      BY <1>1, <1>2, <1>3, <2>1, AnswerStill
  <1>4. CASE rxFifo # <<>> /\ rxFifo' = Tail(rxFifo) /\ UNCHANGED <<mailbox, queue>>
    BY <1>1, <1>4, AnswerFewer
  <1>5. CASE queue # <<>> /\ queue' = Tail(queue) /\ UNCHANGED <<mailbox, rxFifo>>
    <2>1. PICK end \in Nat, size \in Nat : Passed(end, size) /\ Aligned(end, size)
      BY DEF AnswerInv
    <2>2. Passed(end, size)' /\ Len(queue') = Len(queue) - 1 /\ Len(queue) \in Nat \ {0}
      BY <1>1, <1>5, <2>1, PassedTaken, OldestPassed
    <2>3. Released'
      <3>1. cts = NoFrame /\ Flows = {} /\ trx.at # "pause"
        BY <1>5, NotOnItsWay DEF AnswerInv
      <3>2. Flows' = {}
        BY <1>5, <3>1 DEF Flows
      <3> QED
        BY <1>1, <3>1, <3>2, NoneReleased
    <2>4. Receiving' /\ GotWhole'
      BY <1>1 DEF AnswerInv, Receiving, GotWhole, Answer, LastGot
    <2>5. Allowed' = Allowed /\ Answer' = Answer /\ LastGot' = LastGot
      BY <1>1 DEF Allowed, Answer, LastGot
    <2>6. Aligned(end, size)'
      <3> SUFFICES ASSUME trx.buf # <<>>
                   PROVE  /\ trx.at = "rx" /\ Answer = job.of /\ trx.size = size
                          /\ LastGot + Len(queue') <= end
                          /\ trx.bs = 0 => Allowed = 0
                          /\ trx.bs # 0 =>
                               /\ tx.at = "block" => tx.left > 0
                               /\ Len(queue') + Allowed < trx.left
        <4>1. Allowed \in Nat /\ Len(queue') \in Nat /\ trx.left \in Nat
          BY <2>2, AnswerTypes, TxAt DEF Allowed
        <4> QED
          BY <1>1, <2>5, <4>1 DEF Aligned
      <3>1. LastGot \in Nat /\ Allowed \in Nat /\ trx.left \in Nat
        BY TrxFacts, AnswerTypes, TxAt DEF AnswerInv, Allowed
      <3>2. /\ trx.at = "rx" /\ Answer = job.of /\ trx.size = size /\ LastGot + Len(queue) <= end
            /\ trx.bs = 0 => Allowed = 0
            /\ trx.bs # 0 =>
                 (tx.at = "block" => tx.left > 0) /\ Len(queue) + Allowed <= trx.left
        BY <1>5, <2>1 DEF Aligned
      <3> QED
        BY <2>2, <3>1, <3>2
    <2> QED
      BY <1>2, <2>2, <2>3, <2>4, <2>6 DEF AnswerInv
  <1> QED
    BY <1>3, <1>4, <1>5 DEF Lose, Sent

\* The tester that asked for a pause goes on.
LEMMA AnswerResumes ==
  ASSUME LinkType, AnswerInv, Resume, UNCHANGED <<job, tx, cts, queue, mailbox>>
  PROVE  AnswerInv'
  <1>1. trx.at = "pause" /\ trx' = [trx EXCEPT !.at = "rx"] /\ UNCHANGED <<sends, got>>
    BY DEF Resume
  <1>2. FifoTyped /\ trx.bs \in Nat /\ trx \in Receivers
    BY AnswerTypes
  <1> DEFINE g == FlowControl("ok", trx.bs)
  <1>3. g \in Frames /\ g.pci = "flow" /\ g.fs = "ok" /\ g.bs = trx.bs
    BY <1>2, FlowType
  <1>4. rxFifo' = Append(rxFifo, g)
    BY DEF Resume
  <1> HIDE DEF g
  <1>5. /\ Flows' = Flows \cup {Len(rxFifo) + 1} /\ rxFifo'[Len(rxFifo) + 1] = g /\ Len(rxFifo) \in Nat
        /\ \A i \in Flows : rxFifo'[i] = rxFifo[i] /\ i \in Nat /\ i < Len(rxFifo) + 1
    BY <1>2, <1>3, <1>4, FlowsMore
  <1>6. /\ trx'.at = "rx" /\ trx'.buf = trx.buf /\ trx'.size = trx.size /\ trx'.bs = trx.bs
        /\ trx'.left = trx.left /\ Answer' = Answer /\ LastGot' = LastGot
    <2>1. /\ trx'.at = "rx" /\ trx'.buf = trx.buf /\ trx'.size = trx.size /\ trx'.bs = trx.bs
          /\ trx'.left = trx.left
      BY <1>1, <1>2 DEF Receivers
    <2> QED
      BY <2>1 DEF Answer, LastGot
  <1>7. /\ tx.at = "flow" /\ queue = <<>> /\ ~IsData(mailbox) /\ Agreed
        /\ cts # NoFrame => cts.fs = "wait"
        /\ \A i \in Flows : rxFifo[i].fs = "wait"
    BY <1>1 DEF AnswerInv, Released, Final
  <1>8. Agreed' /\ tx'.at = "flow" /\ queue' = <<>> /\ ~IsData(mailbox)' /\ cts' = cts
    BY <1>6, <1>7 DEF Agreed, IsData
  <1>9. Final(cts)' \/ cts' = NoFrame
    BY <1>7, <1>8 DEF Final
  <1>10. ASSUME NEW i \in Flows'
         PROVE  Final(rxFifo[i])' /\ ((rxFifo[i].fs # "wait")' => \A j \in Flows' : j <= i)
    <2>1. CASE i \in Flows
      <3>1. rxFifo'[i].fs = "wait"
        BY <1>5, <1>7, <2>1
      <3> QED
        BY <3>1 DEF Final
    <2>2. CASE i = Len(rxFifo) + 1
      <3>1. rxFifo'[i].fs = "ok" /\ rxFifo'[i].bs = trx'.bs
        BY <1>3, <1>5, <1>6, <2>2
      <3>2. \A j \in Flows' : j <= i
        BY <1>5, <2>2
      <3> QED
        BY <1>6, <1>8, <3>1, <3>2 DEF Final
    <2> QED
      BY <1>5, <2>1, <2>2
  <1>11. Released'
    BY <1>6, <1>7, <1>8, <1>9, <1>10 DEF Released
  <1>12. PICK end \in Nat, size \in Nat : Passed(end, size) /\ Aligned(end, size)
    BY DEF AnswerInv
  <1>13. Passed(end, size)' /\ Aligned(end, size)'
    BY <1>8, <1>12 DEF Passed, Aligned
  <1>14. Answering' /\ GotWhole'
    BY <1>1 DEF AnswerInv, Answering, GotWhole
  <1>15. Receiving'
    <2>1. trx.buf # <<>>
      BY <1>7 DEF Agreed
    <2> QED
      BY <1>1, <1>6, <2>1 DEF AnswerInv, Receiving
  <1> QED
    BY <1>11, <1>13, <1>14, <1>15 DEF AnswerInv

\* The tester gives up when nothing comes, or asks.
LEMMA AnswerTester ==
  ASSUME LinkType, AnswerInv, Tester
  PROVE  AnswerInv'
  <1>1. UNCHANGED <<job, tx, cts, queue, mailbox>>
    BY DEF Tester, isotpVars, taskVars
  <1>2. Flows \subseteq Nat /\ FifoTyped /\ sends \in Nat
    BY AnswerTypes DEF Flows
  <1>3. ASSUME NEW x \in DataFrames, rxFifo' = Append(rxFifo, x), sends' \in {sends, sends + 1},
               UNCHANGED <<trx, got>>
        PROVE  AnswerInv'
    <2>1. x \in Frames /\ x.pci # "flow"
      BY DataKinds, FrameFields DEF IsData
    <2>2. Flows' = Flows /\ \A i \in Flows : rxFifo'[i] = rxFifo[i] /\ i \in Nat
      BY <1>2, <1>3, <2>1, FlowsMore
    <2>3. sends' \in Nat /\ sends <= sends'
      BY <1>2, <1>3
    <2>4. Answering'
      BY <1>1, <1>2, <2>3, AnswerTypes DEF AnswerInv, Answering
    <2>5. \A i \in Flows' : i + 0 \in Flows /\ rxFifo'[i] = rxFifo[i + 0]
      BY <2>2
    <2>6. 0 \in {0, 1} /\ Flows' \subseteq Nat
      BY <1>2, <2>2
    <2> QED
      BY <1>1, <1>2, <1>3, <2>3, <2>4, <2>5, <2>6, AnswerKept
  <1>4. CASE Ask
    <2>1. PICK size \in Sizes : rxFifo' = Append(rxFifo, FrameOf(sends + 1, 1, size))
      BY <1>4 DEF Ask
    <2>2. size \in Nat /\ 1 \in Nat \ {0} /\ sends + 1 \in Nat
      BY <1>2, Params
    <2>3. FrameOf(sends + 1, 1, size) \in DataFrames
      BY <2>2, FrameType
    <2> QED
      BY <1>3, <1>4, <2>1, <2>3 DEF Ask
  <1>5. CASE SendBlock
    <2>1. ttx.pos + 1 \in Nat \ {0} /\ ttx.size \in Nat
      BY LinkFacts
    <2>2. FrameOf(sends, ttx.pos + 1, ttx.size) \in DataFrames
      BY <1>2, <2>1, FrameType
    <2> QED
      BY <1>3, <1>5, <2>2 DEF SendBlock
  <1>6. CASE Resume
    BY <1>1, <1>6, AnswerResumes
  <1>7. CASE TesterTimeout
    <2>1. UNCHANGED <<rxFifo, sends, got>> /\ Quiet
      BY <1>7 DEF TesterTimeout
    <2>2. Answering'
      BY <1>1, <2>1 DEF AnswerInv, Answering
    <2>3. CASE UNCHANGED trx
      BY <1>1, <2>1, <2>2, <2>3, AnswerStill
    <2>4. CASE trx' = NotReceiving
      <3>1. Flows' = {} /\ Flows = {}
        BY <2>1 DEF Quiet, Flows
      <3>2. cts' = NoFrame
        BY <1>1, <2>1 DEF Quiet, AnswerInv, Released
      <3>3. Released'
        BY <2>4, <3>1, <3>2, NoneReleased, NothingReceived
      <3>4. PICK end \in Nat, size \in Nat : Passed(end, size)
        BY DEF AnswerInv
      <3>5. Passed(end, size)'
        BY <1>1, <3>4 DEF Passed, IsData
      <3>6. GotWhole'
        BY <2>1 DEF AnswerInv, GotWhole
      <3> QED
        BY <2>2, <2>4, <3>3, <3>5, <3>6, NothingReceived DEF AnswerInv
    <2> QED
      BY <1>7, <2>3, <2>4 DEF TesterTimeout
  <1> QED
    BY <1>4, <1>5, <1>6, <1>7 DEF Tester

LEMMA AnswerStep ==
  ASSUME setting.waits, LinkType, DeliverInv, AnswerInv, [DiagNext]_diagVars
  PROVE  AnswerInv'
  <1>1. CASE Host \/ UNCHANGED diagVars
    <2>1. UNCHANGED <<trx, got, tx, queue, sends, rxFifo, cts, mailbox, job>>
      BY <1>1 DEF Host, diagVars, isotpVars, taskVars, testerVars
    <2>2. Answering'
      BY <2>1 DEF AnswerInv, Answering
    <2> QED
      BY <2>1, <2>2, AnswerStill
  <1> QED
    BY <1>1, AnswerBoard, AnswerToTester, AnswerToBoard, AnswerLose, AnswerTester DEF DiagNext

LEMMA AnswerInit == DiagInit => AnswerInv
  <1> SUFFICES ASSUME DiagInit  PROVE AnswerInv
    OBVIOUS
  <1>1. /\ cts = NoFrame /\ mailbox = NoFrame /\ queue = <<>> /\ tx = NoTx /\ job = Select
        /\ rxFifo = <<>> /\ trx = NotReceiving /\ got = <<>> /\ tx.at = "none"
    BY DEF DiagInit, IsoTpInit, NoTx
  <1>2. Len(queue) = 0 /\ Flows = {} /\ ~IsData(mailbox)
    BY <1>1, DataKinds DEF Flows
  <1>3. trx.buf = <<>> /\ trx.at = "none" /\ job.at = "select"
    BY <1>1 DEF NotReceiving, Select
  <1>4. Answering /\ Receiving /\ Released /\ GotWhole
    BY <1>1, <1>2, <1>3 DEF Answering, Receiving, Released, GotWhole
  <1>5. Passed(0, 0) /\ Aligned(0, 0)
    BY <1>1, <1>2, <1>3 DEF Passed, Aligned
  <1>6. 0 \in Nat
    OBVIOUS
  <1> QED
    BY <1>4, <1>5, <1>6 DEF AnswerInv

\* The task that waits after an answer does so for good.
LEMMA Waits == [DiagNext]_diagVars => (setting.waits <=> setting'.waits)
  BY DEF DiagNext, diagVars

\* In the firmware, whose task waits after each answer until it is sent, an answer
\* that the tester on CAN has put together is a whole answer of the server to one of
\* its requests: whatever frames are lost, and however short the sequence numbers are.
THEOREM WholeAnswers == DiagSpec => [](setting.waits => AnswersWhole)
  <1> DEFINE Inv == LinkType /\ (setting.waits => DeliverInv /\ AnswerInv)
  <1>1. Inv => (setting.waits => AnswersWhole)
    <2> SUFFICES ASSUME AnswerInv, got # <<>>  PROVE NumberOf(got) \in 1 .. sends
      BY DEF AnswersWhole
    <2>1. got = Payload(got[1][1], Len(got)) /\ got[1][1] \in 1 .. sends
      BY DEF AnswerInv, GotWhole
    <2>2. NumberOf(got) = got[1][1]
      BY <2>1 DEF NumberOf
    <2> QED
      BY <2>1, <2>2
  <1>2. DiagInit => Inv
    BY LinkTypeInit, DeliverInit, AnswerInit
  <1>3. Inv /\ [DiagNext]_diagVars => Inv'
    <2> SUFFICES ASSUME Inv, [DiagNext]_diagVars  PROVE Inv'
      OBVIOUS
    <2>1. LinkType'
      BY LinkTypeStep
    <2>2. ASSUME setting.waits  PROVE DeliverInv' /\ AnswerInv'
      BY <2>2, DeliverStep, AnswerStep
    <2> QED
      BY <2>1, <2>2, Waits
  <1> QED
    BY <1>1, <1>2, <1>3, PTL DEF DiagSpec

\* In the firmware the board sends no consecutive frame that the tester has not
\* allowed, of a block of any size: none while it pauses, and no more than are left of
\* the block.
THEOREM AllowedFrames == DiagSpec => [](setting.waits => FlowRespected)
  <1> DEFINE Inv == LinkType /\ (setting.waits => DeliverInv /\ AnswerInv)
  <1>1. Inv => (setting.waits => FlowRespected)
    <2> SUFFICES ASSUME LinkType, AnswerInv, trx.buf # <<>>
                 PROVE  LET coming == {i \in DOMAIN queue : queue[i].data[1] = trx.buf[1][1]}
                        IN  /\ trx.at = "pause" => coming = {}
                            /\ trx.bs # 0 => Cardinality(coming) <= trx.left
      BY DEF FlowRespected
    <2> DEFINE coming == {i \in DOMAIN queue : queue[i].data[1] = trx.buf[1][1]}
    <2>1. Len(queue) \in Nat /\ DOMAIN queue = 1 .. Len(queue) /\ trx.left \in Nat
      BY AnswerTypes
    <2>2. queue = <<>> => coming = {}
      BY <2>1
    <2>3. trx.at = "pause" => queue = <<>>
      BY DEF AnswerInv, Released
    <2>4. IsFiniteSet(coming) /\ Cardinality(coming) <= Len(queue) /\ Cardinality(coming) \in Nat
      <3>1. IsFiniteSet(1 .. Len(queue)) /\ Cardinality(1 .. Len(queue)) = Len(queue)
        <4> DEFINE n == Len(queue)
        <4>1. n \in Nat /\ n \in Int /\ 1 \in Int
          BY <2>1
        <4> HIDE DEF n
        <4>2. IsFiniteSet(1 .. n) /\ Cardinality(1 .. n) = IF 1 > n THEN 0 ELSE n - 1 + 1
          BY <4>1, FS_Interval
        <4>3. IsFiniteSet(1 .. n) /\ Cardinality(1 .. n) = n
          BY <4>1, <4>2
        <4> QED
          BY <4>3 DEF n
      <3>2. coming \subseteq 1 .. Len(queue)
        BY <2>1
      <3> HIDE DEF coming
      <3> QED
        BY <3>1, <3>2, FS_Subset, FS_CardinalityType
    <2>5. trx.bs # 0 /\ queue # <<>> => Len(queue) <= trx.left
      <3> SUFFICES ASSUME trx.bs # 0, queue # <<>>  PROVE Len(queue) <= trx.left
        OBVIOUS
      <3>1. Len(queue) + Allowed <= trx.left
        BY DEF AnswerInv, Aligned
      <3>2. Allowed \in Nat
        BY AnswerTypes, TxAt DEF Allowed
      <3> QED
        BY <2>1, <3>1, <3>2
    <2>6. trx.bs # 0 => Cardinality(coming) <= trx.left
      <3>1. CASE queue = <<>>
        <4>1. Cardinality(coming) = 0
          BY <2>2, <3>1, FS_EmptySet
        <4> QED
          BY <2>1, <4>1
      <3>2. CASE queue # <<>>
        <4> HIDE DEF coming
        <4> QED
          BY <2>1, <2>4, <2>5, <3>2
      <3> QED
        BY <3>1, <3>2
    <2> QED
      BY <2>2, <2>3, <2>6
  <1>2. DiagInit => Inv
    BY LinkTypeInit, DeliverInit, AnswerInit
  <1>3. Inv /\ [DiagNext]_diagVars => Inv'
    <2> SUFFICES ASSUME Inv, [DiagNext]_diagVars  PROVE Inv'
      OBVIOUS
    <2>1. LinkType'
      BY LinkTypeStep
    <2>2. ASSUME setting.waits  PROVE DeliverInv' /\ AnswerInv'
      BY <2>2, DeliverStep, AnswerStep
    <2> QED
      BY <2>1, <2>2, Waits
  <1> QED
    BY <1>1, <1>2, <1>3, PTL DEF DiagSpec

-----------------------------------------------------------------------------
(* No request is left without an answer, when nothing was lost or refused *)

Clean == lost = 0 /\ ~refused

\* The sequence numbers in the queue are those of the pieces.
Numbered == \A i \in 1 .. Len(queue) : queue[i].sn = (queue[i].data[2] - 1) % SnMod

\* Every piece of the last request that was sent is in the reassembly or on its way.
Assembled(j) == rxState # Idle /\ Buffered = sends /\ j <= Len(rxState.buf)
Travels(j)   == \E f \in Pending : f.data = <<sends, j>>

SentSoFar(m, size) ==
  IF ttx.at \in {"flow", "block"} THEN m = ttx.pos /\ size = ttx.size ELSE m = size

AllThere(m, size) ==
  /\ SentSoFar(m, size)
  /\ \A f \in Pending : f.data[1] = sends => f.size = size
  /\ rxState # Idle /\ Buffered = sends => rxState.size = size
  /\ \A j \in 1 .. m : Assembled(j) \/ Travels(j)

Arrives == Reached < sends => \E m, size \in Nat \ {0} : AllThere(m, size)

\* A tester that waits for flow control gets it: for its first frame, at the end
\* of the block of which the last frame is on its way, or from the mailbox.
FirstComes == ttx.pos = 1 /\ \E f \in Pending : f.pci = "first"
BlockComes ==
  /\ rxState # Idle /\ Buffered = sends /\ rxState.bs # 0
  /\ BlockEnd = ttx.pos /\ Len(rxState.buf) < ttx.pos

Granted ==
  /\ ttx.at # "refused" /\ (mailbox.pci = "flow" => mailbox.fs = "ok")
  /\ ttx.at = "flow" => FirstComes \/ BlockComes \/ Offering

RequestSide == Arrives /\ Granted

\* So does the task: when the tester has what was sent, goes on, or refuses.
Decided(f) == f.fs # "wait"
Awaited ==
  \/ trx.at = "pause" \/ (cts # NoFrame /\ Decided(cts))
  \/ \E i \in Flows : Decided(rxFifo[i])
Rejected ==
  \/ cts # NoFrame /\ cts.fs = "reject"
  \/ \E i \in Flows : rxFifo[i].fs = "reject"

\* The tester has every frame that was sent, and the task counts as it does.
InStep ==
  /\ trx.buf # <<>> /\ Answer = job.of /\ LastGot = Len(trx.buf)
  /\ Len(trx.buf) + Len(queue) = IF tx = NoTx THEN trx.size ELSE tx.pos
  /\ tx # NoTx /\ (queue # <<>> \/ tx.at = "block") =>
       IF trx.bs = 0 THEN tx.at = "block" ELSE Len(queue) + Allowed = trx.left

Has(n) == NumberOf(got) = n /\ trx.buf = <<>>

\* Where an answer is: it begins, it goes on, the tester refuses it, or it has it.
Replying ==
  \/ IsData(mailbox) /\ trx.buf = <<>>
  \/ InStep /\ ~IsData(mailbox)
  \/ Rejected /\ trx.buf = <<>>
  \/ tx = NoTx /\ queue = <<>> /\ ~IsData(mailbox) /\ Has(job.of)

Between == job.at # "reply" /\ (job.at = "process" => job.via # "can")

ReplySide ==
  /\ job.at # "select" /\ job.via = "can" => job.of = NumberOf(handed)
  /\ job.at = "process" => trx.buf = <<>>
  /\ job.at = "reply" => Replying
  /\ Between => Has(NumberOf(handed))
  /\ tx.at = "flow" => IsData(mailbox) \/ queue # <<>> \/ Awaited

SilentInv == Numbered /\ (Clean => RequestSide /\ ReplySide)

LEMMA MorePending ==
  ASSUME FifoTyped, NEW x \in DataFrames, rxFifo' = Append(rxFifo, x)
  PROVE  Pending' = Pending \cup {x}
  <1>1. /\ Len(rxFifo') = Len(rxFifo) + 1 /\ Len(rxFifo) \in Nat
        /\ \A i \in 1 .. Len(rxFifo) : rxFifo'[i] = rxFifo[i]
        /\ rxFifo'[Len(rxFifo) + 1] = x
    BY Appended DEF FifoTyped, Frames
  <1>2. x.pci # "flow"
    BY DEF DataFrames
  <1>3. \A i \in 1 .. Len(rxFifo') : i \in 1 .. Len(rxFifo) \/ i = Len(rxFifo) + 1
    BY <1>1
  <1>4. Len(rxFifo) + 1 \in 1 .. Len(rxFifo') /\ 1 .. Len(rxFifo) \subseteq 1 .. Len(rxFifo')
    BY <1>1
  <1>5. ASSUME NEW f \in Pending'  PROVE f \in Pending \cup {x}
    BY <1>1, <1>3 DEF Pending
  <1>6. ASSUME NEW f \in Pending \cup {x}  PROVE f \in Pending'
    <2>1. CASE f = x
      BY <1>1, <1>2, <1>4, <2>1 DEF Pending
    <2>2. CASE f \in Pending
      BY <1>1, <1>4, <2>2 DEF Pending
    <2> QED
      BY <1>6, <2>1, <2>2
  <1> QED
    BY <1>5, <1>6

LEMMA SendsBlock ==
  ASSUME LinkType, SendBlock
  PROVE  \/ ttx.pos + 1 = ttx.size /\ ttx'.at = "idle"
         \/ /\ ttx.pos + 1 # ttx.size /\ ttx'.pos = ttx.pos + 1 /\ ttx'.size = ttx.size
            /\ ttx'.at = (IF ttx.left = 1 THEN "flow" ELSE "block")
            /\ ttx'.left = (IF ttx.left = 0 THEN 0 ELSE ttx.left - 1)
  <1> DEFINE pos  == ttx.pos + 1
             at   == IF ttx.left = 1 THEN "flow" ELSE "block"
             left == IF ttx.left = 0 THEN 0 ELSE ttx.left - 1
  <1>1. ttx' = IF ttx.pos + 1 = ttx.size THEN NotSending
               ELSE [ttx EXCEPT !.pos = pos, !.at = at, !.left = left]
    BY DEF SendBlock
  <1>2. CASE ttx.pos + 1 = ttx.size
    BY <1>1, <1>2 DEF NotSending
  <1>3. CASE ttx.pos + 1 # ttx.size
    <2>1. ttx' = [ttx EXCEPT !.pos = pos, !.at = at, !.left = left]
      BY <1>1, <1>3
    <2> HIDE DEF pos, at, left
    <2>2. ttx'.pos = pos /\ ttx'.at = at /\ ttx'.left = left /\ ttx'.size = ttx.size
      BY <2>1, LinkFacts DEF Senders
    <2> QED
      BY <1>3, <2>2 DEF pos, at, left
  <1> QED
    BY <1>2, <1>3

-----------------------------------------------------------------------------
(* The way of a request *)

\* What the interrupt leaves in the channel.
LEMMA PendingLeft ==
  ASSUME FifoTyped, rxFifo # <<>>, rxFifo' = Tail(rxFifo)
  PROVE  /\ \A g \in Pending : g = Head(rxFifo) \/ g \in Pending'
         /\ Head(rxFifo).pci = "flow" => Pending' = Pending
  <1>1. /\ Head(rxFifo) = rxFifo[1] /\ Len(rxFifo) \in Nat \ {0} /\ Len(rxFifo') = Len(rxFifo) - 1
        /\ \A i \in 1 .. Len(rxFifo') : rxFifo'[i] = rxFifo[i + 1]
    BY Taken DEF FifoTyped
  <1>2. ASSUME NEW g \in Pending
        PROVE  /\ g = Head(rxFifo) \/ g \in Pending'
               /\ Head(rxFifo).pci = "flow" => g \in Pending'
    <2>1. PICK i \in 1 .. Len(rxFifo) : rxFifo[i].pci # "flow" /\ g = rxFifo[i]
      BY DEF Pending
    <2>2. CASE i = 1
      BY <1>1, <2>1, <2>2
    <2>3. CASE i # 1
      <3>1. i - 1 \in 1 .. Len(rxFifo') /\ rxFifo'[i - 1] = rxFifo[(i - 1) + 1] /\ (i - 1) + 1 = i
        BY <1>1, <2>3
      <3>2. rxFifo'[i - 1] = g
        BY <2>1, <3>1
      <3> QED
        BY <2>1, <3>1, <3>2 DEF Pending
    <2> QED
      BY <2>2, <2>3
  <1>3. ASSUME NEW g \in Pending'  PROVE g \in Pending
    <2>1. PICK i \in 1 .. Len(rxFifo') : rxFifo'[i].pci # "flow" /\ g = rxFifo'[i]
      BY DEF Pending
    <2>2. i + 1 \in 1 .. Len(rxFifo) /\ rxFifo'[i] = rxFifo[i + 1]
      BY <1>1
    <2> QED
      BY <2>1, <2>2 DEF Pending
  <1> QED
    BY <1>2, <1>3

\* Steps that leave the request where it is.
LEMMA RequestKept ==
  ASSUME RequestSide, UNCHANGED <<rxState, sends, ttx>>, Pending' = Pending, Reached' = Reached,
         Offering => Offering', mailbox'.pci = "flow" => mailbox' = mailbox \/ mailbox'.fs = "ok"
  PROVE  RequestSide'
  <1>1. Arrives'
    BY DEF RequestSide, Arrives, AllThere, SentSoFar, Assembled, Travels, Buffered
  <1>2. Granted'
    BY DEF RequestSide, Granted, FirstComes, BlockComes, Buffered, BlockEnd
  <1> QED
    BY <1>1, <1>2 DEF RequestSide

LEMMA RequestAsked ==
  ASSUME LinkType, DeliverInv, RequestSide, Ask, UNCHANGED <<rxState, rxReady, handed, mailbox>>
  PROVE  RequestSide'
  <1>1. PICK size \in Sizes :
          /\ rxFifo' = Append(rxFifo, FrameOf(sends + 1, 1, size))
          /\ ttx' = IF size = 1 THEN NotSending
                    ELSE [at |-> "flow", size |-> size, pos |-> 1, left |-> 0]
    BY DEF Ask
  <1>2. size \in Nat \ {0} /\ sends \in Nat /\ sends' = sends + 1 /\ FifoTyped
    BY Params, LinkFacts DEF Ask
  <1> DEFINE x == FrameOf(sends + 1, 1, size)
  <1>3. /\ x \in DataFrames /\ x.data = <<sends + 1, 1>> /\ x.size = size
        /\ x.pci = (IF size = 1 THEN "single" ELSE "first") /\ x.data[1] = sends + 1
    BY <1>2, FrameType
  <1> HIDE DEF x
  <1>4. \A g \in Pending : g.data[1] \in Nat /\ g.data[1] <= sends
    BY PendingFacts
  <1>5. Pending' = Pending \cup {x}
    <2>1. ASSUME NEW g \in Pending  PROVE Before(g, x)
      BY <1>2, <1>3, <1>4 DEF Before
    <2> QED
      BY <1>1, <1>2, <1>3, <2>1, PendingData DEF DeliverInv, x
  <1>6. rxState' = rxState /\ (rxState # Idle => Buffered' # sends')
    <2>1. rxState # Idle => Buffered' = Buffered /\ Buffered \in 1 .. sends
      BY DEF DeliverInv, Reassembling, Buffered
    <2> QED
      BY <1>2, <2>1
  <1>7. AllThere(1, size)'
    <2>1. SentSoFar(1, size)'
      BY <1>1 DEF SentSoFar, NotSending
    <2>2. ASSUME NEW f \in Pending', f.data[1] = sends'  PROVE f.size = size
      BY <1>2, <1>3, <1>4, <1>5, <2>2
    <2>3. Travels(1)'
      BY <1>2, <1>3, <1>5 DEF Travels
    <2>4. \A j \in 1 .. 1 : Travels(j)'
      BY <2>3
    <2> QED
      BY <1>6, <2>1, <2>2, <2>4 DEF AllThere
  <1>8. Arrives'
    BY <1>2, <1>7 DEF Arrives
  <1>9. Granted'
    <2>1. ttx'.at # "refused" /\ (ttx'.at = "flow" => size # 1 /\ ttx'.pos = 1)
      BY <1>1 DEF NotSending
    <2>2. size # 1 => \E f \in Pending' : f.pci = "first"
      BY <1>3, <1>5
    <2> QED
      BY <2>1, <2>2 DEF RequestSide, Granted, FirstComes
  <1> QED
    BY <1>8, <1>9 DEF RequestSide

LEMMA RequestSent ==
  ASSUME LinkType, DeliverInv, RequestSide, SendBlock,
         UNCHANGED <<rxState, rxReady, handed, mailbox>>
  PROVE  RequestSide'
  <1>1. /\ ttx.at = "block" /\ ttx \in Senders /\ ttx.pos \in Nat \ {0} /\ ttx.size \in Nat
        /\ ttx.left \in Nat /\ ttx.pos < ttx.size /\ sends \in Nat /\ UNCHANGED sends /\ FifoTyped
        /\ rxFifo' = Append(rxFifo, FrameOf(sends, ttx.pos + 1, ttx.size))
    BY LinkFacts DEF SendBlock, Begun
  <1>2. /\ rxState # Idle /\ Buffered = sends /\ rxState.size = ttx.size /\ LastPart <= ttx.pos
        /\ rxState.bs = 0 => ttx.left = 0
        /\ rxState.bs # 0 => ttx.left > 0 /\ ttx.pos + ttx.left = BlockEnd
        /\ Reached < sends
    BY <1>1 DEF DeliverInv, Sending
  <1>3. /\ LastPart \in Nat /\ BlockEnd \in Int /\ rxState.bs \in Nat /\ rxState.size \in Nat
        /\ Len(rxState.buf) \in Nat /\ Len(rxState.buf) <= LastPart
    BY <1>2, RxFacts DEF DeliverInv
  <1>4. PICK k \in Nat \ {0} : k = ttx.pos + 1
    BY <1>1
  <1> DEFINE x == FrameOf(sends, k, ttx.size)
  <1>5. x \in DataFrames /\ x.data = <<sends, k>> /\ x.size = ttx.size
    <2>1. sends \in Nat /\ ttx.size \in Nat
      BY <1>1
    <2> QED
      BY <2>1, FrameType
  <1>6. rxFifo' = Append(rxFifo, x)
    BY <1>1, <1>4
  <1> HIDE DEF x
  <1>7. Pending' = Pending \cup {x}
    BY <1>1, <1>5, <1>6, MorePending
  <1>8. /\ ttx'.at # "refused"
        /\ IF k = ttx.size THEN ttx'.at = "idle"
           ELSE /\ ttx'.pos = k /\ ttx'.size = ttx.size
                /\ ttx'.at = (IF ttx.left = 1 THEN "flow" ELSE "block")
    BY <1>1, <1>4, SendsBlock
  <1>9. PICK m \in Nat \ {0}, size \in Nat \ {0} : AllThere(m, size)
    BY <1>2 DEF RequestSide, Arrives
  <1>10. m = ttx.pos /\ size = ttx.size
    BY <1>1, <1>9 DEF AllThere, SentSoFar
  <1>11. AllThere(k, size)'
    <2>1. SentSoFar(k, size)'
      BY <1>4, <1>8, <1>10 DEF SentSoFar
    <2>2. ASSUME NEW f \in Pending', f.data[1] = sends'  PROVE f.size = size
      BY <1>1, <1>5, <1>7, <1>9, <1>10, <2>2 DEF AllThere
    <2>3. ASSUME NEW j \in 1 .. k  PROVE Assembled(j)' \/ Travels(j)'
      <3>1. CASE j = k
        BY <1>1, <1>5, <1>7, <3>1 DEF Travels
      <3>2. CASE j # k
        <4>1. j \in 1 .. m
          BY <1>1, <1>4, <1>10, <3>2
        <4>2. Assembled(j) \/ Travels(j)
          BY <1>9, <4>1 DEF AllThere
        <4> QED
          BY <1>1, <1>7, <4>2 DEF Assembled, Travels, Buffered
      <3> QED
        BY <3>1, <3>2
    <2> QED
      BY <1>1, <1>2, <1>10, <2>1, <2>2, <2>3 DEF AllThere, Buffered
  <1>12. Arrives'
    BY <1>4, <1>11 DEF Arrives
  <1>13. ttx'.at = "flow" => BlockComes'
    <2> SUFFICES ASSUME ttx'.at = "flow"  PROVE BlockComes'
      OBVIOUS
    <2>1. ttx.left = 1 /\ ttx'.pos = k
      BY <1>8
    <2>2. rxState.bs # 0 /\ BlockEnd = k /\ Len(rxState.buf) < k
      BY <1>1, <1>2, <1>3, <1>4, <2>1
    <2> QED
      BY <1>1, <1>2, <2>1, <2>2 DEF BlockComes, Buffered, BlockEnd
  <1>14. Granted'
    BY <1>8, <1>13 DEF RequestSide, Granted
  <1> QED
    BY <1>12, <1>14 DEF RequestSide

\* The frames that the interrupt leaves when it takes x.
Left(x) == \A g \in Pending : g = x \/ g \in Pending'

LEMMA TravelsOn ==
  ASSUME NEW x, Left(x), NEW j, Travels(j), x.data # <<sends, j>>, UNCHANGED sends
  PROVE  Travels(j)'
  <1>1. PICK f \in Pending : f.data = <<sends, j>>
    BY DEF Travels
  <1>2. f \in Pending'
    BY <1>1 DEF Left
  <1> QED
    BY <1>1, <1>2 DEF Travels

\* A frame of another request leaves the last one as complete as it was.
LEMMA OthersFrame ==
  ASSUME NEW x \in Pending, Left(x), After(x), x.data[1] # sends, UNCHANGED <<sends, ttx>>,
         NEW m, NEW size, AllThere(m, size),
         \/ UNCHANGED rxState
         \/ Buffered # sends /\ (rxState' # Idle => Buffered' # sends)
  PROVE  AllThere(m, size)'
  <1>1. SentSoFar(m, size)' /\ (rxState' # Idle /\ Buffered' = sends => rxState'.size = size)
    BY DEF AllThere, SentSoFar, Buffered
  <1>2. \A f \in Pending' : f.data[1] = sends => f.size = size
    BY DEF AllThere, After
  <1>3. ASSUME NEW j \in 1 .. m  PROVE Assembled(j)' \/ Travels(j)'
    <2>1. x.data # <<sends, j>>
      OBVIOUS
    <2>2. Assembled(j) \/ Travels(j)
      BY DEF AllThere
    <2>3. Assembled(j) => Assembled(j)'
      BY DEF Assembled, Buffered
    <2> QED
      BY <2>1, <2>2, <2>3, TravelsOn
  <1> QED
    BY <1>1, <1>2, <1>3 DEF AllThere

LEMMA RequestSingle ==
  ASSUME LinkType, DeliverInv, RequestSide, NEW x \in Pending, SingleFrame(x), Left(x), After(x),
         UNCHANGED <<handed, sends, ttx>>
  PROVE  RequestSide'
  <1>1. /\ x.pci = "single" /\ rxReady' = <<x.data>> /\ UNCHANGED <<rxState, mailbox>>
        /\ x.data[1] \in Nat /\ Reached < x.data[1] /\ x.data[1] <= sends
        /\ Reached \in Nat /\ sends \in Nat
    BY LinkFacts, PendingFacts, ReachedFacts DEF SingleFrame, DeliverInv
  <1>2. Reached' = x.data[1]
    <2>1. rxReady' # <<>> /\ rxReady'[1] = x.data
      BY <1>1
    <2> QED
      BY <2>1 DEF Reached
  <1>3. Arrives'
    <2> SUFFICES ASSUME x.data[1] # sends
                 PROVE  \E m, size \in Nat \ {0} : AllThere(m, size)'
      BY <1>1, <1>2 DEF Arrives
    <2>1. Reached < sends
      BY <1>1
    <2>2. PICK m \in Nat \ {0}, size \in Nat \ {0} : AllThere(m, size)
      BY <2>1 DEF RequestSide, Arrives
    <2> QED
      BY <1>1, <2>2, OthersFrame
  <1>4. FirstComes => FirstComes'
    BY <1>1 DEF FirstComes, Left
  <1>5. Granted'
    BY <1>1, <1>4 DEF RequestSide, Granted, BlockComes, Buffered, BlockEnd, Offering
  <1> QED
    BY <1>3, <1>5 DEF RequestSide

LEMMA RequestFirst ==
  ASSUME LinkType, DeliverInv, RequestSide, NEW x \in Pending, FirstFrame(x), ~refused', After(x),
         UNCHANGED <<handed, sends, ttx>>
  PROVE  RequestSide'
  <1>1. x.pci = "first" /\ UNCHANGED rxReady
    BY DEF FirstFrame
  <1>2. /\ x \in DataFrames /\ x.data[1] = sends /\ x.data = <<sends, 1>> /\ sends \in Nat
        /\ Reached < sends /\ ttx.at = "flow" /\ ttx.pos = 1
    BY <1>1, LinkFacts, PendingFacts DEF Coming, Begins, RequestSide, Granted
  <1>3. Pending' = {}
    <2> SUFFICES ASSUME NEW g \in Pending'  PROVE FALSE
      OBVIOUS
    <2>1. g \in Pending /\ x.data[1] < g.data[1]
      BY <1>1 DEF After, Before
    <2> QED
      BY <1>2, <2>1, PendingFacts
  <1>4. PICK bs \in BlockSizes : mailbox' = FlowControl("ok", bs) /\ rxState' = Reassembly(x, bs)
    BY DEF FirstFrame
  <1>5. /\ rxState' # Idle /\ rxState'.buf = << <<sends, 1>> >> /\ rxState'.size = x.size
    BY <1>2, <1>4, NewAssembly
  <1>6. Len(rxState'.buf) = 1 /\ Buffered' = sends
    BY <1>5 DEF Buffered
  <1>7. PICK m \in Nat \ {0}, size \in Nat \ {0} : AllThere(m, size)
    BY <1>2 DEF RequestSide, Arrives
  <1>8. m = 1 /\ SentSoFar(m, size)' /\ size = x.size
    BY <1>2, <1>7 DEF AllThere, SentSoFar
  <1>9. Assembled(1)'
    BY <1>5, <1>6 DEF Assembled
  <1>10. AllThere(m, size)'
    <2>1. \A j \in 1 .. m : Assembled(j)'
      BY <1>8, <1>9
    <2> QED
      BY <1>3, <1>5, <1>8, <2>1 DEF AllThere
  <1>11. Offering' /\ mailbox'.fs = "ok"
    <2>1. bs \in Nat
      BY Params
    <2> QED
      BY <1>4, <2>1, FlowType DEF Offering
  <1> QED
    BY <1>2, <1>10, <1>11 DEF RequestSide, Arrives, Granted

\* A consecutive frame that comes while nothing is lost is the next one.
LEMMA NextPiece ==
  ASSUME LinkType, DeliverInv, NEW x \in Pending, x.pci = "consecutive", Left(x), After(x),
         NEW m \in Nat \ {0}, NEW size \in Nat \ {0}, AllThere(m, size), x.data[1] = sends
  PROVE  /\ rxState # Idle /\ Buffered = sends /\ x.data[2] = Len(rxState.buf) + 1
         /\ rxState.size = size /\ x.size = size /\ Len(rxState.buf) \in Nat \ {0}
         /\ ttx.at \in {"flow", "block"} => size = ttx.size /\ x.data[2] <= ttx.pos
  <1>1. /\ rxState # Idle /\ x.data[1] = Buffered /\ x.data[2] > LastPart /\ x.size = rxState.size
        /\ x \in DataFrames /\ x.data[2] \in Nat /\ x.data[2] <= x.size
        /\ OfRequest(x) /\ sends \in Nat
    BY LinkFacts, PendingFacts DEF Coming, Continues
  <1>2. Len(rxState.buf) \in Nat \ {0} /\ LastPart \in Nat /\ Len(rxState.buf) <= LastPart
    BY <1>1, RxFacts DEF DeliverInv
  <1>3. x.size = size
    BY DEF AllThere
  <1>4. x.data[2] <= m /\ (ttx.at \in {"flow", "block"} => size = ttx.size /\ x.data[2] <= ttx.pos)
    BY <1>1, <1>3 DEF AllThere, SentSoFar, OfRequest
  <1> DEFINE j == Len(rxState.buf) + 1
  <1>5. j \in 1 .. m /\ j <= x.data[2] /\ ~Assembled(j)
    BY <1>1, <1>2, <1>4 DEF Assembled
  <1>6. PICK g \in Pending : g.data = <<sends, j>>
    BY <1>5 DEF AllThere, Travels
  <1>7. g = x
    <2> SUFFICES ASSUME g # x  PROVE FALSE
      OBVIOUS
    <2>1. Before(x, g)
      BY DEF Left, After
    <2>2. g.data[1] = sends /\ g.data[2] = j
      BY <1>6
    <2>3. j \in Nat /\ j <= x.data[2]
      BY <1>2, <1>5
    <2> HIDE DEF j
    <2>4. ~(x.data[1] < g.data[1])
      <3>1. ~(sends < sends)
        BY <1>1
      <3> QED
        BY <2>2, <3>1
    <2>5. ~(x.data[2] < g.data[2])
      <3>1. ~(x.data[2] < j)
        BY <1>1, <2>3
      <3> QED
        BY <2>2, <3>1
    <2> QED
      BY <2>1, <2>4, <2>5 DEF Before
  <1>8. x.data[2] = j
    BY <1>6, <1>7
  <1> QED
    BY <1>1, <1>2, <1>3, <1>4, <1>8

\* What a consecutive frame does to a reassembly when nothing is refused.
LEMMA ConsecutiveOutcomes ==
  ASSUME LinkType, DeliverInv, NEW x \in DataFrames, ConsecutiveFrame(x), ~refused', rxState # Idle
  PROVE  LET n     == Len(rxState.buf) + 1
             count == (rxState.count + 1) % U8
         IN  \/ /\ n = rxState.size /\ rxReady' = Append(rxState.buf, x.data) /\ rxState' = Idle
                /\ UNCHANGED mailbox
             \/ /\ n < rxState.size /\ UNCHANGED rxReady
                /\ rxState' # Idle /\ rxState'.buf = Append(rxState.buf, x.data)
                /\ rxState'.size = rxState.size /\ rxState'.bs = rxState.bs
                /\ \/ ~BlockFull(count) /\ rxState'.count = count /\ UNCHANGED mailbox
                   \/ mailbox' = FlowControl("ok", rxState.bs) /\ rxState.bs \in Nat
  <1>1. /\ rxState \in Assemblies /\ rxState.buf \in Seq(Pieces) /\ rxState.count \in Nat
        /\ rxState.bs \in Nat
    BY RxFacts DEF DeliverInv
  <1>2. (rxState.count + 1) % U8 \in Nat
    BY <1>1, Params
  <1> DEFINE buf   == Append(rxState.buf, x.data)
             count == (rxState.count + 1) % U8
             more  == More(rxState, x, count)
             fresh == More(rxState, x, 0)
  <1>3. /\ more # Idle /\ more.buf = buf /\ more.size = rxState.size /\ more.bs = rxState.bs
        /\ more.count = count
    <2> HIDE DEF count
    <2> QED
      BY <1>1, <1>2, MoreAssembly DEF count
  <1>10. fresh # Idle /\ fresh.buf = buf /\ fresh.size = rxState.size /\ fresh.bs = rxState.bs
    BY <1>1, MoreAssembly
  <1>4. [more EXCEPT !.count = 0] = fresh
    BY <1>1 DEF Assemblies, More
  <1>5. Len(buf) = Len(rxState.buf) + 1
    BY <1>1, Appended, FrameFields
  <1>6. \/ /\ Len(buf) = rxState.size /\ rxReady' = buf /\ rxState' = Idle /\ UNCHANGED mailbox
        \/ /\ Len(buf) < rxState.size /\ rxState' = more /\ ~BlockFull(count)
           /\ UNCHANGED <<rxReady, mailbox>>
        \/ /\ Len(buf) < rxState.size
           /\ mailbox' = FlowControl("ok", rxState.bs) /\ rxState' = fresh /\ UNCHANGED rxReady
    BY <1>4 DEF ConsecutiveFrame, More
  <1> HIDE DEF buf, count, more, fresh
  <1>7. CASE Len(buf) = rxState.size /\ rxReady' = buf /\ rxState' = Idle /\ UNCHANGED mailbox
    BY <1>5, <1>7 DEF buf
  <1>8. CASE /\ Len(buf) < rxState.size /\ rxState' = more /\ ~BlockFull(count)
             /\ UNCHANGED <<rxReady, mailbox>>
    BY <1>3, <1>5, <1>8 DEF buf, count
  <1>9. CASE /\ Len(buf) < rxState.size
             /\ mailbox' = FlowControl("ok", rxState.bs) /\ rxState' = fresh /\ UNCHANGED rxReady
    BY <1>1, <1>10, <1>5, <1>9 DEF buf
  <1> QED
    BY <1>6, <1>7, <1>8, <1>9

\* A request that is not the last one is taken further.
LEMMA RequestOlder ==
  ASSUME LinkType, DeliverInv, RequestSide, NEW x \in Pending, ConsecutiveFrame(x), ~refused',
         Left(x), After(x), x.data[1] # sends, UNCHANGED <<handed, sends, ttx>>
  PROVE  RequestSide'
  <1>1. /\ rxState # Idle /\ x.data[1] = Buffered /\ x \in DataFrames /\ sends \in Nat
        /\ x.data[1] \in Nat /\ Reached < x.data[1] /\ x.data[1] <= sends /\ Reached \in Nat
    BY LinkFacts, PendingFacts, ReachedFacts DEF ConsecutiveFrame, Coming, Continues, DeliverInv
  <1>2. Reached < sends /\ Buffered # sends
    BY <1>1
  <1>3. /\ rxState.buf \in Seq(Pieces) /\ Len(rxState.buf) \in Nat \ {0}
        /\ rxState.buf[1][1] = Buffered
    BY <1>1, RxFacts DEF DeliverInv
  <1>4. Append(rxState.buf, x.data)[1] = rxState.buf[1]
    <2>1. x.data \in Pieces /\ 1 \in 1 .. Len(rxState.buf)
      BY <1>1, <1>3, FrameFields
    <2> QED
      BY <1>3, <2>1, Appended
  <1>5. rxState' # Idle => Buffered' # sends
    <2>1. rxState' # Idle => rxState'.buf = Append(rxState.buf, x.data)
      BY <1>1, ConsecutiveOutcomes
    <2> QED
      BY <1>2, <1>3, <1>4, <2>1 DEF Buffered
  <1>6. PICK m \in Nat \ {0}, size \in Nat \ {0} : AllThere(m, size)
    BY <1>2 DEF RequestSide, Arrives
  <1>7. Arrives'
    BY <1>2, <1>5, <1>6, OthersFrame DEF Arrives
  <1>8. mailbox' = mailbox \/ mailbox'.fs = "ok"
    <2>1. rxState.bs \in Nat => FlowControl("ok", rxState.bs).fs = "ok"
      BY FlowType
    <2> QED
      BY <1>1, <2>1, ConsecutiveOutcomes
  <1>9. ttx.at = "flow" => FirstComes'
    <2>1. ~Offering
      BY NoOffer, <1>1 DEF DeliverInv, Offered
    <2>2. ~BlockComes
      BY <1>2 DEF BlockComes
    <2>3. FirstComes => FirstComes'
      BY DEF FirstComes, Left, ConsecutiveFrame
    <2> QED
      BY <2>1, <2>2, <2>3 DEF RequestSide, Granted
  <1>10. Granted'
    BY <1>8, <1>9 DEF RequestSide, Granted
  <1> QED
    BY <1>7, <1>10 DEF RequestSide

\* The next piece of the last request.
LEMMA RequestPiece ==
  ASSUME LinkType, DeliverInv, RequestSide, NEW x \in Pending, ConsecutiveFrame(x), ~refused',
         Left(x), After(x), x.data[1] = sends, UNCHANGED <<handed, sends, ttx>>
  PROVE  RequestSide'
  <1>1. /\ x.pci = "consecutive" /\ x \in DataFrames /\ x.data \in Pieces /\ sends \in Nat
        /\ Reached < sends /\ x.data = <<sends, x.data[2]>> /\ ttx.pos \in Nat /\ ttx.size \in Nat
        /\ Begun
    BY LinkFacts, PendingFacts DEF ConsecutiveFrame
  <1>2. PICK m \in Nat \ {0}, size \in Nat \ {0} : AllThere(m, size)
    BY <1>1 DEF RequestSide, Arrives
  <1>3. /\ rxState # Idle /\ Buffered = sends /\ x.data[2] = Len(rxState.buf) + 1
        /\ rxState.size = size /\ x.size = size /\ Len(rxState.buf) \in Nat \ {0}
        /\ ttx.at \in {"flow", "block"} => size = ttx.size /\ x.data[2] <= ttx.pos
    BY <1>1, <1>2, NextPiece
  <1>4. /\ rxState.buf \in Seq(Pieces) /\ rxState.buf[1][1] = Buffered /\ rxState.bs \in Nat
        /\ rxState.count \in Nat /\ rxState.count < U8 /\ rxState.bs < U8
        /\ rxState.bs # 0 => rxState.count < rxState.bs
    BY <1>3, RxFacts DEF DeliverInv, Reassembling
  <1> DEFINE n   == Len(rxState.buf) + 1
             buf == Append(rxState.buf, x.data)
  <1>5. Len(buf) = n /\ buf[1] = rxState.buf[1] /\ n \in Nat \ {0}
    <2>1. 1 \in 1 .. Len(rxState.buf)
      BY <1>3
    <2> QED
      BY <1>1, <1>3, <1>4, <2>1, Appended
  <1> HIDE DEF buf
  <1>6. CASE n = rxState.size /\ rxReady' = buf /\ rxState' = Idle /\ UNCHANGED mailbox
    <2>1. Reached' = sends
      <3>1. rxReady' # <<>>
        BY <1>5, <1>6
      <3> QED
        BY <1>3, <1>4, <1>5, <1>6, <3>1 DEF Reached
    <2>2. ttx.at # "flow"
      BY <1>1, <1>3, <1>6 DEF Begun
    <2> QED
      BY <1>1, <1>6, <2>1, <2>2 DEF RequestSide, Arrives, Granted
  <1>7. CASE /\ n < rxState.size /\ UNCHANGED rxReady
             /\ rxState' # Idle /\ rxState'.buf = buf
             /\ rxState'.size = rxState.size /\ rxState'.bs = rxState.bs
             /\ \/ ~BlockFull((rxState.count + 1) % U8) /\ UNCHANGED mailbox
                   /\ rxState'.count = (rxState.count + 1) % U8
                \/ mailbox' = FlowControl("ok", rxState.bs) /\ rxState.bs \in Nat
    <2>1. Buffered' = sends /\ Len(rxState'.buf) = n
      BY <1>3, <1>4, <1>5, <1>7 DEF Buffered
    <2>2. AllThere(m, size)'
      <3>1. SentSoFar(m, size)'
        BY <1>2 DEF AllThere, SentSoFar
      <3>2. \A f \in Pending' : f.data[1] = sends => f.size = size
        BY <1>2 DEF AllThere, After
      <3>3. ASSUME NEW j \in 1 .. m  PROVE Assembled(j)' \/ Travels(j)'
        <4>1. CASE j <= n
          BY <1>7, <2>1, <4>1 DEF Assembled
        <4>2. CASE ~(j <= n)
          <5>1. ~Assembled(j) /\ j # x.data[2]
            BY <1>3, <4>2 DEF Assembled
          <5>2. Travels(j)
            BY <1>2, <5>1 DEF AllThere
          <5>3. x.data # <<sends, j>>
            BY <5>1
          <5> QED
            BY <5>2, <5>3, TravelsOn
        <4> QED
          BY <4>1, <4>2
      <3> QED
        BY <1>3, <1>7, <3>1, <3>2, <3>3 DEF AllThere
    <2>3. Arrives'
      BY <2>2 DEF Arrives
    <2>4. CASE mailbox' = FlowControl("ok", rxState.bs) /\ rxState.bs \in Nat
      <3>1. Offering' /\ mailbox'.fs = "ok"
        BY <2>4, FlowType DEF Offering
      <3> QED
        BY <2>3, <3>1 DEF RequestSide, Granted
    <2>5. CASE /\ ~BlockFull((rxState.count + 1) % U8) /\ UNCHANGED mailbox
               /\ rxState'.count = (rxState.count + 1) % U8
      <3>1. ASSUME ttx.at = "flow"  PROVE BlockComes'
        <4>1. ~Offering
          BY DEF DeliverInv, Offered
        <4>2. ~FirstComes
          BY <1>3, <3>1 DEF FirstComes
        <4>3. BlockComes
          BY <3>1, <4>1, <4>2 DEF RequestSide, Granted
        <4>4. rxState.bs # 0 /\ Len(rxState.buf) - rxState.count + rxState.bs = ttx.pos
          BY <4>3 DEF BlockComes, BlockEnd
        <4>5. (rxState.count + 1) % U8 = rxState.count + 1
          <5>1. rxState.count + 1 \in 0 .. U8 - 1 /\ U8 \in Nat \ {0}
            BY <1>4, <4>4, Params
          <5> QED
            BY <5>1, NoWrap
        <4>6. rxState.count + 1 # rxState.bs
          BY <2>5, <4>4, <4>5 DEF BlockFull
        <4>7. n < ttx.pos
          BY <1>1, <1>3, <1>4, <3>1, <4>4, <4>6
        <4>8. BlockEnd' = ttx.pos
          <5>1. rxState'.count = rxState.count + 1 /\ Len(rxState'.buf) = Len(rxState.buf) + 1
            BY <2>1, <2>5, <4>5
          <5>2. BlockEnd' = (Len(rxState.buf) + 1) - (rxState.count + 1) + rxState.bs
            BY <1>7, <5>1 DEF BlockEnd
          <5>3. (Len(rxState.buf) + 1) - (rxState.count + 1) + rxState.bs
                  = Len(rxState.buf) - rxState.count + rxState.bs
            <6>1. \A a, b, c \in Nat : (a + 1) - (b + 1) + c = a - b + c
              OBVIOUS
            <6> QED
              BY <1>3, <1>4, <6>1
          <5> QED
            BY <4>4, <5>2, <5>3
        <4> QED
          BY <1>7, <2>1, <4>4, <4>7, <4>8 DEF BlockComes
      <3>2. Granted'
        BY <2>5, <3>1 DEF RequestSide, Granted
      <3> QED
        BY <2>3, <3>2 DEF RequestSide
    <2> QED
      BY <1>7, <2>4, <2>5
  <1> QED
    <2>1. \/ n = rxState.size /\ rxReady' = buf /\ rxState' = Idle /\ UNCHANGED mailbox
          \/ /\ n < rxState.size /\ UNCHANGED rxReady
             /\ rxState' # Idle /\ rxState'.buf = buf
             /\ rxState'.size = rxState.size /\ rxState'.bs = rxState.bs
             /\ \/ ~BlockFull((rxState.count + 1) % U8) /\ UNCHANGED mailbox
                   /\ rxState'.count = (rxState.count + 1) % U8
                \/ mailbox' = FlowControl("ok", rxState.bs) /\ rxState.bs \in Nat
      BY <1>1, <1>3, ConsecutiveOutcomes DEF buf
    <2> QED
      BY <1>6, <1>7, <2>1

LEMMA RequestToBoard ==
  ASSUME LinkType, DeliverInv, RequestSide, ToBoard, ~refused'
  PROVE  RequestSide'
  <1>1. FifoTyped /\ rxFifo # <<>> /\ rxFifo' = Tail(rxFifo) /\ UNCHANGED <<handed, sends, ttx>>
    BY LinkFacts DEF ToBoard, taskVars
  <1> DEFINE x == Head(rxFifo)
  <1>2. /\ \A g \in Pending : g = x \/ g \in Pending'
        /\ x.pci = "flow" => Pending' = Pending
    BY <1>1, PendingLeft
  <1>3. /\ Pending' \subseteq Pending
        /\ x.pci # "flow" => x \in Pending /\ \A g \in Pending' : Before(x, g)
    BY <1>1, PendingTaken DEF DeliverInv
  <1>4. SingleFrame(x) \/ FirstFrame(x) \/ ConsecutiveFrame(x) \/ FlowControlFrame(x)
    BY DEF ToBoard, OnFrameRx
  <1> HIDE DEF x
  <1>5. CASE FlowControlFrame(x)
    <2>1. UNCHANGED <<rxState, rxReady, mailbox>> /\ Pending' = Pending
      BY <1>2, <1>5 DEF FlowControlFrame
    <2>2. Reached' = Reached
      BY <1>1, <2>1 DEF Reached, NumberOf
    <2> QED
      BY <1>1, <2>1, <2>2, RequestKept DEF Offering
  <1>6. CASE x.pci # "flow"
    <2>1. x \in Pending /\ Left(x) /\ After(x)
      BY <1>2, <1>3, <1>6 DEF Left, After
    <2> QED
      BY <1>1, <1>4, <1>5, <2>1, RequestSingle, RequestFirst, RequestOlder, RequestPiece
  <1> QED
    <2>1. x.pci = "flow" => FlowControlFrame(x)
      BY <1>4 DEF SingleFrame, FirstFrame, ConsecutiveFrame
    <2> QED
      BY <1>5, <1>6, <2>1

LEMMA RequestGranted ==
  ASSUME LinkType, DeliverInv, RequestSide, NEW f \in Transmitted, Sent(f), GetsFlow(f),
         UNCHANGED <<rxState, rxReady, handed, sends>>
  PROVE  RequestSide'
  <1>1. f = mailbox /\ mailbox' = NoFrame /\ UNCHANGED rxFifo
    <2>1. CASE mailbox # NoFrame /\ f = mailbox /\ mailbox' = NoFrame
      BY <2>1 DEF GetsFlow
    <2>2. CASE queue # <<>> /\ f = Head(queue)
      <3>1. f \in DataFrames
        BY <2>2, LinkFacts, Taken DEF EndpointType
      <3> QED
        BY <3>1 DEF DataFrames, GetsFlow
    <2> QED
      BY <2>1, <2>2 DEF Sent, GetsFlow
  <1>2. f.pci = "flow" /\ f.fs = "ok"
    BY <1>1 DEF GetsFlow, RequestSide, Granted
  <1>3. /\ ttx'.pos = ttx.pos /\ ttx'.size = ttx.size
        /\ ttx'.at = IF ttx.at = "flow" THEN "block" ELSE ttx.at
    <2>1. CASE ttx.at = "flow"
      <3>1. ttx' = [ttx EXCEPT !.at = "block", !.left = f.bs]
        BY <1>2, <2>1 DEF GetsFlow
      <3> QED
        BY <2>1, <3>1, LinkFacts DEF Senders
    <2>2. CASE ttx.at # "flow"
      BY <2>2 DEF GetsFlow
    <2> QED
      BY <2>1, <2>2
  <1>4. Pending' = Pending /\ Reached' = Reached
    BY <1>1 DEF Pending, Reached, NumberOf
  <1>5. Arrives'
    BY <1>3, <1>4 DEF RequestSide, Arrives, AllThere, SentSoFar, Assembled, Travels, Buffered
  <1>6. Granted'
    <2>1. mailbox'.pci # "flow"
      BY <1>1 DEF NoFrame
    <2> QED
      BY <1>3, <2>1 DEF RequestSide, Granted
  <1> QED
    BY <1>5, <1>6 DEF RequestSide

LEMMA RequestToTester ==
  ASSUME LinkType, DeliverInv, RequestSide, ToTester
  PROVE  RequestSide'
  <1>1. PICK f \in Transmitted : Sent(f) /\ TesterGets(f)
    BY DEF ToTester
  <1>2. UNCHANGED <<rxState, rxReady, handed, sends>> /\ f \in Frames
    BY <1>1, LinkFacts, SentType DEF ToTester, TesterGets, taskVars
  <1>3. CASE GetsFlow(f)
    BY <1>1, <1>2, <1>3, RequestGranted
  <1>4. CASE GetsSingle(f) \/ GetsFirst(f) \/ GetsConsecutive(f)
    <2>1. UNCHANGED ttx /\ Pending' = Pending
      BY <1>2, <1>4, TesterReplies
    <2>2. Reached' = Reached
      BY <1>2 DEF Reached, NumberOf
    <2>3. f.pci # "flow"
      BY <1>4 DEF GetsSingle, GetsFirst, GetsConsecutive
    <2>4. mailbox' = mailbox \/ (mailbox = f /\ mailbox' = NoFrame)
      BY <1>1 DEF Sent
    <2>5. Offering => mailbox' = mailbox
      BY <2>3, <2>4 DEF Offering
    <2>6. mailbox'.pci = "flow" => mailbox' = mailbox
      BY <2>4 DEF NoFrame
    <2> QED
      BY <1>2, <2>1, <2>2, <2>5, <2>6, RequestKept DEF Offering
  <1> QED
    BY <1>1, <1>3, <1>4 DEF TesterGets

\* A tester whose frames all arrive never waits in vain for flow control.
LEMMA NoVainWait ==
  ASSUME LinkType, DeliverInv, RequestSide, Quiet
  PROVE  ttx.at \notin {"flow", "refused"}
  <1> SUFFICES ASSUME ttx.at = "flow"  PROVE FALSE
    BY DEF RequestSide, Granted
  <1>1. mailbox = NoFrame /\ Pending = {}
    <2>1. rxFifo = <<>> /\ mailbox = NoFrame
      BY DEF Quiet, Transmitted
    <2>2. Len(rxFifo) = 0
      BY <2>1
    <2> QED
      BY <2>1, <2>2 DEF Pending
  <1>2. BlockComes
    BY <1>1 DEF RequestSide, Granted, FirstComes, Offering, NoFrame
  <1>3. Reached < sends /\ ttx.pos \in Nat \ {0}
    BY LinkFacts DEF DeliverInv, Sending, Begun
  <1>4. PICK m \in Nat \ {0}, size \in Nat \ {0} : AllThere(m, size)
    BY <1>3 DEF RequestSide, Arrives
  <1>5. Assembled(ttx.pos)
    <2>1. ttx.pos \in 1 .. m
      BY <1>3, <1>4 DEF AllThere, SentSoFar
    <2> QED
      BY <1>1, <1>4, <2>1 DEF AllThere, Travels
  <1>6. Len(rxState.buf) \in Nat
    BY <1>2, RxFacts DEF DeliverInv, BlockComes
  <1> QED
    BY <1>2, <1>3, <1>5, <1>6 DEF Assembled, BlockComes

LEMMA ReachedTaken ==
  ASSUME LinkType, DeliverInv, TakeCan
  PROVE  Reached' = Reached
  <1>1. /\ rxReady \in Seq(Pieces) /\ rxReady # <<>> /\ handed' = rxReady /\ rxReady' = <<>>
        /\ rxReady = Payload(rxReady[1][1], Len(rxReady))
    BY LinkFacts DEF TakeCan, NoPayload, DeliverInv, Delivered
  <1>2. Len(rxReady) \in Nat \ {0} /\ rxReady[1] \in Pieces
    BY <1>1, Taken
  <1>3. rxReady[1][1] \in Nat
    BY <1>2 DEF Pieces
  <1>4. NumberOf(rxReady) = rxReady[1][1]
    BY <1>1, <1>2, <1>3, PayloadNumber
  <1>5. NumberOf(handed)' = NumberOf(rxReady)
    BY <1>1 DEF NumberOf
  <1> QED
    BY <1>1, <1>4, <1>5 DEF Reached

\* The task's steps leave the requests that come after its own alone.
LEMMA RequestBoard ==
  ASSUME LinkType, DeliverInv, RequestSide, Board, ~refused'
  PROVE  RequestSide'
  <1>1. UNCHANGED <<rxFifo, sends, ttx, rxState>>
    BY DEF Board, testerVars, TakeCan, TakeUsb, AnswerCan, AnswerUsb, UsbWrite, Replied,
           WritePayload, FlowOk, FlowWait, FlowReject, SendConsecutive, Release, FlowTimeout, isotpVars
  <1>2. Pending' = Pending
    BY <1>1 DEF Pending
  <1>3. CASE TakeCan
    <2>1. Reached' = Reached /\ UNCHANGED mailbox
      BY <1>3, ReachedTaken DEF TakeCan
    <2> QED
      BY <1>1, <1>2, <2>1, RequestKept DEF Offering
  <1>4. CASE ~TakeCan
    <2>1. UNCHANGED <<rxReady, handed>>
      BY <1>4 DEF Board, TakeUsb, AnswerCan, AnswerUsb, UsbWrite, Replied, WritePayload, FlowOk,
                  FlowWait, FlowReject, SendConsecutive, Release, FlowTimeout, isotpVars, taskVars
    <2>2. Reached' = Reached
      BY <2>1 DEF Reached, NumberOf
    <2>3. CASE AnswerCan
      <3>1. PICK size \in ReplySizes : WritePayload(job.of, size)
        BY <2>3 DEF AnswerCan
      <3>2. mailbox = NoFrame /\ mailbox' = FrameOf(job.of, 1, size)
        BY <3>1 DEF WritePayload
      <3>3. FrameOf(job.of, 1, size) \in DataFrames
        <4>1. job.of \in Nat /\ size \in Nat
          BY Params DEF LinkType, TaskType
        <4> QED
          BY <4>1, FrameType
      <3>4. mailbox.pci = "none" /\ mailbox'.pci # "flow"
        BY <3>2, <3>3 DEF NoFrame, DataFrames
      <3> QED
        BY <1>1, <1>2, <2>2, <3>4, RequestKept DEF Offering
    <2>4. CASE ~AnswerCan
      <3>1. UNCHANGED mailbox
        BY <1>4, <2>4 DEF Board, TakeUsb, AnswerUsb, UsbWrite, Replied, FlowOk, FlowWait, FlowReject,
                          SendConsecutive, Release, FlowTimeout, isotpVars
      <3> QED
        BY <1>1, <1>2, <2>2, <3>1, RequestKept DEF Offering
    <2> QED
      BY <2>3, <2>4
  <1> QED
    BY <1>3, <1>4

LEMMA RequestTester ==
  ASSUME LinkType, DeliverInv, RequestSide, Tester
  PROVE  RequestSide'
  <1>1. UNCHANGED <<rxState, rxReady, handed, mailbox>>
    BY DEF Tester, isotpVars, taskVars
  <1>2. CASE Ask
    BY <1>1, <1>2, RequestAsked
  <1>3. CASE SendBlock
    BY <1>1, <1>3, RequestSent
  <1>4. ASSUME UNCHANGED <<sends, ttx>>, Pending' = Pending  PROVE RequestSide'
    <2>1. Reached' = Reached
      BY <1>1 DEF Reached, NumberOf
    <2> QED
      BY <1>1, <1>4, <2>1, RequestKept DEF Offering
  <1>5. CASE Resume
    <2>1. FlowControl("ok", trx.bs) \in FlowFrames
      <3>1. trx.bs \in Nat
        BY DEF LinkType, TesterType
      <3> QED
        BY <3>1, FlowType
    <2>2. Pending' = Pending
      BY <1>5, <2>1, LinkFacts, PendingFlow DEF Resume, DeliverInv
    <2> QED
      BY <1>4, <1>5, <2>2 DEF Resume
  <1>6. CASE TesterTimeout
    <2>1. UNCHANGED <<rxFifo, sends, ttx>>
      BY <1>6, NoVainWait DEF TesterTimeout
    <2> QED
      BY <1>4, <2>1 DEF Pending
  <1> QED
    BY <1>2, <1>3, <1>5, <1>6 DEF Tester

LEMMA RequestStep ==
  ASSUME LinkType, DeliverInv, RequestSide, [DiagNext]_diagVars, Clean'
  PROVE  RequestSide'
  <1>1. CASE Board
    BY <1>1, RequestBoard DEF Clean
  <1>2. CASE ToTester
    BY <1>2, RequestToTester
  <1>3. CASE ToBoard
    BY <1>3, RequestToBoard DEF Clean
  <1>4. CASE Lose
    BY <1>4, LinkFacts DEF Lose, Clean, LinkType, BoundsType
  <1>5. CASE Tester
    BY <1>5, RequestTester
  <1>6. CASE Host \/ UNCHANGED diagVars
    <2>1. UNCHANGED <<rxFifo, rxState, rxReady, mailbox, handed, sends, ttx>>
      BY <1>6 DEF Host, diagVars, isotpVars, testerVars, taskVars
    <2>2. Pending' = Pending /\ Reached' = Reached
      BY <2>1 DEF Pending, Reached, NumberOf
    <2> QED
      BY <2>1, <2>2, RequestKept DEF Offering
  <1> QED
    BY <1>1, <1>2, <1>3, <1>4, <1>5, <1>6 DEF DiagNext

-----------------------------------------------------------------------------
(* The way of an answer *)

\* Steps that leave the answer where it is.
LEMMA ReplyKept ==
  ASSUME ReplySide, UNCHANGED <<job, handed, got, tx, queue>>,
         UNCHANGED <<trx.buf, trx.size, trx.bs, trx.left>>, IsData(mailbox)' = IsData(mailbox),
         Awaited => Awaited', Rejected => Rejected'
  PROVE  ReplySide'
  <1>1. InStep' <=> InStep
    BY DEF InStep, Answer, LastGot, Allowed
  <1>2. \A n : Has(n)' <=> Has(n)
    BY DEF Has, NumberOf
  <1>3. Replying => Replying'
    BY <1>1, <1>2 DEF Replying
  <1>4. Between' <=> Between
    BY DEF Between
  <1>5. NumberOf(handed)' = NumberOf(handed)
    BY DEF NumberOf
  <1>6. tx.at = "flow" => (IsData(mailbox) \/ queue # <<>> \/ Awaited)'
    BY DEF ReplySide
  <1> QED
    BY <1>2, <1>3, <1>4, <1>5, <1>6 DEF ReplySide

\* What the tester sends is still on its way.
LEMMA AwaitedMore ==
  ASSUME FifoTyped, NEW x \in Frames, rxFifo' = Append(rxFifo, x), UNCHANGED cts,
         trx.at = "pause" => trx'.at = "pause" \/ (x.pci = "flow" /\ x.fs = "ok")
  PROVE  /\ Awaited => Awaited'
         /\ Rejected => Rejected'
         /\ x.pci = "flow" /\ x.fs # "wait" => Awaited'
         /\ x.pci = "flow" /\ x.fs = "reject" => Rejected'
  <1>1. /\ \A i \in Flows : rxFifo'[i] = rxFifo[i]
        /\ rxFifo'[Len(rxFifo) + 1] = x
        /\ x.pci # "flow" => Flows' = Flows
        /\ x.pci = "flow" => Flows' = Flows \cup {Len(rxFifo) + 1}
    BY FlowsMore
  <1>2. Flows \subseteq Flows'
    BY <1>1
  <1>3. x.pci = "flow" => Len(rxFifo) + 1 \in Flows'
    BY <1>1
  <1>4. x.pci = "flow" /\ x.fs # "wait" => Awaited'
    BY <1>1, <1>3 DEF Awaited, Decided
  <1>5. x.pci = "flow" /\ x.fs = "reject" => Rejected'
    BY <1>1, <1>3 DEF Rejected
  <1>6. Rejected => Rejected'
    BY <1>1, <1>2 DEF Rejected
  <1>7. Awaited => Awaited'
    <2>1. (\E i \in Flows : Decided(rxFifo[i])) => \E i \in Flows' : Decided(rxFifo'[i])
      BY <1>1, <1>2
    <2>2. trx.at = "pause" => Awaited'
      BY <1>4 DEF Awaited
    <2> QED
      BY <2>1, <2>2 DEF Awaited, Decided
  <1> QED
    BY <1>4, <1>5, <1>6, <1>7

\* What the interrupt takes from the channel waits for the task.
LEMMA FlowsLeft ==
  ASSUME FifoTyped, rxFifo # <<>>, rxFifo' = Tail(rxFifo), NEW i \in Flows
  PROVE  \/ i = 1 /\ rxFifo[i] = Head(rxFifo) /\ Head(rxFifo).pci = "flow"
         \/ i - 1 \in Flows' /\ rxFifo'[i - 1] = rxFifo[i]
  <1>1. /\ Head(rxFifo) = rxFifo[1] /\ Len(rxFifo) \in Nat \ {0} /\ Len(rxFifo') = Len(rxFifo) - 1
        /\ \A j \in 1 .. Len(rxFifo') : rxFifo'[j] = rxFifo[j + 1]
    BY Taken DEF FifoTyped
  <1>2. i \in 1 .. Len(rxFifo) /\ rxFifo[i].pci = "flow"
    BY DEF Flows
  <1>3. CASE i = 1
    BY <1>1, <1>2, <1>3
  <1>4. CASE i # 1
    <2>1. i - 1 \in 1 .. Len(rxFifo') /\ (i - 1) + 1 = i
      BY <1>1, <1>2, <1>4
    <2>2. rxFifo'[i - 1] = rxFifo[i]
      BY <1>1, <2>1
    <2> QED
      BY <1>2, <2>1, <2>2 DEF Flows
  <1> QED
    BY <1>3, <1>4

LEMMA AwaitedTaken ==
  ASSUME LinkType, Released, rxFifo # <<>>, rxFifo' = Tail(rxFifo), UNCHANGED trx,
         IF Head(rxFifo).pci = "flow" THEN cts' = Head(rxFifo) ELSE UNCHANGED cts
  PROVE  (Awaited => Awaited') /\ (Rejected => Rejected')
  <1>1. FifoTyped /\ Head(rxFifo) \in Frames
    BY LinkFacts, Taken DEF FifoTyped
  <1>2. Head(rxFifo) # NoFrame
    BY <1>1, FrameKinds
  <1>3. Head(rxFifo).pci = "flow" => 1 \in Flows /\ rxFifo[1] = Head(rxFifo)
    BY <1>1, FlowsTaken
  <1>4. cts # NoFrame /\ Decided(cts) => UNCHANGED cts
    BY <1>3 DEF Released, Decided
  <1>5. cts # NoFrame /\ cts.fs = "reject" => UNCHANGED cts
    BY <1>4 DEF Decided
  <1>6. ASSUME NEW i \in Flows, Decided(rxFifo[i])  PROVE Awaited'
    <2>1. CASE i = 1 /\ rxFifo[i] = Head(rxFifo) /\ Head(rxFifo).pci = "flow"
      BY <1>2, <1>6, <2>1 DEF Awaited, Decided
    <2>2. CASE i - 1 \in Flows' /\ rxFifo'[i - 1] = rxFifo[i]
      BY <1>6, <2>2 DEF Awaited, Decided
    <2> QED
      BY <1>1, <2>1, <2>2, FlowsLeft
  <1>7. ASSUME NEW i \in Flows, rxFifo[i].fs = "reject"  PROVE Rejected'
    <2>1. CASE i = 1 /\ rxFifo[i] = Head(rxFifo) /\ Head(rxFifo).pci = "flow"
      BY <1>2, <1>7, <2>1 DEF Rejected
    <2>2. CASE i - 1 \in Flows' /\ rxFifo'[i - 1] = rxFifo[i]
      BY <1>7, <2>2 DEF Rejected
    <2> QED
      BY <1>1, <2>1, <2>2, FlowsLeft
  <1>8. Awaited => Awaited'
    BY <1>4, <1>6 DEF Awaited, Decided
  <1>9. Rejected => Rejected'
    BY <1>5, <1>7 DEF Rejected
  <1> QED
    BY <1>8, <1>9

LEMMA ReplyToBoard ==
  ASSUME LinkType, AnswerInv, ReplySide, ToBoard
  PROVE  ReplySide'
  <1>1. /\ rxFifo # <<>> /\ rxFifo' = Tail(rxFifo) /\ OnFrameRx(Head(rxFifo))
        /\ UNCHANGED <<job, handed, got, trx>> /\ Released
    BY DEF ToBoard, taskVars, AnswerInv
  <1>2. UNCHANGED <<tx, queue>>
    BY <1>1 DEF OnFrameRx, SingleFrame, FirstFrame, ConsecutiveFrame, FlowControlFrame
  <1>3. IF Head(rxFifo).pci = "flow" THEN cts' = Head(rxFifo) ELSE UNCHANGED cts
    BY <1>1 DEF OnFrameRx, SingleFrame, FirstFrame, ConsecutiveFrame, FlowControlFrame
  <1>4. mailbox' = mailbox \/ (mailbox = NoFrame /\ mailbox'.pci = "flow")
    <2>1. mailbox' = mailbox \/ (mailbox = NoFrame /\ \E bs : mailbox' = FlowControl("ok", bs))
      BY <1>1 DEF OnFrameRx, SingleFrame, FirstFrame, ConsecutiveFrame, FlowControlFrame, CanWrite
    <2> QED
      BY <2>1 DEF FlowControl
  <1>5. IsData(mailbox)' = IsData(mailbox)
    BY <1>4 DEF IsData, NoFrame
  <1> QED
    BY <1>1, <1>2, <1>3, <1>5, AwaitedTaken, ReplyKept

\* While frames of an answer are passed on, the tester follows.
LEMMA InTransit ==
  ASSUME LinkType, AnswerInv, ReplySide, queue # <<>> \/ tx.at = "block"
  PROVE  InStep /\ ~IsData(mailbox) /\ job.at = "reply"
  <1>1. PICK end \in Nat, size \in Nat : Passed(end, size)
    BY DEF AnswerInv
  <1>2. queue = <<>> => tx # NoTx
    BY TxAt
  <1>3. job.at = "reply" /\ ~IsData(mailbox)
    BY <1>1, <1>2 DEF Passed, IsData
  <1>4. ~Rejected
    BY NotOnItsWay DEF AnswerInv, Rejected
  <1> QED
    BY <1>2, <1>3, <1>4 DEF ReplySide, Replying

LEMMA NoVainAnswer ==
  ASSUME LinkType, AnswerInv, ReplySide, Quiet
  PROVE  tx.at # "flow" /\ trx.at # "rx"
  <1>1. /\ Flows = {} /\ mailbox = NoFrame /\ queue = <<>> /\ trx.at # "pause" /\ ~IsData(mailbox)
        /\ tx.at # "block" /\ (tx.at = "flow" => cts = NoFrame)
    <2>1. /\ rxFifo = <<>> /\ mailbox = NoFrame /\ queue = <<>>
      BY DEF Quiet, Transmitted
    <2>2. Len(rxFifo) = 0
      BY <2>1
    <2> QED
      BY <2>1, <2>2, DataKinds DEF Quiet, Flows
  <1>2. tx.at # "flow"
    BY <1>1 DEF ReplySide, Awaited
  <1>3. ASSUME trx.at = "rx"  PROVE FALSE
    <2>1. trx.buf # <<>>
      BY <1>3 DEF AnswerInv, Receiving, NotReceiving
    <2>2. job.at = "reply" /\ ~Has(job.of) /\ job.at \in {"select", "process", "reply"}
      BY <2>1 DEF ReplySide, Has, Between, LinkType, TaskType
    <2>3. InStep
      BY <1>1, <2>1, <2>2 DEF ReplySide, Replying, Has
    <2>4. tx = NoTx
      BY <1>1, <1>2, TxAt
    <2>5. Len(queue) = 0 /\ Len(trx.buf) \in Nat /\ Len(trx.buf) < trx.size
      BY <1>1, <2>1, AnswerTypes, TrxFacts DEF AnswerInv
    <2> QED
      BY <2>3, <2>4, <2>5 DEF InStep
  <1> QED
    BY <1>2, <1>3

LEMMA ReplyTask ==
  ASSUME setting.waits, LinkType, DeliverInv, AnswerInv, ReplySide, ~refused',
         UNCHANGED testerVars, TakeCan \/ TakeUsb \/ AnswerCan \/ AnswerUsb \/ Replied
  PROVE  ReplySide'
  <1>1. /\ UNCHANGED <<trx, got, rxFifo, queue, cts>>
    BY DEF testerVars, TakeCan, TakeUsb, AnswerCan, AnswerUsb, UsbWrite, Replied, WritePayload,
           isotpVars
  <1>2. (\A n : Has(n)' <=> Has(n)) /\ (Awaited' <=> Awaited)
    BY <1>1 DEF Has, NumberOf, Awaited, Flows
  <1>3. CASE TakeCan
    <2>1. /\ job.at = "select" /\ job'.at = "process" /\ job'.via = "can" /\ job'.of = rxReady[1][1]
          /\ handed' = rxReady /\ rxReady # <<>> /\ UNCHANGED <<tx, mailbox>>
      BY <1>3 DEF TakeCan, NoPayload
    <2>2. NumberOf(handed)' = rxReady[1][1]
      <3>1. rxReady = Payload(rxReady[1][1], Len(rxReady))
        BY <2>1 DEF DeliverInv, Delivered
      <3>2. NumberOf(rxReady) = rxReady[1][1]
        BY <2>1, <3>1 DEF NumberOf
      <3> QED
        BY <2>1, <3>2 DEF NumberOf
    <2>3. trx.buf = <<>>
      BY <2>1 DEF ReplySide, Between, Has
    <2>4. tx.at = "flow" => IsData(mailbox)' \/ queue' # <<>> \/ Awaited'
      BY <1>1, <1>2, <2>1 DEF ReplySide, IsData
    <2> QED
      BY <1>1, <2>1, <2>2, <2>3, <2>4 DEF ReplySide, Between
  <1>4. CASE TakeUsb
    <2>1. /\ job.at = "select" /\ job'.at = "process" /\ job'.via = "usb"
          /\ UNCHANGED <<handed, tx, mailbox>>
      BY <1>4 DEF TakeUsb, isotpVars
    <2>2. Has(NumberOf(handed)) /\ NumberOf(handed)' = NumberOf(handed)
      BY <2>1 DEF ReplySide, Between, NumberOf
    <2>3. tx.at = "flow" => IsData(mailbox)' \/ queue' # <<>> \/ Awaited'
      BY <1>1, <1>2, <2>1 DEF ReplySide, IsData
    <2> QED
      BY <1>1, <1>2, <2>1, <2>2, <2>3 DEF ReplySide, Between, Has
  <1>5. CASE AnswerCan
    <2>1. PICK size \in ReplySizes : WritePayload(job.of, size)
      BY <1>5 DEF AnswerCan
    <2>2. mailbox' = FrameOf(job.of, 1, size)
      BY <2>1 DEF WritePayload
    <2>3. FrameOf(job.of, 1, size) \in DataFrames
      <3>1. job.of \in Nat /\ size \in Nat
        BY Params DEF LinkType, TaskType
      <3> QED
        BY <3>1, FrameType
    <2>4. IsData(mailbox)'
      BY <2>2, <2>3, DataKinds DEF IsData
    <2>5. /\ job.at = "process" /\ job.via = "can" /\ job'.at = "reply" /\ job'.of = job.of
          /\ UNCHANGED handed
      BY <1>5 DEF AnswerCan, LinkType, TaskType
    <2>6. Replying'
      BY <1>1, <2>4, <2>5 DEF ReplySide, Replying
    <2>7. NumberOf(handed)' = NumberOf(handed)
      BY <2>5 DEF NumberOf
    <2> QED
      BY <2>4, <2>5, <2>6, <2>7 DEF ReplySide, Between
  <1>6. CASE AnswerUsb
    <2>1. job.at = "process" /\ job.via = "usb" /\ job' = Select /\ UNCHANGED <<handed, tx, mailbox>>
      BY <1>6 DEF AnswerUsb, isotpVars
    <2>2. Has(NumberOf(handed)) /\ NumberOf(handed)' = NumberOf(handed)
      BY <2>1 DEF ReplySide, Between, NumberOf
    <2>3. tx.at = "flow" => IsData(mailbox)' \/ queue' # <<>> \/ Awaited'
      BY <1>1, <1>2, <2>1 DEF ReplySide, IsData
    <2> QED
      BY <1>1, <1>2, <2>1, <2>2, <2>3 DEF ReplySide, Between, Select
  <1>7. CASE Replied
    <2>1. /\ job.at = "reply" /\ job' = Select /\ tx = NoTx /\ Transmitted = {}
          /\ UNCHANGED <<handed, tx, mailbox>>
      BY <1>7 DEF Replied, Writing, isotpVars
    <2>2. mailbox = NoFrame /\ queue = <<>> /\ ~IsData(mailbox) /\ tx.at = "none"
      BY <2>1, DataKinds, TxAt DEF Transmitted
    <2>3. ~InStep
      <3>1. Len(queue) = 0
        BY <2>2
      <3>2. trx.buf # <<>> => Len(trx.buf) < trx.size /\ Len(trx.buf) \in Nat
        BY TrxFacts DEF AnswerInv
      <3> QED
        BY <2>1, <3>1, <3>2 DEF InStep
    <2>4. ~Rejected
      BY <2>2, NotOnItsWay DEF AnswerInv, Rejected
    <2>5. Has(job.of) /\ job.via = "can"
      BY <2>1, <2>2, <2>3, <2>4 DEF ReplySide, Replying, AnswerInv, Answering
    <2>6. Has(NumberOf(handed))
      BY <2>1, <2>5 DEF ReplySide
    <2>7. NumberOf(handed)' = NumberOf(handed)
      BY <2>1 DEF NumberOf
    <2> QED
      BY <1>2, <2>1, <2>2, <2>6, <2>7 DEF ReplySide, Select
  <1> QED
    BY <1>3, <1>4, <1>5, <1>6, <1>7

\* The tester allows a block, or asks the task to wait.
LEMMA ReplyAllowed ==
  ASSUME LinkType, AnswerInv, ReplySide, FlowOk, UNCHANGED <<job, handed, trx, got, rxFifo>>
  PROVE  ReplySide'
  <1>1. /\ tx.at = "flow" /\ cts # NoFrame /\ cts.fs = "ok" /\ UNCHANGED <<queue, mailbox>>
        /\ tx' = [tx EXCEPT !.at = "block", !.left = cts.bs]
    BY DEF FlowOk, AtFlow
  <1>2. /\ queue = <<>> /\ ~IsData(mailbox) /\ cts.bs = trx.bs /\ Agreed
    BY <1>1 DEF AnswerInv, Released, Final
  <1>3. tx # NoTx /\ tx \in Writes /\ cts.bs \in Nat
    BY <1>1, TxAt, AnswerTypes DEF FlowFrames
  <1>4. tx' # NoTx /\ tx'.at = "block" /\ tx'.left = cts.bs /\ tx'.pos = tx.pos
    <2>1. tx' \in Writes /\ tx'.at = "block" /\ tx'.left = cts.bs /\ tx'.pos = tx.pos
      BY <1>1, <1>3 DEF Writes
    <2> QED
      BY <2>1 DEF NoTx
  <1>5. PICK end \in Nat, size \in Nat : Passed(end, size)
    BY DEF AnswerInv
  <1>6. job.at = "reply" /\ tx.of = job.of
    BY <1>3, <1>5 DEF Passed
  <1>7. InStep'
    <2>1. Answer' = Answer /\ LastGot' = LastGot /\ Allowed' = cts.bs
      BY <1>4 DEF Answer, LastGot, Allowed
    <2>2. Len(queue') = 0 /\ Len(trx.buf) \in Nat /\ trx.bs \in Nat
      BY <1>1, <1>2, AnswerTypes
    <2> QED
      BY <1>1, <1>2, <1>3, <1>4, <1>6, <2>1, <2>2 DEF InStep, Agreed
  <1>8. Replying'
    BY <1>1, <1>2, <1>7 DEF Replying, IsData
  <1>9. NumberOf(handed)' = NumberOf(handed)
    BY DEF NumberOf
  <1> QED
    BY <1>4, <1>6, <1>8, <1>9 DEF ReplySide, Between

LEMMA ReplyWaits ==
  ASSUME LinkType, AnswerInv, ReplySide, FlowWait, UNCHANGED <<job, handed, trx, got, rxFifo>>
  PROVE  ReplySide'
  <1>1. /\ cts # NoFrame /\ cts.fs = "wait" /\ cts' = NoFrame /\ UNCHANGED <<queue, mailbox, tx>>
    BY DEF FlowWait
  <1>2. Flows' = Flows
    BY DEF Flows
  <1>3. Awaited => Awaited'
    BY <1>1, <1>2 DEF Awaited, Decided
  <1>4. Rejected => Rejected'
    BY <1>1, <1>2 DEF Rejected
  <1> QED
    BY <1>1, <1>3, <1>4, ReplyKept DEF IsData

\* The task sends the next frame of a block.
LEMMA ReplySends ==
  ASSUME LinkType, AnswerInv, ReplySide, SendConsecutive, ~refused', Numbered,
         UNCHANGED <<job, handed, trx, got, rxFifo>>
  PROVE  ReplySide'
  <1>1. /\ tx.at = "block" /\ queue' = Append(queue, FrameOf(tx.of, tx.pos + 1, tx.size))
        /\ tx' = (IF tx.pos + 1 = tx.size THEN NoTx ELSE AfterFrame) /\ UNCHANGED <<mailbox, cts>>
    BY DEF SendConsecutive
  <1>2. /\ tx # NoTx /\ tx.of \in Nat /\ tx.pos \in Nat /\ tx.size \in Nat /\ tx.left \in Nat
        /\ queue \in Seq(DataFrames) /\ Len(queue) \in Nat /\ Endpoint /\ trx.left \in Nat
        /\ Len(trx.buf) \in Nat /\ trx.bs \in Nat
    BY <1>1, TxAt, AnswerTypes
  <1>3. Len(queue') = Len(queue) + 1 /\ queue' # <<>>
    <2>1. tx.pos + 1 \in Nat \ {0}
      BY <1>2
    <2>2. FrameOf(tx.of, tx.pos + 1, tx.size) \in DataFrames
      BY <1>2, <2>1, FrameType
    <2> QED
      BY <1>1, <1>2, <2>2, Appended
  <1>4. InStep /\ ~IsData(mailbox) /\ job.at = "reply"
    BY <1>1, InTransit
  <1>5. PICK end \in Nat, size \in Nat : Passed(end, size) /\ Aligned(end, size)
    BY DEF AnswerInv
  <1>6. /\ trx.size = tx.size /\ Len(trx.buf) + Len(queue) = tx.pos
        /\ trx.bs = 0 => tx.left = 0
        /\ trx.bs # 0 => tx.left > 0 /\ Len(queue) + tx.left = trx.left
    BY <1>1, <1>2, <1>4, <1>5 DEF InStep, Passed, Aligned, Allowed
  <1>7. Answer' = Answer /\ LastGot' = LastGot
    BY DEF Answer, LastGot
  <1>12. Len(trx.buf) + Len(queue') = tx.pos + 1
    <2> DEFINE a == Len(trx.buf)
               b == Len(queue)
               c == tx.pos
    <2>1. a \in Nat /\ b \in Nat /\ c \in Nat /\ a + b = c
      BY <1>2, <1>6
    <2>2. Len(queue') = b + 1
      BY <1>3
    <2> HIDE DEF a, b, c
    <2>3. a + (b + 1) = c + 1
      BY <2>1
    <2> QED
      BY <2>2, <2>3 DEF a, b, c
  <1>8. InStep'
    <2>1. CASE tx.pos + 1 = tx.size
      <3>1. tx' = NoTx
        BY <1>1, <2>1
      <3>2. Len(trx.buf) + Len(queue') = trx.size
        BY <1>6, <1>12, <2>1
      <3> QED
        BY <1>4, <1>7, <3>1, <3>2 DEF InStep
    <2>2. CASE tx.pos + 1 # tx.size
      <3>1. /\ tx' # NoTx /\ tx'.pos = tx.pos + 1
            /\ tx'.at = (IF tx.left = 1 THEN "flow" ELSE "block")
            /\ tx'.left = (IF tx.left = 0 THEN 0 ELSE tx.left - 1)
        BY <1>1, <1>2, <2>2, AfterFrameFacts
      <3>2. Len(trx.buf) + Len(queue') = tx'.pos
        BY <1>12, <3>1
      <3>3. trx.bs = 0 => tx'.at = "block"
        BY <1>6, <3>1
      <3>4. trx.bs # 0 => Len(queue') + Allowed' = trx.left
        <4> SUFFICES ASSUME trx.bs # 0  PROVE Len(queue') + Allowed' = trx.left
          OBVIOUS
        <4>1. tx.left > 0 /\ Len(queue) + tx.left = trx.left
          BY <1>6
        <4>2. Allowed' = tx.left - 1
          BY <1>2, <3>1, <4>1 DEF Allowed
        <4>3. \A a, b, c \in Nat : a + b = c => (a + 1) + (b - 1) = c
          OBVIOUS
        <4> QED
          BY <1>2, <1>3, <4>1, <4>2, <4>3
      <3> QED
        BY <1>4, <1>7, <3>1, <3>2, <3>3, <3>4 DEF InStep
    <2> QED
      BY <2>1, <2>2
  <1>9. Replying'
    BY <1>1, <1>4, <1>8 DEF Replying, IsData
  <1>10. NumberOf(handed)' = NumberOf(handed)
    BY DEF NumberOf
  <1> QED
    BY <1>3, <1>4, <1>9, <1>10 DEF ReplySide, Between

LEMMA ReplyBoard ==
  ASSUME setting.waits, LinkType, DeliverInv, AnswerInv, Numbered, ReplySide, Board, ~refused'
  PROVE  ReplySide'
  <1>1. UNCHANGED testerVars
    BY DEF Board
  <1>2. UNCHANGED <<trx, got, rxFifo>>
    BY <1>1 DEF testerVars
  <1>3. CASE TakeCan \/ TakeUsb \/ AnswerCan \/ AnswerUsb \/ Replied
    BY <1>1, <1>3, ReplyTask
  <1>4. CASE (FlowOk \/ FlowWait \/ SendConsecutive) /\ UNCHANGED taskVars
    BY <1>2, <1>4, ReplyAllowed, ReplyWaits, ReplySends DEF taskVars
  <1>5. CASE (Release \/ (Poll /\ UNCHANGED isotpVars)) /\ UNCHANGED taskVars
    <2>1. UNCHANGED <<job, handed, tx, queue, mailbox, cts>>
      BY <1>5 DEF Release, isotpVars, taskVars
    <2>2. (Awaited => Awaited') /\ (Rejected => Rejected')
      BY <1>2, <2>1 DEF Awaited, Rejected, Flows
    <2> QED
      BY <1>2, <2>1, <2>2, ReplyKept DEF IsData
  <1>6. ~FlowReject
    BY DEF FlowReject
  <1>7. ~(Quiet /\ FlowTimeout)
    BY NoVainAnswer DEF FlowTimeout, AtFlow
  <1> QED
    BY <1>3, <1>4, <1>5, <1>6, <1>7 DEF Board

\* What was lost or refused remains so.
LEMMA CleanBefore ==
  ASSUME LinkType, [DiagNext]_diagVars, Clean'
  PROVE  Clean
  <1>1. CASE Board
    BY <1>1 DEF Clean, Board, TakeCan, TakeUsb, AnswerCan, AnswerUsb, Replied, WritePayload, isotpVars,
       FlowOk, FlowWait, FlowReject, SendConsecutive, Release, FlowTimeout
  <1>2. CASE ToTester
    BY <1>2 DEF Clean, ToTester
  <1>3. CASE ToBoard
    BY <1>3 DEF Clean, ToBoard, OnFrameRx, SingleFrame, FirstFrame, ConsecutiveFrame, FlowControlFrame
  <1>4. ~Lose
    <2>1. lost \in Nat
      BY DEF LinkType, BoundsType
    <2> QED
      BY <2>1 DEF Clean, Lose
  <1>5. CASE Tester \/ Host \/ UNCHANGED diagVars
    BY <1>5 DEF Clean, Tester, Host, diagVars, isotpVars
  <1> QED
    BY <1>1, <1>2, <1>3, <1>4, <1>5 DEF DiagNext

LEMMA NumberedStep ==
  ASSUME LinkType, Numbered, [DiagNext]_diagVars
  PROVE  Numbered'
  <1>1. queue \in Seq(DataFrames) /\ Len(queue) \in Nat
    BY AnswerTypes
  <1>2. CASE UNCHANGED queue
    BY <1>2 DEF Numbered
  <1>3. CASE queue # <<>> /\ queue' = Tail(queue)
    <2>1. /\ Len(queue) \in Nat \ {0} /\ Len(queue') = Len(queue) - 1
          /\ \A i \in 1 .. Len(queue') : queue'[i] = queue[i + 1]
      BY <1>1, <1>3, Taken
    <2>2. \A i \in 1 .. Len(queue') : i + 1 \in 1 .. Len(queue)
      BY <2>1
    <2> QED
      BY <2>1, <2>2 DEF Numbered
  <1>4. CASE SendConsecutive
    <2>1. CASE queue' = Append(queue, FrameOf(tx.of, tx.pos + 1, tx.size))
      <3> DEFINE x == FrameOf(tx.of, tx.pos + 1, tx.size)
      <3>1. tx # NoTx /\ tx.of \in Nat /\ tx.pos \in Nat /\ tx.size \in Nat
        BY <1>4, TxAt, AnswerTypes DEF SendConsecutive
      <3>2. tx.pos + 1 \in Nat \ {0}
        BY <3>1
      <3>3. x \in DataFrames
        BY <3>1, <3>2, FrameType
      <3>4. x.sn = (x.data[2] - 1) % SnMod
        BY DEF FrameOf, Frame
      <3> HIDE DEF x
      <3>5. /\ Len(queue') = Len(queue) + 1 /\ queue'[Len(queue) + 1] = x
            /\ \A i \in 1 .. Len(queue) : queue'[i] = queue[i]
        BY <1>1, <2>1, <3>3, Appended DEF x
      <3>6. \A i \in 1 .. Len(queue') : i \in 1 .. Len(queue) \/ i = Len(queue) + 1
        BY <1>1, <3>5
      <3> QED
        BY <3>4, <3>5, <3>6 DEF Numbered
    <2> QED
      BY <1>2, <1>4, <2>1 DEF SendConsecutive
  <1>5. CASE Board /\ ~SendConsecutive
    <2>1. UNCHANGED queue
      BY <1>5 DEF Board, TakeCan, TakeUsb, AnswerCan, AnswerUsb, Replied, WritePayload, isotpVars,
         FlowOk, FlowWait, FlowReject, Release, FlowTimeout
    <2> QED
      BY <1>2, <2>1
  <1>6. CASE ToTester \/ Lose
    BY <1>2, <1>3, <1>6 DEF ToTester, Lose, Sent
  <1>7. CASE ToBoard
    <2>1. UNCHANGED queue
      BY <1>7 DEF ToBoard, OnFrameRx, SingleFrame, FirstFrame, ConsecutiveFrame, FlowControlFrame
    <2> QED
      BY <1>2, <2>1
  <1>8. CASE Tester \/ Host \/ UNCHANGED diagVars
    <2>1. UNCHANGED queue
      BY <1>8 DEF Tester, Host, diagVars, isotpVars
    <2> QED
      BY <1>2, <2>1
  <1> QED
    BY <1>4, <1>5, <1>6, <1>7, <1>8 DEF DiagNext

\* The tester has an answer of one frame.
LEMMA ReplySingle ==
  ASSUME LinkType, AnswerInv, ReplySide, NEW f, Sent(f), GetsSingle(f),
         UNCHANGED <<job, handed, tx, cts>>
  PROVE  ReplySide'
  <1>1. PICK end \in Nat, size \in Nat : Passed(end, size)
    BY DEF AnswerInv
  <1>2. queue = <<>> \/ Head(queue).pci = "consecutive"
    BY <1>1, OldestPassed
  <1>3. f.pci = "single" /\ got' = <<f.data>> /\ trx' = NotReceiving /\ UNCHANGED rxFifo
    BY DEF GetsSingle
  <1>4. mailbox # NoFrame /\ f = mailbox /\ mailbox' = NoFrame /\ UNCHANGED queue
    BY <1>2, <1>3 DEF Sent
  <1>5. /\ IsData(mailbox) /\ f.data = <<job.of, 1>> /\ queue = <<>> /\ job.at = "reply"
        /\ tx = NoTx
    BY <1>1, <1>3, <1>4 DEF Passed, IsData
  <1>6. job.of \in Nat /\ tx.at = "none"
    BY <1>5, AnswerTypes, TxAt
  <1>7. ~IsData(mailbox)' /\ trx'.buf = <<>>
    BY <1>3, <1>4, DataKinds, NothingReceived
  <1>8. NumberOf(got)' = job.of
    <2>1. 1 \in Nat \ {0}
      OBVIOUS
    <2>2. got' = Payload(job.of, 1)
      BY <1>3, <1>5, <1>6, OnePiece
    <2>3. NumberOf(Payload(job.of, 1)) = job.of
      BY <1>6, <2>1, PayloadNumber
    <2> QED
      BY <2>2, <2>3 DEF NumberOf
  <1>9. Has(job.of)'
    BY <1>7, <1>8 DEF Has
  <1>10. Replying'
    BY <1>4, <1>5, <1>7, <1>9 DEF Replying
  <1>11. NumberOf(handed)' = NumberOf(handed)
    BY DEF NumberOf
  <1> QED
    BY <1>5, <1>6, <1>7, <1>10, <1>11 DEF ReplySide, Between

\* The tester has the first frame, and answers it.
LEMMA ReplyFirst ==
  ASSUME LinkType, AnswerInv, ReplySide, NEW f, Sent(f), GetsFirst(f),
         UNCHANGED <<job, handed, tx, cts>>
  PROVE  ReplySide'
  <1>1. PICK end \in Nat, size \in Nat : Passed(end, size)
    BY DEF AnswerInv
  <1>2. queue = <<>> \/ Head(queue).pci = "consecutive"
    BY <1>1, OldestPassed
  <1>3. f.pci = "first" /\ UNCHANGED got
    BY DEF GetsFirst
  <1>4. mailbox # NoFrame /\ f = mailbox /\ mailbox' = NoFrame /\ UNCHANGED queue
    BY <1>2, <1>3 DEF Sent
  <1>5. /\ IsData(mailbox) /\ f.data = <<job.of, 1>> /\ queue = <<>> /\ job.at = "reply"
        /\ f.size = size /\ end = 1 /\ tx.at = "flow"
    BY <1>1, <1>3, <1>4 DEF Passed, IsData
  <1>6. tx # NoTx /\ tx.of = job.of /\ tx.pos = 1 /\ tx.size = size
    <2>1. tx # NoTx
      BY <1>5, TxAt
    <2> QED
      BY <1>1, <1>5, <2>1 DEF Passed
  <1>7. cts = NoFrame /\ Flows = {} /\ FifoTyped /\ trx.at # "pause"
    BY <1>5, NotOnItsWay, AnswerTypes DEF AnswerInv
  <1>8. PICK bs \in TesterBs, fs \in {"ok", "wait", "reject"} :
          /\ rxFifo' = Append(rxFifo, FlowControl(fs, IF fs = "ok" THEN bs ELSE 0))
          /\ trx' = CASE fs = "reject" -> NotReceiving
                      [] OTHER -> [at |-> IF fs = "ok" THEN "rx" ELSE "pause",
                                   size |-> f.size, left |-> bs, bs |-> bs, buf |-> <<f.data>>]
    BY DEF GetsFirst
  <1> DEFINE y == IF fs = "ok" THEN bs ELSE 0
             g == FlowControl(fs, y)
  <1>9. y \in Nat /\ bs \in Nat
    BY Params
  <1>10. rxFifo' = Append(rxFifo, g)
    BY <1>8
  <1> HIDE DEF y
  <1>11. g \in Frames /\ g.pci = "flow" /\ g.fs = fs
    BY <1>9, FlowType
  <1> HIDE DEF g
  <1>12. (fs # "wait" => Awaited') /\ (fs = "reject" => Rejected')
    BY <1>7, <1>10, <1>11, AwaitedMore
  <1>13. ~IsData(mailbox)' /\ queue' = <<>> /\ Len(queue') = 0
    BY <1>4, <1>5, DataKinds
  <1>14. CASE fs = "reject"
    <2>1. trx'.buf = <<>>
      BY <1>8, <1>14, NothingReceived
    <2> QED
      BY <1>5, <1>12, <1>14, <2>1 DEF ReplySide, Replying, Between
  <1>15. CASE fs # "reject"
    <2> DEFINE at == IF fs = "ok" THEN "rx" ELSE "pause"
    <2>1. trx' = [at |-> at, size |-> f.size, left |-> bs, bs |-> bs, buf |-> <<f.data>>]
      BY <1>8, <1>15
    <2>2. fs # "ok" => at = "pause" /\ fs = "wait"
      BY <1>15
    <2> HIDE DEF at
    <2>3. trx'.at = at /\ trx'.size = size /\ trx'.buf = <<<<job.of, 1>>>> /\ trx'.buf # <<>>
      BY <1>5, <2>1
    <2>4. Len(trx'.buf) = 1 /\ Answer' = job.of /\ LastGot' = 1
      <3>1. Len(trx'.buf) = 1 /\ trx'.buf[1] = <<job.of, 1>>
        BY <2>3
      <3> QED
        BY <3>1 DEF Answer, LastGot
    <2>5. InStep'
      <3>1. Len(trx'.buf) + Len(queue') = 1
        BY <1>13, <2>4
      <3> QED
        BY <1>5, <1>6, <1>13, <2>3, <2>4, <3>1 DEF InStep
    <2>6. Awaited'
      BY <1>12, <2>2, <2>3 DEF Awaited
    <2>7. Replying'
      BY <1>13, <2>5 DEF Replying
    <2> QED
      BY <1>5, <2>6, <2>7 DEF ReplySide, Between
  <1> QED
    BY <1>14, <1>15

\* The tester has the next piece, which is the one it waits for.
LEMMA ReplyPiece ==
  ASSUME LinkType, AnswerInv, Numbered, ReplySide, NEW f, Sent(f), GetsConsecutive(f),
         UNCHANGED <<job, handed, tx, cts>>
  PROVE  ReplySide'
  <1>1. PICK end \in Nat, size \in Nat : Passed(end, size) /\ Aligned(end, size)
    BY DEF AnswerInv
  <1>2. f.pci = "consecutive"
    BY DEF GetsConsecutive
  <1>3. queue # <<>> /\ f = Head(queue) /\ queue' = Tail(queue) /\ UNCHANGED mailbox
    <2>1. ~(mailbox # NoFrame /\ f = mailbox)
      BY <1>1, <1>2 DEF Passed, IsData
    <2> QED
      BY <2>1 DEF Sent
  <1>4. InStep /\ ~IsData(mailbox) /\ job.at = "reply"
    BY <1>3, InTransit
  <1> DEFINE n   == Len(queue)
             len == Len(trx.buf)
  <1>5. /\ f \in DataFrames /\ f.data = <<job.of, end - n + 1>> /\ n \in Nat \ {0}
        /\ Len(queue') = n - 1 /\ queue' \in Seq(DataFrames) /\ f = queue[1]
    <2>1. queue' \in Seq(DataFrames) /\ Head(queue) = queue[1]
      BY <1>3, AnswerTypes, Taken
    <2> QED
      BY <1>1, <1>3, <2>1, OldestPassed
  <1>6. /\ trx \in Receivers /\ FifoTyped /\ job.of \in Nat /\ trx.bs \in Nat /\ trx.left \in Nat
        /\ trx.size \in Nat /\ trx.buf # <<>> /\ Answer = job.of /\ LastGot = len
        /\ trx.size = size /\ LastGot + n <= end /\ end <= size
    BY <1>1, <1>3, <1>4, AnswerTypes DEF InStep, Aligned, Passed
  <1>7. len \in Nat \ {0} /\ trx.buf = Payload(job.of, len) /\ trx.at # "pause"
    BY <1>3, <1>6, TrxFacts, NotOnItsWay DEF AnswerInv
  <1>8. end = len + n
    <2> DEFINE a == len
               b == n
    <2>1. a \in Nat /\ b \in Nat /\ a + b <= end /\ end <= size
      BY <1>5, <1>6, <1>7
    <2>2. CASE tx = NoTx
      <3>1. a + b = size
        BY <1>4, <1>6, <2>2 DEF InStep
      <3> HIDE DEF a, b
      <3> QED
        BY <2>1, <3>1 DEF a, b
    <2>3. CASE tx # NoTx
      BY <1>1, <1>4, <2>3 DEF InStep, Passed
    <2> QED
      BY <2>2, <2>3
  <1>9. f.data = <<job.of, len + 1>>
    <2>1. \A a, b \in Nat : (a + b) - b + 1 = a + 1
      OBVIOUS
    <2> QED
      BY <1>5, <1>7, <1>8, <2>1
  <1>10. f.sn = len % SnMod
    <2>1. 1 \in 1 .. Len(queue)
      BY <1>5
    <2>2. f.sn = (f.data[2] - 1) % SnMod
      BY <1>5, <2>1 DEF Numbered
    <2>3. f.data[2] - 1 = len
      BY <1>7, <1>9
    <2> QED
      BY <2>2, <2>3
  <1> DEFINE buf == Append(trx.buf, f.data)
  <1>11. /\ buf = Payload(job.of, len + 1) /\ Len(buf) = len + 1 /\ buf # <<>>
         /\ buf[1] = <<job.of, 1>> /\ buf[len + 1] = <<job.of, len + 1>>
    <2>1. buf = Append(Payload(job.of, len), <<job.of, len + 1>>)
      BY <1>7, <1>9
    <2>2. buf = Payload(job.of, len + 1)
      BY <1>6, <1>7, <2>1, PayloadMore
    <2>3. len + 1 \in Nat /\ 1 \in 1 .. len + 1 /\ len + 1 \in 1 .. len + 1
      BY <1>7
    <2> HIDE DEF buf, len
    <2>4. Len(buf) = len + 1 /\ \A i \in 1 .. len + 1 : buf[i] = <<job.of, i>>
      BY <1>6, <2>2, <2>3, PayloadType
    <2>5. buf # <<>>
      BY <1>7, <2>4
    <2> QED
      BY <2>2, <2>3, <2>4, <2>5
  <1> HIDE DEF buf
  <1>12. CASE Len(buf) = trx.size /\ got' = buf /\ trx' = NotReceiving /\ UNCHANGED rxFifo
    <2>1. len + 1 = size
      BY <1>6, <1>11, <1>12
    <2>2. n = 1 /\ end = size
      <3> HIDE DEF n, len
      <3> QED
        BY <1>5, <1>6, <1>7, <1>8, <2>1
    <2>3. tx = NoTx
      <3>1. tx # NoTx => tx.pos < tx.size
        BY AnswerTypes
      <3> QED
        BY <1>1, <2>2, <3>1 DEF Passed
    <2>4. queue' = <<>> /\ tx.at = "none"
      BY <1>5, <2>2, <2>3, EmptySeq, TxAt
    <2>5. Has(job.of)'
      <3>1. len + 1 \in Nat \ {0}
        BY <1>7
      <3>2. NumberOf(Payload(job.of, len + 1)) = job.of
        BY <1>6, <3>1, PayloadNumber
      <3>3. NumberOf(got)' = job.of
        BY <1>11, <1>12, <3>2 DEF NumberOf
      <3> QED
        BY <1>12, <3>3, NothingReceived DEF Has
    <2>6. Replying'
      BY <1>3, <1>4, <2>3, <2>4, <2>5 DEF Replying, IsData
    <2>7. NumberOf(handed)' = NumberOf(handed)
      BY DEF NumberOf
    <2> QED
      BY <1>4, <2>4, <2>6, <2>7 DEF ReplySide, Between
  <1>13. ASSUME Len(buf) # trx.size, trx' = MoreReceived(f), UNCHANGED got,
                rxFifo' = IF trx.left = 1 THEN Append(rxFifo, FlowControl("ok", trx.bs)) ELSE rxFifo
         PROVE  ReplySide'
    <2> DEFINE left == IF trx.left = 1 THEN trx.bs ELSE IF trx.left = 0 THEN 0 ELSE trx.left - 1
    <2>1. /\ trx'.buf = buf /\ trx'.size = size /\ trx'.bs = trx.bs /\ trx'.at = trx.at
          /\ trx'.left = left
      BY <1>5, <1>6, <1>13, MoreReceiver DEF buf
    <2>2. Answer' = job.of /\ LastGot' = len + 1 /\ Len(trx'.buf) = len + 1 /\ trx'.buf # <<>>
      BY <1>11, <2>1 DEF Answer, LastGot
    <2>3. trx.bs # 0 => trx.left \in 1 .. trx.bs
      BY <1>6, TrxFacts DEF AnswerInv
    <2>4. /\ trx.bs = 0 /\ tx # NoTx => tx.at = "block"
          /\ trx.bs # 0 =>
               /\ tx # NoTx => n + Allowed = trx.left
               /\ tx.at = "block" => tx.left > 0
      BY <1>1, <1>3, <1>4, <1>6 DEF InStep, Aligned
    <2>5. (len + 1) + (n - 1) = len + n
      BY <1>5, <1>7
    <2>6. Allowed' = Allowed /\ Allowed \in Nat
      BY AnswerTypes, TxAt DEF Allowed
    <2>7. ASSUME tx # NoTx, queue' # <<>> \/ tx.at = "block"
          PROVE  IF trx.bs = 0 THEN tx.at = "block" ELSE (n - 1) + Allowed = left
      <3> SUFFICES ASSUME trx.bs # 0  PROVE (n - 1) + Allowed = left
        BY <2>4, <2>7
      <3> DEFINE a == Allowed
                 b == n
                 c == trx.left
      <3>1. a \in Nat /\ b \in Nat \ {0} /\ c \in Nat \ {0} /\ b + a = c
        BY <1>5, <2>3, <2>4, <2>6, <2>7
      <3>2. b > 1 \/ a > 0
        <4>1. tx.at = "block" => a > 0
          BY <2>4 DEF Allowed
        <4>2. queue' # <<>> => b > 1
          <5>1. b = 1 => queue' = <<>>
            BY <1>5, EmptySeq
          <5> HIDE DEF b
          <5> QED
            BY <3>1, <5>1
        <4> QED
          BY <2>7, <4>1, <4>2
      <3> HIDE DEF a, b, c
      <3>3. c # 1 /\ c # 0 /\ (b - 1) + a = c - 1
        BY <3>1, <3>2
      <3> QED
        BY <3>3 DEF a, b, c
    <2>8. InStep'
      <3> DEFINE m == n - 1
      <3>1. Len(trx'.buf) + Len(queue') = (IF tx' = NoTx THEN trx'.size ELSE tx'.pos)
        BY <1>4, <1>5, <1>6, <2>1, <2>2, <2>5 DEF InStep
      <3>2. Len(queue') + Allowed' = (n - 1) + Allowed
        BY <1>5, <2>6
      <3> HIDE DEF left, n, len
      <3> QED
        BY <2>1, <2>2, <2>7, <3>1, <3>2 DEF InStep
    <2>9. ASSUME tx.at = "flow", queue' = <<>>  PROVE Awaited'
      <3>1. trx.left = 1
        <4>1. tx # NoTx /\ trx.bs # 0 /\ Allowed = 0
          <5>1. tx # NoTx
            BY <2>9, TxAt
          <5> QED
            BY <2>4, <2>9, <5>1 DEF Allowed
        <4>2. n = 1
          <5>1. Len(queue') = 0
            BY <2>9
          <5> HIDE DEF n
          <5> QED
            BY <1>5, <5>1
        <4> QED
          BY <2>4, <4>1, <4>2
      <3> DEFINE g == FlowControl("ok", trx.bs)
      <3>2. g \in Frames /\ g.pci = "flow" /\ g.fs = "ok"
        BY <1>6, FlowType
      <3>3. rxFifo' = Append(rxFifo, g)
        BY <1>13, <3>1
      <3> HIDE DEF g
      <3> QED
        BY <1>6, <1>7, <3>2, <3>3, AwaitedMore
    <2>10. Replying'
      BY <1>3, <1>4, <2>8 DEF Replying, IsData
    <2>11. NumberOf(handed)' = NumberOf(handed)
      BY DEF NumberOf
    <2> QED
      BY <1>4, <2>9, <2>10, <2>11 DEF ReplySide, Between
  <1>14. \/ Len(buf) = trx.size /\ got' = buf /\ trx' = NotReceiving /\ UNCHANGED rxFifo
         \/ /\ Len(buf) # trx.size /\ trx' = MoreReceived(f) /\ UNCHANGED got
            /\ rxFifo' = IF trx.left = 1 THEN Append(rxFifo, FlowControl("ok", trx.bs)) ELSE rxFifo
    <2>1. /\ trx.buf # <<>>
          /\ IF Len(buf) = trx.size
             THEN got' = buf /\ trx' = NotReceiving /\ UNCHANGED rxFifo
             ELSE /\ trx' = [trx EXCEPT !.buf = buf,
                               !.left = IF @ = 1 THEN trx.bs ELSE IF @ = 0 THEN 0 ELSE @ - 1]
                  /\ rxFifo' = IF trx.left = 1 THEN Append(rxFifo, FlowControl("ok", trx.bs)) ELSE rxFifo
                  /\ UNCHANGED got
      BY <1>6, <1>10 DEF GetsConsecutive, buf
    <2> QED
      BY <2>1 DEF MoreReceived, buf
  <1> QED
    BY <1>12, <1>13, <1>14

LEMMA ReplyToTester ==
  ASSUME LinkType, AnswerInv, Numbered, ReplySide, ToTester
  PROVE  ReplySide'
  <1>1. PICK f \in Transmitted : Sent(f) /\ TesterGets(f)
    BY DEF ToTester
  <1>2. UNCHANGED <<job, handed, tx, cts>>
    BY <1>1 DEF ToTester, taskVars
  <1>3. CASE GetsFlow(f)
    <2>1. PICK end \in Nat, size \in Nat : Passed(end, size)
      BY DEF AnswerInv
    <2>2. f.pci = "flow" /\ UNCHANGED <<rxFifo, trx, got>>
      BY <1>3 DEF GetsFlow
    <2>3. queue = <<>> \/ Head(queue).pci = "consecutive"
      BY <2>1, OldestPassed
    <2>4. mailbox' = NoFrame /\ UNCHANGED queue /\ mailbox.pci = "flow"
      BY <1>1, <2>2, <2>3 DEF Sent
    <2>5. IsData(mailbox)' = IsData(mailbox)
      BY <2>4, DataKinds DEF IsData
    <2>6. (Awaited => Awaited') /\ (Rejected => Rejected')
      BY <1>2, <2>2 DEF Awaited, Rejected, Flows
    <2> QED
      BY <1>2, <2>2, <2>4, <2>5, <2>6, ReplyKept
  <1> QED
    BY <1>1, <1>2, <1>3, ReplySingle, ReplyFirst, ReplyPiece DEF TesterGets

\* The tester asks, sends a block, or goes on with an answer it has not given up.
LEMMA ReplyTester ==
  ASSUME LinkType, AnswerInv, ReplySide, Tester
  PROVE  ReplySide'
  <1>1. UNCHANGED <<job, handed, tx, cts, queue, mailbox>> /\ FifoTyped
    BY AnswerTypes DEF Tester, isotpVars, taskVars
  <1>2. IsData(mailbox)' = IsData(mailbox)
    BY <1>1 DEF IsData
  <1>3. ASSUME NEW x \in DataFrames, rxFifo' = Append(rxFifo, x), UNCHANGED <<trx, got>>
        PROVE  ReplySide'
    <2>1. x \in Frames
      BY <1>3, FrameFields
    <2>2. (Awaited => Awaited') /\ (Rejected => Rejected')
      BY <1>1, <1>3, <2>1, AwaitedMore
    <2> QED
      BY <1>1, <1>2, <1>3, <2>2, ReplyKept
  <1>4. CASE Ask
    <2>1. PICK size \in Sizes : rxFifo' = Append(rxFifo, FrameOf(sends + 1, 1, size))
      BY <1>4 DEF Ask
    <2>2. size \in Nat /\ 1 \in Nat \ {0} /\ sends + 1 \in Nat
      BY AnswerTypes, Params
    <2>3. FrameOf(sends + 1, 1, size) \in DataFrames
      BY <2>2, FrameType
    <2> QED
      BY <1>3, <1>4, <2>1, <2>3 DEF Ask
  <1>5. CASE SendBlock
    <2>1. ttx.pos + 1 \in Nat \ {0} /\ ttx.size \in Nat /\ sends \in Nat
      BY LinkFacts
    <2>2. FrameOf(sends, ttx.pos + 1, ttx.size) \in DataFrames
      BY <2>1, FrameType
    <2> QED
      BY <1>3, <1>5, <2>2 DEF SendBlock
  <1>6. CASE Resume
    <2> DEFINE g == FlowControl("ok", trx.bs)
    <2>1. trx \in Receivers /\ trx.bs \in Nat
      BY AnswerTypes
    <2>2. g \in Frames /\ g.pci = "flow" /\ g.fs = "ok"
      BY <2>1, FlowType
    <2>3. rxFifo' = Append(rxFifo, g) /\ trx' = [trx EXCEPT !.at = "rx"] /\ UNCHANGED got
      BY <1>6 DEF Resume
    <2> HIDE DEF g
    <2>4. (Awaited => Awaited') /\ (Rejected => Rejected')
      BY <1>1, <2>2, <2>3, AwaitedMore
    <2>5. UNCHANGED <<trx.buf, trx.size, trx.bs, trx.left>>
      BY <2>1, <2>3 DEF Receivers
    <2> QED
      BY <1>1, <1>2, <2>3, <2>4, <2>5, ReplyKept
  <1>7. CASE TesterTimeout
    <2>1. UNCHANGED <<rxFifo, got, trx>>
      BY <1>7, NoVainAnswer DEF TesterTimeout
    <2>2. (Awaited => Awaited') /\ (Rejected => Rejected')
      BY <1>1, <2>1 DEF Awaited, Rejected, Flows
    <2> QED
      BY <1>1, <1>2, <2>1, <2>2, ReplyKept
  <1> QED
    BY <1>4, <1>5, <1>6, <1>7 DEF Tester

LEMMA ReplyStep ==
  ASSUME setting.waits, LinkType, DeliverInv, AnswerInv, Numbered, ReplySide,
         [DiagNext]_diagVars, Clean'
  PROVE  ReplySide'
  <1>1. CASE Board
    BY <1>1, ReplyBoard DEF Clean
  <1>2. ~Lose
    <2>1. lost \in Nat
      BY DEF LinkType, BoundsType
    <2> QED
      BY <2>1 DEF Clean, Lose
  <1>3. CASE Host \/ UNCHANGED diagVars
    <2>1. UNCHANGED <<trx, got, tx, queue, rxFifo, cts, mailbox, job, handed>>
      BY <1>3 DEF Host, diagVars, isotpVars, taskVars, testerVars
    <2>2. (Awaited => Awaited') /\ (Rejected => Rejected')
      BY <2>1 DEF Awaited, Rejected, Flows
    <2> QED
      BY <2>1, <2>2, ReplyKept DEF IsData
  <1> QED
    BY <1>1, <1>2, <1>3, ReplyToTester, ReplyToBoard, ReplyTester DEF DiagNext

LEMMA SilentStep ==
  ASSUME setting.waits, LinkType, DeliverInv, AnswerInv, SilentInv, [DiagNext]_diagVars
  PROVE  SilentInv'
  <1>1. Numbered'
    BY NumberedStep DEF SilentInv
  <1>2. ASSUME Clean'  PROVE RequestSide' /\ ReplySide'
    BY <1>2, CleanBefore, RequestStep, ReplyStep DEF SilentInv
  <1> QED
    BY <1>1, <1>2 DEF SilentInv

LEMMA SilentInit == DiagInit => SilentInv
  <1> SUFFICES ASSUME DiagInit  PROVE SilentInv
    OBVIOUS
  <1>1. /\ rxReady = <<>> /\ mailbox = NoFrame /\ queue = <<>> /\ tx.at = "none" /\ job = Select
        /\ handed = <<>> /\ sends = 0 /\ ttx = NotSending /\ trx = NotReceiving /\ got = <<>>
    BY DEF DiagInit, IsoTpInit, NoTx, NoPayload
  <1>2. Numbered
    <2>1. Len(queue) = 0
      BY <1>1
    <2> QED
      BY <2>1 DEF Numbered
  <1>3. Arrives
    <2>1. Reached = 0
      BY <1>1 DEF Reached, NumberOf
    <2> QED
      BY <1>1, <2>1 DEF Arrives
  <1>4. Granted
    BY <1>1 DEF Granted, NotSending, NoFrame
  <1>5. ReplySide
    <2>1. NumberOf(got) = 0 /\ NumberOf(handed) = 0 /\ trx.buf = <<>>
      BY <1>1 DEF NumberOf, NotReceiving
    <2> QED
      BY <1>1, <2>1 DEF ReplySide, Between, Has, Select
  <1> QED
    BY <1>2, <1>3, <1>4, <1>5 DEF SilentInv, RequestSide

\* When nothing moves, what was sent has arrived.
LEMMA AllHanded ==
  ASSUME LinkType, DeliverInv, RequestSide, Still
  PROVE  NumberOf(handed) = sends
  <1>1. Reached = NumberOf(handed)
    BY DEF Still, AtRest, NoPayload, Reached
  <1>2. Pending = {} /\ ttx.at = "idle"
    <2>1. rxFifo = <<>>
      BY DEF Still, AtRest, Quiet
    <2>2. Len(rxFifo) = 0
      BY <2>1
    <2> QED
      BY <2>2 DEF Still, NotSending, Pending
  <1>3. ASSUME Reached < sends  PROVE FALSE
    <2>1. PICK m, size \in Nat \ {0} : AllThere(m, size)
      BY <1>3 DEF RequestSide, Arrives
    <2>2. size \in 1 .. m
      BY <1>2, <2>1 DEF AllThere, SentSoFar
    <2>3. Assembled(size)
      BY <1>2, <2>1, <2>2 DEF AllThere, Travels
    <2>4. rxState # Idle /\ size <= Len(rxState.buf) /\ rxState.size = size
      BY <2>1, <2>3 DEF AllThere, Assembled
    <2>5. Len(rxState.buf) \in Nat /\ Len(rxState.buf) < rxState.size
      BY <2>4, RxFacts DEF DeliverInv
    <2> QED
      BY <2>4, <2>5
  <1>4. Reached \in Nat /\ Reached <= sends /\ sends \in Nat
    BY ReachedFacts, LinkFacts DEF DeliverInv
  <1> QED
    BY <1>1, <1>3, <1>4

\* In the firmware no exchange on CAN stops without an answer: when
\* nothing is on its way and nothing was lost or given up, the tester has the
\* answer to its last request.  Sequence numbers that wrap, blocks of any size,
\* pauses of the tester and requests that overtake one another do not change that.
THEOREM AnswersCome == DiagSpec => [](setting.waits => NothingSilent)
  <1> DEFINE Inv == LinkType /\ (setting.waits => DeliverInv /\ AnswerInv /\ SilentInv)
  <1>1. Inv => (setting.waits => NothingSilent)
    <2> SUFFICES ASSUME LinkType, DeliverInv, SilentInv, Still, lost = 0, ~refused
                 PROVE  NumberOf(got) = sends
      BY DEF NothingSilent
    <2>1. RequestSide /\ ReplySide
      BY DEF SilentInv, Clean
    <2>2. NumberOf(handed) = sends
      BY <2>1, AllHanded
    <2>3. Between
      BY DEF Still, AtRest, Select, Between
    <2> QED
      BY <2>1, <2>2, <2>3 DEF ReplySide, Has
  <1>2. DiagInit => Inv
    BY LinkTypeInit, DeliverInit, AnswerInit, SilentInit
  <1>3. Inv /\ [DiagNext]_diagVars => Inv'
    <2> SUFFICES ASSUME Inv, [DiagNext]_diagVars  PROVE Inv'
      OBVIOUS
    <2>1. LinkType'
      BY LinkTypeStep
    <2>2. ASSUME setting.waits  PROVE DeliverInv' /\ AnswerInv' /\ SilentInv'
      BY <2>2, DeliverStep, AnswerStep, SilentStep
    <2> QED
      BY <2>1, <2>2, Waits
  <1> QED
    BY <1>1, <1>2, <1>3, PTL DEF DiagSpec
=============================================================================
