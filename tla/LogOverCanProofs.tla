---------------------------- MODULE LogOverCanProofs ----------------------------
(***************************************************************************)
(* Log messages over CAN, for buffers, packets and chunks of any size and   *)
(* a transmit queue that refuses at any moment: long messages are read as   *)
(* they were written, and the buffer keeps room.                            *)
(***************************************************************************)
EXTENDS LogOverCan, SequenceTheorems, TLAPS

-----------------------------------------------------------------------------
(* Types *)

Byte     == Nat \X Nat
Messages == [no : Nat, bytes : Nat, packets : Nat, refused : BOOLEAN, hole : Nat, empty : Nat]

\* A message that is not being logged has no writer; its loop is inside the buffer.
LogType ==
  /\ message \in Messages /\ open \in BOOLEAN
  /\ writer \in [on : BOOLEAN, inner : Seq(Byte), pci : Nat]
  /\ sending \in [why : {"none", "write", "flush", "release"}, out : Nat]
  /\ sending.why = "none" => sending = NotSending
  /\ sending # NotSending => open /\ writer.on
  /\ writer.on => open
  /\ sending.out <= Len(writer.inner) /\ Len(writer.inner) <= BufLen
  /\ frame \in Seq(Byte)

-----------------------------------------------------------------------------
(* What is in the buffer and at the reader *)

\* As long as no packet was refused, more than a packet is buffered only while the loop
\* of a write runs.
BufferInv ==
  writer.on /\ ~message.refused /\ sending.why # "write" => Len(writer.inner) <= PktMax

\* The bytes of the message that follow the first so many.
Run(q, from) == \A j \in 1 .. Len(q) : q[j] = <<message.no, from + j>>

\* Bytes that have left the buffer, those that the loop has sent included.
Dropped == message.bytes - Len(writer.inner)
Sent    == Dropped + sending.out

\* The buffer has the end of the message, the reader what was sent before it.
Wellformed ==
  /\ Len(writer.inner) <= message.bytes /\ sending.why # "flush"
  /\ Run(writer.inner, Dropped)
  /\ message.packets = 0 => writer.pci = 0 /\ Sent = 0
  /\ message.packets > 0 => /\ writer.pci \in 1 .. PciLimit - 1
                            /\ Len(frame) = Sent /\ Run(frame, 0)

ReaderInv == writer.on /\ message.hole = 0 /\ message.empty = 0 => Wellformed

LogInv == LogType /\ BufferInv /\ RoomForChunks /\ ReaderInv /\ LongLogsWhole

-----------------------------------------------------------------------------
(* Numbers and pieces *)

LEMMA Params ==
  /\ BufLen \in Nat /\ PktMax \in Nat /\ PciLimit \in Nat /\ 1 < PktMax /\ PktMax < BufLen
  /\ 1 < PciLimit /\ PciLimit <= 255 /\ DataMax \in Nat \ {0} /\ DataMax = PktMax - 1
  /\ \A n \in Chunks : n \in Nat
  BY LogAssumption DEF LastPci, DataMax

\* The next pci of a message stays below the limit and is never that of a first packet.
LEMMA NextPci ==
  /\ \A n \in Nat : Wrapped(n) \in Nat
  /\ \A n \in 0 .. PciLimit - 1 : Wrapped(n) \in 1 .. PciLimit - 1
  BY Params DEF Wrapped, LastPci

\* A piece of the buffer.
LEMMA Piece ==
  ASSUME NEW q \in Seq(Byte), NEW a \in Nat, NEW b \in Nat, a <= b, b <= Len(q)
  PROVE  /\ SubSeq(q, a + 1, b) \in Seq(Byte) /\ Len(SubSeq(q, a + 1, b)) = b - a
         /\ \A j \in 1 .. b - a : SubSeq(q, a + 1, b)[j] = q[a + j]
  <1>1. \A i \in a + 1 .. b : q[i] \in Byte
    BY ElementOfSeq
  <1>2. /\ SubSeq(q, a + 1, b) \in Seq(Byte)
        /\ Len(SubSeq(q, a + 1, b)) = IF a + 1 <= b THEN b - (a + 1) + 1 ELSE 0
        /\ \A i \in 1 .. b - (a + 1) + 1 : SubSeq(q, a + 1, b)[i] = q[(a + 1) + i - 1]
    BY <1>1, SubSeqProperties
  <1> QED
    BY <1>2

\* A piece of what follows is what follows.
LEMMA RunPiece ==
  ASSUME message \in Messages, NEW q \in Seq(Byte), NEW a \in Nat, NEW b \in Nat, a <= b, b <= Len(q),
         NEW from \in Nat, Run(q, from)
  PROVE  Run(SubSeq(q, a + 1, b), from + a)
  <1> DEFINE r == SubSeq(q, a + 1, b)
  <1>1. Len(r) = b - a /\ \A j \in 1 .. b - a : r[j] = q[a + j]
    BY Piece
  <1>2. \A j \in 1 .. b - a : a + j \in 1 .. Len(q) /\ from + (a + j) = (from + a) + j
    OBVIOUS
  <1> HIDE DEF r
  <1>3. Run(r, from + a)
    BY <1>1, <1>2 DEF Run
  <1> QED
    BY <1>3 DEF r

\* Two pieces in a row.
LEMMA RunConcat ==
  ASSUME NEW q \in Seq(Byte), NEW r \in Seq(Byte), NEW from \in Nat,
         Run(q, from), Run(r, from + Len(q))
  PROVE  /\ q \o r \in Seq(Byte) /\ Len(q \o r) = Len(q) + Len(r) /\ Run(q \o r, from)
  <1> DEFINE s == q \o r
  <1>1. /\ s \in Seq(Byte) /\ Len(s) = Len(q) + Len(r) /\ Len(q) \in Nat /\ Len(r) \in Nat
        /\ \A i \in 1 .. Len(q) + Len(r) : s[i] = IF i <= Len(q) THEN q[i] ELSE r[i - Len(q)]
    BY ConcatProperties
  <1> HIDE DEF s
  <1>2. ASSUME NEW j \in 1 .. Len(s) PROVE s[j] = <<message.no, from + j>>
    <2>1. CASE j <= Len(q)
      <3>1. j \in 1 .. Len(q) /\ s[j] = q[j]
        BY <1>1, <2>1
      <3> QED
        BY <3>1 DEF Run
    <2>2. CASE ~(j <= Len(q))
      <3>1. j - Len(q) \in 1 .. Len(r) /\ (from + Len(q)) + (j - Len(q)) = from + j
        BY <1>1, <2>2
      <3>2. s[j] = r[j - Len(q)]
        BY <1>1, <2>2
      <3> QED
        BY <3>1, <3>2 DEF Run
    <2> QED
      BY <2>1, <2>2
  <1> QED
    BY <1>1, <1>2 DEF s, Run

-----------------------------------------------------------------------------
(* The invariant *)

LEMMA LogInvInit == Init => LogInv
  <1> SUFFICES ASSUME Init PROVE LogInv
    OBVIOUS
  <1>1. LogType
    <2>1. <<>> \in Seq(Byte) /\ Len(<<>>) = 0
      BY EmptySeq
    <2>2. message \in Messages
      BY DEF Init, Message, Messages
    <2>3. writer \in [on : BOOLEAN, inner : Seq(Byte), pci : Nat] /\ Len(writer.inner) = 0 /\ writer.on = FALSE
      <3>1. writer.inner = <<>> /\ writer.on = FALSE
        BY DEF Init, NoWriter
      <3>2. writer \in [on : BOOLEAN, inner : Seq(Byte), pci : Nat]
        BY <2>1 DEF Init, NoWriter
      <3> QED
        BY <2>1, <3>1, <3>2
    <2>4. /\ sending \in [why : {"none", "write", "flush", "release"}, out : Nat]
          /\ sending = NotSending /\ sending.out = 0
      BY DEF Init, NotSending
    <2>5. frame \in Seq(Byte) /\ open = FALSE
      BY <2>1 DEF Init
    <2> QED
      <3>1. sending.out <= Len(writer.inner) /\ Len(writer.inner) <= BufLen
        BY <2>3, <2>4, Params
      <3> QED
        BY <2>2, <2>3, <2>4, <2>5, <3>1 DEF LogType
  <1>2. writer.on = FALSE /\ message.hole = 0 /\ log.msg.packets = 0
    BY DEF Init, NoWriter, Message
  <1> QED
    BY <1>1, <1>2 DEF LogInv, BufferInv, RoomForChunks, ReaderInv, LongLogsWhole

\* The steps that leave the writer and the reader alone.
LEMMA LogInvKept ==
  ASSUME LogInv, UNCHANGED <<open, writer, sending, message, frame, log>>
  PROVE  LogInv'
  BY DEF LogInv, LogType, BufferInv, RoomForChunks, ReaderInv, LongLogsWhole, Wellformed, Run,
         Dropped, Sent

LEMMA AcquireStep ==
  ASSUME LogInv, Acquire
  PROVE  LogInv'
  <1>1. /\ open' = TRUE /\ message' = Message(message.no + 1) /\ sending' = NotSending
        /\ writer' \in {NewWriter, NoWriter} /\ UNCHANGED <<frame, log>> /\ message.no \in Nat
    BY DEF Acquire, LogInv, LogType, Messages
  <1>2. writer'.inner = <<>> /\ Len(writer'.inner) = 0 /\ writer'.pci = 0 /\ writer'.on \in BOOLEAN
        /\ sending'.out = 0 /\ sending'.why = "none"
    <2>1. CASE writer' = NewWriter
      BY <1>1, <2>1 DEF NewWriter, NotSending
    <2>2. CASE writer' = NoWriter
      BY <1>1, <2>2 DEF NoWriter, NotSending
    <2> QED
      BY <1>1, <2>1, <2>2
  <1>3. LogType'
    <2>1. <<>> \in Seq(Byte)
      BY EmptySeq
    <2>2. message' \in Messages
      BY <1>1 DEF Message, Messages
    <2>3. writer' \in [on : BOOLEAN, inner : Seq(Byte), pci : Nat]
      <3>1. NewWriter \in [on : BOOLEAN, inner : Seq(Byte), pci : Nat]
        BY <2>1 DEF NewWriter
      <3>2. NoWriter \in [on : BOOLEAN, inner : Seq(Byte), pci : Nat]
        BY <2>1 DEF NoWriter
      <3> QED
        BY <1>1, <3>1, <3>2
    <2>4. sending' \in [why : {"none", "write", "flush", "release"}, out : Nat]
      BY <1>1 DEF NotSending
    <2> QED
      BY <1>1, <1>2, <2>2, <2>3, <2>4, Params DEF LogInv, LogType
  <1>4. BufferInv' /\ RoomForChunks' /\ LongLogsWhole'
    BY <1>1, <1>2, Params DEF LogInv, BufferInv, RoomForChunks, LongLogsWhole, Message
  <1>5. Wellformed'
    BY <1>1, <1>2 DEF Wellformed, Run, Dropped, Sent, Message
  <1> QED
    BY <1>3, <1>4, <1>5 DEF LogInv, ReaderInv

\* What a chunk adds.
LEMMA ChunkBytes ==
  ASSUME LogInv, NEW n \in Nat
  PROVE  /\ Bytes(n) \in Seq(Byte) /\ Len(Bytes(n)) = n /\ Run(Bytes(n), message.bytes)
  <1>1. message.no \in Nat /\ message.bytes \in Nat
    BY DEF LogInv, LogType, Messages
  <1>2. Bytes(n) \in [1 .. n -> Byte] /\ \A j \in 1 .. n : Bytes(n)[j] = <<message.no, message.bytes + j>>
    BY <1>1 DEF Bytes, Byte
  <1>3. Bytes(n) \in Seq(Byte)
    BY <1>2, SeqDef
  <1>4. Len(Bytes(n)) = n
    BY <1>2, <1>3, LenProperties
  <1> QED
    BY <1>2, <1>3, <1>4 DEF Run

LEMMA WriteStep ==
  ASSUME LogInv, Write
  PROVE  LogInv'
  <1>1. PICK n \in Chunks :
          IF writer.on THEN WriteOverflow(n) \/ WriteBuffered(n)
          ELSE message' = [message EXCEPT !.bytes = @ + n] /\ UNCHANGED <<writer, sending>>
    BY DEF Write
  <1>2. n \in Nat /\ sending = NotSending /\ open /\ UNCHANGED <<open, frame, log>>
    BY Params DEF Write
  <1>3. sending.why = "none" /\ sending.out = 0
    BY <1>2 DEF NotSending
  <1>4. LongLogsWhole' /\ message \in Messages /\ LogType
    BY <1>2 DEF LogInv, LogType, LongLogsWhole
  <1>5. CASE ~writer.on
    BY <1>1, <1>2, <1>4, <1>5
    DEF LogInv, LogType, Messages, BufferInv, RoomForChunks, ReaderInv
  <1>6. CASE writer.on /\ WriteOverflow(n)
    <2>1. message' = [message EXCEPT !.bytes = @ + n, !.hole = IF @ = 0 THEN n ELSE Least(n, @)]
          /\ UNCHANGED <<writer, sending>> /\ Len(writer.inner) + n > BufLen
      BY <1>6 DEF WriteOverflow
    <2>2. message' \in Messages /\ message'.refused = message.refused
          /\ message'.hole = (IF message.hole = 0 THEN n ELSE Least(n, message.hole))
          /\ message.hole \in Nat
      <3> DEFINE h == IF message.hole = 0 THEN n ELSE Least(n, message.hole)
      <3>1. message.hole \in Nat /\ message.bytes \in Nat
        BY <1>4 DEF Messages
      <3>2. h \in Nat /\ message.bytes + n \in Nat
        BY <1>2, <3>1 DEF Least
      <3>3. message' = [message EXCEPT !.bytes = message.bytes + n, !.hole = h]
        BY <2>1
      <3> HIDE DEF h
      <3>4. message' \in Messages /\ message'.refused = message.refused /\ message'.hole = h
        BY <1>4, <3>2, <3>3 DEF Messages
      <3> QED
        BY <3>1, <3>4 DEF h
    <2>3. Len(writer.inner) \in Nat /\ Len(writer.inner) <= BufLen
      BY <1>4 DEF LogType
    <2>4. LogType'
      BY <1>2, <1>4, <2>1, <2>2 DEF LogType
    <2>5. BufferInv'
      BY <2>1, <2>2 DEF LogInv, BufferInv
    <2>6. RoomForChunks'
      BY <1>2, <1>3, <1>6, <2>1, <2>2, <2>3, Params DEF LogInv, BufferInv, RoomForChunks, Least
    <2>7. message'.hole # 0
      BY <1>2, <2>1, <2>2, <2>3, Params DEF Least
    <2> QED
      BY <1>4, <2>4, <2>5, <2>6, <2>7 DEF LogInv, ReaderInv
  <1>7. CASE writer.on /\ WriteBuffered(n)
    <2>1. /\ Len(writer.inner) + n <= BufLen
          /\ writer' = [writer EXCEPT !.inner = @ \o Bytes(n)]
          /\ message' = [message EXCEPT !.bytes = @ + n, !.empty = IF n = 0 THEN @ + 1 ELSE @]
          /\ sending' = IF n = 0 THEN [why |-> "flush", out |-> 0]
                        ELSE IF Len(writer.inner) + n > PktMax THEN [why |-> "write", out |-> 0]
                        ELSE NotSending
      BY <1>7 DEF WriteBuffered
    <2>2. /\ writer.inner \in Seq(Byte) /\ Len(writer.inner) \in Nat /\ message.bytes \in Nat
          /\ writer.pci \in Nat /\ message.empty \in Nat
          /\ writer \in [on : BOOLEAN, inner : Seq(Byte), pci : Nat]
      BY <1>4 DEF LogType, Messages
    <2>3. /\ Bytes(n) \in Seq(Byte) /\ Len(Bytes(n)) = n /\ Run(Bytes(n), message.bytes)
      BY <1>2, ChunkBytes
    <2>4. /\ writer'.inner = writer.inner \o Bytes(n) /\ writer'.on = writer.on /\ writer'.pci = writer.pci
          /\ writer.inner \o Bytes(n) \in Seq(Byte) /\ Len(writer'.inner) = Len(writer.inner) + n
          /\ writer' \in [on : BOOLEAN, inner : Seq(Byte), pci : Nat]
      <3>1. writer.inner \o Bytes(n) \in Seq(Byte) /\ Len(writer.inner \o Bytes(n)) = Len(writer.inner) + n
        BY <2>2, <2>3, ConcatProperties
      <3> QED
        BY <2>1, <2>2, <3>1
    <2>5. /\ message' \in Messages /\ message'.bytes = message.bytes + n /\ message'.no = message.no
          /\ message'.refused = message.refused /\ message'.hole = message.hole
          /\ message'.packets = message.packets /\ (n = 0 => message'.empty # 0)
          /\ (n # 0 => message'.empty = message.empty)
      <3> DEFINE e == IF n = 0 THEN message.empty + 1 ELSE message.empty
      <3>1. e \in Nat /\ message.bytes + n \in Nat /\ (n = 0 => e # 0) /\ (n # 0 => e = message.empty)
        BY <1>2, <2>2
      <3>2. message' = [message EXCEPT !.bytes = message.bytes + n, !.empty = e]
        BY <2>1
      <3> HIDE DEF e
      <3>3. /\ message' \in Messages /\ message'.bytes = message.bytes + n /\ message'.no = message.no
            /\ message'.refused = message.refused /\ message'.hole = message.hole
            /\ message'.packets = message.packets /\ message'.empty = e
        BY <1>4, <3>1, <3>2 DEF Messages
      <3> QED
        BY <3>1, <3>3
    <2>6. /\ sending' \in [why : {"none", "write", "flush", "release"}, out : Nat] /\ sending'.out = 0
          /\ (sending'.why = "none" => sending' = NotSending)
          /\ (n # 0 => sending'.why # "flush")
          /\ (n # 0 /\ sending'.why # "write" => Len(writer.inner) + n <= PktMax)
      BY <1>2, <2>1, <2>2, Params DEF NotSending
    <2>7. LogType'
      BY <1>2, <1>4, <1>7, <2>1, <2>2, <2>4, <2>5, <2>6 DEF LogType
    <2>8. BufferInv'
      BY <1>2, <1>3, <1>7, <2>2, <2>4, <2>5, <2>6 DEF LogInv, BufferInv
    <2>9. RoomForChunks'
      BY <2>5 DEF LogInv, RoomForChunks
    <2>10. ReaderInv'
      <3> SUFFICES ASSUME message'.hole = 0, message'.empty = 0
                   PROVE  Wellformed'
        BY DEF ReaderInv
      <3>1. n # 0 /\ Wellformed
        BY <1>7, <2>5 DEF LogInv, ReaderInv
      <3>2. Dropped \in Nat /\ Dropped' = Dropped /\ Sent' = Sent /\ Dropped + Len(writer.inner) = message.bytes
        BY <1>3, <2>2, <2>4, <2>5, <2>6, <3>1, <1>2 DEF Wellformed, Dropped, Sent
      <3>3. Run(writer.inner \o Bytes(n), Dropped)
        BY <2>2, <2>3, <3>1, <3>2, RunConcat DEF Wellformed
      <3>4. Run(writer.inner, Dropped)'
        BY <2>4, <2>5, <3>2, <3>3 DEF Run
      <3>5. message.packets > 0 => Run(frame, 0)'
        BY <1>2, <2>5, <3>1 DEF Wellformed, Run
      <3>6. (Len(writer.inner) <= message.bytes)'
        BY <1>2, <2>2, <2>4, <2>5, <3>1 DEF Wellformed
      <3> QED
        BY <1>2, <2>4, <2>5, <2>6, <3>1, <3>2, <3>4, <3>5, <3>6 DEF Wellformed
    <2> QED
      BY <1>4, <2>7, <2>8, <2>9, <2>10 DEF LogInv
  <1> QED
    BY <1>1, <1>5, <1>6, <1>7

LEMMA ReleaseStep ==
  ASSUME LogInv, Release
  PROVE  LogInv'
  <1>1. sending = NotSending /\ open /\ UNCHANGED <<writer, message, frame, log>>
    BY DEF Release
  <1>2. CASE writer.on
    <2>1. sending' = [why |-> "release", out |-> 0] /\ open' = open
      BY <1>2 DEF Release
    <2>2. sending'.why = "release" /\ sending'.out = 0 /\ sending.why = "none" /\ sending.out = 0
      BY <1>1, <2>1 DEF NotSending
    <2>3. LogType'
      BY <1>1, <1>2, <2>1, <2>2 DEF LogInv, LogType
    <2> QED
      BY <1>1, <2>2, <2>3
      DEF LogInv, BufferInv, RoomForChunks, ReaderInv, LongLogsWhole, Wellformed, Run, Dropped, Sent
  <1>3. CASE ~writer.on
    <2>1. open' = FALSE /\ sending' = sending
      BY <1>3 DEF Release
    <2> QED
      BY <1>1, <1>3, <2>1
      DEF LogInv, LogType, BufferInv, RoomForChunks, ReaderInv, LongLogsWhole
  <1> QED
    BY <1>2, <1>3

\* After the loop nothing is being sent, and the writer keeps less, or goes.
LEMMA StopFacts ==
  ASSUME LogInv, sending # NotSending, NEW out \in Nat, NEW pci \in Nat, Stop(out, pci),
         sending.out <= out, out <= Len(writer.inner)
  PROVE  /\ sending' = NotSending /\ sending'.why = "none" /\ sending'.out = 0
         /\ open' \in BOOLEAN /\ (writer'.on => open')
         /\ writer' \in [on : BOOLEAN, inner : Seq(Byte), pci : Nat]
         /\ Len(writer'.inner) <= Len(writer.inner)
         /\ writer'.on => /\ sending.why \in {"write", "flush"} /\ writer'.pci = pci
         /\ sending.why = "flush" => writer'.inner = writer.inner
         /\ sending.why = "write" => /\ writer'.inner = SubSeq(writer.inner, out + 1, Len(writer.inner))
                                     /\ Len(writer'.inner) = Len(writer.inner) - out
  <1>1. /\ writer \in [on : BOOLEAN, inner : Seq(Byte), pci : Nat] /\ writer.inner \in Seq(Byte)
        /\ sending.why \in {"write", "flush", "release"} /\ Len(writer.inner) \in Nat
        /\ open = TRUE /\ writer.on = TRUE
    <2>1. writer.on \in BOOLEAN /\ open \in BOOLEAN /\ sending.why # "none"
      BY DEF LogInv, LogType
    <2> QED
      BY <2>1 DEF LogInv, LogType
  <1>2. sending' = NotSending /\ sending'.why = "none" /\ sending'.out = 0
    BY DEF Stop, NotSending
  <1>3. CASE sending.why = "release"
    <2>1. writer' = NoWriter /\ open' = FALSE
      BY <1>3 DEF Stop
    <2>2. <<>> \in Seq(Byte) /\ Len(<<>>) = 0
      BY EmptySeq
    <2>3. writer' \in [on : BOOLEAN, inner : Seq(Byte), pci : Nat]
      BY <2>1, <2>2 DEF NoWriter
    <2>4. Len(writer'.inner) = 0 /\ writer'.on = FALSE
      BY <2>1, <2>2 DEF NoWriter
    <2>5. Len(writer'.inner) <= Len(writer.inner)
      BY <1>1, <2>4
    <2>6. open' \in BOOLEAN /\ (writer'.on => open')
      BY <2>1, <2>4
    <2> QED
      BY <1>1, <1>2, <1>3, <2>3, <2>4, <2>5, <2>6
  <1>4. CASE sending.why = "flush"
    <2>1. writer' = [writer EXCEPT !.pci = pci] /\ open' = TRUE
      BY <1>4 DEF Stop
    <2> QED
      BY <1>1, <1>2, <1>4, <2>1
  <1>5. CASE sending.why = "write"
    <2> DEFINE rest == SubSeq(writer.inner, out + 1, Len(writer.inner))
    <2>1. writer' = [writer EXCEPT !.inner = rest, !.pci = pci] /\ open' = TRUE
      BY <1>5 DEF Stop
    <2>2. rest \in Seq(Byte) /\ Len(rest) = Len(writer.inner) - out
      BY <1>1, Piece
    <2> HIDE DEF rest
    <2>3. writer'.inner = rest /\ writer'.pci = pci /\ writer'.on = TRUE
          /\ writer' \in [on : BOOLEAN, inner : Seq(Byte), pci : Nat]
      BY <1>1, <2>1, <2>2
    <2> QED
      BY <1>1, <1>2, <1>5, <2>1, <2>2, <2>3 DEF rest
  <1> QED
    BY <1>1, <1>3, <1>4, <1>5

\* The bytes a stopped loop of a write keeps are the end of the message still.
LEMMA KeptRun ==
  ASSUME LogInv, Wellformed, sending.why = "write", NEW out \in Nat, out <= Len(writer.inner),
         writer'.inner = SubSeq(writer.inner, out + 1, Len(writer.inner)),
         Len(writer'.inner) = Len(writer.inner) - out, sending'.out = 0,
         message'.no = message.no, message'.bytes = message.bytes
  PROVE  /\ Len(writer'.inner) <= message'.bytes /\ Run(writer.inner, Dropped)'
         /\ Dropped' = Dropped + out /\ Sent' = Dropped + out
  <1>1. /\ message \in Messages /\ message.bytes \in Nat /\ writer.inner \in Seq(Byte)
        /\ Len(writer.inner) \in Nat
    BY DEF LogInv, LogType, Messages
  <1>2. Dropped \in Nat /\ Run(writer.inner, Dropped)
    BY <1>1 DEF Wellformed, Dropped
  <1>3. Dropped' = Dropped + out /\ Sent' = Dropped + out /\ Len(writer'.inner) <= message'.bytes
    BY <1>1, <1>2 DEF Wellformed, Dropped, Sent
  <1>4. Run(SubSeq(writer.inner, out + 1, Len(writer.inner)), Dropped + out)
    BY <1>1, <1>2, RunPiece
  <1>5. Run(writer.inner, Dropped)'
    BY <1>3, <1>4 DEF Run
  <1> QED
    BY <1>3, <1>5

\* The next packet: what is left, or a full one.
LEMMA Packet ==
  ASSUME LogInv, sending # NotSending, NEW n, n = Least(Left, DataMax),
         NEW data, data = SubSeq(writer.inner, sending.out + 1, sending.out + n)
  PROVE  /\ n \in Nat /\ sending.out \in Nat /\ sending.out + n \in Nat
         /\ sending.out + n <= Len(writer.inner) /\ Left \in Nat /\ n <= Left
         /\ Left - n = Len(writer.inner) - (sending.out + n) /\ (AtEnd => n = Left)
         /\ data \in Seq(Byte) /\ Len(data) = n /\ (Wellformed => Run(data, Sent))
  <1>1. /\ message \in Messages /\ message.bytes \in Nat /\ writer.inner \in Seq(Byte)
        /\ Len(writer.inner) \in Nat /\ sending.out \in Nat /\ sending.out <= Len(writer.inner)
    BY DEF LogInv, LogType, Messages
  <1>2. Left \in Nat /\ Left = Len(writer.inner) - sending.out
    BY <1>1 DEF Left
  <1>3. n \in Nat /\ n <= Left /\ (AtEnd => n = Left)
    BY <1>2, Params DEF Least, AtEnd
  <1>4. sending.out + n \in Nat /\ sending.out + n <= Len(writer.inner)
        /\ Left - n = Len(writer.inner) - (sending.out + n)
    BY <1>1, <1>2, <1>3
  <1>5. data \in Seq(Byte) /\ Len(data) = n
    <2> DEFINE b == sending.out + n
    <2>1. b \in Nat /\ sending.out <= b /\ b <= Len(writer.inner) /\ b - sending.out = n
      BY <1>1, <1>3, <1>4
    <2>2. data = SubSeq(writer.inner, sending.out + 1, b)
      OBVIOUS
    <2> HIDE DEF b
    <2> QED
      BY <1>1, <2>1, <2>2, Piece
  <1>6. ASSUME Wellformed PROVE Run(data, Sent)
    <2>1. Dropped \in Nat /\ Run(writer.inner, Dropped)
      BY <1>1, <1>6 DEF Wellformed, Dropped
    <2>2. Run(data, Dropped + sending.out)
      BY <1>1, <1>3, <1>4, <2>1, RunPiece
    <2> QED
      BY <2>2 DEF Sent
  <1> QED
    BY <1>1, <1>2, <1>3, <1>4, <1>5, <1>6

\* What the reader has after it.
LEMMA FrameStep ==
  ASSUME LogInv, Wellformed, NEW data \in Seq(Byte), Run(data, Sent),
         frame' = ReadPacket(frame, [pci |-> writer.pci, data |-> data])
  PROVE  /\ writer.pci \in 0 .. PciLimit - 1 /\ Len(frame') = Sent + Len(data)
         /\ \A j \in 1 .. Len(frame') : frame'[j] = <<message.no, 0 + j>>
  <1>1. message.packets \in Nat /\ frame \in Seq(Byte) /\ writer.pci \in Nat
    BY DEF LogInv, LogType, Messages
  <1>2. CASE message.packets = 0
    <2>1. writer.pci = 0 /\ Sent = 0
      BY <1>2 DEF Wellformed
    <2>2. frame' = data
      BY <2>1 DEF ReadPacket, LastPci
    <2>3. Len(data) \in Nat /\ Len(data) = Sent + Len(data)
      BY <2>1
    <2>4. \A j \in 1 .. Len(data) : data[j] = <<message.no, 0 + j>>
      BY <2>1 DEF Run
    <2>5. writer.pci \in 0 .. PciLimit - 1
      BY <2>1, Params
    <2> QED
      BY <2>2, <2>3, <2>4, <2>5
  <1>3. CASE message.packets # 0
    <2>1. writer.pci \in 1 .. PciLimit - 1 /\ Len(frame) = Sent /\ Run(frame, 0)
      BY <1>1, <1>3 DEF Wellformed
    <2>2. frame' = frame \o data
      BY <2>1, Params DEF ReadPacket, LastPci
    <2>3. Len(frame \o data) = Len(frame) + Len(data) /\ Run(frame \o data, 0)
      <3>1. Run(data, 0 + Len(frame))
        BY <2>1
      <3> QED
        BY <1>1, <2>1, <3>1, RunConcat
    <2>4. \A j \in 1 .. Len(frame \o data) : (frame \o data)[j] = <<message.no, 0 + j>>
      BY <2>3 DEF Run
    <2>5. writer.pci \in 0 .. PciLimit - 1
      BY <2>1, Params
    <2> QED
      BY <2>1, <2>2, <2>3, <2>4, <2>5
  <1> QED
    BY <1>2, <1>3

LEMMA QueueFullStep ==
  ASSUME LogInv, QueueFull
  PROVE  LogInv'
  <1> DEFINE pci == IF AtEnd THEN LastPci ELSE writer.pci
  <1>1. /\ sending # NotSending /\ message' = [message EXCEPT !.refused = TRUE]
        /\ Stop(sending.out, pci) /\ UNCHANGED <<frame, log>>
    BY DEF QueueFull
  <1>2. /\ message \in Messages /\ writer.pci \in Nat /\ sending.out \in Nat
        /\ sending.out <= Len(writer.inner) /\ writer.on /\ Len(writer.inner) \in Nat
        /\ Len(writer.inner) <= BufLen /\ frame \in Seq(Byte)
    BY <1>1 DEF LogInv, LogType
  <1>3. pci \in Nat /\ (sending.why = "write" => pci = writer.pci)
    BY <1>2 DEF AtEnd, LastPci
  <1> HIDE DEF pci
  <1>4. /\ sending' = NotSending /\ sending'.why = "none" /\ sending'.out = 0
        /\ open' \in BOOLEAN /\ (writer'.on => open')
        /\ writer' \in [on : BOOLEAN, inner : Seq(Byte), pci : Nat]
        /\ Len(writer'.inner) <= Len(writer.inner)
        /\ writer'.on => /\ sending.why \in {"write", "flush"} /\ writer'.pci = pci
        /\ sending.why = "write" => /\ writer'.inner = SubSeq(writer.inner, sending.out + 1, Len(writer.inner))
                                    /\ Len(writer'.inner) = Len(writer.inner) - sending.out
    BY <1>1, <1>2, <1>3, StopFacts
  <1>5. /\ message' \in Messages /\ message'.refused = TRUE /\ message'.no = message.no
        /\ message'.bytes = message.bytes /\ message'.hole = message.hole
        /\ message'.empty = message.empty /\ message'.packets = message.packets
    BY <1>1, <1>2 DEF Messages
  <1>6. LogType'
    <2>1. sending' \in [why : {"none", "write", "flush", "release"}, out : Nat]
      BY <1>4 DEF NotSending
    <2>2. sending'.out <= Len(writer'.inner) /\ Len(writer'.inner) <= BufLen
      <3>1. Len(writer'.inner) \in Nat
        BY <1>4
      <3> QED
        BY <1>2, <1>4, <3>1, Params
    <2> QED
      BY <1>1, <1>2, <1>4, <1>5, <2>1, <2>2 DEF LogType
  <1>7. BufferInv' /\ RoomForChunks'
    BY <1>5 DEF BufferInv, RoomForChunks
  <1>8. LongLogsWhole'
    BY <1>1 DEF LogInv, LongLogsWhole
  <1>9. ReaderInv'
    <2> SUFFICES ASSUME writer'.on, message'.hole = 0, message'.empty = 0
                 PROVE  Wellformed'
      BY DEF ReaderInv
    <2>1. Wellformed /\ sending.why = "write"
      <3>1. Wellformed
        BY <1>2, <1>5 DEF LogInv, ReaderInv
      <3> QED
        BY <1>4, <3>1 DEF Wellformed
    <2>2. /\ Len(writer'.inner) <= message'.bytes /\ Run(writer.inner, Dropped)'
          /\ Dropped' = Dropped + sending.out /\ Sent' = Dropped + sending.out
      BY <1>2, <1>4, <1>5, <2>1, KeptRun
    <2>3. Sent' = Sent /\ writer'.pci = writer.pci
      BY <1>3, <1>4, <2>1, <2>2 DEF Sent
    <2>4. Run(frame, 0) => Run(frame, 0)'
      BY <1>1, <1>5 DEF Run
    <2> QED
      BY <1>1, <1>4, <1>5, <2>1, <2>2, <2>3, <2>4 DEF Wellformed
  <1> QED
    BY <1>6, <1>7, <1>8, <1>9 DEF LogInv

LEMMA SendPacketStep ==
  ASSUME LogInv, SendPacket
  PROVE  LogInv'
  <1> DEFINE n    == Least(Left, DataMax)
             out  == sending.out + n
             pci  == IF AtEnd THEN LastPci ELSE writer.pci
             data == SubSeq(writer.inner, sending.out + 1, out)
             Last == AtEnd \/ (sending.why = "write" /\ ~GoesOn(Left - n))
  <1>1. /\ sending # NotSending /\ message' = [message EXCEPT !.packets = @ + 1]
        /\ frame' = ReadPacket(frame, [pci |-> pci, data |-> data])
        /\ log' = IF pci = LastPci THEN [bytes |-> frame \o data, msg |-> message'] ELSE log
        /\ IF Last THEN Stop(out, Wrapped(pci))
           ELSE /\ sending' = [sending EXCEPT !.out = out]
                /\ writer' = [writer EXCEPT !.pci = Wrapped(pci)] /\ UNCHANGED open
    BY DEF SendPacket, Read
  <1>2. /\ n \in Nat /\ sending.out \in Nat /\ out \in Nat /\ out <= Len(writer.inner)
        /\ Left \in Nat /\ n <= Left /\ Left - n = Len(writer.inner) - out /\ (AtEnd => n = Left)
        /\ data \in Seq(Byte) /\ Len(data) = n /\ (Wellformed => Run(data, Sent))
    BY <1>1, Packet
  <1>3. /\ message \in Messages /\ writer \in [on : BOOLEAN, inner : Seq(Byte), pci : Nat]
        /\ sending \in [why : {"none", "write", "flush", "release"}, out : Nat]
        /\ writer.pci \in Nat /\ writer.on /\ open /\ writer.inner \in Seq(Byte)
        /\ Len(writer.inner) \in Nat /\ Len(writer.inner) <= BufLen /\ frame \in Seq(Byte)
        /\ open \in BOOLEAN /\ sending.why # "none"
    BY <1>1 DEF LogInv, LogType
  <1>4. pci \in Nat /\ (~AtEnd => pci = writer.pci) /\ Wrapped(pci) \in Nat
    BY <1>3, NextPci DEF LastPci
  <1>5. sending.out <= out /\ (sending.why = "write" => ~AtEnd)
    <2>1. sending.out <= sending.out + n
      BY <1>2
    <2> QED
      BY <2>1 DEF AtEnd
  <1>6. Last /\ sending.why = "write" => Len(writer.inner) - out <= PktMax
    BY <1>2, <1>3, <1>5, Params DEF GoesOn
  <1>7. /\ message' \in Messages /\ message'.packets = message.packets + 1
        /\ message'.no = message.no /\ message'.bytes = message.bytes
        /\ message'.hole = message.hole /\ message'.empty = message.empty
        /\ message'.refused = message.refused /\ message.packets \in Nat
    <2>1. message' = [message EXCEPT !.packets = message.packets + 1]
      BY <1>1
    <2>2. message.packets \in Nat /\ message.packets + 1 \in Nat
      BY <1>3 DEF Messages
    <2> QED
      BY <1>3, <2>1, <2>2 DEF Messages
  <1> HIDE DEF n, out, pci, data, Last
  <1>8. frame' \in Seq(Byte)
    <2>1. <<>> \in Seq(Byte) /\ data \in Seq(Byte)
      BY <1>2, EmptySeq
    <2>2. frame \o data \in Seq(Byte)
      BY <1>3, <2>1, ConcatProperties
    <2> QED
      BY <1>1, <2>1, <2>2 DEF ReadPacket
  \* The loop ends or goes on.
  <1>9. ASSUME Last PROVE LogType' /\ BufferInv' /\ ReaderInv'
    <2>1. /\ sending' = NotSending /\ sending'.why = "none" /\ sending'.out = 0
          /\ open' \in BOOLEAN /\ (writer'.on => open')
          /\ writer' \in [on : BOOLEAN, inner : Seq(Byte), pci : Nat]
          /\ Len(writer'.inner) <= Len(writer.inner)
          /\ writer'.on => /\ sending.why \in {"write", "flush"} /\ writer'.pci = Wrapped(pci)
          /\ sending.why = "flush" => writer'.inner = writer.inner
          /\ sending.why = "write" => /\ writer'.inner = SubSeq(writer.inner, out + 1, Len(writer.inner))
                                      /\ Len(writer'.inner) = Len(writer.inner) - out
      BY <1>1, <1>2, <1>4, <1>5, <1>9, StopFacts
    <2>2. LogType'
      <3>1. sending' \in [why : {"none", "write", "flush", "release"}, out : Nat]
        BY <2>1 DEF NotSending
      <3>2. sending'.out <= Len(writer'.inner) /\ Len(writer'.inner) <= BufLen
        <4>1. Len(writer'.inner) \in Nat
          BY <2>1
        <4> QED
          BY <1>3, <2>1, <4>1, Params
      <3> QED
        BY <1>7, <1>8, <2>1, <3>1, <3>2 DEF LogType
    <2>3. BufferInv'
      BY <1>6, <1>7, <1>9, <1>3, <2>1 DEF LogInv, BufferInv
    <2>4. ReaderInv'
      <3> SUFFICES ASSUME writer'.on, message'.hole = 0, message'.empty = 0
                   PROVE  Wellformed'
        BY DEF ReaderInv
      <3>1. Wellformed /\ sending.why = "write" /\ pci = writer.pci
        <4>1. Wellformed
          BY <1>3, <1>7 DEF LogInv, ReaderInv
        <4> QED
          BY <1>4, <1>5, <2>1, <4>1 DEF Wellformed
      <3>2. /\ Len(writer'.inner) <= message'.bytes /\ Run(writer.inner, Dropped)'
            /\ Dropped' = Dropped + out /\ Sent' = Dropped + out
        BY <1>2, <1>7, <2>1, <3>1, KeptRun
      <3>3. /\ writer.pci \in 0 .. PciLimit - 1 /\ Len(frame') = Sent + Len(data)
            /\ \A j \in 1 .. Len(frame') : frame'[j] = <<message.no, 0 + j>>
        BY <1>1, <1>2, <3>1, FrameStep
      <3>4. Sent' = Sent + Len(data)
        BY <1>2, <1>3, <1>7, <3>2 DEF Sent, Dropped, out, Messages
      <3>5. writer'.pci \in 1 .. PciLimit - 1
        BY <2>1, <3>1, <3>3, NextPci
      <3>6. Run(frame, 0)'
        BY <1>7, <3>3 DEF Run
      <3> QED
        BY <1>7, <2>1, <3>2, <3>3, <3>4, <3>5, <3>6 DEF Wellformed
    <2> QED
      BY <2>2, <2>3, <2>4
  <1>10. ASSUME ~Last PROVE LogType' /\ BufferInv' /\ ReaderInv'
    <2>1. /\ sending' = [sending EXCEPT !.out = out] /\ open' = open
          /\ writer' = [writer EXCEPT !.pci = Wrapped(pci)]
      BY <1>1, <1>10
    <2>2. /\ sending' \in [why : {"none", "write", "flush", "release"}, out : Nat]
          /\ sending'.why = sending.why /\ sending'.out = out
      BY <1>2, <1>3, <2>1
    <2>3. /\ writer' \in [on : BOOLEAN, inner : Seq(Byte), pci : Nat] /\ writer'.on = writer.on
          /\ writer'.inner = writer.inner /\ writer'.pci = Wrapped(pci)
      BY <1>3, <1>4, <2>1
    <2>4. LogType'
      BY <1>2, <1>3, <1>7, <1>8, <2>1, <2>2, <2>3 DEF LogType
    <2>5. BufferInv'
      BY <1>7, <2>2, <2>3 DEF LogInv, BufferInv
    <2>6. ReaderInv'
      <3> SUFFICES ASSUME writer'.on, message'.hole = 0, message'.empty = 0
                   PROVE  Wellformed'
        BY DEF ReaderInv
      <3>1. Wellformed /\ pci = writer.pci
        BY <1>3, <1>4, <1>7, <1>10 DEF LogInv, ReaderInv, Last
      <3>2. Dropped' = Dropped /\ Sent' = Sent + Len(data)
        <4>1. Dropped' = Dropped /\ Dropped \in Nat
          BY <1>3, <1>7, <2>3, <3>1 DEF Dropped, Wellformed, Messages
        <4> QED
          BY <1>2, <2>2, <4>1 DEF Sent, out
      <3>3. /\ writer.pci \in 0 .. PciLimit - 1 /\ Len(frame') = Sent + Len(data)
            /\ \A j \in 1 .. Len(frame') : frame'[j] = <<message.no, 0 + j>>
        BY <1>1, <1>2, <3>1, FrameStep
      <3>4. writer'.pci \in 1 .. PciLimit - 1
        BY <2>3, <3>1, <3>3, NextPci
      <3>5. Run(frame, 0)' /\ Run(writer.inner, Dropped)'
        BY <1>7, <2>3, <3>1, <3>2, <3>3 DEF Run, Wellformed
      <3> QED
        BY <1>7, <2>2, <2>3, <3>1, <3>2, <3>3, <3>4, <3>5 DEF Wellformed
    <2> QED
      BY <2>4, <2>5, <2>6
  <1>11. RoomForChunks'
    BY <1>7 DEF LogInv, RoomForChunks
  \* The packet may be the last one of the message.
  <1>12. LongLogsWhole'
    <2>1. CASE pci # LastPci
      BY <1>1, <2>1 DEF LogInv, LongLogsWhole
    <2>2. CASE pci = LastPci
      <3> DEFINE all == frame \o data
      <3>1. log'.bytes = all /\ log'.msg = message'
        BY <1>1, <2>2
      <3> SUFFICES ASSUME message.packets > 0, message.hole = 0, message.empty = 0
                   PROVE  all = [j \in 1 .. message.bytes |-> <<message.no, j>>]
        BY <1>7, <3>1 DEF LongLogsWhole
      <3>2. Wellformed /\ writer.pci \in 1 .. PciLimit - 1 /\ Len(frame) = Sent /\ Run(frame, 0)
        BY <1>3 DEF LogInv, ReaderInv, Wellformed
      <3>3. AtEnd
        BY <1>4, <2>2, <3>2, Params DEF LastPci
      <3>4. Sent \in Nat /\ Len(data) \in Nat /\ Sent + Len(data) = message.bytes
        <4>1. message.bytes \in Nat /\ Dropped \in Nat /\ Dropped + Len(writer.inner) = message.bytes
          BY <1>3, <3>2 DEF Dropped, Wellformed, Messages
        <4>2. Len(data) = Len(writer.inner) - sending.out
          BY <1>2, <1>3, <3>3 DEF Left
        <4> QED
          BY <1>2, <1>3, <4>1, <4>2 DEF Sent
      <3>5. all \in Seq(Byte) /\ Len(all) = Len(frame) + Len(data) /\ Run(all, 0)
        <4>1. Run(data, 0 + Len(frame))
          BY <1>2, <3>2, <3>4
        <4> QED
          BY <1>2, <1>3, <3>2, <4>1, RunConcat
      <3> HIDE DEF all
      <3>6. all \in [1 .. message.bytes -> Byte]
        BY <3>2, <3>4, <3>5, LenProperties
      <3>7. \A j \in 1 .. message.bytes : all[j] = <<message.no, j>>
        BY <3>2, <3>4, <3>5 DEF Run
      <3> QED
        BY <3>6, <3>7
    <2> QED
      BY <2>1, <2>2
  <1> QED
    BY <1>9, <1>10, <1>11, <1>12 DEF LogInv

LEMMA LogInvNext == LogInv /\ [Next]_logVars => LogInv'
  <1> SUFFICES ASSUME LogInv, [Next]_logVars PROVE LogInv'
    OBVIOUS
  <1>1. CASE SetLogMode
    BY <1>1, LogInvKept DEF SetLogMode
  <1>2. CASE OthersTransmit
    BY <1>2, LogInvKept DEF OthersTransmit
  <1>3. CASE Acquire
    BY <1>3, AcquireStep
  <1>4. CASE Write
    BY <1>4, WriteStep
  <1>5. CASE Release
    BY <1>5, ReleaseStep
  <1>6. CASE SendPacket
    BY <1>6, SendPacketStep
  <1>7. CASE QueueFull
    BY <1>7, QueueFullStep
  <1>8. CASE UNCHANGED logVars
    BY <1>8, LogInvKept DEF logVars
  <1> QED
    BY <1>1, <1>2, <1>3, <1>4, <1>5, <1>6, <1>7, <1>8 DEF Next

LEMMA LogInvAlways == Spec => []LogInv
  BY LogInvInit, LogInvNext, PTL DEF Spec

-----------------------------------------------------------------------------
(* The theorems *)

\* Whatever the sizes of buffer, packets and chunks, the pci at which the numbering
\* wraps (up to 255), the packets the queue refuses and the moments at which the mode
\* or the transmitter changes hands: a message of more than one packet is read exactly
\* as it was written, unless a chunk of it was left out or empty.
THEOREM LongLogs == Spec => []LongLogsWhole
  <1>1. LogInv => LongLogsWhole
    BY DEF LogInv
  <1> QED
    BY <1>1, LogInvAlways, PTL

\* While the queue takes every packet of a message, only a chunk is left out that would
\* not fit beside a packet.
THEOREM LogsKeepRoom == Spec => []RoomForChunks
  <1>1. LogInv => RoomForChunks
    BY DEF LogInv
  <1> QED
    BY <1>1, LogInvAlways, PTL
=============================================================================
