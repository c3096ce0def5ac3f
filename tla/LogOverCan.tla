------------------------------- MODULE LogOverCan -------------------------------
(***************************************************************************)
(* Log messages over CAN: the global logger with its buffered writer        *)
(* (diag_common/src/defmt_multi_output.rs) on the control unit and the      *)
(* reader of the flasher (flasher/src/defmt.rs).                            *)
(*                                                                          *)
(* A message is logged with all interrupts off, from acquire over one or    *)
(* more writes to release, so that nothing comes between.  Its packets are  *)
(* a byte of protocol (pci) and up to seven bytes; a packet that finds the  *)
(* transmit queue full is not sent.  A byte is its place in its message.    *)
(***************************************************************************)
EXTENDS Naturals, Sequences

CONSTANTS
  BufLen,    \* BUF_LEN
  PktMax,    \* PKT_MAX, a byte of it for the protocol
  PciLimit,  \* 0xF0
  Chunks,    \* lengths of what is written at once
  MaxMsg,    \* bound on the bytes of a message
  MaxEmpty,  \* bound on its empty chunks
  MaxMsgs    \* bound on messages

LastPci == 255

ASSUME LogAssumption ==
  /\ {BufLen, PktMax, PciLimit, MaxMsg, MaxEmpty, MaxMsgs} \subseteq Nat
  /\ 1 < PktMax /\ PktMax < BufLen /\ 1 < PciLimit /\ PciLimit <= LastPci
  /\ Chunks \subseteq Nat

VARIABLES
  mode,     \* MODE: over CAN, or only to the debugger
  free,     \* nobody has the transmitter
  open,     \* a message is being logged
  writer,   \* alt_logger: none, or what is buffered and the next pci
  sending,  \* the loop of write: why it sends, and out_pos
  message,  \* of the message so far: its number, its bytes, packets sent, whether
            \* one was refused, the shortest chunk left out, whether one was empty
            \* (no variable of the code)
  frame,    \* frame_buf of the reader
  log       \* what the reader passed on last, with the message at that time

logVars == <<mode, free, open, writer, sending, message, frame, log>>

DataMax == PktMax - 1

Least(a, b) == IF a < b THEN a ELSE b

NoWriter   == [on |-> FALSE, inner |-> <<>>, pci |-> 0]
NewWriter  == [on |-> TRUE, inner |-> <<>>, pci |-> 0]
NotSending == [why |-> "none", out |-> 0]

Message(n) ==
  [no |-> n, bytes |-> 0, packets |-> 0, refused |-> FALSE, hole |-> 0, empty |-> 0]

-----------------------------------------------------------------------------
(* The mode, and the other users of the transmitter *)

\* ioctl 0xF0 by way of set_defmt_log_mode.
SetLogMode ==
  /\ ~open /\ mode' \in {"rtt", "can"} \ {mode}
  /\ UNCHANGED <<free, open, writer, sending, message, frame, log>>

OthersTransmit ==
  /\ ~open /\ free' = ~free
  /\ UNCHANGED <<mode, open, writer, sending, message, frame, log>>

-----------------------------------------------------------------------------
(* The logger *)

\* try_access gives the transmitter only if nobody has it.
Acquire ==
  /\ ~open /\ message.no < MaxMsgs
  /\ open' = TRUE /\ message' = Message(message.no + 1)
  /\ writer' = IF mode = "can" /\ free THEN NewWriter ELSE NoWriter
  /\ UNCHANGED <<mode, free, sending, frame, log>>

Bytes(n) == [i \in 1 .. n |-> <<message.no, message.bytes + i>>]

\* A chunk that the buffer cannot take is left out.
WriteOverflow(n) ==
  /\ Len(writer.inner) + n > BufLen
  /\ message' = [message EXCEPT !.bytes = @ + n, !.hole = IF @ = 0 THEN n ELSE Least(n, @)]
  /\ UNCHANGED <<writer, sending>>

\* More than a packet is sent; an empty chunk is taken for the end of the message.
WriteBuffered(n) ==
  /\ Len(writer.inner) + n <= BufLen
  /\ writer' = [writer EXCEPT !.inner = @ \o Bytes(n)]
  /\ message' = [message EXCEPT !.bytes = @ + n, !.empty = IF n = 0 THEN @ + 1 ELSE @]
  /\ sending' = IF n = 0 THEN [why |-> "flush", out |-> 0]
                ELSE IF Len(writer.inner) + n > PktMax THEN [why |-> "write", out |-> 0]
                ELSE NotSending

Write ==
  /\ open /\ sending = NotSending
  /\ \E n \in Chunks :
       /\ message.bytes + n <= MaxMsg /\ (n = 0 => message.empty < MaxEmpty)
       /\ IF writer.on THEN WriteOverflow(n) \/ WriteBuffered(n)
          ELSE message' = [message EXCEPT !.bytes = @ + n] /\ UNCHANGED <<writer, sending>>
  /\ UNCHANGED <<mode, free, open, frame, log>>

Release ==
  /\ open /\ sending = NotSending
  /\ IF writer.on THEN sending' = [why |-> "release", out |-> 0] /\ UNCHANGED open
     ELSE open' = FALSE /\ UNCHANGED sending
  /\ UNCHANGED <<mode, free, writer, message, frame, log>>

-----------------------------------------------------------------------------
(* The reader *)

\* frame_buf after a packet: the first packet starts it anew.
ReadPacket(f, p) ==
  CASE p.pci = LastPci -> <<>>
    [] p.pci = 0       -> p.data
    [] OTHER           -> f \o p.data

\* A packet is read when it has been sent; the last one ends what is passed on.
Read(p) ==
  /\ frame' = ReadPacket(frame, p)
  /\ log' = IF p.pci = LastPci THEN [bytes |-> frame \o p.data, msg |-> message'] ELSE log

-----------------------------------------------------------------------------
(* BufferedDefmtWriter::write: its loop, packet by packet *)

WrappedToStart(n) == (n + 1) % PciLimit

\* The pci after n in its byte; 0 is for the first packet alone.
Wrapped(n) == IF n + 1 = PciLimit THEN 1 ELSE (n + 1) % (LastPci + 1)

Left == Len(writer.inner) - sending.out

AtEnd == sending.why # "write" /\ Left <= DataMax

SentOnce(left) == FALSE

\* A write goes on until less than a packet is left.
GoesOn(left) == left >= PktMax

\* After its loop a write drops what it has sent, an empty one does not, and with a
\* release the writer goes.
Stop(out, pci) ==
  /\ sending' = NotSending /\ open' = (sending.why # "release")
  /\ writer' = CASE sending.why = "release" -> NoWriter
                 [] sending.why = "flush"   -> [writer EXCEPT !.pci = pci]
                 [] OTHER -> [writer EXCEPT !.inner = SubSeq(@, out + 1, Len(@)), !.pci = pci]

\* The transmit queue takes the next packet.
SendPacket ==
  /\ sending # NotSending
  /\ LET n    == Least(Left, DataMax)
         out  == sending.out + n
         pci  == IF AtEnd THEN LastPci ELSE writer.pci
         data == SubSeq(writer.inner, sending.out + 1, out)
     IN  /\ message' = [message EXCEPT !.packets = @ + 1]
         /\ Read([pci |-> pci, data |-> data])
         /\ IF AtEnd \/ (sending.why = "write" /\ ~GoesOn(Left - n))
            THEN Stop(out, Wrapped(pci))
            ELSE /\ sending' = [sending EXCEPT !.out = out]
                 /\ writer' = [writer EXCEPT !.pci = Wrapped(pci)] /\ UNCHANGED open
  /\ UNCHANGED <<mode, free>>

\* It is full: the rest waits for the next write, and is lost in a release.
QueueFull ==
  /\ sending # NotSending
  /\ message' = [message EXCEPT !.refused = TRUE]
  /\ Stop(sending.out, IF AtEnd THEN LastPci ELSE writer.pci)
  /\ UNCHANGED <<mode, free, frame, log>>

Init ==
  /\ mode = "rtt" /\ free = TRUE /\ open = FALSE /\ writer = NoWriter /\ sending = NotSending
  /\ message = Message(0) /\ frame = <<>> /\ log = [bytes |-> <<>>, msg |-> Message(0)]

Next == SetLogMode \/ OthersTransmit \/ Acquire \/ Write \/ Release \/ SendPacket \/ QueueFull

Spec == Init /\ [][Next]_logVars

-----------------------------------------------------------------------------
(* Properties *)

\* A message of more than one packet is read exactly as it was written, whatever
\* the queue refused in its course and whatever an earlier message left in the
\* reader, unless a chunk of it was left out or empty.  (A message of one packet
\* has no first packet and joins what was left.)
LongLogsWhole ==
  log.msg.packets > 1 /\ log.msg.hole = 0 /\ log.msg.empty = 0 =>
    log.bytes = [j \in 1 .. log.msg.bytes |-> <<log.msg.no, j>>]

\* As long as the queue takes every packet the buffer never keeps more than a
\* packet from one write to the next: even the shortest chunk that is left out would
\* not fit beside it.
RoomForChunks ==
  message.hole > 0 /\ ~message.refused => message.hole + PktMax > BufLen
=============================================================================
