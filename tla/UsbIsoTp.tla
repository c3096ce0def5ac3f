-------------------------------- MODULE UsbIsoTp --------------------------------
(***************************************************************************)
(* The diagnostic channel over USB: the endpoint on the board               *)
(* (isotp_endpoints/usb_isotp.rs) and the flasher's side of it              *)
(* (flasher/src/usb_diag_compat.rs).  The byte stream loses nothing, but    *)
(* the flasher reads with a timeout, opens the port again and resends.      *)
(*                                                                          *)
(* A request is a header and its data, in packets; what an answer says is   *)
(* the number of the transmission that it answers.                          *)
(***************************************************************************)
EXTENDS Naturals, Sequences

CONSTANT
  UsbSizes  \* packets of a request

ASSUME UsbAssumption == UsbSizes \subseteq Nat \ {0}

VARIABLES
  usbIn,     \* packets on their way to the board
  reading,   \* the request that poll assembles
  usbReady,  \* the signal with a payload for the task
  usbOut,    \* answers on their way, or in the queue response_diag
  usbSends,  \* transmissions of requests so far
  host       \* the flasher's call of read_bytes

usbVars == <<usbIn, reading, usbReady, usbOut, usbSends, host>>

Packets(m, size) == [k \in 1 .. size |-> [of |-> m, part |-> k, size |-> size]]
NotReading == [size |-> 0]

-----------------------------------------------------------------------------
(* The board *)

\* One packet arrives: a header first, then data until the size is reached.
\* A complete payload replaces one that the task has not fetched yet.
Poll ==
  /\ usbIn # <<>> /\ usbIn' = Tail(usbIn)
  /\ LET p   == Head(usbIn)
         now == IF reading = NotReading THEN [size |-> p.size, buf |-> <<p>>]
                ELSE [reading EXCEPT !.buf = Append(@, p)]
     IN  IF Len(now.buf) = now.size
         THEN usbReady' = now.buf /\ reading' = NotReading
         ELSE reading' = now /\ UNCHANGED usbReady
  /\ UNCHANGED <<usbOut, usbSends, host>>

\* write: header, type and data of the answer to transmission m.
UsbWrite(m) ==
  /\ usbOut' = Append(usbOut, m)
  /\ UNCHANGED <<usbIn, reading, usbReady, usbSends, host>>

-----------------------------------------------------------------------------
(* The flasher *)

\* read_bytes sends the request that write_bytes has cached.
Transmit(size) ==
  /\ usbSends' = usbSends + 1
  /\ usbIn' = usbIn \o Packets(usbSends + 1, size)

\* A new request, or the cached one again after read_bytes has failed.
HostAsk ==
  /\ host.at \in {"idle", "failed"}
  /\ \E size \in IF host.at = "failed" THEN UsbSizes \cup {host.size} ELSE UsbSizes :
       /\ Transmit(size)
       /\ \E again \in BOOLEAN :
            /\ again => host.at = "failed" /\ size = host.size
            /\ host' = [host EXCEPT !.at = "first", !.size = size,
                                    !.since = IF again THEN @ ELSE usbSends + 1]
  /\ UNCHANGED <<reading, usbReady, usbOut>>

\* The first attempt has timed out: with_serial opens the port again, which
\* forgets what has arrived, and sends once more; that result is final.
HostReopen ==
  /\ host.at = "first"
  /\ Transmit(host.size) /\ usbOut' = <<>>
  /\ host' = [host EXCEPT !.at = "second", !.late = TRUE]
  /\ UNCHANGED <<reading, usbReady>>

HostGivesUp ==
  /\ host.at = "second"
  /\ host' = [host EXCEPT !.at = "failed"]
  /\ UNCHANGED <<usbIn, reading, usbReady, usbOut, usbSends>>

\* The oldest answer is taken for the answer.
HostReceive ==
  /\ host.at \in {"first", "second"} /\ usbOut # <<>>
  /\ host' = [host EXCEPT !.at = "idle", !.got = Head(usbOut)]
  /\ usbOut' = Tail(usbOut)
  /\ UNCHANGED <<usbIn, reading, usbReady, usbSends>>

UsbInit ==
  /\ usbIn = <<>> /\ reading = NotReading /\ usbReady = <<>> /\ usbOut = <<>>
  /\ usbSends = 0
  /\ host = [at |-> "idle", size |-> 0, since |-> 0, got |-> 0, late |-> FALSE]
=============================================================================
