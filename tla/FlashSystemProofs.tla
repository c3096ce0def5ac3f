---------------------------- MODULE FlashSystemProofs ----------------------------
(***************************************************************************)
(* The flasher and the board, for every layout, every image, any number of  *)
(* lost messages, retries, runs and power cuts and with failing flash       *)
(* controllers: blocks arrive in order, success means written, and updates  *)
(* of an application implement the abstract update.                         *)
(***************************************************************************)
EXTENDS FlashSystem, TLAPS

-----------------------------------------------------------------------------
(* Messages and sizes *)

LEMMA Messages ==
  /\ Silent.what = "silence" /\ Request.what = "request"
  /\ \A r : Answer(r).what = "answer" /\ Answer(r).reply = r
  BY DEF Silent, Request, Answer

LEMMA RequestFields ==
  /\ Request.service = phase /\ Request.at = SegmentStart /\ Request.img = image
  /\ Request.block = acked % BlkMod
  /\ phase # "erase" => Request.size = SegmentSize
  BY DEF Request

LEMMA Sizes ==
  /\ AppLen \in Nat \ {0} /\ SegmentLen \in Nat \ {0}
  /\ \A img \in FlashImages : ImageLen(img) \in Nat \ {0}
  <1>1. AppLen \in Nat \ {0} /\ BlSectors \in Nat \ {0}
    BY LayoutAssumption
  <1>2. SegmentLen \in Nat \ {0}
    <2>1. QspiSectors \in Nat /\ SegmentLen \in 1 .. QspiSectors
      BY LayoutAssumption, FlasherAssumption
    <2> QED
      BY <2>1
  <1> QED
    BY <1>1, <1>2 DEF ImageLen

-----------------------------------------------------------------------------
(* Types, and what is on the link *)

\* While the flasher is at a request the link holds that request, an answer to it, or
\* nothing, and nothing when it does not wait; after success the link is silent.
LinkInv ==
  /\ phase \in Requests /\ link.what = "request" => waiting /\ link = Request
  /\ phase \in Requests /\ ~waiting => link = Silent
  /\ phase = "done" => link = Silent

FlashInv == FlashTypeOK /\ LinkInv

LEMMA FlashInvInit == FlashInit => FlashInv
  <1> SUFFICES ASSUME FlashInit PROVE FlashInv
    OBVIOUS
  <1>1. SegmentSize \in Nat \ {0} /\ 0 \in 0 .. SegmentSize
    BY Sizes DEF FlashInit, SegmentSize
  <1>2. 0 \in 0 .. Retries /\ 0 \in 0 .. 1 /\ 0 \in 0 .. MaxRuns
    BY FlasherAssumption
  <1>3. FlashTypeOK
    BY <1>1, <1>2, Messages DEF FlashInit, FlashTypeOK, Ended, Requests
  <1>4. LinkInv
    BY DEF FlashInit, LinkInv, Requests
  <1> QED
    BY <1>3, <1>4 DEF FlashInv

\* A step that leaves the flasher alone and puts an answer on the link.
LEMMA AnswerInv ==
  ASSUME FlashInv, UNCHANGED flasher, link.what = "request",
         NEW r \in Replies, link' = Answer(r)
  PROVE  FlashInv'
  <1>1. phase # "done"
    BY Messages DEF FlashInv, LinkInv
  <1>2. phase \in Requests => waiting
    BY DEF FlashInv, LinkInv
  <1>3. LinkInv'
    BY <1>1, <1>2, Messages DEF LinkInv, flasher
  <1>4. FlashTypeOK'
    BY Messages DEF FlashInv, FlashTypeOK, flasher, SegmentSize
  <1> QED
    BY <1>3, <1>4 DEF FlashInv

\* Nothing of the flasher and the link changes.
LEMMA FlashInvKept ==
  ASSUME FlashInv, UNCHANGED <<flasher, link>>
  PROVE  FlashInv'
  BY DEF FlashInv, FlashTypeOK, LinkInv, flasher, SegmentSize, Request, SegmentStart,
         Pages, SegmentUnit

\* What the next phase is, and when.
LEMMA Phases ==
  ASSUME phase \in Requests
  PROVE  /\ AfterPhase \in Requests \cup {"done"}
         /\ AfterPhase = "transfer" => phase = "download" \/ (phase = "transfer" /\ ~LastBlock)
         /\ AfterPhase = "check" => phase = "exit" /\ ~inQspi
         /\ AfterPhase = "done" => phase = "reset"
         /\ AfterPhase = "reset" => phase = "check" \/ (phase = "exit" /\ inQspi)
         /\ phase = "check" /\ AfterPhase = "erase" => image \in AppImages /\ ~inQspi
         /\ AfterPhase = "download" => phase = "poll"
  BY DEF AfterPhase, AfterSegment, Requests

LEMMA ProceedInv ==
  ASSUME FlashInv, phase \in Requests, Proceed, waiting' = FALSE, link' = Silent, tries' = 0,
         UNCHANGED runs
  PROVE  FlashInv'
  <1>1. phase' = AfterPhase /\ phase' \in Requests \cup Ended /\ image' = image
    BY Phases DEF Proceed, Ended
  <1>2. inQspi' \in BOOLEAN /\ (inQspi' => image' \in AppImages)
    BY Phases DEF Proceed, FlashInv, FlashTypeOK
  <1>3. acked \in Nat /\ SegmentSize \in Nat \ {0} /\ AppLen \in Nat \ {0}
    BY Sizes DEF FlashInv, FlashTypeOK, SegmentSize
  <1>4. waiting' = FALSE /\ link' = Silent /\ tries' \in 0 .. Retries /\ commErrs' \in 0 .. 1
        /\ runs' \in 0 .. MaxRuns
    <2>1. 0 \in 0 .. Retries /\ 0 \in 0 .. 1
      BY FlasherAssumption
    <2> QED
      BY <2>1 DEF Proceed, FlashInv, FlashTypeOK
  <1>5. ASSUME acked' \in 0 .. SegmentSize' \/ (inQspi' /\ acked' \in 0 .. AppLen),
               phase' = "transfer" => acked' < SegmentSize'
        PROVE  FlashInv'
    <2>1. image' \in FlashImages
      BY <1>1 DEF FlashInv, FlashTypeOK
    <2>2. FlashTypeOK'
      BY <1>1, <1>2, <1>4, <1>5, <2>1, Messages DEF FlashTypeOK
    <2>3. LinkInv'
      BY <1>4, Messages DEF LinkInv
    <2> QED
      BY <2>2, <2>3 DEF FlashInv
  <1>6. CASE phase = "download"
    <2>1. phase' = "transfer" /\ acked' = 0 /\ inQspi' = inQspi
      BY <1>6 DEF Proceed, AfterPhase, FlashInv, FlashTypeOK
    <2>2. SegmentSize' = SegmentSize
      BY <1>1, <2>1 DEF SegmentSize
    <2>3. acked' \in 0 .. SegmentSize' /\ acked' < SegmentSize'
      BY <1>3, <2>1, <2>2
    <2> QED
      BY <1>5, <2>3
  <1>7. CASE phase = "transfer"
    <2>1. acked' = acked + 1 /\ inQspi' = inQspi /\ phase' \in {"transfer", "exit"}
          /\ (phase' = "transfer" => ~LastBlock)
      BY <1>7 DEF Proceed, AfterPhase, FlashInv, FlashTypeOK
    <2>2. SegmentSize' = SegmentSize
      BY <1>1, <2>1 DEF SegmentSize
    <2>3. acked < SegmentSize
      BY <1>7 DEF FlashInv, FlashTypeOK
    <2>4. acked' \in 0 .. SegmentSize' /\ (phase' = "transfer" => acked' < SegmentSize')
      BY <1>3, <2>1, <2>2, <2>3 DEF LastBlock
    <2> QED
      BY <1>5, <2>4
  <1>8. CASE phase \notin {"download", "transfer"}
    <2>1. acked' = acked /\ phase' # "transfer"
      BY <1>1, <1>8, Phases DEF Proceed
    <2>2. acked' \in 0 .. SegmentSize' \/ (inQspi' /\ acked' \in 0 .. AppLen)
      <3>1. CASE inQspi' = inQspi
        BY <1>1, <2>1, <3>1 DEF SegmentSize, FlashInv, FlashTypeOK
      <3>2. CASE inQspi' # inQspi
        <4>1. inQspi' /\ ~inQspi /\ image \in AppImages
          BY <3>2, Phases DEF Proceed, FlashInv, FlashTypeOK
        <4>2. SegmentSize = AppLen
          BY <4>1, ImageAssumption DEF SegmentSize, ImageLen
        <4> QED
          BY <2>1, <4>1, <4>2 DEF FlashInv, FlashTypeOK
      <3> QED
        BY <3>1, <3>2
    <2> QED
      BY <1>5, <2>1, <2>2
  <1> QED
    BY <1>6, <1>7, <1>8

LEMMA EndRunInv ==
  ASSUME FlashInv, EndRun("failed"), waiting' \in BOOLEAN, tries' = 0, UNCHANGED runs,
         link' \in {link, Silent}
  PROVE  FlashInv'
  <1>1. 0 \in 0 .. Retries
    BY FlasherAssumption
  <1>2. FlashTypeOK'
    BY <1>1, Messages DEF FlashInv, FlashTypeOK, EndRun, Ended, Requests, SegmentSize
  <1>3. LinkInv'
    BY DEF LinkInv, EndRun, Requests
  <1> QED
    BY <1>2, <1>3 DEF FlashInv

LEMMA ReceiveInv == FlashInv /\ Receive /\ phase \in Requests => FlashInv'
  <1> SUFFICES ASSUME FlashInv, Receive, phase \in Requests PROVE FlashInv'
    OBVIOUS
  <1>1. waiting' = FALSE /\ link' = Silent /\ tries' = 0 /\ UNCHANGED runs
    BY DEF Receive
  <1>2. CASE Proceed
    BY <1>1, <1>2, ProceedInv
  <1>3. CASE UNCHANGED <<phase, image, inQspi, acked, commErrs>>
    <2>1. 0 \in 0 .. Retries
      BY FlasherAssumption
    <2> QED
      BY <1>1, <1>3, <2>1, Messages DEF FlashInv, FlashTypeOK, LinkInv, SegmentSize
  <1>4. CASE EndRun("failed")
    BY <1>1, <1>4, EndRunInv
  <1> QED
    BY <1>2, <1>3, <1>4 DEF Receive

LEMMA SendInv == FlashInv /\ Send => FlashInv'
  <1> SUFFICES ASSUME FlashInv, Send PROVE FlashInv'
    OBVIOUS
  <1>1. 0 \in 0 .. Retries
    BY FlasherAssumption
  <1>2. Request' = Request
    BY DEF Send, Request, SegmentStart, SegmentSize, Pages, SegmentUnit
  <1>3. FlashTypeOK'
    BY <1>1, Messages DEF Send, FlashInv, FlashTypeOK, SegmentSize
  <1>4. LinkInv'
    BY <1>2, Messages DEF Send, LinkInv, Requests
  <1> QED
    BY <1>3, <1>4 DEF FlashInv

LEMMA TimeoutInv == FlashInv /\ Timeout /\ phase \in Requests => FlashInv'
  <1> SUFFICES ASSUME FlashInv, Timeout, phase \in Requests PROVE FlashInv'
    OBVIOUS
  <1>1. CASE /\ tries < Retries /\ tries' = tries + 1 /\ link' = Request
             /\ UNCHANGED <<phase, image, inQspi, acked, commErrs, waiting, runs>>
    <2>1. Request' = Request
      BY <1>1 DEF Request, SegmentStart, SegmentSize, Pages, SegmentUnit
    <2>2. tries' \in 0 .. Retries
      BY <1>1, FlasherAssumption DEF FlashInv, FlashTypeOK
    <2>3. FlashTypeOK'
      BY <1>1, <2>2, Messages DEF FlashInv, FlashTypeOK, SegmentSize
    <2>4. LinkInv'
      BY <1>1, <2>1, Messages DEF Timeout, LinkInv, Requests
    <2> QED
      BY <2>3, <2>4 DEF FlashInv
  <1>2. CASE /\ tries' = 0 /\ link' = Silent /\ waiting' = FALSE
             /\ commErrs' = 1 /\ UNCHANGED <<phase, image, inQspi, acked, runs>>
    <2>1. 0 \in 0 .. Retries /\ 1 \in 0 .. 1
      BY FlasherAssumption
    <2> QED
      BY <1>2, <2>1, Messages DEF FlashInv, FlashTypeOK, LinkInv, SegmentSize
  <1>3. CASE tries' = 0 /\ link' = Silent /\ waiting' = FALSE /\ EndRun("failed") /\ UNCHANGED runs
    BY <1>3, EndRunInv
  <1> QED
    BY <1>1, <1>2, <1>3 DEF Timeout

LEMMA StartRunInv == FlashInv /\ StartRun => FlashInv'
  <1> SUFFICES ASSUME FlashInv, StartRun PROVE FlashInv'
    OBVIOUS
  <1>1. 0 \in 0 .. Retries /\ 0 \in 0 .. 1
    BY FlasherAssumption
  <1>2. runs' \in 0 .. MaxRuns
    BY FlasherAssumption DEF StartRun, FlashInv, FlashTypeOK
  <1>3. SegmentSize' \in Nat \ {0}
    BY Sizes DEF StartRun, SegmentSize
  <1>4. 0 \in 0 .. SegmentSize'
    BY <1>3
  <1>5. FlashTypeOK'
    BY <1>1, <1>2, <1>4, Messages DEF StartRun, FlashTypeOK, Requests
  <1>6. LinkInv'
    BY Messages DEF StartRun, LinkInv
  <1> QED
    BY <1>5, <1>6 DEF FlashInv

\* The flasher waits only at a request.
WaitInv == waiting => phase \in Requests

LEMMA WaitInvNext == WaitInv /\ [FlashNext]_flashVars => WaitInv'
  <1> SUFFICES ASSUME WaitInv, [FlashNext]_flashVars PROVE WaitInv'
    OBVIOUS
  <1>1. CASE Flasher \/ StartRun \/ Abort
    BY <1>1 DEF WaitInv, Flasher, Send, Receive, Timeout, StartRun, Abort, EndRun
  <1>2. CASE BootloaderAnswers \/ ApplicationAnswers \/ Board \/ UNCHANGED flashVars
    BY <1>2 DEF WaitInv, BootloaderAnswers, ApplicationAnswers, Board, flashVars, flasher
  <1> QED
    BY <1>1, <1>2 DEF FlashNext

LEMMA FlashInvNext == FlashInv /\ WaitInv /\ [FlashNext]_flashVars => FlashInv'
  <1> SUFFICES ASSUME FlashInv, WaitInv, [FlashNext]_flashVars PROVE FlashInv'
    OBVIOUS
  <1>1. CASE Flasher
    BY <1>1, SendInv, ReceiveInv, TimeoutInv DEF Flasher, Receive, Timeout, WaitInv
  <1>2. CASE StartRun
    BY <1>2, StartRunInv
  <1>3. CASE Abort
    BY <1>3, EndRunInv DEF Abort
  <1>4. CASE BootloaderAnswers
    <2>1. PICK r \in Replies : Serve(r) /\ link' = Answer(r)
      BY <1>4 DEF BootloaderAnswers
    <2> QED
      BY <1>4, <2>1, AnswerInv DEF BootloaderAnswers, Serve, Asked
  <1>5. CASE ApplicationAnswers
    <2>1. "pos" \in Replies /\ "format" \in Replies
      BY DEF Replies
    <2> QED
      BY <1>5, <2>1, AnswerInv DEF ApplicationAnswers
  <1>6. CASE Board \/ UNCHANGED flashVars
    BY <1>6, FlashInvKept DEF Board, flashVars
  <1> QED
    BY <1>1, <1>2, <1>3, <1>4, <1>5, <1>6 DEF FlashNext

LEMMA FlashInvAlways == FlashSpec => [](FlashInv /\ WaitInv)
  <1>1. FlashInit => WaitInv
    BY DEF FlashInit, WaitInv
  <1> QED
    BY <1>1, FlashInvInit, FlashInvNext, WaitInvNext, PTL DEF FlashSpec

\* The flasher's variables keep their types, and it never asks for a block beyond the
\* last one, through every retry, timeout and restart of the run.
THEOREM FlashTypes == FlashSpec => []FlashTypeOK
  <1>1. FlashInv /\ WaitInv => FlashTypeOK
    BY DEF FlashInv
  <1> QED
    BY <1>1, FlashInvAlways, PTL

-----------------------------------------------------------------------------
(* What the board does on its own *)

PendingFields == {"op", "at", "total", "done"}

\* The memory has its units and an operation its fields.
MemInv ==
  /\ DOMAIN mem = Units /\ DOMAIN pending = PendingFields
  /\ copyAt \in Nat

\* The application region is left alone.
AppKept == \A u \in AppUnits : mem'[u] = mem[u]

\* No operation that writes to the internal flash is in progress.
Safe ==
  /\ pending.op \notin {"erase", "flash"}
  /\ pending.op = "qspiFlash" => pending.at \in Nat /\ pending.at >= QspiStart

LEMMA Regions ==
  /\ AppStart \in Nat /\ QspiStart \in Nat /\ BlStart \in Nat /\ BlSectors \in Nat \ {0}
  /\ BlStart # AppStart /\ BlStart # QspiStart /\ AppStart # QspiStart
  /\ AppUnits \subseteq Units
  /\ \A u \in AppUnits : u \in Nat /\ BlSectors < u /\ u < QspiStart /\ u \notin QspiUnits
  /\ \A u \in BlUnits : u \notin AppUnits
  /\ QspiStart \in QspiUnits
  /\ Redirect(AppStart) = AppStart /\ Redirect(BlStart) = AppStart
  /\ Redirect(QspiStart) = QspiStart
  <1>1. QspiSectors \in Nat /\ SegmentLen \in 1 .. QspiSectors
    BY LayoutAssumption, FlasherAssumption
  <1>2. QspiSectors >= 1
    BY <1>1
  <1> QED
    BY <1>2, LayoutAssumption
    DEF AppStart, QspiStart, BlStart, AppUnits, BlUnits, QspiUnits, Units, FlashUnits,
        FlashEnd, QspiEnd, Redirect

\* An operation that is none.
LEMMA NoOpFacts == DOMAIN NoOp = PendingFields /\ NoOp.op = "none"
  BY DEF NoOp, PendingFields

LEMMA BoardEffect ==
  ASSUME Board
  PROVE  \/ UNCHANGED <<mem, pending>> /\ copyAt' \in {copyAt, 0}
         \/ UNCHANGED mem /\ pending' = NoOp /\ copyAt' \in {copyAt, 0}
         \/ CopyErase \/ CopyWrite
         \/ UpdateErase /\ UNCHANGED copyAt
         \/ UpdateQspiErase /\ UNCHANGED copyAt
         \/ Cut
  <1>1. CASE Preloader
    BY <1>1 DEF Preloader, PreloaderRamTest, PreloaderEeprom, CopyCommit, kwpVars, nvm, server
  <1>2. CASE Bootloader
    <2>1. ASSUME NEW magic, BootStay(magic) \/ BootLaunch(magic)
          PROVE  \/ UNCHANGED <<mem, pending>> /\ copyAt' = copyAt
                 \/ UNCHANGED mem /\ pending' = NoOp /\ copyAt' = copyAt
      BY <2>1 DEF BootStay, BootLaunch, ServerStart, kwpVars, nvm, server
    <2> QED
      BY <1>2, <2>1 DEF Bootloader, SetFuses, Jump, ResetBy, ServerStart, kwpVars, nvm, server
  <1>3. CASE AppHealthy \/ AppPanic \/ AppRamFail \/ AppReboot \/ WatchdogReset \/ DiagReset
    BY <1>3 DEF AppHealthy, AppPanic, AppRamFail, AppReboot, WatchdogReset, DiagReset,
                ResetBy, ServerStart, kwpVars, nvm, server
  <1>4. CASE DiagTick
    BY <1>4 DEF DiagTick, Tick, boot, nvm
  <1>5. CASE DiagUpdate
    BY <1>5 DEF DiagUpdate, Update, UpdateTimeout, UpdateIdle, boot, nvm
  <1>6. CASE CutInUse
    BY <1>6 DEF CutInUse
  <1> QED
    BY <1>1, <1>2, <1>3, <1>4, <1>5, <1>6 DEF Board

\* A step that changes one unit or none.
LEMMA OneUnit ==
  ASSUME MemInv, NEW u, NEW c, mem' = [mem EXCEPT ![u] = c]
  PROVE  /\ DOMAIN mem' = Units
         /\ u \notin AppUnits => AppKept
  BY Regions DEF MemInv, AppKept

\* On its own the board changes no download but by ending it, and the application
\* region only through an operation that is not safe.
LEMMA BoardStep ==
  ASSUME MemInv, Board
  PROVE  /\ MemInv'
         /\ pending' = pending \/ ~Downloading'
         /\ Safe => Safe' /\ AppKept
  <1>1. CASE UNCHANGED <<mem, pending>> /\ copyAt' \in {copyAt, 0}
    BY <1>1 DEF MemInv, Safe, AppKept
  <1>2. CASE UNCHANGED mem /\ pending' = NoOp /\ copyAt' \in {copyAt, 0}
    BY <1>2, NoOpFacts DEF MemInv, Safe, AppKept, Downloading
  <1>3. CASE CopyErase \/ CopyWrite
    <2>1. pending' = pending /\ copyAt' \in Nat
      BY <1>3 DEF CopyErase, CopyWrite, server, MemInv
    <2>2. CASE UNCHANGED mem
      BY <2>1, <2>2 DEF MemInv, Safe, AppKept
    <2>3. CASE \E c : CopyLeft /\ mem' = [mem EXCEPT ![BlStart + copyAt] = c]
      <3>1. BlStart + copyAt \notin AppUnits
        BY <2>3, Regions DEF CopyLeft, MemInv, BlStart
      <3> QED
        BY <2>1, <2>3, <3>1, OneUnit DEF MemInv, Safe
    <2> QED
      BY <1>3, <2>2, <2>3 DEF CopyErase, CopyWrite
  <1>4. CASE UpdateErase /\ UNCHANGED copyAt
    <2>1. ~Safe
      BY <1>4 DEF UpdateErase, Safe
    <2>2. DOMAIN mem' = Units
      BY <1>4 DEF UpdateErase, EraseSector, SpoiledAt, MemInv
    <2>3. pending' \in {NoOp, NextSector(pending)}
      BY <1>4 DEF UpdateErase, EraseSector
    <2>4. NextSector(pending).op = "erase" /\ DOMAIN NextSector(pending) = PendingFields
      BY <1>4 DEF UpdateErase, NextSector, MemInv, PendingFields
    <2> QED
      BY <1>4, <2>1, <2>2, <2>3, <2>4, NoOpFacts DEF MemInv, Downloading
  <1>5. CASE UpdateQspiErase /\ UNCHANGED copyAt
    <2>1. CASE UNCHANGED mem
      BY <1>5, <2>1, NoOpFacts
      DEF UpdateQspiErase, EraseQspi, MemInv, Downloading, Safe, AppKept, PendingFields
    <2>2. CASE mem' = [u \in Units |-> IF u \in QspiNext THEN Erased ELSE mem[u]]
      <3>1. AppKept /\ DOMAIN mem' = Units
        BY <2>2, Regions DEF AppKept, QspiNext
      <3>2. pending' \in {NoOp, [pending EXCEPT !.done = @ + QspiStep]}
        BY <1>5 DEF UpdateQspiErase, EraseQspi
      <3>3. DOMAIN pending' = PendingFields /\ pending'.op \in {"none", "qspiErase"}
        BY <1>5, <3>2, NoOpFacts DEF UpdateQspiErase, MemInv, PendingFields
      <3> QED
        BY <1>5, <3>1, <3>3 DEF MemInv, Downloading, Safe
    <2> QED
      BY <1>5, <2>1, <2>2 DEF UpdateQspiErase, EraseQspi
  <1>6. CASE Cut
    <2>1. pending' = NoOp /\ copyAt' = 0
      BY <1>6 DEF Cut, ResetBy, ServerStart
    <2>2. CASE UNCHANGED mem
      BY <2>1, <2>2, NoOpFacts DEF MemInv, Downloading, Safe, AppKept
    <2>3. ASSUME NEW u \in InFlight, mem' = [mem EXCEPT ![u] = Torn]
          PROVE  DOMAIN mem' = Units /\ (Safe => AppKept)
      <3>1. ASSUME Safe PROVE u \notin AppUnits
        BY <3>1, Regions DEF InFlight, Safe
      <3> QED
        BY <2>3, <3>1, OneUnit
    <2> QED
      BY <1>6, <2>1, <2>2, <2>3, NoOpFacts DEF Cut, CutFlash, MemInv, Downloading, Safe
  <1> QED
    BY <1>1, <1>2, <1>3, <1>4, <1>5, <1>6, BoardEffect

-----------------------------------------------------------------------------
(* What the server does with a request *)

\* What an answered request leaves of memory and operation.
LEMMA ServeMem ==
  ASSUME MemInv, BootloaderAnswers
  PROVE  MemInv'
  <1>1. PICK r \in Replies : Serve(r)
    BY DEF BootloaderAnswers
  <1>2. copyAt' = copyAt
    BY DEF BootloaderAnswers, boot
  <1>3. CASE UNCHANGED <<mem, pending>>
    BY <1>2, <1>3 DEF MemInv
  <1>4. CASE UNCHANGED mem /\ DOMAIN pending' = PendingFields
    BY <1>2, <1>4 DEF MemInv
  <1>5. CASE WriteFlash(link.data, r) \/ WriteQspi(link.data, r)
    BY <1>2, <1>5 DEF WriteFlash, WriteQspi, SpoiledAt, NextBlock, MemInv
  <1>6. CASE StartDiagSession("Reprogramming", r) \/ RoutineResults(r)
             \/ FlashCheck(link.at, link.img, link.size, r)
    BY <1>3, <1>6 DEF StartDiagSession, RoutineResults, FlashCheck, RoutineRefused, Refuse, nvm
  <1>7. CASE EraseStart(link.at, link.size, r)
    <2>1. DOMAIN EraseOp(link.at, link.size) = PendingFields
      BY DEF EraseOp, PendingFields
    <2> QED
      BY <1>3, <1>4, <1>7, <2>1 DEF EraseStart, RoutineRefused, Refuse, nvm
  <1>8. CASE StartDownload(link.at, link.size, r)
    <2>1. DOMAIN DownloadOp(link.at, link.size) = PendingFields
      BY DEF DownloadOp, PendingFields
    <2> QED
      BY <1>3, <1>4, <1>8, <2>1 DEF StartDownload, Refuse, nvm
  <1>9. CASE TransferData(link.block, link.data, r)
    BY <1>3, <1>5, <1>9 DEF TransferData, Refuse, nvm
  <1>10. CASE TransferExit(r) \/ EcuReset(r)
    <2>1. DOMAIN [NoOp EXCEPT !.op = "reset"] = PendingFields
      BY NoOpFacts
    <2> QED
      BY <1>3, <1>4, <1>10, <2>1, NoOpFacts DEF TransferExit, EcuReset, Refuse, nvm
  <1> QED
    BY <1>1, <1>6, <1>7, <1>8, <1>9, <1>10 DEF Serve

LEMMA MemInvNext == MemInv /\ [FlashNext]_flashVars => MemInv'
  <1> SUFFICES ASSUME MemInv, [FlashNext]_flashVars PROVE MemInv'
    OBVIOUS
  <1>1. CASE UNCHANGED <<mem, pending, copyAt>>
    BY <1>1 DEF MemInv
  <1>2. CASE Flasher \/ StartRun \/ Abort \/ ApplicationAnswers \/ UNCHANGED flashVars
    BY <1>1, <1>2 DEF Flasher, Send, Receive, Timeout, StartRun, Abort, ApplicationAnswers,
                      AppDiagRequest, flashVars, chainVars, kwpVars, nvm, server, boot
  <1> QED
    BY <1>2, ServeMem, BoardStep DEF FlashNext

LEMMA MemInvInit == FlashInit => MemInv
  <1> SUFFICES ASSUME FlashInit PROVE MemInv
    OBVIOUS
  <1>1. DOMAIN mem = Units
    BY DEF FlashInit, Init
  <1>2. pending = NoOp /\ copyAt = 0
    BY DEF FlashInit, Init
  <1> QED
    BY <1>1, <1>2, NoOpFacts DEF MemInv

-----------------------------------------------------------------------------
(* Blocks in order *)

Base == Redirect(SegmentStart)

\* The server is d blocks into the download of the flasher's segment.
At(d) == pending.at = Base + d /\ pending.done = d % BlkMod

\* Before the answer to a block the server may be one ahead of the flasher, whether the
\* answer is on its way or lost; with the answer it is, and without a request it is not.
OrderInv ==
  /\ phase = "download" /\ link.what = "answer" /\ link.reply = "pos" /\ Downloading => At(0)
  /\ phase = "transfer" /\ Downloading =>
       /\ At(acked) \/ At(acked + 1)
       /\ ~waiting => At(acked)
       /\ link.what = "answer" /\ link.reply = "pos" => At(acked + 1)

LEMMA BaseType == Base \in Nat /\ (inQspi => Base = QspiStart) /\ (~inQspi => Base = AppStart)
  BY Regions DEF Base, SegmentStart

LEMMA OrderInvInit == FlashInit => OrderInv
  BY DEF FlashInit, OrderInv

\* The good answers to the requests of a download.
LEMMA GoodPos ==
  ASSUME NEW r, phase \in {"download", "transfer"}
  PROVE  GoodAnswer(r) => r = "pos"
  BY DEF GoodAnswer

LEMMA OrderReceive ==
  ASSUME FlashInv, OrderInv, Receive, phase \in Requests
  PROVE  OrderInv'
  <1>1. UNCHANGED pending /\ waiting' = FALSE /\ link' = Silent /\ link.what = "answer"
    BY DEF Receive, chainVars, kwpVars, server
  <1>2. CASE phase' \notin {"download", "transfer"}
    BY <1>2 DEF OrderInv
  <1>3. CASE phase' = "download"
    BY <1>1, <1>3, Messages DEF OrderInv
  <1>4. ASSUME phase' = "transfer", GoodAnswer(link.reply), Proceed
        PROVE  OrderInv'
    <2>1. phase \in {"download", "transfer"} /\ UNCHANGED <<image, inQspi>>
          /\ acked' = IF phase = "transfer" THEN acked + 1 ELSE 0
      BY <1>4, Phases DEF Proceed, FlashInv, FlashTypeOK
    <2>2. Base' = Base
      BY <2>1 DEF Base, SegmentStart
    <2>3. Downloading => At(acked')
      BY <1>1, <1>4, <2>1, GoodPos DEF OrderInv
    <2>4. Downloading' => At(acked)'
      BY <1>1, <2>2, <2>3 DEF At, Downloading
    <2> QED
      BY <1>1, <1>4, <2>4, Messages DEF OrderInv
  <1>5. CASE phase' = phase /\ phase = "poll"
    BY <1>2, <1>5
  <1> QED
    BY <1>2, <1>3, <1>4, <1>5, Phases DEF Receive, Proceed, EndRun

LEMMA OrderFlasher ==
  ASSUME FlashInv, WaitInv, OrderInv, Flasher \/ StartRun \/ Abort
  PROVE  OrderInv'
  <1>1. UNCHANGED pending
    BY DEF Flasher, Send, Receive, Timeout, StartRun, Abort, chainVars, kwpVars, server
  <1>2. CASE phase' \notin {"download", "transfer"}
    BY <1>2 DEF OrderInv
  <1>3. CASE link' = Request /\ waiting' = TRUE /\ UNCHANGED <<phase, image, inQspi, acked>>
    <2>1. Base' = Base
      BY <1>3 DEF Base, SegmentStart
    <2> QED
      BY <1>1, <1>3, <2>1, Messages DEF OrderInv, At, Downloading
  <1>4. CASE Receive
    BY <1>4, OrderReceive DEF Receive, WaitInv
  <1>5. CASE Timeout
    BY <1>2, <1>3, <1>5 DEF Timeout, Patient, EndRun, FlashInv, FlashTypeOK
  <1>6. CASE StartRun \/ Abort
    BY <1>2, <1>6 DEF StartRun, Abort, EndRun
  <1>7. CASE Send
    BY <1>3, <1>7 DEF Send
  <1> QED
    BY <1>4, <1>5, <1>6, <1>7 DEF Flasher

\* The board ends a download or leaves it as it is.
LEMMA OrderKept ==
  ASSUME OrderInv, UNCHANGED flasher, pending' = pending \/ ~Downloading',
         link' = link \/ link' = Answer("format")
  PROVE  OrderInv'
  <1>1. Base' = Base
    BY DEF flasher, Base, SegmentStart
  <1>2. link' = link \/ link'.reply = "format"
    BY Messages
  <1> QED
    BY <1>1, <1>2 DEF OrderInv, At, Downloading, flasher

\* Remainders are unique.
LEMMA Remainder ==
  ASSUME NEW m \in Nat \ {0}, NEW k \in Int, NEW r \in 0 .. m - 1
  PROVE  (m * k + r) % m = r
  <1> DEFINE x == m * k + r
             p == x \div m
             t == x % m
  <1>1. x \in Int /\ x = m * p + t /\ p \in Int /\ t \in 0 .. m - 1
    OBVIOUS
  <1>2. m * (p - k) = r - t /\ r - t < m /\ 0 - m < r - t
    <2> HIDE DEF p, t
    <2> QED
      BY <1>1
  <1>3. \A d \in Int : m * d < m /\ 0 - m < m * d => d = 0
    OBVIOUS
  <1>4. p - k = 0
    <2> HIDE DEF p, t
    <2> QED
      BY <1>1, <1>2, <1>3
  <1> QED
    BY <1>1, <1>2, <1>4

\* The number of a block in its width: the next one differs, and is that of the next
\* block.
LEMMA NextId ==
  ASSUME NEW d \in Nat
  PROVE  /\ d % BlkMod \in Nat /\ d % BlkMod # (d + 1) % BlkMod
         /\ ((d % BlkMod) + 1) % BlkMod = (d + 1) % BlkMod
  <1>1. BlkMod \in Nat \ {0} /\ BlkMod > 1
    BY WidthAssumption, FlasherAssumption
  <1> DEFINE q == d \div BlkMod
             r == d % BlkMod
  <1>2. d = BlkMod * q + r /\ q \in Int /\ r \in 0 .. BlkMod - 1
    BY <1>1
  <1> HIDE DEF q, r
  <1>3. CASE r + 1 < BlkMod
    <2>1. r + 1 \in 0 .. BlkMod - 1 /\ d + 1 = BlkMod * q + (r + 1) /\ r + 1 = BlkMod * 0 + (r + 1)
      BY <1>1, <1>2, <1>3
    <2>2. (d + 1) % BlkMod = r + 1 /\ (r + 1) % BlkMod = r + 1
      BY <1>1, <1>2, <2>1, Remainder
    <2> QED
      BY <1>2, <2>2 DEF r
  <1>4. CASE r + 1 = BlkMod
    <2>1. d + 1 = BlkMod * (q + 1) + 0 /\ r + 1 = BlkMod * 1 + 0 /\ 0 \in 0 .. BlkMod - 1
          /\ q + 1 \in Int
      BY <1>1, <1>2, <1>4
    <2>2. (d + 1) % BlkMod = 0 /\ (r + 1) % BlkMod = 0
      BY <1>1, <2>1, Remainder
    <2> QED
      BY <1>1, <1>2, <1>4, <2>2 DEF r
  <1> QED
    BY <1>1, <1>2, <1>3, <1>4

LEMMA OrderServe ==
  ASSUME FlashInv, OrderInv, BootloaderAnswers
  PROVE  OrderInv'
  <1>1. PICK r \in Replies : Serve(r) /\ link' = Answer(r)
    BY DEF BootloaderAnswers
  <1>2. UNCHANGED flasher /\ Base' = Base /\ link'.what = "answer" /\ link'.reply = r
    BY <1>1, Messages DEF BootloaderAnswers, flasher, Base, SegmentStart
  <1>3. link.what = "request"
    BY <1>1 DEF Serve, Asked
  <1>4. CASE phase = "download"
    <2>1. link = Request /\ waiting
      BY <1>3, <1>4 DEF FlashInv, LinkInv, Requests
    <2>2. StartDownload(SegmentStart, SegmentSize, r)
      BY <1>1, <1>4, <2>1, RequestFields DEF Serve, Asked
    <2>3. r = "pos" => pending' = DownloadOp(SegmentStart, SegmentSize)
      BY <2>2 DEF StartDownload, Refuse
    <2>4. 0 % BlkMod = 0
      BY WidthAssumption
    <2>5. r = "pos" => At(0)'
      BY <1>2, <2>3, <2>4, BaseType DEF At, DownloadOp, Base
    <2> QED
      BY <1>2, <1>4, <2>5 DEF OrderInv, flasher
  <1>5. CASE phase = "transfer"
    <2>1. link = Request /\ waiting
      BY <1>3, <1>5 DEF FlashInv, LinkInv, Requests
    <2>2. TransferData(acked % BlkMod, link.data, r)
      BY <1>1, <1>5, <2>1, RequestFields DEF Serve, Asked
    <2>3. acked \in Nat
      BY Sizes DEF FlashInv, FlashTypeOK, SegmentSize
    <2>4. CASE UNCHANGED pending /\ r # "pos"
      BY <1>2, <1>5, <2>1, <2>4 DEF OrderInv, At, Downloading, flasher
    <2>5. CASE Downloading /\ BlockExpected(acked % BlkMod) /\ pending' = NextBlock
      <3>1. pending.done = acked % BlkMod /\ (At(acked) \/ At(acked + 1))
        BY <1>5, <2>5 DEF BlockExpected, OrderInv
      <3>2. At(acked + 1) => pending.done = (acked + 1) % BlkMod
        BY DEF At
      <3>3. At(acked)
        BY <2>3, <3>1, <3>2, NextId
      <3>4. pending'.at = Base + (acked + 1)
        BY <2>3, <2>5, <3>3, BaseType DEF At, NextBlock
      <3>5. pending'.done = (acked + 1) % BlkMod
        BY <2>3, <2>5, <3>1, NextId DEF NextBlock
      <3>6. At(acked + 1)'
        BY <1>2, <3>4, <3>5 DEF At, flasher
      <3> QED
        BY <1>2, <1>5, <2>1, <3>6 DEF OrderInv, flasher
    <2> QED
      BY <2>2, <2>4, <2>5 DEF TransferData, WriteFlash, WriteQspi, Refuse
  <1> QED
    BY <1>2, <1>4, <1>5 DEF OrderInv, flasher

LEMMA OrderInvNext ==
  FlashInv /\ WaitInv /\ MemInv /\ OrderInv /\ [FlashNext]_flashVars => OrderInv'
  <1> SUFFICES ASSUME FlashInv, WaitInv, MemInv, OrderInv, [FlashNext]_flashVars PROVE OrderInv'
    OBVIOUS
  <1>1. CASE ApplicationAnswers
    <2>1. UNCHANGED <<flasher, pending>>
      BY <1>1 DEF ApplicationAnswers, AppDiagRequest, chainVars, kwpVars, server
    <2>2. CASE link' = Answer("format")
      BY <2>1, <2>2, OrderKept
    <2>3. CASE Asked("session")
      <3>1. phase \notin {"download", "transfer"}
        BY <2>3, Messages, RequestFields DEF Asked, FlashInv, LinkInv, Requests
      <3> QED
        BY <2>1, <3>1 DEF OrderInv, flasher
    <2> QED
      BY <1>1, <2>2, <2>3 DEF ApplicationAnswers
  <1>2. CASE Board
    BY <1>2, BoardStep, OrderKept DEF Board
  <1>3. CASE UNCHANGED flashVars
    BY <1>3, OrderKept DEF flashVars, chainVars, kwpVars, server
  <1> QED
    BY <1>1, <1>2, <1>3, OrderFlasher, OrderServe DEF FlashNext

LEMMA MemInvAlways == FlashSpec => []MemInv
  BY MemInvInit, MemInvNext, PTL DEF FlashSpec

LEMMA OrderInvAlways == FlashSpec => []OrderInv
  BY FlashInvAlways, MemInvAlways, OrderInvInit, OrderInvNext, PTL DEF FlashSpec

\* During a download the server is at the flasher's next block or one ahead of it, for
\* block ids of any width above one value: no retry makes it skip or repeat a block.
THEOREM BlockOrder == FlashSpec => []BlocksInOrder
  <1>1. FlashInv /\ OrderInv => BlocksInOrder
    <2> SUFFICES ASSUME FlashInv, OrderInv, phase = "transfer", Downloading
                 PROVE  pending.at - Redirect(SegmentStart) \in {acked, acked + 1}
      BY DEF BlocksInOrder
    <2>1. acked \in Nat /\ Base \in Nat
      BY Sizes, BaseType DEF FlashInv, FlashTypeOK, SegmentSize
    <2>2. pending.at \in {Base + acked, Base + (acked + 1)}
      BY DEF OrderInv, At
    <2> QED
      BY <2>1, <2>2 DEF Base
  <1> QED
    BY <1>1, FlashInvAlways, OrderInvAlways, PTL

-----------------------------------------------------------------------------
(* Success means written *)

Whole == HoldsAt(mem, AppStart, image, ImageLen(image))

\* Once the check has passed, the image is in place and nothing that could write to it
\* is in progress: not while the answer is on its way, nor in the QSPI segment and the
\* reset that follow it, nor after them.
WholeInv ==
  /\ phase = "check" => ~inQspi
  /\ phase = "check" /\ link.what = "answer" /\ link.reply = "crcOk" => Whole /\ Safe
  /\ inQspi /\ phase \in Requests => Whole /\ Safe
  /\ phase \in {"reset", "done"} => Whole /\ Safe

LEMMA WholeKept ==
  ASSUME FlashInv, Whole, AppKept, UNCHANGED image
  PROVE  Whole'
  <1>1. ImageLen(image) \in Nat /\ ImageLen(image) < AppSectors /\ AppSectors \in Nat
        /\ BlSectors \in Nat
    BY LayoutAssumption DEF ImageLen
  <1>2. \A k \in 1 .. ImageLen(image) : AppStart + k - 1 \in AppUnits
    BY <1>1 DEF AppStart, AppUnits, FlashEnd
  <1> QED
    BY <1>2 DEF Whole, HoldsAt, AppKept

LEMMA WholeReceive ==
  ASSUME FlashInv, WholeInv, Receive, phase \in Requests
  PROVE  WholeInv'
  <1>1. UNCHANGED <<mem, pending, image>> /\ link' = Silent /\ link.what = "answer"
    BY DEF Receive, Proceed, EndRun, chainVars, kwpVars, nvm, server
  <1>2. (Whole /\ Safe) => (Whole /\ Safe)'
    BY <1>1 DEF Whole, Safe
  <1>3. CASE EndRun("failed")
    BY <1>3, Messages DEF EndRun, WholeInv, Requests
  <1>4. CASE UNCHANGED <<phase, inQspi>>
    BY <1>1, <1>2, <1>4, Messages DEF WholeInv
  <1>5. CASE Proceed /\ GoodAnswer(link.reply)
    <2>1. phase' = AfterPhase /\ (phase = "check" => link.reply = "crcOk")
      BY <1>5 DEF Proceed, GoodAnswer
    <2>2. inQspi' = (inQspi \/ (phase = "check" /\ AfterPhase = "erase"))
      BY <1>5 DEF Proceed
    <2>3. phase' = "check" => ~inQspi'
      BY <2>1, <2>2, Phases
    <2>4. inQspi' => Whole /\ Safe
      BY <1>1, <2>1, <2>2 DEF WholeInv
    <2>5. phase' \in {"reset", "done"} => Whole /\ Safe
      BY <1>1, <2>1, Phases DEF WholeInv
    <2> QED
      BY <1>1, <1>2, <2>3, <2>4, <2>5, Messages DEF WholeInv
  <1> QED
    BY <1>3, <1>4, <1>5 DEF Receive

LEMMA WholeFlasher ==
  ASSUME FlashInv, WaitInv, WholeInv, Flasher \/ StartRun \/ Abort
  PROVE  WholeInv'
  <1>1. UNCHANGED <<mem, pending>>
    BY DEF Flasher, Send, Receive, Timeout, StartRun, Abort, chainVars, kwpVars, nvm, server
  <1>2. CASE link' \in {Request, Silent} /\ UNCHANGED <<phase, image, inQspi>>
    <2>1. (Whole /\ Safe) => (Whole /\ Safe)'
      BY <1>1, <1>2 DEF Whole, Safe
    <2> QED
      BY <1>2, <2>1, Messages DEF WholeInv
  <1>3. CASE phase' \in {"session", "failed"} /\ (phase' = "session" => ~inQspi')
    BY <1>3 DEF WholeInv, Requests
  <1>4. CASE Receive
    BY <1>4, WholeReceive DEF Receive, WaitInv
  <1>5. CASE Timeout
    BY <1>2, <1>3, <1>5 DEF Timeout, EndRun
  <1>6. CASE StartRun \/ Abort \/ Send
    BY <1>2, <1>3, <1>6 DEF StartRun, Abort, EndRun, Send
  <1> QED
    BY <1>4, <1>5, <1>6 DEF Flasher

\* The operations on the QSPI segment are ones on the QSPI memory.
LEMMA QspiOps ==
  /\ \A n : EraseOp(QspiStart, n).op = "qspiErase"
  /\ \A n : DownloadOk(QspiStart, n) =>
       DownloadOp(QspiStart, n).op = "qspiFlash" /\ DownloadOp(QspiStart, n).at = QspiStart
  <1>1. QspiStart \notin AppUnits
    BY Regions
  <1> QED
    BY <1>1, Regions DEF EraseOp, DownloadOk, DownloadOp, InRegion

\* A request that does not name the application leaves it alone.
LEMMA ServeSafe ==
  ASSUME MemInv, Safe, BootloaderAnswers,
         link.service \in {"erase", "download"} => link.at = QspiStart
  PROVE  Safe' /\ AppKept
  <1>1. PICK r \in Replies : Serve(r)
    BY DEF BootloaderAnswers
  <1>4. CASE UNCHANGED <<mem, pending>>
    BY <1>4 DEF Safe, AppKept
  <1>5. CASE UNCHANGED mem /\ pending'.op \in {"none", "reset", "qspiErase"}
    BY <1>5 DEF Safe, AppKept
  <1>6. CASE Asked("session") /\ StartDiagSession("Reprogramming", r)
    BY <1>4, <1>6 DEF StartDiagSession, nvm
  <1>7. CASE Asked("erase") /\ EraseStart(link.at, link.size, r)
    <2>1. EraseOp(link.at, link.size).op = "qspiErase"
      BY <1>7, QspiOps DEF Asked
    <2> QED
      BY <1>4, <1>5, <1>7, <2>1 DEF EraseStart, RoutineRefused, Refuse, nvm
  <1>8. CASE Asked("poll") /\ RoutineResults(r)
    BY <1>4, <1>8 DEF RoutineResults, Refuse, nvm
  <1>9. CASE Asked("download") /\ StartDownload(link.at, link.size, r)
    <2>1. DownloadOk(link.at, link.size) =>
            DownloadOp(link.at, link.size).op = "qspiFlash"
            /\ DownloadOp(link.at, link.size).at = QspiStart
      BY <1>9, QspiOps DEF Asked
    <2>2. CASE UNCHANGED mem /\ pending'.op = "qspiFlash" /\ pending'.at = QspiStart
      BY <2>2, Regions DEF Safe, AppKept
    <2> QED
      BY <1>4, <1>9, <2>1, <2>2 DEF StartDownload, Refuse, nvm
  <1>10. CASE Asked("transfer") /\ TransferData(link.block, link.data, r)
    <2>1. CASE WriteQspi(link.data, r)
      <3>1. pending.at \in QspiUnits /\ pending.at \notin AppUnits
        BY <2>1, Regions DEF WriteQspi
      <3>2. AppKept
        BY <2>1, <3>1, OneUnit DEF WriteQspi
      <3>3. pending'.op = "qspiFlash" /\ pending'.at = pending.at + 1
        BY <2>1 DEF WriteQspi, NextBlock, MemInv, PendingFields
      <3> QED
        BY <2>1, <3>2, <3>3, Regions DEF WriteQspi, Safe
    <2> QED
      BY <1>4, <1>10, <2>1 DEF TransferData, WriteFlash, Refuse, nvm, Safe
  <1>11. CASE Asked("exit") /\ TransferExit(r)
    BY <1>4, <1>5, <1>11, NoOpFacts DEF TransferExit, Refuse, nvm
  <1>12. CASE Asked("check") /\ FlashCheck(link.at, link.img, link.size, r)
    BY <1>4, <1>12 DEF FlashCheck, RoutineRefused, Refuse, nvm
  <1>13. CASE Asked("reset") /\ EcuReset(r)
    <2>1. [NoOp EXCEPT !.op = "reset"].op = "reset"
      BY NoOpFacts DEF PendingFields
    <2> QED
      BY <1>4, <1>5, <1>13, <2>1 DEF EcuReset, Refuse, nvm
  <1> QED
    BY <1>1, <1>6, <1>7, <1>8, <1>9, <1>10, <1>11, <1>12, <1>13 DEF Serve

\* The check passes only when the image is in place and no operation is in progress.
LEMMA CheckPasses ==
  ASSUME FlashInv, phase = "check", ~inQspi, BootloaderAnswers, link'.reply = "crcOk"
  PROVE  (Whole /\ Safe)'
  <1>1. PICK r \in Replies : Serve(r) /\ link' = Answer(r)
    BY DEF BootloaderAnswers
  <1>2. link = Request /\ r = "crcOk"
    BY <1>1, Messages DEF Serve, Asked, FlashInv, LinkInv, Requests
  <1>3. FlashCheck(SegmentStart, image, SegmentSize, "crcOk")
    BY <1>1, <1>2, RequestFields DEF Serve, Asked
  <1>4. RoutineAllowed /\ CheckMatches(SegmentStart, image, SegmentSize)
        /\ UNCHANGED <<mem, pending>>
    BY <1>3 DEF FlashCheck, RoutineRefused, Refuse
  <1>5. Redirect(SegmentStart) = AppStart /\ SegmentSize = ImageLen(image)
    BY Regions DEF SegmentStart, SegmentSize
  <1>6. Whole /\ pending.op = "none" /\ UNCHANGED image
    BY <1>4, <1>5 DEF CheckMatches, Whole, RoutineAllowed, BootloaderAnswers, flasher
  <1> QED
    BY <1>4, <1>6 DEF Whole, Safe

LEMMA WholeInvNext ==
  FlashInv /\ WaitInv /\ MemInv /\ WholeInv /\ [FlashNext]_flashVars => WholeInv'
  <1> SUFFICES ASSUME FlashInv, WaitInv, MemInv, WholeInv, [FlashNext]_flashVars
               PROVE  WholeInv'
    OBVIOUS
  <1>1. ASSUME UNCHANGED flasher, Whole /\ Safe => Safe' /\ AppKept,
               link' = link \/ link'.reply # "crcOk"
        PROVE  WholeInv'
    <2>1. UNCHANGED <<phase, image, inQspi>>
      BY <1>1 DEF flasher
    <2>2. (Whole /\ Safe) => (Whole /\ Safe)'
      BY <1>1, <2>1, WholeKept
    <2> QED
      BY <1>1, <2>1, <2>2 DEF WholeInv
  <1>2. CASE BootloaderAnswers
    <2>1. UNCHANGED <<phase, image, inQspi>> /\ link.what = "request"
      BY <1>2 DEF BootloaderAnswers, flasher, Serve, Asked
    <2>2. CASE phase \notin Requests
      BY <2>1, <2>2 DEF WholeInv, FlashInv, LinkInv, Requests, Silent
    <2>3. ASSUME phase \in Requests, inQspi \/ phase = "reset"
          PROVE  (Whole /\ Safe)'
      <3>1. link = Request /\ link.service = phase /\ link.at = SegmentStart
        BY <2>1, <2>3, RequestFields DEF FlashInv, LinkInv
      <3>2. link.service \in {"erase", "download"} => link.at = QspiStart
        BY <2>3, <3>1 DEF SegmentStart
      <3> QED
        BY <1>2, <2>1, <2>3, <3>2, ServeSafe, WholeKept DEF WholeInv
    <2>4. CASE phase \in Requests
      BY <1>2, <2>1, <2>3, <2>4, CheckPasses DEF WholeInv, Requests
    <2> QED
      BY <2>2, <2>4
  <1>3. CASE ApplicationAnswers
    <2>1. UNCHANGED <<flasher, mem, pending>>
      BY <1>3 DEF ApplicationAnswers, AppDiagRequest, chainVars, kwpVars, nvm, server
    <2>2. link'.reply # "crcOk"
      BY <1>3, Messages DEF ApplicationAnswers
    <2> QED
      BY <1>1, <2>1, <2>2 DEF Safe, AppKept
  <1>4. CASE Board
    BY <1>1, <1>4, BoardStep DEF Board
  <1>5. CASE UNCHANGED flashVars
    BY <1>1, <1>5 DEF flashVars, chainVars, kwpVars, nvm, server, Safe, AppKept
  <1> QED
    BY <1>2, <1>3, <1>4, <1>5, WholeFlasher DEF FlashNext

LEMMA WholeInvAlways == FlashSpec => []WholeInv
  <1>1. FlashInit => WholeInv
    BY DEF FlashInit, WholeInv, Requests
  <1> QED
    BY <1>1, FlashInvAlways, MemInvAlways, WholeInvNext, PTL DEF FlashSpec

\* A run of the flasher that reports success has the whole image in place: whatever was
\* lost and sent again, whatever earlier runs and power cuts left behind, and whatever the
\* flash controllers and a QSPI segment did after the check.
THEOREM SuccessWhole == FlashSpec => []SuccessIsWhole
  <1>1. WholeInv => SuccessIsWhole
    BY DEF WholeInv, SuccessIsWhole, Whole
  <1> QED
    BY <1>1, WholeInvAlways, PTL

-----------------------------------------------------------------------------
(* Updates implement the abstract update *)

Flagged  == see.appDone /\ see.appCrc
AppIn(m) == \E app \in AppImages : HoldsAt(m, AppStart, app, AppLen)

\* What may lie in a unit: besides nothing and rubbish, the unit of an application
\* image that belongs there.
Fits(u, c) ==
  \/ c \in {Erased, Torn}
  \/ u \in BlUnits /\ c[1] \in BlImages
  \/ u \in AppUnits /\ \E app \in AppImages : c = <<app, u - BlSectors>>
  \/ u \in QspiUnits /\ \E app \in AppImages : c = <<app, u - FlashEnd - 1 + AppLen>>

AllFit == \A u \in Units : Fits(u, mem[u])

\* No bootloader is waiting to be copied, or is being copied.
NoCopy ==
  /\ ~see.blPend /\ DOMAIN see = SeeFields
  /\ stage \notin {"copyErase", "copyWrite", "copyCommit"}

\* A request on its way, also one of a run that was stopped, asks for nothing that
\* would spoil an application in service.
RequestInv ==
  link.what = "request" =>
    /\ link.at \in {AppStart, QspiStart} /\ link.img \in AppImages
    /\ link.service = "check" => link.at = AppStart /\ link.size = AppLen
    /\ link.service = "download" /\ link.at = AppStart => ~Flagged
    /\ link.service = "transfer" /\ Downloading /\ link.block = pending.done
       /\ pending.at \in Units => Fits(pending.at, link.data)

\* From the answer to its erase until the check the application is withdrawn.
Withdrawn ==
  /\ ~inQspi /\ phase \in {"poll", "download", "transfer", "exit"} => ~Flagged
  /\ ~inQspi /\ phase = "erase" /\ link.what = "answer" /\ link.reply = "pos" => ~Flagged

\* The marks of an application are right, and nothing in progress touches it.
MarksRight == Flagged => AppIn(mem) /\ Safe

AppInv == AllFit /\ NoCopy /\ RequestInv /\ Withdrawn /\ MarksRight

\* The first unit of an application image is at the start of the application region.
LEMMA FirstUnit ==
  ASSUME AllFit, NEW u \in Units, NEW img \in Images, mem[u] = <<img, 1>>
  PROVE  /\ img \in AppImages /\ u \notin BlUnits => u = AppStart
         /\ img \in BlImages => u \in BlUnits
         /\ img \in AppImages => u \notin BlUnits
  <1>1. BlSectors \in Nat /\ AppSectors \in Nat /\ AppLen \in Nat \ {0}
    BY LayoutAssumption
  <1>2. <<img, 1>> \notin {Erased, Torn} /\ Fits(u, <<img, 1>>)
    BY DEF AllFit, Erased, Torn
  <1>3. u \in QspiUnits => u \in Int /\ u - FlashEnd - 1 + AppLen > 1 /\ FlashEnd \in Nat
    BY <1>1, LayoutAssumption DEF QspiUnits, QspiStart, QspiEnd, FlashEnd
  <1>4. u \in AppUnits => u \in Int
    BY Regions
  <1> QED
    BY <1>1, <1>2, <1>3, <1>4, Regions, ImageAssumption DEF Fits, AppStart, Images

\* A check that passes has found an application at its place, and no bootloader.
LEMMA CheckFinds ==
  ASSUME AllFit, NEW a \in Nat
  PROVE  /\ \A app \in AppImages : CheckMatches(a, app, AppLen) =>
              HoldsAt(mem, AppStart, app, AppLen)
         /\ \A bl \in BlImages : ~CheckMatches(BlStart, bl, BlSectors)
  <1>1. 1 \in 1 .. AppLen /\ 1 \in 1 .. BlSectors
    BY LayoutAssumption
  <1>2. ASSUME NEW app \in AppImages, CheckMatches(a, app, AppLen)
        PROVE  HoldsAt(mem, AppStart, app, AppLen)
    <2>1. Redirect(a) \in Nat /\ Redirect(a) + 1 - 1 = Redirect(a)
      BY Regions DEF Redirect
    <2>2. Redirect(a) \in Units /\ mem[Redirect(a)] = <<app, 1>>
      BY <1>1, <1>2, <2>1 DEF CheckMatches, HoldsAt
    <2>3. Redirect(a) = AppStart
      BY <2>2, FirstUnit DEF Images
    <2> QED
      BY <1>2, <2>3 DEF CheckMatches
  <1>3. ASSUME NEW bl \in BlImages, CheckMatches(BlStart, bl, BlSectors)
        PROVE  FALSE
    <2>1. Redirect(BlStart) = AppStart /\ AppStart \in Nat /\ AppStart + 1 - 1 = AppStart
      BY Regions
    <2>2. AppStart \in Units /\ mem[AppStart] = <<bl, 1>>
      BY <1>1, <1>3, <2>1 DEF CheckMatches, HoldsAt
    <2>3. AppStart \notin BlUnits
      BY LayoutAssumption DEF AppStart, BlUnits
    <2> QED
      BY <2>2, <2>3, FirstUnit DEF Images
  <1> QED
    BY <1>2, <1>3

\* What a cut may leave of a record that was being written.
LEMMA TornSee ==
  ASSUME AppInv, NEW new \in SeeWrites, see' \in TornWrites(see, new)
  PROVE  /\ ~see'.blPend /\ DOMAIN see' = SeeFields
         /\ Flagged' => Flagged \/ AppIn(mem)
  <1>1. new = EraseMark(see) \/ (new = AppChecked(see) /\ AppIn(mem))
    <2>1. stage # "copyCommit"
      BY DEF AppInv, NoCopy
    <2>2. ASSUME NEW b \in Addresses, NEW i \in AppImages, CheckMatches(b, i, AppLen)
          PROVE  AppIn(mem)
      BY <2>2, CheckFinds, WidthAssumption DEF AppInv, AppIn
    <2>3. ASSUME NEW j \in BlImages, CheckMatches(BlStart, j, BlSectors)
          PROVE  FALSE
      BY <2>3, CheckFinds DEF AppInv
    <2> QED
      BY <2>1, <2>2, <2>3 DEF SeeWrites
  <1>3. DOMAIN see' = SeeFields /\ (\A f \in {"appDone", "blPend", "appCrc"} :
          see'[f] = see[f] \/ see'[f] = new[f])
    BY DEF TornWrites, WrittenUpTo, SeeFields
  <1>4. ~new.blPend /\ (new = EraseMark(see) => ~new.appDone /\ ~new.appCrc)
    BY <1>1 DEF AppInv, NoCopy, EraseMark, AppChecked, SeeFields
  <1>5. ~see'.blPend
    BY <1>3, <1>4 DEF AppInv, NoCopy
  <1>6. Flagged' => Flagged \/ AppIn(mem)
    BY <1>1, <1>3, <1>4 DEF Flagged
  <1> QED
    BY <1>3, <1>5, <1>6

\* What the board does on its own to the record, and that it copies nothing.
LEMMA BoardSee ==
  ASSUME AppInv, Board
  PROVE  /\ stage' \notin {"copyErase", "copyWrite", "copyCommit"}
         /\ \/ UNCHANGED see
            \/ /\ \E new \in SeeWrites : see' \in TornWrites(see, new)
               /\ UNCHANGED mem /\ pending' = NoOp
               /\ Asked("erase") \/ Asked("check")
  <1>1. CASE Preloader
    BY <1>1 DEF Preloader, PreloaderRamTest, PreloaderEeprom, AfterEeprom, CopyErase, CopyWrite,
                CopyCommit, kwpVars, nvm, AppInv, NoCopy
  <1>2. CASE Bootloader
    <2>1. ASSUME NEW magic, BootStay(magic) \/ BootLaunch(magic)
          PROVE  UNCHANGED see /\ stage' \in {"diag", "launch"}
      BY <2>1 DEF BootStay, BootLaunch, kwpVars, nvm
    <2>2. ASSUME SetFuses \/ Jump
          PROVE  UNCHANGED see /\ stage' \in {"preloader", "dead", "appStart", "bootloader"}
      BY <2>2 DEF SetFuses, Jump, ResetBy, kwpVars, nvm
    <2> QED
      BY <1>2, <2>1, <2>2 DEF Bootloader
  <1>3. CASE AppHealthy \/ AppPanic \/ AppRamFail \/ AppReboot \/ WatchdogReset \/ DiagReset
    BY <1>3 DEF AppHealthy, AppPanic, AppRamFail, AppReboot, WatchdogReset, DiagReset,
                ResetBy, kwpVars, nvm
  <1>4. CASE DiagTick \/ DiagUpdate
    BY <1>4 DEF DiagTick, Tick, boot, nvm, DiagUpdate, Update, UpdateTimeout, UpdateErase,
                UpdateQspiErase, UpdateIdle, AppInv, NoCopy
  <1>5. CASE CutInUse
    BY <1>5 DEF CutInUse, Cut, CutFlash, ResetBy, ServerStart, AppInv, NoCopy
  <1> QED
    BY <1>1, <1>2, <1>3, <1>4, <1>5 DEF Board

LEMMA BoardFits ==
  ASSUME AppInv, MemInv, Board
  PROVE  AllFit'
  <1>1. ASSUME \A u \in Units : mem'[u] \in {mem[u], Erased, Torn}
        PROVE  AllFit'
    BY <1>1 DEF AppInv, AllFit, Fits
  <1>2. CASE UNCHANGED mem
    BY <1>1, <1>2
  <1>3. ASSUME NEW u, NEW c \in {Erased, Torn}, mem' = [mem EXCEPT ![u] = c]
        PROVE  AllFit'
    BY <1>1, <1>3 DEF MemInv
  <1>4. CASE UpdateErase
    BY <1>2, <1>3, <1>4 DEF UpdateErase, EraseSector, SpoiledAt
  <1>5. CASE UpdateQspiErase
    BY <1>1, <1>2, <1>5 DEF UpdateQspiErase, EraseQspi
  <1>6. CASE Cut
    BY <1>2, <1>3, <1>6 DEF Cut, CutFlash
  <1>7. ~CopyErase /\ ~CopyWrite
    BY DEF CopyErase, CopyWrite, AppInv, NoCopy
  <1> QED
    BY <1>2, <1>4, <1>5, <1>6, <1>7, BoardEffect

LEMMA AppKeptIn ==
  ASSUME AppKept
  PROVE  /\ AppIn(mem) => AppIn(mem')
         /\ \A app \in AppImages :
              HoldsAt(mem', AppStart, app, AppLen) <=> HoldsAt(mem, AppStart, app, AppLen)
  <1>1. AppLen \in Nat /\ AppLen < AppSectors /\ AppSectors \in Nat /\ BlSectors \in Nat
    BY LayoutAssumption
  <1>2. \A k \in 1 .. AppLen : AppStart + k - 1 \in AppUnits
    BY <1>1 DEF AppStart, AppUnits, FlashEnd
  <1>3. \A app \in AppImages :
          HoldsAt(mem', AppStart, app, AppLen) <=> HoldsAt(mem, AppStart, app, AppLen)
    BY <1>2 DEF HoldsAt, AppKept
  <1> QED
    BY <1>3 DEF AppIn

\* The step does not touch an application in service, or withdraws it.
AppSpared == Flagged => AppKept \/ ~Flagged'

LEMMA AppBoard ==
  ASSUME FlashInv, AppInv, MemInv, Board
  PROVE  AppInv' /\ AppSpared
  <1>1. UNCHANGED <<flasher, link>>
    BY DEF Board
  <1>2. MemInv' /\ (pending' = pending \/ ~Downloading') /\ (Safe => Safe' /\ AppKept)
    BY BoardStep
  <1>3. AllFit' /\ NoCopy'
    BY BoardFits, BoardSee, TornSee DEF AppInv, NoCopy
  <1>4. MarksRight'
    <2>1. CASE UNCHANGED see
      BY <1>2, <2>1, AppKeptIn DEF AppInv, MarksRight, Flagged
    <2>2. CASE /\ \E new \in SeeWrites : see' \in TornWrites(see, new)
               /\ UNCHANGED mem /\ pending' = NoOp
      BY <2>2, TornSee, NoOpFacts DEF AppInv, MarksRight, Safe
    <2> QED
      BY <2>1, <2>2, BoardSee
  <1>5. UNCHANGED see \/ Asked("erase") \/ Asked("check")
    BY BoardSee
  <1>6. Asked("erase") \/ Asked("check") => link.service \in {"erase", "check"}
    BY DEF Asked
  <1>7. RequestInv'
    BY <1>1, <1>2, <1>5, <1>6 DEF AppInv, RequestInv, Flagged, Fits, Downloading
  <1>8. Withdrawn'
    <2>1. phase \in {"poll", "download", "transfer", "exit"} => UNCHANGED see
      BY <1>5, <1>6, RequestFields DEF Asked, FlashInv, LinkInv, Requests
    <2>2. link.what = "answer" => UNCHANGED see
      BY <1>5 DEF Asked
    <2> QED
      BY <1>1, <2>1, <2>2 DEF AppInv, Withdrawn, Flagged, flasher
  <1>9. AppSpared
    BY <1>2 DEF AppInv, MarksRight, AppSpared
  <1> QED
    BY <1>3, <1>4, <1>7, <1>8, <1>9 DEF AppInv

LEMMA RequestFits ==
  ASSUME FlashInv, OrderInv, image \in AppImages, phase = "transfer", Downloading,
         acked % BlkMod = pending.done
  PROVE  Fits(pending.at, SegmentUnit(acked + 1))
  <1>1. acked \in Nat /\ acked < SegmentSize /\ image \notin BlImages
    BY Sizes, ImageAssumption DEF FlashInv, FlashTypeOK, SegmentSize
  <1>2. pending.at = Base + acked
    BY <1>1, NextId DEF OrderInv, At
  <1>3. AppLen \in Nat /\ AppLen < AppSectors /\ AppSectors \in Nat /\ BlSectors \in Nat
        /\ QspiSectors \in Nat /\ SegmentLen \in Nat /\ SegmentLen <= QspiSectors
    BY LayoutAssumption, FlasherAssumption
  <1>4. CASE inQspi
    <2>1. pending.at = QspiStart + acked /\ acked < SegmentLen
      BY <1>1, <1>2, <1>4, BaseType DEF SegmentSize
    <2>2. pending.at \in QspiUnits /\ pending.at - FlashEnd - 1 + AppLen = AppLen + (acked + 1)
      BY <1>1, <1>3, <2>1 DEF QspiUnits, QspiEnd, QspiStart, FlashEnd
    <2> QED
      BY <1>4, <2>2 DEF Fits, SegmentUnit
  <1>5. CASE ~inQspi
    <2>1. pending.at = AppStart + acked /\ acked < AppLen
      BY <1>1, <1>2, <1>5, BaseType DEF SegmentSize, ImageLen
    <2>2. pending.at \in AppUnits /\ pending.at - BlSectors = acked + 1
      BY <1>1, <1>3, <2>1 DEF AppUnits, AppStart, FlashEnd
    <2> QED
      BY <1>5, <2>2 DEF Fits, SegmentUnit
  <1> QED
    BY <1>4, <1>5

\* The request of the phase the flasher is at.
LEMMA FreshRequest ==
  ASSUME FlashInv, OrderInv, WholeInv, AppInv, image \in AppImages, phase \in Requests,
         link' = Request, UNCHANGED <<see, pending, phase, inQspi>>
  PROVE  RequestInv'
  <1>1. link'.at \in {AppStart, QspiStart} /\ link'.img \in AppImages
        /\ (link'.at = AppStart => ~inQspi) /\ link'.service = phase
    BY RequestFields, Regions, ImageAssumption DEF SegmentStart
  <1>2. phase = "check" => link'.at = AppStart /\ link'.size = AppLen
    BY RequestFields, ImageAssumption DEF WholeInv, SegmentStart, SegmentSize, ImageLen
  <1>3. phase = "download" /\ ~inQspi => ~Flagged
    BY DEF AppInv, Withdrawn
  <1>4. link'.data = SegmentUnit(acked + 1) /\ link'.block = acked % BlkMod
    BY DEF Request
  <1>5. phase = "transfer" /\ Downloading /\ acked % BlkMod = pending.done
          => Fits(pending.at, link'.data)
    BY <1>4, RequestFits
  <1> QED
    BY <1>1, <1>2, <1>3, <1>4, <1>5 DEF RequestInv, Flagged, Downloading, Fits

LEMMA AppFlasher ==
  ASSUME FlashImages \subseteq AppImages,
         FlashInv, WaitInv, OrderInv, WholeInv, AppInv, Flasher \/ StartRun \/ Abort
  PROVE  AppInv' /\ AppSpared
  <1>1. UNCHANGED <<mem, see, pending, stage>>
    BY DEF Flasher, Send, Receive, Timeout, StartRun, Abort, chainVars, kwpVars, nvm, server, boot
  <1>2. AllFit' /\ NoCopy' /\ MarksRight' /\ AppSpared
    BY <1>1 DEF AppInv, AllFit, NoCopy, MarksRight, AppSpared, AppKept, Flagged, Safe
  <1>3. image \in AppImages
    BY DEF FlashInv, FlashTypeOK
  <1>4. RequestInv'
    <2>1. CASE link' = link
      BY <1>1, <2>1 DEF AppInv, RequestInv, Flagged, Downloading, Fits
    <2>2. CASE link' = Silent
      BY <2>2, Messages DEF RequestInv
    <2>3. CASE link' = Request /\ phase \in Requests /\ UNCHANGED <<phase, inQspi>>
      BY <1>1, <1>3, <2>3, FreshRequest
    <2> QED
      BY <2>1, <2>2, <2>3
      DEF Flasher, Send, Receive, Timeout, StartRun, Abort, WaitInv
  <1>5. Withdrawn'
    <2>1. CASE UNCHANGED <<phase, inQspi>> /\ link' \in {Request, Silent}
      BY <1>1, <2>1, Messages DEF AppInv, Withdrawn, Flagged
    <2>2. CASE phase' \in {"session", "failed"}
      BY <2>2 DEF Withdrawn
    <2>3. CASE Receive /\ Proceed /\ GoodAnswer(link.reply)
      <3>1. phase' = AfterPhase /\ (phase = "erase" => link.reply = "pos") /\ link.what = "answer"
            /\ phase \in Requests /\ link' = Silent
        BY <2>3 DEF Proceed, GoodAnswer, Receive, WaitInv
      <3>2. phase' \in {"poll", "download", "transfer", "exit"} =>
              phase \in {"erase", "poll", "download", "transfer"} /\ (inQspi => inQspi')
        BY <2>3, <3>1 DEF Proceed, AfterPhase, AfterSegment, Requests
      <3>3. phase \in {"erase", "poll", "download", "transfer"} /\ ~inQspi => ~Flagged
        BY <3>1 DEF AppInv, Withdrawn
      <3>4. Flagged' <=> Flagged
        BY <1>1 DEF Flagged
      <3>5. link'.what # "answer"
        BY <3>1, Messages
      <3> QED
        BY <3>2, <3>3, <3>4, <3>5 DEF Withdrawn
    <2>4. CASE Receive
      BY <2>1, <2>2, <2>3, <2>4 DEF Receive, EndRun
    <2> QED
      BY <2>1, <2>2, <2>4 DEF Flasher, Send, Timeout, StartRun, Abort, EndRun
  <1> QED
    BY <1>2, <1>4, <1>5 DEF AppInv

LEMMA AppServe ==
  ASSUME FlashImages \subseteq AppImages,
         FlashInv, MemInv, AppInv, BootloaderAnswers
  PROVE  AppInv' /\ AppSpared
  <1>1. PICK r \in Replies : Serve(r) /\ link' = Answer(r)
    BY DEF BootloaderAnswers
  <1>2. UNCHANGED <<flasher, stage>> /\ link'.what = "answer" /\ link'.reply = r
    BY <1>1, Messages DEF BootloaderAnswers, boot
  <1>3. /\ link.what = "request" /\ link.at \in {AppStart, QspiStart} /\ link.img \in AppImages
        /\ link.service = "check" => link.at = AppStart /\ link.size = AppLen
        /\ link.service = "download" /\ link.at = AppStart => ~Flagged
        /\ link.service = "transfer" /\ Downloading /\ link.block = pending.done
           /\ pending.at \in Units => Fits(pending.at, link.data)
    BY <1>1 DEF Serve, Asked, AppInv, RequestInv
  <1>4. RequestInv'
    BY <1>2 DEF RequestInv
  <1>5. phase \in Requests => phase = link.service /\ link = Request
    BY <1>3, RequestFields DEF FlashInv, LinkInv
  <1>6. AllFit'
    <2>1. CASE UNCHANGED mem
      BY <2>1 DEF AppInv, AllFit, Fits
    <2>2. CASE Asked("transfer") /\ TransferData(link.block, link.data, r)
      <3>1. ASSUME NEW c, c \in {link.data, Torn},
                   mem' = [mem EXCEPT ![pending.at] = c], Downloading, link.block = pending.done
            PROVE  AllFit'
        <4>1. pending.at \in Units => Fits(pending.at, c)
          BY <1>3, <2>2, <3>1 DEF Asked, Fits
        <4>2. \A u \in Units : mem'[u] = IF u = pending.at THEN c ELSE mem[u]
          BY <3>1 DEF MemInv
        <4> QED
          BY <4>1, <4>2 DEF AppInv, AllFit, Fits
      <3>2. CASE Downloading /\ BlockExpected(link.block)
                 /\ (WriteFlash(link.data, r) \/ WriteQspi(link.data, r))
        BY <2>1, <3>1, <3>2 DEF BlockExpected, WriteFlash, WriteQspi, SpoiledAt, Programmed
      <3> QED
        BY <2>1, <2>2, <3>2 DEF TransferData, Refuse, nvm
    <2> QED
      BY <1>1, <2>1, <2>2
      DEF Serve, StartDiagSession, EraseStart, RoutineResults, StartDownload, TransferExit,
          FlashCheck, EcuReset, RoutineRefused, Refuse, nvm
  <1>7. CASE Asked("erase") /\ EraseStart(link.at, link.size, r) /\ r = "pos"
    <2>1. see' = MarkOnErase(link.at, see) /\ UNCHANGED mem
      BY <1>7 DEF EraseStart, RoutineRefused, Refuse
    <2>2. CASE link.at = AppStart
      <3>1. see' = EraseMark(see)
        <4>1. AppStart \in Nat /\ QspiStart \in Nat /\ AppStart < QspiStart
          BY Regions, LayoutAssumption DEF AppStart, QspiStart, FlashEnd
        <4> QED
          BY <2>1, <2>2, <4>1 DEF MarkOnErase
      <3>2. ~Flagged' /\ NoCopy'
        BY <1>2, <3>1 DEF EraseMark, Flagged, AppInv, NoCopy, SeeFields
      <3> QED
        BY <1>2, <1>4, <1>6, <3>2 DEF AppInv, Withdrawn, MarksRight, AppSpared
    <2>3. CASE link.at = QspiStart
      <3>1. see' = see
        BY <2>1, <2>3, Regions DEF MarkOnErase
      <3>2. Safe => Safe' /\ AppKept
        BY <2>3, ServeSafe
      <3>3. phase = "erase" => inQspi
        <4>1. image \in AppImages /\ image \notin BlImages /\ AppStart # QspiStart
          BY Regions, ImageAssumption DEF FlashInv, FlashTypeOK
        <4>2. phase = "erase" => link.at = SegmentStart
          BY <1>5, RequestFields DEF Requests
        <4> QED
          BY <2>3, <4>1, <4>2 DEF SegmentStart
      <3>4. phase \notin {"poll", "download", "transfer", "exit"}
        BY <1>5, <1>7, Messages DEF Asked, Requests
      <3>5. Withdrawn'
        BY <1>2, <3>3, <3>4 DEF Withdrawn, flasher
      <3> QED
        BY <1>2, <1>4, <1>6, <3>1, <3>2, <3>5, AppKeptIn
        DEF AppInv, NoCopy, MarksRight, AppSpared, Flagged
    <2> QED
      BY <1>3, <2>2, <2>3
  <1>8. CASE Asked("check") /\ FlashCheck(link.at, link.img, link.size, r) /\ r = "crcOk"
    <2>1. link.at = AppStart /\ link.size = AppLen /\ AppStart # BlStart /\ AppStart \in Nat
      BY <1>3, <1>8, Regions DEF Asked
    <2>2. see' = AppChecked(see) /\ UNCHANGED <<mem, pending>> /\ pending.op = "none"
          /\ CheckMatches(AppStart, link.img, AppLen)
      BY <1>8, <2>1 DEF FlashCheck, OnCheckOk, RoutineAllowed, RoutineRefused, Refuse
    <2>3. AppIn(mem') /\ Safe'
      BY <1>3, <2>1, <2>2, CheckFinds DEF AppInv, AppIn, Safe
    <2>4. NoCopy'
      BY <1>2, <2>2 DEF AppChecked, AppInv, NoCopy, SeeFields
    <2>5. phase \notin {"erase", "poll", "download", "transfer", "exit"}
      BY <1>5, <1>8, Messages DEF Asked, Requests
    <2>6. Withdrawn'
      BY <1>2, <2>5 DEF Withdrawn, flasher
    <2> QED
      BY <1>4, <1>6, <2>2, <2>3, <2>4, <2>6 DEF AppInv, MarksRight, AppSpared, AppKept
  <1>9. CASE UNCHANGED see /\ ~(Asked("erase") /\ r = "pos")
    <2>1. Flagged => Safe' /\ AppKept
      <3>1. CASE link.service \in {"erase", "download"} => link.at = QspiStart
        BY <3>1, ServeSafe DEF AppInv, MarksRight
      <3>2. CASE link.service = "erase" /\ UNCHANGED <<mem, pending>>
        BY <3>2 DEF AppInv, MarksRight, Safe, AppKept
      <3>3. link.service = "erase" => UNCHANGED <<mem, pending>>
        BY <1>1, <1>9 DEF Serve, Asked, EraseStart, RoutineRefused, Refuse, nvm
      <3> QED
        BY <1>3, <3>1, <3>2, <3>3
    <2>2. MarksRight' /\ NoCopy' /\ AppSpared
      BY <1>2, <1>9, <2>1, AppKeptIn DEF AppInv, MarksRight, NoCopy, AppSpared, Flagged
    <2>3. phase = "erase" => r # "pos"
      BY <1>3, <1>5, <1>9 DEF Asked, Requests
    <2>4. Withdrawn'
      BY <1>2, <1>9, <2>3 DEF AppInv, Withdrawn, flasher, Flagged
    <2> QED
      BY <1>4, <1>6, <2>2, <2>4 DEF AppInv
  <1>10. CASE Asked("erase") /\ EraseStart(link.at, link.size, r)
    BY <1>7, <1>9, <1>10 DEF EraseStart, RoutineRefused, Refuse, nvm
  <1>11. CASE Asked("check") /\ FlashCheck(link.at, link.img, link.size, r)
    BY <1>8, <1>9, <1>11 DEF FlashCheck, RoutineRefused, Refuse, nvm, Asked
  <1>12. CASE UNCHANGED see /\ ~Asked("erase")
    BY <1>9, <1>12
  <1> QED
    BY <1>1, <1>10, <1>11, <1>12
    DEF Serve, Asked, StartDiagSession, RoutineResults, StartDownload, TransferData, WriteFlash,
        WriteQspi, TransferExit, EcuReset, Refuse, nvm

LEMMA AppStep ==
  ASSUME FlashImages \subseteq AppImages,
         FlashInv, WaitInv, MemInv, OrderInv, WholeInv, AppInv, [FlashNext]_flashVars
  PROVE  AppInv' /\ AppSpared
  <1>1. ASSUME UNCHANGED <<mem, see, pending, stage, flasher>>,
               link' = link \/ (link'.what = "answer" /\ (phase = "erase" => link'.reply # "pos"))
        PROVE  AppInv' /\ AppSpared
    <2>1. AllFit' /\ NoCopy' /\ MarksRight' /\ AppSpared
      BY <1>1 DEF AppInv, AllFit, Fits, NoCopy, MarksRight, AppSpared, AppKept, Flagged, Safe
    <2>2. RequestInv'
      BY <1>1 DEF AppInv, RequestInv, Flagged, Downloading, Fits
    <2>3. Withdrawn'
      BY <1>1 DEF AppInv, Withdrawn, Flagged, flasher
    <2> QED
      BY <2>1, <2>2, <2>3 DEF AppInv
  <1>2. CASE ApplicationAnswers
    <2>1. UNCHANGED <<mem, see, pending, stage, flasher>>
      BY <1>2 DEF ApplicationAnswers, AppDiagRequest, chainVars, kwpVars, nvm, server, boot
    <2>2. phase = "erase" => ~Asked("session")
      BY RequestFields DEF Asked, FlashInv, LinkInv, Requests
    <2>3. link'.what = "answer" /\ (phase = "erase" => link'.reply # "pos")
      BY <1>2, <2>2, Messages DEF ApplicationAnswers
    <2> QED
      BY <1>1, <2>1, <2>3
  <1>3. CASE UNCHANGED flashVars
    BY <1>1, <1>3 DEF flashVars, chainVars, kwpVars, nvm, server, boot
  <1> QED
    BY <1>2, <1>3, AppBoard, AppFlasher, AppServe DEF FlashNext

LEMMA AppInvInit ==
  ASSUME FlashInit
  PROVE  AppInv
  <1>1. see.blPend = FALSE /\ DOMAIN see = SeeFields
    <2>1. see = Blank \/ see = InService
      BY DEF FlashInit, Init
    <2>2. Blank.blPend = FALSE /\ DOMAIN Blank = SeeFields
      BY DEF Blank, SeeFields
    <2>3. InService.blPend = FALSE /\ DOMAIN InService = SeeFields
      BY <2>2 DEF InService, Blank, SeeFields
    <2> QED
      BY <2>1, <2>2, <2>3
  <1>2. NoCopy /\ RequestInv /\ Withdrawn /\ Safe
    BY <1>1, Messages, NoOpFacts DEF FlashInit, Init, NoCopy, RequestInv, Withdrawn, Safe
  <1>3. AppLen \in Nat /\ AppLen < AppSectors /\ BlSectors \in Nat /\ AppSectors \in Nat
    BY LayoutAssumption
  <1>4. PICK bl \in BlImages :
          \/ /\ mem = [u \in Units |-> IF u \in BlUnits THEN <<bl, u>> ELSE Erased]
             /\ see = Blank
          \/ \E app \in AppImages :
               mem = [u \in Units |->
                        IF u \in BlUnits THEN <<bl, u>>
                        ELSE IF u - BlSectors \in 1 .. AppLen THEN <<app, u - BlSectors>>
                        ELSE Erased]
    BY DEF FlashInit, Init
  <1>5. CASE /\ mem = [u \in Units |-> IF u \in BlUnits THEN <<bl, u>> ELSE Erased]
             /\ see = Blank
    <2>1. AllFit
      BY <1>5 DEF AllFit, Fits
    <2>2. ~Flagged
      BY <1>5 DEF Flagged, Blank
    <2> QED
      BY <1>2, <2>1, <2>2 DEF AppInv, MarksRight
  <1>6. ASSUME NEW app \in AppImages,
               mem = [u \in Units |->
                        IF u \in BlUnits THEN <<bl, u>>
                        ELSE IF u - BlSectors \in 1 .. AppLen THEN <<app, u - BlSectors>>
                        ELSE Erased]
        PROVE  AppInv
    <2>1. \A u \in Units : u \notin BlUnits /\ u - BlSectors \in 1 .. AppLen => u \in AppUnits
      BY <1>3 DEF Units, FlashUnits, BlUnits, AppUnits, QspiUnits, QspiStart, QspiEnd, FlashEnd,
                  AppStart
    <2>2. AllFit
      BY <1>6, <2>1 DEF AllFit, Fits
    <2>3. \A k \in 1 .. AppLen : /\ AppStart + k - 1 \in Units /\ AppStart + k - 1 \notin BlUnits
                                 /\ (AppStart + k - 1) - BlSectors = k
      BY <1>3 DEF AppStart, Units, FlashUnits, AppUnits, BlUnits, FlashEnd
    <2>4. HoldsAt(mem, AppStart, app, AppLen)
      BY <1>6, <2>3 DEF HoldsAt
    <2> QED
      BY <1>2, <2>2, <2>4 DEF AppInv, MarksRight, AppIn
  <1> QED
    BY <1>4, <1>5, <1>6

\* What the board would start is an application or none.
LEMMA StartableIs ==
  ASSUME AppInv
  PROVE  /\ ~Flagged => Startable = "none"
         /\ Flagged => Startable \in AppImages
  BY DEF Startable, Flagged, AppInv, MarksRight, AppIn

LEMMA StartableStep ==
  ASSUME AppInv, AppInv', AppSpared
  PROVE  [Abstract!Next]_Startable
  <1>1. CASE ~Flagged'
    <2>1. Startable' = "none"
      BY <1>1 DEF Startable, Flagged
    <2> QED
      BY <2>1 DEF Abstract!Next, Abstract!Withdraw
  <1>2. CASE ~Flagged /\ Flagged'
    <2>1. Startable = "none"
      BY <1>2, StartableIs
    <2>2. Startable' \in AppImages
      BY <1>2 DEF Startable, Flagged, AppInv, MarksRight, AppIn
    <2> QED
      BY <2>1, <2>2 DEF Abstract!Next, Abstract!Install
  <1>3. CASE Flagged /\ Flagged'
    <2>1. \A app \in AppImages :
            HoldsAt(mem', AppStart, app, AppLen) <=> HoldsAt(mem, AppStart, app, AppLen)
      BY <1>3, AppKeptIn DEF AppSpared
    <2>2. Startable' = Startable
      BY <1>3, <2>1 DEF Startable, Flagged
    <2> QED
      BY <2>2
  <1> QED
    BY <1>1, <1>2, <1>3

\* Updates of an application implement AppUpdate, whatever is lost, sent again, stopped,
\* cut or failing: what the bootloader would start is one whole application or nothing,
\* and it goes from one application to another only through nothing.  A bootloader that
\* is flashed goes through the application's region without marking it (EraseStart), so
\* the hypothesis is needed.
THEOREM UpdatesAreWithdrawals ==
  ASSUME FlashImages \subseteq AppImages
  PROVE  FlashSpec => UpdatesApp
  <1>1. FlashInit => Abstract!Init
    <2>1. ASSUME FlashInit PROVE Startable \in AppImages \cup {"none"}
      BY <2>1, AppInvInit, StartableIs
    <2> QED
      BY <2>1 DEF Abstract!Init
  <1>2. FlashInit => AppInv
    BY AppInvInit
  <1>3. FlashInv /\ WaitInv /\ MemInv /\ OrderInv /\ WholeInv /\ AppInv /\ [FlashNext]_flashVars
          => AppInv' /\ AppSpared
    BY AppStep
  <1>4. AppInv /\ AppInv' /\ AppSpared => [Abstract!Next]_Startable
    BY StartableStep
  <1> QED
    BY <1>1, <1>2, <1>3, <1>4, FlashInvAlways, MemInvAlways, OrderInvAlways, WholeInvAlways, PTL
    DEF FlashSpec, UpdatesApp, Abstract!Spec
=============================================================================
