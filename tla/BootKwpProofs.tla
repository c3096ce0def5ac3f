----------------------------- MODULE BootKwpProofs -----------------------------
(***************************************************************************)
(* What every operation of the KWP server keeps, for every layout, every    *)
(* set of images and every command a tester may send: the types, and that   *)
(* an operation in progress points above the bootloader region.             *)
(***************************************************************************)
EXTENDS BootKwp, TLAPS

\* Every operation in progress works at or above the application region.
PendingAbove ==
  pending.op \in {"erase", "qspiErase", "flash", "qspiFlash"} => pending.at >= AppStart

KwpInv == KwpTypeOK /\ PendingAbove

\* The bootloader region is left alone.
BlKept == \A u \in BlUnits : mem'[u] = mem[u]

\* The CRC recorded for a bootloader update is kept, or it is the CRC of a
\* scratch area that holds a whole bootloader image.
CrcKept ==
  \/ see'.blCrc = see.blCrc
  \/ /\ see'.blCrc = Crc(mem, AppStart, ScratchSectors)
     /\ \E img \in BlImages : HoldsAt(mem, AppStart, img, BlSectors)

\* What every step of the server establishes.
StepOK == KwpInv' /\ BlKept /\ CrcKept

\* The variables other than the memory have their types after the step.
RestOK ==
  /\ SeeType(see')
  /\ mode' \in Sessions
  /\ pending' \in [op : PendingOps, at : Nat, total : Nat, done : Nat]
  /\ PendingAbove'
  /\ completed' \in {"none", "ok", "failed"}
  /\ quiet' \in 0 .. P2Max + 1
  /\ longOp' \in BOOLEAN /\ qspiUp' \in BOOLEAN /\ updateDue' \in BOOLEAN

-----------------------------------------------------------------------------
(* Helpers *)

LEMMA ContentsFacts ==
  /\ Erased \in Contents /\ Torn \in Contents
  /\ \A old \in Contents, data \in Contents : Programmed(old, data) \in Contents
  /\ Payloads \subseteq Contents
  <1>1. Erased \in Contents /\ Torn \in Contents
    BY DEF Contents
  <1>2. ASSUME NEW old \in Contents, NEW data \in Contents
        PROVE  Programmed(old, data) \in Contents
    BY <1>1 DEF Programmed
  <1>3. Payloads \subseteq Contents
    <2>1. Payloads \subseteq Images \X (Nat \ {0})
      BY WidthAssumption
    <2>2. Images \X (Nat \ {0}) \subseteq Images \X Nat
      OBVIOUS
    <2> QED
      BY <2>1, <2>2 DEF Contents
  <1> QED
    BY <1>1, <1>2, <1>3

LEMMA NoOpType == NoOp \in [op : PendingOps, at : Nat, total : Nat, done : Nat]
  BY DEF NoOp, PendingOps

\* Replacing the address and the count of an operation.
LEMMA PendingUpdate ==
  ASSUME NEW p \in [op : PendingOps, at : Nat, total : Nat, done : Nat],
         NEW x \in Nat, NEW d \in Nat
  PROVE  /\ [p EXCEPT !.at = x, !.done = d]
               \in [op : PendingOps, at : Nat, total : Nat, done : Nat]
         /\ [p EXCEPT !.at = x, !.done = d].at = x
         /\ [p EXCEPT !.done = d]
               \in [op : PendingOps, at : Nat, total : Nat, done : Nat]
         /\ [p EXCEPT !.done = d].at = p.at
  OBVIOUS

\* An operation at or above the application region is allowed.
LEMMA PendingAboveIntro ==
  ASSUME pending'.at >= AppStart
  PROVE  PendingAbove'
  BY DEF PendingAbove, AppStart

LEMMA NatFacts ==
  /\ BlSectors \in Nat \ {0} /\ AppSectors \in Nat /\ QspiSectors \in Nat
  /\ QspiBlock \in Nat \ {0}
  /\ AppStart \in Nat /\ FlashEnd \in Nat /\ QspiStart \in Nat /\ QspiEnd \in Int
  /\ AppStart <= FlashEnd
  /\ BlUnits \subseteq Units /\ AppUnits \subseteq Units /\ QspiUnits \subseteq Units
  /\ \A u \in AppUnits \cup QspiUnits : u \in Nat /\ u >= AppStart /\ u \notin BlUnits
  BY LayoutAssumption
  DEF BlStart, AppStart, FlashEnd, QspiStart, QspiEnd, BlUnits, AppUnits,
      QspiUnits, FlashUnits, Units

\* A server that starts satisfies the invariant.
LEMMA ServerStartInv ==
  ASSUME KwpInv, UNCHANGED nvm, NEW m \in Sessions, ServerStart(m)
  PROVE  KwpInv'
  <1>1. P2Max \in Nat
    BY WidthAssumption
  <1>2. quiet' \in 0 .. P2Max + 1
    BY <1>1 DEF ServerStart
  <1>3. UNCHANGED <<mem, see>>
    BY DEF nvm
  <1>4. pending' = NoOp
    BY DEF ServerStart
  <1>5. (mem \in [Units -> Contents] /\ SeeType(see))'
    BY <1>3 DEF KwpInv, KwpTypeOK, SeeType
  <1>6. KwpTypeOK'
    BY <1>2, <1>4, <1>5, NoOpType DEF KwpTypeOK, ServerStart
  <1> QED
    BY <1>4, <1>6 DEF KwpInv, PendingAbove, NoOp
\* The clock variables after a command.
LEMMA TouchType ==
  ASSUME KwpInv, Touch
  PROVE  /\ quiet' \in 0 .. P2Max + 1
         /\ longOp' \in BOOLEAN /\ qspiUp' \in BOOLEAN /\ updateDue' \in BOOLEAN
  <1>1. quiet' \in 0 .. P2Max + 1
    BY WidthAssumption DEF Touch
  <1>2. longOp' \in BOOLEAN /\ qspiUp' \in BOOLEAN /\ updateDue' \in BOOLEAN
    BY Zenon DEF Touch, KwpInv, KwpTypeOK
  <1> QED
    BY <1>1, <1>2

\* A step that leaves the memory alone.
LEMMA MemKept ==
  ASSUME KwpInv, RestOK, UNCHANGED mem, CrcKept
  PROVE  StepOK
  <1>1. (mem \in [Units -> Contents])'
    BY DEF KwpInv, KwpTypeOK
  <1>2. KwpTypeOK'
    BY <1>1 DEF KwpTypeOK, RestOK, SeeType
  <1>3. BlKept
    BY DEF BlKept
  <1> QED
    BY <1>2, <1>3 DEF StepOK, KwpInv, RestOK

\* A step that leaves the SmartEEPROM record alone.
LEMMA SeeKept ==
  ASSUME KwpInv, UNCHANGED see
  PROVE  SeeType(see') /\ CrcKept
  BY DEF KwpInv, KwpTypeOK, SeeType, CrcKept

\* A refused command.
LEMMA RefuseOK ==
  ASSUME KwpInv, Touch, NEW r, NEW why, Refuse(r, why)
  PROVE  StepOK
  <1>1. UNCHANGED <<mem, see, mode, pending, completed>>
    BY DEF Refuse, nvm
  <1>2. RestOK
    BY <1>1, TouchType, SeeKept DEF RestOK, KwpInv, KwpTypeOK, PendingAbove
  <1> QED
    BY <1>1, <1>2, MemKept, SeeKept

\* A step that replaces the operation in progress.
LEMMA PendingOK ==
  ASSUME KwpInv, Touch, UNCHANGED <<nvm, mode, completed>>,
         pending' \in [op : PendingOps, at : Nat, total : Nat, done : Nat],
         PendingAbove'
  PROVE  StepOK
  <1>1. UNCHANGED <<mem, see>>
    BY DEF nvm
  <1>2. RestOK
    BY <1>1, TouchType, SeeKept DEF RestOK, KwpInv, KwpTypeOK
  <1> QED
    BY <1>1, <1>2, MemKept, SeeKept

-----------------------------------------------------------------------------
(* One lemma per command *)

LEMMA StartDiagSessionOK ==
  ASSUME KwpInv, NEW m, NEW r, StartDiagSession(m, r)
  PROVE  StepOK
  <1>1. Touch /\ UNCHANGED <<mem, see, pending, completed>> /\ mode' \in Sessions
    BY DEF StartDiagSession, nvm
  <1>2. RestOK
    BY <1>1, TouchType, SeeKept DEF RestOK, KwpInv, KwpTypeOK, PendingAbove
  <1> QED
    BY <1>1, <1>2, MemKept, SeeKept

LEMMA EcuResetOK ==
  ASSUME KwpInv, NEW r, EcuReset(r)
  PROVE  StepOK
  <1>1. Touch
    BY DEF EcuReset
  <1>2. CASE Refuse(r, "session")
    BY <1>1, <1>2, RefuseOK
  <1>3. CASE pending' = [NoOp EXCEPT !.op = "reset"] /\ UNCHANGED <<nvm, mode, completed>>
    BY <1>1, <1>3, PendingOK DEF NoOp, PendingOps, PendingAbove
  <1> QED
    BY <1>2, <1>3 DEF EcuReset

LEMMA BurnDateOK ==
  ASSUME KwpInv, NEW year \in Years, NEW r, BurnDate(year, r)
  PROVE  StepOK
  <1>1. Touch
    BY DEF BurnDate
  <1>2. ASSUME NEW why, Refuse(r, why) PROVE StepOK
    BY <1>1, <1>2, RefuseOK
  <1>3. CASE see' = [see EXCEPT !.year = year] /\ UNCHANGED <<mem, mode, pending, completed>>
    <2>1. SeeType(see') /\ CrcKept
      BY <1>3, WidthAssumption DEF SeeType, SeeFields, CrcKept, KwpInv, KwpTypeOK
    <2>2. RestOK
      BY <1>1, <1>3, <2>1, TouchType DEF RestOK, KwpInv, KwpTypeOK, PendingAbove
    <2> QED
      BY <1>3, <2>1, <2>2, MemKept
  <1> QED
    BY <1>2, <1>3 DEF BurnDate, RoutineRefused

LEMMA EraseStartOK ==
  ASSUME KwpInv, NEW a \in Addresses, NEW n \in Counts, NEW r, EraseStart(a, n, r)
  PROVE  StepOK
  <1>1. Touch
    BY DEF EraseStart
  <1>2. ASSUME NEW why, Refuse(r, why) PROVE StepOK
    BY <1>1, <1>2, RefuseOK
  <1>3. CASE /\ Erasable(a) /\ see' = MarkOnErase(a, see) /\ pending' = EraseOp(a, n)
             /\ UNCHANGED <<mem, mode, completed>>
    <2>1. SeeType(see') /\ CrcKept
      BY <1>3 DEF SeeType, SeeFields, CrcKept, KwpInv, KwpTypeOK, MarkOnErase, EraseMark
    <2>2. a \in Nat /\ n \in Nat /\ U16 \in Nat \ {0}
      BY WidthAssumption
    <2>3. (2 * n) % U16 \in Nat
      BY <2>2
    <2>4. Redirect(a) \in Nat /\ Redirect(a) >= AppStart
      BY <1>3, <2>2, NatFacts DEF Erasable, Redirect
    <2>5. pending' \in [op : PendingOps, at : Nat, total : Nat, done : Nat]
      BY <1>3, <2>2, <2>3, <2>4 DEF EraseOp, PendingOps
    <2>6. PendingAbove'
      BY <1>3, <2>2, <2>4, NatFacts DEF EraseOp, PendingAbove
    <2>7. RestOK
      BY <1>1, <1>3, <2>1, <2>5, <2>6, TouchType DEF RestOK, KwpInv, KwpTypeOK
    <2> QED
      BY <1>3, <2>1, <2>7, MemKept
  <1> QED
    BY <1>2, <1>3 DEF EraseStart, RoutineRefused
LEMMA FlashCheckOK ==
  ASSUME KwpInv, NEW a \in Addresses, NEW img \in Images, NEW r,
         a = BlStart <=> img \in BlImages,
         FlashCheck(a, img, ImageLen(img), r)
  PROVE  StepOK
  <1>1. Touch
    BY DEF FlashCheck
  <1>2. ASSUME NEW why, Refuse(r, why) PROVE StepOK
    BY <1>1, <1>2, RefuseOK
  <1>3. CASE /\ CheckMatches(a, img, ImageLen(img)) /\ see' = OnCheckOk(a, mem, see)
             /\ UNCHANGED <<mem, mode, pending, completed>>
    <2>1. SeeType(see')
      BY <1>3 DEF SeeType, SeeFields, KwpInv, KwpTypeOK, OnCheckOk, BlChecked, AppChecked
    <2>2. CrcKept
      <3>1. CASE a = BlStart
        <4>1. HoldsAt(mem, AppStart, img, BlSectors) /\ img \in BlImages
          BY <1>3, <3>1 DEF CheckMatches, Redirect, ImageLen
        <4>2. see'.blCrc = Crc(mem, AppStart, ScratchSectors)
          BY <1>3, <3>1 DEF OnCheckOk, BlChecked, KwpInv, KwpTypeOK, SeeType, SeeFields
        <4> QED
          BY <4>1, <4>2 DEF CrcKept
      <3>2. CASE a # BlStart
        BY <1>3, <3>2 DEF OnCheckOk, AppChecked, KwpInv, KwpTypeOK, SeeType, SeeFields, CrcKept
      <3> QED
        BY <3>1, <3>2
    <2>3. RestOK
      BY <1>1, <1>3, <2>1, TouchType DEF RestOK, KwpInv, KwpTypeOK, PendingAbove
    <2> QED
      BY <1>3, <2>2, <2>3, MemKept
  <1> QED
    BY <1>2, <1>3 DEF FlashCheck, RoutineRefused

LEMMA RoutineResultsOK ==
  ASSUME KwpInv, NEW r, RoutineResults(r)
  PROVE  StepOK
  <1>1. Touch
    BY DEF RoutineResults
  <1>2. ASSUME NEW why, Refuse(r, why) PROVE StepOK
    BY <1>1, <1>2, RefuseOK
  <1>3. CASE completed' = "none" /\ UNCHANGED <<nvm, mode, pending>>
    <2>1. UNCHANGED <<mem, see>>
      BY <1>3 DEF nvm
    <2>2. RestOK
      BY <1>1, <1>3, <2>1, TouchType, SeeKept DEF RestOK, KwpInv, KwpTypeOK, PendingAbove
    <2> QED
      BY <2>1, <2>2, MemKept, SeeKept
  <1> QED
    BY <1>2, <1>3 DEF RoutineResults

LEMMA StartDownloadOK ==
  ASSUME KwpInv, NEW a \in Addresses, NEW n \in Counts, NEW r, StartDownload(a, n, r)
  PROVE  StepOK
  <1>1. Touch
    BY DEF StartDownload
  <1>2. ASSUME NEW why, Refuse(r, why) PROVE StepOK
    BY <1>1, <1>2, RefuseOK
  <1>3. CASE /\ DownloadOk(a, n) /\ pending' = DownloadOp(a, n)
             /\ UNCHANGED <<nvm, mode, completed>>
    <2>1. a \in Nat
      BY WidthAssumption
    <2>2. Redirect(a) \in Nat /\ Redirect(a) >= AppStart
      BY <1>3, <2>1, NatFacts DEF DownloadOk, InRegion, Redirect
    <2>3. pending' \in [op : PendingOps, at : Nat, total : Nat, done : Nat]
      BY <1>3, <2>2 DEF DownloadOp, PendingOps
    <2>4. PendingAbove'
      BY <1>3, <2>2 DEF DownloadOp, PendingAbove, AppStart
    <2> QED
      BY <1>1, <1>3, <2>3, <2>4, PendingOK
  <1> QED
    BY <1>2, <1>3 DEF StartDownload

\* A block goes to one unit of the memory, above the bootloader region.
LEMMA TransferDataOK ==
  ASSUME KwpInv, NEW b, NEW data \in Payloads, NEW r, TransferData(b, data, r)
  PROVE  StepOK
  <1>1. CASE \E why : Touch /\ Refuse(r, why)
    BY <1>1, RefuseOK
  <1>2. CASE /\ Downloading
             /\ WriteFlash(data, r) \/ WriteQspi(data, r)
             /\ quiet' = 0 /\ longOp' = (pending.op = "qspiFlash") /\ updateDue' = TRUE
             /\ UNCHANGED <<see, mode, completed, qspiUp>>
    <2>1. pending.at \in Nat /\ pending.at >= AppStart /\ pending.at \notin BlUnits
      <3>1. pending.at \in Nat /\ pending.at >= AppStart
        BY <1>2 DEF Downloading, KwpInv, KwpTypeOK, PendingAbove
      <3> QED
        BY <3>1, NatFacts DEF BlUnits, AppStart
    <2>2. pending' = NextBlock \/ pending' = pending
      BY <1>2 DEF WriteFlash, WriteQspi
    <2>3. /\ pending' \in [op : PendingOps, at : Nat, total : Nat, done : Nat]
          /\ PendingAbove'
      <3>1. BlkMod \in Nat \ {0} /\ AppStart \in Nat
        BY WidthAssumption, NatFacts
      <3>2. pending \in [op : PendingOps, at : Nat, total : Nat, done : Nat]
        BY DEF KwpInv, KwpTypeOK
      <3>3. (pending.done + 1) % BlkMod \in Nat
        BY <3>1, <3>2
      <3>4. /\ NextBlock \in [op : PendingOps, at : Nat, total : Nat, done : Nat]
            /\ NextBlock.at = pending.at + 1
        <4> DEFINE d == (pending.done + 1) % BlkMod
        <4>1. NextBlock = [pending EXCEPT !.at = pending.at + 1, !.done = d]
          BY <3>2 DEF NextBlock
        <4>2. d \in Nat /\ pending.at + 1 \in Nat
          BY <2>1, <3>3
        <4> HIDE DEF d
        <4> QED
          BY <3>2, <4>1, <4>2, PendingUpdate
      <3>5. pending'.at \in Nat /\ pending'.at >= AppStart
        BY <2>1, <2>2, <3>1, <3>4
      <3> QED
        BY <2>2, <3>2, <3>4, <3>5 DEF PendingAbove, AppStart
    <2>4. \E c \in Contents :
            mem' = mem \/ mem' = [mem EXCEPT ![pending.at] = c]
      <3>1. mem[pending.at] \in Contents \/ pending.at \notin Units
        BY DEF KwpInv, KwpTypeOK
      <3>2. data \in Contents /\ Torn \in Contents
        BY ContentsFacts
      <3>3. Programmed(mem[pending.at], data) \in Contents
        BY <3>2 DEF Programmed
      <3>4. CASE mem' = [mem EXCEPT ![pending.at] = Programmed(mem[pending.at], data)]
        BY <3>3, <3>4
      <3>5. CASE SpoiledAt(pending.at)
        BY <3>2, <3>5 DEF SpoiledAt
      <3>6. CASE WriteFlash(data, r)
        BY <3>4, <3>5, <3>6 DEF WriteFlash
      <3>7. CASE WriteQspi(data, r)
        BY <3>4, <3>7 DEF WriteQspi
      <3> QED
        BY <1>2, <3>6, <3>7
    <2>5. (mem \in [Units -> Contents])' /\ BlKept
      <3>1. PICK c \in Contents : mem' = mem \/ mem' = [mem EXCEPT ![pending.at] = c]
        BY <2>4
      <3>2. mem \in [Units -> Contents]
        BY DEF KwpInv, KwpTypeOK
      <3>3. mem' \in [Units -> Contents]
        BY <3>1, <3>2
      <3>4. \A u \in BlUnits : u \in Units /\ u # pending.at
        BY <2>1, NatFacts
      <3> QED
        BY <3>1, <3>2, <3>3, <3>4 DEF BlKept
    <2>6. quiet' \in 0 .. P2Max + 1
      BY <1>2, WidthAssumption
    <2>7. longOp' \in BOOLEAN /\ qspiUp' \in BOOLEAN /\ updateDue' \in BOOLEAN
      BY <1>2, Zenon DEF KwpInv, KwpTypeOK
    <2>8. mode' \in Sessions /\ completed' \in {"none", "ok", "failed"}
      BY <1>2 DEF KwpInv, KwpTypeOK
    <2>9. SeeType(see') /\ CrcKept
      BY <1>2, SeeKept
    <2> QED
      BY <2>3, <2>5, <2>6, <2>7, <2>8, <2>9 DEF StepOK, KwpInv, KwpTypeOK, SeeType
  <1> QED
    BY <1>1, <1>2 DEF TransferData

LEMMA TransferExitOK ==
  ASSUME KwpInv, NEW r, TransferExit(r)
  PROVE  StepOK
  <1>1. Touch
    BY DEF TransferExit
  <1>2. CASE Refuse(r, "conditions")
    BY <1>1, <1>2, RefuseOK
  <1>3. CASE pending' = NoOp /\ UNCHANGED <<nvm, mode, completed>>
    BY <1>1, <1>3, NoOpType, PendingOK DEF NoOp, PendingAbove
  <1> QED
    BY <1>2, <1>3 DEF TransferExit

\* Any command.
LEMMA CommandOK ==
  ASSUME KwpInv, NEW r, Command(r)
  PROVE  StepOK
  <1>1. CASE \E m \in Sessions : StartDiagSession(m, r)
    BY <1>1, StartDiagSessionOK
  <1>2. CASE EcuReset(r)
    BY <1>2, EcuResetOK
  <1>3. CASE TesterPresent(r) \/ BadCommand(r) \/ BadTransfer(r)
    BY <1>3, RefuseOK DEF TesterPresent, BadCommand, BadTransfer
  <1>4. CASE \E y \in Years : BurnDate(y, r)
    BY <1>4, BurnDateOK
  <1>5. CASE \E a \in Addresses, n \in Counts : EraseStart(a, n, r)
    BY <1>5, EraseStartOK
  <1>6. CASE \E a \in Addresses, img \in Images :
               (a = BlStart <=> img \in BlImages) /\ FlashCheck(a, img, ImageLen(img), r)
    BY <1>6, FlashCheckOK
  <1>7. CASE RoutineResults(r)
    BY <1>7, RoutineResultsOK
  <1>8. CASE \E a \in Addresses, n \in Counts : StartDownload(a, n, r)
    BY <1>8, StartDownloadOK
  <1>9. CASE \E b \in 0 .. BlkMod - 1, data \in Payloads : TransferData(b, data, r)
    BY <1>9, TransferDataOK
  <1>10. CASE TransferExit(r)
    BY <1>10, TransferExitOK
  <1> QED
    BY <1>1, <1>2, <1>3, <1>4, <1>5, <1>6, <1>7, <1>8, <1>9, <1>10 DEF Command

-----------------------------------------------------------------------------
(* The background step and the clock *)

LEMMA ProbeType ==
  ASSUME KwpInv, ProbeQspi
  PROVE  qspiUp' \in BOOLEAN
  <1>1. (QspiSectors > 0) \in BOOLEAN
    OBVIOUS
  <1> QED
    BY <1>1, Zenon DEF ProbeQspi, KwpInv, KwpTypeOK

\* A step of the background task that is not a tester command keeps the rest.
LEMMA UpdateRest ==
  ASSUME KwpInv, UNCHANGED <<see, mode, quiet, longOp>>, ProbeQspi, updateDue' = FALSE,
         pending' \in [op : PendingOps, at : Nat, total : Nat, done : Nat],
         PendingAbove', completed' \in {"none", "ok", "failed"}
  PROVE  RestOK /\ CrcKept
  <1>1. SeeType(see') /\ CrcKept
    BY SeeKept
  <1>2. quiet' \in 0 .. P2Max + 1 /\ mode' \in Sessions
    BY DEF KwpInv, KwpTypeOK
  <1>3. longOp' \in BOOLEAN
    BY Zenon DEF KwpInv, KwpTypeOK
  <1> QED
    BY <1>1, <1>2, <1>3, ProbeType DEF RestOK

\* Any step that types the memory, keeps the bootloader region and the rest.
LEMMA StepFromParts ==
  ASSUME RestOK, CrcKept, (mem \in [Units -> Contents])', BlKept
  PROVE  StepOK
  <1>1. KwpTypeOK'
    BY DEF KwpTypeOK, RestOK, SeeType
  <1> QED
    BY <1>1 DEF StepOK, KwpInv, RestOK

LEMMA UpdateTimeoutOK ==
  ASSUME KwpInv, UpdateTimeout, updateDue' = FALSE
  PROVE  StepOK
  <1>1. UNCHANGED <<mem, see, quiet, longOp>> /\ pending' = NoOp
    BY DEF UpdateTimeout, nvm
  <1>2. SeeType(see') /\ CrcKept
    BY <1>1, SeeKept
  <1>3. quiet' \in 0 .. P2Max + 1
    BY <1>1 DEF KwpInv, KwpTypeOK
  <1>4. longOp' \in BOOLEAN
    BY <1>1, Zenon DEF KwpInv, KwpTypeOK
  <1>5. qspiUp' \in BOOLEAN /\ updateDue' \in BOOLEAN
    BY ProbeType DEF UpdateTimeout
  <1>6. RestOK
    BY <1>1, <1>2, <1>3, <1>4, <1>5, NoOpType
    DEF RestOK, UpdateTimeout, Sessions, PendingAbove, NoOp
  <1> QED
    BY <1>1, <1>2, <1>6, MemKept

LEMMA UpdateEraseOK ==
  ASSUME KwpInv, UpdateErase, updateDue' = FALSE
  PROVE  StepOK
  <1> DEFINE unit == pending.at + pending.done
  <1>1. pending \in [op : PendingOps, at : Nat, total : Nat, done : Nat] /\ pending.op = "erase"
    BY DEF KwpInv, KwpTypeOK, UpdateErase
  <1>2. unit \in Nat /\ unit >= AppStart /\ unit \notin BlUnits
    <2>1. pending.at >= AppStart
      BY <1>1 DEF KwpInv, PendingAbove
    <2> QED
      BY <1>1, <2>1, NatFacts DEF BlUnits, AppStart
  <1>3. \E c \in Contents : mem' = mem \/ mem' = [mem EXCEPT ![unit] = c]
    <2>1. Erased \in Contents /\ Torn \in Contents
      BY ContentsFacts
    <2> QED
      BY <2>1 DEF UpdateErase, EraseSector, SpoiledAt
  <1>4. (mem \in [Units -> Contents])' /\ BlKept
    <2>1. PICK c \in Contents : mem' = mem \/ mem' = [mem EXCEPT ![unit] = c]
      BY <1>3
    <2>2. mem \in [Units -> Contents]
      BY DEF KwpInv, KwpTypeOK
    <2>3. \A u \in BlUnits : u \in Units /\ u # unit
      BY <1>2, NatFacts
    <2> HIDE DEF unit
    <2>4. mem' \in [Units -> Contents]
      BY <2>1, <2>2
    <2> QED
      BY <2>1, <2>2, <2>3, <2>4 DEF BlKept
  <1>5. pending' = NoOp \/ pending' = NextSector(pending)
    BY DEF UpdateErase, EraseSector
  <1>6. /\ pending' \in [op : PendingOps, at : Nat, total : Nat, done : Nat]
        /\ PendingAbove'
    <2>1. CASE pending' = NoOp
      BY <2>1, NoOpType DEF PendingAbove, NoOp
    <2>2. CASE pending' = NextSector(pending)
      <3>1. pending' = [pending EXCEPT !.done = pending.done + 1] /\ pending.done + 1 \in Nat
        BY <2>2, <1>1 DEF NextSector
      <3>2. /\ pending' \in [op : PendingOps, at : Nat, total : Nat, done : Nat]
            /\ pending'.at = pending.at
        BY <1>1, <3>1, PendingUpdate
      <3>3. pending.at >= AppStart
        BY <1>1 DEF PendingAbove, KwpInv
      <3> QED
        BY <3>2, <3>3, PendingAboveIntro
    <2> QED
      BY <1>5, <2>1, <2>2
  <1>7. completed' \in {"none", "ok", "failed"}
    BY DEF UpdateErase, EraseSector, KwpInv, KwpTypeOK
  <1>8. RestOK /\ CrcKept
    BY <1>6, <1>7, UpdateRest DEF UpdateErase
  <1> QED
    BY <1>4, <1>8, StepFromParts

LEMMA UpdateQspiEraseOK ==
  ASSUME KwpInv, UpdateQspiErase, updateDue' = FALSE
  PROVE  StepOK
  <1>1. pending \in [op : PendingOps, at : Nat, total : Nat, done : Nat] /\ pending.op = "qspiErase"
    BY DEF KwpInv, KwpTypeOK, UpdateQspiErase
  <1>2. mem \in [Units -> Contents]
    BY DEF KwpInv, KwpTypeOK
  <1>3. QspiStep \in Nat /\ (QspiStep = QspiBlock \/ QspiStep = 1)
    BY NatFacts DEF QspiStep
  <1>4. (mem \in [Units -> Contents])' /\ BlKept
    <2>1. CASE mem' = [u \in Units |-> IF u \in QspiNext THEN Erased ELSE mem[u]]
      <3>1. mem' \in [Units -> Contents]
        BY <1>2, <2>1, ContentsFacts
      <3>2. \A u \in BlUnits : u \in Units /\ u \notin QspiNext
        BY NatFacts DEF QspiNext
      <3> QED
        BY <2>1, <3>1, <3>2 DEF BlKept
    <2>2. CASE UNCHANGED mem
      BY <1>2, <2>2 DEF BlKept
    <2> QED
      BY <2>1, <2>2 DEF UpdateQspiErase, EraseQspi
  <1>5. pending' = NoOp \/ pending' = [pending EXCEPT !.done = pending.done + QspiStep]
    BY <1>1 DEF UpdateQspiErase, EraseQspi
  <1>6. /\ pending' \in [op : PendingOps, at : Nat, total : Nat, done : Nat]
        /\ PendingAbove'
    <2>1. CASE pending' = NoOp
      BY <2>1, NoOpType DEF PendingAbove, NoOp
    <2>2. CASE pending' = [pending EXCEPT !.done = pending.done + QspiStep]
      <3>1. pending.done + QspiStep \in Nat
        BY <1>1, <1>3
      <3>2. /\ pending' \in [op : PendingOps, at : Nat, total : Nat, done : Nat]
            /\ pending'.at = pending.at
        BY <1>1, <2>2, <3>1, PendingUpdate
      <3>3. pending.at >= AppStart
        BY <1>1 DEF PendingAbove, KwpInv
      <3> QED
        BY <3>2, <3>3, PendingAboveIntro
    <2> QED
      BY <1>5, <2>1, <2>2
  <1>7. completed' \in {"none", "ok", "failed"}
    BY DEF UpdateQspiErase, EraseQspi, KwpInv, KwpTypeOK
  <1>8. RestOK /\ CrcKept
    BY <1>6, <1>7, UpdateRest DEF UpdateQspiErase
  <1> QED
    BY <1>4, <1>8, StepFromParts

LEMMA UpdateIdleOK ==
  ASSUME KwpInv, UpdateIdle, updateDue' = FALSE
  PROVE  StepOK
  <1>1. UNCHANGED <<mem, see, mode, pending, completed, quiet, longOp>> /\ ProbeQspi
    BY DEF UpdateIdle, nvm
  <1>2. RestOK /\ CrcKept
    BY <1>1, UpdateRest DEF KwpInv, KwpTypeOK, PendingAbove
  <1> QED
    BY <1>1, <1>2, MemKept

\* Any step of the background task.
LEMMA UpdateOK ==
  ASSUME KwpInv, Update
  PROVE  StepOK
  BY UpdateTimeoutOK, UpdateEraseOK, UpdateQspiEraseOK, UpdateIdleOK DEF Update

LEMMA TickOK ==
  ASSUME KwpInv, Tick
  PROVE  StepOK
  <1>1. UNCHANGED <<mem, see, mode, pending, completed, longOp, qspiUp, updateDue>>
    BY DEF Tick, nvm
  <1>2. quiet' \in 0 .. P2Max + 1
    BY WidthAssumption DEF Tick, KwpInv, KwpTypeOK
  <1>3. SeeType(see') /\ CrcKept
    BY <1>1, SeeKept
  <1>4. longOp' \in BOOLEAN /\ qspiUp' \in BOOLEAN /\ updateDue' \in BOOLEAN
    BY <1>1, Zenon DEF KwpInv, KwpTypeOK
  <1>5. RestOK
    BY <1>1, <1>2, <1>3, <1>4 DEF RestOK, KwpInv, KwpTypeOK, PendingAbove
  <1> QED
    BY <1>1, <1>3, <1>5, MemKept
=============================================================================
