--------------------------- MODULE KwpTesterProofs ---------------------------
(***************************************************************************)
(* The KWP server under any tester, for every layout and every set of      *)
(* commands: the types hold, a production date is burned once, and an      *)
(* erase changes the range it was asked for and nothing else.              *)
(***************************************************************************)
EXTENDS KwpTester, BootKwpProofs

LEMMA TesterInit == Init => KwpInv
  <1> SUFFICES ASSUME Init PROVE KwpInv
    OBVIOUS
  <1>1. mem \in [Units -> Contents]
    <2>1. PICK app \in AppImages :
            mem = [u \in Units |-> IF u - BlSectors \in 1 .. AppLen
                                   THEN <<app, u - BlSectors>> ELSE Erased]
      BY DEF Init
    <2>2. \A u \in Units : u - BlSectors \in 1 .. AppLen => <<app, u - BlSectors>> \in Contents
      BY LayoutAssumption DEF Contents, Images
    <2> QED
      BY <2>1, <2>2, ContentsFacts
  <1>2. SeeType(see)
    BY DEF Init, SeeType, SeeFields
  <1>3. pending = NoOp
    BY DEF Init
  <1>4. quiet \in 0 .. P2Max + 1
    BY WidthAssumption DEF Init
  <1>5. longOp \in BOOLEAN /\ qspiUp \in BOOLEAN /\ updateDue \in BOOLEAN
    BY Zenon DEF Init
  <1>6. mode \in Sessions /\ completed \in {"none", "ok", "failed"}
    BY DEF Init, Sessions
  <1>7. PendingAbove
    BY <1>3 DEF PendingAbove, NoOp
  <1> QED
    BY <1>1, <1>2, <1>3, <1>4, <1>5, <1>6, <1>7, NoOpType DEF KwpInv, KwpTypeOK

LEMMA TesterNext == KwpInv /\ [Next]_kwpVars => KwpInv'
  <1> SUFFICES ASSUME KwpInv, [Next]_kwpVars PROVE KwpInv'
    OBVIOUS
  <1>1. CASE \E r \in Replies : Command(r)
    BY <1>1, CommandOK DEF StepOK
  <1>2. CASE Update \/ Tick
    BY <1>2, UpdateOK, TickOK DEF StepOK
  <1>3. CASE Reset
    <2>1. PICK m \in Sessions : ServerStart(m)
      BY <1>3 DEF Reset, Sessions
    <2> QED
      BY <1>3, <2>1, ServerStartInv DEF Reset
  <1>4. CASE UNCHANGED kwpVars
    <2>1. UNCHANGED <<mem, see, mode, pending, completed, quiet, longOp, qspiUp, updateDue>>
      BY <1>4 DEF kwpVars, nvm, server
    <2> QED
      BY <2>1 DEF KwpInv, KwpTypeOK, SeeType, PendingAbove
  <1> QED
    BY <1>1, <1>2, <1>3, <1>4 DEF Next, DiagTask

\* The server's variables keep their types, whatever a tester sends.
THEOREM TesterTypeCorrect == Spec => []KwpTypeOK
  <1>1. KwpInv => KwpTypeOK
    BY DEF KwpInv
  <1> QED
    BY <1>1, TesterInit, TesterNext, PTL DEF Spec

-----------------------------------------------------------------------------

\* The year in a record that a command or a step of the server derives from another.
LEMMA YearKept ==
  ASSUME KwpInv
  PROVE  /\ EraseMark(see).year = see.year
         /\ BlChecked(mem, see).year = see.year
         /\ AppChecked(see).year = see.year
  BY DEF KwpInv, KwpTypeOK, SeeType, SeeFields, EraseMark, BlChecked, AppChecked

LEMMA DateKept ==
  ASSUME KwpInv, [Next]_kwpVars, DateSet(see)
  PROVE  see'.year = see.year
  <1>1. CASE \E y \in Years, r \in Replies : BurnDate(y, r)
    BY <1>1 DEF BurnDate, RoutineRefused, Refuse, Burnable, nvm
  <1>2. CASE \E a \in Addresses, n \in Counts, r \in Replies : EraseStart(a, n, r)
    BY <1>2, YearKept DEF EraseStart, RoutineRefused, Refuse, MarkOnErase, nvm
  <1>3. CASE \E a \in Addresses, img \in Images, r \in Replies :
               FlashCheck(a, img, ImageLen(img), r)
    BY <1>3, YearKept DEF FlashCheck, RoutineRefused, Refuse, OnCheckOk, nvm
  <1>4. CASE UNCHANGED see
    BY <1>4
  <1>5. ASSUME NEW r \in Replies, Command(r) PROVE see'.year = see.year
    BY <1>1, <1>2, <1>3, <1>4, <1>5
    DEF Command, StartDiagSession, EcuReset, TesterPresent, BadCommand, Refuse, RoutineResults,
        StartDownload, TransferData, BadTransfer, TransferExit, nvm
  <1>6. CASE Update \/ Tick \/ Reset \/ UNCHANGED kwpVars
    BY <1>4, <1>6
    DEF Update, UpdateTimeout, UpdateErase, UpdateQspiErase, UpdateIdle, Tick, Reset, kwpVars, nvm
  <1> QED
    BY <1>5, <1>6 DEF Next, DiagTask

\* A production date that reads as set is never replaced, whatever a tester sends.
THEOREM DateBurned == Spec => DateBurnedOnce
  <1>1. KwpInv /\ [Next]_kwpVars => [DateSet(see) => see'.year = see.year]_kwpVars
    BY DateKept
  <1> QED
    BY <1>1, TesterInit, TesterNext, PTL DEF Spec, DateBurnedOnce

-----------------------------------------------------------------------------
(* The units of an erase *)

\* What an erase in progress has passed is erased, and something is left of it.
EraseInv ==
  /\ pending.op = "erase" =>
       /\ pending.done < pending.total
       /\ \A k \in 0 .. pending.done - 1 :
            pending.at + k \in FlashUnits /\ mem[pending.at + k] = Erased
  /\ pending.op = "qspiErase" =>
       /\ pending.at \in QspiUnits /\ pending.done < pending.total
       /\ \A k \in 0 .. pending.done - 1 : mem[QspiUnit(k)] = Erased

\* Sixteen bits hold the number of sectors of every request, or at least not none:
\* from 32768 blocks on the number wraps, and a request that wraps to nothing
\* erases a sector all the same.
NoneWraps == \A n \in Counts \ {0} : (2 * n) % U16 # 0

PendingRecords == [op : PendingOps, at : Nat, total : Nat, done : Nat]

LEMMA EraseInvKept ==
  ASSUME EraseInv, UNCHANGED <<mem, pending>>
  PROVE  EraseInv'
  BY DEF EraseInv, QspiUnit

LEMMA NotErasing ==
  ASSUME pending'.op \notin {"erase", "qspiErase"}
  PROVE  EraseInv'
  BY DEF EraseInv

\* A command leaves the memory of a running erase alone and ends it only for
\* something else.
LEMMA CommandErase ==
  ASSUME KwpInv, EraseInv, NoneWraps, NEW r, Command(r)
  PROVE  EraseInv' /\ (Erasing => UNCHANGED mem /\ pending'.op # "none")
  <1> DEFINE Done == EraseInv' /\ (Erasing => UNCHANGED mem /\ pending'.op # "none")
  <1> SUFFICES Done
    OBVIOUS
  <1>1. ASSUME UNCHANGED <<mem, pending>> PROVE Done
    BY <1>1, EraseInvKept DEF Erasing
  <1>2. ASSUME NEW why, Refuse(r, why) PROVE Done
    BY <1>1, <1>2 DEF Refuse, nvm
  <1>3. ASSUME NEW m, StartDiagSession(m, r) PROVE Done
    BY <1>1, <1>3 DEF StartDiagSession, nvm
  <1>4. CASE EcuReset(r)
    <2>1. CASE pending' = [NoOp EXCEPT !.op = "reset"] /\ UNCHANGED mem
      <3>1. pending'.op = "reset"
        BY <2>1 DEF NoOp
      <3> QED
        BY <2>1, <3>1, NotErasing
    <2> QED
      BY <1>2, <1>4, <2>1 DEF EcuReset, nvm
  <1>5. ASSUME NEW y, BurnDate(y, r) PROVE Done
    BY <1>1, <1>2, <1>5 DEF BurnDate, RoutineRefused
  <1>6. ASSUME NEW a \in Addresses, NEW n \in Counts, EraseStart(a, n, r) PROVE Done
    <2>1. CASE /\ RoutineAllowed /\ n # 0 /\ pending' = EraseOp(a, n)
      <3>1. n \in Nat \ {0} /\ U16 \in Nat \ {0} /\ (2 * n) % U16 \in Nat /\ (2 * n) % U16 # 0
        BY <2>1, WidthAssumption DEF NoneWraps
      <3>2. CASE a \in QspiUnits
        <4>1. /\ pending'.op = "qspiErase" /\ pending'.at = a /\ pending'.done = 0
              /\ pending'.total = (2 * n) % U16
          BY <2>1, <3>2 DEF EraseOp
        <4> QED
          BY <2>1, <3>1, <3>2, <4>1 DEF EraseInv, Erasing, RoutineAllowed
      <3>3. CASE a \notin QspiUnits
        <4>1. pending'.op = "erase" /\ pending'.done = 0 /\ pending'.total = n
          BY <2>1, <3>3 DEF EraseOp
        <4> QED
          BY <2>1, <3>1, <3>3, <4>1 DEF EraseInv, Erasing, RoutineAllowed
      <3> QED
        BY <3>2, <3>3
    <2> QED
      BY <1>2, <1>6, <2>1 DEF EraseStart, RoutineRefused
  <1>7. ASSUME NEW a, NEW img, NEW n, FlashCheck(a, img, n, r) PROVE Done
    BY <1>1, <1>2, <1>7 DEF FlashCheck, RoutineRefused
  <1>8. CASE RoutineResults(r)
    BY <1>1, <1>2, <1>8 DEF RoutineResults, nvm
  <1>9. ASSUME NEW a, NEW n, StartDownload(a, n, r) PROVE Done
    <2>1. CASE pending' = DownloadOp(a, n) /\ UNCHANGED mem
      <3>1. pending'.op \in {"flash", "qspiFlash"}
        BY <2>1 DEF DownloadOp
      <3> QED
        BY <2>1, <3>1, NotErasing
    <2> QED
      BY <1>2, <1>9, <2>1 DEF StartDownload, nvm
  <1>10. ASSUME NEW b, NEW data, TransferData(b, data, r) PROVE Done
    <2>1. CASE Downloading /\ (WriteFlash(data, r) \/ WriteQspi(data, r))
      <3>1. pending \in PendingRecords /\ ~Erasing
        BY <2>1 DEF KwpInv, KwpTypeOK, PendingRecords, Downloading, Erasing
      <3>2. pending'.op = pending.op
        <4>1. NextBlock.op = pending.op
          BY <3>1 DEF NextBlock, PendingRecords
        <4> QED
          BY <2>1, <4>1 DEF WriteFlash, WriteQspi
      <3> QED
        BY <3>1, <3>2, NotErasing DEF Erasing
    <2> QED
      BY <1>2, <1>10, <2>1 DEF TransferData
  <1>11. CASE TransferExit(r)
    <2>1. CASE Downloading /\ pending' = NoOp
      BY <2>1, NotErasing DEF Downloading, Erasing, NoOp
    <2> QED
      BY <1>2, <1>11, <2>1 DEF TransferExit
  <1>12. CASE TesterPresent(r) \/ BadCommand(r) \/ BadTransfer(r)
    BY <1>2, <1>12 DEF TesterPresent, BadCommand, BadTransfer
  <1> HIDE DEF Done
  <1>13. CASE \E m \in Sessions : StartDiagSession(m, r)
    BY <1>3, <1>13
  <1>14. CASE \E y \in Years : BurnDate(y, r)
    BY <1>5, <1>14
  <1>15. CASE \E a \in Addresses, n \in Counts : EraseStart(a, n, r)
    BY <1>6, <1>15
  <1>16. CASE \E a \in Addresses, img \in Images :
                (a = BlStart <=> img \in BlImages) /\ FlashCheck(a, img, ImageLen(img), r)
    BY <1>7, <1>16
  <1>17. CASE \E a \in Addresses, n \in Counts : StartDownload(a, n, r)
    BY <1>9, <1>17
  <1>18. CASE \E b \in 0 .. BlkMod - 1, data \in Payloads : TransferData(b, data, r)
    BY <1>10, <1>18
  <1> QED
    BY <1>4, <1>8, <1>11, <1>12, <1>13, <1>14, <1>15, <1>16, <1>17, <1>18 DEF Command

\* What the property says of a step.
ErasesExactly ==
  Erasing =>
    /\ \A u \in Units \ Requested : mem'[u] = mem[u]
    /\ pending'.op = "none" /\ completed' = "ok" => \A u \in Requested : mem'[u] = Erased

\* One sector of the internal flash.
LEMMA SectorErase ==
  ASSUME KwpInv, EraseInv, UpdateErase
  PROVE  EraseInv' /\ ErasesExactly
  <1> DEFINE unit == pending.at + pending.done
  <1>1. /\ pending \in PendingRecords /\ pending.op = "erase" /\ mem \in [Units -> Contents]
        /\ pending.at \in Nat /\ pending.total \in Nat /\ pending.done \in Nat
        /\ pending.done < pending.total
    BY DEF KwpInv, KwpTypeOK, PendingRecords, UpdateErase, EraseInv
  <1>2. /\ Requested = {pending.at + k : k \in 0 .. pending.total - 1}
        /\ unit \in Requested
    BY <1>1 DEF Requested
  <1>3. CASE /\ unit \in FlashUnits /\ mem' = [mem EXCEPT ![unit] = Erased]
             /\ IF EraseFinished(NextSector(pending))
                THEN pending' = NoOp /\ completed' = "ok"
                ELSE pending' = NextSector(pending) /\ UNCHANGED completed
    <2>1. /\ NextSector(pending).op = "erase" /\ NextSector(pending).at = pending.at
          /\ NextSector(pending).done = pending.done + 1
          /\ NextSector(pending).total = pending.total
      BY <1>1 DEF NextSector, PendingRecords
    <2>2. \A u \in Units : mem'[u] = IF u = unit THEN Erased ELSE mem[u]
      BY <1>1, <1>3
    <2>3. \A k \in 0 .. pending.done :
            pending.at + k \in FlashUnits /\ mem'[pending.at + k] = Erased
      <3> TAKE k \in 0 .. pending.done
      <3>1. CASE k = pending.done
        BY <1>3, <2>2, <3>1 DEF Units
      <3>2. CASE k # pending.done
        <4>1. k \in 0 .. pending.done - 1
          BY <1>1, <3>2
        <4>2. pending.at + k \in FlashUnits /\ mem[pending.at + k] = Erased
          BY <1>1, <4>1 DEF EraseInv
        <4> QED
          BY <2>2, <4>2 DEF Units
      <3> QED
        BY <3>1, <3>2
    <2>4. CASE pending.total = pending.done + 1
      <3>1. pending' = NoOp
        BY <1>3, <2>1, <2>4 DEF EraseFinished
      <3>2. \A u \in Requested : mem'[u] = Erased
        BY <1>1, <1>2, <2>3, <2>4
      <3>3. \A u \in Units \ Requested : mem'[u] = mem[u]
        BY <1>2, <2>2
      <3>4. EraseInv'
        BY <3>1, NotErasing DEF NoOp
      <3> QED
        BY <3>2, <3>3, <3>4 DEF ErasesExactly
    <2>5. CASE pending.total # pending.done + 1
      <3>1. pending' = NextSector(pending)
        BY <1>3, <2>1, <2>5 DEF EraseFinished
      <3>2. /\ pending'.op = "erase" /\ pending'.at = pending.at
            /\ pending'.done = pending.done + 1 /\ pending'.total = pending.total
        BY <2>1, <3>1
      <3>3. EraseInv'
        BY <1>1, <2>3, <2>5, <3>2 DEF EraseInv
      <3> QED
        BY <1>2, <2>2, <3>2, <3>3 DEF ErasesExactly
    <2> QED
      BY <2>4, <2>5
  <1>4. CASE pending' = NoOp /\ completed' = "failed" /\ SpoiledAt(unit)
    <2>1. \A u \in Units \ Requested : mem'[u] = mem[u]
      BY <1>1, <1>2, <1>4 DEF SpoiledAt
    <2>2. EraseInv'
      BY <1>4, NotErasing DEF NoOp
    <2> QED
      BY <1>4, <2>1, <2>2 DEF ErasesExactly
  <1> QED
    BY <1>3, <1>4 DEF UpdateErase, EraseSector

\* The places of a QSPI request lie in the device, wherever it wraps.
LEMMA QspiPlaces ==
  ASSUME pending.at \in QspiUnits, NEW k \in Nat
  PROVE  QspiUnit(k) \in QspiUnits
  <1>1. QspiSectors \in Nat /\ QspiStart \in Nat /\ pending.at \in Nat
        /\ QspiStart <= pending.at /\ pending.at <= QspiStart + QspiSectors - 1
    BY NatFacts DEF QspiUnits, QspiEnd
  <1> DEFINE d == pending.at - QspiStart + k
  <1>2. QspiSectors \in Nat \ {0} /\ d \in Nat
    BY <1>1
  <1> HIDE DEF d
  <1>3. d % QspiSectors \in 0 .. QspiSectors - 1
    BY <1>2
  <1>4. QspiUnit(k) = QspiStart + (d % QspiSectors)
    BY DEF QspiUnit, d
  <1> QED
    BY <1>1, <1>3, <1>4 DEF QspiUnits, QspiEnd

\* One block of the QSPI flash, of either size.
LEMMA BlockErase ==
  ASSUME KwpInv, EraseInv, UpdateQspiErase
  PROVE  EraseInv' /\ ErasesExactly
  <1>1. /\ pending \in PendingRecords /\ pending.op = "qspiErase" /\ mem \in [Units -> Contents]
        /\ pending.at \in QspiUnits /\ pending.total \in Nat /\ pending.done \in Nat
        /\ pending.done < pending.total
    BY DEF KwpInv, KwpTypeOK, PendingRecords, UpdateQspiErase, EraseInv
  <1>2. Requested = {QspiUnit(k) : k \in 0 .. pending.total - 1}
    BY <1>1 DEF Requested
  <1>3. /\ QspiStep \in Nat \ {0} /\ pending.done + QspiStep <= pending.total
    BY <1>1, NatFacts DEF QspiStep
  <1>4. CASE /\ mem' = [u \in Units |-> IF u \in QspiNext THEN Erased ELSE mem[u]]
             /\ IF pending.done + QspiStep >= pending.total
                THEN pending' = NoOp /\ completed' = "ok"
                ELSE pending' = [pending EXCEPT !.done = @ + QspiStep] /\ UNCHANGED completed
    <2>1. \A u \in Units \ Requested : mem'[u] = mem[u]
      <3>1. QspiNext \subseteq Requested
        <4>1. \A k \in 0 .. QspiStep - 1 : pending.done + k \in 0 .. pending.total - 1
          BY <1>1, <1>3
        <4> QED
          BY <1>2, <4>1 DEF QspiNext
      <3> QED
        BY <1>4, <3>1
    <2>2. \A k \in 0 .. pending.done + QspiStep - 1 : mem'[QspiUnit(k)] = Erased
      <3> TAKE k \in 0 .. pending.done + QspiStep - 1
      <3>1. k \in Nat /\ QspiUnit(k) \in QspiUnits /\ QspiUnit(k) \in Units
        BY <1>1, <1>3, QspiPlaces DEF Units
      <3>2. CASE k < pending.done
        <4>1. mem[QspiUnit(k)] = Erased
          BY <1>1, <3>1, <3>2 DEF EraseInv
        <4> QED
          BY <1>4, <3>1, <4>1
      <3>3. CASE ~(k < pending.done)
        <4>1. k - pending.done \in 0 .. QspiStep - 1 /\ pending.done + (k - pending.done) = k
          BY <1>1, <1>3, <3>1, <3>3
        <4>2. QspiUnit(k) \in QspiNext
          BY <3>1, <4>1 DEF QspiNext
        <4> QED
          BY <1>4, <3>1, <4>2
      <3> QED
        BY <3>2, <3>3
    <2>3. CASE pending.done + QspiStep >= pending.total
      <3>1. pending' = NoOp
        BY <1>4, <2>3
      <3>2. \A u \in Requested : mem'[u] = Erased
        <4>1. pending.done + QspiStep = pending.total
          BY <1>1, <1>3, <2>3
        <4>2. \A k \in 0 .. pending.total - 1 : mem'[QspiUnit(k)] = Erased
          BY <1>1, <1>3, <2>2, <4>1
        <4> QED
          BY <1>2, <4>2
      <3>3. EraseInv'
        BY <3>1, NotErasing DEF NoOp
      <3> QED
        BY <2>1, <3>2, <3>3 DEF ErasesExactly
    <2>4. CASE ~(pending.done + QspiStep >= pending.total)
      <3> DEFINE d == pending.done + QspiStep
      <3>1. pending' = [pending EXCEPT !.done = d] /\ d \in Nat /\ d < pending.total
        BY <1>1, <1>3, <1>4, <2>4
      <3>2. /\ pending'.op = "qspiErase" /\ pending'.at = pending.at /\ pending'.done = d
            /\ pending'.total = pending.total
        BY <1>1, <3>1 DEF PendingRecords
      <3>3. \A k \in Nat : QspiUnit(k)' = QspiUnit(k)
        BY <3>2 DEF QspiUnit
      <3>4. \A k \in 0 .. d - 1 : mem'[QspiUnit(k)'] = Erased
        <4>1. \A k \in 0 .. d - 1 : k \in Nat /\ mem'[QspiUnit(k)] = Erased
          BY <1>1, <1>3, <2>2
        <4> QED
          BY <3>3, <4>1
      <3> HIDE DEF d
      <3>5. EraseInv'
        BY <1>1, <3>1, <3>2, <3>4 DEF EraseInv
      <3> QED
        BY <2>1, <3>2, <3>5 DEF ErasesExactly
    <2> QED
      BY <2>3, <2>4
  <1>5. CASE pending' = NoOp /\ completed' = "failed" /\ UNCHANGED mem
    BY <1>5, NotErasing DEF NoOp, ErasesExactly
  <1> QED
    BY <1>4, <1>5 DEF UpdateQspiErase, EraseQspi

LEMMA EraseNext ==
  ASSUME KwpInv, EraseInv, NoneWraps, [Next]_kwpVars
  PROVE  EraseInv' /\ ErasesExactly
  <1>1. CASE \E r \in Replies : Command(r)
    BY <1>1, CommandErase DEF ErasesExactly
  <1>2. CASE UpdateErase
    BY <1>2, SectorErase
  <1>3. CASE UpdateQspiErase
    BY <1>3, BlockErase
  <1>4. CASE UpdateTimeout
    <2>1. UNCHANGED mem /\ completed' = "none" /\ pending' = NoOp
      BY <1>4 DEF UpdateTimeout, nvm
    <2> QED
      BY <2>1, NotErasing DEF NoOp, ErasesExactly
  <1>5. CASE UpdateIdle \/ Tick \/ UNCHANGED kwpVars
    <2>1. UNCHANGED <<mem, pending>>
      BY <1>5 DEF UpdateIdle, Tick, kwpVars, nvm, server
    <2> QED
      BY <2>1, EraseInvKept DEF ErasesExactly, Erasing
  <1>6. CASE Reset
    BY <1>6, NotErasing DEF Reset, ServerStart, NoOp, ErasesExactly, Erasing
  <1> QED
    BY <1>1, <1>2, <1>3, <1>4, <1>5, <1>6 DEF Next, DiagTask, Update

\* While an erase runs nothing outside the requested range changes, and when it is
\* reported as done the range is erased, for every layout, block size, address and
\* count, also where a request wraps at the end of the QSPI flash.
THEOREM EraseRange == ASSUME NoneWraps PROVE Spec => EraseExact
  <1>1. Init => EraseInv
    BY DEF Init, EraseInv, NoOp
  <1>2. KwpInv /\ EraseInv /\ [Next]_kwpVars => EraseInv' /\ [ErasesExactly]_kwpVars
    BY EraseNext
  <1>3. Spec => [][ErasesExactly]_kwpVars
    BY <1>1, <1>2, TesterInit, TesterNext, PTL DEF Spec
  <1> QED
    BY <1>3 DEF EraseExact, ErasesExactly
=============================================================================
