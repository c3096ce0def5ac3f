------------------------------- MODULE BootKwp -------------------------------
(***************************************************************************)
(* The bootloader's KWP2000 server (bootloader/src/kwp.rs): programming     *)
(* session, routines (erase, flash check, burn date), download, block       *)
(* transfer, reset, and the background step that the diagnostic task runs   *)
(* after every command and every millisecond.                               *)
(*                                                                          *)
(* Memory is a function from units to contents.  A unit is one erase sector *)
(* of the internal flash (8 KB), one 4 KB sector of the QSPI flash, and one *)
(* TransferData block.  Units 1..BlSectors are the bootloader, the          *)
(* application follows, and the bootloader's scratch area is the first      *)
(* ScratchSectors units of the application (diag_common/src/lib.rs).  One   *)
(* unmapped unit stands for the gap between internal flash and QSPI.        *)
(*                                                                          *)
(* A command handler is an action with a parameter r: the reply it returns. *)
(***************************************************************************)
EXTENDS Integers, FiniteSets

CONSTANTS
  BlSectors,       \* sectors of the bootloader region (14 in the code)
  ScratchSectors,  \* sectors of the scratch region (15: one more than above)
  AppSectors,      \* sectors of the application region (113)
  QspiSectors,     \* 4 KB sectors of the QSPI flash (4096)
  QspiBlock,       \* sectors in the large QSPI erase block (8)
  BlImages,        \* bootloader images a tester may send, BlSectors units each
  AppImages,       \* application images, AppLen units each
  AppLen,
  BlkMod,          \* number of block ids: 2^8
  U16,             \* 2^16, the width of num_blocks * 2
  P2Max,           \* P2_MAX_MS in clock ticks
  NvmFaults,       \* whether the flash controllers may report a failure
  Addresses,       \* the unit addresses, counts of blocks, production years
  Counts,          \* and block contents that commands carry
  Years,
  Payloads

Images == BlImages \cup AppImages
ImageLen(img) == IF img \in BlImages THEN BlSectors ELSE AppLen

ASSUME LayoutAssumption ==
  /\ BlSectors \in Nat \ {0} /\ ScratchSectors \in Nat /\ AppSectors \in Nat
  /\ BlSectors <= ScratchSectors /\ ScratchSectors < AppSectors
  /\ AppLen \in Nat \ {0} /\ AppLen < AppSectors
  /\ QspiSectors \in Nat /\ QspiBlock \in Nat \ {0}
ASSUME ImageAssumption ==
  /\ BlImages \cap AppImages = {}
  /\ "erased" \notin Images /\ "torn" \notin Images
ASSUME WidthAssumption ==
  /\ BlkMod \in Nat \ {0} /\ U16 \in Nat \ {0} /\ P2Max \in Nat
  /\ NvmFaults \in BOOLEAN
  /\ Addresses \subseteq Nat \ {0} /\ Counts \subseteq Nat /\ Years \subseteq 0 .. 255
  /\ Payloads \subseteq Images \X (Nat \ {0})

-----------------------------------------------------------------------------
(* Memory layout and contents *)

BlStart   == 1
AppStart  == BlSectors + 1
FlashEnd  == BlSectors + AppSectors
QspiStart == FlashEnd + 2
QspiEnd   == QspiStart + QspiSectors - 1

BlUnits    == BlStart .. BlSectors
AppUnits   == AppStart .. FlashEnd
QspiUnits  == QspiStart .. QspiEnd
FlashUnits == BlUnits \cup AppUnits
Units      == FlashUnits \cup QspiUnits

Erased == <<"erased", 0>>
Torn   == <<"torn", 0>>   \* neither erased nor what anybody meant to write
Contents == {Erased, Torn} \cup (Images \X Nat)

\* Programming only clears bits: it yields the data on an erased unit, or on
\* one that holds the data already.
Programmed(old, data) == IF old \in {Erased, data} THEN data ELSE Torn

\* The n units from lo on hold the first n units of img.
HoldsAt(m, lo, img, n) == \A k \in 1 .. n : m[lo + k - 1] = <<img, k>>

\* dsu.crc32 over n units: equal exactly when the contents are (no collisions).
Crc(m, lo, n) == [k \in 1 .. n |-> m[lo + k - 1]]
NoCrc == [k \in {} |-> Erased]   \* 0xFFFF_FFFF

-----------------------------------------------------------------------------
VARIABLES
  mem,        \* internal and QSPI flash
  see,        \* SmartEepromInfo: see SeeType
  mode,       \* KwpSessionType
  pending,    \* PendingOperation
  completed,  \* Option<CompletedOperation>
  quiet,      \* now_ms - last_cmd_time, in ticks
  longOp,     \* long_op
  qspiUp,     \* qspi.size_bytes() is known
  updateDue   \* a command was answered and update has not run since

nvm    == <<mem, see>>
server == <<mode, pending, completed, quiet, longOp, qspiUp, updateDue>>
kwpVars == <<nvm, server>>

Sessions == {"Normal", "Extended", "Reprogramming"}

\* blCrc and blPend: crc32_bl and bl_flashing_pending = 0; appDone and appCrc:
\* app_flashing_not_done = 0 and crc32_app # 0xFFFF_FFFF; year: board_prod_year.
SeeFields == {"year", "appDone", "blPend", "appCrc", "blCrc"}
SeeType(s) ==
  /\ DOMAIN s = SeeFields
  /\ s.year \in 0 .. 255
  /\ s.appDone \in BOOLEAN /\ s.blPend \in BOOLEAN /\ s.appCrc \in BOOLEAN

PendingOps == {"none", "reset", "erase", "qspiErase", "flash", "qspiFlash"}
NoOp == [op |-> "none", at |-> 0, total |-> 0, done |-> 0]

\* Types of the server's state; memory never holds anything but whole, erased
\* or torn units, and only of units that exist.
KwpTypeOK ==
  /\ mem \in [Units -> Contents]
  /\ SeeType(see)
  /\ mode \in Sessions
  /\ pending \in [op : PendingOps, at : Nat, total : Nat, done : Nat]
  /\ completed \in {"none", "ok", "failed"}
  /\ quiet \in 0 .. P2Max + 1
  /\ longOp \in BOOLEAN /\ qspiUp \in BOOLEAN /\ updateDue \in BOOLEAN

\* is_production_date_set; day, week and month are taken to be in range.
DateSet(s) == s.year \in 26 .. 99

Replies == {"pos", "eraseOk", "eraseFailed", "crcOk", "crcBad",
            "session", "format", "range", "conditions", "busy", "suspended"}

-----------------------------------------------------------------------------
(* process_cmd: every command restarts the tester timeout first. *)

Touch == quiet' = 0 /\ longOp' = FALSE /\ qspiUp' = qspiUp /\ updateDue' = TRUE

Refuse(r, why) == r = why /\ UNCHANGED <<nvm, mode, pending, completed>>

StartDiagSession(m, r) ==
  /\ Touch
  /\ m \in Sessions /\ mode' = m /\ r = "pos"
  /\ UNCHANGED <<nvm, pending, completed>>

EcuReset(r) ==
  /\ Touch
  /\ \/ mode # "Reprogramming" /\ Refuse(r, "session")
     \/ /\ mode = "Reprogramming" /\ r = "pos"
        /\ pending' = [NoOp EXCEPT !.op = "reset"]
        /\ UNCHANGED <<nvm, mode, completed>>

\* tester_present, reads, and commands of a wrong length or an unknown service.
TesterPresent(r) == Touch /\ Refuse(r, "pos")
BadCommand(r)    == Touch /\ Refuse(r, "format")

\* The two checks every routine starts with.
RoutineRefused(r) ==
  \/ mode # "Reprogramming" /\ Refuse(r, "session")
  \/ mode = "Reprogramming" /\ pending.op # "none" /\ Refuse(r, "conditions")
RoutineAllowed == mode = "Reprogramming" /\ pending.op = "none"

AlwaysBurnable(year) == year >= 24
Burnable(year) == year >= 24 /\ ~DateSet(see)

\* 31 24: burn the production date, once it reads as set never again.
BurnDate(year, r) ==
  /\ Touch
  /\ \/ RoutineRefused(r)
     \/ RoutineAllowed /\ year < 24 /\ Refuse(r, "format")
     \/ RoutineAllowed /\ year >= 24 /\ DateSet(see) /\ Refuse(r, "conditions")
     \/ /\ RoutineAllowed /\ Burnable(year) /\ r = "pos"
        /\ see' = [see EXCEPT !.year = year]
        /\ UNCHANGED <<mem, mode, pending, completed>>

EraseMark(s) == [s EXCEPT !.appDone = FALSE, !.appCrc = FALSE]

\* The address a bootloader request is redirected to.
Redirect(a) == IF a = BlStart THEN AppStart ELSE a

\* The new state of the SmartEEPROM: a request for the bootloader's address
\* erases the scratch area, which is application space, and marks nothing.
MarkBehindStart(a, s) ==
  IF a > AppStart /\ a < QspiStart THEN EraseMark(s) ELSE s
MarkOnErase(a, s) ==
  IF a >= AppStart /\ a < QspiStart THEN EraseMark(s) ELSE s

EraseOp(a, n) ==
  IF a \in QspiUnits
  THEN [op |-> "qspiErase", at |-> a, total |-> (2 * n) % U16, done |-> 0]
  ELSE [op |-> "erase", at |-> Redirect(a), total |-> n, done |-> 0]

\* The gap between the two memories passes the range check.
Erasable(a) == a = BlStart \/ a \in AppStart .. QspiEnd

\* 31 E0: erase n blocks of 8 KB from a.
EraseStart(a, n, r) ==
  /\ Touch
  /\ \/ RoutineRefused(r)
     \/ RoutineAllowed /\ n = 0 /\ Refuse(r, "format")
     \/ RoutineAllowed /\ n # 0 /\ ~Erasable(a) /\ Refuse(r, "range")
     \/ RoutineAllowed /\ n # 0 /\ a \in QspiUnits /\ ~qspiUp /\ Refuse(r, "conditions")
     \/ /\ RoutineAllowed /\ n # 0 /\ r = "pos"
        /\ Erasable(a) /\ (a \in QspiUnits => qspiUp)
        /\ see' = MarkOnErase(a, see)
        /\ pending' = EraseOp(a, n)
        /\ UNCHANGED <<mem, mode, completed>>

\* check_mem_addr for the internal flash and the QSPI flash.
Readable(a) == a \in FlashUnits \/ (qspiUp /\ a \in QspiUnits)

BlChecked(m, s) ==
  [s EXCEPT !.blPend = TRUE, !.blCrc = Crc(m, AppStart, ScratchSectors)]
AppChecked(s) == [s EXCEPT !.appDone = TRUE, !.appCrc = TRUE]
OnCheckOk(a, m, s) == IF a = BlStart THEN BlChecked(m, s) ELSE AppChecked(s)

CheckMatches(a, img, n) ==
  /\ \A k \in 1 .. n : Redirect(a) + k - 1 \in Units
  /\ HoldsAt(mem, Redirect(a), img, n)

\* 31 E1: compare the CRC of n units from a with that of the image.
FlashCheck(a, img, n, r) ==
  /\ Touch
  /\ \/ RoutineRefused(r)
     \/ /\ RoutineAllowed /\ ~(Readable(Redirect(a)) /\ Readable(Redirect(a) + n))
        /\ Refuse(r, "range")
     \/ /\ RoutineAllowed /\ Readable(Redirect(a)) /\ Readable(Redirect(a) + n)
        /\ ~CheckMatches(a, img, n) /\ Refuse(r, "crcBad")
     \/ /\ RoutineAllowed /\ Readable(Redirect(a)) /\ Readable(Redirect(a) + n)
        /\ CheckMatches(a, img, n) /\ r = "crcOk"
        /\ see' = OnCheckOk(a, mem, see)
        /\ UNCHANGED <<mem, mode, pending, completed>>

\* 33 E0: the result of a finished erase is handed out once.
RoutineResults(r) ==
  /\ Touch
  /\ \/ mode # "Reprogramming" /\ Refuse(r, "session")
     \/ /\ mode = "Reprogramming" /\ completed # "none"
        /\ r = IF completed = "ok" THEN "eraseOk" ELSE "eraseFailed"
        /\ completed' = "none"
        /\ UNCHANGED <<nvm, mode, pending>>
     \/ /\ mode = "Reprogramming" /\ completed = "none"
        /\ Refuse(r, IF pending.op = "none" THEN "conditions" ELSE "busy")

InRegion(a, n, region) == a \in region /\ a + n \in region

DownloadOk(a, n) ==
  a = BlStart \/ InRegion(a, n, AppUnits) \/ InRegion(a, n, QspiUnits)

DownloadOp(a, n) ==
  [op |-> IF InRegion(a, n, QspiUnits) THEN "qspiFlash" ELSE "flash",
   at |-> Redirect(a), total |-> 0, done |-> 0]

\* 34: the operation in progress, if any, is replaced.
StartDownload(a, n, r) ==
  /\ Touch
  /\ \/ mode # "Reprogramming" /\ Refuse(r, "session")
     \/ mode = "Reprogramming" /\ ~DownloadOk(a, n) /\ Refuse(r, "format")
     \/ /\ mode = "Reprogramming" /\ DownloadOk(a, n) /\ r = "pos"
        /\ pending' = DownloadOp(a, n)
        /\ UNCHANGED <<nvm, mode, completed>>

Downloading == pending.op \in {"flash", "qspiFlash"}

\* current_addr += data_size; blk_id += 1 in eight bits.
NextBlock == [pending EXCEPT !.at = @ + 1, !.done = (@ + 1) % BlkMod]

AnyBlock(b)      == TRUE
BlockExpected(b) == b = pending.done

\* A flash operation that fails may have done part of its work.
SpoiledAt(unit) ==
  \/ UNCHANGED mem
  \/ unit \in FlashUnits /\ mem' = [mem EXCEPT ![unit] = Torn]

\* The internal flash controller takes a block, or reports an error.
WriteFlash(data, r) ==
  /\ pending.op = "flash"
  /\ \/ /\ pending.at \in FlashUnits /\ r = "pos"
        /\ mem' = [mem EXCEPT ![pending.at] = Programmed(@, data)]
        /\ pending' = NextBlock
     \/ /\ pending.at \notin FlashUnits \/ NvmFaults
        /\ r = "suspended" /\ SpoiledAt(pending.at)
        /\ UNCHANGED pending

WriteQspi(data, r) ==
  /\ pending.op = "qspiFlash"
  /\ pending.at \in QspiUnits   \* a write past the device faults the bus
  /\ mem' = [mem EXCEPT ![pending.at] = Programmed(@, data)]
  /\ pending' = NextBlock /\ r = "pos"

\* 36: block b.  No session is required, only a download in progress.  After a
\* QSPI block the tester timeout stays off until the next command.
TransferData(b, data, r) ==
  \/ Touch /\ ~Downloading /\ Refuse(r, "conditions")
  \/ Touch /\ Downloading /\ ~BlockExpected(b) /\ Refuse(r, "suspended")
  \/ /\ Downloading /\ BlockExpected(b)
     /\ WriteFlash(data, r) \/ WriteQspi(data, r)
     /\ quiet' = 0 /\ longOp' = (pending.op = "qspiFlash") /\ updateDue' = TRUE
     /\ UNCHANGED <<see, mode, completed, qspiUp>>

\* A block whose payload is empty, does not decode or is no multiple of four bytes.
BadTransfer(r) ==
  Touch /\ Downloading /\ (Refuse(r, "suspended") \/ Refuse(r, "format"))

TransferExit(r) ==
  /\ Touch
  /\ \/ ~Downloading /\ Refuse(r, "conditions")
     \/ /\ Downloading /\ r = "pos" /\ pending' = NoOp
        /\ UNCHANGED <<nvm, mode, completed>>

-----------------------------------------------------------------------------
(* update: what the diagnostic task does between commands. *)

ExpiredWhenIdle == quiet > P2Max /\ mode # "Normal" /\ pending.op = "none"
Expired == quiet > P2Max /\ mode # "Normal" /\ ~longOp

\* The QSPI chip is initialised, at every update until it has the known size.
ProbeQspi == qspiUp' = (QspiSectors > 0)

UpdateTimeout ==
  /\ Expired
  /\ mode' = "Normal" /\ pending' = NoOp /\ completed' = "none"
  /\ ProbeQspi
  /\ UNCHANGED <<nvm, quiet, longOp>>

EraseFinished(p) == p.total = p.done

SameSector(p) == p
NextSector(p) == [p EXCEPT !.done = @ + 1]

\* One sector of the internal flash.
EraseSector ==
  LET unit == pending.at + pending.done
  IN \/ /\ unit \in FlashUnits
        /\ mem' = [mem EXCEPT ![unit] = Erased]
        /\ IF EraseFinished(NextSector(pending))
           THEN pending' = NoOp /\ completed' = "ok"
           ELSE pending' = NextSector(pending) /\ UNCHANGED completed
     \/ /\ unit \notin FlashUnits \/ NvmFaults
        /\ pending' = NoOp /\ completed' = "failed"
        /\ SpoiledAt(unit)

UpdateErase ==
  /\ ~Expired /\ pending.op = "erase"
  /\ EraseSector
  /\ ProbeQspi
  /\ UNCHANGED <<see, mode, quiet, longOp>>

QspiStepUnbounded ==
  IF (pending.at - QspiStart + pending.done) % QspiBlock = 0 THEN QspiBlock ELSE 1

\* A 32 KB block where the address and the sectors left allow it.
QspiStep ==
  IF (pending.at - QspiStart + pending.done) % QspiBlock = 0
     /\ pending.total - pending.done >= QspiBlock
  THEN QspiBlock ELSE 1

\* QSPI addresses have 24 bits: they wrap at the end of the device.
QspiUnit(k) == QspiStart + ((pending.at - QspiStart + k) % QspiSectors)

\* The units of the next block.
QspiNext ==
  {u \in QspiUnits : \E k \in 0 .. QspiStep - 1 : u = QspiUnit(pending.done + k)}

EraseQspi ==
  \/ /\ mem' = [u \in Units |-> IF u \in QspiNext THEN Erased ELSE mem[u]]
     /\ IF pending.done + QspiStep >= pending.total
        THEN pending' = NoOp /\ completed' = "ok"
        ELSE pending' = [pending EXCEPT !.done = @ + QspiStep] /\ UNCHANGED completed
  \/ /\ NvmFaults
     /\ pending' = NoOp /\ completed' = "failed"
     /\ UNCHANGED mem

UpdateQspiErase ==
  /\ ~Expired /\ pending.op = "qspiErase"
  /\ EraseQspi
  /\ ProbeQspi
  /\ UNCHANGED <<see, mode, quiet, longOp>>

\* Nothing due, or a download waiting for its next block.
UpdateIdle ==
  /\ ~Expired /\ pending.op \in {"none", "flash", "qspiFlash"}
  /\ ProbeQspi
  /\ UNCHANGED <<nvm, mode, pending, completed, quiet, longOp>>

Update ==
  /\ UpdateTimeout \/ UpdateErase \/ UpdateQspiErase \/ UpdateIdle
  /\ updateDue' = FALSE

\* The clock; quiet is capped just past the timeout.
Tick ==
  /\ quiet <= P2Max /\ quiet' = quiet + 1
  /\ UNCHANGED <<nvm, mode, pending, completed, longOp, qspiUp, updateDue>>

\* KwpServer::new, in session m.
ServerStart(m) ==
  /\ mode' = m /\ pending' = NoOp /\ completed' = "none"
  /\ quiet' = 0 /\ longOp' = FALSE /\ qspiUp' = FALSE /\ updateDue' = FALSE

\* Any command, once update has run after the one before.  A check at the
\* bootloader's address names a whole bootloader image, one elsewhere an
\* application image: the ELF file a tester sends holds its own address
\* (flasher/src/main.rs).
Command(r) ==
  /\ ~updateDue
  /\ \/ \E m \in Sessions : StartDiagSession(m, r)
     \/ EcuReset(r)
     \/ TesterPresent(r)
     \/ BadCommand(r)
     \/ \E y \in Years : BurnDate(y, r)
     \/ \E a \in Addresses, n \in Counts : EraseStart(a, n, r)
     \/ \E a \in Addresses, img \in Images :
          (a = BlStart <=> img \in BlImages) /\ FlashCheck(a, img, ImageLen(img), r)
     \/ RoutineResults(r)
     \/ \E a \in Addresses, n \in Counts : StartDownload(a, n, r)
     \/ \E b \in 0 .. BlkMod - 1, data \in Payloads : TransferData(b, data, r)
     \/ BadTransfer(r)
     \/ TransferExit(r)
=============================================================================
