------------------------------ MODULE FlashSystem ------------------------------
(***************************************************************************)
(* The flasher on the PC (flasher/src/main.rs, command flash) and the board *)
(* it updates (BootChain): session, erase, download, blocks, check, reset,  *)
(* for the image and then, for an application, for its QSPI segment.        *)
(*                                                                          *)
(* The diagnostic library sends a request again when no answer comes in     *)
(* time: because the request or the answer was lost, or nobody listens.     *)
(* The user may stop the flasher at any moment and run it again.            *)
(***************************************************************************)
EXTENDS BootChain

CONSTANTS
  FlashImages,  \* images that the user flashes
  SegmentLen,   \* units of the QSPI segment of an application
  Retries,      \* set_retry_count
  MaxRuns       \* bound on flasher runs

ASSUME FlasherAssumption ==
  /\ FlashImages \subseteq Images /\ SegmentLen \in 1 .. QspiSectors
  /\ Retries \in Nat /\ MaxRuns \in Nat /\ BlkMod > 1

VARIABLES
  phase,    \* the request the flasher is at, or how its last run ended
  image,    \* the image being flashed
  inQspi,   \* it is at the QSPI segment
  acked,    \* blocks of this segment answered positively
  waiting,  \* it has sent the request of this phase and waits for the answer
  tries,    \* how often this request was sent again
  commErrs, \* e_counter of erase
  link,     \* a request or an answer on its way, or Silent
  runs

flasher  == <<phase, image, inQspi, acked, waiting, tries, commErrs, runs>>
flashVars == <<chainVars, flasher, link>>

Requests == {"session", "erase", "poll", "download", "transfer", "exit", "check", "reset"}
Ended    == {"idle", "done", "failed"}

-----------------------------------------------------------------------------
(* What the flasher sends *)

SegmentStart == IF inQspi THEN QspiStart ELSE IF image \in BlImages THEN BlStart ELSE AppStart
SegmentSize  == IF inQspi THEN SegmentLen ELSE ImageLen(image)

\* Blocks of 8 KB: a unit of the internal flash, two of the QSPI flash.
Pages == IF inQspi THEN (SegmentLen + 1) \div 2 ELSE ImageLen(image)

\* The units of an application's QSPI segment are numbered after those of its image.
SegmentUnit(k) == <<image, IF inQspi THEN AppLen + k ELSE k>>

Silent == [what |-> "silence"]
Request ==
  [what |-> "request", service |-> phase, at |-> SegmentStart, img |-> image,
   size |-> IF phase = "erase" THEN Pages ELSE SegmentSize,
   block |-> acked % BlkMod, data |-> SegmentUnit(acked + 1)]
Answer(r) == [what |-> "answer", reply |-> r]

Send ==
  /\ phase \in Requests /\ ~waiting
  /\ waiting' = TRUE /\ tries' = 0 /\ link' = Request
  /\ UNCHANGED <<chainVars, phase, image, inQspi, acked, commErrs, runs>>

-----------------------------------------------------------------------------
(* What the flasher does with the answer *)

LastBlockLate == acked >= SegmentSize
LastBlock     == acked + 1 >= SegmentSize

\* The next phase of the run.
AfterSegment == IF image \in AppImages /\ ~inQspi THEN "erase" ELSE "reset"
AfterPhase ==
  CASE phase = "session"  -> "erase"
    [] phase = "erase"    -> "poll"
    [] phase = "poll"     -> "download"
    [] phase = "download" -> "transfer"
    [] phase = "transfer" -> IF LastBlock THEN "exit" ELSE "transfer"
    [] phase = "exit"     -> IF inQspi THEN AfterSegment ELSE "check"
    [] phase = "check"    -> AfterSegment
    [] phase = "reset"    -> "done"

AnyPositive(r) == r \in {"pos", "eraseOk", "crcOk", "crcBad"}
GoodAnswer(r) ==
  r = CASE phase = "poll" -> "eraseOk" [] phase = "check" -> "crcOk" [] OTHER -> "pos"

EndRun(how) == phase' = how /\ UNCHANGED <<image, inQspi, acked, commErrs>>

Proceed ==
  /\ phase' = AfterPhase
  /\ inQspi' = (inQspi \/ (phase = "check" /\ AfterPhase = "erase"))
  /\ acked' = IF phase = "transfer" THEN acked + 1
              ELSE IF phase = "download" THEN 0 ELSE acked
  /\ commErrs' = IF phase = "erase" THEN 0 ELSE commErrs
  /\ UNCHANGED image

Receive ==
  /\ waiting /\ link.what = "answer"
  /\ \/ GoodAnswer(link.reply) /\ Proceed
     \/ /\ phase = "poll" /\ link.reply = "busy"   \* asks again after a while
        /\ UNCHANGED <<phase, image, inQspi, acked, commErrs>>
     \/ /\ ~GoodAnswer(link.reply) /\ ~(phase = "poll" /\ link.reply = "busy")
        /\ EndRun("failed")
  /\ waiting' = FALSE /\ link' = Silent /\ tries' = 0
  /\ UNCHANGED <<chainVars, runs>>

AlwaysPatient == phase = "poll"
Patient       == phase = "poll" /\ commErrs = 0

\* No answer in time, whatever became of the request.  The erase poll survives
\* one exchange without an answer.
Timeout ==
  /\ waiting
  /\ \/ /\ tries < Retries /\ tries' = tries + 1
        /\ link' = Request
        /\ UNCHANGED <<phase, image, inQspi, acked, commErrs, waiting>>
     \/ /\ tries = Retries /\ tries' = 0
        /\ link' = Silent /\ waiting' = FALSE
        /\ IF Patient
           THEN commErrs' = 1 /\ UNCHANGED <<phase, image, inQspi, acked>>
           ELSE EndRun("failed")
  /\ UNCHANGED <<chainVars, runs>>

StartRun ==
  /\ phase \in Ended /\ runs < MaxRuns /\ runs' = runs + 1
  /\ phase' = "session" /\ image' \in FlashImages /\ inQspi' = FALSE /\ acked' = 0
  /\ waiting' = FALSE /\ tries' = 0 /\ commErrs' = 0 /\ link' = Silent
  /\ UNCHANGED chainVars

\* The user stops the flasher; a request on its way still arrives.
Abort ==
  /\ phase \in Requests
  /\ EndRun("failed") /\ waiting' = FALSE /\ tries' = 0
  /\ UNCHANGED <<chainVars, link, runs>>

Flasher == Send \/ Receive \/ Timeout

\* The flasher's variables have their types, and the block counter stays inside
\* the segment: no block is sent beyond its last one.
FlashTypeOK ==
  /\ phase \in Requests \cup Ended /\ image \in FlashImages
  /\ inQspi \in BOOLEAN /\ waiting \in BOOLEAN
  /\ inQspi => image \in AppImages
  /\ acked \in 0 .. SegmentSize \/ (inQspi /\ acked \in 0 .. AppLen)
  /\ phase = "transfer" => acked < SegmentSize
  /\ tries \in 0 .. Retries /\ commErrs \in 0 .. 1 /\ runs \in 0 .. MaxRuns
  /\ link.what \in {"silence", "request", "answer"}
  /\ link.what = "answer" => link.reply \in Replies

-----------------------------------------------------------------------------
(* Who answers *)

Asked(service) == link.what = "request" /\ link.service = service

\* The server of the bootloader.
Serve(r) ==
  \/ Asked("session")  /\ StartDiagSession("Reprogramming", r)
  \/ Asked("erase")    /\ EraseStart(link.at, link.size, r)
  \/ Asked("poll")     /\ RoutineResults(r)
  \/ Asked("download") /\ StartDownload(link.at, link.size, r)
  \/ Asked("transfer") /\ TransferData(link.block, link.data, r)
  \/ Asked("exit")     /\ TransferExit(r)
  \/ Asked("check")    /\ FlashCheck(link.at, link.img, link.size, r)
  \/ Asked("reset")    /\ EcuReset(r)

BootloaderAnswers ==
  /\ stage = "diag" /\ ~updateDue
  /\ \E r \in Replies : Serve(r) /\ link' = Answer(r)
  /\ UNCHANGED <<boot, hist, flasher>>

\* The application takes the request for a programming session alone: it asks
\* the bootloader to stay and resets after its answer.
ApplicationAnswers ==
  /\ AppRuns /\ ~comm.diag /\ link.what = "request"
  /\ \/ Asked("session") /\ AppDiagRequest /\ link' = Answer("pos")
     \/ ~Asked("session") /\ link' = Answer("format") /\ UNCHANGED chainVars
  /\ UNCHANGED flasher

-----------------------------------------------------------------------------
(* The board on its own *)

\* A cut tears only what a request on its way, or an erase, was changing.
CutInUse ==
  /\ Cut
  /\ see' # see => stage = "copyCommit" \/ Asked("erase") \/ Asked("check")
  /\ mem' # mem => stage \in {"copyErase", "copyWrite"} \/ Asked("transfer")
                   \/ pending.op \in {"erase", "qspiErase"}

Board ==
  /\ \/ Preloader \/ Bootloader
     \/ AppHealthy \/ AppPanic \/ AppRamFail \/ AppReboot
     \/ WatchdogReset \/ DiagUpdate \/ DiagTick \/ DiagReset
     \/ CutInUse
  /\ UNCHANGED <<flasher, link>>

FlashInit ==
  /\ Init
  /\ phase = "idle" /\ image \in FlashImages /\ inQspi = FALSE /\ acked = 0
  /\ waiting = FALSE /\ tries = 0 /\ commErrs = 0 /\ link = Silent /\ runs = 0

FlashNext ==
  \/ Flasher \/ StartRun \/ Abort
  \/ BootloaderAnswers \/ ApplicationAnswers \/ Board

FlashSpec == FlashInit /\ [][FlashNext]_flashVars

\* The flasher waits for no more than an answer or a timeout, the diagnostic
\* task of the bootloader runs at least every millisecond.
FairFlashSpec ==
  /\ FlashSpec
  /\ WF_flashVars(Flasher)
  /\ WF_flashVars((DiagUpdate \/ DiagReset) /\ UNCHANGED <<flasher, link>>)

-----------------------------------------------------------------------------
(* Properties *)

\* The application that the bootloader would start, should it get to decide.
Startable ==
  IF ~(see.appDone /\ see.appCrc) THEN "none"
  ELSE IF \E app \in AppImages : HoldsAt(mem, AppStart, app, AppLen)
  THEN CHOOSE app \in AppImages : HoldsAt(mem, AppStart, app, AppLen)
  ELSE "broken"

Abstract == INSTANCE AppUpdate WITH Apps <- AppImages, NoApp <- "none", app <- Startable

\* Application updates implement AppUpdate: whatever is lost, stopped or cut,
\* the board never takes a broken application for a good one, and it never goes
\* from one application to another without having withdrawn the first.
UpdatesApp == Abstract!Spec

\* A run that reports success has put every unit of the image where it belongs,
\* after whatever retries, earlier runs and power cuts.
SuccessIsWhole ==
  phase = "done" => HoldsAt(mem, AppStart, image, ImageLen(image))

\* The same for the QSPI segment of an application, which no check covers: the
\* flasher relies on the erase and on the answer to every block.
SegmentIsWhole ==
  phase = "done" /\ inQspi =>
    \A k \in 1 .. SegmentLen : mem[QspiStart + k - 1] = <<image, AppLen + k>>

\* In a download the server is at the flasher's next block, or one ahead of it
\* when the answer has not come: retries and block ids that wrap around never
\* make it skip or repeat one.
BlocksInOrder ==
  phase = "transfer" /\ Downloading
    => pending.at - Redirect(SegmentStart) \in {acked, acked + 1}

\* Every run comes to an end, also when answers are lost, the board loses power
\* or the flash controller fails.
RunEnds == phase \in Requests ~> phase \in Ended
=============================================================================
