------------------------------ MODULE BootChain ------------------------------
(***************************************************************************)
(* From reset to application: the preloader that installs a pending         *)
(* bootloader update (preloader/src/main.rs), the bootloader's decision to  *)
(* launch the application or to stay (bootloader/src/main.rs), what the     *)
(* application reports through the shared RAM (diag_common/src/ram_info.rs),*)
(* and the bootloader's KWP server (BootKwp) when it stays.  Power may be   *)
(* cut and the reset button pressed between any two steps and in the middle *)
(* of a flash or SmartEEPROM write.                                         *)
(***************************************************************************)
EXTENDS BootKwp

CONSTANTS
  MaxResets,   \* MAX_RESET_COUNT
  CopyFaults,  \* whether erase_flash and write_flash may fail in the preloader
  Garbage,     \* what the shared RAM may hold, under a wrong CRC, without power
  MaxCuts      \* bound on power cuts and reset button presses

CommType == [ok : BOOLEAN, resets : 0 .. 255, diag : BOOLEAN,
             panic : BOOLEAN, ram : BOOLEAN]

ASSUME ChainAssumption ==
  /\ MaxResets \in 1 .. 254 /\ CopyFaults \in BOOLEAN /\ MaxCuts \in Nat
  /\ Garbage \subseteq {c \in CommType : ~c.ok}

VARIABLES
  stage,       \* which program runs, and where it is
  copyAt,      \* sectors done in the current erase or write of the preloader
  comm,        \* BootloaderRamInfo, and whether its CRC is right
  wdt,         \* the watchdog runs
  wdtCause,    \* rcause.wdt of the last reset, until the bootloader has read it
  fuses,       \* the SmartEEPROM fuses are set
  cuts,        \* power cuts and reset presses so far
  \* History, read by no action:
  owed,        \* what the application or a RAM test reported, not yet answered
  launches,    \* launches since the last good start, stay or loss of RAM,
               \* counted up to MaxResets + 1
  copyFailed   \* the preloader has ignored a flash error

boot  == <<stage, copyAt, comm, wdt, wdtCause, fuses, cuts>>
hist  == <<owed, launches, copyFailed>>
chainVars == <<kwpVars, boot, hist>>

Stages == {"preloader", "preEeprom", "copyErase", "copyWrite", "copyCommit",
           "bootloader", "launch", "appStart", "app", "diag", "dead"}
ChainTypeOK ==
  /\ stage \in Stages /\ copyAt \in 0 .. BlSectors
  /\ comm \in CommType
  /\ wdt \in BOOLEAN /\ wdtCause \in BOOLEAN /\ fuses \in BOOLEAN
  /\ cuts \in 0 .. MaxCuts
  /\ owed \subseteq {"panic", "ram", "diag"}
  /\ launches \in Nat /\ copyFailed \in BOOLEAN

\* Types of the whole board: the preloader's copy stays inside the bootloader
\* region, and no erase or write leaves the flash.
TypeOK == KwpTypeOK /\ ChainTypeOK

-----------------------------------------------------------------------------
(* The shared RAM *)

CommDefault == [ok |-> TRUE, resets |-> 0, diag |-> FALSE, panic |-> FALSE, ram |-> FALSE]

\* modify_bootloader_info computes the CRC of whatever the block holds.
Unsealed(c) == c
Sealed(c)   == [c EXCEPT !.ok = TRUE]

-----------------------------------------------------------------------------
(* Regions *)

BlHolds(m, img) == HoldsAt(m, BlStart, img, BlSectors)
BlWhole(m) == \E img \in BlImages : BlHolds(m, img)
ScratchCrc(m) == Crc(m, AppStart, ScratchSectors)

\* The next preloader run copies the scratch area, and it holds img.
CopyDue(s, m) == s.blPend /\ s.blCrc = ScratchCrc(m)
CopyOwed(s, m, img) == CopyDue(s, m) /\ HoldsAt(m, AppStart, img, BlSectors)

\* The first word of the application region is the initial stack pointer, and
\* every image of this project, bootloader or application, has the same one.
StackWordOk == \E img \in Images : mem[AppStart] = <<img, 1>>
CanAppStart == see.appDone /\ StackWordOk /\ see.appCrc

-----------------------------------------------------------------------------
(* Start and reset *)

\* A board in service, or one that has a bootloader and nothing else.
Blank == [year |-> 255, appDone |-> FALSE, blPend |-> FALSE, appCrc |-> FALSE, blCrc |-> NoCrc]
InService == [Blank EXCEPT !.year = 26, !.appDone = TRUE, !.appCrc = TRUE]

Init ==
  /\ \E bl \in BlImages :
       \/ /\ mem = [u \in Units |-> IF u \in BlUnits THEN <<bl, u>> ELSE Erased]
          /\ see = Blank /\ fuses = FALSE
       \/ /\ \E app \in AppImages :
               mem = [u \in Units |->
                        IF u \in BlUnits THEN <<bl, u>>
                        ELSE IF u - BlSectors \in 1 .. AppLen THEN <<app, u - BlSectors>>
                        ELSE Erased]
          /\ see = InService /\ fuses = TRUE
  /\ mode = "Normal" /\ pending = NoOp /\ completed = "none"
  /\ quiet = 0 /\ longOp = FALSE /\ qspiUp = FALSE /\ updateDue = FALSE
  /\ stage = "preloader" /\ copyAt = 0 /\ comm \in Garbage
  /\ wdt = FALSE /\ wdtCause = FALSE /\ cuts = 0
  /\ owed = {} /\ launches = 0 /\ copyFailed = FALSE

\* Any reset: the CPU starts in the preloader, RAM is kept.
ResetBy(watchdog) ==
  /\ stage' = "preloader" /\ copyAt' = 0
  /\ wdt' = FALSE /\ wdtCause' = watchdog
  /\ ServerStart("Normal")

-----------------------------------------------------------------------------
(* Preloader *)

\* The RAM test of the CAN RAM, skipped while a failure is on record.
PreloaderRamTest ==
  /\ stage = "preloader" /\ stage' = "preEeprom"
  /\ \/ UNCHANGED <<comm, owed>>
     \/ /\ ~(comm.ok /\ comm.ram)
        /\ comm' = Sealed([comm EXCEPT !.ram = TRUE])
        /\ owed' = owed \cup {"ram"}
  /\ UNCHANGED <<kwpVars, copyAt, wdt, wdtCause, fuses, cuts, launches, copyFailed>>

\* Copy only what carries the CRC recorded when the tester's check succeeded.
CopyAny      == TRUE
CopyWrongCrc == see.blCrc = Crc(mem, BlStart, BlSectors)
CopyVerified == see.blCrc = ScratchCrc(mem)

AfterEeprom ==
  IF ~(fuses /\ see.blPend) THEN "bootloader"
  ELSE IF CopyVerified THEN "copyErase" ELSE "copyCommit"

PreloaderEeprom ==
  /\ stage = "preEeprom" /\ stage' = AfterEeprom /\ copyAt' = 0
  /\ UNCHANGED <<kwpVars, comm, wdt, wdtCause, fuses, cuts, hist>>

CopyOneMore == copyAt <= BlSectors
CopyLeft    == copyAt < BlSectors

\* erase_flash over the bootloader region, one sector at a time.
CopyErase ==
  /\ stage = "copyErase"
  /\ \/ /\ CopyLeft
        /\ mem' = [mem EXCEPT ![BlStart + copyAt] = Erased]
        /\ copyAt' = copyAt + 1
        /\ UNCHANGED <<stage, copyFailed>>
     \/ /\ ~CopyLeft
        /\ stage' = "copyWrite" /\ copyAt' = 0
        /\ UNCHANGED <<mem, copyFailed>>
     \/ /\ CopyFaults
        /\ stage' = "copyWrite" /\ copyAt' = 0 /\ copyFailed' = TRUE
        /\ UNCHANGED mem
  /\ UNCHANGED <<see, server, comm, wdt, wdtCause, fuses, cuts, owed, launches>>

\* write_flash from the scratch area; only the bootloader region's size is copied.
CopyWrite ==
  /\ stage = "copyWrite"
  /\ \/ /\ CopyLeft
        /\ mem' = [mem EXCEPT ![BlStart + copyAt] = Programmed(@, mem[AppStart + copyAt])]
        /\ copyAt' = copyAt + 1
        /\ UNCHANGED <<stage, copyFailed>>
     \/ /\ ~CopyLeft
        /\ stage' = "copyCommit" /\ copyAt' = 0
        /\ UNCHANGED <<mem, copyFailed>>
     \/ /\ CopyFaults
        /\ stage' = "copyCommit" /\ copyAt' = 0 /\ copyFailed' = TRUE
        /\ UNCHANGED mem
  /\ UNCHANGED <<see, server, comm, wdt, wdtCause, fuses, cuts, owed, launches>>

\* The flags are cleared whatever erase_flash and write_flash returned.
Committed(s, m) == [s EXCEPT !.blPend = FALSE, !.blCrc = Crc(m, BlStart, BlSectors)]

CopyCommit ==
  /\ stage = "copyCommit" /\ stage' = "bootloader"
  /\ see' = Committed(see, mem)
  /\ UNCHANGED <<mem, server, copyAt, comm, wdt, wdtCause, fuses, cuts, hist>>

Preloader ==
  PreloaderRamTest \/ PreloaderEeprom \/ CopyErase \/ CopyWrite \/ CopyCommit


-----------------------------------------------------------------------------
(* Bootloader: set-up, then launch or stay *)

\* Without SmartEEPROM fuses the bootloader sets them and resets; when that
\* fails it panics, and its panic handler never returns.
SetFuses ==
  /\ stage = "bootloader" /\ ~fuses
  /\ \/ fuses' = TRUE /\ ResetBy(FALSE)
     \/ stage' = "dead" /\ UNCHANGED <<fuses, copyAt, wdt, wdtCause, server>>
  /\ UNCHANGED <<nvm, comm, cuts, hist>>

\* ">=": the counter stops the launch when it has reached MAX_RESET_COUNT.
AboveMaxResets(c) == c.resets > MaxResets
TooManyResets(c)  == c.resets >= MaxResets

\* Why the bootloader stays, the first that applies; magic: the magic pin is low.
StayReason(magic) ==
  CASE magic -> "MagicPin"
    [] ~magic /\ wdtCause -> "Watchdog"
    [] ~magic /\ ~wdtCause /\ ~DateSet(see) -> "ProductionInfoNotSet"
    [] OTHER -> IF comm.ok /\ comm.diag THEN "Diagnostics"
                ELSE IF comm.ok /\ TooManyResets(comm) THEN "ResetCount"
                ELSE IF comm.ok /\ comm.panic THEN "Panic"
                ELSE IF comm.ok /\ comm.ram THEN "RamFailure"
                ELSE IF ~CanAppStart THEN "AppInvalid" ELSE "None"

\* To stay is to forget the shared block and to start the KWP server.
BootStay(magic) ==
  /\ stage = "bootloader" /\ fuses /\ StayReason(magic) # "None"
  /\ stage' = "diag" /\ comm' = CommDefault /\ wdtCause' = FALSE
  /\ ServerStart(IF StayReason(magic) = "Diagnostics" THEN "Reprogramming" ELSE "Normal")
  /\ owed' = {} /\ launches' = 0
  /\ UNCHANGED <<nvm, copyAt, wdt, fuses, cuts, copyFailed>>

CountedNothing(c) == IF c.ok THEN c ELSE CommDefault

\* A block with a wrong CRC is replaced before the counter is incremented.
Counted(c) ==
  LET known == IF c.ok THEN c ELSE CommDefault
  IN [known EXCEPT !.resets = (@ + 1) % 256]

BootLaunch(magic) ==
  /\ stage = "bootloader" /\ fuses /\ StayReason(magic) = "None"
  /\ stage' = "launch" /\ comm' = Counted(comm) /\ wdt' = TRUE
  /\ launches' = IF launches > MaxResets THEN launches ELSE launches + 1
  /\ UNCHANGED <<kwpVars, copyAt, wdtCause, fuses, cuts, owed, copyFailed>>

\* The jump goes through the vector table in the first unit of the region.  An
\* application starts.  A bootloader image there has the vectors of a bootloader
\* linked at its own address: the bootloader runs again, under the watchdog.
Jump ==
  /\ stage = "launch"
  /\ stage' = IF mem[AppStart][1] \in AppImages THEN "appStart" ELSE "bootloader"
  /\ UNCHANGED <<kwpVars, copyAt, comm, wdt, wdtCause, fuses, cuts, hist>>

Bootloader ==
  SetFuses \/ (\E magic \in BOOLEAN : BootStay(magic) \/ BootLaunch(magic)) \/ Jump

-----------------------------------------------------------------------------
(* The application, as far as the boot chain can tell *)

AppRuns == stage \in {"appStart", "app"}

\* Five seconds after the start the reset counter returns to zero.
AppHealthy ==
  /\ stage = "appStart" /\ stage' = "app"
  /\ comm' = Sealed([comm EXCEPT !.resets = 0]) /\ launches' = 0
  /\ UNCHANGED <<kwpVars, copyAt, wdt, wdtCause, fuses, cuts, owed, copyFailed>>

\* The panic handler, which a hard fault ends in as well.
AppPanic ==
  /\ AppRuns
  /\ comm' = Sealed([comm EXCEPT !.panic = TRUE]) /\ owed' = owed \cup {"panic"}
  /\ ResetBy(FALSE)
  /\ UNCHANGED <<nvm, fuses, cuts, launches, copyFailed>>

\* The RAM test of the idle task.
AppRamFail ==
  /\ AppRuns
  /\ comm' = Sealed([comm EXCEPT !.ram = TRUE]) /\ owed' = owed \cup {"ram"}
  /\ ResetBy(FALSE)
  /\ UNCHANGED <<nvm, fuses, cuts, launches, copyFailed>>

\* StartDiagnosticSession(Reprogramming) is answered, the reset comes later.
AppDiagRequest ==
  /\ AppRuns /\ ~comm.diag
  /\ comm' = Sealed([comm EXCEPT !.diag = TRUE]) /\ owed' = owed \cup {"diag"}
  /\ UNCHANGED <<kwpVars, stage, copyAt, wdt, wdtCause, fuses, cuts, launches, copyFailed>>

AppReboot ==
  /\ AppRuns /\ comm.diag
  /\ ResetBy(FALSE)
  /\ UNCHANGED <<nvm, comm, fuses, cuts, hist>>

Application == AppHealthy \/ AppPanic \/ AppRamFail \/ AppDiagRequest \/ AppReboot

\* Started at launch, fed by the application's performance monitor alone.
WatchdogReset ==
  /\ wdt /\ ResetBy(TRUE)
  /\ UNCHANGED <<nvm, comm, fuses, cuts, hist>>

-----------------------------------------------------------------------------
(* The diagnostic server while the bootloader stays *)

DiagCommand ==
  /\ stage = "diag" /\ \E r \in Replies : Command(r)
  /\ UNCHANGED <<boot, hist>>

DiagUpdate == stage = "diag" /\ Update /\ UNCHANGED <<boot, hist>>

DiagTick == stage = "diag" /\ Tick /\ UNCHANGED <<boot, hist>>

\* The reset follows its reply, unless the tester timeout comes first.
DiagReset ==
  /\ stage = "diag" /\ pending.op = "reset" /\ ~Expired
  /\ ResetBy(FALSE)
  /\ UNCHANGED <<nvm, comm, fuses, cuts, hist>>

Diag == DiagCommand \/ DiagUpdate \/ DiagTick \/ DiagReset

-----------------------------------------------------------------------------
(* Power cuts and the reset button *)

\* Units that a flash operation may be in the middle of.
InFlight ==
  LET copying == {u \in BlUnits : stage \in {"copyErase", "copyWrite"} /\ u = BlStart + copyAt}
      erasing == {u \in FlashUnits : stage = "diag" /\ pending.op = "erase"
                                     /\ u = pending.at + pending.done}
      writing == {u \in Units : stage = "diag" /\ pending.op \in {"flash", "qspiFlash"}
                                /\ u = pending.at}
      qErasing == {u \in QspiUnits : stage = "diag" /\ pending.op = "qspiErase"
                                     /\ u \in QspiNext}
  IN copying \cup erasing \cup writing \cup qErasing

\* SmartEEPROM records that a step of the code may be in the middle of writing.
SeeWrites ==
  (IF stage = "copyCommit" THEN {Committed(see, mem)} ELSE {})
  \cup
  (IF stage = "diag" /\ RoutineAllowed
   THEN {EraseMark(see)}
        \cup {AppChecked(see) : a \in {b \in Addresses : \E i \in AppImages : CheckMatches(b, i, AppLen)}}
        \cup {BlChecked(mem, see) : i \in {j \in BlImages : CheckMatches(BlStart, j, BlSectors)}}
   ELSE {})

\* mutate_smarteeprom_info writes the record from its first field to its last;
\* the n-th of these fields is the first that is not written.
SeeOrder == [year |-> 1, appDone |-> 2, blPend |-> 3, appCrc |-> 4, blCrc |-> 5]
WrittenUpTo(n, old, new) ==
  [f \in SeeFields |-> IF SeeOrder[f] < n THEN new[f] ELSE old[f]]

\* A cut inside the CRC itself leaves a value that nothing matches.
TornWrites(old, new) ==
  {WrittenUpTo(n, old, new) : n \in 1 .. 6} \cup
  (IF old.blCrc = new.blCrc THEN {}
   ELSE {[WrittenUpTo(5, old, new) EXCEPT !.blCrc = NoCrc]})

\* RAM keeps what it held, or not.
CutRam ==
  \/ UNCHANGED <<comm, owed, launches>>
  \/ comm' \in Garbage /\ owed' = {} /\ launches' = 0

CutFlash ==
  \/ UNCHANGED <<mem, see>>
  \/ \E u \in InFlight : mem' = [mem EXCEPT ![u] = Torn] /\ UNCHANGED see
  \/ UNCHANGED mem /\ \E new \in SeeWrites : see' \in TornWrites(see, new)

Cut ==
  /\ cuts < MaxCuts /\ cuts' = cuts + 1
  /\ CutRam /\ CutFlash
  /\ ResetBy(FALSE)
  /\ UNCHANGED <<fuses, copyFailed>>

-----------------------------------------------------------------------------
Next == Preloader \/ Bootloader \/ Application \/ WatchdogReset \/ Diag \/ Cut

Spec == Init /\ [][Next]_chainVars

\* The CPU runs: neither the preloader nor the bootloader waits for anything.
FairSpec == Spec /\ WF_chainVars(Preloader) /\ WF_chainVars(Bootloader)

-----------------------------------------------------------------------------
(* Properties *)

\* The bootloader region holds one whole bootloader image, except between the
\* erase and the last write of the preloader's copy.
Copying == stage \in {"copyErase", "copyWrite"}

\* Whatever commands the server gets and wherever power is cut, a board whose
\* flash controller works never runs a damaged bootloader: the region is whole,
\* or the preloader still owes the copy of a whole image and will repeat it.
BootloaderIntact ==
  ~copyFailed =>
    /\ stage \notin {"preloader", "preEeprom"} /\ ~Copying => BlWhole(mem)
    /\ BlWhole(mem) \/ \E img \in BlImages : CopyOwed(see, mem, img)

\* A panic, a RAM failure or a request for the bootloader that the application
\* recorded keeps the bootloader from launching until it has stayed once.
FaultsAcknowledged == stage = "launch" => owed = {}

\* Resets and crashes in a row end in the bootloader after MAX_RESET_COUNT
\* launches, unless RAM lost the counter.
CrashLoopBounded == launches <= MaxResets

\* Only a whole application image is launched.
LaunchedAppIsWhole ==
  stage = "launch" => \E app \in AppImages : HoldsAt(mem, AppStart, app, AppLen)

\* A reset always leads to a running application or to a bootloader that
\* answers a tester, or has failed to set its fuses.
BootSettles == stage = "preloader" ~> stage \in {"appStart", "app", "diag", "dead"}

\* A bootloader update that passed the tester's check is installed, however
\* often power is cut, unless the preloader ignored a flash error.
UpdateInstalled ==
  \A img \in BlImages :
    (stage = "preloader" /\ fuses /\ CopyOwed(see, mem, img))
      ~> (BlHolds(mem, img) \/ copyFailed)
=============================================================================
