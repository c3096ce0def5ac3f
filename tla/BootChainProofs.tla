---------------------------- MODULE BootChainProofs ----------------------------
(***************************************************************************)
(* For every layout, every set of images, every sequence of tester commands *)
(* and any number of power cuts: the types hold, a damaged bootloader is    *)
(* never started, what the application or a RAM test recorded reaches the   *)
(* bootloader, and the reset counter bounds the launches in a row.          *)
(***************************************************************************)
EXTENDS BootChain, BootKwpProofs

TypeInv == TypeOK /\ PendingAbove

-----------------------------------------------------------------------------
(* Types *)

LEMMA CommFacts ==
  /\ CommDefault \in CommType
  /\ \A c \in CommType : /\ Sealed(c) \in CommType
                         /\ Counted(c) \in CommType
                         /\ Sealed([c EXCEPT !.ram = TRUE]) \in CommType
                         /\ Sealed([c EXCEPT !.panic = TRUE]) \in CommType
                         /\ Sealed([c EXCEPT !.diag = TRUE]) \in CommType
                         /\ Sealed([c EXCEPT !.resets = 0]) \in CommType
  <1>1. CommDefault \in CommType
    BY DEF CommDefault, CommType
  <1>2. \A c \in CommType : /\ Sealed(c) \in CommType
                            /\ Sealed([c EXCEPT !.ram = TRUE]) \in CommType
                            /\ Sealed([c EXCEPT !.panic = TRUE]) \in CommType
                            /\ Sealed([c EXCEPT !.diag = TRUE]) \in CommType
                            /\ Sealed([c EXCEPT !.resets = 0]) \in CommType
    <2>1. \A c \in CommType : Sealed(c) \in CommType
      BY DEF Sealed, CommType
    <2>2. \A c \in CommType : [c EXCEPT !.ram = TRUE] \in CommType
      BY DEF CommType
    <2>3. \A c \in CommType : [c EXCEPT !.panic = TRUE] \in CommType
      BY DEF CommType
    <2>4. \A c \in CommType : [c EXCEPT !.diag = TRUE] \in CommType
      BY DEF CommType
    <2>5. \A c \in CommType : [c EXCEPT !.resets = 0] \in CommType
      BY DEF CommType
    <2> QED
      BY <2>1, <2>2, <2>3, <2>4, <2>5
  <1>3. \A c \in CommType : Counted(c) \in CommType
    <2>1. \A n \in 0 .. 255 : (n + 1) % 256 \in 0 .. 255
      OBVIOUS
    <2> SUFFICES ASSUME NEW c \in CommType PROVE Counted(c) \in CommType
      OBVIOUS
    <2> DEFINE known == IF c.ok THEN c ELSE CommDefault
    <2>2. known \in CommType
      BY <1>1
    <2>3. known.resets \in 0 .. 255
      BY <2>2 DEF CommType
    <2> DEFINE n == (known.resets + 1) % 256
    <2>4. Counted(c) = [known EXCEPT !.resets = n]
      BY DEF Counted
    <2>5. n \in 0 .. 255
      BY <2>1, <2>3
    <2> HIDE DEF known, n
    <2> QED
      BY <2>2, <2>4, <2>5 DEF CommType
  <1> QED
    BY <1>1, <1>2, <1>3

\* The server and the memory keep their types when they do not change.
LEMMA KwpUnchanged ==
  ASSUME KwpInv, UNCHANGED kwpVars
  PROVE  KwpInv'
  BY DEF KwpInv, KwpTypeOK, PendingAbove, kwpVars, nvm, server, SeeType

\* The types of the server when only the memory or the record changes.
LEMMA KwpNvmChanged ==
  ASSUME KwpInv, UNCHANGED server, (mem \in [Units -> Contents])', SeeType(see')
  PROVE  KwpInv'
  BY DEF KwpInv, KwpTypeOK, PendingAbove, server, SeeType

\* The types after a reset.
LEMMA KwpReset ==
  ASSUME NEW watchdog, ResetBy(watchdog), (mem \in [Units -> Contents])', SeeType(see')
  PROVE  KwpInv'
  <1>1. quiet' \in 0 .. P2Max + 1
    BY WidthAssumption DEF ResetBy, ServerStart
  <1>2. pending' = NoOp
    BY DEF ResetBy, ServerStart
  <1>3. KwpTypeOK'
    BY <1>1, <1>2, NoOpType DEF KwpTypeOK, ResetBy, ServerStart, Sessions, SeeType
  <1> QED
    BY <1>2, <1>3 DEF KwpInv, PendingAbove, NoOp

LEMMA ResetType ==
  ASSUME ChainTypeOK, NEW watchdog \in BOOLEAN, ResetBy(watchdog)
  PROVE  stage' \in Stages /\ copyAt' \in 0 .. BlSectors /\ wdt' \in BOOLEAN /\ wdtCause' \in BOOLEAN
  <1>1. copyAt' \in 0 .. BlSectors
    BY LayoutAssumption DEF ResetBy
  <1> QED
    BY <1>1 DEF ResetBy, Stages

\* TypeInv is the server's invariant and the types of the boot chain.
LEMMA TypeInvSplit == TypeInv <=> KwpInv /\ ChainTypeOK
  BY DEF TypeInv, TypeOK, KwpInv

LEMMA TypeInvSplitPrime ==
  ASSUME KwpInv', ChainTypeOK'
  PROVE  TypeInv'
  BY DEF TypeInv, TypeOK, KwpInv

\* A step that resets and does not touch the memory.
LEMMA ResetStepType ==
  ASSUME TypeInv, NEW watchdog \in BOOLEAN, ResetBy(watchdog), UNCHANGED nvm,
         comm' \in CommType, fuses' \in BOOLEAN, cuts' \in 0 .. MaxCuts,
         owed' \subseteq {"panic", "ram", "diag"}, launches' \in Nat, copyFailed' \in BOOLEAN
  PROVE  TypeInv'
  <1>1. KwpInv /\ ChainTypeOK
    BY TypeInvSplit
  <1>2. (mem \in [Units -> Contents])' /\ SeeType(see')
    BY <1>1 DEF nvm, KwpInv, KwpTypeOK, SeeType
  <1>3. KwpInv'
    BY <1>2, KwpReset
  <1>4. ChainTypeOK'
    BY <1>1, ResetType DEF ChainTypeOK
  <1> QED
    BY <1>3, <1>4, TypeInvSplitPrime

\* A step of the server while the bootloader stays.
LEMMA DiagStepType ==
  ASSUME TypeInv, StepOK, UNCHANGED <<boot, hist>>
  PROVE  TypeInv'
  <1>1. KwpInv'
    BY DEF StepOK
  <1>2. ChainTypeOK'
    BY TypeInvSplit DEF ChainTypeOK, boot, hist
  <1> QED
    BY <1>1, <1>2, TypeInvSplitPrime

\* One unit of the flash gets new contents.
LEMMA WriteType ==
  ASSUME mem \in [Units -> Contents], NEW u, NEW c \in Contents, mem' = [mem EXCEPT ![u] = c]
  PROVE  mem' \in [Units -> Contents]
  OBVIOUS

\* What the preloader's commit and a torn write make of the record.
LEMMA RecordTypes ==
  ASSUME SeeType(see), NEW m
  PROVE  /\ SeeType(Committed(see, m)) /\ SeeType(EraseMark(see))
         /\ SeeType(AppChecked(see)) /\ SeeType(BlChecked(m, see))
         /\ \A new : SeeType(new) => \A s \in TornWrites(see, new) : SeeType(s)
  <1>1. SeeType(Committed(see, m)) /\ SeeType(EraseMark(see))
    BY DEF SeeType, SeeFields, Committed, EraseMark
  <1>2. SeeType(AppChecked(see)) /\ SeeType(BlChecked(m, see))
    BY DEF SeeType, SeeFields, AppChecked, BlChecked
  <1>3. ASSUME NEW new, SeeType(new), NEW s \in TornWrites(see, new)
        PROVE  SeeType(s)
    <2>1. ASSUME NEW n \in 1 .. 6 PROVE SeeType(WrittenUpTo(n, see, new))
      BY <1>3 DEF SeeType, SeeFields, WrittenUpTo
    <2>2. SeeType([WrittenUpTo(5, see, new) EXCEPT !.blCrc = NoCrc])
      BY <2>1 DEF SeeType, SeeFields
    <2> QED
      BY <1>3, <2>1, <2>2 DEF TornWrites
  <1> QED
    BY <1>1, <1>2, <1>3

LEMMA PreloaderType ==
  ASSUME TypeInv, Preloader
  PROVE  TypeInv'
  <1>0. KwpInv /\ ChainTypeOK /\ mem \in [Units -> Contents] /\ SeeType(see)
    BY TypeInvSplit DEF KwpInv, KwpTypeOK
  <1>1. CASE PreloaderRamTest
    <2>1. KwpInv'
      BY <1>0, <1>1, KwpUnchanged DEF PreloaderRamTest
    <2>2. comm' \in CommType
      BY <1>0, <1>1, CommFacts DEF PreloaderRamTest, ChainTypeOK
    <2>3. ChainTypeOK'
      BY <1>0, <1>1, <2>2 DEF PreloaderRamTest, ChainTypeOK, Stages
    <2> QED
      BY <2>1, <2>3, TypeInvSplitPrime
  <1>2. CASE PreloaderEeprom
    <2>1. KwpInv'
      BY <1>0, <1>2, KwpUnchanged DEF PreloaderEeprom
    <2>2. 0 \in 0 .. BlSectors
      BY LayoutAssumption
    <2>3. ChainTypeOK'
      BY <1>0, <1>2, <2>2 DEF PreloaderEeprom, ChainTypeOK, Stages, AfterEeprom, hist
    <2> QED
      BY <2>1, <2>3, TypeInvSplitPrime
  <1>3. CASE CopyErase \/ CopyWrite
    <2>1. (mem \in [Units -> Contents])'
      <3>1. mem[AppStart + copyAt] \in Contents
        BY <1>0, LayoutAssumption DEF ChainTypeOK, Units, FlashUnits, AppUnits, AppStart, FlashEnd
      <3> QED
        BY <1>0, <1>3, <3>1, ContentsFacts, WriteType DEF CopyErase, CopyWrite, Programmed
    <2>2. UNCHANGED <<see, server>>
      BY <1>3 DEF CopyErase, CopyWrite
    <2>3. KwpInv'
      BY <1>0, <2>1, <2>2, KwpNvmChanged DEF SeeType
    <2>4. copyAt' \in 0 .. BlSectors
      BY <1>0, <1>3, LayoutAssumption DEF CopyErase, CopyWrite, CopyLeft, ChainTypeOK
    <2>5. ChainTypeOK'
      BY <1>0, <1>3, <2>4 DEF CopyErase, CopyWrite, ChainTypeOK, Stages
    <2> QED
      BY <2>3, <2>5, TypeInvSplitPrime
  <1>4. CASE CopyCommit
    <2>1. UNCHANGED <<mem, server>> /\ SeeType(see')
      BY <1>0, <1>4, RecordTypes DEF CopyCommit
    <2>2. KwpInv'
      BY <1>0, <2>1, KwpNvmChanged
    <2>3. ChainTypeOK'
      BY <1>0, <1>4 DEF CopyCommit, ChainTypeOK, Stages, hist
    <2> QED
      BY <2>2, <2>3, TypeInvSplitPrime
  <1> QED
    BY <1>1, <1>2, <1>3, <1>4 DEF Preloader

LEMMA BootloaderType ==
  ASSUME TypeInv, Bootloader
  PROVE  TypeInv'
  <1>0. KwpInv /\ ChainTypeOK
    BY TypeInvSplit
  <1>1. CASE SetFuses
    <2>1. CASE ResetBy(FALSE)
      BY <1>0, <1>1, <2>1, ResetStepType DEF SetFuses, ChainTypeOK, hist
    <2>2. CASE stage' = "dead" /\ UNCHANGED <<fuses, copyAt, wdt, wdtCause, server>>
      <3>1. KwpInv'
        BY <1>0, <1>1, <2>2, KwpUnchanged DEF SetFuses, kwpVars
      <3>2. ChainTypeOK'
        BY <1>0, <1>1, <2>2 DEF SetFuses, ChainTypeOK, Stages, hist
      <3> QED
        BY <3>1, <3>2, TypeInvSplitPrime
    <2> QED
      BY <1>1, <2>1, <2>2 DEF SetFuses
  <1>2. ASSUME NEW magic \in BOOLEAN, BootStay(magic) PROVE TypeInv'
    <2>1. PICK m \in Sessions : ServerStart(m)
      BY <1>2 DEF BootStay, Sessions
    <2>2. KwpInv'
      BY <1>0, <1>2, <2>1, ServerStartInv DEF BootStay
    <2>3. ChainTypeOK'
      BY <1>0, <1>2, CommFacts DEF BootStay, ChainTypeOK, Stages
    <2> QED
      BY <2>2, <2>3, TypeInvSplitPrime
  <1>3. ASSUME NEW magic \in BOOLEAN, BootLaunch(magic) PROVE TypeInv'
    <2>1. KwpInv'
      BY <1>0, <1>3, KwpUnchanged DEF BootLaunch
    <2>2. comm' \in CommType /\ launches' \in Nat
      <3>1. comm \in CommType /\ launches \in Nat
        BY <1>0 DEF ChainTypeOK
      <3>2. comm' = Counted(comm) /\ launches' \in {launches, launches + 1}
        BY <1>3 DEF BootLaunch
      <3>3. comm' \in CommType
        BY <3>1, <3>2, CommFacts
      <3> QED
        BY <3>1, <3>2, <3>3
    <2>3. ChainTypeOK'
      BY <1>0, <1>3, <2>2 DEF BootLaunch, ChainTypeOK, Stages
    <2> QED
      BY <2>1, <2>3, TypeInvSplitPrime
  <1>4. CASE Jump
    <2>1. KwpInv'
      BY <1>0, <1>4, KwpUnchanged DEF Jump
    <2>2. ChainTypeOK'
      BY <1>0, <1>4 DEF Jump, ChainTypeOK, Stages, hist
    <2> QED
      BY <2>1, <2>2, TypeInvSplitPrime
  <1> QED
    BY <1>1, <1>2, <1>3, <1>4 DEF Bootloader

LEMMA ApplicationType ==
  ASSUME TypeInv, Application
  PROVE  TypeInv'
  <1>0. KwpInv /\ ChainTypeOK /\ comm \in CommType
    BY TypeInvSplit DEF ChainTypeOK
  <1>1. CASE AppHealthy
    <2>1. KwpInv'
      BY <1>0, <1>1, KwpUnchanged DEF AppHealthy
    <2>2. ChainTypeOK'
      BY <1>0, <1>1, CommFacts DEF AppHealthy, ChainTypeOK, Stages
    <2> QED
      BY <2>1, <2>2, TypeInvSplitPrime
  <1>2. CASE AppPanic
    BY <1>0, <1>2, CommFacts, ResetStepType DEF AppPanic, ChainTypeOK
  <1>3. CASE AppRamFail
    BY <1>0, <1>3, CommFacts, ResetStepType DEF AppRamFail, ChainTypeOK
  <1>4. CASE AppDiagRequest
    <2>1. KwpInv'
      BY <1>0, <1>4, KwpUnchanged DEF AppDiagRequest
    <2>2. ChainTypeOK'
      BY <1>0, <1>4, CommFacts DEF AppDiagRequest, ChainTypeOK
    <2> QED
      BY <2>1, <2>2, TypeInvSplitPrime
  <1>5. CASE AppReboot
    BY <1>0, <1>5, ResetStepType DEF AppReboot, ChainTypeOK, hist
  <1> QED
    BY <1>1, <1>2, <1>3, <1>4, <1>5 DEF Application

LEMMA DiagType ==
  ASSUME TypeInv, Diag
  PROVE  TypeInv'
  <1>0. KwpInv /\ ChainTypeOK
    BY TypeInvSplit
  <1>1. CASE DiagCommand \/ DiagUpdate \/ DiagTick
    BY <1>0, <1>1, CommandOK, UpdateOK, TickOK, DiagStepType DEF DiagCommand, DiagUpdate, DiagTick
  <1>2. CASE DiagReset
    BY <1>0, <1>2, ResetStepType DEF DiagReset, ChainTypeOK, hist
  <1> QED
    BY <1>1, <1>2 DEF Diag

LEMMA CutType ==
  ASSUME TypeInv, Cut
  PROVE  TypeInv'
  <1>0. KwpInv /\ ChainTypeOK /\ mem \in [Units -> Contents] /\ SeeType(see)
    BY TypeInvSplit DEF KwpInv, KwpTypeOK
  <1>1. (mem \in [Units -> Contents])' /\ SeeType(see')
    <2>1. CASE UNCHANGED <<mem, see>>
      BY <1>0, <2>1 DEF SeeType
    <2>2. CASE \E u \in InFlight : mem' = [mem EXCEPT ![u] = Torn] /\ UNCHANGED see
      BY <1>0, <2>2, ContentsFacts, WriteType DEF SeeType
    <2>3. CASE UNCHANGED mem /\ \E new \in SeeWrites : see' \in TornWrites(see, new)
      <3>1. \A new \in SeeWrites : SeeType(new)
        BY <1>0, RecordTypes DEF SeeWrites
      <3> QED
        BY <1>0, <2>3, <3>1, RecordTypes
    <2> QED
      BY <2>1, <2>2, <2>3 DEF Cut, CutFlash
  <1>2. KwpInv'
    BY <1>1, KwpReset DEF Cut
  <1>3. stage' \in Stages /\ copyAt' \in 0 .. BlSectors /\ wdt' \in BOOLEAN /\ wdtCause' \in BOOLEAN
    BY <1>0, ResetType DEF Cut
  <1>4. comm' \in CommType /\ owed' \subseteq {"panic", "ram", "diag"} /\ launches' \in Nat
    <2>1. CASE UNCHANGED <<comm, owed, launches>>
      BY <1>0, <2>1 DEF ChainTypeOK
    <2>2. CASE comm' \in Garbage /\ owed' = {} /\ launches' = 0
      BY <2>2, ChainAssumption
    <2> QED
      BY <2>1, <2>2 DEF Cut, CutRam
  <1>5. cuts' \in 0 .. MaxCuts
    BY <1>0, ChainAssumption DEF Cut, ChainTypeOK
  <1>6. ChainTypeOK'
    BY <1>0, <1>3, <1>4, <1>5 DEF Cut, ChainTypeOK
  <1> QED
    BY <1>2, <1>6, TypeInvSplitPrime

LEMMA InitType == Init => TypeInv
  <1> SUFFICES ASSUME Init PROVE TypeInv
    OBVIOUS
  <1>1. mem \in [Units -> Contents]
    <2>1. Erased \in Contents /\ \A img \in Images, n \in Nat : <<img, n>> \in Contents
      BY ContentsFacts DEF Contents
    <2>2. \A u \in BlUnits : u \in Nat
      BY DEF BlUnits, BlStart
    <2>3. ASSUME NEW bl \in BlImages,
                 mem = [u \in Units |-> IF u \in BlUnits THEN <<bl, u>> ELSE Erased]
          PROVE  mem \in [Units -> Contents]
      BY <2>1, <2>2, <2>3 DEF Images
    <2>4. ASSUME NEW bl \in BlImages, NEW app \in AppImages,
                 mem = [u \in Units |->
                          IF u \in BlUnits THEN <<bl, u>>
                          ELSE IF u - BlSectors \in 1 .. AppLen THEN <<app, u - BlSectors>>
                          ELSE Erased]
          PROVE  mem \in [Units -> Contents]
      <3>1. \A n \in 1 .. AppLen : n \in Nat
        OBVIOUS
      <3> QED
        BY <2>1, <2>2, <2>4, <3>1 DEF Images
    <2> QED
      BY <2>3, <2>4 DEF Init
  <1>2. SeeType(see)
    <2>1. SeeType(Blank) /\ SeeType(InService)
      <3>1. SeeType(Blank)
        BY DEF Blank, SeeType, SeeFields
      <3>2. 26 \in 0 .. 255
        OBVIOUS
      <3>3. InService.year = 26 /\ DOMAIN InService = SeeFields
        BY <3>1 DEF InService, SeeType, SeeFields
      <3>4. InService.appDone = TRUE /\ InService.appCrc = TRUE /\ InService.blPend = Blank.blPend
        BY <3>1 DEF InService, SeeType, SeeFields
      <3> QED
        BY <3>1, <3>2, <3>3, <3>4 DEF SeeType
    <2> QED
      BY <2>1 DEF Init
  <1>3. quiet \in 0 .. P2Max + 1
    BY WidthAssumption DEF Init
  <1>4. KwpTypeOK /\ PendingAbove
    BY <1>1, <1>2, <1>3, NoOpType DEF Init, KwpTypeOK, Sessions, PendingAbove, NoOp
  <1>5. copyAt \in 0 .. BlSectors /\ cuts \in 0 .. MaxCuts
    BY LayoutAssumption, ChainAssumption DEF Init
  <1>6. ChainTypeOK
    BY <1>5, ChainAssumption DEF Init, ChainTypeOK, Stages
  <1> QED
    BY <1>4, <1>6 DEF TypeInv, TypeOK

LEMMA NextType == TypeInv /\ [Next]_chainVars => TypeInv'
  <1> SUFFICES ASSUME TypeInv, [Next]_chainVars PROVE TypeInv'
    OBVIOUS
  <1>1. CASE WatchdogReset
    BY <1>1, TypeInvSplit, ResetStepType DEF WatchdogReset, ChainTypeOK, hist
  <1>2. CASE UNCHANGED chainVars
    <2>1. KwpInv' /\ ChainTypeOK'
      BY <1>2, TypeInvSplit, KwpUnchanged DEF chainVars, ChainTypeOK, boot, hist
    <2> QED
      BY <2>1, TypeInvSplitPrime
  <1> QED
    BY <1>1, <1>2, PreloaderType, BootloaderType, ApplicationType, DiagType, CutType DEF Next

\* Every variable of the boot chain keeps its type, through every command,
\* reset, crash and power cut.
THEOREM TypeCorrect == Spec => []TypeOK
  <1>1. TypeInv => TypeOK
    BY DEF TypeInv
  <1> QED
    BY <1>1, InitType, NextType, PTL DEF Spec

-----------------------------------------------------------------------------
(* The bootloader region *)

\* The recorded CRC, when it is one of a scratch area, is that of a whole image.
HoldsImage(c) == \E img \in BlImages : \A k \in 1 .. BlSectors : c[k] = <<img, k>>
CrcSound == DOMAIN see.blCrc = 1 .. ScratchSectors => HoldsImage(see.blCrc)

Due == fuses /\ CopyDue(see, mem)

\* What is known of the region before, during and after the copy.
Before == stage \in {"preloader", "preEeprom"} => BlWhole(mem) \/ Due
ErasedSoFar ==
  stage = "copyErase" => Due /\ \A k \in 0 .. copyAt - 1 : mem[BlStart + k] = Erased
WrittenSoFar ==
  stage = "copyWrite" =>
    /\ Due
    /\ \A k \in 0 .. copyAt - 1 : mem[BlStart + k] = mem[AppStart + k]
    /\ \A k \in copyAt .. BlSectors - 1 : mem[BlStart + k] = Erased
After ==
  stage \notin {"preloader", "preEeprom", "copyErase", "copyWrite"} => BlWhole(mem)

Region == CrcSound /\ Before /\ ErasedSoFar /\ WrittenSoFar /\ After

\* The inductive invariant.
IInv == TypeInv /\ (~copyFailed => Region)

-----------------------------------------------------------------------------
(* Lemmas about the copy *)

\* A copy that is due copies a whole image.
LEMMA DueHoldsImage ==
  ASSUME CrcSound, CopyDue(see, mem)
  PROVE  \E img \in BlImages : HoldsAt(mem, AppStart, img, BlSectors)
  <1>1. see.blCrc = [k \in 1 .. ScratchSectors |-> mem[AppStart + k - 1]]
    BY DEF CopyDue, ScratchCrc, Crc
  <1>2. PICK img \in BlImages : \A k \in 1 .. BlSectors : see.blCrc[k] = <<img, k>>
    BY <1>1 DEF CrcSound, HoldsImage
  <1>3. \A k \in 1 .. BlSectors : k \in 1 .. ScratchSectors
    BY LayoutAssumption
  <1> QED
    BY <1>1, <1>2, <1>3 DEF HoldsAt

\* The region after a step that leaves it alone.
LEMMA WholeKept ==
  ASSUME BlWhole(mem), BlKept
  PROVE  BlWhole(mem')
  <1>1. \A k \in 1 .. BlSectors : BlStart + k - 1 \in BlUnits
    BY LayoutAssumption DEF BlUnits, BlStart
  <1> QED
    BY <1>1 DEF BlWhole, BlHolds, HoldsAt, BlKept

\* A CRC recorded by the commit or by the tester's check is sound.
LEMMA CrcOfImageSound ==
  ASSUME NEW lo \in Nat, NEW n \in Nat, BlSectors <= n,
         NEW img \in BlImages, HoldsAt(mem, lo, img, BlSectors)
  PROVE  HoldsImage(Crc(mem, lo, n))
  <1>1. \A k \in 1 .. BlSectors : k \in 1 .. n
    BY LayoutAssumption
  <1>2. \A k \in 1 .. BlSectors : Crc(mem, lo, n)[k] = <<img, k>>
    BY <1>1 DEF Crc, HoldsAt
  <1> QED
    BY <1>2 DEF HoldsImage

LEMMA CrcSoundKept ==
  ASSUME CrcSound, CrcKept
  PROVE  CrcSound'
  <1>1. CASE see'.blCrc = see.blCrc
    BY <1>1 DEF CrcSound, HoldsImage
  <1>2. CASE /\ see'.blCrc = Crc(mem, AppStart, ScratchSectors)
             /\ \E img \in BlImages : HoldsAt(mem, AppStart, img, BlSectors)
    <2>1. HoldsImage(see'.blCrc)
      BY <1>2, CrcOfImageSound, LayoutAssumption, NatFacts
    <2> QED
      BY <2>1 DEF CrcSound, HoldsImage
  <1> QED
    BY <1>1, <1>2 DEF CrcKept

\* NoCrc, and every CRC that is not of the scratch area's size, is sound.
LEMMA NoCrcSound == DOMAIN NoCrc # 1 .. ScratchSectors
  <1>1. 1 \in 1 .. ScratchSectors
    BY LayoutAssumption
  <1>2. DOMAIN NoCrc = {}
    BY DEF NoCrc
  <1> QED
    BY <1>1, <1>2

\* Outside the copy a whole region is all there is to show.
LEMMA RegionOfWhole ==
  ASSUME BlWhole(mem'), CrcSound', stage' \notin {"copyErase", "copyWrite"}
  PROVE  Region'
  BY DEF Region, Before, ErasedSoFar, WrittenSoFar, After, BlWhole, BlHolds, HoldsAt

\* In every stage the region is whole or the copy is due.
LEMMA WholeOrDue ==
  ASSUME Region
  PROVE  BlWhole(mem) \/ Due
  BY DEF Region, Before, ErasedSoFar, WrittenSoFar, After

\* A reset that keeps the memory and the record, in any stage.
LEMMA RegionReset ==
  ASSUME Region, UNCHANGED <<mem, see, fuses>>, stage' = "preloader"
  PROVE  Region'
  <1>1. CrcSound'
    BY DEF Region, CrcSound, HoldsImage
  <1>2. BlWhole(mem') \/ Due'
    BY WholeOrDue DEF Due, CopyDue, ScratchCrc, Crc, BlWhole, BlHolds, HoldsAt
  <1> QED
    BY <1>1, <1>2 DEF Region, Before, ErasedSoFar, WrittenSoFar, After, BlWhole, BlHolds, HoldsAt

\* A step that leaves the memory and the record alone, in a stage after the copy.
LEMMA RegionAfter ==
  ASSUME Region, UNCHANGED <<mem, see>>,
         stage \notin {"preloader", "preEeprom", "copyErase", "copyWrite"},
         stage' \notin {"copyErase", "copyWrite"}
  PROVE  Region'
  <1>1. CrcSound' /\ BlWhole(mem')
    BY DEF Region, CrcSound, HoldsImage, After, BlWhole, BlHolds, HoldsAt
  <1> QED
    BY <1>1, RegionOfWhole

LEMMA PreloaderRegion ==
  ASSUME IInv, ~copyFailed', Preloader
  PROVE  Region'
  <1>0. /\ Region /\ copyAt \in 0 .. BlSectors /\ mem \in [Units -> Contents]
        /\ SeeType(see) /\ BlSectors \in Nat \ {0}
    BY LayoutAssumption
    DEF IInv, Preloader, PreloaderRamTest, PreloaderEeprom, CopyErase, CopyWrite, CopyCommit,
        hist, TypeInv, TypeOK, ChainTypeOK, KwpTypeOK
  <1>1. CASE PreloaderRamTest
    <2>1. UNCHANGED <<mem, see, fuses>> /\ stage = "preloader" /\ stage' = "preEeprom"
      BY <1>1 DEF PreloaderRamTest, kwpVars, nvm
    <2>2. CrcSound'
      BY <1>0, <2>1 DEF Region, CrcSound, HoldsImage
    <2>3. BlWhole(mem') \/ Due'
      BY <1>0, <2>1, WholeOrDue DEF Due, CopyDue, ScratchCrc, Crc, BlWhole, BlHolds, HoldsAt
    <2> QED
      BY <2>1, <2>2, <2>3
      DEF Region, Before, ErasedSoFar, WrittenSoFar, After, BlWhole, BlHolds, HoldsAt
  <1>2. CASE PreloaderEeprom
    <2>1. UNCHANGED <<mem, see, fuses>> /\ stage' = AfterEeprom /\ copyAt' = 0
      BY <1>2 DEF PreloaderEeprom, kwpVars, nvm
    <2>2. CrcSound'
      BY <1>0, <2>1 DEF Region, CrcSound, HoldsImage
    <2>3. CASE AfterEeprom = "copyErase"
      <3>1. Due'
        BY <2>1, <2>3 DEF AfterEeprom, CopyVerified, Due, CopyDue, ScratchCrc, Crc
      <3>2. ErasedSoFar'
        BY <2>1, <3>1 DEF ErasedSoFar
      <3> QED
        BY <2>1, <2>2, <2>3, <3>2 DEF Region, Before, WrittenSoFar, After
    <2>4. CASE AfterEeprom # "copyErase"
      <3>1. ~Due
        BY <2>4 DEF AfterEeprom, CopyVerified, Due, CopyDue
      <3>2. BlWhole(mem')
        BY <1>0, <2>1, <3>1, WholeOrDue DEF BlWhole, BlHolds, HoldsAt
      <3> QED
        BY <2>1, <2>2, <2>4, <3>2, RegionOfWhole DEF AfterEeprom
    <2> QED
      BY <2>3, <2>4
  <1>3. CASE CopyErase
    <2>1. CrcSound' /\ UNCHANGED <<see, fuses>> /\ stage = "copyErase"
      BY <1>0, <1>3 DEF CopyErase, Region, CrcSound, HoldsImage
    <2>2. Due /\ \A k \in 0 .. copyAt - 1 : mem[BlStart + k] = Erased
      BY <1>0, <2>1 DEF Region, ErasedSoFar
    <2>3. CASE /\ CopyLeft /\ mem' = [mem EXCEPT ![BlStart + copyAt] = Erased]
               /\ copyAt' = copyAt + 1 /\ UNCHANGED stage
      <3>1. \A k \in 0 .. BlSectors - 1 : BlStart + k \in Units
        BY <1>0, LayoutAssumption DEF BlStart, Units, FlashUnits, BlUnits
      <3>2. \A k \in 1 .. ScratchSectors : mem'[AppStart + k - 1] = mem[AppStart + k - 1]
        BY <1>0, <2>3, LayoutAssumption DEF AppStart, BlStart, CopyLeft
      <3>3. Due'
        BY <2>1, <2>2, <3>2 DEF Due, CopyDue, ScratchCrc, Crc
      <3>4. ASSUME NEW k \in 0 .. copyAt' - 1 PROVE mem'[BlStart + k] = Erased
        BY <1>0, <2>2, <2>3, <3>1 DEF CopyLeft, BlStart
      <3>5. ErasedSoFar'
        BY <3>3, <3>4 DEF ErasedSoFar, BlStart
      <3> QED
        BY <2>1, <2>3, <3>5 DEF Region, Before, WrittenSoFar, After
    <2>4. CASE ~CopyLeft /\ stage' = "copyWrite" /\ copyAt' = 0 /\ UNCHANGED mem
      <3>1. Due'
        BY <2>1, <2>2, <2>4 DEF Due, CopyDue, ScratchCrc, Crc
      <3>2. \A k \in 0 .. BlSectors - 1 : mem'[BlStart + k] = Erased
        BY <1>0, <2>2, <2>4 DEF CopyLeft
      <3>3. WrittenSoFar'
        BY <2>4, <3>1, <3>2 DEF WrittenSoFar, BlStart, AppStart
      <3> QED
        BY <2>1, <2>4, <3>3 DEF Region, Before, ErasedSoFar, After
    <2> QED
      BY <1>3, <2>3, <2>4 DEF CopyErase
  <1>4. CASE CopyWrite
    <2>1. CrcSound' /\ UNCHANGED <<see, fuses>> /\ stage = "copyWrite"
      BY <1>0, <1>4 DEF CopyWrite, Region, CrcSound, HoldsImage
    <2>2. /\ Due
          /\ \A k \in 0 .. copyAt - 1 : mem[BlStart + k] = mem[AppStart + k]
          /\ \A k \in copyAt .. BlSectors - 1 : mem[BlStart + k] = Erased
      BY <1>0, <2>1 DEF Region, WrittenSoFar
    <2>3. CASE /\ CopyLeft
               /\ mem' = [mem EXCEPT ![BlStart + copyAt] =
                            Programmed(mem[BlStart + copyAt], mem[AppStart + copyAt])]
               /\ copyAt' = copyAt + 1 /\ UNCHANGED stage
      <3>1. \A k \in 0 .. BlSectors - 1 : BlStart + k \in Units
        BY <1>0, LayoutAssumption DEF BlStart, Units, FlashUnits, BlUnits
      <3>2. \A k \in 1 .. ScratchSectors : mem'[AppStart + k - 1] = mem[AppStart + k - 1]
        BY <1>0, <2>3, LayoutAssumption DEF AppStart, BlStart, CopyLeft
      <3>3. \A k \in 0 .. BlSectors - 1 : mem'[AppStart + k] = mem[AppStart + k]
        BY <1>0, <2>3, LayoutAssumption DEF AppStart, BlStart, CopyLeft
      <3>4. Programmed(mem[BlStart + copyAt], mem[AppStart + copyAt]) = mem[AppStart + copyAt]
        BY <1>0, <2>2, <2>3 DEF Programmed, CopyLeft
      <3>5. Due'
        BY <2>1, <2>2, <3>2 DEF Due, CopyDue, ScratchCrc, Crc
      <3>6. ASSUME NEW k \in 0 .. copyAt' - 1 PROVE mem'[BlStart + k] = mem'[AppStart + k]
        BY <1>0, <2>2, <2>3, <3>1, <3>3, <3>4 DEF CopyLeft, BlStart
      <3>7. ASSUME NEW k \in copyAt' .. BlSectors - 1 PROVE mem'[BlStart + k] = Erased
        BY <1>0, <2>2, <2>3, <3>1 DEF CopyLeft, BlStart
      <3>8. WrittenSoFar'
        BY <3>5, <3>6, <3>7 DEF WrittenSoFar, BlStart, AppStart
      <3> QED
        BY <2>1, <2>3, <3>8 DEF Region, Before, ErasedSoFar, After
    <2>4. CASE ~CopyLeft /\ stage' = "copyCommit" /\ copyAt' = 0 /\ UNCHANGED mem
      <3>1. PICK img \in BlImages : HoldsAt(mem, AppStart, img, BlSectors)
        BY <1>0, <2>2, DueHoldsImage DEF Region, Due
      <3>2. \A k \in 0 .. BlSectors - 1 : mem[BlStart + k] = mem[AppStart + k]
        BY <1>0, <2>2, <2>4 DEF CopyLeft
      <3>3. ASSUME NEW k \in 1 .. BlSectors PROVE mem[BlStart + k - 1] = <<img, k>>
        <4>1. k - 1 \in 0 .. BlSectors - 1
          BY <1>0
        <4>2. BlStart + (k - 1) = BlStart + k - 1 /\ AppStart + (k - 1) = AppStart + k - 1
          BY <1>0 DEF BlStart, AppStart
        <4>3. mem[BlStart + (k - 1)] = mem[AppStart + (k - 1)]
          BY <3>2, <4>1
        <4>4. mem[AppStart + k - 1] = <<img, k>>
          BY <3>1 DEF HoldsAt
        <4> QED
          BY <4>2, <4>3, <4>4
      <3>4. BlWhole(mem')
        BY <2>4, <3>3 DEF BlWhole, BlHolds, HoldsAt
      <3> QED
        BY <2>1, <2>4, <3>4, RegionOfWhole
    <2> QED
      BY <1>4, <2>3, <2>4 DEF CopyWrite
  <1>5. CASE CopyCommit
    <2>1. PICK img \in BlImages : HoldsAt(mem, BlStart, img, BlSectors)
      BY <1>0, <1>5 DEF CopyCommit, Region, After, BlWhole, BlHolds
    <2>2. see'.blCrc = Crc(mem, BlStart, BlSectors)
      BY <1>0, <1>5 DEF CopyCommit, Committed, SeeType, SeeFields
    <2>3. CrcSound'
      BY <1>0, <2>1, <2>2, CrcOfImageSound DEF CrcSound, HoldsImage, BlStart
    <2>4. BlWhole(mem')
      BY <1>5, <2>1 DEF CopyCommit, BlWhole, BlHolds, HoldsAt
    <2> QED
      BY <1>5, <2>3, <2>4, RegionOfWhole DEF CopyCommit
  <1> QED
    BY <1>1, <1>2, <1>3, <1>4, <1>5 DEF Preloader

LEMMA BootloaderRegion ==
  ASSUME IInv, ~copyFailed', Bootloader
  PROVE  Region'
  <1>0. Region
    BY DEF IInv, Bootloader, SetFuses, BootStay, BootLaunch, Jump, hist
  <1>1. UNCHANGED <<mem, see>>
    BY DEF Bootloader, SetFuses, BootStay, BootLaunch, Jump, kwpVars, nvm
  <1>2. /\ stage \notin {"preloader", "preEeprom", "copyErase", "copyWrite"}
        /\ stage' \notin {"copyErase", "copyWrite"}
    BY DEF Bootloader, SetFuses, BootStay, BootLaunch, Jump, ResetBy
  <1> QED
    BY <1>0, <1>1, <1>2, RegionAfter

LEMMA ApplicationRegion ==
  ASSUME IInv, ~copyFailed', Application
  PROVE  Region'
  <1>0. Region
    BY DEF IInv, Application, AppHealthy, AppPanic, AppRamFail, AppDiagRequest, AppReboot, hist
  <1>1. UNCHANGED <<mem, see>>
    BY DEF Application, AppHealthy, AppPanic, AppRamFail, AppDiagRequest, AppReboot, kwpVars, nvm
  <1>2. /\ stage \notin {"preloader", "preEeprom", "copyErase", "copyWrite"}
        /\ stage' \notin {"copyErase", "copyWrite"}
    BY DEF Application, AppHealthy, AppPanic, AppRamFail, AppDiagRequest, AppReboot, ResetBy, AppRuns
  <1> QED
    BY <1>0, <1>1, <1>2, RegionAfter

LEMMA DiagRegion ==
  ASSUME IInv, ~copyFailed', Diag
  PROVE  Region'
  <1>0. Region /\ KwpInv /\ stage = "diag" /\ BlWhole(mem) /\ CrcSound
    BY TypeInvSplit
    DEF IInv, Diag, DiagCommand, DiagUpdate, DiagTick, DiagReset, hist, Region, After
  <1>1. CASE DiagCommand \/ DiagUpdate \/ DiagTick
    <2>1. StepOK
      BY <1>0, <1>1, CommandOK, UpdateOK, TickOK DEF DiagCommand, DiagUpdate, DiagTick
    <2>2. BlWhole(mem') /\ CrcSound'
      BY <1>0, <2>1, WholeKept, CrcSoundKept DEF StepOK
    <2>3. stage' = stage
      BY <1>1 DEF DiagCommand, DiagUpdate, DiagTick, boot
    <2> QED
      BY <1>0, <2>2, <2>3, RegionOfWhole
  <1>2. CASE DiagReset
    BY <1>0, <1>2, RegionAfter DEF DiagReset, ResetBy, nvm
  <1> QED
    BY <1>1, <1>2 DEF Diag

LEMMA CutRegion ==
  ASSUME IInv, ~copyFailed', Cut
  PROVE  Region'
  <1>0. /\ Region /\ KwpInv /\ CrcSound /\ stage' = "preloader" /\ UNCHANGED fuses
        /\ ChainTypeOK /\ mem \in [Units -> Contents] /\ SeeType(see)
    BY TypeInvSplit DEF IInv, Cut, Region, ResetBy, KwpInv, KwpTypeOK
  <1>1. CASE UNCHANGED <<mem, see>>
    BY <1>0, <1>1, RegionReset
  <1>2. CASE \E u \in InFlight : mem' = [mem EXCEPT ![u] = Torn] /\ UNCHANGED see
    <2>1. PICK u \in InFlight : mem' = [mem EXCEPT ![u] = Torn] /\ UNCHANGED see
      BY <1>2
    <2>2. CrcSound'
      BY <1>0, <2>1 DEF CrcSound, HoldsImage
    <2>3. CASE stage \in {"copyErase", "copyWrite"}
      <3>1. Due /\ u \in BlUnits
        BY <1>0, <2>3 DEF Region, ErasedSoFar, WrittenSoFar, InFlight
      <3>2. \A k \in 1 .. ScratchSectors : mem'[AppStart + k - 1] = mem[AppStart + k - 1]
        BY <1>0, <2>1, <3>1, LayoutAssumption DEF AppStart, BlUnits, BlStart
      <3>3. Due'
        BY <1>0, <2>1, <3>1, <3>2 DEF Due, CopyDue, ScratchCrc, Crc
      <3> QED
        BY <1>0, <2>2, <3>3 DEF Region, Before, ErasedSoFar, WrittenSoFar, After
    <2>4. CASE stage \notin {"copyErase", "copyWrite"}
      <3>1. stage = "diag" /\ u \notin BlUnits
        <4>1. stage = "diag"
          BY <2>4 DEF InFlight
        <4>2. CASE pending.op \in {"erase", "flash", "qspiFlash"}
          <5>1. pending.at \in Nat /\ pending.done \in Nat /\ pending.at >= AppStart
            BY <1>0, <4>2 DEF KwpInv, KwpTypeOK, PendingAbove
          <5>2. u = pending.at + pending.done \/ u = pending.at
            BY <4>1, <4>2 DEF InFlight
          <5> QED
            BY <4>1, <5>1, <5>2, LayoutAssumption DEF AppStart, BlUnits, BlStart
        <4>3. CASE pending.op \notin {"erase", "flash", "qspiFlash"}
          BY <4>1, <4>3, NatFacts DEF InFlight
        <4> QED
          BY <4>2, <4>3
      <3>2. BlWhole(mem)
        BY <1>0, <3>1 DEF Region, After
      <3>3. BlKept
        BY <1>0, <2>1, <3>1, NatFacts DEF BlKept
      <3> QED
        BY <1>0, <2>2, <3>2, <3>3, WholeKept, RegionOfWhole
    <2> QED
      BY <2>3, <2>4
  <1>3. CASE UNCHANGED mem /\ \E new \in SeeWrites : see' \in TornWrites(see, new)
    <2>1. PICK new \in SeeWrites : see' \in TornWrites(see, new)
      BY <1>3
    <2>2. stage \in {"copyCommit", "diag"}
      BY <2>1 DEF SeeWrites
    <2>3. BlWhole(mem')
      BY <1>0, <1>3, <2>2 DEF Region, After, BlWhole, BlHolds, HoldsAt
    <2>4. DOMAIN new.blCrc = 1 .. ScratchSectors => HoldsImage(new.blCrc)
      <3>1. CASE stage = "copyCommit"
        <4>1. PICK img \in BlImages : HoldsAt(mem, BlStart, img, BlSectors)
          BY <1>0, <3>1 DEF Region, After, BlWhole, BlHolds
        <4>2. new.blCrc = Crc(mem, BlStart, BlSectors)
          BY <1>0, <2>1, <3>1 DEF SeeWrites, Committed, SeeType, SeeFields
        <4>3. BlStart \in Nat /\ BlSectors \in Nat /\ BlSectors <= BlSectors
          BY LayoutAssumption DEF BlStart
        <4>4. HoldsImage(Crc(mem, BlStart, BlSectors))
          BY <4>1, <4>3, CrcOfImageSound
        <4> QED
          BY <4>2, <4>4
      <3>2. CASE stage = "diag"
        <4>1. CASE new = EraseMark(see) \/ new = AppChecked(see)
          BY <1>0, <4>1 DEF EraseMark, AppChecked, SeeType, SeeFields, CrcSound
        <4>2. CASE /\ new = BlChecked(mem, see)
                   /\ \E img \in BlImages : HoldsAt(mem, AppStart, img, BlSectors)
          <5>1. new.blCrc = Crc(mem, AppStart, ScratchSectors)
            BY <1>0, <4>2 DEF BlChecked, SeeType, SeeFields
          <5> QED
            BY <4>2, <5>1, CrcOfImageSound, LayoutAssumption, NatFacts
        <4>3. \A i \in BlImages : CheckMatches(BlStart, i, BlSectors)
                                    => HoldsAt(mem, AppStart, i, BlSectors)
          BY DEF CheckMatches, Redirect
        <4> QED
          BY <2>1, <3>2, <4>1, <4>2, <4>3 DEF SeeWrites
      <3> QED
        BY <2>2, <3>1, <3>2
    <2>5. see'.blCrc \in {see.blCrc, new.blCrc, NoCrc}
      BY <1>0, <2>1 DEF TornWrites, WrittenUpTo, SeeFields
    <2>6. CrcSound'
      BY <1>0, <2>4, <2>5, NoCrcSound DEF CrcSound, HoldsImage
    <2> QED
      BY <1>0, <2>3, <2>6, RegionOfWhole
  <1> QED
    BY <1>1, <1>2, <1>3 DEF Cut, CutFlash

-----------------------------------------------------------------------------

LEMMA InitInvariant == Init => IInv
  <1> SUFFICES ASSUME Init PROVE IInv
    OBVIOUS
  <1>1. TypeInv
    BY InitType
  <1>2. \A k \in 1 .. BlSectors : BlStart + k - 1 = k /\ k \in BlUnits /\ k \in Units
    BY LayoutAssumption DEF BlStart, BlUnits, Units, FlashUnits
  <1>3. PICK bl \in BlImages : \A k \in BlUnits : mem[k] = <<bl, k>>
    BY NatFacts DEF Init
  <1>4. BlWhole(mem)
    BY <1>2, <1>3 DEF BlWhole, BlHolds, HoldsAt
  <1>5. see.blCrc = NoCrc
    <2>1. Blank.blCrc = NoCrc /\ InService.blCrc = Blank.blCrc
      BY DEF Blank, InService
    <2> QED
      BY <2>1 DEF Init
  <1>6. CrcSound
    BY <1>5, NoCrcSound DEF CrcSound
  <1> QED
    BY <1>1, <1>4, <1>6
    DEF Init, IInv, Region, Before, ErasedSoFar, WrittenSoFar, After

LEMMA NextInvariant == IInv /\ [Next]_chainVars => IInv'
  <1> SUFFICES ASSUME IInv, [Next]_chainVars PROVE IInv'
    OBVIOUS
  <1>1. TypeInv'
    BY NextType DEF IInv
  <1> SUFFICES ASSUME ~copyFailed' PROVE Region'
    BY <1>1 DEF IInv
  <1>2. CASE WatchdogReset
    <2>1. Region /\ UNCHANGED <<mem, see, fuses>> /\ stage' = "preloader"
      BY <1>2 DEF WatchdogReset, IInv, hist, nvm, ResetBy
    <2> QED
      BY <2>1, RegionReset
  <1>3. CASE UNCHANGED chainVars
    BY <1>3
    DEF chainVars, kwpVars, nvm, boot, hist, IInv, Region, CrcSound, HoldsImage, Before, ErasedSoFar,
        WrittenSoFar, After, Due, CopyDue, ScratchCrc, Crc, BlWhole, BlHolds, HoldsAt
  <1> QED
    BY <1>2, <1>3, PreloaderRegion, BootloaderRegion, ApplicationRegion, DiagRegion, CutRegion
    DEF Next

LEMMA InvariantImplies == IInv => BootloaderIntact
  <1> SUFFICES ASSUME IInv, ~copyFailed PROVE /\ stage \notin {"preloader", "preEeprom"} /\ ~Copying => BlWhole(mem)
                                              /\ BlWhole(mem) \/ \E img \in BlImages : CopyOwed(see, mem, img)
    BY DEF BootloaderIntact
  <1>1. Region
    BY DEF IInv
  <1>2. stage \notin {"preloader", "preEeprom"} /\ ~Copying => BlWhole(mem)
    BY <1>1 DEF Region, After, Copying
  <1>3. CASE Due
    <2>1. CrcSound /\ CopyDue(see, mem)
      BY <1>1, <1>3 DEF Region, Due
    <2>2. \E img \in BlImages : HoldsAt(mem, AppStart, img, BlSectors)
      BY <2>1, DueHoldsImage
    <2>3. PICK img \in BlImages : HoldsAt(mem, AppStart, img, BlSectors)
      BY <2>2
    <2>4. CopyOwed(see, mem, img)
      BY <2>1, <2>3 DEF CopyOwed
    <2> QED
      BY <1>2, <2>4
  <1> QED
    BY <1>1, <1>2, <1>3, WholeOrDue

\* Whatever a tester sends and however often power is cut, the preloader never
\* hands over to a damaged bootloader, as long as it sees no flash error: the
\* region is whole or the copy of a whole image is still due.
THEOREM BootloaderSafe == Spec => []BootloaderIntact
  BY InitInvariant, NextInvariant, InvariantImplies, PTL DEF Spec

-----------------------------------------------------------------------------
(* The shared RAM between resets *)

\* A report that is not answered yet is in the record.
Recorded ==
  /\ owed # {} => comm.ok
  /\ "panic" \in owed => comm.panic
  /\ "ram" \in owed => comm.ram
  /\ "diag" \in owed => comm.diag

\* The record counts at least the launches since it was last reset.
Tallied ==
  /\ launches > 0 => comm.ok /\ comm.resets >= launches
  /\ launches <= MaxResets

RecordInv == TypeInv /\ Recorded /\ Tallied /\ FaultsAcknowledged

-----------------------------------------------------------------------------

LEMMA ChainFacts ==
  ASSUME TypeInv
  PROVE  /\ comm \in CommType /\ launches \in Nat
         /\ owed \subseteq {"panic", "ram", "diag"}
  BY TypeInvSplit DEF ChainTypeOK

\* A step that leaves the record and the history alone.
LEMMA RecordKept ==
  ASSUME RecordInv, UNCHANGED <<comm, owed, launches>>
  PROVE  Recorded' /\ Tallied'
  BY DEF RecordInv, Recorded, Tallied

\* A step that loses the record and the history.
LEMMA RecordLost ==
  ASSUME owed' = {}, launches' = 0
  PROVE  Recorded' /\ Tallied'
  BY ChainAssumption DEF Recorded, Tallied

\* A step that reports f.
LEMMA RecordReported ==
  ASSUME RecordInv, UNCHANGED launches,
         \/ owed' = owed \cup {"panic"} /\ comm' = Sealed([comm EXCEPT !.panic = TRUE])
         \/ owed' = owed \cup {"ram"} /\ comm' = Sealed([comm EXCEPT !.ram = TRUE])
         \/ owed' = owed \cup {"diag"} /\ comm' = Sealed([comm EXCEPT !.diag = TRUE])
  PROVE  Recorded' /\ Tallied'
  <1>1. comm \in CommType
    BY ChainFacts DEF RecordInv
  <1>2. /\ comm'.ok /\ comm'.resets = comm.resets
        /\ comm.panic \/ "panic" \in owed' \ owed => comm'.panic
        /\ comm.ram \/ "ram" \in owed' \ owed => comm'.ram
        /\ comm.diag \/ "diag" \in owed' \ owed => comm'.diag
    BY <1>1 DEF CommType, Sealed
  <1>3. Recorded'
    BY <1>2 DEF RecordInv, Recorded
  <1>4. Tallied'
    BY <1>2 DEF RecordInv, Tallied
  <1> QED
    BY <1>3, <1>4

\* A launch counts itself, and nothing is owed.
LEMMA RecordLaunch ==
  ASSUME RecordInv, NEW magic \in BOOLEAN, BootLaunch(magic)
  PROVE  Recorded' /\ Tallied' /\ owed' = {}
  <1>1. comm \in CommType /\ launches \in Nat /\ owed \subseteq {"panic", "ram", "diag"}
    BY ChainFacts DEF RecordInv
  <1>2. StayReason(magic) = "None" /\ comm' = Counted(comm)
        /\ launches' = launches + 1 /\ owed' = owed
    <2>1. launches <= MaxResets /\ MaxResets \in Nat
      BY ChainAssumption DEF RecordInv, Tallied
    <2>2. ~(launches > MaxResets)
      BY <1>1, <2>1
    <2> QED
      BY <2>2 DEF BootLaunch
  <1>3. comm.ok => ~comm.diag /\ ~comm.panic /\ ~comm.ram /\ ~TooManyResets(comm)
    BY <1>2 DEF StayReason
  <1>4. owed' = {}
    BY <1>1, <1>2, <1>3 DEF RecordInv, Recorded
  <1>5. launches + 1 <= MaxResets /\ comm'.ok /\ comm'.resets >= launches + 1
    <2>1. MaxResets \in 1 .. 254
      BY ChainAssumption
    <2>2. CASE comm.ok
      <3>1. comm.resets \in 0 .. 255 /\ comm.resets < MaxResets
        BY <1>1, <1>3, <2>1, <2>2 DEF TooManyResets, CommType
      <3>2. comm' = [comm EXCEPT !.resets = (comm.resets + 1) % 256]
        BY <1>1, <1>2, <2>2 DEF Counted, CommType
      <3>3. comm'.ok /\ comm'.resets = (comm.resets + 1) % 256
        BY <1>1, <2>2, <3>2 DEF CommType
      <3>4. (comm.resets + 1) % 256 = comm.resets + 1
        BY <2>1, <3>1
      <3>5. launches <= comm.resets
        BY <1>1, <3>1 DEF RecordInv, Tallied
      <3> QED
        BY <1>1, <2>1, <3>1, <3>3, <3>4, <3>5
    <2>3. CASE ~comm.ok
      <3>1. launches = 0
        BY <1>1, <2>3 DEF RecordInv, Tallied
      <3>2. comm' = [CommDefault EXCEPT !.resets = (0 + 1) % 256]
        BY <1>2, <2>3 DEF Counted, CommDefault
      <3>3. comm'.ok /\ comm'.resets = (0 + 1) % 256
        BY <3>2 DEF CommDefault
      <3> QED
        BY <2>1, <3>1, <3>3
    <2> QED
      BY <2>2, <2>3
  <1>6. Recorded'
    BY <1>4 DEF Recorded
  <1>7. Tallied'
    BY <1>1, <1>2, <1>5 DEF Tallied
  <1> QED
    BY <1>4, <1>6, <1>7

-----------------------------------------------------------------------------

LEMMA RecordInit == Init => RecordInv
  <1> SUFFICES ASSUME Init PROVE RecordInv
    OBVIOUS
  <1>1. TypeInv
    BY InitType
  <1>2. owed = {} /\ launches = 0
    BY DEF Init
  <1> QED
    BY <1>1, <1>2, ChainAssumption DEF RecordInv, Recorded, Tallied, FaultsAcknowledged

LEMMA RecordNext == RecordInv /\ [Next]_chainVars => RecordInv'
  <1> SUFFICES ASSUME RecordInv, [Next]_chainVars PROVE RecordInv'
    OBVIOUS
  <1>0. TypeInv'
    BY NextType DEF RecordInv
  <1>1. CASE Preloader
    <2>1. stage' # "launch"
      BY <1>1 DEF Preloader, PreloaderRamTest, PreloaderEeprom, AfterEeprom, CopyErase,
                  CopyWrite, CopyCommit
    <2>2. Recorded' /\ Tallied'
      <3>1. CASE UNCHANGED <<comm, owed, launches>>
        BY <3>1, RecordKept
      <3>2. CASE PreloaderRamTest
        BY <3>1, <3>2, RecordReported DEF PreloaderRamTest
      <3> QED
        BY <1>1, <3>1, <3>2
        DEF Preloader, PreloaderEeprom, CopyErase, CopyWrite, CopyCommit, hist
    <2> QED
      BY <1>0, <2>1, <2>2 DEF RecordInv, FaultsAcknowledged
  <1>2. CASE SetFuses
    <2>1. stage' # "launch" /\ UNCHANGED <<comm, owed, launches>>
      BY <1>2 DEF SetFuses, ResetBy, hist
    <2> QED
      BY <1>0, <2>1, RecordKept DEF RecordInv, FaultsAcknowledged
  <1>3. ASSUME NEW magic \in BOOLEAN, BootStay(magic) PROVE RecordInv'
    <2>1. owed' = {} /\ launches' = 0
      BY <1>3 DEF BootStay
    <2> QED
      BY <1>0, <2>1, RecordLost DEF RecordInv, FaultsAcknowledged
  <1>4. ASSUME NEW magic \in BOOLEAN, BootLaunch(magic) PROVE RecordInv'
    BY <1>0, <1>4, RecordLaunch DEF RecordInv, FaultsAcknowledged
  <1>5. CASE Jump
    <2>1. stage' # "launch" /\ UNCHANGED <<comm, owed, launches>>
      BY <1>5 DEF Jump, hist
    <2> QED
      BY <1>0, <2>1, RecordKept DEF RecordInv, FaultsAcknowledged
  <1>6. CASE Application
    <2>1. stage' # "launch"
      BY <1>6 DEF Application, AppHealthy, AppPanic, AppRamFail, AppDiagRequest, AppReboot,
                  AppRuns, ResetBy
    <2>2. CASE AppHealthy
      <3>1. comm \in CommType /\ comm' = Sealed([comm EXCEPT !.resets = 0])
            /\ launches' = 0 /\ owed' = owed
        BY <2>2, ChainFacts DEF AppHealthy, RecordInv
      <3>2. /\ comm'.ok /\ comm'.panic = comm.panic
            /\ comm'.ram = comm.ram /\ comm'.diag = comm.diag
        BY <3>1 DEF Sealed, CommType
      <3>3. Recorded'
        BY <3>1, <3>2 DEF RecordInv, Recorded
      <3>4. Tallied'
        BY <3>1, ChainAssumption DEF Tallied
      <3> QED
        BY <1>0, <2>1, <3>3, <3>4 DEF RecordInv, FaultsAcknowledged
    <2>3. CASE AppPanic \/ AppRamFail \/ AppDiagRequest
      <3>1. Recorded' /\ Tallied'
        BY <2>3, RecordReported DEF AppPanic, AppRamFail, AppDiagRequest
      <3> QED
        BY <1>0, <2>1, <3>1 DEF RecordInv, FaultsAcknowledged
    <2>4. CASE AppReboot
      <3>1. UNCHANGED <<comm, owed, launches>>
        BY <2>4 DEF AppReboot, hist
      <3> QED
        BY <1>0, <2>1, <3>1, RecordKept DEF RecordInv, FaultsAcknowledged
    <2> QED
      BY <1>6, <2>2, <2>3, <2>4 DEF Application
  <1>7. CASE WatchdogReset \/ Diag
    <2>1. stage' # "launch" /\ UNCHANGED <<comm, owed, launches>>
      BY <1>7 DEF WatchdogReset, Diag, DiagCommand, DiagUpdate, DiagTick, DiagReset, ResetBy,
                  hist, boot
    <2> QED
      BY <1>0, <2>1, RecordKept DEF RecordInv, FaultsAcknowledged
  <1>8. CASE Cut
    <2>1. stage' # "launch"
      BY <1>8 DEF Cut, ResetBy
    <2>2. Recorded' /\ Tallied'
      BY <1>8, RecordKept, RecordLost DEF Cut, CutRam
    <2> QED
      BY <1>0, <2>1, <2>2 DEF RecordInv, FaultsAcknowledged
  <1>9. CASE UNCHANGED chainVars
    <2>1. UNCHANGED <<comm, owed, launches, stage>>
      BY <1>9 DEF chainVars, boot, hist
    <2> QED
      BY <1>0, <2>1, RecordKept DEF RecordInv, FaultsAcknowledged
  <1> QED
    BY <1>1, <1>2, <1>3, <1>4, <1>5, <1>6, <1>7, <1>8, <1>9 DEF Next, Bootloader

\* A panic, a RAM failure or a request for the bootloader is never lost to a
\* launch: it keeps the bootloader from launching until it has stayed once.
THEOREM FaultsReachBootloader == Spec => []FaultsAcknowledged
  BY RecordInit, RecordNext, PTL DEF Spec, RecordInv

\* However the application fails, at most MAX_RESET_COUNT launches follow one
\* another without a stay in the bootloader, a good start or a loss of RAM.
THEOREM CrashLoopEnds == Spec => []CrashLoopBounded
  <1>1. RecordInv => CrashLoopBounded
    BY DEF RecordInv, Tallied, CrashLoopBounded
  <1> QED
    BY <1>1, RecordInit, RecordNext, PTL DEF Spec
=============================================================================
