-------------------------------- MODULE QspiDriver --------------------------------
(***************************************************************************)
(* The driver of the QSPI flash (diag_common/src/qspi_driver.rs and         *)
(* hal_extensions/qspi_async.rs) and the chip, as far as the driver relies  *)
(* on it.  A call is a list of commands on the wire.  The chip ignores      *)
(* everything but a question for its status while it works, and changes     *)
(* nothing that was not enabled before.                                     *)
(*                                                                          *)
(* The callers - bootloader, and in the application the key-value store     *)
(* and the diagnostic server through an Arbiter - have one call at a time.  *)
(* The processor may be reset in the middle of it; the chip is not.         *)
(***************************************************************************)
EXTENDS Naturals, Sequences, SequencesExt

CONSTANTS
  Size,         \* pages of the chip, 256 bytes each
  SectorPages,  \* of the small erase (16)
  BlockPages,   \* of the large erase (128)
  Values,       \* that are written
  MaxResets     \* bound on resets and losses of power

ASSUME QspiAssumption ==
  /\ SectorPages \in Nat \ {0} /\ BlockPages \in Nat \ {0} /\ Size \in Nat
  /\ Size % BlockPages = 0 /\ BlockPages % SectorPages = 0 /\ MaxResets \in Nat
  /\ "read" \notin Values   \* which FlashStore calls a step that changes nothing

VARIABLES
  up,       \* the program that runs has initialised the chip
  call,     \* the call at hand: "none", or what it is
  wire,     \* the commands it still has to send
  bus,      \* the mode of the peripheral
  mem,      \* contents of the chip
  work,     \* what the chip is busy with
  wel,      \* its write enable latch
  armed,    \* the last command enabled a reset
  result,   \* of the last read
  ignored,  \* the chip did not take a command (no variable of the code)
  resets

driver   == <<up, call, wire, bus, result>>
chip     == <<mem, work, wel, armed, ignored>>
qspiVars == <<driver, chip, resets>>

Pages    == 0 .. Size - 1
Contents == Values \cup {"erased", "mixed", "torn"}
NoWork   == [what |-> "nothing", pages |-> {}, val |-> "erased"]

\* Programming only clears bits.
Write(old, new) == IF new = "erased" \/ old = "erased" THEN new ELSE "mixed"

-----------------------------------------------------------------------------
(* Commands *)

\* Those that each function of the peripheral accepts; unwrap would panic else.
RunCommands   == {"WriteEnable", "WriteDisable", "Reset", "EnableReset"}
ReadCommands  == {"Read", "QuadRead", "ReadId", "ReadStatus", "ReadStatus2"}
WriteCommands == {"PageProgram", "QuadPageProgram", "WriteStatus", "WriteStatus2"}
EraseCommands == {"EraseSector", "EraseBlock"}
Commands == RunCommands \cup ReadCommands \cup WriteCommands \cup EraseCommands

\* A command with the address and the data that go with it.
On(cmd, p, v) == [cmd |-> cmd, page |-> p, val |-> v]
Plain(cmd)    == On(cmd, 0, "erased")

\* The list of a call also holds what the driver does between commands: switch
\* the mode of the bus, look whether an erase has started or has ended, whether the
\* chip is ready, and rest for a millisecond.

\* The pages that an erase clears: those of the sector or block of its address.
Around(p, n) == {q \in Pages : q \div n = p \div n}
Target(c) ==
  CASE c.cmd = "EraseSector"     -> Around(c.page, SectorPages)
    [] c.cmd = "EraseBlock"      -> Around(c.page, BlockPages)
    [] c.cmd = "QuadPageProgram" -> {c.page}
Changing(c) == c.cmd \in EraseCommands \cup {"QuadPageProgram"}

-----------------------------------------------------------------------------
(* Calls *)

InitAtOnce == <<Plain("EnableReset"), Plain("Reset"), Plain("rest"), Plain("ReadId"),
                Plain("WriteStatus2")>>

\* init_chip
InitPlan == <<Plain("ready?"), Plain("EnableReset"), Plain("Reset"), Plain("rest"),
              Plain("ReadId"), Plain("WriteStatus2")>>

\* start_sector_erase and start_block_erase
StartErase(cmd, p) == <<Plain("WriteEnable"), On(cmd, p, "erased")>>

\* erase_4k_sector and erase_32k_block
ErasePlan(cmd, p) ==
  <<Plain("spi")>> \o StartErase(cmd, p) \o
  <<Plain("started?"), Plain("erased?"), Plain("memory")>>

\* write_memory, with the command that enables it
Program(p, v) == <<Plain("WriteEnable"), On("QuadPageProgram", p, v)>>

WriteImpatient(p, n, v) ==
  <<Plain("WriteStatus2")>> \o
  [i \in 1 .. 2 * n |-> Program(p + (i - 1) \div 2, v)[((i - 1) % 2) + 1]]

\* The three commands of a chunk.
Chunk(p, v) == Append(Program(p, v), Plain("ready?"))

\* write, of n chunks from an address at which a page begins
WritePlan(p, n, v) ==
  <<Plain("WriteStatus2")>> \o
  [i \in 1 .. 3 * n |-> Chunk(p + (i - 1) \div 3, v)[((i - 1) % 3) + 1]]

\* read
ReadPlan(p) == <<On("QuadRead", p, "erased")>>

Call(what, plan) ==
  /\ call = "none" /\ call' = what /\ wire' = plan
  /\ UNCHANGED <<up, bus, result, chip, resets>>

\* Before anything else: async_init, or the first update of the bootloader.
CallInit == ~up /\ Call("init", InitPlan)

CallErase ==
  /\ up
  /\ \E p \in Pages, cmd \in EraseCommands : Call("erase", ErasePlan(cmd, p))

CallWrite ==
  /\ up
  /\ \E p \in Pages, n \in 1 .. Size, v \in Values :
       p + n <= Size /\ Call("write", WritePlan(p, n, v))

CallRead == up /\ \E p \in Pages : Call("read", ReadPlan(p))

-----------------------------------------------------------------------------
(* The chip *)

Now(what) == wire # <<>> /\ Head(wire).cmd = what

Ignored == ignored' = TRUE /\ UNCHANGED <<work, wel>>

\* An idle chip takes a command.
Obey(c) ==
  \/ /\ c.cmd = "WriteEnable" /\ wel' = TRUE /\ UNCHANGED <<work, ignored>>
  \/ /\ c.cmd = "Reset" /\ armed
     /\ work' = [NoWork EXCEPT !.what = "reset"] /\ wel' = FALSE /\ UNCHANGED ignored
  \/ /\ Changing(c) /\ wel
     /\ work' = [what |-> "change", pages |-> Target(c), val |-> c.val]
     /\ UNCHANGED <<wel, ignored>>
  \/ /\ c.cmd = "WriteStatus2" /\ wel   \* without the latch it has no effect
     /\ work' = [NoWork EXCEPT !.what = "status"] /\ UNCHANGED <<wel, ignored>>
  \/ /\ c.cmd = "WriteStatus2" /\ ~wel /\ UNCHANGED <<work, wel, ignored>>
  \/ /\ c.cmd \in {"EnableReset", "ReadId", "QuadRead"} /\ UNCHANGED <<work, wel, ignored>>
  \/ /\ (Changing(c) /\ ~wel) \/ (c.cmd = "Reset" /\ ~armed)
     /\ Ignored

\* What the controller reads while the chip is busy is noise: no content of it.
ReadBack(p) == IF work = NoWork THEN mem[p] ELSE "torn"

ChipFinishes ==
  /\ work # NoWork /\ work' = NoWork /\ wel' = FALSE
  /\ ~Now("started?")   \* an erase takes longer than that
  /\ mem' = [p \in Pages |-> IF p \in work.pages THEN Write(mem[p], work.val) ELSE mem[p]]
  /\ UNCHANGED <<driver, armed, ignored, resets>>

-----------------------------------------------------------------------------
(* The driver *)

\* Commands go by the memory interface of the peripheral or, while the handle of an
\* erase has the bus, byte by byte.
RightBus == IF call = "erase" THEN "spi" ELSE "memory"

\* run_read_instruction and run_write_instruction, xfer_in_place: one command.
Send ==
  /\ wire # <<>> /\ Head(wire).cmd \in Commands
  /\ wire' = Tail(wire)
  /\ IF work = NoWork /\ bus = RightBus THEN Obey(Head(wire)) ELSE Ignored
  /\ armed' = (Head(wire).cmd = "EnableReset")
  /\ result' = IF Head(wire).cmd = "QuadRead" THEN ReadBack(Head(wire).page) ELSE result
  /\ UNCHANGED <<up, call, bus, mem, resets>>

\* into_spi_mode and into_qspi_mode
SwitchBus ==
  /\ Now("spi") \/ Now("memory")
  /\ bus' = Head(wire).cmd /\ wire' = Tail(wire)
  /\ UNCHANGED <<up, call, result, chip, resets>>

\* erase_sector and erase_block: the handle is dropped when nothing has started.
LookStarted ==
  /\ Now("started?")
  /\ wire' = IF work = NoWork THEN <<Plain("memory")>> ELSE Tail(wire)
  /\ UNCHANGED <<up, call, bus, result, chip, resets>>

LookErasedKept ==
  /\ Now("erased?") /\ work = NoWork
  /\ UNCHANGED <<up, call, wire, bus, result, chip, resets>>

\* is_erase_complete, asked again after a delay until it is.
LookErased ==
  /\ Now("erased?") /\ work = NoWork /\ wire' = Tail(wire)
  /\ UNCHANGED <<up, call, bus, result, chip, resets>>

\* ready, asked again likewise; and the millisecond after a reset of the chip, which
\* takes 30 us.
LookReady ==
  /\ Now("ready?") \/ Now("rest")
  /\ work = NoWork /\ wire' = Tail(wire)
  /\ UNCHANGED <<up, call, bus, result, chip, resets>>

Return ==
  /\ call # "none" /\ wire = <<>> /\ call' = "none"
  /\ up' = (up \/ call = "init")
  /\ UNCHANGED <<wire, bus, result, chip, resets>>

Drive == Send \/ SwitchBus \/ LookStarted \/ LookErased \/ LookReady \/ Return

-----------------------------------------------------------------------------
(* Resets *)

\* A new program sets the peripheral up again.
ProgramStops ==
  /\ up' = FALSE /\ call' = "none" /\ wire' = <<>> /\ bus' = "memory"
  /\ resets < MaxResets /\ resets' = resets + 1
  /\ UNCHANGED result

\* A panic, the watchdog, a request of the tester: the chip goes on.  A reset of
\* the chip is over before a program runs again.
McuReset ==
  /\ ProgramStops
  /\ work' = IF work.what = "reset" THEN NoWork ELSE work
  /\ UNCHANGED <<mem, wel, armed, ignored>>

PowerLoss ==
  /\ ProgramStops
  /\ mem' = [p \in Pages |-> IF p \in work.pages THEN "torn" ELSE mem[p]]
  /\ work' = NoWork /\ wel' = FALSE /\ armed' = FALSE /\ UNCHANGED ignored

Init ==
  /\ up = FALSE /\ call = "none" /\ wire = <<>> /\ bus = "memory" /\ result = "erased"
  /\ mem = [p \in Pages |-> "erased"]
  /\ work = NoWork /\ wel = FALSE /\ armed = FALSE /\ ignored = FALSE /\ resets = 0

Calls == CallErase \/ CallWrite \/ CallRead

Next == CallInit \/ Calls \/ Drive \/ ChipFinishes \/ McuReset \/ PowerLoss

\* The task that drives is scheduled, the chip finishes what it works at, and
\* every program begins with the initialisation of the chip.
Spec ==
  /\ Init /\ [][Next]_qspiVars
  /\ WF_qspiVars(Drive) /\ WF_qspiVars(ChipFinishes) /\ WF_qspiVars(CallInit)

-----------------------------------------------------------------------------
(* Properties *)

\* No command reaches the chip while it is busy, or without the latch it needs:
\* not even the first ones after a reset that came in the middle of an erase.
NothingIgnored == ~ignored

\* The steps of the call at hand that change or read pages: what the chip is at,
\* and what the commands still to send come to, collected from the last one on.
AtWork == IF work.what = "change" THEN <<[pages |-> work.pages, val |-> work.val]>> ELSE <<>>
StepOf(c) ==
  IF Changing(c) THEN <<[pages |-> Target(c), val |-> c.val]>>
  ELSE IF c.cmd = "QuadRead" THEN <<[pages |-> {c.page}, val |-> "read"]>>
  ELSE <<>>
StepsOfLast(w) ==
  LET steps[n \in 0 .. Len(w)] ==
        IF n = 0 THEN <<>> ELSE StepOf(w[Len(w) + 1 - n]) \o steps[n - 1]
  IN  steps
StepsOf(w) == StepsOfLast(w)[Len(w)]

Busy   == call \notin {"none", "init"}
Todo   == IF Busy THEN AtWork \o StepsOf(wire) ELSE <<>>
Orphan == IF Busy THEN {} ELSE ToSet(AtWork)

Store == INSTANCE FlashStore WITH Torn <- "torn", busy <- Busy, todo <- Todo, orphan <- Orphan

\* The driver and the chip implement the abstract store: a call does what it says,
\* in order, and no change is made that nobody asked for; one that was interrupted
\* happens, or leaves its pages torn, before the next call or not at all.
StoresAsAsked == Store!Safety

\* Calls return in the end, and the flash gets ready after every reset although the
\* chip may still be at work.
CallsReturn == Store!Returning
=============================================================================
