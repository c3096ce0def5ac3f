# Verification of ultimate-nag52-fw-rs

TLA+ models, TLC runs and TLAPS proofs for the firmware of the Ultimate NAG52
transmission controller (`src/`): a preloader, a bootloader with a KWP2000
diagnostic server, the gearbox application, and the flasher on the PC that
updates them. The models follow three lines through the system:

- the **update path**, from `flasher flash` to the launch of a new program, with
  lost messages, retries, power cuts and failing memories;
- the **transports and drivers** below it: ISO-TP over CAN and over USB, log
  messages over CAN, the QSPI flash;
- the **gearbox task**, from the loading of calibrations to the currents in the
  solenoids, with its timeouts and the resources it shares.

## 1. Inventory

| Part (source) | State | Operations | Hard behaviour | What makes it correct |
|---|---|---|---|---|
| **Preloader** (`preloader/src/main.rs`) | none of its own; SmartEEPROM record, flash | test CAN RAM; if an update is pending and the CRC of the scratch area is the recorded one: erase bootloader region, copy, clear the flag; jump | power loss between any two sectors; ignored flash errors | the board always has a whole bootloader, or can repeat the copy |
| **Bootloader start** (`bootloader/src/main.rs` 186-322) | shared RAM block (`diag_common/src/ram_info.rs`), reset cause | set fuses; decide between launch and stay; count launches; start watchdog; jump | application crashes and hangs, RAM that came up as garbage | faults are acknowledged; crash loops end; only whole applications start |
| **Bootloader KWP server** (`bootloader/src/kwp.rs`) | session, pending operation, completed operation, last command time, `long_op`, QSPI size | sessions, reset, burn date, erase, check, poll, download, block, exit; background step | commands in any order and again; timeouts; erases that take many steps; failing controllers | erases are exact and end; blocks in order; date burned once |
| **SmartEEPROM record** (`diag_common/src/smarteeprom.rs`) | production date, flags, CRCs | mutate (field by field) | power loss inside a mutation | a torn record never promises what is not there |
| **Flasher** (`flasher/src/main.rs`) | phase, block counter, error counter | session, erase, poll, download, blocks, exit, check, reset; for two segments | lost request or answer, resend, user abort, second run | success means written; every run ends; blocks in order |
| **ISO-TP endpoints** (`diag_common/src/isotp_endpoints`, `flasher/src/usb_diag_compat.rs`) | reassembly, flow-control signal, transmit queue and mailbox | first, consecutive, flow-control frames; USB header and data | interrupt against task, signals overwritten, frames lost, transmitter shared | a delivered payload is one that was sent; the task comes back |
| **Log output** (`diag_common/src/defmt_multi_output.rs`, `flasher/src/defmt.rs`) | ring of a message, packet counter; frame buffer of the reader | acquire, write, release; assemble | full queue in the middle of a message | no two messages are joined |
| **QSPI driver** (`diag_common/src/qspi_driver.rs`, `hal_extensions/qspi_async.rs`) | mode of the bus, identity of the chip | initialise, erase, write, read | processor reset while the chip works | no command is lost on a busy chip |
| **Gearbox task** (`firmware/src/tasks/gearbox.rs`, `egs_logic`) | device mode, outputs, pressures, reception times | initialise, update, send frames, power, currents, read back | waits for a shared transmitter, dropped exchanges, a stale clock | outputs follow the mode; initialisation ends; currents are in range |
| **Calibrations** (`firmware/src/egs_logic_impl.rs`, storage tasks) | two channels of two places, four calibrations | request, read, answer, poll | full channels; database not mounted yet; missing or bad entries | power only with valid calibrations; nothing left in a channel |
| **Solenoids** (`firmware/src/solenoids`) | currents remembered, watchpoints | SPI commands, interrupt-driven TCC phases | timeout in the middle of an exchange; interrupt order | the chip holds what is remembered |
| **Sensors** (`firmware/src/sensors`) | last data | convert readings | integer widths, table edges | values follow the readings |
| **egs_maths** | - | search, interpolate, filter | rounding, ends of an axis | results stay inside the table; filters settle |
| **egs_can** | frames with reception times | get, write | difference of unsigned times | frames expire |
| **Firmware KWP server** (`firmware/src/diag`) | session, pending reboot | session, reads, device modes | request against the reboot | a programming session reaches the bootloader |
| **candb_codegen, bsp, egs_pc_sim** | - | code generation, pins, simulation | - | not modelled |

Interaction: flasher and server exchange KWP requests over ISO-TP or USB.
Preloader, bootloader and application never run at the same time; they talk
through flash, the SmartEEPROM record and a block of RAM at 0x20010000 that
resets keep. The application asks for the bootloader by setting a flag in that
block and resetting. Inside the application the gearbox task has a higher
priority than the storage task, which answers it through two channels, and than
the diagnostic task, with which it shares the CAN transmitter.

## 2. Modules

| Module | Contents | Composes |
|---|---|---|
| `BootKwp` | the KWP server: one action per service, the background step (`Update`) as its four cases, memory and record | |
| `KwpTester` | the server alone under a tester that sends anything; properties of the server | `BootKwp` |
| `BootChain` | preloader, bootloader decision, what the application reports, power cuts; contains the server while the bootloader stays | `BootKwp` |
| `AppUpdate` | abstract: the board would start one whole application or none, and goes from one to another only through none | |
| `FlashSystem` | the flasher, a lossy link and the boot chain; implements `AppUpdate` | `BootChain` |
| `Delivery` | abstract: requests are taken whole, in order, each at most once | |
| `CanIsoTp`, `UsbIsoTp` | the two endpoints, and the flasher's end of USB | |
| `DiagLink` | the diagnostic task of the firmware or of the bootloader between both, a tester on CAN, the bus; implements `Delivery` | `CanIsoTp`, `UsbIsoTp` |
| `FlashStore` | abstract: a call changes or reads the pages it names, in order, and returns | |
| `QspiDriver` | driver and chip, through resets and losses of power; implements `FlashStore` | |
| `LogOverCan` | logger, packets, reader of the flasher | |
| `EgsMaths` | maps, searches, filters, debouncers with exact fractions | |
| `Hydraulics` | pressures and the currents for them | `EgsMaths` |
| `Sensors` | from converter readings to values | `EgsMaths` |
| `Tle8242` | messages to the solenoid chip, with the widths of their fields | |
| `Solenoids` | power, currents, exchanges with the chip | `Tle8242` |
| `CalStorage` | calibrations through two channels | |
| `Gearbox` | the task with its logic, frames and transmitter | `CalStorage`, `Solenoids`, `Hydraulics`, `Sensors` |
| `TccSol` | interrupts of the torque converter's solenoid | |
| `MC...` | instances for TLC | |
| `...Proofs` | theorems | |

### How state and actions correspond to the code

*Memory.* `mem` maps units to contents. A unit is one erase sector of the
internal flash (8 KB), one 4 KB sector of the QSPI flash and one block of a
download. Real downloads use blocks of 1 or 2 KB: several per sector behave as
one, because the server only ever advances its address by whole blocks and
erases whole sectors. A content is a unit of an image, `Erased` or `Torn`
(`Programmed`: flash programming only clears bits). CRC-32 is taken to be free
of collisions (`Crc` is the contents themselves).

*Record.* `see` has the five fields that decisions read. `app_flashing_not_done`
and `bl_flashing_pending` are Booleans named for their meaning when zero.

*Server.* A handler is an action with the reply as a parameter, so that the
flasher sees the reply and `KwpTester` any. Every handler restarts the tester
timeout (`Touch`). `updateDue` is the program counter of `diag_task`: it calls
`update` after each command, so no two commands run without an update between.
Replies are the classes that the flasher tells apart. Services that only read
are one action (`TesterPresent`); memory reads change nothing else.

*Boot.* `stage` is the program that runs and its place in it. `Cut` stands for
a power cut and for the reset button: it may tear the unit that a flash
operation is working on (`InFlight`) and leave any prefix of a record write
(`TornWrites`, in the field order of the struct). RAM survives or becomes one
of `Garbage`. `owed`, `launches`, `copyFailed` are history that no action reads.
Seen from the boot chain the application crashes, fails the RAM test of the
idle task, becomes healthy after five seconds, hangs (`WatchdogReset`) or takes
a request for the programming session.

*Flasher.* `phase` is the request it is at. The `ecu_diagnostics` library is
external: one exchange at a time, a request repeated at most `Retries` times,
answers that come too late are dropped. `Timeout` may happen at any moment,
whether the request was lost, its answer was, or the board is busy elsewhere.
`Abort` is the user; the request on its way still arrives.

*Endpoints.* A message is a number and a size; a frame carries one piece of it,
and a reassembly is the sequence of pieces it really got, so that pieces of two
messages in one payload show. `OnFrameRx` is the interrupt handler, which runs
between any two steps of the task, also while the task holds the transmitter
(`held`); its three kinds of frames are actions. `rxReady` and `cts` are signals
of one place, which a new value overwrites. `mailbox` is the dedicated buffer
for first frames and flow control, `queue` the FIFO of the others. `tx` is the
place in `write_payload`, one action per await. `refused` is history: a frame
was not sent because a buffer was in use. On USB a packet is the unit; `host` is
the flasher's end with its second attempt after a read that timed out.

*Diagnostic task.* Firmware and bootloader have one each, with the same loop: `job` is
its program counter, select (CAN goes first), process, reply. They differ in one thing:
after an answer on CAN the firmware waits 10 ms (`tasks/diag.rs:27`), the bootloader
does not (`main.rs:499-508`). `setting.waits` tells them apart, TRUE in the firmware and
FALSE in the bootloader; `setting`, chosen in the initial state, is the board and the testers
of a behaviour. (The firmware's wait after an answer on USB is left out: nothing of it goes to
the bus.) The server is any function from requests to answers;
`handed` and `served` record what it took. The tester on CAN keeps to ISO 15765-2
and sends flow control of every kind; its timeouts, of a second, pass only when
nothing is on its way (`Quiet`). With `setting.early` it asks whenever its own side is idle, also
while the board is still at an answer, as one does whose own timeout has run out (over CAN
the flasher repeats a request up to five times, `flasher/src/main.rs:222`); without, it lets
the exchange end on the board too (`AtRest`).

*QSPI.* A call is the list of its commands on the wire, with the driver's own
waits between them. The chip takes only status reads while it works, and changes
nothing without its write enable latch. A reset of the processor drops the list
and leaves the chip at its work.

*Log.* A byte is its place in its message. `writer` is the `BufferedDefmtWriter` of the
message; `sending` is the loop of its `write`, which `SendPacket` and `QueueFull` take one
packet at a time, in a write (`GoesOn` until less than a packet is left), in the empty
write of a release, or for a chunk that is itself empty, which the code cannot tell from a
release (`AtEnd`). `Wrapped` is the counter in its byte, `Stop` what the loop leaves in the
buffer.

*Gearbox.* The task has the highest priority of those that share anything with
it, so that the others, frames and time go on only while it waits (`Waiting`). `pc`
has one value per await of the cycle: start-up, update, transmitter, power, the
two currents, reading back, sleeping. Times are relative: `engine.age` is the age
of the engine's frames, `sinceNow` the time since `now_ms` was taken. `RxGet` is
`RxFrame::get` with its unsigned difference. `mode` is the set of the flags of
`DeviceMode` that the code sets. `UpdateInit` and `UpdateRegular` are the two
halves of `update`: the poll of the calibrations, and engine state, pressures and
outputs through `Hydraulics`. `CalStorage` has the channels with their places, the
state of the requesting side (`calState`) and the storage task (`commander`).
`transfer` is the exchange under way; it ends, fails with an error, or is dropped by
the 20 ms timeout with chip select low (`Abandon`). `chip` is what the chip has,
`last` what the controller remembers and compares with. `regs` are the
channels set up for current control and for direct PWM, by the plan of messages that
the initialisation sends (`Tle8242!InitPlan`).

*Numbers.* `EgsMaths`, `Hydraulics` and `Sensors` compute with the integers of the
code, cut to their widths, and with exact fractions where the code has `f32`. Sums and
differences wrap as in a release build (`InletAdder`, `Compensated`, `RxGet`); a build with
overflow checks panics there.

Definitions ending a pair such as `CopyAny`/`CopyVerified`, `AlwaysPatient`/`Patient`
or `TakeUsbKept`/`TakeUsb` are plausible mistakes kept beside the definition the
specification uses; substituting one makes the property named in
`PROJECT.json` fail, which shows that the property observes that code.

### Simplifications worth knowing

- A check at the bootloader's address names a whole bootloader image: the
  address comes from the ELF file that also holds the data.
- Day, week and month of a burned date are in range.
- A jump into a bootloader image that lies in the application region runs the
  bootloader again, since that image is linked at the bootloader's address.
- In `BootKwp` a QSPI chip of unknown size is `QspiSectors = 0`; a chip of another
  vendor panics the bootloader and is not modelled; the waits for its ready bit are
  those of `QspiDriver`, where they end.
- A write past the end of the QSPI device faults the bus: the transition is absent.
- Addresses in the QSPI flash wrap at the end of the device (24-bit commands).
- `QspiDriver` writes from the beginning of a page: the code splits a write into chunks
  of 256 bytes from wherever it begins.
- `QspiDriver` assumes that an erase is still running at the first look at the
  status, and that the chip's own reset (30 us) is over when a restarted program reaches it.
- The info strings beside the record's flags are left out.
- A flasher's application image always has a QSPI segment.
- The header of a USB message is one packet, and a request has at least one byte.
- The coolant temperature is the default that no frame replaces; torque requests, shifts,
  slave mode and shift valves have no caller in the firmware today and do not appear.
- The gains of the current control loops are set but not modelled.

## 3. Runs

| Run | Question | Instance | Distinct states |
|---|---|---|---|
| `BootChain` | is a damaged bootloader ever run, a fault forgotten, a crash loop endless; does a reset always lead somewhere, does an accepted update get installed? | bootloader of 1 sector, scratch of 2, application region of 3; erases and checks at both addresses; `MaxResets` 2; 2 cuts; flash errors in the copy; RAM of ones and of zeros | 505 k |
| `KwpTester` | are erases exact and finite, dates final, sessions lost by silence? | erases of 1 and 2 blocks in four QSPI sectors cut into blocks of 2, years on both sides of both limits, failing controllers | 129 k |
| `FlashApp` | is the update of an application safe over a lossy link, does every run end? | image of 3 units, block ids modulo 2, 1 retry, 2 runs, 1 cut, failing controllers | 693 k |
| `DiagLink` | are requests and answers whole, in what order does the flasher take answers, does the task always come back? | the firmware with a tester that asks early, the bootloader with one that lets each exchange end; messages of 1 and 4 frames, queue of 2, block sizes 0 and 2 on both sides, sequence numbers and counters modulo 4, 1 lost frame, three requests shared between CAN and USB in three ways | 194 k |
| `QspiDriver` | is any command lost on a busy chip, do calls do what they say and return? | 4 pages, 2 per sector, one large block, 2 resets | 211 k |
| `LogOverCan` | does the flasher join messages, does the buffer keep room? | buffer of 7, packets of 3 bytes, protocol byte below 3, chunks of 0, 1, 4 and 5, messages of up to 10 bytes, 2 messages, one empty chunk in each | 1033 k |
| `Gearbox` | does power follow mode and calibrations, does initialisation end, do the currents fit, does the pressure settle? | channels of 2 places; databases that lack a calibration, lack a checked one, hold an invalid one; temperatures of two readings; frames fresh to outdated; cycles of one period; 1 failed or dropped exchange | 584 k |
| `FlashBoot` | finding 1 | bootloader update, no failures at all | - |
| `FlashQspi` | finding 2 | QSPI segment of 3 erase steps, 2 runs | - |
| `TccSol` | finding 3 | window of 20 counts, four requests | - |
| `DiagEarly` | finding 4 | as `DiagLink`: the bootloader with a tester that asks early, on CAN alone | - |
| `GearboxAge` | finding 5 | as `Gearbox` | - |

`MCGearbox` also has TLC evaluate two assumptions over data: `SensorsFollow` (values
move with the readings, for every fortieth reading, and keep their widths) and
`MessagesFit` (every message fits its fields, for every duty, and answers are told
apart).

What the less obvious properties say: `CanDelivers` is the refinement of `Delivery`,
although the endpoint looks at no sequence number. `NothingSilent` says that a request
remains without an answer only if a frame was lost or a buffer was in use.
`FlowRespected` counts the frames that are already in the queue. `UsbAnswersMatch` speaks of the
time until a read of the flasher times out; `UsbAnswersInOrder` holds also afterwards: an
answer may then be one of an earlier request (section 4, *Transports*), but none is taken twice or before
an older one. `ChipFollows` excepts an exchange that failed or was
dropped: the chip may then hold a current that the controller does not remember, and
nothing in the code finds out. So the 20 ms timeout is modelled (`WriteTimeout`), and no
property says that its effect on the chip is harmless. `CycleRepeats` assumes that a transfer
with the chip ends, by success or failure, also in `update_task`, which has no timeout: the
driver's future is not modelled.
`StoresAsAsked` is the refinement of the safety half of `FlashStore`, `CallsReturn` its
promise that calls return and the flash gets ready. `PressureSettles` watches the rounding
of the filter of a dropping pressure, and `LongLogsWhole` speaks of messages of more than
one packet without an empty chunk (see section 4).

*Why the bounds are enough.* One bootloader sector still separates erase, write and
commit of the copy; the scratch area is one sector larger than the region, as in the
code, so that the recorded CRC covers more than is copied. Erases of two and more
sectors have an intermediate state. Block ids modulo 2 wrap within an image of three.
One retry and one cut already give a repeated request and a restart at every place; two
runs let one run inherit what an earlier one left. `BootChain` has two cuts, so that the
recovery from a cut is cut. Messages of four frames have a frame before, at and after
the end of a block of two; the queue of two is full before such a message is sent; three
transmissions let a request overtake the answer to the one before, and a repetition meet
both. Two resets of the QSPI processor let the second come while the chip still does
what the first left. Chunks of 4 and 5 bytes fill the buffer of 7 when packets are refused
in between, and a protocol byte below 3 wraps within a message of ten. Two places in a channel
are those of the code, and fewer than the four requests. One failure of the SPI at every
place of an exchange is enough for every abandoned state, since an abandoned exchange
stays recorded. Counters that only bound the exploration: `MaxCuts`, `MaxRuns`,
`Retries`, `P2Max` (length of the tester timeout in ticks), `MaxLost`, the counts in `Settings`,
`MaxFaults`, `MaxSince` (length of a cycle), `MaxMsg`, `MaxEmpty`, `MaxMsgs`, and the `MaxResets` of
`QspiDriver`; the `MaxResets` of `BootChain` is the code's own.

*Deadlock* is checked for `Gearbox`, `QspiDriver`, `LogOverCan` and `TccSol`. It is not for
the update path, where a board whose bootloader failed to set its fuses is
dead on purpose (its panic handler never returns) and a flasher that has used
its runs stops, nor for `DiagLink` and `DiagEarly`, whose testers stop.

*Fairness.* `BootChain`: weak fairness of the preloader and of the bootloader's
start-up, straight-line code that waits for nothing. `KwpTester`: weak fairness
of `diag_task`, which runs its step at least every millisecond, and of the
clock. `FlashApp`: weak fairness of the flasher, whose every wait has a
timeout, and of the server's step. `DiagLink`: the task and the interrupt are scheduled, the
CAN controller sends what it has, and a tester that has begun a block finishes it; it need
not ask again, nor answer. `QspiDriver`: the driver is scheduled, the chip finishes, a
program that starts initialises the chip. `Gearbox`: weak fairness of
the task and of the clock, and of whoever has the transmitter to give it back, which all
its users do after a bounded time; strong fairness of the storage task, which has
the lower priority and runs in the pauses of the other. Testers that begin something,
users, power and the link are never fair, and failures need not happen.

## 4. Findings

1. **A bootloader update leaves the old application marked as good**
   (`FlashBoot`, `LaunchedAppIsWhole`). The scratch area of a bootloader update
   is the start of the application region (README footnote: it destroys the
   application), but the bootloader-address branch of the erase routine
   (`kwp.rs:519`) does not mark the application as erased, as the other does
   (`kwp.rs:524`). `can_app_start` then finds valid flags and a stack pointer
   that a bootloader image has as well, and the bootloader jumps into the image.
   `CrashLoopBounded` and `BootSettles` show that the reset counter, the
   watchdog or the next programming session ends this.
2. **The result of an earlier erase answers for the running one**
   (`FlashQspi`, `SegmentIsWhole`). No command clears `completed_operation`
   except the one that reads it. When the answer to an erase request is lost
   and the library repeats it after the first erase has finished, a result is left over;
   the poll of the next erase reports completion while that erase is running, and the download
   request replaces it. A QSPI segment is then written over old data in a run that
   succeeds. The internal flash is protected by its check
   routine (`SuccessIsWhole` holds); no check covers the QSPI segment.
3. **The branches of the TCC overflow handler are exchanged** (`TccSol`,
   `DocumentedPhases`). `tcc_sol.rs:394` asks `phase_2_count != u32::MAX` where its
   branches and the head of the file need `==`: a request with a hold phase ends with
   the inrush, one without never sets the Zener pin. Latent: the logic asks for a PWM of 0 only.
4. **In the bootloader an answer can overtake the one before** (`DiagEarly`, `AnswersWhole`).
   First frames go by the dedicated mailbox, consecutive ones by the queue
   (`can_isotp.rs:44`), and `write_payload` says "Tx complete" (l. 340) when they are queued.
   The firmware waits 10 ms after an answer before it takes the next request, and `DiagLink`
   shows that this is enough. The bootloader's task, which serves the updates, does not wait.
   If the tester asks again while frames of an answer that was given up at a full queue are
   still there, the next answers overtake them; after a lost frame one of them has the
   sequence number that the tester waits for, and completes an answer that nobody gave. With
   no frame lost `FlowRespected` and `NothingSilent` fail in the same configuration.
   The settings of the bootloader in `DiagLink` show that all three hold if the tester lets
   each exchange end.
5. **The newest frame counts as missing** (`GearboxAge`, `FreshFrameFound`). `now_ms` is taken
   before the cycle waits for the CAN transmitter (`gearbox.rs:133`); a frame that the
   interrupt stores meanwhile has a later time, the difference of `u32` at `egs_can/src/lib.rs:86`
   wraps, and `get` returns `MissingMsg` where its doc (l. 82-83) promises the frame. The torque
   delta of that cycle is 0 (`egs52.rs:235`). A wait across one tick of the millisecond clock
   is enough; a build with overflow checks panics.

Smaller disagreements and observations, met while modelling, have no run of their own:

- *Boot and flasher.* `MAX_RESET_COUNT`'s comment says "goes above" (`ram_info.rs:18`) where
  the code compares with `>=`; the comment on the check routine names an end address
  (`kwp.rs:566`) where the code takes a length.
- *Record.* `smarteeprom.rs:48-53` says that `mutate_smarteeprom_info` erases the page and
  then writes it back, so that a loss of power in between corrupts the record. The code
  calls `seeprom.set` (l. 64), which writes the bytes in their order into the emulated
  EEPROM, and the model follows the code: a cut leaves a prefix of the new record before the
  rest of the old one (`TornWrites`). The rewrites at every start (`preloader/src/main.rs:127`,
  `bootloader/src/main.rs:207`) put the same flags back, so that a prefix of them changes
  nothing, and they are no steps of the model. Were the comment right, a cut there or in any
  other write could lose the flags, which the results about cuts do not cover.
- *Transports.* After a read that timed out the flasher takes an old answer: `read_bytes` sends
  the request again, the board answers both transmissions, and the answer left over is what
  the read of the next request finds (`usb_diag_compat.rs:217`); `clear_rx_buffer` drops
  nothing (l. 249). The comment of `write_bytes` (l. 241) relies on call and response.
  `AnswersInOrder` bounds it: answers come in order, none twice. A flow control that comes
  after its wait has timed out serves the next
  answer. An endpoint answers a refusal with a refusal of its own, which the tester did not
  ask for.
- *Log.* A message of one packet is the last packet of whatever came before, so it is joined
  to the remainder of an aborted message. `pci += 1` after 0xFF would overflow its byte.
  A chunk longer than the free part of the ring is left out of its message without a mark.
  An empty chunk, such as that of a logged empty string, is taken for the end of the message:
  what is buffered is sent as its last packet, stays in the buffer and is sent once more.
- *Gearbox.* `dev_mode.rs:25-27` says that nothing is sent on CAN after a hardware error;
  `gearbox.rs:138-145` sends. `egs52` ignores `esp_max` when `ms_max` is 0, writes
  `!gearbox_ok` where the name says ok, and encodes torque as `amount * 4 + 500` where its
  inverse is `/ 4 - 500`. `MechCal` accepts an index of 6. `HydrCal::is_valid`
  checks neither the order of the axes nor the inlet fields: an inlet pressure above the
  maximum wraps the difference of `u32` at `hydraulics/mod.rs:67`, and the sum of `u16` at
  l. 72 may wrap too (`CurrentBound` shows that the current stays in range regardless). After a timeout the chip select of the solenoid chip
  stays low until the next exchange.
- *Numbers.* `FilteredMonitoredVal` never resets `e_counter`. The table of oil temperatures has one
  entry twice. The doc of the TCC thresholds says 14 and 255, the code 3000 and 65535.
- *Drivers.* `pulse_count.rs:145-149` asks for `stop_on_overflow(true)` and clears
  `oneshot`, against its doc (l. 57-61); pulses between reading and clearing the
  counter are lost. The command named as an erase of 32 KB (0xD8) erases 64 KB on the
  vendor's larger chips. `WriteStatus2` is sent without write enable and has no effect. The
  result of the erase that the key-value store asks for is ignored. `set_key` drops its
  transaction, and `commit` commits a new, empty one; nobody calls either.
  `calc_dither_settings` allows 32 steps in a field of five bits.

## 5. Proofs

The proofs hold for every value of the constants that satisfies the assumption of its
module: `LayoutAssumption`, `ImageAssumption`, `WidthAssumption` (`BootKwp`),
`ChainAssumption` (`BootChain`), `FlasherAssumption` (`FlashSystem`: block ids take more
than one value), `CalAssumption` (`CalStorage`), `GearboxAssumption` (`Gearbox`: the
calibration passes the code's own check), `IsoTpAssumption` (`CanIsoTp`), `UsbAssumption`
(`UsbIsoTp`), `DiagAssumption` (`DiagLink`: messages have at least one piece),
`QspiAssumption` (`QspiDriver`: sectors divide blocks, blocks divide the chip,
no value to write is called `read`, which `FlashStore` keeps for steps that change nothing) and
`LogAssumption` (`LogOverCan`: a packet has room for a byte and is shorter than the buffer).
TLC evaluates each of these in the runs. Five theorems have a condition of their own.
`EraseRange` has `NoneWraps`: no count of blocks other than zero wraps to zero when the code
doubles it in sixteen bits; the excluded counts do break the property (see the hazard at
`kwp.rs:553`). `UpdatesAreWithdrawals` has `FlashImages \subseteq AppImages`: the
flasher sends application images, since a bootloader image breaks the abstract update
(finding 1). `WholeAnswers`, `AllowedFrames` and `AnswersCome` have `setting.waits`: they are
about the firmware, whose task waits after an answer until it is sent (`tasks/diag.rs:27`). The
bootloader's does not, and there all three properties fail for a tester that asks early
(finding 4); for one that lets each exchange end they are model-checked (`DiagLink`) and
not proved. The other theorems of `DiagLink` hold for both programs.

| Theorem | Statement | Argument |
|---|---|---|
| `BootChainProofs!TypeCorrect` | `Spec => []TypeOK` | `TypeInv` adds that a pending operation's address is at least the application's start; without it an erase might leave the domain of `mem`. One lemma per handler in `BootKwpProofs` |
| `BootChainProofs!BootloaderSafe` | `Spec => []BootloaderIntact` | `IInv` = types and, unless an error was ignored, `Region`: while the copy runs, the recorded CRC is that of a scratch area that holds a whole image, the sectors done are erased or copied, and elsewhere the region is whole. Each recorded CRC that matches was computed over a whole image |
| `BootChainProofs!FaultsReachBootloader` | `Spec => []FaultsAcknowledged` | `RecordInv`: what is owed is in the shared block under a right CRC |
| `BootChainProofs!CrashLoopEnds` | `Spec => []CrashLoopBounded` | `RecordInv`: launches are at most the counter, and the counter at most `MaxResets`, while its CRC is right |
| `KwpTesterProofs!TesterTypeCorrect` | `Spec => []KwpTypeOK` | the lemmas of `BootKwpProofs` |
| `KwpTesterProofs!DateBurned` | `Spec => DateBurnedOnce` | only `BurnDate` writes the year, and only when it does not read as set |
| `KwpTesterProofs!EraseRange` | under `NoneWraps`, `Spec => EraseExact` | `EraseInv`: what an erase in progress has passed is erased, and something is left of it; a large block is taken only where it is aligned and that much is left, so that no step leaves what was asked for, and no other command changes a sector while the erase goes on |
| `FlashSystemProofs!SuccessWhole` | `FlashSpec => []SuccessIsWhole` | `WholeInv`: from the answer of the check on, through the QSPI segment, the reset and success, the image is in place and no operation on the internal flash is in progress; `ServeSafe` and `BoardStep` say that neither a request nor the board itself starts one or touches the application |
| `FlashSystemProofs!BlockOrder` | `FlashSpec => []BlocksInOrder` | `OrderInv`: in a download the server is at the flasher's next block, or one ahead while the flasher waits; a repeated block is told from the next one because consecutive ids differ (`NextId`) |
| `FlashSystemProofs!FlashTypes` | `FlashSpec => []FlashTypeOK` | `LinkInv`: a request on the link is the one the flasher is at, and only while it waits; after success the link is silent |
| `FlashSystemProofs!UpdatesAreWithdrawals` | under `FlashImages \subseteq AppImages`, `FlashSpec => UpdatesApp` | every step maps to a step of `AppUpdate` or a stutter. `AppInv`: a unit holds nothing, rubbish or the unit of an image that belongs there (`AllFit`, so that a check that passes has found a whole application); from the answer to its erase until the check the application is withdrawn (`Withdrawn`), also for requests of a run that was stopped (`RequestInv`); while the marks say good the application is whole and nothing in progress touches it (`MarksRight`). A record torn by a cut does not say good by itself (`TornSee`) |
| `QspiDriverProofs!NothingLost` | `Spec => []NothingIgnored` | `QspiInv`: the commands that are left of a call follow each other as its plan has them (`Ordered`), and at each the chip is as that command needs it (`Ready`): idle with its latch before an erase or a program, idle and without it after a wait. A program that starts on a busy chip waits first, whatever the reset left |
| `QspiDriverProofs!StoreImplemented` | `Spec => StoresAsAsked` | every step maps to a step of `FlashStore` or a stutter: a change is performed when the chip finishes, a read when its command is sent. `StoreInv`, on top of `QspiInv`: what the chip is at and every command that is left name pages of the chip, the initialisation runs only before the flash is ready, calls only after. What is left of a call (`StepsOf`, a recursive function) is what its first command does and then what the rest comes to (`StepsMore`), by induction over the length of the list |
| `LogOverCanProofs!LongLogs` | `Spec => []LongLogsWhole` | `ReaderInv`: the buffer holds the end of the message, the reader exactly what was sent before it, from the first packet on, and the counter returns to 1 and never to 0 |
| `LogOverCanProofs!LogsKeepRoom` | `Spec => []RoomForChunks` | `BufferInv`: outside the loop of a write at most a packet is buffered, unless one was refused |
| `DiagLinkProofs!LinkTyped` | `DiagSpec => []DiagTypeOK` | `LinkType` adds that a reassembly is of pieces of messages and shorter than its first frame says, that counters are below their limits and that `tx` names a frame of its payload |
| `DiagLinkProofs!AnswersMatch` | `DiagSpec => []UsbAnswersMatch` | `OneRequest`: until a read times out there is one request of the flasher, and it is in one place: in its packets, complete in the endpoint, in the task, or in the answer |
| `DiagLinkProofs!AnswersInOrder` | `DiagSpec => UsbAnswersInOrder` | `OrderInv`: transmissions keep their order on the way from the packets through the endpoint, the signal and the task to the answers (`InLine`), whatever is replaced or dropped on it. For the endpoint this rests on the packets being those of one transmission after the other, from the place on that it has reached (`InStream`, `AtItsPlace`): the packet that completes a message is the last of the same transmission (`PollStream`) |
| `DiagLinkProofs!Delivers` | `DiagSpec => CanDelivers` | `DeliverInv`: a reassembly has pieces of one message, each frame on its way is later than what it holds and later than what the server took, and frames keep their order. So if the last piece is where it belongs, all are (`Reassembling`); after a lost frame the reassembly stays short, and the end of a block, at which the tester waits (`BlockOpen`), keeps it from being filled by the next message |
| `DiagLinkProofs!WholeAnswers` | `DiagSpec => [](setting.waits => AnswersWhole)` | `AnswerInv`: what is in the queue and the mailbox is of the task's answer, numbered without gaps up to the last frame written (`Passed`); one exchange of flow control is open at a time, and while it is, tester and task have the same frames (`Released`, `Agreed`). The last piece the tester holds can only be ahead of its place (`Receiving`), so an answer of which a frame was lost never becomes complete; the sequence numbers are not needed |
| `DiagLinkProofs!AllowedFrames` | `DiagSpec => [](setting.waits => FlowRespected)` | `Aligned` in `AnswerInv`: the frames in the queue and those the task may still write fit in what is left of the tester's block, and fill it only if none was lost and the answer does not end before |
| `DiagLinkProofs!AnswersCome` | `DiagSpec => [](setting.waits => NothingSilent)` | `SilentInv`, on top of the two before: as long as nothing was lost or given up, every piece sent of the last request is in the reassembly or on its way (`Arrives`), and a tester that waits for flow control gets it (`Granted`); an answer is in the mailbox, or the tester has all that was sent of it and the task counts the block as the tester does (`InStep`), or the tester refuses it, or has it (`Replying`); a task that waits is about to be told (`Awaited`). So neither side ever waits in vain (`NoVainWait`, `NoVainAnswer`), and the timeouts, which come only to the one that does, never end an exchange |
| `GearboxProofs!PowerOff` | `Spec => []PowerOffInError` | `PowerInv`: no power and no request for it before initialisation is over; between the update and the writing of power the outputs agree with the mode, and a failure later in the cycle switches off by itself |
| `GearboxProofs!CalibratedFirst` | `Spec => []OnlyCalibrated` | `LoadInv`: a mode without initialisation and emergency, an output with power, a frame that says well, each only after everything is loaded. Rests on `CalInv` |
| `GearboxProofs!Drained` | `Spec => []QueuesDrained` | `CalInv`: what has been received, the answers, what the storage task is at and the requests are consecutive pieces of one fixed order of calibrations; when all are received the other pieces are empty. Holds for channels of any size |
| `GearboxProofs!Remembers` | `Spec => []ChipFollows` | `ChipInv`: unless an exchange was abandoned chip select is high between exchanges, and after a transfer the chip differs from the memory in the current just sent |
| `GearboxProofs!Floor` | `Spec => []PressureFloor` | `PressureInv`, with `GearboxProofs!PressureBound` |
| `GearboxProofs!CurrentsFitAlways` | `Spec => []CurrentsFit` | `SetpointInv`: currents are at most 3000 mA, by `GearboxProofs!CurrentBound`, for every temperature that a reading gives. `ModeInv`: no exchange and no current before the configuration is stored, and then the registers are those after the whole plan of messages; what the recursive `PlanUpTo` and `After` come to is proved by induction over their arguments (`PlanFacts`, `AfterPlan`) |
| `GearboxProofs!GearboxTyped` | `Spec => []GearboxTypeOK` | `TypeInv` adds the order of calibrations, the bound on currents, and that an exchange is with one of the two pressure solenoids |
| `GearboxProofs!CurrentBound` | a current is at most 3000 mA | the search of an axis returns neighbours inside it, and an interpolation lies between its ends, whether or not the axis is ordered |
| `GearboxProofs!PressureBound` | a filtered line pressure is at least the least one | the filter of a dropping pressure never passes its target |

Only model-checked is all liveness, since fairness is out of the prover's reach:
`BootSettles`, `UpdateInstalled`, `EraseEnds`, `SilenceEndsSession`, `RunEnds`, `TaskReturns`,
`InitEnds`, `CycleRepeats`, `PressureSettles` and `CallsReturn`, the other half of `FlashStore`.
Every invariant, action property and refinement of a passing run is a theorem;
`AnswersWhole`, `FlowRespected` and `NothingSilent` are so for the firmware.

## 6. Plan

Further models: the flasher's other commands (reading the board's tables, logs on the
terminal); the EEPROM driver below the database; shifts, shift valves and slave mode as
soon as the firmware starts them.

*Not modelled*: HAL extensions, the RAM test and the registers of USB (register access, whose
results appear as choices where they matter); the code generator of the CAN
database (text at build time); pin assignments; the PC simulator (a physical simulation for
developers).
