--------------------------------- MODULE Gearbox ---------------------------------
(***************************************************************************)
(* The gearbox task (firmware/src/tasks/gearbox.rs) with the logic that it  *)
(* calls (egs_logic), its calibrations, its solenoids, the frames it reads  *)
(* from CAN (egs_can) and the CAN transmitter it shares with diagnostics.   *)
(*                                                                          *)
(* The task has the highest priority of those that share anything with it:  *)
(* the others run, frames arrive and time passes only while it waits.       *)
(* A unit of time is a cycle of 20 ms.  Times are kept relative to the      *)
(* present: the age of a frame, and how long ago the task took now_ms.      *)
(***************************************************************************)
EXTENDS CalStorage, Solenoids, Hydraulics, Sensors

CONSTANTS
  Hydr,       \* the valid calibration of the hydraulics
  Databases,  \* contents of the database
  Adcs,       \* readings of the converter for the oil temperature
  MaxAge,     \* 100 ms, after which a frame is missing, in units of time
  MaxSince,   \* bound on the length of a cycle
  MaxFaults   \* bound on failures of the SPI

ASSUME GearboxAssumption ==
  /\ Hydr \in HydrCals /\ HydrValid(Hydr) /\ Databases \subseteq [Cals -> Contents] /\ Adcs \subseteq 0 .. MaxAdc
  /\ MaxAge \in Nat /\ MaxSince \in Nat \ {0} /\ MaxFaults \in Nat

VARIABLES
  pc,        \* where the task is
  mode,      \* DeviceMode
  outputs,   \* GearboxOutputs
  running,   \* engine_running
  pressure,  \* mpc_pressure and spc_pressure
  engine,    \* the last frames of the engine: their age, and the speed
  sinceNow,  \* time since the task took now_ms
  canTx,     \* who holds the transmitter
  delta,     \* write_signals found the torque frame, and whether it was there (no
             \* variable: the code keeps what it computes from the frame)
  told,      \* the gearbox_ok of the last frames sent
  cycled,    \* outputs have been written once (no variable of the code)
  faults     \* failures so far

gearboxVars == <<pc, mode, outputs, running, pressure, engine, sinceNow, canTx,
                 delta, told, cycled, faults, calVars, solVars>>

Never  == 0 - 1
AgeCap == MaxAge + MaxSince + 1   \* ages above are alike

NotRunningPressure == 750

HasError(m) == m \cap {"TEMP_EMERGENCY", "HARDWARE_ERR"} # {}

NoDelta == [found |-> FALSE, there |-> FALSE]

Off == [pwr |-> FALSE, mpc |-> 0, spc |-> 0]

-----------------------------------------------------------------------------
(* Frames: RxFrame *)

\* Seen, and now_ms - timestamp_ms at most 100.  The difference of two u32 wraps to
\* more than that when the frame is younger than now_ms (a debug build panics).
RxGet(age, since) == age # Never /\ since <= age /\ age - since <= MaxAge

Older(age) == IF age = Never THEN Never ELSE Smaller(age + 1, AgeCap)

Waiting ==
  \/ pc \in {"init", "read", "sleep"} \/ transfer # NoTransfer
  \/ pc = "can" /\ canTx # "free"

\* Speed and torque are in frames that the engine sends together.
FrameArrives ==
  /\ Waiting
  /\ engine' \in [age : {0}, val : {"stopped", "running", "invalid"}]
  /\ UNCHANGED <<pc, mode, outputs, running, pressure, sinceNow, canTx, delta, told,
                 cycled, faults, calVars, solVars>>

Tick ==
  /\ Waiting /\ sinceNow < MaxSince
  /\ sinceNow' = sinceNow + 1
  /\ engine' = [engine EXCEPT !.age = Older(@)]
  /\ UNCHANGED <<pc, mode, outputs, running, pressure, canTx, delta, told, cycled,
                 faults, calVars, solVars>>

\* Another task, or the interrupt, has the transmitter.
OthersSend ==
  /\ Waiting
  /\ \/ pc # "can" /\ canTx = "free" /\ canTx' = "other"
     \/ canTx = "other" /\ canTx' = "free"
  /\ UNCHANGED <<pc, mode, outputs, running, pressure, engine, sinceNow, delta, told,
                 cycled, faults, calVars, solVars>>

OthersRelease == canTx = "other" /\ OthersSend

-----------------------------------------------------------------------------
(* gearbox_init *)

\* Solenoids that do not answer in a second, or not as they should.
GearboxInit ==
  /\ pc = "init" /\ pc' = "update" /\ sinceNow' = 0
  /\ \E ok \in BOOLEAN :
       /\ SolInit(ok)
       /\ mode' = IF ok THEN mode ELSE mode \cup {"HARDWARE_ERR"}
  /\ UNCHANGED <<outputs, running, pressure, engine, canTx, delta, told,
                 cycled, faults, calVars>>

-----------------------------------------------------------------------------
(* Gearbox::update *)

\* The storages other than the calibrations are always ready.
AfterPoll(result) ==
  CASE result = "waiting" -> mode
    [] result = "ready"   -> mode \ {"INIT"}
    [] result = "error"   -> (mode \ {"INIT"}) \cup {"TEMP_EMERGENCY"}

UpdateInit ==
  /\ "INIT" \in mode
  /\ InitPoll
  /\ mode' = AfterPoll(PollResult(cals'))
  /\ UNCHANGED <<outputs, running, pressure>>

\* process_engine_rpm: once it runs, the engine runs until its speed is missing
\* or invalid.
EngineRunning ==
  /\ RxGet(engine.age, sinceNow) /\ engine.val # "invalid"
  /\ running \/ engine.val = "running"

\* process_tft_sensor, with the coolant temperature that no frame sets.
Temperature(tft) == IF tft = ParkOrNeutral THEN 80 ELSE Larger(0, tft)

\* What the sensor task has put into sensor_data, where it is read in every cycle.
Tfts == {NoSensorData.tft} \cup {Tft(a) : a \in Adcs}

Neutral == 0   \* the pressure needed in neutral: current_gear is always N

\* calculate_solenoid_status; the phase timer is always at its end.
Pressures(isRunning) ==
  IF HasError(mode) THEN [mpc |-> 0, spc |-> 0]
  ELSE IF ~isRunning THEN [mpc |-> NotRunningPressure, spc |-> 0]
  ELSE [mpc |-> MpcInGear(Hydr, Neutral, pressure.mpc), spc |-> MaxPcsPressure(Hydr)]

\* ... with safety_fn and write_can_outputs.
Outputs(p, tft) ==
  IF HasError(mode) THEN Off
  ELSE [pwr |-> TRUE,
        mpc |-> SolenoidCurrent(Hydr, p.mpc, p.mpc, Temperature(tft)),
        spc |-> SolenoidCurrent(Hydr, p.mpc, p.spc, Temperature(tft))]

UpdateRegular ==
  /\ "INIT" \notin mode
  /\ running' = EngineRunning
  /\ pressure' = Pressures(EngineRunning)
  /\ \E tft \in Tfts : outputs' = Outputs(Pressures(EngineRunning), tft)
  /\ UNCHANGED <<mode, calVars>>

Update ==
  /\ pc = "update" /\ pc' = "can"
  /\ UpdateInit \/ UpdateRegular
  /\ UNCHANGED <<engine, sinceNow, canTx, delta, told, cycled, faults, solVars>>

-----------------------------------------------------------------------------
(* The rest of a cycle *)

TransmitterAfterKept == "gearbox"

\* The guard of the transmitter ends with its block.
TransmitterAfter == "free"

\* write_signals with the now_ms of the start of the cycle, and transmit, whose
\* error (a full queue) is dropped.  outputs.pwr is gearbox_ok as well.
WriteCan ==
  /\ pc = "can" /\ canTx = "free" /\ pc' = "power"
  /\ delta' = [found |-> RxGet(engine.age, sinceNow),
               there |-> engine.age \in 0 .. MaxAge]
  /\ told' \in {told, outputs.pwr}
  /\ canTx' = TransmitterAfter
  /\ UNCHANGED <<mode, outputs, running, pressure, engine, sinceNow, cycled,
                 faults, calVars, solVars>>

unchangedByWrites == <<outputs, running, pressure, engine, canTx, told, calVars>>

WritePower ==
  /\ pc = "power" /\ pc' = "mpc"
  /\ HighSidePower(outputs.pwr) /\ cycled' = TRUE
  /\ delta' = NoDelta
  /\ UNCHANGED <<unchangedByWrites, mode, sinceNow, faults>>

AfterCurrent == IF pc = "mpc" THEN "spc" ELSE "read"

\* set_mpc_current and set_spc_current: nothing to do, or an exchange.
SkipCurrent ==
  /\ pc \in {"mpc", "spc"} /\ transfer = NoTransfer /\ ~SettingNeeded(pc, outputs[pc])
  /\ pc' = AfterCurrent
  /\ UNCHANGED <<unchangedByWrites, delta, mode, sinceNow, cycled, faults, solVars>>

BeginCurrent ==
  /\ pc \in {"mpc", "spc"} /\ SettingNeeded(pc, outputs[pc]) /\ configured
  /\ BeginExchange(pc, outputs[pc])
  /\ UNCHANGED <<unchangedByWrites, delta, pc, mode, sinceNow, cycled, faults>>

CurrentDone ==
  /\ \/ ExchangeDone /\ UNCHANGED pc
     \/ Settled /\ pc' = AfterCurrent
  /\ UNCHANGED <<unchangedByWrites, delta, mode, sinceNow, cycled, faults>>

PowerKeptOnFailure(pwr) == pwr

PowerAfterFailure(pwr) == FALSE

\* The exchange fails: the power goes off, and the mode says so from then on.
CurrentFails ==
  /\ transfer.at = "transfer" /\ faults < MaxFaults /\ faults' = faults + 1
  /\ Abandon /\ power' = PowerAfterFailure(power)
  /\ mode' = mode \cup {"HARDWARE_ERR"} /\ pc' = "read"
  /\ UNCHANGED <<unchangedByWrites, delta, sinceNow, cycled>>

\* 20 ms are over: the exchange is dropped wherever it is, and that is all.
WriteTimeout ==
  /\ transfer # NoTransfer /\ faults < MaxFaults /\ faults' = faults + 1
  /\ Abandon /\ UNCHANGED power
  /\ pc' = "read"
  /\ UNCHANGED <<unchangedByWrites, delta, mode, sinceNow, cycled>>

\* update_task, without a timeout.
UpdateTask ==
  /\ pc = "read" /\ pc' = "sleep"
  /\ ReadCurrent
  /\ faults' = IF abandoned' = abandoned THEN faults ELSE faults + 1
  /\ faults' <= MaxFaults
  /\ UNCHANGED <<unchangedByWrites, delta, mode, sinceNow, cycled>>

\* delay_until(now + 20 ms); the next cycle takes a new now.
WakeUp ==
  /\ pc = "sleep" /\ sinceNow >= 1 /\ pc' = "update"
  /\ sinceNow' = 0
  /\ UNCHANGED <<unchangedByWrites, delta, mode, cycled, faults, solVars>>

AfterUpdate ==
  \/ GearboxInit \/ WriteCan \/ WritePower \/ SkipCurrent \/ BeginCurrent
  \/ CurrentDone \/ UpdateTask \/ WakeUp

GearboxTask == Update \/ AfterUpdate

CommanderTask ==
  /\ Waiting /\ Commander
  /\ UNCHANGED <<pc, mode, outputs, running, pressure, engine, sinceNow, canTx, delta,
                 told, cycled, faults, solVars>>

Init ==
  /\ CalInit /\ db \in Databases /\ SolenoidsInit
  /\ pc = "init" /\ mode = {"INIT"} /\ outputs = Off
  /\ running = FALSE /\ pressure = [mpc |-> 0, spc |-> 0]
  /\ engine = [age |-> Never, val |-> "invalid"]
  /\ sinceNow = 0 /\ canTx = "free"
  /\ delta = NoDelta /\ told = FALSE
  /\ cycled = FALSE /\ faults = 0

Next ==
  \/ GearboxTask \/ CurrentFails \/ WriteTimeout
  \/ CommanderTask \/ OthersSend \/ FrameArrives \/ Tick

Spec == Init /\ [][Next]_gearboxVars

\* Every task is scheduled, the commander in the pauses of the gearbox task;
\* transfers end, nobody keeps the transmitter, and time passes.  An update is
\* always possible at its place; what is fair is that the task leaves it.
FairSpec ==
  /\ Spec
  /\ WF_pc(pc = "update" /\ pc' = "can") /\ WF_gearboxVars(AfterUpdate)
  /\ SF_gearboxVars(CommanderTask) /\ WF_gearboxVars(OthersRelease)
  /\ WF_gearboxVars(Tick)

-----------------------------------------------------------------------------
(* Properties *)

\* The values of the variables; in particular no channel holds more than its
\* places.
GearboxTypeOK ==
  /\ pc \in {"init", "update", "can", "power", "mpc", "spc", "read", "sleep"}
  /\ mode \subseteq {"INIT", "TEMP_EMERGENCY", "HARDWARE_ERR"}
  /\ outputs \in [pwr : BOOLEAN, mpc : Nat, spc : Nat]
  /\ running \in BOOLEAN /\ pressure \in [mpc : Nat, spc : Nat]
  /\ engine \in [age : 0 .. AgeCap \cup {Never}, val : {"stopped", "running", "invalid"}]
  /\ sinceNow \in 0 .. MaxSince
  /\ canTx \in {"free", "other", "gearbox"}
  /\ delta \in [found : BOOLEAN, there : BOOLEAN] /\ told \in BOOLEAN
  /\ cycled \in BOOLEAN /\ faults \in 0 .. MaxFaults
  /\ db \in Databases /\ calState \in 0 .. 4
  /\ cmds \in Seq(Cals) /\ Len(cmds) <= Slots /\ Len(resps) <= Slots
  /\ cals \in [Cals -> {Unset, "valid", "invalid", "default"}]
  /\ commander.at \in {"mount", "receive", "read", "send"}
  /\ power \in BOOLEAN /\ configured \in BOOLEAN /\ selected \in BOOLEAN
  /\ last \in [mpc : Nat, spc : Nat] /\ chip \in [mpc : Nat, spc : Nat]
  /\ regs \in [loops : SUBSET Channels, pwm : SUBSET Channels]
  /\ transfer.at \in {"none", "transfer", "settle"} /\ abandoned \in BOOLEAN

\* Once the outputs have been written for the first time, the solenoids have no
\* power while the mode has an error, wherever in a cycle the error arose.
PowerOffInError == cycled /\ HasError(mode) => ~power

\* The solenoids get power, and the other control units hear that the gearbox is
\* well, only after all four calibrations have come out of the database and the
\* two that are checked were valid there.
OnlyCalibrated ==
  (cycled /\ power) \/ told =>
    /\ \A c \in Cals : cals[c] # Unset
    /\ db["mech"] = "valid" /\ db["hydr"] = "valid"

\* When initialisation is over nothing of it is left in the channels, in which
\* nobody would look any more: the commander never waits for a place.
QueuesDrained ==
  "INIT" \notin mode => cmds = <<>> /\ resps = <<>> /\ commander.at = "receive"

\* Between exchanges the chip holds the currents that the controller remembers
\* and compares with, unless an exchange failed or was dropped.
ChipFollows == transfer = NoTransfer /\ ~abandoned => chip = last

\* A torque frame that came in the last 100 ms is found where the torque delta is
\* computed, also when it came while the cycle waited for the transmitter.
FreshFrameFound == pc = "power" /\ delta.there => delta.found

\* While the engine runs and nothing is wrong the line pressure is never below
\* the least working pressure of the calibration.
PressureFloor ==
  running /\ "INIT" \notin mode /\ ~HasError(mode) => pressure.mpc >= Hydr.minMpc

\* Every current fits the eleven bits of its setpoint, whatever the temperature: the
\* conversion would panic.
SetpointsFit == \A sol \in {"mpc", "spc"} : Fits(CurrentMessage(sol, Setpoint(outputs[sol])))

\* A channel has a current only as one in current mode whose control loop has been
\* set up, while the shift valves are in direct PWM mode.
ModesFit ==
  /\ \A sol \in {"mpc", "spc"} : chip[sol] # 0 => Chan[sol] \in regs.loops \ regs.pwm
  /\ configured => {Chan.y3, Chan.y4, Chan.y5} \subseteq regs.pwm

\* Every current fits its setpoint, and goes to a channel that controls it.
CurrentsFit == SetpointsFit /\ ModesFit

\* Initialisation ends, with or without success, though requests find the channel
\* full until the database is mounted.
InitEnds == <>("INIT" \notin mode)

\* The task comes back to its update again and again, although it waits in every
\* cycle for a transmitter that others use.
CycleRepeats == []<>(pc = "update")

\* A line pressure that drops in steps reaches the least working pressure when
\* the engine keeps running.
PressureSettles ==
  <>[](running /\ ~HasError(mode)) => <>[](pressure.mpc = Hydr.minMpc)
=============================================================================
