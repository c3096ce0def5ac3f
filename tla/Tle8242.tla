--------------------------------- MODULE Tle8242 ---------------------------------
(***************************************************************************)
(* The messages to the TLE8242 (solenoids/commands.rs), the order in which  *)
(* init sends them (tle8242.rs), the numbers they carry                     *)
(* (solenoid_ctrl.rs), and what the chip is after some of them.             *)
(***************************************************************************)
EXTENDS Integers, Sequences

Channels == 0 .. 7

\* The outputs of the board.
Chan == [y3 |-> 6, y4 |-> 1, y5 |-> 4, mpc |-> 5, spc |-> 0, gpio |-> 3, trrs |-> 2]

-----------------------------------------------------------------------------
(* Messages: the identifiers in bits 24 to 30, and the widths of the fields. *)

OnChip(id, fields)      == [ids |-> {id}, fields |-> fields]
OnHalf(low, high, fields) == [ids |-> {low, high}, fields |-> fields]

\* The channel is in the three lowest bits of the identifier.
OnChannel(id, fields)   == [ids |-> id .. id + 7, fields |-> fields]

ChipMessages ==
  [IcVersion               |-> OnChip(0, [icManfId |-> 8, versionNumber |-> 8]),
   CtrlMethodFaultMaskCfg  |-> OnChip(1, [cmx |-> 8, fmx |-> 8, fmr |-> 1, fme |-> 1,
                                          diagTimer |-> 2]),
   DiagnosticConfiguration |-> OnHalf(2, 3, [sb |-> 8, sbRetry |-> 16]),
   DiagnosticRead          |-> OnHalf(4, 5, [sg |-> 4, offTst |-> 4, sb |-> 4, sbTst |-> 4,
                                             olOff |-> 4, olOn |-> 4]),
   PwmOffset               |-> OnHalf(6, 7, [offset |-> 20]),
   ReadGenericFlags        |-> OnChip(120, [ov |-> 1, ps |-> 1, enL |-> 1, rbL |-> 1])]

ControlMessages ==
  [MainPeriodSet       |-> OnChannel(8, [sam |-> 1, dividerM |-> 2, dividerN |-> 14]),
   ControlVarsSet      |-> OnChannel(16, [kp |-> 12, ki |-> 12]),
   CurrentDitherAmpSet |-> OnChannel(24, [en |-> 1, ditherStepSize |-> 11,
                                          currentSetpoint |-> 11]),
   DitherPeriodSet     |-> OnChannel(32, [numberOfSteps |-> 5])]

ReadingMessages ==
  [MaxMinCurrentRead   |-> OnChannel(40, [valid |-> 1, max |-> 11, min |-> 11]),
   AverageCurrentRead  |-> OnChannel(48, [valid |-> 1, avg |-> 20]),
   AutoZeroTriggerRead |-> OnChannel(56, [azOn |-> 1, azOff |-> 1, azOnVal |-> 8,
                                          azOffVal |-> 8]),
   PwmDutyCycle        |-> OnChannel(64, [pwm |-> 19])]

ProfileMessages ==
  [CurrentProfileSetup1            |-> OnChannel(72, [threshold |-> 12, count |-> 12]),
   CurrentProfileSetup2            |-> OnChannel(80, [timeout |-> 6, zone3Set |-> 2]),
   CurrentProfileDetectionFeedback |-> OnChannel(88, [detectionInterrupted |-> 1,
                                                      timeout |-> 1, pass |-> 1])]

Both(f, g) == [k \in DOMAIN f \cup DOMAIN g |-> IF k \in DOMAIN f THEN f[k] ELSE g[k]]
Messages == Both(Both(ChipMessages, ControlMessages), Both(ReadingMessages, ProfileMessages))

\* id_match looks at the seven bits: an answer to one message, or for one channel,
\* is never taken for that to another.
IdsApart ==
  \A k, l \in DOMAIN Messages : k # l => Messages[k].ids \cap Messages[l].ids = {}

Message(name, channel, fields) == [name |-> name, channel |-> channel, fields |-> fields]

\* The conversions to the types of the fields panic otherwise.
Fits(m) == \A f \in DOMAIN m.fields : m.fields[f] < 2^Messages[m.name].fields[f]

-----------------------------------------------------------------------------
(* Mode: the numbers of a channel.  Frequencies are in Hz, shunts in mOhm.  *)

\* DividerM::get_value
DividerM(code, cc) == IF code = 3 /\ ~cc THEN 512 ELSE <<32, 64, 128, 128>>[code + 1]

\* floor_unsigned(p / q + 0.5)
Rounded(p, q) == (2 * p + q) \div (2 * q)

DividerN(fClk, fPwm, m, cc) == Rounded(fClk, fPwm * DividerM(m, cc))

NoDither == [steps |-> 0, stepSize |-> 0]

\* calc_dither_settings; amplitude in mA.  32 steps would pass, and not fit.
DitherOpts(shunt, fPwm, freq, amplitude) ==
  LET steps    == Rounded(fPwm, 4 * freq)
      stepSize == Rounded(amplitude * 4096 * shunt, 320 * 1000 * steps)
  IN  IF steps > 32 \/ stepSize > 1023 THEN NoDither
      ELSE [steps |-> steps, stepSize |-> stepSize]

ClkFreq == 40000000
Dither  == DitherOpts(50, 1000, 250, 100)

\* Mode::pwm and calculated_cc_mode; the gains of the control loop are left out.
PwmMode     == [mode |-> "pwm", m |-> 3, n |-> DividerN(ClkFreq, 1000, 3, FALSE)]
CurrentMode == [mode |-> "current", m |-> 2, n |-> DividerN(ClkFreq, 1000, 2, TRUE)]

\* SolenoidController::init with with_props; the two other channels have no mode.
Settings ==
  [ch \in {Chan.mpc, Chan.spc, Chan.y3, Chan.y4, Chan.y5} |->
     IF ch \in {Chan.mpc, Chan.spc} THEN CurrentMode ELSE PwmMode]

-----------------------------------------------------------------------------
(* Tle8242::init *)

ChannelMessages(ch) ==
  IF ch \notin DOMAIN Settings THEN <<>>
  ELSE LET s == Settings[ch]
       IN  <<Message("MainPeriodSet", ch, [dividerM |-> s.m, dividerN |-> s.n])>>
           \o (IF s.mode = "pwm" THEN <<>>
               ELSE <<Message("ControlVarsSet", ch, [kp |-> 0, ki |-> 0]),
                      Message("DitherPeriodSet", ch, [numberOfSteps |-> Dither.steps])>>)
           \o <<Message("AutoZeroTriggerRead", ch, [azOn |-> 0])>>

\* Bits that are in the place of their channel: the bits of the chip run backwards.
ModeBitForwards(ch) == ch
ModeBit(ch) == 7 - ch

ModeBits == {ModeBit(ch) : ch \in {c \in DOMAIN Settings : Settings[c].mode = "pwm"}}

PlanUpTo[k \in 0 .. 8] ==
  IF k = 0 THEN <<Message("IcVersion", 0, [icManfId |-> 0])>>
  ELSE PlanUpTo[k - 1] \o ChannelMessages(k - 1)

\* The modes of all channels come last.
InitPlan == PlanUpTo[8] \o <<Message("CtrlMethodFaultMaskCfg", 0, [fmr |-> 0, fme |-> 0])>>

\* The registers that matter: who has a control loop with a dither, and the channels
\* in direct PWM mode.
ResetRegisters == [loops |-> {}, pwm |-> {}]

Applied(regs, m) ==
  CASE m.name = "DitherPeriodSet" -> [regs EXCEPT !.loops = @ \cup {m.channel}]
    [] m.name = "CtrlMethodFaultMaskCfg" ->
         [regs EXCEPT !.pwm = {ch \in Channels : 7 - ch \in ModeBits}]
    [] OTHER -> regs

After[n \in 0 .. Len(InitPlan)] ==
  IF n = 0 THEN ResetRegisters ELSE Applied(After[n - 1], InitPlan[n])

-----------------------------------------------------------------------------
(* Requests for a channel *)

\* set_channel_current
CurrentMessage(sol, setpoint) ==
  Message("CurrentDitherAmpSet", Chan[sol],
          [currentSetpoint |-> setpoint, ditherStepSize |-> Dither.stepSize])

\* set_channel_pwm; the duty in 4096ths, as the shift valves have it.
PwmMessage(sol, duty) ==
  Message("PwmDutyCycle", Chan[sol], [pwm |-> (duty * 32 * PwmMode.n) \div 4096])
=============================================================================
