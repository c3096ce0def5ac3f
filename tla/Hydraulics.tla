------------------------------- MODULE Hydraulics -------------------------------
(***************************************************************************)
(* From pressures to solenoid currents (egs_logic/src/hydraulics) while no  *)
(* shift is active, which today is always.  h is a calibration (HydrCal)    *)
(* with its pressure map as h.x, h.y and h.z.                               *)
(***************************************************************************)
EXTENDS EgsMaths, Sequences

\* Calibrations, by the types of their fields.  A map has a pressure at least.
U8  == 0 .. 255
U16 == 0 .. 65535
HydrCals ==
  {h \in [nx : Nat \ {0}, x : Seq(U16), ny : Nat \ {0}, y : Seq(U16), z : Seq(Seq(U16)),
          multi : U16, spring : U16, shiftSpring : U16, minMpc : U16, filter : U8,
          inMin : U16, inMax : U16, outMin : U16, outMax : U16, offset : U16, extra : U16] :
     /\ Len(h.x) = h.nx /\ Len(h.y) = h.ny /\ Len(h.z) = h.ny
     /\ \A j \in 1 .. h.ny : Len(h.z[j]) = h.nx}

MaxPcsPressure(h) == h.x[h.nx]

\* What a valid map may hold: mbar, degrees above -50 C, and mA.
MaxPressure    == 10000
MaxTemperature == 200
MaxCurrent     == 3000

\* HydrCal::is_valid.  Neither the order of the axes nor the inlet pressures
\* are looked at.
HydrValid(h) ==
  /\ 0 \notin {h.multi, h.spring, h.shiftSpring, h.minMpc}
  /\ \A i \in 1 .. h.nx : h.x[i] <= MaxPressure
  /\ \A j \in 1 .. h.ny : h.y[j] <= MaxTemperature
  /\ \A j \in 1 .. h.ny : \A i \in 1 .. h.nx : h.z[j][i] <= MaxCurrent

\* The pressure at the inlet of the solenoids follows the line pressure.
InletPressure(h, mpc) ==
  LET working == (((h.spring + mpc) * 1000) \div h.multi) % 2^16
  IN  Cut(InterpLinear(working, h.inMin, h.inMax, h.outMin, h.outMax))

Smaller(a, b) == IF a < b THEN a ELSE b
Larger(a, b)  == IF a > b THEN a ELSE b

\* In a release build the difference of u32 wraps for an inlet above what the fields
\* name, which unordered ones give; the conversion to u16 saturates.
InletAdder(h, inlet, target) ==
  LET rest    == h.offset + h.outMax - inlet
      wrapped == IF rest < 0 THEN rest + 2^32 ELSE rest
  IN  Smaller((wrapped * (target + h.offset)) \div 1000000, 65535)

\* What the solenoid is set to: more than wanted, to make up for the inlet.  The sum
\* is one of u16.
Compensated(h, inlet, target) ==
  Smaller((target + InletAdder(h, inlet, target)) % 2^16, MaxPcsPressure(h))

OutputPressure(h, inlet, target) ==
  IF target < inlet THEN Compensated(h, inlet, target) ELSE MaxPcsPressure(h)

\* calculate_solenoid_current: the map is over temperatures above -50 C.
SolenoidCurrent(h, mpc, target, tft) ==
  Cut(Interp2d(OutputPressure(h, InletPressure(h, mpc), target), tft + 50,
               h.x, h.nx, h.y, h.ny, h.z))

\* A clutch that must carry a torque: coefficient, release spring and the
\* additional pressure, less what the line pressure spring gives.
ClutchPressure(h, coef, torque, release) ==
  LET p == ((coef * torque + (release + h.extra) * 100) * h.multi) \div 100000
  IN  Smaller(SaturatingSub(p, h.spring), MaxPcsPressure(h))

FilterRoundedUp(h, wanted, prev) ==
  IF wanted < prev THEN Cut(FirstOrderFilter(wanted, prev, h.filter)) + 1 ELSE wanted

\* A pressure that drops is filtered.
FilterWhenDropping(h, wanted, prev) ==
  IF wanted < prev THEN Cut(FirstOrderFilter(wanted, prev, h.filter)) ELSE wanted

MpcWithoutFloor(h, needed, prev) == FilterWhenDropping(h, needed, prev)

\* calculate_mpc_in_gear: needed is 0 in neutral, else ClutchPressure.
MpcInGear(h, needed, prev) == FilterWhenDropping(h, Larger(needed, h.minMpc), prev)

\* calc_sliding_friction_val between 29 and 65 degrees.
SlidingFriction(tft) == Cut(InterpLinear(tft, 29, 65, 185, 140))

SetpointOfVoltage(ma) == (ma * 2048) \div 320

\* set_mpc_current, set_spc_current: the setpoint of the chip, 320 mV over a
\* shunt of 0.05 Ohm being 2048.
Setpoint(ma) == (ma * 2048) \div 6400
=============================================================================
