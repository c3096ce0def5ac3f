------------------------------- MODULE MCGearbox -------------------------------
EXTENDS Gearbox

\* A small calibration that is valid: three pressures, two temperatures, and a
\* least pressure so near to the one at rest that few pressures lie between.
MCHydr ==
  [nx |-> 3, x |-> <<0, 1000, 7700>>, ny |-> 2, y |-> <<50, 150>>,
   z |-> <<<<1100, 900, 0>>, <<1040, 880, 0>>>>,
   multi |-> 1000, spring |-> 600, shiftSpring |-> 500, minMpc |-> 747, filter |-> 1,
   inMin |-> 1000, inMax |-> 9000, outMin |-> 1500, outMax |-> 6000,
   offset |-> 1000, extra |-> 100]

AllValid == [c \in Cals |-> "valid"]

MCDatabases ==
  {[AllValid EXCEPT !["shiftMap"] = "missing"], [AllValid EXCEPT !["hydr"] = "missing"],
   [AllValid EXCEPT !["mech"] = "invalid"]}

\* A reading of 130 degrees and one with the lever's lock closed.
MCAdcs == {2047, 4095}

\* Every fortieth reading, on all pins at once: the oil is not colder and the board not
\* warmer when it is higher, and every value keeps the width of its field.
Readings == {40 * k : k \in 0 .. 102}
AllPins(a) ==
  SensorData([tft |-> a, kl15 |-> a, sens |-> a, kl87 |-> a, kl87diag |-> a, pcb |-> a, tle |-> a])
ASSUME SensorsFollow ==
  \A a \in Readings \ {0} :
    LET before == AllPins(a - 40)
        now    == AllPins(a)
    IN  /\ now.tft = ParkOrNeutral \/ before.tft <= now.tft
        /\ now.tPcb \in -128 .. before.tPcb /\ now.tTle = now.tPcb
        /\ before.vkl15 <= now.vkl15 /\ before.vsense <= now.vsense
        /\ now.vkl87 = now.vkl15 /\ now.ikl87 < 65536
        /\ \A wide \in BOOLEAN : VariableVoltage(a - 40, wide) <= VariableVoltage(a, wide)

\* Answers are told apart, and every message that is sent fits, whatever the duty.
ASSUME MessagesFit ==
  /\ IdsApart
  /\ \A n \in 1 .. Len(InitPlan) : Fits(InitPlan[n])
  /\ \A duty \in 0 .. 4096 : Fits(PwmMessage("y3", duty))
=============================================================================
