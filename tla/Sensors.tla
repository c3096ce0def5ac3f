--------------------------------- MODULE Sensors ---------------------------------
(***************************************************************************)
(* From readings of the converters (0 to 4095 for 0 to 3.3 V) to the values *)
(* that the application works with: firmware/src/sensors.                   *)
(***************************************************************************)
EXTENDS EgsMaths, Sequences

MaxAdc == 4095

ParkOrNeutral == -1000   \* the lock of the lever cuts the sensor of the oil off

-----------------------------------------------------------------------------
(* Tables: TupleMap *)

\* `as i16`, `as i8` of a fraction.
CutToZero(q) == DivToZero(q[1], q[2])

\* TupleMap::interp_1d, the x and z of the pairs apart.
Interp1d(v, xs, zs) ==
  LET i == SearchValue(v, xs, Len(xs))
  IN  IF i[1] = i[2] THEN Whole(zs[i[1]])
      ELSE InterpLinear(v, xs[i[1]], xs[i[2]], zs[i[1]], zs[i[2]])

\* What the converter reads of a resistance below a pull-up.
AdcOf(pullup, ohms) == (MaxAdc * ohms) \div (pullup + ohms)
AdcAxis(pullup, ohms) == [i \in DOMAIN ohms |-> AdcOf(pullup, ohms[i])]

\* KTY83/110, the temperature of the oil.
KtyOhms ==
  <<500, 525, 525, 577, 632, 691, 754, 820, 889, 962, 1000, 1039, 1118, 1202, 1288, 1379,
    1472, 1569, 1670, 1774, 1882, 1937, 1993, 2107, 2225, 2346, 2471, 2535>>
KtyDegrees ==
  <<-55, -50, -50, -40, -30, -20, -10, 0, 10, 20, 25, 30, 40, 50, 60, 70,
    80, 90, 100, 110, 120, 125, 130, 140, 150, 160, 170, 175>>
TftLookup(adc) == Interp1d(adc, AdcAxis(2000, KtyOhms), KtyDegrees)

\* NTCG, the temperatures of the board.
NtcOhms ==
  <<534, 599, 760, 975, 1267, 1668, 2227, 3019, 4158, 5826, 6942, 8312, 10000, 12090, 14700,
    17960, 22070, 27280, 33930, 42450, 67790, 111300, 188500>>
NtcDegrees ==
  <<125, 120, 110, 100, 90, 80, 70, 60, 50, 40, 35, 30, 25, 20, 15, 10, 5, 0, -5, -10, -20,
    -30, -40>>
TsenLookup(adc) == Interp1d(adc, AdcAxis(12000, NtcOhms), NtcDegrees)

\* BTS6143D, the scale of its current by the temperature of the board.
BtsScale(t) == Interp1d(t, <<-40, 25, 150>>, <<10000, 9700, 9300>>)

-----------------------------------------------------------------------------
(* Voltages, in mV *)

\* adc_reading_to_source: the voltage in front of a divider.
AdcReadingToSource(adc, r1, r2) ==
  ((3300 * ((adc * 1000) \div MaxAdc)) \div ((r2 * 1000) \div (r1 + r2))) % 2^16

\* VariableAdcInput: near an end of the range the reading counts as the end.
Snapped(adc) == IF adc > 4040 THEN MaxAdc ELSE IF adc < 40 THEN 0 ELSE adc
VariableVoltage(adc, wide) ==
  AdcReadingToSource(Snapped(adc), 12000, IF wide THEN 3300 ELSE 23300)

\* KL87: nothing below ten steps.  The temperature t is that of the board.  It
\* and the scale are whole numbers here, which makes a difference of 20 mA at most.
Ikl87(adc, t) ==
  IF adc < 10 THEN 0 ELSE (adc * 33 * Cut(BtsScale(t))) \div (MaxAdc * 10)

-----------------------------------------------------------------------------
(* AdcData::update *)

Tft(adc) == IF adc > 4090 THEN ParkOrNeutral ELSE CutToZero(TftLookup(adc))

\* pins holds a reading of each pin that is asked, one after the other.
SensorData(pins) ==
  [tft    |-> Tft(pins.tft),
   vkl15  |-> AdcReadingToSource(pins.kl15, 12000, 3300),
   vsense |-> AdcReadingToSource(pins.sens, 10000, 15000),
   vkl87  |-> AdcReadingToSource(pins.kl87, 12000, 3300),
   ikl87  |-> Ikl87(pins.kl87diag, CutToZero(TsenLookup(pins.pcb))),
   tPcb   |-> CutToZero(TsenLookup(pins.pcb)),
   tTle   |-> CutToZero(TsenLookup(pins.tle))]

\* SensorData::new, what the gearbox task finds before the first reading.
NoSensorData ==
  [tft |-> ParkOrNeutral, vkl15 |-> 0, vsense |-> 0, vkl87 |-> 0, ikl87 |-> 0,
   tPcb |-> 0, tTle |-> 0]
=============================================================================
