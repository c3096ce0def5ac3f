------------------------------ MODULE MCDiagLink ------------------------------
(***************************************************************************)
(* Instances of DiagLink for TLC.                                           *)
(***************************************************************************)
EXTENDS DiagLink

Setting(can, usb, waits, early) == [can |-> can, usb |-> usb, waits |-> waits, early |-> early]

\* The firmware under a tester that asks at any moment, with much on CAN, or on USB, or
\* some of both; the bootloader under one that waits for the end of its exchange.  What
\* is on USB alone does not meet the difference.
Served == {Setting(3, 0, TRUE, TRUE), Setting(1, 2, TRUE, TRUE), Setting(0, 3, TRUE, TRUE),
           Setting(3, 0, FALSE, FALSE), Setting(1, 2, FALSE, FALSE)}

\* The bootloader under a tester that asks at any moment.
AskedEarly == {Setting(3, 0, FALSE, TRUE)}
=============================================================================
