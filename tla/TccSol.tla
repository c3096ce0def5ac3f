--------------------------------- MODULE TccSol ---------------------------------
(***************************************************************************)
(* The solenoid of the torque converter clutch (solenoids/tcc_sol.rs).  A   *)
(* timer counts through a window of 10 ms; its overflow and its two         *)
(* comparators raise interrupts, and by the event system the overflow       *)
(* clears the Zener pin and the first comparator sets it.  The handlers     *)
(* have the highest priority: they run before the timer counts on.          *)
(***************************************************************************)
EXTENDS Naturals

CONSTANTS
  Window,    \* cycles of the timer in 10 ms, a number less than those of the code
  Requests   \* values of the hydraulic PWM, numbers of sixteen bits

VARIABLES
  count,     \* the counter of the timer
  cc,        \* its comparators 1 and 2
  pending,   \* interrupts that are flagged
  duty,      \* of the electrical PWM, in percent
  zener,     \* the Zener pin
  phase,     \* phase_1_count, phase_2_count, phase_1_pwm and phase_2_pwm
  asked      \* the request of this window, or changed (no variable of the code)

tccVars == <<count, cc, pending, duty, zener, phase, asked>>

Never   == Window + 1   \* u32::MAX, which the counter does not reach
Changed == 65536

CyclesOn(pwm) == (pwm * Window) \div 65535
InrushMax     == Window \div 4
Inrush(pwm)   == IF CyclesOn(pwm) < InrushMax THEN CyclesOn(pwm) ELSE InrushMax

Phases(c1, c2, p1, p2) == [count1 |-> c1, count2 |-> c2, pwm1 |-> p1, pwm2 |-> p2]

\* write_tcc_sol: solid off, solid on, inrush with hold, and inrush alone.
PhasesFor(pwm) ==
  CASE pwm < 3000  -> Phases(Never, Never, 0, 0)
    [] pwm > 62000 -> Phases(Never, Never, 25, 0)
    [] OTHER -> IF CyclesOn(pwm) > Inrush(pwm)
                THEN Phases(Inrush(pwm), CyclesOn(pwm), 99, 25)
                ELSE Phases(Inrush(pwm), Never, 99, 0)

WriteTccSol ==
  /\ \E pwm \in Requests :
       /\ phase' = PhasesFor(pwm)
       /\ asked' = IF pwm = asked THEN asked ELSE Changed
  /\ UNCHANGED <<count, cc, pending, duty, zener>>

Count ==
  /\ pending = {}
  /\ count' = (count + 1) % Window
  /\ LET flags == {i \in {"mc1", "mc2"} : cc[i] = count'}
                  \cup (IF count' = 0 THEN {"ovf"} ELSE {})
     IN  /\ pending' = flags
         /\ zener' = IF "ovf" \in flags THEN FALSE ELSE zener \/ "mc1" \in flags
  /\ UNCHANGED <<cc, duty, phase, asked>>

\* What was asked for in the window that begins: the request behind the phases.
Behind(p) == CHOOSE pwm \in Requests : PhasesFor(pwm) = p

\* The new watchpoints; the comment in the branch says Inrush->Off.
OnTccOvf ==
  /\ "ovf" \in pending /\ pending' = pending \ {"ovf"}
  /\ cc' = IF phase.count2 # Never THEN [mc1 |-> phase.count1, mc2 |-> Never]
                                   ELSE [mc1 |-> phase.count2, mc2 |-> phase.count1]
  /\ duty' = phase.pwm1
  /\ asked' = Behind(phase)
  /\ UNCHANGED <<count, zener, phase>>

OnTccMc1 ==
  /\ "mc1" \in pending /\ pending' = pending \ {"mc1"}
  /\ duty' = 0
  /\ UNCHANGED <<count, cc, zener, phase, asked>>

OnTccMc2 ==
  /\ "mc2" \in pending /\ pending' = pending \ {"mc2"}
  /\ duty' = phase.pwm2
  /\ UNCHANGED <<count, cc, zener, phase, asked>>

Init ==
  /\ count = 0 /\ cc = [mc1 |-> Never, mc2 |-> Never] /\ pending = {}
  /\ duty = 0 /\ zener = FALSE
  /\ phase = Phases(Never, Never, 0, 0) /\ asked = 0

Next == Count \/ OnTccOvf \/ OnTccMc1 \/ OnTccMc2 \/ WriteTccSol

Spec == Init /\ [][Next]_tccVars

-----------------------------------------------------------------------------
\* Off and full on need one phase.  Between them the solenoid is switched on at
\* 99 %, held at 25 % if it is on for longer than the inrush, and then off with
\* the Zener pin on.
Documented(pwm) ==
  CASE pwm < 3000  -> <<0, FALSE>>
    [] pwm > 62000 -> <<25, FALSE>>
    [] count < Inrush(pwm) -> <<99, FALSE>>
    [] count \in Inrush(pwm) .. CyclesOn(pwm) - 1 -> <<25, FALSE>>
    [] OTHER -> <<0, TRUE>>

\* In a window in which the request stays the same the solenoid goes through the
\* phases that the head of tcc_sol.rs describes.
DocumentedPhases ==
  pending = {} /\ asked # Changed => <<duty, zener>> = Documented(asked)
=============================================================================
