-------------------------------- MODULE EgsMaths --------------------------------
(***************************************************************************)
(* The numbers of the gearbox logic (egs_maths) as exact arithmetic: the    *)
(* code calculates in f32 and cuts the result to an integer where the value *)
(* is stored, which for values without sign is \div of the exact quotient.  *)
(* A fraction is a pair <<numerator, denominator>>, its denominator > 0.    *)
(***************************************************************************)
EXTENDS Integers

\* `as u16` of a fraction.
Cut(q) == q[1] \div q[2]

Whole(n) == <<n, 1>>

-----------------------------------------------------------------------------
(* interp_linear, search_value and the maps *)

\* The straight line through (x1, y1) and (x2, y2) for x1 < x2; outside of the
\* interval the value at its end.
Line(v, x1, x2, y1, y2) ==
  IF v < x1 THEN Whole(y1)
  ELSE IF v > x2 THEN Whole(y2)
  ELSE <<y1 * (x2 - x1) + (y2 - y1) * (v - x1), x2 - x1>>

\* The ends may come in either order; an empty interval has one value.
InterpLinear(v, x1, x2, y1, y2) ==
  IF x1 = x2 THEN Whole(y1)
  ELSE IF x1 < x2 THEN Line(v, x1, x2, y1, y2) ELSE Line(v, x2, x1, y2, y1)

\* The places of an axis between which a value lies: the first that do, one place
\* twice on a point of the axis and outside of it.  An axis without order may have
\* none; then the ends are taken.
SearchValue(v, xs, n) ==
  LET ascending  == xs[1] < xs[n]
      Ordered(a, b) == IF ascending THEN a <= b ELSE b <= a
      Holds(i)   == Ordered(xs[i], v) /\ Ordered(v, xs[i + 1])
      first      == {i \in 1 .. n - 1 : Holds(i) /\ \A j \in 1 .. i - 1 : ~Holds(j)}
      i          == CHOOSE k \in first : TRUE
  IN  IF n = 1 \/ ~Ordered(xs[1], v) THEN <<1, 1>>
      ELSE IF ~Ordered(v, xs[n]) THEN <<n, n>>
      ELSE IF first = {} THEN <<1, n>>
      ELSE <<IF v = xs[i + 1] THEN i + 1 ELSE i, IF v = xs[i] THEN i ELSE i + 1>>

\* A line between fractions of one denominator.
BetweenLines(v, y1, y2, q1, q2) ==
  IF y1 = y2 THEN q1
  ELSE LET c == InterpLinear(v, y1, y2, q1[1], q2[1]) IN <<c[1], c[2] * q1[2]>>

\* Map2d::interp, the rows of the map being functions of the places of xs.
Interp2d(vx, vy, xs, nx, ys, ny, z) ==
  LET i == SearchValue(vx, xs, nx)
      j == SearchValue(vy, ys, ny)
      Row(k) == InterpLinear(vx, xs[i[1]], xs[i[2]], z[k][i[1]], z[k][i[2]])
  IN  BetweenLines(vy, ys[j[1]], ys[j[2]], Row(j[1]), Row(j[2]))

-----------------------------------------------------------------------------
(* Filters and timers *)

FirstOrderFilter(new, old, factor) == <<new + factor * old, factor + 1>>

\* Integer division of Rust cuts towards zero.
DivToZero(a, b) == IF a >= 0 THEN a \div b ELSE 0 - ((0 - a) \div b)

SaturatingAdd(n, k, max) == IF n + k > max THEN max ELSE n + k
SaturatingSub(n, k)      == IF n < k THEN 0 ELSE n - k

\* filter_factor.saturating_add(1): a factor of 255 divides by itself.
FirstOrderFilterI32(new, old, factor) ==
  DivToZero(new + factor * old, SaturatingAdd(factor, 1, 255))

\* EgsCountDownTimer::interp_value: the remaining way in equal steps.
InterpValue(timer, start, end) ==
  IF timer = 0 THEN Whole(end) ELSE <<start * timer + (end - start), timer>>

Decrement(timer) == SaturatingSub(timer, 1)

-----------------------------------------------------------------------------
(* FilteredMonitoredVal *)

NewValue(eMax) == [val |-> 0, raw |-> 0, errors |-> 0, max |-> eMax]

\* The error counter is left as it is.
AddValidValue(f, new, factor) ==
  [f EXCEPT !.val = FirstOrderFilterI32(new * 100, f.val, factor), !.raw = new]

MarkInvalid(f) ==
  LET n == SaturatingAdd(f.errors, 1, 255)
  IN  [f EXCEPT !.errors = IF n < f.max THEN n ELSE f.max]

HasValue(f) == ~(f.max # 0 /\ f.errors >= f.max)

-----------------------------------------------------------------------------
(* Debouncers of fault codes *)

NewCounter(threshold) == [count |-> 0, threshold |-> threshold]

\* sub = 0 stands for PassOkAction::Reset.
CounterOk(d, sub) == [d EXCEPT !.count = IF sub = 0 THEN 0 ELSE SaturatingSub(@, sub)]
CounterError(d)   == [d EXCEPT !.count = SaturatingAdd(@, 1, 255)]
CounterConfirmed(d) == d.count >= d.threshold

NoTime == 0 - 1
NewTimer(window) == [first |-> NoTime, window |-> window]

TimerOk(d)         == [d EXCEPT !.first = NoTime]
TimerError(d, now) == IF d.first = NoTime THEN [d EXCEPT !.first = now] ELSE d

\* The difference of two u32: an earlier now wraps to a large one.
Elapsed(now, start) == IF start <= now THEN now - start ELSE now - start + 65536 * 65536
TimerConfirmed(d, now) == d.first # NoTime /\ Elapsed(now, d.first) > d.window
=============================================================================
