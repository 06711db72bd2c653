------------------------------- MODULE Curves -------------------------------
(***************************************************************************)
(* The piecewise linear tables of agent/calibration.py and                 *)
(* paramkit/calkit.py: measured curves from gain to power and their        *)
(* inverses, and the losses of parts by frequency.                         *)
(*                                                                         *)
(* Gains, levels and frequencies are integers in some small unit; a        *)
(* quotient is rounded down, where the code has a float.                   *)
(***************************************************************************)
EXTENDS Integers, Sequences, FiniteSetsExt

NoFreq == -1                \* no frequency is known
Flat == <<<<0, 0>>>>        \* a hop of 0 dB

X(T, i) == T[i][1]
Y(T, i) == T[i][2]
Lowest(a, b) == IF a <= b THEN a ELSE b
Highest(a, b) == IF a >= b THEN a ELSE b
Clamp(x, lo, hi) == Lowest(Highest(x, lo), hi)
Distance(a, b) == IF a <= b THEN b - a ELSE a - b

\* _curve_points, _freq_table: at least a point, and strictly increasing.
Increasing(T) == \A i \in 1..(Len(T) - 1) : X(T, i) < X(T, i + 1)
IsTable(T) == T # <<>> /\ Increasing(T)
IsCurve(T) == IsTable(T) /\ \A i \in 1..(Len(T) - 1) : Y(T, i) < Y(T, i + 1)
Flipped(T) == [i \in DOMAIN T |-> <<Y(T, i), X(T, i)>>]

\* The line through points i and i + 1.
Segment(x, T, i) ==
  Y(T, i) + ((Y(T, i + 1) - Y(T, i)) * (x - X(T, i))) \div (X(T, i + 1) - X(T, i))

\* _interp: clamped at both ends; a single point is a line of slope 1.
Interp(x, T) ==
  LET n == Len(T)
  IN CASE n = 1 -> Y(T, 1) + (x - X(T, 1))
       [] n > 1 /\ x <= X(T, 1) -> Y(T, 1)
       [] n > 1 /\ x >= X(T, n) -> Y(T, n)
       [] OTHER -> Segment(x, T, CHOOSE i \in 1..(n - 1) : X(T, i) < x /\ x <= X(T, i + 1))

\* _interp_extrap, _interp_ex: past an end the end's slope goes on, if allowed.
InterpExtrap(x, T, mode) ==
  LET n == Len(T)
  IN CASE n > 1 /\ x < X(T, 1) /\ mode \in {"down", "both"} -> Segment(x, T, 1)
       [] n > 1 /\ x > X(T, n) /\ mode \in {"up", "both"} -> Segment(x, T, n - 1)
       [] OTHER -> Interp(x, T)

\* _eval_table, delta_at, _table_at: a single point is a constant.
EvalTable(T, f) ==
  IF Len(T) = 1 \/ f = NoFreq THEN Y(T, 1) ELSE Interp(f, T)

SumOver(S, Op(_)) == MapThenSumSet(Op, S)

\* _sum_tables: sampled at the breakpoints of every table that is not constant.
Breakpoints(T) == IF Len(T) > 1 THEN {X(T, i) : i \in DOMAIN T} ELSE {}
AllBreakpoints(ts) == UNION {Breakpoints(ts[i]) : i \in DOMAIN ts}
Ascending(S) == [i \in 1..Cardinality(S) |-> CHOOSE x \in S : Cardinality({y \in S : y < x}) = i - 1]
SumAt(ts, f) == LET At(i) == EvalTable(ts[i], f) IN SumOver(DOMAIN ts, At)
SumTables(ts) ==
  LET fs == Ascending(AllBreakpoints(ts))
  IN IF fs = <<>> THEN <<<<0, SumAt(ts, NoFreq)>>>>
     ELSE [i \in DOMAIN fs |-> <<fs[i], SumAt(ts, fs[i])>>]

\* round(x / step), ties to even.
RoundTo(x, step) ==
  LET q == x \div step
      r == 2 * (x % step)
  IN IF r < step \/ (r = step /\ q % 2 = 0) THEN q ELSE q + 1
Floor(x, step) == (x \div step) * step
Ceil(x, step) == -((-x) \div step) * step
=============================================================================
