------------------------------- MODULE Ramps -------------------------------
(***************************************************************************)
(* Ramps of a live parameter: agent/ramp.py.  A ramp is a ladder of levels *)
(* held for a dwell each; it is placed forward from its anchor, backward   *)
(* from off-air, or so that it fills the window.                           *)
(*                                                                         *)
(* A ramp is a record [start, stop, steps, step, hold, dur, first, last];  *)
(* steps, step, hold and dur are 0 when they are not given.  Levels and    *)
(* times are whole numbers of a unit fine enough for every division the    *)
(* instances make to be exact.                                             *)
(***************************************************************************)
EXTENDS Integers, Sequences, FiniteSets

\* RampSpec.
RampType == [start : Int, stop : Int, steps : Nat, step : Nat, hold : Nat, dur : Nat,
             first : BOOLEAN, last : BOOLEAN]

Size(x) == IF x < 0 THEN -x ELSE x
Upper(a, b) == IF a < b THEN b ELSE a
RoundUp(a, b) == -((-a) \div b)
\* Python's round: to the nearest whole number, a tie to the even one.
Nearest(a, b) ==
  LET low == a \div b
      twice == 2 * (a % b)
  IN  IF twice < b \/ (twice = b /\ low % 2 = 0) THEN low ELSE low + 1

\* The increments of a ramp: its steps, its range over the step, or what the
\* dwell makes of the duration.  A window is filled with two levels at least.
Increments(r, span) ==
  CASE r.step > 0 -> Upper(1, RoundUp(Size(r.stop - r.start), r.step))
    [] r.step = 0 /\ r.steps > 0 -> r.steps
    [] OTHER -> Nearest(span, r.hold) - 1

\* Level i of n: the step is kept and the last level is the stop.
Rung(r, n, i) ==
  IF i = n THEN r.stop
  ELSE IF r.step > 0 THEN (IF r.stop > r.start THEN r.start + r.step * i ELSE r.start - r.step * i)
  ELSE r.start + ((r.stop - r.start) * i) \div n
Ladder(r, n) == [i \in 1 .. n + 1 |-> Rung(r, n, i - 1)]

Trim(r, full) ==
  SubSeq(full, IF r.first THEN 1 ELSE 2, IF r.last THEN Len(full) ELSE Len(full) - 1)

\* resolve_ramp: the levels and the dwell, of a ramp by itself and in a window.
Dwell(r, full) == IF r.hold > 0 THEN r.hold ELSE r.dur \div Len(full)
\* A window is filled in so many steps rather than with steps so big.
Spread(r) == IF r.steps > 0 THEN [r EXCEPT !.step = 0] ELSE r
Resolved(r) ==
  LET full == Ladder(r, Increments(r, r.dur))
  IN  [values |-> Trim(r, full), hold |-> Dwell(r, full)]
Filling(r, window) ==
  LET full == Ladder(Spread(r), Upper(1, Increments(Spread(r), window)))
  IN  [values |-> full, hold |-> window \div Len(full)]

\* What resolve_ramp refuses; _guard, a ramp of too many levels.
MaxPoints == 2000
FewLevels(r, span) == Increments(r, span) + 1 <= MaxPoints
WellFormed(r) ==
  /\ r.start # r.stop
  /\ r.step > 0 \/ r.steps > 0 \/ (r.hold > 0 /\ r.dur > 0)
  /\ r.hold > 0 \/ r.dur > 0
  /\ Increments(r, r.dur) >= 1 /\ FewLevels(r, r.dur)
  /\ Len(Resolved(r).values) >= 1
  /\ Resolved(r).hold > 0
FillsWindow(r, window) ==
  /\ r.start # r.stop
  /\ r.steps > 0 \/ r.step > 0 \/ r.hold > 0
  /\ FewLevels(Spread(r), window)
  /\ Filling(r, window).hold > 0

\* place_ramp: the offset of level i.  Backward, the last level is over at the
\* anchor.
Offset(backward, off, resolved, i) ==
  IF backward THEN off - (Len(resolved.values) - i + 1) * resolved.hold
  ELSE off + (i - 1) * resolved.hold

Span(s) == IF s.act = "ramp" THEN Len(Resolved(s.ramp).values) * Resolved(s.ramp).hold ELSE 0
\* Mutant: the last level needs no time.
FromOnAirAtLast(s) ==
  CASE s.anchor = "start" -> s.off + (IF s.act = "ramp" THEN Span(s) - Resolved(s.ramp).hold ELSE 0)
    [] s.anchor = "both"  -> s.off
    [] OTHER              -> 0
\* min_on_air_duration: how far the steps reach in from either edge.
FromOnAir(s) ==
  CASE s.anchor = "start" -> s.off + Span(s)
    [] s.anchor = "both"  -> s.off
    [] OTHER              -> 0
FromOffAir(s) ==
  CASE s.anchor = "stop" -> Span(s) - s.off
    [] s.anchor = "both" -> -s.end
    [] OTHER             -> 0
Furthest(S) == CHOOSE x \in S : \A y \in S : y <= x
MinOnAir(steps) ==
  Furthest({0} \cup {FromOnAir(steps[i]) : i \in DOMAIN steps})
  + Furthest({0} \cup {FromOffAir(steps[i]) : i \in DOMAIN steps})
=============================================================================
