--------------------------- MODULE AchievableGrid ---------------------------
(***************************************************************************)
(* paramkit/achievable.py: the levels a chain can produce whose SDR gain   *)
(* moves on a grid and whose programmable components each take away power  *)
(* on a grid of their own, and how a level that was asked for is realized. *)
(*                                                                         *)
(* A grid is built from a chain: the curve from gain to level, how it goes *)
(* on past its ends, what the chain adds to it (shift), the least gain, the*)
(* ceiling, the gain step (0: none) and the components with their applied  *)
(* gain at rest (hi) and at most reduction (lo), step and engagement       *)
(* percentage.  It adds what the components apply at rest and can take away*)
(* together, its lowest and highest gain and the gain below which they     *)
(* engage.                                                                 *)
(***************************************************************************)
EXTENDS Curves, SequencesExt

ReachOf(a) == a.hi - a.lo
Power(C, g) == InterpExtrap(g, C.curve, C.mode) + C.shift
Gain(C, p) == InterpExtrap(p - C.shift, Flipped(C.curve), C.mode)

\* _grid and _snap: clamped, then on the grid, above the ceiling only when the
\* least gain is.
OnGrid(g, lo, hi, step, how) ==
  LET c == Clamp(g, lo, hi)
      q == CASE how = "floor" -> Floor(c, step)
             [] how = "ceil" -> Ceil(c, step)
             [] OTHER -> RoundTo(c, step) * step
      down == IF q > hi THEN Floor(hi, step) ELSE q
  IN IF step = 0 THEN c ELSE IF down < lo THEN Ceil(lo, step) ELSE down
GridGain(C, g, how) == OnGrid(g, C.min, C.ceiling, C.step, how)

\* AchievableGrid.__init__.  The threshold gain is the least on the grid whose
\* level meets the threshold.
NewGrid(C) ==
  LET hiOf(i) == C.actives[i].hi
      reachOf(i) == ReachOf(C.actives[i])
      rest == SumOver(DOMAIN C.actives, hiOf)
      lo == GridGain(C, C.min, "nearest")
      hi == GridGain(C, C.ceiling, "nearest")
      bottom == Power(C, lo) + rest
      top == Power(C, hi) + rest
      engage == Max({0} \cup {C.actives[i].engage : i \in DOMAIN C.actives})
      threshold == IF top > bottom THEN bottom + (engage * (top - bottom)) \div 100 ELSE bottom
      gains == IF C.step = 0 THEN {lo, hi} ELSE {g \in lo..hi : g = hi \/ (g - lo) % C.step = 0}
  IN [chain |-> C, actives |-> C.actives, rest |-> rest, lo |-> lo, hi |-> hi, gains |-> gains,
      reach |-> SumOver(DOMAIN C.actives, reachOf),
      thr |-> IF C.step = 0
              THEN Clamp(GridGain(C, Gain(C, threshold - rest), "nearest"), lo, hi)
              ELSE Min({hi} \cup {g \in gains : Power(C, g) + rest >= threshold})]
Base(G, g) == Power(G.chain, g) + G.rest
GainOf(G, p, how) == GridGain(G.chain, Gain(G.chain, p - G.rest), how)

\* _snap_reduction: each component in turn takes what it can of what is left.
Take(a, left) == Clamp(RoundTo(Lowest(left, ReachOf(a)), a.step) * a.step, 0, ReachOf(a))
SnapReduction(G, x) ==
  LET taken[k \in 0..Len(G.actives)] ==
        IF k = 0 THEN 0
        ELSE taken[k - 1] + Take(G.actives[k], Highest(x - taken[k - 1], 0))
  IN [total |-> taken[Len(G.actives)],
      applied |-> [i \in DOMAIN G.actives |-> G.actives[i].hi - (taken[i] - taken[i - 1])]]

\* _reduction_values: every total the components reach together.
Steps(a) == {i * a.step : i \in 0..(ReachOf(a) \div a.step)}
ReductionValues(G) ==
  FoldLeft(LAMBDA totals, a : {t + s : t \in totals, s \in Steps(a)}, {0}, G.actives)

\* _gain_points: the gains that are tried for an interval of gains.
GainPoints(G, a, b) ==
  LET from == Clamp(a, G.lo, G.hi)
      to == Clamp(b, G.lo, G.hi)
  IN IF G.chain.step = 0 THEN {from, to}
     ELSE {G.lo, G.thr, G.hi} \cup {g \in from..to : (g - from) % G.chain.step = 0}

\* realize: the nearest level; among gains that give it one at or above the
\* threshold, then the least reduction, or below it the most.
Trial(G, g, target) ==
  LET base == Base(G, g)
      snap == IF base >= target THEN SnapReduction(G, base - target)
              ELSE [total |-> 0, applied |-> [i \in DOMAIN G.actives |-> G.actives[i].hi]]
      below == g < G.thr
  IN [gain |-> g, power |-> base - snap.total, applied |-> snap.applied,
      rank |-> <<Distance(base - snap.total, target), IF below THEN 1 ELSE 0,
                 IF below THEN G.reach - snap.total ELSE snap.total>>]
RankLE(a, b) ==
  \/ a[1] < b[1]
  \/ a[1] = b[1] /\ (a[2] < b[2] \/ (a[2] = b[2] /\ a[3] <= b[3]))
Target(G, p) == Clamp(p, Base(G, G.lo) - G.reach, Base(G, G.hi))
\* Mutant: only the gains next to the target are tried.
TriedNear(G, target) == GainPoints(G, GainOf(G, target, "floor"), GainOf(G, target, "ceil"))
Tried(G, target) == GainPoints(G, GainOf(G, target, "floor"), GainOf(G, target + G.reach, "ceil"))
Realize(G, p) ==
  LET target == Target(G, p)
      trials == {Trial(G, g, target) : g \in Tried(G, target)}
  IN CHOOSE s \in trials : \A t \in trials : RankLE(s.rank, t.rank)
SnapPower(G, p) == Realize(G, p).power

\* quantize_up, quantize_down: the next level on each side.  The code looks for
\* it in windows that grow, and each window holds the levels _levels_in finds.
\* Mutant: the gains whose level the components bring down into it are left out.
LevelsAtRest(G, lo, hi) ==
  LET gains == GainPoints(G, GainOf(G, lo, "floor"), GainOf(G, hi, "ceil"))
  IN {l \in {Base(G, g) - r : g \in gains, r \in ReductionValues(G)} : lo <= l /\ l <= hi}
LevelsIn(G, lo, hi) ==
  LET gains == GainPoints(G, GainOf(G, lo, "floor"), GainOf(G, hi + G.reach, "ceil"))
      reductions == ReductionValues(G)
  IN {l \in {Base(G, g) - r : g \in gains, r \in reductions} : lo <= l /\ l <= hi}
Window(G) ==
  LET next == GridGain(G.chain, G.thr + G.chain.step, "nearest")
      steps == {G.actives[i].step : i \in DOMAIN G.actives}
  IN 1 + (3 * Max({1, Base(G, next) - Base(G, G.thr)} \cup steps)) \div 2
FirstFound(founds, Best(_), cur) ==
  LET w == SelectInSeq(founds, LAMBDA found : found # {})
  IN IF w = 0 THEN cur ELSE Best(founds[w])
Windows(w) == [i \in 1..8 |-> w * 4 ^ (i - 1)]
AboveIn(G, cur, w) == {l \in LevelsIn(G, cur, cur + w) : l > cur}
BelowIn(G, cur, w) == {l \in LevelsIn(G, cur - w, cur) : l < cur}
UpFrom(G, cur, ws) == FirstFound([i \in DOMAIN ws |-> AboveIn(G, cur, ws[i])], Min, cur)
DownFrom(G, cur, ws) == FirstFound([i \in DOMAIN ws |-> BelowIn(G, cur, ws[i])], Max, cur)
QuantizeUp(G, p) == UpFrom(G, SnapPower(G, p), Windows(Window(G)))
QuantizeDown(G, p) == DownFrom(G, SnapPower(G, p), Windows(Window(G)))

-----------------------------------------------------------------------------
\* Every level the chain can produce, by definition.
Levels(G, gains) == {Base(G, g) - r : g \in gains, r \in ReductionValues(G)}
Achievable(G) == Levels(G, G.gains)
=============================================================================
