------------------------------- MODULE Calkit -------------------------------
(***************************************************************************)
(* paramkit/calkit.py: the transmit script's side of a calibration.  It    *)
(* reads the artifact the agent wrote at the launch (Calibration!ToPublic) *)
(* and converts levels to gains and back by itself, at the frequency it    *)
(* transmits on, which the agent may not know.                             *)
(***************************************************************************)
EXTENDS Calibration

\* PowerMap._op_delta, _source_bias_at.
OpDelta(a, f) == SumAt(a.hops, f)
SourceBiasAt(a, f) == IF a.bias = <<>> THEN 0 ELSE EvalTable(a.bias, f)

\* PowerMap._ceiling: a limit with a curve of its own is inverted on it, without
\* the bias; any other, and the cap, on the operating plane's curve.
Invert(a, target) == InterpExtrap(target, Flipped(a.curve), a.mode)
CeilingOf(a, l, f) ==
  LET target == l.max - EvalTable(l.delta, f) - IF l.via THEN a.limiting ELSE 0
  IN IF l.curve # <<>> THEN Interp(target, Flipped(l.curve))
     ELSE Invert(a, target - SourceBiasAt(a, f))
\* Mutant: taken where the artifact was folded, not where the script transmits.
CeilingAtCentre(a, f) == Min({a.ceiling} \cup {CeilingOf(a, l, a.freq) : l \in a.limits})
ScriptCeiling(a, f) ==
  Min({a.ceiling} \cup {CeilingOf(a, l, f) : l \in a.limits}
        \cup IF a.cap = Inf THEN {} ELSE {Invert(a, a.cap - a.limiting - SourceBiasAt(a, f))})

\* PowerMap._snap.
SnapGain(a, g, f) ==
  GridGain([min |-> a.min, ceiling |-> ScriptCeiling(a, f), step |-> a.step], g, "nearest")

\* PowerMap._achievable, realize, snap_power, pinned_applied.
ScriptGrid(a, freq) ==
  LET f == EffFreq(a, freq)
  IN NewGrid([curve |-> a.curve, mode |-> a.mode, shift |-> OpDelta(a, f) + SourceBiasAt(a, f),
              min |-> a.min, ceiling |-> ScriptCeiling(a, f), step |-> a.step,
              actives |-> a.actives])
Total(applied) == LET At(i) == applied[i] IN SumOver(DOMAIN applied, At)
PinnedApplied(a, p, freq) ==
  IF a.actives = <<>> THEN 0 ELSE Total(Realize(ScriptGrid(a, freq), p - a.reported).applied)

\* PowerMap.gain_for_power, with the components where the agent put them for
\* this launch or tune, or pinned there while the frequency moves.
GainForPower(a, p, freq) ==
  LET f == EffFreq(a, freq)
  IN IF a.actives # <<>> THEN Realize(ScriptGrid(a, f), p - a.reported).gain
     ELSE SnapGain(a, Invert(a, p - a.reported - OpDelta(a, f) - SourceBiasAt(a, f)), f)
GainForPinned(a, p, freq, pin) ==
  LET f == EffFreq(a, freq)
  IN SnapGain(a, Invert(a, p - a.reported - OpDelta(a, f) - SourceBiasAt(a, f) - pin), f)

\* PowerMap.power_for_gain: what the script says it delivers.
PowerForGain(a, gain, freq, pin) ==
  LET f == EffFreq(a, freq)
  IN InterpExtrap(SnapGain(a, gain, f), a.curve, a.mode)
       + OpDelta(a, f) + SourceBiasAt(a, f) + pin + a.reported
=============================================================================
