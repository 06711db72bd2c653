---------------------------- MODULE Calibration ----------------------------
(***************************************************************************)
(* agent/calibration.py: how a unit's calibration document is resolved for *)
(* one signal into the power axis, the safety ceiling and the settings a   *)
(* launch uses, and what is published of it to the transmit script.        *)
(*                                                                         *)
(* A document is a record: the planes of the chain in cascade order, the   *)
(* operating plane, the limits, the gain bounds and step, the frequency the*)
(* signal was measured at, the source bias, and the reported and limiting  *)
(* readings.  A plane says whether it is measured or derived, whether it is*)
(* bypassed, what it comes from or re-measures, its hop by frequency, its  *)
(* component (none or one), and this signal's curve if it has one.         *)
(***************************************************************************)
EXTENDS AchievableGrid

NoPlane == "none"
Inf == 1000000              \* no bound

-----------------------------------------------------------------------------
(* Planes *)

\* A stage that is bypassed, or that this signal was not measured at, is a hop
\* of 0 dB onto the stage before it.
Through(frm) ==
  [derived |-> TRUE, frm |-> frm, table |-> Flat, fallback |-> TRUE, active |-> <<>>]
Measured(s, curve, offset) ==
  [derived |-> FALSE, curve |-> curve, mode |-> s.mode, offset |-> offset, of |-> s.of,
   own |-> [reported |-> <<>>, limiting |-> <<>>], bias |-> <<>>]

\* The measured level contains the loss of the bench cable, taken out at the
\* frequency the curve was measured at.
Deembedded(s, f) == s.offset - IF s.deembed = <<>> THEN 0 ELSE EvalTable(s.deembed, f)

\* _build_planes.
BuildPlane(doc, i) ==
  LET s == doc.planes[i]
      before == IF i = 1 THEN NoPlane ELSE doc.planes[i - 1].name
  IN CASE ~s.measured /\ s.bypass -> Through(s.of)
       [] ~s.measured /\ ~s.bypass ->
            [derived |-> TRUE, frm |-> s.of, table |-> s.table, fallback |-> FALSE,
             active |-> s.active]
       [] s.measured /\ (s.bypass \/ s.curve = <<>>) /\ i > 1 -> Through(before)
       [] OTHER -> Measured(s, s.curve, Deembedded(s, doc.measuredAt))
Names(doc) == {doc.planes[i].name : i \in DOMAIN doc.planes}
Index(doc, p) == CHOOSE i \in DOMAIN doc.planes : doc.planes[i].name = p
BuildPlanes(doc) == [p \in Names(doc) |-> BuildPlane(doc, Index(doc, p))]

\* One step towards the measured plane; a limit goes on through a plane that
\* only re-measures another.
Up(planes, p, forLimit) ==
  CASE planes[p].derived -> planes[p].frm
    [] ~planes[p].derived /\ forLimit /\ planes[p].of # NoPlane -> planes[p].of
    [] OTHER -> p
Walk(planes, p, forLimit) ==
  LET walk[n \in 0..Cardinality(DOMAIN planes)] ==
        IF n = 0 THEN p ELSE Up(planes, walk[n - 1], forLimit)
  IN walk

\* _anchor_plane, and _hops: the derived planes on the way, anchor first.
AnchorPlane(planes, p, forLimit) ==
  Walk(planes, p, forLimit)[Cardinality(DOMAIN planes)]
Hops(planes, p) ==
  LET path == {n \in 0..Cardinality(DOMAIN planes) : planes[Walk(planes, p, FALSE)[n]].derived}
      m == Cardinality(path)
  IN [i \in 1..m |-> Walk(planes, p, FALSE)[m - i]]
HopTables(planes, p) == [i \in DOMAIN Hops(planes, p) |-> planes[Hops(planes, p)[i]].table]
Kept(hops, Is(_)) ==
  LET kept == Ascending({i \in DOMAIN hops : Is(hops[i])})
  IN [k \in DOMAIN kept |-> hops[kept[k]]]
PathFreqDependent(planes, p) == AllBreakpoints(HopTables(planes, p)) # {}

\* _upstream_plane, _limit_plane: an input-side limit applies one stage upstream.
LimitPlane(doc, planes, lim) ==
  CASE lim.side = "output" -> lim.plane
    [] lim.side = "input" /\ planes[lim.plane].derived -> planes[lim.plane].frm
    [] OTHER -> doc.planes[Index(doc, lim.plane) - 1].name

\* power_at, curve_for: a reading that was measured by itself has its own curve.
CurveFor(m, reading) ==
  IF reading # "measured" /\ m.own[reading] # <<>> THEN m.own[reading] ELSE m.curve
BiasAt(m, f) == IF m.bias = <<>> THEN 0 ELSE EvalTable(m.bias, f)

\* _power_on and _gain_for_power_on.
PowerOn(planes, p, g, f, reading) ==
  LET m == planes[AnchorPlane(planes, p, FALSE)]
  IN InterpExtrap(g, CurveFor(m, reading), m.mode) + m.offset + BiasAt(m, f)
       + SumAt(HopTables(planes, p), f)
GainForPowerOn(planes, p, power, f, forLimit, reading) ==
  LET m == planes[AnchorPlane(planes, p, forLimit)]
  IN InterpExtrap(power - SumAt(HopTables(planes, p), f) - m.offset - BiasAt(m, f),
                  Flipped(CurveFor(m, reading)), m.mode)

-----------------------------------------------------------------------------
(* Resolution *)

\* What is refused of the planes and the limits.
Acyclic(planes, p, forLimit) == ~planes[AnchorPlane(planes, p, forLimit)].derived
Usable(planes, p, forLimit) ==
  /\ Acyclic(planes, p, forLimit)
  /\ planes[AnchorPlane(planes, p, forLimit)].curve # <<>>
Bypassed(doc, p) == \E i \in DOMAIN doc.planes : doc.planes[i].name = p /\ doc.planes[i].bypass
Applies(doc, lim) == ~Bypassed(doc, lim.plane)
SoundPlanes(doc) ==
  \A i \in DOMAIN doc.planes :
    LET s == doc.planes[i]
    IN /\ s.measured => /\ ~(i = 1 /\ s.bypass)
                        /\ s.curve = <<>> \/ IsCurve(s.curve)
       /\ ~s.measured => /\ s.of \in Names(doc) /\ s.curve = <<>>
                         /\ s.bypass \/ IsTable(s.table)
SoundRoles(planes) ==
  \A p \in DOMAIN planes :
    ~planes[p].derived /\ planes[p].of # NoPlane =>
      /\ planes[p].of \in DOMAIN planes /\ ~planes[planes[p].of].derived
      /\ planes[planes[p].of].of = NoPlane
SoundLimits(doc, planes) ==
  \A lim \in doc.limits :
    Applies(doc, lim) =>
      /\ lim.plane \in DOMAIN planes
      /\ lim.side = "input" /\ ~planes[lim.plane].derived => Index(doc, lim.plane) > 1
      /\ Usable(planes, LimitPlane(doc, planes, lim), TRUE)
Sound(doc) ==
  LET planes == BuildPlanes(doc)
  IN /\ SoundPlanes(doc) /\ SoundRoles(planes)
     /\ doc.operating \in DOMAIN planes /\ Usable(planes, doc.operating, FALSE)
     /\ SoundLimits(doc, planes)
     /\ doc.max # Inf \/ \E lim \in doc.limits : Applies(doc, lim)

\* The source bias is how the level of one gain moves with frequency, 0 where
\* the signal was measured; it belongs to the first measured plane.
BiasOf(doc, zeroAt) ==
  [i \in DOMAIN doc.bias |-> <<X(doc.bias, i), Y(doc.bias, i) - EvalTable(doc.bias, zeroAt)>>]
SourcePlane(doc, planes) ==
  doc.planes[Min({i \in DOMAIN doc.planes : ~planes[doc.planes[i].name].derived})].name

\* How a limit is gauged: through the limiting reading of the operating plane
\* when both come from the same measured plane; at run time when the ceiling it
\* gives moves with the frequency or with a parameter of the script.
Trivial(reading) == reading.kind = "same" /\ reading.k = 0
ViaLimiting(doc, planes, plane) ==
  /\ ~Trivial(doc.limiting)
  /\ AnchorPlane(planes, plane, TRUE) = AnchorPlane(planes, doc.operating, TRUE)
AtRunTime(doc, planes, plane) ==
  \/ PathFreqDependent(planes, plane)
  \/ doc.bias # <<>> /\ AnchorPlane(planes, plane, TRUE) = SourcePlane(doc, planes)
  \/ ViaLimiting(doc, planes, plane) /\ doc.limiting.kind = "law"

\* A ceiling in gain for a level of the limiting quantity.
CeilingFor(doc, planes, plane, max, via, f) ==
  CASE via /\ doc.limiting.kind = "own" -> GainForPowerOn(planes, plane, max, f, TRUE, "limiting")
    [] via /\ doc.limiting.kind # "own" ->
         GainForPowerOn(planes, plane, max - doc.limiting.k, f, TRUE, "measured")
    [] OTHER -> GainForPowerOn(planes, plane, max, f, TRUE, "measured")
LimitsOf(doc, planes) ==
  {[plane |-> LimitPlane(doc, planes, lim), max |-> lim.max,
    via |-> ViaLimiting(doc, planes, LimitPlane(doc, planes, lim))] :
      lim \in {l \in doc.limits : Applies(doc, l)}}

\* _representative_freq: where the limits are tightest, else mid-band.
RepresentativeFreq(doc, planes, limits, ceiling) ==
  LET freqs(ps) == UNION {AllBreakpoints(HopTables(planes, p)) : p \in ps}
      cands == freqs({l.plane : l \in limits} \cup {doc.operating})
      capAt(f) == Min({ceiling} \cup {GainForPowerOn(planes, l.plane, l.max, f, TRUE, "measured")
                                        : l \in limits})
      band == freqs({doc.operating})
  IN IF limits # {} THEN CHOOSE f \in cands : \A h \in cands : capAt(f) <= capAt(h)
     ELSE (Min(band) + Max(band)) \div 2
RepFreq(doc, planes, limits, ceiling, asked) ==
  CASE asked # NoFreq -> asked
    [] asked = NoFreq /\ doc.measuredAt # NoFreq -> doc.measuredAt
    [] asked = NoFreq /\ doc.measuredAt = NoFreq /\ doc.bias # <<>> ->
         (X(doc.bias, 1) + X(doc.bias, Len(doc.bias))) \div 2
    [] asked = NoFreq /\ doc.measuredAt = NoFreq /\ doc.bias = <<>>
       /\ \E p \in {l.plane : l \in limits} \cup {doc.operating} : PathFreqDependent(planes, p) ->
         RepresentativeFreq(doc, planes, limits, ceiling)
    [] OTHER -> NoFreq

\* resolve, for a document that is sound: the planes with the own readings and
\* the bias in place, the fixed ceiling, and the limits gauged at run time.
Resolve(doc, asked) ==
  LET bare == BuildPlanes(doc)
      source == AnchorPlane(bare, doc.operating, FALSE)
      read == [bare EXCEPT ![source].own = [reported |-> doc.reported.curve,
                                            limiting |-> doc.limiting.curve]]
      fixed == {l \in LimitsOf(doc, read) : ~AtRunTime(doc, read, l.plane)}
      moving == LimitsOf(doc, read) \ fixed
      ceiling == Min({doc.max} \cup {CeilingFor(doc, read, l.plane, l.max, l.via, NoFreq) : l \in fixed})
      rep == RepFreq(doc, read, moving, ceiling, asked)
      zeroAt == IF doc.measuredAt # NoFreq THEN doc.measuredAt ELSE rep
      bias == BiasOf(doc, zeroAt)
  IN [doc |-> doc, ceiling |-> ceiling, limits |-> moving, freq |-> rep, bias |-> bias,
      planes |-> IF bias = <<>> THEN read ELSE [read EXCEPT ![SourcePlane(doc, read)].bias = bias]]

\* A moving limit that does not share a base with the operating plane is refused.
SharedBase(r) ==
  \A l \in r.limits :
    AnchorPlane(r.planes, l.plane, TRUE) \in
      {AnchorPlane(r.planes, r.doc.operating, forLimit) : forLimit \in BOOLEAN}

\* _max_gain_at: the tightest of all that caps the gain at a frequency.
MaxGainAt(r, f) ==
  LET capped == IF r.doc.limiting.cap = Inf THEN {}
                ELSE {CeilingFor(r.doc, r.planes, r.doc.operating, r.doc.limiting.cap, TRUE, f)}
  IN Min({r.ceiling} \cup capped
           \cup {CeilingFor(r.doc, r.planes, l.plane, l.max, l.via, f) : l \in r.limits})

\* _achievable, realize: the grid works in the reported quantity if that has a
\* curve of its own, else in the measured one.
ReportedDelta(r) == IF r.doc.reported.kind = "own" THEN 0 ELSE r.doc.reported.k
EffFreq(r, f) == IF f = NoFreq THEN r.freq ELSE f
ActiveHops(r) == Kept(Hops(r.planes, r.doc.operating), LAMBDA p : r.planes[p].active # <<>>)
GridAt(r, freq) ==
  LET f == EffFreq(r, freq)
      m == r.planes[AnchorPlane(r.planes, r.doc.operating, FALSE)]
      hops == ActiveHops(r)
  IN NewGrid([curve |-> CurveFor(m, "reported"), mode |-> m.mode,
              shift |-> m.offset + BiasAt(m, f) + SumAt(HopTables(r.planes, r.doc.operating), f),
              min |-> r.doc.min, ceiling |-> MaxGainAt(r, f), step |-> r.doc.step,
              actives |-> [i \in DOMAIN hops |-> r.planes[hops[i]].active[1]]])
\* What resolve gives, or nothing where it refuses: also when the ceiling is
\* below the least gain.
Accepts(doc, r) ==
  /\ Sound(doc) /\ SharedBase(r)
  /\ OnGrid(MaxGainAt(r, r.freq), doc.min, MaxGainAt(r, r.freq), doc.step, "nearest") >= doc.min
IfAccepted(doc, r) == IF Accepts(doc, r) THEN <<r>> ELSE <<>>
Resolved(doc, asked) == IfAccepted(doc, Resolve(doc, asked))

-----------------------------------------------------------------------------
(* The artifact *)

\* A moving limit takes with it the summed loss from the anchor and, unless it
\* shares the operating plane's curve, the curve it is gauged on.
PublicLimit(r, l) ==
  LET gauge == r.planes[AnchorPlane(r.planes, l.plane, TRUE)]
      curve == CASE l.via /\ r.doc.limiting.kind = "own" -> gauge.own.limiting
                 [] l.via /\ r.doc.limiting.kind # "own" -> <<>>
                 [] AnchorPlane(r.planes, l.plane, TRUE)
                      = AnchorPlane(r.planes, r.doc.operating, FALSE) -> <<>>
                 [] OTHER -> gauge.curve
  IN [max |-> l.max, delta |-> SumTables(HopTables(r.planes, l.plane)),
      via |-> l.via /\ r.doc.limiting.kind # "own",
      curve |-> [i \in DOMAIN curve |-> <<X(curve, i), Y(curve, i) + gauge.offset>>]]
HasReadings(doc) == ~Trivial(doc.reported) \/ ~Trivial(doc.limiting) \/ doc.limiting.cap # Inf
\* Without hops, moving limits, bias and readings only the flat table is given,
\* with the snapped ceiling.
ToPublic(r) ==
  LET m == r.planes[AnchorPlane(r.planes, r.doc.operating, FALSE)]
      hops == Hops(r.planes, r.doc.operating)
      real == Kept(hops, LAMBDA p : ~r.planes[p].fallback)
      flat == real = <<>> /\ r.limits = {} /\ r.bias = <<>> /\ ~HasReadings(r.doc)
      top == MaxGainAt(r, r.freq)
  IN [curve |-> [i \in DOMAIN m.curve |-> <<X(m.curve, i), Y(m.curve, i) + m.offset>>],
      mode |-> m.mode, min |-> r.doc.min, step |-> r.doc.step,
      ceiling |-> IF flat THEN OnGrid(top, r.doc.min, top, r.doc.step, "nearest") ELSE r.ceiling,
      hops |-> [i \in DOMAIN real |-> r.planes[real[i]].table],
      actives |-> [i \in DOMAIN ActiveHops(r) |-> r.planes[ActiveHops(r)[i]].active[1]],
      limits |-> {PublicLimit(r, l) : l \in r.limits}, bias |-> r.bias, freq |-> r.freq,
      reported |-> r.doc.reported.k, limiting |-> r.doc.limiting.k, cap |-> r.doc.limiting.cap]
=============================================================================
