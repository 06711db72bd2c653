--------------------------- MODULE CalibratedChain ---------------------------
(***************************************************************************)
(* The two ends of a calibrated chain.  For a launch or a tune the agent   *)
(* works out what level each end contributes and positions the programmable*)
(* components; the script, from the artifact it was launched with, works   *)
(* out the SDR gain of the same level by itself.  What is radiated is the  *)
(* sum of both, and only right while both ends agree on level, frequency   *)
(* and split.                                                              *)
(*                                                                         *)
(* The script reads its artifact once; how it uses paramkit.calkit, and the*)
(* radio and the components themselves, are outside the repository.        *)
(***************************************************************************)
EXTENDS Calkit

CONSTANTS
  Documents,                \* the calibrations a unit may have
  Powers, Freqs,            \* what is asked for
  MaxCalls                  \* bound: launches and tunes
ASSUME AskedAssumption == Powers \subseteq Int /\ Freqs \subseteq Nat

VARIABLES
  resolved,                 \* what resolving this unit's document gives, by frequency
  held,                     \* _gate_state: the level and frequency asked of the task
  applied,                  \* what each component applies
  certain,                  \* _active_last: the components are known to be there
  request,                  \* the launch or tune whose components have been positioned
  script,                   \* the running script
  calls
vars == <<resolved, held, applied, certain, request, script, calls>>

Unset == -1000              \* a value a tune does not touch
NoRequest == [kind |-> "none", power |-> Unset, freq |-> Unset]
Off == [on |-> FALSE]
Over(old, new) == IF new = Unset THEN old ELSE new
Overlaid(h, req) == [power |-> Over(h.power, req.power), freq |-> Over(h.freq, req.freq)]
Unit == resolved[NoFreq][1]
doc == Unit.doc
Planes == Unit.planes
Resting(r) == [i \in DOMAIN ActiveHops(r) |-> r.planes[ActiveHops(r)[i]].active[1].hi]

\* _resolve_active, active_settings: where the components go for a request, and
\* nowhere when the document is refused for that frequency.  Mutant: worked out
\* at the frequency of the document instead of the carrier.
SettingsOf(r, f, p) == Realize(GridAt(r, f), p - ReportedDelta(r)).applied
SettingsAtCentre(h) ==
  IF applied = <<>> \/ resolved[h.freq] = <<>> THEN applied
  ELSE SettingsOf(Unit, NoFreq, h.power)
Settings(h) ==
  IF applied = <<>> \/ resolved[h.freq] = <<>> THEN applied
  ELSE SettingsOf(resolved[h.freq][1], h.freq, h.power)

Init ==
  /\ \E d \in Documents : resolved = [f \in Freqs \cup {NoFreq} |-> Resolved(d, f)]
  /\ resolved[NoFreq] # <<>>
  /\ applied = Resting(Unit) /\ certain = FALSE
  /\ held = [power |-> Unset, freq |-> Unset]
  /\ request = NoRequest /\ script = Off /\ calls = 0

\* _gate_precommand: the request is remembered, then the components are set; a
\* set that fails leaves them where they are, unless it is refused for it.
Position(req) ==
  /\ request = NoRequest /\ calls < MaxCalls
  /\ req.kind = "tune" => script.on
  /\ req.kind = "launch" => ~script.on
  /\ calls' = calls + 1
  /\ held' = Overlaid(held, req)
  /\ request' = req
  /\ \/ applied' = Settings(Overlaid(held, req)) /\ certain' = TRUE
     \/ applied # <<>> /\ applied' = applied /\ certain' = FALSE
  /\ UNCHANGED <<resolved, script>>

\* The script at its launch and at a tune: the gain for the level at the carrier
\* it was given, and from then on the components count as pinned.
Running(file, h) ==
  [on |-> TRUE, file |-> file, power |-> h.power, carrier |-> h.freq, live |-> h.freq,
   gain |-> GainForPower(file, h.power, h.freq), pin |-> PinnedApplied(file, h.power, h.freq)]
\* _inject_calibration: the document is resolved again for the artifact.
Launch ==
  /\ request.kind = "launch" /\ resolved[request.freq] # <<>>
  /\ script' = Running(ToPublic(resolved[request.freq][1]), request)
  /\ request' = NoRequest
  /\ UNCHANGED <<resolved, held, applied, certain, calls>>
Tune ==
  /\ request.kind = "tune" /\ script.on
  /\ script' = Running(script.file,
                 Overlaid([power |-> script.power, freq |-> script.carrier], request))
  /\ request' = NoRequest
  /\ UNCHANGED <<resolved, held, applied, certain, calls>>

\* The start is aborted, or the script rejects the values; nothing is taken back.
Refuse ==
  /\ request # NoRequest /\ request' = NoRequest
  /\ UNCHANGED <<resolved, held, applied, certain, script, calls>>

\* The script moves its frequency without the agent: the gain follows, with the
\* components where they were pinned.
Drift(f) ==
  /\ script.on /\ f # script.live
  /\ script' = [script EXCEPT !.live = f,
                              !.gain = GainForPinned(script.file, script.power, f, script.pin)]
  /\ UNCHANGED <<resolved, held, applied, certain, request, calls>>

Stop ==
  /\ script.on /\ script' = Off
  /\ UNCHANGED <<resolved, held, applied, certain, request, calls>>

Launches == [kind : {"launch"}, power : Powers, freq : Freqs]
Tunes == [kind : {"tune"}, power : Powers \cup {Unset}, freq : Freqs \cup {Unset}]
Next ==
  \/ \E req \in Launches \cup Tunes : Position(req)
  \/ Launch \/ Tune \/ Refuse \/ Stop
  \/ \E f \in Freqs : Drift(f)
Spec == Init /\ [][Next]_vars

-----------------------------------------------------------------------------
(* What is radiated *)

\* The level at a plane: the chain at rest, and what the components on the way
\* to it take away.
TrueLevel(p, reading) ==
  LET comps == ActiveHops(Unit)
      before(i) == \E k \in DOMAIN Hops(Planes, p) : Hops(Planes, p)[k] = comps[i]
      At(i) == applied[i]
  IN PowerOn(Planes, p, script.gain, script.live, reading)
       + SumOver({i \in DOMAIN comps : before(i)}, At)
Gauged(p) ==
  LET via == ViaLimiting(doc, Planes, p)
  IN CASE via /\ doc.limiting.kind = "own" -> TrueLevel(p, "limiting")
       [] via /\ doc.limiting.kind # "own" -> TrueLevel(p, "measured") + doc.limiting.k
       [] OTHER -> TrueLevel(p, "measured")
\* The least gain the limits can demand: the least of the SDR, and the lowest
\* one that was measured, below which a limit is not told apart.
LeastGain ==
  Highest(Ceil(doc.min, Highest(doc.step, 1)),
          Max({X(Planes[p].curve, 1) : p \in {q \in DOMAIN Planes : ~Planes[q].derived /\ Planes[q].curve # <<>>}}))
InStep ==
  /\ script.on /\ request = NoRequest /\ certain
  /\ held = [power |-> script.power, freq |-> script.carrier]

\* No limit of the chain is exceeded, whatever the components apply and wherever
\* the script has moved: the ceilings of agent and script do not rest on them.
LimitsHeld ==
  script.on /\ script.gain > LeastGain =>
    /\ \A lim \in {l \in doc.limits : Applies(doc, l)} :
         Gauged(LimitPlane(doc, Planes, lim)) <= lim.max
    /\ doc.limiting.cap # Inf =>
         TrueLevel(doc.operating, IF doc.limiting.kind = "own" THEN "limiting" ELSE "measured")
           + (IF doc.limiting.kind = "own" THEN 0 ELSE doc.limiting.k) <= doc.limiting.cap

\* Once a request has reached both ends, what the script says it delivers is
\* what is radiated, also after it has moved its frequency by itself.
ScriptAgrees ==
  InStep => PowerForGain(script.file, script.gain, script.live, script.pin)
              = TrueLevel(doc.operating, "measured") + ReportedDelta(Unit)

\* And it is a nearest level to the one asked for, with the SDR not lowered
\* below its threshold while the components could do it.
NearestLevel ==
  InStep /\ script.live = script.carrier /\ resolved[script.carrier] # <<>> =>
    LET r == resolved[script.carrier][1]
        G == GridAt(r, script.carrier)
        target == Target(G, script.power - ReportedDelta(r))
        off == Distance(TrueLevel(doc.operating, "measured"), target)
        above == Levels(G, {g \in G.gains : g >= G.thr})
    IN /\ \A l \in Achievable(G) : off <= Distance(l, target)
       /\ script.gain < G.thr => \A l \in above : Distance(l, target) > off

\* From there, a step up or down goes to the next level there is: none is left
\* out and none invented, at the ends there is no step.
NextTo(p, S, up) == LET past == {l \in S : IF up THEN l > p ELSE l < p}
                    IN IF past = {} THEN p ELSE IF up THEN Min(past) ELSE Max(past)
StepsBetween(G, p, cur, all) ==
  QuantizeUp(G, p) = NextTo(cur, all, TRUE) /\ QuantizeDown(G, p) = NextTo(cur, all, FALSE)
StepsFrom(G, p) == StepsBetween(G, p, SnapPower(G, p), Achievable(G))
StepsToNeighbour ==
  InStep /\ resolved[script.carrier] # <<>> =>
    LET r == resolved[script.carrier][1]
    IN  StepsFrom(GridAt(r, script.carrier), script.power - ReportedDelta(r))

-----------------------------------------------------------------------------
(* Which calibrations keep LimitsHeld                                      *)

\* The numbers are whole, tables are what the loader accepts, and a component
\* only takes power away.
Points == Seq(Int \X Int)
IsComponent(a) ==
  /\ a.hi \in Int /\ a.lo \in Int /\ a.engage \in Int /\ a.step \in Nat \ {0}
  /\ a.lo <= a.hi /\ a.hi <= 0
WholePlane(s) ==
  /\ s.measured \in BOOLEAN /\ s.bypass \in BOOLEAN /\ s.offset \in Int
  /\ s.curve \in Points /\ s.table \in Points /\ s.deembed \in Points
  /\ s.deembed = <<>> \/ IsTable(s.deembed)
  /\ s.active = <<>> \/ (s.active = <<s.active[1]>> /\ IsComponent(s.active[1]))
Whole(d) ==
  /\ Len(d.planes) \in Nat /\ DOMAIN d.planes = 1..Len(d.planes)
  /\ \A i \in DOMAIN d.planes : WholePlane(d.planes[i])
  /\ IsFiniteSet(d.limits) /\ \A lim \in d.limits : lim.side \in {"input", "output"} /\ lim.max \in Int
  /\ {d.min, d.max, d.measuredAt, d.reported.k, d.limiting.k, d.limiting.cap} \subseteq Int
  /\ d.step \in Nat
  /\ d.bias \in Points /\ (d.bias = <<>> \/ IsTable(d.bias))
  /\ d.reported.curve \in Points /\ (d.reported.curve = <<>> \/ IsCurve(d.reported.curve))

\* The script can gauge the limits: they and the operating plane come from the
\* same measured plane whichever way it is looked up; a source bias is zeroed
\* where the signal was measured and belongs to the operating plane's curve;
\* the limiting reading has no curve of its own, and its cap holds ahead of hops
\* that only lose power; and at the carriers nothing is lost to the rounding of
\* summed losses, which the code does not round.
LimitPlanes(d, planes) == {LimitPlane(d, planes, lim) : lim \in {l \in d.limits : Applies(d, l)}}
OneBase(d, planes) ==
  \A p \in {d.operating} \cup LimitPlanes(d, planes) :
    AnchorPlane(planes, p, TRUE) = AnchorPlane(planes, p, FALSE)
BiasAtBase(d, planes) ==
  d.bias # <<>> =>
    d.measuredAt # NoFreq /\ SourcePlane(d, planes) = AnchorPlane(planes, d.operating, FALSE)
CapAhead(d, planes) ==
  /\ d.limiting.kind # "own"
  /\ d.limiting.cap # Inf => \A f \in Freqs : SumAt(HopTables(planes, d.operating), f) <= 0
ExactLoss(d, planes) ==
  \A p \in LimitPlanes(d, planes), f \in Freqs :
    EvalTable(SumTables(HopTables(planes, p)), f) = SumAt(HopTables(planes, p), f)
Gaugeable(d) ==
  LET planes == BuildPlanes(d)
  IN Whole(d) /\ (Sound(d) => /\ OneBase(d, planes) /\ BiasAtBase(d, planes)
                             /\ CapAhead(d, planes) /\ ExactLoss(d, planes))
\* The script has what the agent has: the reported reading has no curve of its
\* own, a cap is demanded ahead of hops that add up to 0 dB, and the document is
\* not refused for some carriers only, at which the components would stay put
\* while the script takes them to have moved.
Agreeable(d) ==
  /\ Gaugeable(d)
  /\ Sound(d) =>
       /\ d.reported.kind # "own" /\ d.reported.curve = <<>>
       /\ d.limiting.cap # Inf =>
            \A f \in Freqs : SumAt(HopTables(BuildPlanes(d), d.operating), f) = 0
  /\ Resolved(d, NoFreq) # <<>> => \A f \in Freqs : Resolved(d, f) # <<>>
=============================================================================
