------------------------------ MODULE Relaunch ------------------------------
(***************************************************************************)
(* One run of one task followed down to what its script is set to: the     *)
(* resolution of a sequence's steps into fires, the fires themselves, and  *)
(* how a restart after a fault rebuilds the launch from them.  From        *)
(* agent/sequence_runner.py and agent/cmdargs.py.  Module SequenceRunner   *)
(* has the runs beside each other, their Holds, aborts and unattended      *)
(* restarts; here the run is armed, runs, faults and is restarted.         *)
(*                                                                         *)
(* A script is set by its launch arguments and by tunes.  Its own timeline *)
(* begins at an origin, which a reset trigger moves to the present.        *)
(***************************************************************************)
EXTENDS Ramps, TLC, FiniteSetsExt, SequencesExt

CONSTANTS
  Sequence,      \* the sequences that may be armed
  Window,        \* the on-air windows they are armed with
  Base,          \* the arguments of the task's configured command
  Gate,          \* the parameter that is the RF gate
  Level,         \* the parameters with a flag of their own, whatever the schema
  Resets,        \* the triggers that reset the script's timeline
  HandTune,      \* what the operator tunes by hand
  Recovery,      \* the modes of the restarts, one after the other
  Readable,      \* whether the script's schema can be read
  Bind,          \* how long a script takes at most to bind its control socket
  Wait,          \* how long the pre-stop of a restart takes at most
  Tolerance,     \* how much older a reported origin may be than the last reset
  Outage,        \* bound: how long the run is left faulted
  Unit,          \* the pace of time: faults happen at its multiples and with the fires
  Horizon,       \* bound: the last instant
  MaxFaults, MaxHands    \* bounds

On == 1
Off == 0

\* The members of S in a strict order of them.
Sorted(S, Earlier(_, _)) ==
  [n \in 1 .. Cardinality(S) |-> CHOOSE x \in S : Cardinality({y \in S : Earlier(y, x)}) = n - 1]

ASSUME ModeAssumption == \A m \in Recovery : m \in Seq({"resync", "replay"})
ASSUME RelaunchAssumption ==
  /\ \A w \in Window : w.on \in Nat /\ w.off \in Nat
  /\ Readable \subseteq BOOLEAN /\ Readable # {}
  /\ {Bind, Wait, Tolerance, Outage, Horizon, MaxFaults, MaxHands} \subseteq Nat
  /\ Unit \in Nat \ {0}
\* What SequenceStep and RampSpec admit as numbers; a ramp whose step or dwell is
\* negative is left out, resolve_ramp refuses it.
ASSUME SequenceAssumption ==
  \A seq \in Sequence :
    /\ Len(seq) \in Nat /\ DOMAIN seq = 1 .. Len(seq)
    /\ \A i \in DOMAIN seq : /\ {seq[i].off, seq[i].end} \subseteq Int
                             /\ seq[i].ramp \in RampType

VARIABLES
  now,
  st,          \* SequenceRun.state
  steps,       \* the steps the run was armed with
  end,         \* on_air_end
  fire,        \* run.steps: act, set, how it is placed, and when it is due
  mark,        \* fired_actual: open, fired, or a "skipped" sentinel
  when,        \* the instant of fired_actual
  batch,       \* the due fires _tick has still to fire
  faultAt,     \* fault_at, None unless the run is faulted
  restart,     \* the restart in hand: since, mode
  taken,       \* the modes of the restarts so far
  up, bound,   \* the process runs; it has bound its control socket
  started,     \* started_at
  live,        \* what the script is set to
  origin,      \* where its timeline begins
  record, recordAt,   \* _live_applied and _live_applied_at
  \* History, for the properties:
  shift,       \* by how much replays have delayed the schedule
  hands,       \* the tunes by hand, at the schedule's instant
  missed,      \* the fires a resync has left behind
  adrift,      \* its timeline was lost: a launch or a reset was late, a relaunch failed
               \* before it could report its origin, or there was no schema
  faults

process == <<up, bound, started, live, origin, record, recordAt>>
plan == <<steps, end, fire>>
history == <<shift, hands, missed, adrift>>
vars == <<now, st, plan, mark, when, batch, faultAt, restart, taken, process, history, faults>>

None == -100
Idle == [since |-> None, mode |-> "none"]

Init ==
  /\ now = 0 /\ st = "none" /\ steps = <<>> /\ end = None
  /\ fire = <<>> /\ mark = <<>> /\ when = <<>> /\ batch = <<>>
  /\ faultAt = None /\ restart = Idle /\ taken = <<>>
  /\ up = FALSE /\ bound = FALSE /\ started = None
  /\ live = <<>> /\ origin = None /\ record = <<>> /\ recordAt = <<>>
  /\ shift = 0 /\ hands = <<>> /\ missed = {} /\ adrift = FALSE /\ faults = 0

-----------------------------------------------------------------------------
(* The steps of a sequence: [act, anchor, off, end, of, edge, set, replace, *)
(* param, ramp].                                                           *)

\* _validate_steps.
\* The steps that hang off a fixed point over at most k others.
Rooted(seq) ==
  LET rooted[k \in 0 .. Len(seq)] ==
        {i \in DOMAIN seq : seq[i].anchor # "step" \/ (k > 0 /\ seq[i].of \in rooted[k - 1])}
  IN  rooted[Len(seq)]
Valid(seq) ==
  /\ \E i \in DOMAIN seq : seq[i].anchor = "start"
  /\ \E i \in DOMAIN seq : seq[i].anchor = "stop"
  /\ \A i \in DOMAIN seq :
       /\ seq[i].anchor = "both" => seq[i].act = "ramp"
       /\ seq[i].act = "ramp" =>
            IF seq[i].anchor = "both" THEN seq[i].ramp.steps > 0 \/ seq[i].ramp.step > 0
                                             \/ seq[i].ramp.hold > 0
            ELSE WellFormed(seq[i].ramp)
  /\ Rooted(seq) = DOMAIN seq

\* _resolve_ramp: the ramp's levels, none if it does not resolve.
RampOf(s, w) ==
  IF s.anchor = "both"
  THEN IF FillsWindow(s.ramp, w.off - w.on - s.off + s.end)
       THEN Filling(s.ramp, w.off - w.on - s.off + s.end) ELSE [values |-> <<>>, hold |-> 0]
  ELSE Resolved(s.ramp)
\* The points of a step: what it sets and its distance from the step's base.
Points(s, w) ==
  IF s.act # "ramp" THEN <<[off |-> s.off, set |-> s.set, dwell |-> 0]>>
  ELSE [i \in DOMAIN RampOf(s, w).values |->
         [off   |-> Offset(s.anchor = "stop", s.off, RampOf(s, w), i),
          set   |-> s.param :> RampOf(s, w).values[i],
          dwell |-> RampOf(s, w).hold]]

\* _record_edges: a ramp ends when its last level has been held.
Edge(s, points) ==
  IF s = "start" \/ Len(points) < 2 THEN points[1].off
  ELSE 2 * points[Len(points)].off - points[Len(points) - 1].off

\* _resolve_steps: the instant of every step's base, the steps that are
\* anchored to another step after it, and how many are between it and an edge.
Bases(seq, w) ==
  LET base[i \in DOMAIN seq] ==
        IF seq[i].anchor = "step"
        THEN base[seq[i].of] + Edge(seq[i].edge, Points(seq[seq[i].of], w))
        ELSE IF seq[i].anchor = "stop" THEN w.off ELSE w.on
  IN  base
Depth(seq) ==
  LET depth[i \in DOMAIN seq] == IF seq[i].anchor = "step" THEN depth[seq[i].of] + 1 ELSE 0
  IN  depth

\* Fires that are due at once keep the order they were resolved in.
Fires(seq, w, base, depth) ==
  LET fires == UNION {{[act    |-> IF seq[i].act = "ramp" THEN "tune" ELSE seq[i].act,
                        set    |-> Points(seq[i], w)[k].set,
                        replace |-> seq[i].replace,
                        dwell  |-> Points(seq[i], w)[k].dwell,
                        step   |-> i, point |-> k,
                        at     |-> base[i] + Points(seq[i], w)[k].off,
                        nominal |-> base[i] + Points(seq[i], w)[k].off]
                        : k \in DOMAIN Points(seq[i], w)} : i \in DOMAIN seq}
      Earlier(f, g) ==
        \/ f.at < g.at
        \/ f.at = g.at /\ depth[f.step] < depth[g.step]
        \/ f.at = g.at /\ depth[f.step] = depth[g.step]
           /\ (f.step < g.step \/ (f.step = g.step /\ f.point < g.point))
  IN  Sorted(fires, Earlier)

\* arm.
Lead(seq, w) == w.on + Min({0} \cup {seq[i].off : i \in {j \in DOMAIN seq : seq[j].anchor = "start"}})
Arm(seq, w) ==
  /\ st = "none" /\ now = 0
  /\ Valid(seq)
  /\ w.on < w.off /\ MinOnAir(seq) <= w.off - w.on
  /\ now < Lead(seq, w)
  /\ fire' = Fires(seq, w, Bases(seq, w), Depth(seq))
  /\ steps' = seq /\ end' = w.off
  /\ mark' = [i \in DOMAIN fire' |-> "open"]
  /\ when' = [i \in DOMAIN fire' |-> None]
  /\ st' = "ARMED"
  /\ UNCHANGED <<now, batch, faultAt, restart, taken, process, history, faults>>
-----------------------------------------------------------------------------
(* The fires of the run.                                                    *)

\* The order of run.steps, which a restart keeps when it sorts them again.
Before(i, j) == fire[i].at < fire[j].at \/ (fire[i].at = fire[j].at /\ i < j)

Active == st \in {"ARMED", "RUNNING"}
Due == {i \in DOMAIN fire : mark[i] = "open" /\ fire[i].at <= now}
\* tune_ready: the process is young and has not bound its control socket.
Binding == up /\ ~bound
Deferred(i) == fire[i].act = "tune" /\ Binding

\* _co_time_rank: the level is set before the gate opens.
Rank(set) ==
  IF Gate \in DOMAIN set /\ set[Gate] = On THEN 2
  ELSE IF "power" \in DOMAIN set THEN 0 ELSE 1

\* _collapse_piled_tunes: of the tunes that pile up while a script comes up
\* only the latest of each parameter set is fired, all of them at once.
DueTunes == {i \in Due : fire[i].act = "tune"}
Piled == Cardinality(DueTunes) > 1 /\ ~Binding
Superseded ==
  {i \in DueTunes : Piled /\ \E j \in DueTunes : Before(i, j) /\ DOMAIN fire[i].set = DOMAIN fire[j].set}
FiredAt(i) ==
  IF Piled /\ fire[i].act = "tune" THEN Max({fire[j].at : j \in DueTunes}) ELSE fire[i].at
FiredFirst(i, j) ==
  LET stop(k) == IF fire[k].act = "stop" THEN 0 ELSE 1
      key(k) == <<FiredAt(k), stop(k), Rank(fire[k].set)>>
  IN  \E n \in 1 .. 4 :
        /\ \A m \in 1 .. (n - 1) : key(i)[m] = key(j)[m]
        /\ IF n = 4 THEN Before(i, j) ELSE key(i)[n] < key(j)[n]

Tick ==
  /\ Active /\ batch = <<>>
  /\ \E i \in Due : ~Deferred(i)
  /\ batch' = Sorted(Due \ Superseded, FiredFirst)
  /\ mark' = [i \in DOMAIN mark |-> IF i \in Superseded THEN "superseded" ELSE mark[i]]
  /\ UNCHANGED <<now, st, plan, when, faultAt, restart, taken, process, history, faults>>

\* The run fires the head of the batch, and completes with its last fire.
Stamp(i) ==
  /\ i = Head(batch) /\ batch' = Tail(batch)
  /\ mark[i] = "open" /\ Active
  /\ when' = [when EXCEPT ![i] = now]
Progress == st' = IF faultAt' = None /\ \A i \in DOMAIN mark' : mark'[i] # "open"
                  THEN "COMPLETED" ELSE "RUNNING"
Fired(i) == [mark EXCEPT ![i] = "fired"]

\* The fire was skipped meanwhile, or is a tune the script is not ready for.
Pass ==
  /\ batch # <<>> /\ batch' = Tail(batch)
  /\ mark[Head(batch)] # "open" \/ ~Active \/ Deferred(Head(batch))
  /\ UNCHANGED <<now, st, plan, mark, when, faultAt, restart, taken, process, history, faults>>

\* _tune_target_stale: the run has stopped the task since it launched it.
LastFired(act) == Max({None} \cup {when[i] : i \in {j \in DOMAIN fire : mark[j] = "fired" /\ fire[j].act = act}})
Stale == LastFired("start") # None /\ LastFired("stop") > LastFired("start")

\* What a script makes of its arguments and of a tune.
Clock == {"elapsed", "origin"}
Settings(set) == [d \in DOMAIN set \ (Resets \cup Clock) |-> set[d]]
ElapsedOf(args) == IF "elapsed" \in DOMAIN args THEN args["elapsed"] ELSE 0
IsReset(set) == \E d \in Resets \cap DOMAIN set : set[d] = On
Spawned(args) ==
  /\ up' = TRUE /\ bound' = FALSE /\ started' = now
  /\ live' = Settings(args)
  /\ origin' = IF "origin" \in DOMAIN args THEN args["origin"] ELSE now - ElapsedOf(args)
  /\ record' = <<>> /\ recordAt' = <<>>
Tuned(set) ==
  /\ live' = Settings(set) @@ live
  /\ origin' = IF IsReset(set) THEN now ELSE origin
  /\ record' = set @@ record
  /\ recordAt' = [d \in DOMAIN set |-> now] @@ recordAt
  /\ UNCHANGED <<up, bound, started>>

OffTime(i) == fire[i].step # 0 /\ now # fire[i].nominal + shift
DropTune(i) ==
  /\ fire[i].act = "tune" /\ Stale
  /\ i = Head(batch) /\ batch' = Tail(batch) /\ mark[i] = "open" /\ Active
  /\ mark' = [mark EXCEPT ![i] = "stale"]
  /\ UNCHANGED faultAt /\ Progress
  /\ UNCHANGED <<now, plan, when, restart, taken, process, history, faults>>
FireTune(i) ==
  /\ fire[i].act = "tune" /\ ~Stale /\ ~Deferred(i)
  /\ Stamp(i) /\ mark' = Fired(i)
  /\ IF up THEN Tuned(fire[i].set) ELSE UNCHANGED process
  /\ adrift' = (adrift \/ (IsReset(fire[i].set) /\ OffTime(i)))
  /\ UNCHANGED faultAt /\ Progress
  /\ UNCHANGED <<now, plan, restart, taken, shift, hands, missed, faults>>

\* _fire_step: a step's arguments follow those of the command, or replace them.
LaunchArgs(f) == IF f.replace /\ f.set # <<>> THEN f.set ELSE f.set @@ Base
FireStart(i) ==
  /\ fire[i].act = "start" /\ ~up
  /\ Stamp(i) /\ mark' = Fired(i)
  /\ Spawned(LaunchArgs(fire[i]))
  /\ adrift' = (adrift \/ OffTime(i))
  /\ UNCHANGED faultAt /\ Progress
  /\ UNCHANGED <<now, plan, restart, taken, shift, hands, missed, faults>>
FireStop(i) ==
  /\ fire[i].act = "stop"
  /\ Stamp(i) /\ mark' = Fired(i)
  /\ up' = FALSE /\ UNCHANGED <<bound, started, live, origin, record, recordAt>>
  /\ UNCHANGED faultAt /\ Progress
  /\ UNCHANGED <<now, plan, restart, taken, history, faults>>

\* on_task_fault: what is not fired is skipped.
Couple(marks) ==
  /\ faultAt' = now
  /\ mark' = [i \in DOMAIN marks |-> IF marks[i] = "open" THEN "skipped" ELSE marks[i]]
  /\ st' = "RUNNING"
\* A relaunch at an instant that was not the one its elapsed time is told for.
Late(i, at) ==
  "origin" \in DOMAIN fire[i].set /\ fire[i].set["origin"] # at - ElapsedOf(fire[i].set)
\* A launch that fails, as it does when the task is still running.
LaunchFails(i) ==
  /\ fire[i].act = "start"
  /\ IF up THEN UNCHANGED faults ELSE faults < MaxFaults /\ faults' = faults + 1
  /\ Stamp(i) /\ Couple(Fired(i))
  /\ adrift' = (adrift \/ Late(i, now))
  /\ UNCHANGED <<now, plan, restart, taken, process, shift, hands, missed>>
Fail ==
  /\ up /\ st = "RUNNING" /\ faultAt = None
  /\ faults < MaxFaults /\ faults' = faults + 1
  /\ up' = FALSE /\ UNCHANGED <<bound, started, live, origin, record, recordAt>>
  /\ Couple(mark)
  \* A process that has not come up has not reported its origin.
  /\ adrift' = (adrift \/ (~bound /\ \E i \in DOMAIN fire :
                             fire[i].act = "start" /\ when[i] = started /\ Late(i, started)))
  /\ UNCHANGED <<now, plan, when, batch, restart, taken, shift, hands, missed>>

BindSocket ==
  /\ Binding /\ bound' = TRUE
  /\ UNCHANGED <<now, st, plan, mark, when, batch, faultAt, restart, taken, up, started, live,
                 origin, record, recordAt, history, faults>>

\* The operator tunes a task that is abreast of its schedule.
TuneByHand(set) ==
  /\ up /\ bound /\ faultAt = None /\ batch = <<>> /\ Due = {} /\ now \notin {when[i] : i \in DOMAIN when}
  /\ Len(hands) < MaxHands
  /\ hands' = Append(hands, [at |-> now - shift, set |-> set])
  /\ Tuned(set)
  /\ UNCHANGED <<now, st, plan, mark, when, batch, faultAt, restart, taken, shift, missed, adrift, faults>>

-----------------------------------------------------------------------------
(* The restart of the run at the instant s.                                 *)

Down(s, how) == IF how = "replay" THEN s - faultAt ELSE 0
Reinstated(s, how) == {i \in DOMAIN fire : mark[i] = "skipped" /\ (how = "replay" \/ fire[i].at > s)}
NewAt(i, s, how) ==
  IF i \in Reinstated(s, how) /\ how = "replay" THEN Max({fire[i].at + Down(s, how), s + 1})
  ELSE fire[i].at
\* _plan_restart: a STOP must be left to rejoin.
StopLeft(s, how) ==
  \E i \in DOMAIN fire : /\ fire[i].act = "stop" /\ NewAt(i, s, how) > s
                         /\ mark[i] = "open" \/ i \in Reinstated(s, how)

\* Mutant: a resync reconstructs what was on the air.
CountsFired(i, s, how) == fire[i].at <= s /\ mark[i] = "fired"
\* _counts_at_cutoff and _fire_instant.
Counts(i, s, how) ==
  /\ fire[i].at <= s
  /\ mark[i] = "fired" \/ (how = "resync" /\ mark[i] \in {"skipped", "superseded"})
Instant(i) == IF mark[i] = "fired" THEN when[i] ELSE fire[i].at

\* The launch and what changed since, along the fires that count.
Nothing == [args |-> Base, set |-> <<>>, setAt |-> <<>>, launch |-> None, clock |-> None, off |-> FALSE]
Along(known, i) ==
  CASE fire[i].act = "start" ->
         [args |-> LaunchArgs(fire[i]), set |-> <<>>, setAt |-> <<>>, launch |-> Instant(i),
          clock |-> None, off |-> FALSE]
    [] fire[i].act = "tune" ->
         [known EXCEPT !.set = fire[i].set @@ @,
                       !.setAt = [d \in DOMAIN fire[i].set |-> Instant(i)] @@ @,
                       !.clock = IF IsReset(fire[i].set) THEN Instant(i) ELSE @]
    [] OTHER -> [known EXCEPT !.off = known.launch # None]
Known(s, how) ==
  FoldLeft(Along, Nothing, Sorted({i \in DOMAIN fire : Counts(i, s, how)}, Before))

\* What was tuned by hand since, if the process is the one that was launched.
OurRecord(known) == known.launch # None /\ known.launch <= started /\ started <= faultAt
WithHands(known) ==
  IF ~OurRecord(known) THEN known.set
  ELSE [d \in DOMAIN known.set \cup DOMAIN record |->
          IF d \notin DOMAIN known.set \/ (d \in DOMAIN record /\ recordAt[d] > known.setAt[d])
          THEN record[d] ELSE known.set[d]]

\* Without the schema only the levels have a flag, and a trigger has no value.
Unbaked(set, readable) == {d \in DOMAIN set \ Resets : ~readable /\ d \notin Level}
Overlaid(known, set) == [d \in DOMAIN set \ Resets |-> set[d]] @@ known.args

\* Where the timeline of the script has got to, and where it began.
ResumesAt(s, how) == IF how = "resync" THEN s ELSE faultAt
Elapsed(known, at) ==
  Max({0, IF known.clock # None THEN at - known.clock
          ELSE ElapsedOf(known.args) + Max({0, at - known.launch})})
\* Mutant: a reset the fault skipped is forgotten.
BeganAtLaunch(known) ==
  IF OurRecord(known) /\ bound THEN origin
  ELSE IF known.clock # None THEN known.clock
  ELSE known.launch - ElapsedOf(known.args)
Began(known) ==
  IF OurRecord(known) /\ bound /\ (known.clock = None \/ origin >= known.clock - Tolerance)
  THEN origin
  ELSE IF known.clock # None THEN known.clock
  ELSE known.launch - ElapsedOf(known.args)

\* _relaunch_start_fire.
RelaunchArgs(known, s, how, readable) ==
  LET args == Overlaid(known, WithHands(known)) IN
  IF ~readable \/ known.launch = None THEN args
  ELSE ("elapsed" :> Elapsed(known, ResumesAt(s, how)))
       @@ ("origin" :> Began(known) + s - ResumesAt(s, how)) @@ args

Plannable(s, how, readable) ==
  /\ st = "RUNNING" /\ faultAt # None
  /\ StopLeft(s, how)
  /\ Known(s, how).off \/ Unbaked(WithHands(Known(s, how)), readable) = {}

\* _started_after: it is not the process that failed.
StartedAfter == up /\ started > faultAt
\* restart_run: what is left of the process is stopped first ...
Restart(how, readable) ==
  /\ restart = Idle /\ batch = <<>>
  /\ \E modes \in Recovery : IsPrefix(Append(taken, how), modes)
  /\ Plannable(now, how, readable) /\ ~StartedAfter
  /\ restart' = [since |-> now, mode |-> how]
  /\ UNCHANGED <<now, st, plan, mark, when, batch, faultAt, taken, process, history, faults>>
PreStop ==
  /\ restart # Idle
  /\ up /\ up' = FALSE /\ UNCHANGED <<bound, started, live, origin, record, recordAt>>
  /\ UNCHANGED <<now, st, plan, mark, when, batch, faultAt, restart, taken, history, faults>>
\* ... and the caller tries again if it is still there, or if the schema has
\* become unreadable.
RestartDeferred(readable) ==
  /\ restart # Idle /\ (up \/ ~Plannable(restart.since, restart.mode, readable))
  /\ restart' = Idle
  /\ UNCHANGED <<now, st, plan, mark, when, batch, faultAt, taken, process, history, faults>>
\* Of two launches at one instant the record may be either's.
Twins == Cardinality({i \in DOMAIN fire : fire[i].act = "start" /\ Instant(i) = started}) > 1
Commit(s, how, readable, known) ==
  /\ ~up /\ Plannable(s, how, readable)
  /\ LET shifted == [i \in DOMAIN fire |-> [fire[i] EXCEPT !.at = NewAt(i, s, how)]]
         opened == [i \in DOMAIN mark |-> IF i \in Reinstated(s, how) THEN "open" ELSE mark[i]]
     IN  IF known.off
         THEN /\ fire' = shifted /\ mark' = opened /\ UNCHANGED when
         ELSE /\ fire' = Append(shifted, [act |-> "start", set |-> RelaunchArgs(known, s, how, readable),
                                          replace |-> TRUE, dwell |-> 0, step |-> 0, point |-> 1,
                                          at |-> s, nominal |-> None])
              /\ mark' = Append(opened, "open") /\ when' = Append(when, None)
  /\ end' = end + Down(s, how)
  /\ shift' = shift + Down(s, how)
  /\ missed' = missed \cup {i \in DOMAIN fire : mark[i] = "skipped" /\ i \notin Reinstated(s, how)}
  /\ adrift' = (adrift \/ (~readable /\ ~known.off) \/ (OurRecord(known) /\ Twins)
                     \/ \E i \in Reinstated(s, how) :
                          /\ fire[i].act = "start" \/ IsReset(fire[i].set)
                          /\ NewAt(i, s, how) # fire[i].nominal + shift')
  /\ faultAt' = None /\ restart' = Idle /\ taken' = Append(taken, restart.mode)
  /\ UNCHANGED <<now, st, steps, batch, process, hands, faults>>

\* Time passes when the loop has fired what it could.
TimePasses ==
  /\ now < Horizon /\ st # "COMPLETED" /\ batch = <<>>
  /\ faultAt # None => now - faultAt < Outage
  /\ Active => \A i \in Due : Deferred(i)
  /\ Binding => now - started < Bind
  /\ restart # Idle => now - restart.since < Wait
  /\ now' = Min({Unit * (now \div Unit + 1)}
                \cup {fire[i].at : i \in {j \in DOMAIN fire : mark[j] = "open" /\ fire[j].at > now}})
  /\ UNCHANGED <<st, plan, mark, when, batch, faultAt, restart, taken, process, history, faults>>

Next ==
  \/ \E seq \in Sequence, w \in Window : Arm(seq, w)
  \/ Tick \/ Pass
  \/ \E i \in DOMAIN fire : batch # <<>> /\ (DropTune(i) \/ FireTune(i) \/ FireStart(i) \/ FireStop(i)
                                            \/ LaunchFails(i))
  \/ Fail \/ BindSocket
  \/ \E set \in HandTune : TuneByHand(set)
  \/ \E readable \in Readable :
       \/ \E how \in {"resync", "replay"} : Restart(how, readable)
       \/ RestartDeferred(readable)
       \/ /\ restart # Idle
          /\ Commit(restart.since, restart.mode, readable, Known(restart.since, restart.mode))
  \/ PreStop
  \/ TimePasses
Spec == Init /\ [][Next]_vars

-----------------------------------------------------------------------------
(* Properties.                                                             *)

\* A peer that never faulted, at the instant x of the schedule: the steps as
\* they were armed, and what the operator tuned.
Events(x) ==
  {[at |-> fire[i].nominal, act |-> fire[i].act, n |-> i,
    rank |-> IF fire[i].act = "stop" THEN 0 ELSE 1 + Rank(fire[i].set),
    set |-> IF fire[i].act = "start" THEN LaunchArgs(fire[i]) ELSE fire[i].set]
     : i \in {j \in DOMAIN fire : fire[j].step # 0 /\ fire[j].nominal <= x}}
  \cup {[at |-> hands[k].at, act |-> "tune", n |-> k, rank |-> 9, set |-> hands[k].set]
     : k \in {j \in DOMAIN hands : hands[j].at <= x}}
Sooner(e, f) ==
  \/ e.at < f.at
  \/ e.at = f.at /\ e.rank < f.rank
  \/ e.at = f.at /\ e.rank = f.rank /\ e.n < f.n
Goes(peer, e) ==
  CASE e.act = "start" -> [up |-> TRUE, live |-> Settings(e.set), origin |-> e.at - ElapsedOf(e.set)]
    [] e.act = "stop"  -> [peer EXCEPT !.up = FALSE]
    [] OTHER -> IF ~peer.up THEN peer
                ELSE [peer EXCEPT !.live = Settings(e.set) @@ @,
                                  !.origin = IF IsReset(e.set) THEN e.at ELSE @]
Peer(x) ==
  FoldLeft(Goes, [up |-> FALSE, live |-> <<>>, origin |-> None], Sorted(Events(x), Sooner))

\* The run is not faulted and has done all that was due.
CaughtUp ==
  /\ st \in {"RUNNING", "COMPLETED"} /\ faultAt = None /\ batch = <<>> /\ ~Binding
  /\ \A i \in DOMAIN fire :
       mark[i] = "open" => fire[i].at > now /\ (fire[i].step # 0 => fire[i].nominal > now - shift)

\* However often it failed and was restarted, the task is on the air exactly
\* when a peer that never faulted is, and set as the peer is: after a resync at
\* the schedule's present position, after a replay at the position the fault
\* froze.  (_relaunch_start_fire walks fires, sentinels and the live record.)
LevelsOfPeer ==
  CaughtUp => LET peer == Peer(now - shift) IN up = peer.up /\ (up => live = peer.live)

\* And its timeline began when the peer's did, or within the tolerance before
\* it, unless a launch or a trigger that resets it came late, or the schema could
\* not be read.
ClockOfPeer ==
  (CaughtUp /\ up /\ ~adrift) =>
    Peer(now - shift).origin + shift - origin \in 0 .. Tolerance

\* The ramps of an armed run tile: what runs forward from on-air has held its
\* last level when the first thing timed from off-air begins, what runs back is
\* over at its offset from off-air, and a step that follows a ramp begins when
\* the ramp's last level has been held.
RampsTile ==
  st = "ARMED" =>
    \A i, j \in DOMAIN fire :
      LET s == steps[fire[i].step]
          t == steps[fire[j].step]
      IN  /\ (s.anchor = "start" /\ t.anchor = "stop") => fire[i].at + fire[i].dwell <= fire[j].at
          /\ s.anchor = "stop" => fire[i].at + fire[i].dwell <= end + s.off
          /\ (t.anchor = "step" /\ t.edge = "end" /\ t.of = fire[i].step) =>
               fire[i].at + fire[i].dwell + t.off <= fire[j].at

\* What a resync has left behind stays behind ("missed points stay missed",
\* _plan_restart).
MissedStayMissed == \A i \in missed : mark[i] = "skipped"
=============================================================================
