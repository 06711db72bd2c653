--------------------------- MODULE SequenceRunner ---------------------------
(***************************************************************************)
(* The runner of timed sequences: class SequenceRunner of                  *)
(* agent/sequence_runner.py, with the part of ProcessManager it drives.    *)
(*                                                                         *)
(* A run fires the steps of its plan around its on-air window: it starts,  *)
(* tunes and stops tasks.  One loop fires the steps of every run in time   *)
(* order, awaiting each; in those awaits the API calls run and a task may  *)
(* fail.  A run may pause at a Hold until the operator lets it proceed,    *)
(* and a run whose task failed may be restarted, by hand or unattended.    *)
(* _lock is never held across an await: what it guards is one step here.   *)
(*                                                                         *)
(* A ramp is the tunes it resolves to; one-shot "run" steps, starts by     *)
(* hand, the level a relaunch is given and the run logs are left out.      *)
(***************************************************************************)
EXTENDS Integers, Sequences, FiniteSets

CONSTANTS
  Run,         \* the runs that may be armed
  Task,        \* the tasks of the unit
  NoRun, NoTask,
  Caller,      \* API calls that take several steps, each made at most once
  Loop,        \* the runner's loop
  Plan,        \* what each run is armed with
  N,           \* slot of the relaunch; the slots below it are the plan's steps
  Never,       \* later than every instant
  MaxHold,     \* max_hold_s, 0 for no limit
  Unattended,  \* the runs with restart_policy "auto", which resync
  Budget,      \* AUTO_RESTART_BUDGET
  Margin,      \* margin_s of _channel_over
  Horizon,     \* the last instant: bounds the clock
  SlowAlarm,   \* whether anything may happen before a fault reaches its run
  Patience,    \* how long a restart waits at most for the process to be gone
  Modes,       \* the modes a restart is asked for by hand
  Ends,        \* the ends patch_on_air_end is asked for
  MaxPatches, MaxFaults, MaxCrashes    \* bounds

Step == [act : {"start", "tune", "stop"}, task : Task,
         base : {"start", "stop", "enter", "hold", "step"}, off : Int,
         of : Nat,           \* the step a "step" is anchored to
         key : STRING]       \* the parameters a tune sets

ASSUME PlanAssumption ==
  \A r \in Run :
    /\ Plan[r].steps \in Seq(Step) /\ Len(Plan[r].steps) < N
    /\ Plan[r].on \in Nat /\ Plan[r].hold \in Nat /\ Plan[r].off \in Nat
    /\ \A i \in DOMAIN Plan[r].steps :
         Plan[r].steps[i].base = "step" =>
           /\ Plan[r].steps[i].of \in DOMAIN Plan[r].steps
           /\ Plan[r].steps[Plan[r].steps[i].of].base # "step"
ASSUME AlarmAssumption == SlowAlarm \in BOOLEAN
ASSUME ModeAssumption == Modes \subseteq {"resync", "replay"}
ASSUME NameAssumption == NoRun \notin Run /\ NoTask \notin Task /\ Loop \notin Caller
ASSUME BoundAssumption ==
  /\ {N, Never, MaxHold, Budget, Margin, Horizon, Patience, MaxPatches, MaxFaults, MaxCrashes} \subseteq Nat
  /\ Horizon < Never /\ Ends \subseteq 0 .. Horizon /\ Unattended \subseteq Run

\* The latest end a run may be given: it is over before the clock ends.
Latest == Horizon - Margin - 1

Coroutine == Caller \cup {Loop}
Slot == 1 .. N
RunState == {"ARMED", "RUNNING", "HOLDING", "COMPLETED", "CANCELLED", "ABORTED"}
Firing == {"ARMED", "RUNNING"}
Active == Firing \cup {"HOLDING"}
\* StepFire.fired_actual: None, a time, or a "skipped" sentinel.  An unset
\* slot has no StepFire.
Mark == {"unset", "open", "fired", "fault", "hold", "late", "stale"}
\* What a coroutine may be parked at, or on its way to.
Label == {"idle", "done", "sweep", "fire", "parked", "exec", "launched", "after", "tuning",
          "stopping", "muting", "recheck", "redo", "collect"}

VARIABLES
  now,         \* the clock
  st,          \* SequenceRun.state, "none" before the run is armed
  end,         \* on_air_end, Never while open-ended
  at,          \* StepFire.fire_at of every slot
  mark,        \* StepFire.fired_actual of every slot
  held,        \* held_actual, or Never
  gen,         \* how often the run's StepFires were rebuilt
  fault,       \* the tasks the run has a fault of, fault_task first
  faultAt,     \* fault_at
  again,       \* the task the relaunch slot starts
  tries, mended, \* auto_restart_count and auto_restart_task
  gaveUp,      \* _auto_gaveup
  restarting,  \* _restart_inflight
  batch,       \* the due fires the loop has collected
  redo,        \* the runs the loop has picked for an automatic restart
  doom,        \* the runs a coroutine has still to abort
  left,        \* the tasks the abort in hand has still to look at
  pc, then,    \* the await a coroutine is parked at; what a stop returns to
  cur, on,     \* the run and the task it has in hand
  since, mode, was, \* when its tick or restart began, the restart's mode and
               \* the faults it set out to mend
  air,         \* what the task's slot does
  owner,       \* the run that launched what is on the air
  newer,       \* the faulted runs of the task its process is younger than
  bound,       \* the process has bound its control socket
  opStop,      \* _operator_stop_requested of the task's slot
  alarm,       \* a fault of the task on its way to on_task_fault
  log,         \* the starts and stops of the task in the order they fired
  failures, crashes   \* bounded counters

runs == <<st, end, at, mark, held, gen>>
faults == <<fault, faultAt, again, tries, mended, gaveUp>>
hand == <<cur, on, then, since, mode, was>>
work == <<batch, redo, doom, left>>
slots == <<air, owner, newer, bound, opStop, alarm, log>>
counts == <<failures, crashes>>
vars == <<now, runs, faults, restarting, work, pc, hand, slots, counts>>

Init ==
  /\ now = 0
  /\ st = [r \in Run |-> "none"] /\ end = [r \in Run |-> Never]
  /\ at = [r \in Run |-> [i \in Slot |-> 0]]
  /\ mark = [r \in Run |-> [i \in Slot |-> "unset"]]
  /\ held = [r \in Run |-> Never] /\ gen = [r \in Run |-> 0]
  /\ fault = [r \in Run |-> <<>>] /\ faultAt = [r \in Run |-> 0]
  /\ again = [r \in Run |-> NoTask] /\ tries = [r \in Run |-> 0]
  /\ mended = [r \in Run |-> NoTask]
  /\ gaveUp = {} /\ restarting = {}
  /\ batch = {} /\ redo = {}
  /\ doom = [c \in Coroutine |-> {}] /\ left = [c \in Coroutine |-> {}]
  /\ pc = [c \in Coroutine |-> "idle"] /\ then = [c \in Coroutine |-> "idle"]
  /\ cur = [c \in Coroutine |-> NoRun] /\ on = [c \in Coroutine |-> NoTask]
  /\ since = [c \in Coroutine |-> 0] /\ mode = [c \in Coroutine |-> "resync"]
  /\ was = [c \in Coroutine |-> <<>>]
  /\ air = [t \in Task |-> "off"] /\ owner = [t \in Task |-> NoRun]
  /\ newer = [t \in Task |-> {}] /\ bound = [t \in Task |-> FALSE]
  /\ opStop = [t \in Task |-> FALSE] /\ alarm = [t \in Task |-> "none"]
  /\ log = [t \in Task |-> <<>>]
  /\ failures = 0 /\ crashes = 0

-----------------------------------------------------------------------------
(* The steps of a run.                                                     *)

\* A restart adds a START of its own at the instant it commits.  A later restart
\* reuses the slot: the plan's own START stays there to say the run launched it.
\* Two steps of a plan differ in anchor, offset, action, task or arguments.
StepAt(r, i) ==
  IF i = N THEN [act |-> "start", task |-> again[r], base |-> "start", off |-> 0,
                 of |-> 0, key |-> ""]
  ELSE Plan[r].steps[i]
Steps(r) == DOMAIN Plan[r].steps
Fires(r) == {i \in Slot : mark[r][i] # "unset"}
Act(r, i) == StepAt(r, i).act
TaskOf(r, i) == StepAt(r, i).task

\* The step whose anchor is a fixed point of the run.  (A step anchored to a
\* step that is itself anchored to a step is left out.)
Root(r, i) == IF StepAt(r, i).base = "step" THEN StepAt(r, i).of ELSE i
RootBase(r, i) == StepAt(r, Root(r, i)).base

\* _resolve_steps: when step i fires, to being the off-air and resume the
\* instant the Hold ends.
FireAt(r, i, to, resume) ==
  LET b == RootBase(r, i) IN
  (CASE b = "start" -> Plan[r].on
     [] b = "enter" -> Plan[r].on + Plan[r].hold
     [] b = "hold"  -> resume
     [] b = "stop"  -> to)
  + StepAt(r, Root(r, i)).off + (IF Root(r, i) = i THEN 0 ELSE StepAt(r, i).off)

Most(S) == CHOOSE x \in S : \A y \in S : y <= x
Least(S) == CHOOSE x \in S : \A y \in S : x <= y

\* The steps that end at or before the Hold, and what of them has a time at arm.
HasHold(r) == Plan[r].hold # Never
OpenEnded(r) == HasHold(r) \/ Plan[r].off = Never
AtArm(r) == {i \in Steps(r) : RootBase(r, i) \notin
              IF OpenEnded(r) THEN {"hold", "stop"} ELSE {"hold"}}

\* What the Hold leaves to do once it is over, forward and backward.
Content(r) ==
  LET fwd == {Plan[r].steps[i].off : i \in {j \in Steps(r) : Plan[r].steps[j].base = "hold"}}
      bwd == {-Plan[r].steps[i].off : i \in {j \in Steps(r) : Plan[r].steps[j].base = "stop"}}
  IN  Most(fwd \cup {0}) + Most(bwd \cup {0})

\* The tasks the run launches, now or after its Hold.
Launches(r) ==
  {TaskOf(r, i) : i \in {j \in (IF st[r] = "none" THEN Steps(r) ELSE Fires(r)) \cup
                                 {j \in Steps(r) : HasHold(r)} : Act(r, j) = "start"}}

\* _channel_end and _active_span.
ChannelEnd(r) == Most({end[r]} \cup {at[r][i] : i \in Fires(r)})
ChannelStart(r) == IF Fires(r) = {} THEN Plan[r].on ELSE Least({at[r][i] : i \in Fires(r)})

AllDone(r) == \A i \in Slot : mark[r][i] # "open"
ChannelOver(r) == end[r] # Never /\ AllDone(r) /\ now - ChannelEnd(r) > Margin

\* The order of run.steps.
Before(r, i, j) == at[r][i] < at[r][j] \/ (at[r][i] = at[r][j] /\ i < j)

\* _live_tasks_of: launched by the run and not stopped since.
LiveTasks(r) ==
  {t \in Task : \E i \in Slot :
     /\ mark[r][i] = "fired" /\ Act(r, i) = "start" /\ TaskOf(r, i) = t
     /\ \A j \in Slot : (mark[r][j] = "fired" /\ Act(r, j) = "stop" /\ TaskOf(r, j) = t)
                          => Before(r, j, i)}

FaultTask(r) == IF fault[r] = <<>> THEN NoTask ELSE Head(fault[r])

\* _tasks_owned_by_active_runs.
Owned == UNION {LiveTasks(r) \ {FaultTask(r)} : r \in {q \in Run : st[q] \in Active}}

-----------------------------------------------------------------------------
(* Scheduling.  No await separates these labels from what comes before and *)
(* after them: whoever is at one of them goes on before anybody else.      *)

InHand(c) == pc[c] \in {"fire", "launched", "after", "sweep", "collect", "redo", "recheck"}
Calm == SlowAlarm \/ \A t \in Task : alarm[t] = "none"
At(c, label) == pc[c] = label /\ Calm /\ \A d \in Coroutine : InHand(d) => d = c
Quiet == Calm /\ \A d \in Coroutine : ~InHand(d)
Goto(c, label) == pc' = [pc EXCEPT ![c] = label]

\* ProcessManager.stop of task t, after which c goes on at next.  Once the
\* process is gone the chain is muted, which is an await of its own.
StopTask(c, t, next) ==
  /\ opStop' = [opStop EXCEPT ![t] = TRUE]
  /\ air' = [air EXCEPT ![t] = CASE @ = "on"       -> "leaving"
                                 [] @ = "starting" -> "doomed"
                                 [] OTHER          -> @]
  /\ Goto(c, IF air[t] \in {"on", "starting", "doomed"} THEN "stopping" ELSE "muting")
  /\ then' = [then EXCEPT ![c] = next]
  /\ on' = [on EXCEPT ![c] = t]

\* Those who wait for the process of t to be gone.
Woken(t) == [c \in Coroutine |-> IF pc[c] = "stopping" /\ on[c] = t THEN "muting" ELSE pc[c]]

Muted(c) ==
  /\ At(c, "muting")
  /\ Goto(c, then[c])
  /\ UNCHANGED <<now, runs, faults, restarting, work, hand, slots, counts>>

\* on_task_fault: every active run that has t live is marked faulted and
\* skips what it had still to do with t.
Coupled(t) == {r \in Run : st[r] \in Active /\ t \in LiveTasks(r) /\ FaultTask(r) # t}
Couple(t) ==
  LET first == {r \in Coupled(t) : fault[r] = <<>>} IN
  /\ mark' = [r \in Run |-> [i \in Slot |->
       IF r \in Coupled(t) /\ mark[r][i] = "open" /\ TaskOf(r, i) = t THEN "fault"
       ELSE mark[r][i]]]
  /\ fault' = [r \in Run |-> IF r \in Coupled(t) THEN Append(fault[r], t) ELSE fault[r]]
  /\ faultAt' = [r \in Run |-> IF r \in first THEN now ELSE faultAt[r]]
  /\ newer' = [newer EXCEPT ![t] = @ \ first]

-----------------------------------------------------------------------------
(* The API calls that take one step.                                       *)

\* The lead-in: when the first step fires that is anchored to the on-air or
\* to the pause.
Lead(r) ==
  LET leads == {i \in Steps(r) : StepAt(r, i).base \in {"start", "enter"}}
  IN  IF leads = {} THEN Plan[r].on ELSE Least({FireAt(r, i, 0, 0) : i \in leads})

ClearOfEnded(r) ==   \* mutant: an open-ended run is no obstacle
  \A q \in Run \ {r} : (st[q] \in Active /\ Launches(q) \cap Launches(r) # {}) =>
    end[q] = Never \/ ~(Lead(r) < ChannelEnd(q) /\ ChannelStart(q) < ChannelEnd(r)')

\* Guard A: no other run that launches one of the tasks has its span overlapped.
Clear(r) ==
  \A q \in Run \ {r} : (st[q] \in Active /\ Launches(q) \cap Launches(r) # {}) =>
    ~(Lead(r) < ChannelEnd(q) /\ ChannelStart(q) < ChannelEnd(r)')

\* arm.  Guard A0: no task is on the air but by a run.
Arm(r) ==
  /\ Quiet /\ st[r] = "none"
  /\ end' = [end EXCEPT ![r] = IF OpenEnded(r) THEN Never ELSE Plan[r].off]
  /\ at' = [at EXCEPT ![r] = [i \in Slot |->
       IF i \in AtArm(r) THEN FireAt(r, i, end'[r], 0) ELSE 0]]
  /\ mark' = [mark EXCEPT ![r] = [i \in Slot |-> IF i \in AtArm(r) THEN "open" ELSE "unset"]]
  /\ now < Lead(r)
  /\ \A i \in Steps(r) : TaskOf(r, i) \in Owned \/ air[TaskOf(r, i)] # "on"
  /\ Clear(r)
  /\ st' = [st EXCEPT ![r] = "ARMED"]
  /\ UNCHANGED <<now, held, gen, faults, restarting, work, pc, hand, slots, counts>>

\* patch_on_air_end.  The StepFires are rebuilt from what they say of
\* themselves, which is not which step they were anchored to: those are lost.
Patch(r, to) ==
  /\ Quiet /\ st[r] \in Firing /\ end[r] # Never /\ ~HasHold(r)
  /\ now < to /\ Plan[r].on < to
  /\ gen[r] < MaxPatches
  /\ gen' = [gen EXCEPT ![r] = @ + 1]
  /\ end' = [end EXCEPT ![r] = to]
  /\ mark' = [mark EXCEPT ![r] = [i \in Slot |->
       IF i \in Steps(r) /\ StepAt(r, i).base = "step" THEN "unset" ELSE @[i]]]
  /\ at' = [at EXCEPT ![r] = [i \in Slot |->
       IF i \in Fires(r) THEN FireAt(r, i, to, 0) ELSE @[i]]]
  /\ UNCHANGED <<now, st, held, faults, restarting, work, pc, hand, slots, counts>>

\* proceed: what follows the Hold is timed from the instant resume.
Proceed(r, resume) ==
  /\ Quiet /\ st[r] = "HOLDING"
  /\ LET to == resume + Content(r)
         B == {i \in Steps(r) : RootBase(r, i) \in {"hold", "stop"}} IN
     /\ to <= Latest
     /\ end' = [end EXCEPT ![r] = to]
     /\ at' = [at EXCEPT ![r] = [i \in Slot |-> IF i \in B THEN FireAt(r, i, to, resume) ELSE @[i]]]
     /\ mark' = [mark EXCEPT ![r] = [i \in Slot |-> IF i \in B THEN "open" ELSE @[i]]]
  /\ st' = [st EXCEPT ![r] = "RUNNING"]
  /\ UNCHANGED <<now, held, gen, faults, restarting, work, pc, hand, slots, counts>>

\* hold_now: go straight to the Hold.
HoldNow(r) ==
  /\ Quiet /\ st[r] = "RUNNING" /\ HasHold(r) /\ held[r] = Never /\ fault[r] = <<>>
  /\ mark' = [mark EXCEPT ![r] = [i \in Slot |-> IF @[i] = "open" THEN "hold" ELSE @[i]]]
  /\ st' = [st EXCEPT ![r] = "HOLDING"]
  /\ held' = [held EXCEPT ![r] = now]
  /\ UNCHANGED <<now, end, at, gen, faults, restarting, work, pc, hand, slots, counts>>

-----------------------------------------------------------------------------
(* Cancel and abort.                                                       *)

\* cancel_or_abort of a run, and abort_all_active of those active now.
Cancel(c, r) ==
  /\ At(c, "idle") /\ c \in Caller /\ st[r] \in Active
  /\ doom' = [doom EXCEPT ![c] = {r}]
  /\ Goto(c, "sweep")
  /\ UNCHANGED <<now, runs, faults, restarting, batch, redo, left, hand, slots, counts>>
AbortAll(c) ==
  /\ At(c, "idle") /\ c \in Caller /\ \E r \in Run : st[r] \in Active
  /\ doom' = [doom EXCEPT ![c] = {r \in Run : st[r] \in Active}]
  /\ Goto(c, "sweep")
  /\ UNCHANGED <<now, runs, faults, restarting, batch, redo, left, hand, slots, counts>>

\* _abort_run.  The run leaves the active states first; then its tasks are
\* swept twice.  An armed run has nothing to sweep.
Touched(r) == {TaskOf(r, i) : i \in Steps(r)}
Abort(c, r) ==
  /\ At(c, "sweep") /\ left[c] = {} /\ r \in doom[c]
  /\ doom' = [doom EXCEPT ![c] = @ \ {r}]
  /\ st' = [st EXCEPT ![r] = IF @ = "ARMED" THEN "CANCELLED" ELSE "ABORTED"]
  /\ cur' = [cur EXCEPT ![c] = r]
  /\ left' = [left EXCEPT ![c] = IF st[r] = "ARMED" THEN {} ELSE {1, 2} \X Touched(r)]
  /\ UNCHANGED <<now, end, at, mark, held, gen, faults, restarting, batch, redo, pc,
                 on, then, since, mode, was, slots, counts>>

\* Stop what is live: running, being launched, or not yet gone.
Sweep(c, n, t) ==
  /\ At(c, "sweep") /\ <<n, t>> \in left[c]
  /\ \A p \in left[c] : n <= p[1]
  /\ left' = [left EXCEPT ![c] = @ \ {<<n, t>>}]
  /\ IF air[t] # "off" THEN StopTask(c, t, "sweep")
                       ELSE UNCHANGED <<opStop, air, pc, then, on>>
  /\ UNCHANGED <<now, runs, faults, restarting, batch, redo, doom, cur, since, mode, was,
                 owner, newer, bound, alarm, log, counts>>

Swept(c) ==
  /\ At(c, "sweep") /\ left[c] = {} /\ doom[c] = {}
  /\ Goto(c, IF c = Loop THEN "collect" ELSE "done")
  /\ UNCHANGED <<now, runs, faults, restarting, work, hand, slots, counts>>

-----------------------------------------------------------------------------
(* The loop: fire what is due.                                             *)

Due(r) == IF st[r] \in Firing THEN {i \in Slot : mark[r][i] = "open" /\ at[r][i] <= now} ELSE {}

\* A task that has come up late takes only the last of the tunes that have
\* piled up, unless it is still in the grace in which it binds its socket.
Piled(r, i, grace) ==
  {j \in Due(r) : /\ Act(r, j) = "tune" /\ TaskOf(r, j) = TaskOf(r, i)
                  /\ TaskOf(r, i) \notin grace}
Superseded(r, i, grace) ==
  \E j \in Piled(r, i, grace) : StepAt(r, j).key = StepAt(r, i).key /\ Before(r, i, j)
Binding == {t \in Task : air[t] = "on" /\ ~bound[t]}

LapsedNever == {}   \* mutant: a faulted run is never looked at again
HeldTooLongRunning(t) ==   \* mutant: the wrong state
  {r \in Run : st[r] = "RUNNING" /\ held[r] # Never /\ MaxHold > 0 /\ t - held[r] > MaxHold}
FailedEnding ==   \* mutant: open-ended runs are not restarted
  {r \in Run : /\ st[r] = "RUNNING" /\ fault[r] # <<>> /\ r \in Unattended \ gaveUp
               /\ air[FaultTask(r)] \notin {"on", "leaving"} /\ end[r] # Never}

\* Runs the tick finds faulted and over, at a Hold, held too long or to restart.
Lapsed == {r \in Run : st[r] = "RUNNING" /\ fault[r] # <<>> /\ ChannelOver(r)}
Holding(t) == {r \in Run : /\ st[r] = "RUNNING" /\ HasHold(r) /\ held[r] = Never
                           /\ AllDone(r) /\ fault[r] = <<>>
                           /\ Plan[r].on + Plan[r].hold <= t}
HeldTooLong(t) == {r \in Run : st[r] = "HOLDING" /\ MaxHold > 0 /\ t - held[r] > MaxHold}
Failed == {r \in Run : /\ st[r] = "RUNNING" /\ fault[r] # <<>> /\ r \in Unattended \ gaveUp
                       /\ air[FaultTask(r)] \notin {"on", "leaving"}}
Healthy(t) == t # NoTask /\ air[t] = "on" /\ alarm[t] # "wedge"
Settled == {r \in Run : fault[r] = <<>> /\ tries[r] > 0 /\ Healthy(mended[r])}

Tick ==
  /\ At(Loop, "idle")
  /\ Lapsed \cup Holding(now) \cup HeldTooLong(now) \cup Failed # {}
     \/ \E r \in Run : Due(r) # {}
  /\ st' = [r \in Run |-> IF r \in Lapsed THEN "COMPLETED" ELSE st[r]]
  /\ \E grace \in SUBSET Binding :
       LET Late(r) == {i \in Due(r) : Act(r, i) = "tune" /\ Superseded(r, i, grace)}
           When(r, i) == IF Act(r, i) = "tune"
                         THEN Most({at[r][j] : j \in Piled(r, i, grace) \cup {i}})
                         ELSE at[r][i]
       IN /\ mark' = [r \in Run |-> [i \in Slot |-> IF i \in Late(r) THEN "late" ELSE mark[r][i]]]
          /\ batch' = UNION {{[run |-> r, step |-> i, gen |-> gen[r], at |-> When(r, i)] :
                                i \in Due(r) \ Late(r)} : r \in Run}
  /\ since' = [since EXCEPT ![Loop] = now]
  /\ Goto(Loop, "fire")
  /\ UNCHANGED <<now, end, at, held, gen, faults, restarting, redo, doom, left, cur, on,
                 then, mode, was, slots, counts>>

SoonerByAct(a, b) ==   \* mutant: stops first, whenever they are due
  Act(a.run, a.step) = "stop" /\ Act(b.run, b.step) # "stop"
\* The next fire: the earliest, at one instant a stop before anything else.
\* (The rank of power and RF-on tunes of one instant is left open.)
Sooner(a, b) ==
  \/ a.at < b.at
  \/ a.at = b.at /\ Act(a.run, a.step) = "stop" /\ Act(b.run, b.step) # "stop"
First(b) == b \in batch /\ \A a \in batch : ~Sooner(a, b)

\* A fire collected before the run's StepFires were rebuilt is not one of the
\* run's any more: its mark is its own.
OfRun(b) == b.gen = gen[b.run]
MarkOf(b) == IF OfRun(b) THEN mark[b.run][b.step] ELSE "open"
Fireable(b) == st[b.run] \in Firing /\ MarkOf(b) = "open"

SetMarkPlain(b, m) ==   \* mutant: one sentinel for all that is skipped
  mark' = IF OfRun(b) THEN [mark EXCEPT ![b.run][b.step] = IF m = "fired" THEN m ELSE "skipped"]
          ELSE mark
SetMark(b, m) == mark' = IF OfRun(b) THEN [mark EXCEPT ![b.run][b.step] = m] ELSE mark

\* _tune_target_stale: the run has stopped the task since it launched it, or
\* another run has launched it since.
FiredLast(r, t, act) ==
  Most({0} \cup {k \in DOMAIN log[t] : /\ log[t][k][1] = r
                                       /\ mark[r][log[t][k][2]] = "fired"
                                       /\ Act(r, log[t][k][2]) = act})
StaleNever(r, t) == FALSE   \* mutant: a deferred tune is fired whoever is there
Stale(r, t) ==
  /\ FiredLast(r, t, "start") > 0
  /\ \/ FiredLast(r, t, "stop") > FiredLast(r, t, "start")
     \/ \E q \in Run \ {r} : /\ st[q] \in Active
                             /\ FiredLast(q, t, "start") > FiredLast(r, t, "start")

\* The run or the fire has been overtaken since the tick collected it.
FireSkipped(b) ==
  /\ At(Loop, "fire") /\ First(b)
  /\ ~Fireable(b)
  /\ batch' = batch \ {b}
  /\ UNCHANGED <<now, runs, faults, restarting, redo, doom, left, pc, hand, slots, counts>>

\* A tune of a task whose socket is not bound yet is left for a later tick.
TuneDeferred(b) ==
  LET t == TaskOf(b.run, b.step) IN
  /\ At(Loop, "fire") /\ First(b)
  /\ Fireable(b) /\ Act(b.run, b.step) = "tune"
  /\ ~Stale(b.run, t) /\ t \in Binding
  /\ batch' = batch \ {b}
  /\ UNCHANGED <<now, runs, faults, restarting, redo, doom, left, pc, hand, slots, counts>>

TuneDropped(b) ==
  /\ At(Loop, "fire") /\ First(b)
  /\ Fireable(b) /\ Act(b.run, b.step) = "tune"
  /\ Stale(b.run, TaskOf(b.run, b.step))
  /\ batch' = batch \ {b}
  /\ SetMark(b, "stale")
  /\ cur' = [cur EXCEPT ![Loop] = b.run]
  /\ Goto(Loop, "after")
  /\ UNCHANGED <<now, st, end, at, held, gen, faults, restarting, redo, doom, left, on,
                 then, since, mode, was, slots, counts>>

\* The mark comes first, so that a slow step is not fired twice.
Take(b) ==
  /\ batch' = batch \ {b}
  /\ SetMark(b, "fired")
  /\ st' = [st EXCEPT ![b.run] = "RUNNING"]
  /\ cur' = [cur EXCEPT ![Loop] = b.run]
Logged(b) ==
  LET t == TaskOf(b.run, b.step) IN
  log' = IF OfRun(b) THEN [log EXCEPT ![t] = Append(@, <<b.run, b.step>>)] ELSE log

Tune(b) ==
  LET t == TaskOf(b.run, b.step) IN
  /\ At(Loop, "fire") /\ First(b)
  /\ Fireable(b) /\ Act(b.run, b.step) = "tune"
  /\ ~Stale(b.run, t)
  /\ Take(b)
  /\ on' = [on EXCEPT ![Loop] = t]
  /\ Goto(Loop, "tuning")
  /\ UNCHANGED <<now, end, at, held, gen, faults, restarting, redo, doom, left, then,
                 since, mode, was, slots, counts>>
Tuned ==
  /\ At(Loop, "tuning")
  /\ Goto(Loop, "after")
  /\ UNCHANGED <<now, runs, faults, restarting, work, hand, slots, counts>>

Stop(b) ==
  /\ At(Loop, "fire") /\ First(b)
  /\ Fireable(b) /\ Act(b.run, b.step) = "stop"
  /\ Take(b) /\ Logged(b)
  /\ StopTask(Loop, TaskOf(b.run, b.step), "after")
  /\ UNCHANGED <<now, end, at, held, gen, faults, restarting, redo, doom, left, since,
                 mode, was, owner, newer, bound, alarm, counts>>

\* ProcessManager.start, up to its gates.
Start(b) ==
  LET t == TaskOf(b.run, b.step) IN
  /\ At(Loop, "fire") /\ First(b)
  /\ Fireable(b) /\ Act(b.run, b.step) = "start"
  /\ Take(b) /\ Logged(b)
  /\ on' = [on EXCEPT ![Loop] = t]
  /\ opStop' = [opStop EXCEPT ![t] = FALSE]
  /\ Goto(Loop, "parked")
  /\ UNCHANGED <<now, end, at, held, gen, faults, restarting, redo, doom, left, then,
                 since, mode, was, air, owner, newer, bound, alarm, counts>>

\* The gates open.  A stop meanwhile, a taken slot or the pre-command refuses
\* the launch, which the run takes for a fault of the task.
Unpark ==
  LET t == on[Loop] IN
  /\ At(Loop, "parked")
  /\ \/ /\ ~opStop[t] /\ air[t] = "off"
        /\ air' = [air EXCEPT ![t] = "starting"]
        /\ Goto(Loop, "exec")
        /\ UNCHANGED <<mark, fault, faultAt, newer, failures>>
     \/ /\ opStop[t] \/ air[t] # "off" \/ failures < MaxFaults
        /\ failures' = IF opStop[t] \/ air[t] # "off" THEN failures ELSE failures + 1
        /\ Couple(t)
        /\ Goto(Loop, "launched")
        /\ UNCHANGED air
  /\ UNCHANGED <<now, st, end, at, held, gen, again, tries, mended, gaveUp, restarting, work, hand,
                 owner, bound, opStop, alarm, log, crashes>>

\* The spawn returns: on the air, or killed because a stop landed, or failed.
Exec ==
  LET t == on[Loop] IN
  /\ At(Loop, "exec")
  /\ \/ /\ air[t] = "starting"
        /\ air' = [air EXCEPT ![t] = "on"]
        /\ owner' = [owner EXCEPT ![t] = cur[Loop]]
        /\ bound' = [bound EXCEPT ![t] = FALSE]
        /\ newer' = [newer EXCEPT ![t] = {r \in Run : FaultTask(r) = t}]
        /\ alarm' = [alarm EXCEPT ![t] = IF @ = "none" THEN @ ELSE "past"]
        /\ Goto(Loop, "launched")
        /\ UNCHANGED <<mark, fault, faultAt, failures>>
     \/ /\ air[t] = "doomed" \/ failures < MaxFaults
        /\ failures' = IF air[t] = "doomed" THEN failures ELSE failures + 1
        /\ air' = [air EXCEPT ![t] = "off"]
        /\ Couple(t)
        /\ pc' = [Woken(t) EXCEPT ![Loop] = "launched"]
        /\ UNCHANGED <<owner, bound, alarm>>
  /\ UNCHANGED <<now, st, end, at, held, gen, again, tries, mended, gaveUp, restarting, work, hand,
                 opStop, log, crashes>>

LaunchedUnchecked ==   \* mutant: what was launched stays
  /\ At(Loop, "launched")
  /\ Goto(Loop, "after")
  /\ UNCHANGED <<now, runs, faults, restarting, work, hand, slots, counts>>

\* A launch that comes up into a run that is over is stopped again.
Launched ==
  /\ At(Loop, "launched")
  /\ IF st[cur[Loop]] \in Active
     THEN Goto(Loop, "after") /\ UNCHANGED <<opStop, air, then, on>>
     ELSE StopTask(Loop, on[Loop], "after")
  /\ UNCHANGED <<now, runs, faults, restarting, work, cur, since, mode, was, owner, newer,
                 bound, alarm, log, counts>>

\* _maybe_complete.
After ==
  LET r == cur[Loop] IN
  /\ At(Loop, "after")
  /\ st' = [st EXCEPT ![r] =
       IF /\ @ = "RUNNING" /\ AllDone(r) /\ end[r] # Never
          /\ fault[r] = <<>> \/ ChannelOver(r)
       THEN "COMPLETED" ELSE @]
  /\ Goto(Loop, "fire")
  /\ UNCHANGED <<now, end, at, mark, held, gen, faults, restarting, work, hand, slots, counts>>

\* _service_holds: enter a Hold, and collect the runs held too long.
Holds ==
  /\ At(Loop, "fire") /\ batch = {}
  /\ st' = [r \in Run |-> IF r \in Holding(since[Loop]) THEN "HOLDING" ELSE st[r]]
  /\ held' = [r \in Run |-> IF r \in Holding(since[Loop]) THEN since[Loop] ELSE held[r]]
  /\ doom' = [doom EXCEPT ![Loop] = HeldTooLong(since[Loop])]
  /\ Goto(Loop, "sweep")
  /\ UNCHANGED <<now, end, at, mark, gen, faults, restarting, batch, redo, left, hand,
                 slots, counts>>

-----------------------------------------------------------------------------
(* Restart of a run whose task failed.                                     *)

\* What a restart begun at s re-instates, and when it fires then.
Shift(r, s, how) == IF how = "replay" THEN s - faultAt[r] ELSE 0
Reinstated(r, s, how) ==
  {i \in Slot : /\ mark[r][i] = "fault" /\ TaskOf(r, i) = FaultTask(r)
                /\ how = "replay" \/ at[r][i] > s}
Later(r, i, s, how) ==
  IF how = "replay" THEN Most({at[r][i] + Shift(r, s, how), s + 1}) ELSE at[r][i]
NewEnd(r, s, how) == IF end[r] = Never THEN Never ELSE end[r] + Shift(r, s, how)
NewAt(r, s, how) ==
  [i \in Slot |-> IF i \in Reinstated(r, s, how) THEN Later(r, i, s, how) ELSE at[r][i]]

\* _plan_restart: there must be a STOP to come, and a replay must not run
\* into another run.  (The down-time is never nothing, if short.)
StopToCome(r, s, how) ==
  \E i \in Fires(r) :
                  /\ Act(r, i) = "stop" /\ TaskOf(r, i) = FaultTask(r)
                  /\ i \in Reinstated(r, s, how) \/ mark[r][i] = "open"
                  /\ NewAt(r, s, how)[i] > s
NewChannelEnd(r, s, how) ==
  Most({NewEnd(r, s, how), s} \cup {NewAt(r, s, how)[i] : i \in Fires(r)})
Plannable(r, s, how) ==
  /\ end[r] # Never => StopToCome(r, s, how)
  /\ (how = "replay" /\ end[r] # Never) =>
       \A q \in Run \ {r} : st[q] \in Active =>
         ~(s < ChannelEnd(q) /\ ChannelStart(q) < NewChannelEnd(r, s, how))

\* _relaunch_start_fire: nothing to relaunch when the latest step that counts
\* is a STOP.
Counts(r, i, s, how) ==
  /\ mark[r][i] = "fired" \/ (how = "resync" /\ mark[r][i] \in {"fault", "late"})
  /\ at[r][i] <= s /\ TaskOf(r, i) = FaultTask(r) /\ Act(r, i) # "tune"
ScheduledOff(r, s, how) ==
  \E i \in Slot :
    /\ Counts(r, i, s, how) /\ Act(r, i) = "stop"
    /\ \E k \in Slot : Counts(r, k, s, how) /\ Act(r, k) = "start" /\ Before(r, k, i)
    /\ \A k \in Slot : (Counts(r, k, s, how) /\ Act(r, k) = "start") => Before(r, k, i)

Restartable(r) == st[r] = "RUNNING" /\ fault[r] # <<>>
\* _started_after: the process is not the one that failed.
StartedAfter(r) ==
  LET t == FaultTask(r) IN air[t] # "off" /\ r \in newer[t]

\* A refused automatic restart is given up, a restart by hand ends.
Refused(c, r) ==
  /\ IF c = Loop /\ Restartable(r)
     THEN gaveUp' = gaveUp \cup {r} /\ tries' = [tries EXCEPT ![r] = Most({@, Budget})]
     ELSE UNCHANGED <<gaveUp, tries>>
  /\ Goto(c, IF c = Loop THEN "redo" ELSE "done")

\* restart_run, up to the stop of what may be left of the failed process.
Restart(c, r, how, label) ==
  /\ At(c, label)
  /\ cur' = [cur EXCEPT ![c] = r]
  /\ since' = [since EXCEPT ![c] = now]
  /\ mode' = [mode EXCEPT ![c] = how]
  /\ was' = [was EXCEPT ![c] = fault[r]]
  /\ IF Restartable(r) /\ Plannable(r, now, how) /\ ~StartedAfter(r)
     THEN IF r \in restarting
          THEN /\ Goto(c, IF c = Loop THEN "redo" ELSE "done")
               /\ UNCHANGED <<gaveUp, tries, restarting, opStop, air, then, on>>
          ELSE /\ restarting' = restarting \cup {r}
               /\ StopTask(c, FaultTask(r), "recheck")
               /\ UNCHANGED <<gaveUp, tries>>
     ELSE Refused(c, r) /\ UNCHANGED <<restarting, opStop, air, then, on>>
  /\ UNCHANGED <<now, runs, fault, faultAt, again, mended, batch, doom, left, owner, newer,
                 bound, alarm, log, counts>>

RestartByHand(c, r, how) ==
  /\ c \in Caller /\ Restartable(r)
  /\ NewEnd(r, now, how) \in 0 .. Latest \cup {Never}
  /\ Restart(c, r, how, "idle")
  /\ UNCHANGED redo

\* What restart_run checks again once the process is gone.
Recheck(c) ==
  LET r == cur[c] IN
  /\ air[on[c]] \notin {"on", "leaving"}
  /\ Restartable(r) /\ fault[r] = was[c]
  /\ Plannable(r, since[c], mode[c])

RestartRefused(c) ==
  /\ At(c, "recheck") /\ ~Recheck(c)
  /\ restarting' = restarting \ {cur[c]}
  /\ Refused(c, cur[c])
  /\ UNCHANGED <<now, runs, fault, faultAt, again, mended, work, hand, slots, counts>>

Commit(c) ==
  LET r == cur[c]
      s == since[c]
      back == Reinstated(r, s, mode[c])
      off == ScheduledOff(r, s, mode[c])
  IN
  /\ At(c, "recheck") /\ Recheck(c)
  /\ at' = [at EXCEPT ![r] = [i \in Slot |->
       IF i = N /\ ~off THEN s ELSE NewAt(r, s, mode[c])[i]]]
  /\ mark' = [mark EXCEPT ![r] = [i \in Slot |->
       IF i \in back \/ (i = N /\ ~off) THEN "open" ELSE @[i]]]
  /\ end' = [end EXCEPT ![r] = NewEnd(r, s, mode[c])]
  /\ again' = [again EXCEPT ![r] = IF off THEN @ ELSE on[c]]
  /\ fault' = [fault EXCEPT ![r] = <<>>]
  /\ tries' = [tries EXCEPT ![r] = IF c = Loop THEN @ + 1 ELSE 0]
  /\ mended' = [mended EXCEPT ![r] = IF c = Loop THEN on[c] ELSE NoTask]
  /\ gaveUp' = gaveUp \ {r}
  /\ restarting' = restarting \ {r}
  /\ Goto(c, IF c = Loop THEN "redo" ELSE "done")
  /\ UNCHANGED <<now, st, held, gen, faultAt, work, hand, slots, counts>>

\* _service_auto_restart: pick the runs to restart while their budget lasts,
\* and give up on the others.
Collect ==
  /\ At(Loop, "collect")
  /\ redo' = {r \in Failed : tries[r] < Budget}
  /\ gaveUp' = gaveUp \cup {r \in Failed : tries[r] >= Budget}
  /\ Goto(Loop, "redo")
  /\ UNCHANGED <<now, runs, fault, faultAt, again, tries, mended, restarting, batch, doom,
                 left, hand, slots, counts>>
\* A tick finds the task it mended well for long enough: the budget is whole.
Forgive(r) ==
  /\ At(Loop, "idle") /\ r \in Settled
  /\ tries' = [tries EXCEPT ![r] = 0] /\ mended' = [mended EXCEPT ![r] = NoTask]
  /\ gaveUp' = gaveUp \ {r}
  /\ UNCHANGED <<now, runs, fault, faultAt, again, restarting, work, pc, hand, slots, counts>>
RestartUnattended(r) ==
  /\ r \in redo
  /\ redo' = redo \ {r}
  /\ Restart(Loop, r, "resync", "redo")
Sleep ==
  /\ At(Loop, "redo") /\ redo = {}
  /\ Goto(Loop, "idle")
  /\ UNCHANGED <<now, runs, faults, restarting, work, hand, slots, counts>>

-----------------------------------------------------------------------------
(* The tasks, time, and the agent's death.                                 *)

\* The script binds its control socket, whatever the event loop does.
Bind(t) ==
  /\ t \in Binding
  /\ bound' = [bound EXCEPT ![t] = TRUE]
  /\ UNCHANGED <<now, runs, faults, restarting, work, pc, hand, air, owner, newer, opStop,
                 alarm, log, counts>>

\* The process exits because it was told to.
Exit(t) ==
  /\ Quiet /\ air[t] = "leaving"
  /\ air' = [air EXCEPT ![t] = "off"]
  /\ pc' = Woken(t)
  /\ UNCHANGED <<now, runs, faults, restarting, work, hand, owner, newer, bound, opStop,
                 alarm, log, counts>>

\* The task is found halted but alive, or its process dies.  The alarm takes
\* its snapshot first, so it reaches the runner in a step of its own.
Fail(t) ==
  /\ Quiet /\ air[t] = "on" /\ alarm[t] = "none"
  /\ failures < MaxFaults /\ failures' = failures + 1
  /\ \/ alarm' = [alarm EXCEPT ![t] = "wedge"] /\ UNCHANGED air
     \/ alarm' = [alarm EXCEPT ![t] = "past"] /\ air' = [air EXCEPT ![t] = "off"]
  /\ UNCHANGED <<now, runs, faults, restarting, work, pc, hand, owner, newer, bound, opStop,
                 log, crashes>>

\* The alarm arrives.  A task that is still wedged is stopped, which does not
\* count as an operator's stop.
Alarm(t) ==
  /\ \A c \in Coroutine : ~InHand(c)
  /\ alarm[t] # "none"
  /\ Couple(t)
  /\ alarm' = [alarm EXCEPT ![t] = "none"]
  /\ air' = [air EXCEPT ![t] = IF alarm[t] = "wedge" /\ @ = "on" THEN "leaving" ELSE @]
  /\ UNCHANGED <<now, st, end, at, held, gen, again, tries, mended, gaveUp, restarting,
                 work, pc, hand, owner, bound, opStop, log, counts>>

\* An alarm arrives, and a restart goes on, before the clock moves on.
TimePasses ==
  /\ Quiet /\ \A t \in Task : alarm[t] = "none"
  /\ \A c \in Coroutine :
       (pc[c] \in {"stopping", "muting"} /\ then[c] = "recheck") => now - since[c] < Patience
  /\ now < Horizon
  /\ now' = now + 1
  /\ UNCHANGED <<runs, faults, restarting, work, pc, hand, slots, counts>>

\* _reconcile_on_startup: a run that has or should have begun is aborted.
Reconciled(r) ==
  IF st[r] \in Active
  THEN IF /\ st[r] \in Firing
          /\ \A i \in Fires(r) : mark[r][i] = "open" /\ at[r][i] > now
       THEN st[r] ELSE "ABORTED"
  ELSE st[r]

\* The agent is killed, its tasks with it, and starts again.  (What of a run
\* was not saved is a mark whose step is due, which aborts the run as well.)
CrashAndRestart ==
  /\ crashes < MaxCrashes /\ crashes' = crashes + 1
  /\ st' = [r \in Run |-> Reconciled(r)]
  /\ gaveUp' = {} /\ restarting' = {} /\ batch' = {} /\ redo' = {}
  /\ doom' = [c \in Coroutine |-> {}] /\ left' = [c \in Coroutine |-> {}]
  /\ pc' = [c \in Coroutine |-> IF c = Loop \/ pc[c] = "idle" THEN "idle" ELSE "done"]
  /\ air' = [t \in Task |-> "off"] /\ alarm' = [t \in Task |-> "none"]
  /\ UNCHANGED <<now, end, at, mark, held, gen, fault, faultAt, again, tries, mended, hand,
                 owner, newer, bound, opStop, log, failures>>

Next ==
  \/ \E r \in Run : \/ Arm(r) \/ HoldNow(r) \/ (\E to \in Ends : Patch(r, to))
                    \/ \E resume \in {now, now + 1} : Proceed(r, resume)
                    \/ RestartUnattended(r) \/ Forgive(r)
  \/ \E c \in Caller : \/ AbortAll(c)
                       \/ \E r \in Run : \/ Cancel(c, r)
                                         \/ \E how \in Modes :
                                              RestartByHand(c, r, how)
  \/ \E c \in Coroutine : \/ Muted(c) \/ Swept(c) \/ RestartRefused(c) \/ Commit(c)
                          \/ \E r \in Run : Abort(c, r)
                          \/ \E n \in {1, 2}, t \in Task : Sweep(c, n, t)
  \/ \E b \in batch : \/ FireSkipped(b) \/ TuneDeferred(b) \/ TuneDropped(b)
                      \/ Tune(b) \/ Start(b) \/ Stop(b)
  \/ Tick \/ Tuned \/ Unpark \/ Exec \/ Launched \/ After \/ Holds \/ Collect \/ Sleep
  \/ \E t \in Task : Bind(t) \/ Exit(t) \/ Fail(t) \/ Alarm(t)
  \/ TimePasses \/ CrashAndRestart

Spec == Init /\ [][Next]_vars

\* The event loop runs whoever can run, spawns return, a process that was told
\* to stop exits and one that has come up binds its socket; the clock goes on.
LoopStep ==
  \/ \E b \in batch : \/ FireSkipped(b) \/ TuneDeferred(b) \/ TuneDropped(b)
                      \/ Tune(b) \/ Start(b) \/ Stop(b)
  \/ Tick \/ Tuned \/ Unpark \/ Exec \/ Launched \/ After \/ Holds \/ Collect \/ Sleep
  \/ \E r \in Run : RestartUnattended(r)
AwaitOver(c) ==
  \/ Muted(c) \/ Swept(c) \/ RestartRefused(c) \/ Commit(c)
  \/ \E r \in Run : Abort(c, r)
  \/ \E n \in {1, 2}, t \in Task : Sweep(c, n, t)
FairSpec ==
  /\ Spec /\ WF_vars(LoopStep) /\ WF_vars(TimePasses)
  /\ \A c \in Coroutine : WF_vars(AwaitOver(c))
  /\ \A t \in Task : WF_vars(Bind(t)) /\ WF_vars(Exit(t)) /\ WF_vars(Alarm(t))

-----------------------------------------------------------------------------
(* Properties.                                                             *)

RunTypes ==
  /\ st \in [Run -> RunState \cup {"none"}] /\ end \in [Run -> Nat]
  /\ at \in [Run -> [Slot -> Int]] /\ mark \in [Run -> [Slot -> Mark]]
  /\ held \in [Run -> Nat] /\ gen \in [Run -> Nat]
FaultTypes ==
  /\ fault \in [Run -> Seq(Task)] /\ faultAt \in [Run -> Nat]
  /\ again \in [Run -> Task \cup {NoTask}] /\ mended \in [Run -> Task \cup {NoTask}]
  /\ tries \in [Run -> Nat] /\ gaveUp \subseteq Run /\ restarting \subseteq Run
WorkTypes ==
  /\ batch \subseteq [run : Run, step : Slot, gen : Nat, at : Int]
  /\ redo \subseteq Run /\ doom \in [Coroutine -> SUBSET Run]
  /\ left \in [Coroutine -> SUBSET ({1, 2} \X Task)]
HandTypes ==
  /\ pc \in [Coroutine -> Label] /\ then \in [Coroutine -> Label]
  /\ cur \in [Coroutine -> Run \cup {NoRun}] /\ on \in [Coroutine -> Task \cup {NoTask}]
  /\ since \in [Coroutine -> Nat] /\ mode \in [Coroutine -> {"resync", "replay"}]
  /\ was \in [Coroutine -> Seq(Task)]
TaskTypes ==
  /\ air \in [Task -> {"off", "starting", "doomed", "on", "leaving"}]
  /\ owner \in [Task -> Run \cup {NoRun}] /\ newer \in [Task -> SUBSET Run]
  /\ bound \in [Task -> BOOLEAN] /\ opStop \in [Task -> BOOLEAN]
  /\ alarm \in [Task -> {"none", "wedge", "past"}]
  /\ log \in [Task -> Seq(Run \X Slot)]

\* The types of the variables.
TypeOK ==
  /\ RunTypes /\ FaultTypes /\ WorkTypes /\ HandTypes /\ TaskTypes
  /\ now \in Nat /\ failures \in Nat /\ crashes \in Nat

\* Nothing stays on the air for a run that is over: whoever ended it has the
\* task still to stop, or the launch that has just come up is about to be.
\* (The two sweeps of _abort_run and the check of _fire_step after a launch.)
Silent ==
  \A t \in Task, r \in Run :
    (air[t] = "on" /\ owner[t] = r /\ st[r] \notin Active) =>
      \/ \E c \in Coroutine : cur[c] = r /\ \E n \in {1, 2} : <<n, t>> \in left[c]
      \/ pc[Loop] = "launched" /\ cur[Loop] = r /\ on[Loop] = t

\* A task on the air for a run with a known end has a STOP to come, unless the
\* alarm that will stop it is on its way.  (on_task_fault skips the STOP, a
\* restart re-instates it, and the batch of a tick is older than both.)
WillStop ==
  \A t \in Task, r \in Run :
    (air[t] = "on" /\ owner[t] = r /\ st[r] \in Firing /\ end[r] # Never) =>
      \/ \E i \in Slot : mark[r][i] = "open" /\ Act(r, i) = "stop" /\ TaskOf(r, i) = t
      \/ alarm[t] = "wedge"

\* From now on, two runs that launch the same task never have the channel at
\* the same time.  (arm's guard A sees the spans of the moment: a Hold, an end
\* that is moved and a proceed change them later.)
ChannelFree ==
  \A r, q \in Run :
    (r # q /\ {st[r], st[q]} \subseteq Active /\ Launches(r) \cap Launches(q) # {}) =>
      Least({ChannelEnd(r), ChannelEnd(q)}) <= Most({ChannelStart(r), ChannelStart(q), now})

\* A tune never reaches a process that another run launched, unless the run
\* never launched the task itself.  (A tune that _fire_step deferred may become
\* due again when the task is the next run's.)
NoForeignTune ==
  LET t == on[Loop] IN
  (pc[Loop] = "tuning" /\ air[t] = "on" /\ FiredLast(cur[Loop], t, "start") > 0) =>
    owner[t] = cur[Loop]

\* Every run with a known end is over some time after it, whatever fails: a
\* faulted run does not complete by its last fire, so the tick must end it.
RunEnds == \A r \in Run : (st[r] \in Firing /\ end[r] # Never) ~> st[r] \notin Firing

\* _service_holds: a run that is not let proceed within max_hold_s leaves its
\* Hold.
DeadmanTrips ==
  \A r \in Run : (st[r] = "HOLDING" /\ held[r] + MaxHold < Horizon) ~> st[r] # "HOLDING"

\* _service_auto_restart: a fault of a run that restarts unattended is mended
\* or given up, or the run is over.  It defers while the process is still alive.
FaultAttended ==
  \A r \in Unattended : (st[r] = "RUNNING" /\ fault[r] # <<>>) ~>
                    (st[r] # "RUNNING" \/ fault[r] = <<>> \/ r \in gaveUp)
=============================================================================
