------------------------- MODULE SequenceStopProofs -------------------------
(***************************************************************************)
(* Proofs that in SequenceRunner what is on the air will be stopped and a  *)
(* tune reaches no other run's process, for the plain plans: one task, one *)
(* START with a STOP after it, no Hold, windows that are far enough apart  *)
(* for the stop of a restart, and no replays, moved ends or slow alarms.   *)
(***************************************************************************)
EXTENDS SequenceRunnerProofs

-----------------------------------------------------------------------------
(* The plans.                                                              *)

\* What a plan says of a step, whatever the state: its root, and when it fires.
Anchor(r, i) ==
  LET s == Plan[r].steps[i] IN IF s.base = "step" THEN Plan[r].steps[s.of] ELSE s
When(r, i) ==
  LET s == Plan[r].steps[i] IN
  (IF Anchor(r, i).base = "start" THEN Plan[r].on ELSE Plan[r].off)
  + Anchor(r, i).off + (IF s.base = "step" THEN s.off ELSE 0)

Opens(r) == {i \in Steps(r) : Plan[r].steps[i].act = "start"}
Closes(r) == {i \in Steps(r) : Plan[r].steps[i].act = "stop"}
LastStop(r) == CHOOSE j \in Closes(r) : \A k \in Closes(r) : When(r, k) <= When(r, j)

\* Two runs that launch a task in common; of such two, the earlier one.
Rivals(q, r) ==
  q # r /\ \E j \in Opens(q), i \in Opens(r) : Plan[q].steps[j].task = Plan[r].steps[i].task
Early(q, r) == \A j \in Steps(q), i \in Steps(r) : When(q, j) <= When(r, i)

\* A plan of one task without a Hold, whose times all follow from its window and
\* none of which precedes its lead-in, which starts the task at most once and
\* then stops it later on.
Plainly(r) ==
  /\ Plan[r].hold = Never /\ Plan[r].off # Never
  /\ \A i \in Steps(r) :
       /\ Anchor(r, i).base \in {"start", "stop"} /\ When(r, i) < Never
       /\ LET leads == {k \in Steps(r) : Plan[r].steps[k].base = "start"}
          IN  IF leads = {} THEN Plan[r].on <= When(r, i)
                            ELSE \E k \in leads : When(r, k) <= When(r, i)
  /\ \A i, j \in Steps(r) : Plan[r].steps[i].task = Plan[r].steps[j].task
  /\ \A i \in Opens(r) :
       Opens(r) = {i} /\ \E j \in Closes(r) : /\ When(r, i) < When(r, j)
                                              /\ \A k \in Closes(r) : When(r, k) <= When(r, j)

\* The plans are plain, of two rivals the earlier one is over so long before the
\* later one starts that a restart cannot wait past it, and the known violations
\* of WillStop that are about a moved end, a replay or a slow alarm are out.
Orderly ==
  /\ SlowAlarm = FALSE /\ Ends = {} /\ Modes \subseteq {"resync"}
  /\ \A r \in Run : Plan[r].on < Never /\ Plainly(r)
  /\ \A q, r \in Run : (Rivals(q, r) /\ Early(q, r)) =>
       \A j \in Closes(q), i \in Opens(r) : When(q, j) + Patience <= When(r, i)

\* What that says of a run.
LEMMA Plans ==
  ASSUME Orderly, NEW r \in Run
  PROVE  /\ ~HasHold(r) /\ ~OpenEnded(r) /\ AtArm(r) = Steps(r)
         /\ \A i \in Steps(r) :
              /\ i \in Slot /\ i # N
              /\ TaskOf(r, i) = Plan[r].steps[i].task /\ Act(r, i) = Plan[r].steps[i].act
              /\ When(r, i) \in Int /\ When(r, i) < Never
              /\ \A x : FireAt(r, i, Plan[r].off, x) = When(r, i)
              /\ \A j \in Steps(r) : TaskOf(r, i) = TaskOf(r, j)
         /\ \A i \in Opens(r) :
              /\ Opens(r) = {i} /\ When(r, i) < When(r, LastStop(r))
              /\ LastStop(r) \in Closes(r)
              /\ \A k \in Closes(r) : When(r, k) <= When(r, LastStop(r))
<1>1. /\ Steps(r) \subseteq Slot /\ N \notin Steps(r) /\ Plan[r].on \in Nat /\ Plan[r].off \in Nat
      /\ \A i \in Steps(r) : StepAt(r, i) = Plan[r].steps[i] /\ StepAt(r, i) \in Step
  BY PlanSteps
<1>2. Plainly(r)
  BY DEF Orderly
<1>3. ~HasHold(r) /\ ~OpenEnded(r)
  BY <1>2 DEF Plainly, HasHold, OpenEnded
<1>4. ASSUME NEW i \in Steps(r)
      PROVE  /\ Root(r, i) \in Steps(r) /\ StepAt(r, Root(r, i)) = Anchor(r, i)
             /\ (Root(r, i) = i) <=> (Plan[r].steps[i].base # "step")
             /\ RootBase(r, i) \in {"start", "stop"}
  <2>1. StepAt(r, i) = Plan[r].steps[i]
    BY <1>1
  <2>2. CASE Plan[r].steps[i].base = "step"
    <3>1. /\ Plan[r].steps[i].of \in Steps(r)
          /\ Plan[r].steps[Plan[r].steps[i].of].base # "step"
      BY <2>2, PlanAssumption DEF Steps
    <3> QED
      BY <1>1, <1>2, <2>1, <2>2, <3>1 DEF Root, RootBase, Anchor, Plainly
  <2>3. CASE Plan[r].steps[i].base # "step"
    BY <1>1, <1>2, <2>1, <2>3 DEF Root, RootBase, Anchor, Plainly
  <2> QED
    BY <2>2, <2>3
<1>5. AtArm(r) = Steps(r)
  BY <1>3, <1>4 DEF AtArm
<1>6. ASSUME NEW i \in Steps(r)
      PROVE  /\ i \in Slot /\ i # N
             /\ TaskOf(r, i) = Plan[r].steps[i].task /\ Act(r, i) = Plan[r].steps[i].act
             /\ When(r, i) \in Int /\ When(r, i) < Never
             /\ \A x : FireAt(r, i, Plan[r].off, x) = When(r, i)
             /\ \A j \in Steps(r) : TaskOf(r, i) = TaskOf(r, j)
  <2>1. i \in Slot /\ i # N /\ When(r, i) < Never
    BY <1>1, <1>2 DEF Plainly
  <2>2. /\ TaskOf(r, i) = Plan[r].steps[i].task /\ Act(r, i) = Plan[r].steps[i].act
        /\ \A j \in Steps(r) : TaskOf(r, i) = TaskOf(r, j)
    BY <1>1, <1>2 DEF Plainly, TaskOf, Act
  <2>3. /\ StepAt(r, i) = Plan[r].steps[i] /\ Plan[r].steps[i].off \in Int
        /\ Anchor(r, i) \in Step /\ Anchor(r, i).off \in Int
    BY <1>1, <1>4 DEF Step
  <2>4. When(r, i) \in Int
    BY <1>1, <2>3 DEF When
  <2>5. ASSUME NEW x PROVE FireAt(r, i, Plan[r].off, x) = When(r, i)
    <3>1. /\ RootBase(r, i) = Anchor(r, i).base
          /\ StepAt(r, Root(r, i)).off = Anchor(r, i).off
      BY <1>4 DEF RootBase
    <3>2. CASE RootBase(r, i) = "start"
      BY <1>4, <2>3, <3>1, <3>2 DEF FireAt, When
    <3>3. CASE RootBase(r, i) = "stop"
      BY <1>4, <2>3, <3>1, <3>3 DEF FireAt, When
    <3> QED
      BY <1>4, <3>2, <3>3
  <2> QED
    BY <2>1, <2>2, <2>4, <2>5
<1>7. ASSUME NEW i \in Opens(r)
      PROVE  /\ Opens(r) = {i} /\ When(r, i) < When(r, LastStop(r))
             /\ LastStop(r) \in Closes(r)
             /\ \A k \in Closes(r) : When(r, k) <= When(r, LastStop(r))
  <2>1. Opens(r) = {i}
    BY <1>2 DEF Plainly
  <2>2. PICK j \in Closes(r) : /\ When(r, i) < When(r, j)
                               /\ \A k \in Closes(r) : When(r, k) <= When(r, j)
    BY <1>2 DEF Plainly
  <2>3. /\ LastStop(r) \in Closes(r)
        /\ \A k \in Closes(r) : When(r, k) <= When(r, LastStop(r))
    BY <2>2 DEF LastStop
  <2>4. When(r, i) \in Int /\ When(r, j) \in Int /\ When(r, LastStop(r)) \in Int
    BY <1>6, <2>3 DEF Opens, Closes
  <2> QED
    BY <2>1, <2>2, <2>3, <2>4
<1> QED
  BY <1>3, <1>5, <1>6, <1>7

\* No step is before its plan's lead-in.
LEMMA LeadBefore ==
  ASSUME Orderly, NEW r \in Run, NEW i \in Steps(r)
  PROVE  Lead(r) \in Int /\ Lead(r) <= When(r, i)
<1> DEFINE leads == {k \in Steps(r) : StepAt(r, k).base \in {"start", "enter"}}
           S == {FireAt(r, k, 0, 0) : k \in leads}
<1>1. /\ Steps(r) = 1 .. Len(Plan[r].steps) /\ Len(Plan[r].steps) \in Nat
      /\ \A k \in Steps(r) : StepAt(r, k) = Plan[r].steps[k]
      /\ Plan[r].on \in Nat /\ When(r, i) \in Int
  BY PlanSteps, Plans
<1>2. \A k \in Steps(r) : Plan[r].steps[k].base # "enter"
  BY DEF Orderly, Plainly, Anchor
<1>3. leads = {k \in Steps(r) : Plan[r].steps[k].base = "start"}
  BY <1>1, <1>2
<1>4. \A k \in leads : FireAt(r, k, 0, 0) = When(r, k) /\ When(r, k) \in Int
  <2> TAKE k \in leads
  <2>1. k \in Steps(r) /\ Plan[r].steps[k].base = "start" /\ StepAt(r, k) = Plan[r].steps[k]
    BY <1>1, <1>3
  <2>2. Root(r, k) = k /\ RootBase(r, k) = "start"
    BY <2>1 DEF Root, RootBase
  <2>3. FireAt(r, k, 0, 0) = Plan[r].on + StepAt(r, k).off + 0
    BY <2>2 DEF FireAt
  <2>4. When(r, k) = Plan[r].on + Plan[r].steps[k].off + 0
    BY <2>1 DEF When, Anchor
  <2> QED
    BY <2>1, <2>3, <2>4, Plans
<1>5. CASE leads = {}
  <2>1. Lead(r) = Plan[r].on
    BY <1>5 DEF Lead
  <2>2. Plan[r].on <= When(r, i)
    BY <1>3, <1>5 DEF Orderly, Plainly
  <2> QED
    BY <1>1, <2>1, <2>2
<1>6. CASE leads # {}
  <2> DEFINE n == Len(Plan[r].steps)
             f == [k \in 1 .. n |-> When(r, k)]
  <2>1. f \in [1 .. n -> Int] /\ leads \in SUBSET (1 .. n) /\ n \in Nat
    BY <1>1, Plans
  <2>2. S = {f[k] : k \in leads}
    BY <1>1, <1>4
  <2> HIDE DEF f, n
  <2>3. /\ Least({f[k] : k \in leads}) \in Int
        /\ \A m \in leads : Least({f[k] : k \in leads}) <= f[m]
    BY <1>6, <2>1, LeastOf
  <2>4. Lead(r) = Least(S)
    BY <1>6 DEF Lead
  <2>5. PICK k \in leads : When(r, k) <= When(r, i)
    BY <1>3, <1>6 DEF Orderly, Plainly
  <2>6. f[k] = When(r, k)
    BY <1>1 DEF f, n
  <2>7. When(r, k) \in Int
    BY <1>4
  <2> HIDE DEF leads, S
  <2> QED
    BY <1>1, <2>2, <2>3, <2>4, <2>5, <2>6, <2>7
<1> QED
  BY <1>5, <1>6

\* So it is what ChannelFreeHolds asks of the plans.
LEMMA OrderlyLeads ==
  ASSUME Orderly
  PROVE  LeadFirst
<1>1. ASSUME NEW r \in Run, NEW i \in AtArm(r)
      PROVE  /\ Lead(r) <= FireAt(r, i, Plan[r].off, 0)
             /\ FireAt(r, i, Plan[r].off, 0) < Never
  BY <1>1, Plans, LeadBefore
<1> QED
  BY <1>1 DEF LeadFirst, Orderly

-----------------------------------------------------------------------------
(* The marks of the fires, and the batch that is older than them.          *)

\* A run has begun to transmit once the START of its plan has fired.
Begins(r) == \E i \in Opens(r) : mark[r][i] = "fired"
Starts(r) == Opens(r) \cup {N}
RivalsFiring(q, r) == Rivals(q, r) /\ {st[q], st[r]} \subseteq Firing

\* The fires are when the plan says, none of them marks a Hold, and a STOP is
\* open, has fired or was skipped for a fault.
Laid ==
  \A r \in Run :
    /\ st[r] # "HOLDING"
    /\ st[r] # "none" => /\ end[r] # Never
                         /\ \A i \in Steps(r) : at[r][i] = When(r, i) /\ mark[r][i] # "unset"
    /\ st[r] = "none" => fault[r] = <<>> /\ again[r] = NoTask
    /\ \A j \in Closes(r) : mark[r][j] \in {"unset", "open", "fired", "fault"}

\* What has fired, what is collected and what is relaunched was due, and no
\* START is collected for a time before the one of the plan.
Timed ==
  /\ \A r \in Run, i \in Slot : (mark[r][i] = "fired" \/ i = N) => at[r][i] <= now
  /\ \A r \in Run : again[r] # NoTask => \A i \in Opens(r) : When(r, i) <= at[r][N]
  /\ \A b \in batch :
       /\ at[b.run][b.step] <= now
       /\ b.step \in Closes(b.run) => b.at = When(b.run, b.step)
       /\ b.step \in Starts(b.run) => \A i \in Opens(b.run) : When(b.run, i) <= b.at

\* A faulted run has nothing left to fire, and has begun; so has one relaunched.
Lost ==
  \A r \in Run :
    /\ fault[r] # <<>> => \A i \in Slot : mark[r][i] # "open"
    /\ (fault[r] # <<>> \/ again[r] # NoTask) => Begins(r)

\* A START that is to fire has a STOP to come later, and goes before it in the
\* batch if that has been collected.
Ahead ==
  \A r \in Run : st[r] \in Firing =>
    \A i \in Starts(r) : mark[r][i] = "open" =>
      mark[r][LastStop(r)] = "open" /\ at[r][i] < When(r, LastStop(r))
InOrder ==
  \A r \in Run : st[r] \in Firing =>
    \A i \in Starts(r), b \in batch :
      (mark[r][i] = "open" /\ b.run = r /\ b.step = LastStop(r)) =>
        \E a \in batch : a.run = r /\ a.step = i /\ a.at < b.at

\* Of two rivals one is the earlier; its STOPs are in the batch with the START of
\* the later one, and are over once that has begun.
Disjoint == \A q, r \in Run : RivalsFiring(q, r) => Early(q, r) \/ Early(r, q)
InTurn ==
  \A q, r \in Run : (RivalsFiring(q, r) /\ Early(q, r)) =>
    \A i \in Opens(r), j \in Closes(q), b \in batch :
      (b.run = r /\ b.step = i /\ mark[r][i] = "open" /\ mark[q][j] = "open") =>
        \E a \in batch : a.run = q /\ a.step = j
Gone ==
  \A q, r \in Run : (RivalsFiring(q, r) /\ Early(q, r) /\ Begins(r)) =>
    \A j \in Closes(q) : mark[q][j] # "open"

MarksInv == Laid /\ Timed /\ Lost /\ Ahead /\ InOrder /\ Disjoint /\ InTurn /\ Gone

\* Most steps mark tunes at most, arm nothing and keep of the batch what is still
\* to fire, if they do not lose it.
Steady ==
  /\ UNCHANGED <<at, end, again, fault>> /\ now <= now'
  /\ \A r \in Run : /\ st'[r] \in Firing => st[r] \in Firing
                    /\ st'[r] = "none" <=> st[r] = "none"
                    /\ st'[r] # "HOLDING"
  /\ \A r \in Run, i \in Slot :
       \/ mark'[r][i] = mark[r][i]
       \/ /\ i \notin Starts(r) \cup Closes(r) /\ mark[r][i] = "open" /\ at[r][i] <= now
          /\ mark'[r][i] \notin {"open", "unset"}
  /\ \/ batch' = {}
     \/ /\ batch' \subseteq batch
        /\ \A b \in batch \ batch' : \/ st'[b.run] \notin Firing
                                     \/ mark'[b.run][b.step] # "open"
                                     \/ b.step \notin Starts(b.run) \cup Closes(b.run)
\* Some step tells the runs of a fault: of a task that failed, or of the one that
\* the loop could not launch.
Spawning(t) == pc[Loop] \in {"parked", "exec"} /\ on[Loop] = t
Coupling(t) ==
  /\ Couple(t) /\ UNCHANGED <<now, st, end, at, again, gen, batch>>
  /\ \/ Alarm(t)
     \/ Spawning(t) /\ pc'[Loop] = "launched" /\ air'[t] \in {air[t], "off"}

\* The kinds of steps.
LEMMA MarkKinds ==
  ASSUME Orderly, Sound, Collected, Doomed, Laid, Timed, [Next]_vars
  PROVE  \/ Steady
         \/ \E r \in Run : Arm(r)
         \/ Tick
         \/ \E b \in batch : Start(b) \/ Stop(b)
         \/ \E t \in Task : Coupling(t)
         \/ \E c \in Coroutine : Commit(c)
<1> USE LoopRuns DEF Sound, TypeOK, Laid
<1> DEFINE Same == UNCHANGED <<now, runs, faults, batch>>
<1>0. Same => Steady
  BY DEF runs, faults, Steady
<1>1. ASSUME NEW r \in Run, HoldNow(r) PROVE FALSE
  BY <1>1, Plans DEF HoldNow
<1>2. ASSUME NEW r \in Run, NEW to \in Ends, Patch(r, to) PROVE FALSE
  BY <1>2 DEF Orderly
<1>3. ASSUME NEW r \in Run, NEW resume \in {now, now + 1}, Proceed(r, resume) PROVE FALSE
  BY <1>3 DEF Proceed
<1>4. ASSUME NEW r \in Run, RestartUnattended(r) PROVE Steady
  BY <1>4 DEF RestartUnattended, Restart, runs, work, Steady
<1>5. ASSUME NEW r \in Run, Forgive(r) PROVE Steady
  BY <1>5 DEF Forgive, runs, work, Steady
<1>6. ASSUME NEW c \in Caller, AbortAll(c) PROVE Same
  BY <1>6 DEF AbortAll
<1>7. ASSUME NEW c \in Caller, NEW r \in Run, Cancel(c, r) PROVE Same
  BY <1>7 DEF Cancel
<1>8. ASSUME NEW c \in Caller, NEW r \in Run, NEW how \in Modes, RestartByHand(c, r, how) PROVE Steady
  BY <1>8 DEF RestartByHand, Restart, runs, work, Steady
<1>9. ASSUME NEW c \in Coroutine, Muted(c) PROVE Same
  BY <1>9 DEF Muted, work
<1>10. ASSUME NEW c \in Coroutine, Swept(c) PROVE Same
  BY <1>10 DEF Swept, work
<1>11. ASSUME NEW c \in Coroutine, RestartRefused(c) PROVE Steady
  BY <1>11 DEF RestartRefused, runs, work, Steady
<1>12. ASSUME NEW c \in Coroutine, NEW r \in Run, Abort(c, r) PROVE Steady
  <2>1. st[r] # "none"
    BY <1>12 DEF Abort, Doomed
  <2> QED
    BY <1>12, <2>1 DEF Abort, faults, Firing, RunTypes, Steady
<1>13. ASSUME NEW c \in Coroutine, NEW n \in {1, 2}, NEW t \in Task, Sweep(c, n, t) PROVE Same
  BY <1>13 DEF Sweep
<1>14. ASSUME NEW b \in batch, FireSkipped(b) PROVE Steady
  <2>1. st[b.run] \notin Firing \/ mark[b.run][b.step] # "open"
    BY <1>14 DEF FireSkipped, Fireable, MarkOf, OfRun, Collected
  <2> QED
    BY <1>14, <2>1 DEF FireSkipped, runs, faults, Steady
<1>15. ASSUME NEW b \in batch, b.step \in Starts(b.run) \cup Closes(b.run)
       PROVE  Act(b.run, b.step) # "tune"
  <2>1. b.run \in Run
    BY DEF WorkTypes
  <2>2. CASE b.step = N
    BY <2>2 DEF Act, StepAt
  <2>3. CASE b.step \in Opens(b.run) \cup Closes(b.run)
    BY <2>1, <2>3, Plans DEF Opens, Closes
  <2> QED
    BY <1>15, <2>2, <2>3 DEF Starts
<1>16. ASSUME NEW b \in batch, TuneDeferred(b) PROVE Steady
  <2>1. b.step \notin Starts(b.run) \cup Closes(b.run)
    BY <1>15, <1>16 DEF TuneDeferred
  <2> QED
    BY <1>16, <2>1 DEF TuneDeferred, runs, faults, Steady
<1>17. ASSUME NEW b \in batch, NEW m \in {"fired", "stale"}, Act(b.run, b.step) = "tune", Fireable(b),
              SetMark(b, m), batch' = batch \ {b}, UNCHANGED <<now, end, at, faults>>,
              \A r \in Run : st'[r] = st[r] \/ (st[r] \in Firing /\ st'[r] = "RUNNING")
       PROVE  Steady
  <2>1. b.run \in Run /\ b.step \in Slot /\ b.step \notin Starts(b.run) \cup Closes(b.run)
    BY <1>15, <1>17 DEF WorkTypes
  <2>2. mark[b.run][b.step] = "open" /\ mark' = [mark EXCEPT ![b.run][b.step] = m]
    BY <1>17 DEF Fireable, MarkOf, OfRun, Collected, SetMark
  <2>3. at[b.run][b.step] <= now
    BY <1>17 DEF Timed
  <2> QED
    BY <1>17, <2>1, <2>2, <2>3 DEF faults, Firing, RunTypes, Steady
<1>18. ASSUME NEW b \in batch, TuneDropped(b) PROVE Steady
  BY <1>17, <1>18 DEF TuneDropped
<1>19. ASSUME NEW b \in batch, Tune(b) PROVE Steady
  <2>1. \A r \in Run : st'[r] = st[r] \/ (st[r] \in Firing /\ st'[r] = "RUNNING")
    BY <1>19 DEF Tune, Take, Fireable, RunTypes
  <2> QED
    BY <1>17, <1>19, <2>1 DEF Tune, Take
<1>20. ASSUME Tuned PROVE Same
  BY <1>20 DEF Tuned, work
<1>21. ASSUME Unpark PROVE Steady \/ \E t \in Task : Coupling(t)
  <2>1. on[Loop] \in Task
    BY <1>21 DEF Unpark, At, HandInv, Hand, Launching
  <2>2. CASE UNCHANGED <<mark, fault, faultAt>>
    BY <1>21, <2>2 DEF Unpark, work, runs, faults, Steady
  <2>3. CASE ~UNCHANGED <<mark, fault, faultAt>>
    <3>1. Couple(on[Loop]) /\ UNCHANGED <<now, st, end, at, again, gen, batch>>
      BY <1>21, <2>3 DEF Unpark, work
    <3>2. Spawning(on[Loop]) /\ pc'[Loop] = "launched" /\ air'[on[Loop]] \in {air[on[Loop]], "off"}
      BY <1>21, <2>1, <2>3 DEF Unpark, At, Spawning, Goto, Woken, HandTypes, TaskTypes
    <3> QED
      BY <2>1, <3>1, <3>2 DEF Coupling
  <2> QED
    BY <2>2, <2>3
<1>22. ASSUME Exec PROVE Steady \/ \E t \in Task : Coupling(t)
  <2>1. on[Loop] \in Task
    BY <1>22 DEF Exec, At, HandInv, Hand, Launching
  <2>2. CASE UNCHANGED <<mark, fault, faultAt>>
    BY <1>22, <2>2 DEF Exec, work, runs, faults, Steady
  <2>3. CASE ~UNCHANGED <<mark, fault, faultAt>>
    <3>1. Couple(on[Loop]) /\ UNCHANGED <<now, st, end, at, again, gen, batch>>
      BY <1>22, <2>3 DEF Exec, work
    <3>2. Spawning(on[Loop]) /\ pc'[Loop] = "launched" /\ air'[on[Loop]] \in {air[on[Loop]], "off"}
      BY <1>22, <2>1, <2>3 DEF Exec, At, Spawning, Goto, Woken, HandTypes, TaskTypes
    <3> QED
      BY <2>1, <3>1, <3>2 DEF Coupling
  <2> QED
    BY <2>2, <2>3
<1>23. ASSUME Launched PROVE Same
  BY <1>23 DEF Launched, work
<1>24. ASSUME After PROVE Steady
  BY <1>24 DEF After, work, faults, Firing, RunTypes, Steady
<1>25. ASSUME Holds PROVE Steady
  <2>1. \A r \in Run : r \notin Holding(since[Loop])
    BY Plans DEF Holding
  <2> QED
    BY <1>25, <2>1 DEF Holds, faults, RunTypes, Steady
<1>26. ASSUME Collect PROVE Steady
  BY <1>26 DEF Collect, runs, Steady
<1>27. ASSUME Sleep PROVE Same
  BY <1>27 DEF Sleep, work
<1>28. ASSUME NEW t \in Task, Bind(t) PROVE Same
  BY <1>28 DEF Bind, work
<1>29. ASSUME NEW t \in Task, Exit(t) PROVE Same
  BY <1>29 DEF Exit, work
<1>30. ASSUME NEW t \in Task, Fail(t) PROVE Same
  BY <1>30 DEF Fail, work
<1>31. ASSUME NEW t \in Task, Alarm(t) PROVE Coupling(t)
  BY <1>31 DEF Alarm, work, Coupling
<1>32. ASSUME TimePasses PROVE Steady
  BY <1>32 DEF TimePasses, work, runs, faults, Steady
<1>33. ASSUME CrashAndRestart PROVE Steady
  <2>1. \A r \in Run : st'[r] = st[r] \/ (st[r] \in Active /\ st'[r] = "ABORTED")
    BY <1>33 DEF CrashAndRestart, Reconciled
  <2> QED
    BY <1>33, <2>1 DEF CrashAndRestart, Active, Firing, Steady
<1>34. ASSUME UNCHANGED vars PROVE Same
  BY <1>34 DEF vars, work
<1> HIDE DEF Sound, TypeOK, Laid, Same
<1> QED
  BY <1>0, <1>1, <1>2, <1>3, <1>4, <1>5, <1>6, <1>7, <1>8, <1>9, <1>10, <1>11, <1>12, <1>13,
     <1>14, <1>16, <1>18, <1>19, <1>20, <1>21, <1>22, <1>23, <1>24, <1>25, <1>26, <1>27,
     <1>28, <1>29, <1>30, <1>31, <1>32, <1>33, <1>34 DEF Next

\* The slots that start or stop a run's task.
LEMMA StartsAndCloses ==
  ASSUME Orderly, NEW r \in Run
  PROVE  /\ Opens(r) \subseteq Steps(r) /\ Closes(r) \subseteq Steps(r) /\ Steps(r) \subseteq Slot
         /\ Starts(r) \subseteq Slot /\ N \in Slot /\ N \notin Steps(r)
         /\ Starts(r) \cap Closes(r) = {}
         /\ \A i \in Slot : i \in Steps(r) \/ i = N =>
              /\ Act(r, i) = "start" <=> i \in Starts(r)
              /\ Act(r, i) = "stop" <=> i \in Closes(r)
<1>1. Steps(r) \subseteq Slot /\ N \in Slot /\ N \notin Steps(r)
  BY PlanSteps
<1>2. Act(r, N) = "start"
  BY DEF Act, StepAt
<1>3. \A i \in Steps(r) : Act(r, i) = Plan[r].steps[i].act
  BY Plans
<1> QED
  BY <1>1, <1>2, <1>3 DEF Opens, Closes, Starts

\* What is relaunched was started by the plan, and has a last STOP.
LEMMA Relaunched ==
  ASSUME Orderly, Sound, Lost, NEW r \in Run, NEW i \in Starts(r), mark[r][i] # "unset"
  PROVE  /\ LastStop(r) \in Closes(r) /\ \A k \in Closes(r) : When(r, k) <= When(r, LastStop(r))
         /\ \E k \in Opens(r) : Opens(r) = {k} /\ (i # k => Begins(r))
<1>1. CASE i \in Opens(r)
  BY <1>1, Plans
<1>2. CASE i = N
  <2>1. again[r] # NoTask
    BY <1>2, StartsAndCloses DEF Sound, SlotsInv, Known
  <2>2. PICK k \in Opens(r) : mark[r][k] = "fired"
    BY <2>1 DEF Lost, Begins
  <2> QED
    BY <2>2, Plans DEF Begins
<1> QED
  BY <1>1, <1>2 DEF Starts

\* A steady step keeps the marks and the batch in order.
LEMMA SteadyMarks ==
  ASSUME Orderly, Sound, Sound', MarksInv, Steady
  PROVE  MarksInv'
<1> DEFINE Keeps(r) == \A i \in Starts(r) \cup Closes(r) : mark'[r][i] = mark[r][i]
<1>1. ASSUME NEW r \in Run PROVE Keeps(r) /\ (Begins(r)' <=> Begins(r))
  BY StartsAndCloses DEF Steady, Begins, Starts
<1> HIDE DEF Keeps
<1>2. \A b \in batch : b.run \in Run /\ b.step \in Slot
  BY DEF Sound, TypeOK, WorkTypes
<1>3. now \in Nat /\ now' \in Int /\ now <= now' /\ \A r \in Run, i \in Slot : at[r][i] \in Int
  BY DEF Sound, TypeOK, RunTypes, Steady
<1>4. Laid'
  BY <1>1, StartsAndCloses DEF Steady, MarksInv, Laid, Keeps
<1>5. Timed'
  <2>1. ASSUME NEW r \in Run, NEW i \in Slot, mark'[r][i] = "fired" \/ i = N PROVE at[r][i] <= now'
    <3>1. at[r][i] <= now
      BY <2>1 DEF Steady, MarksInv, Timed
    <3> QED
      BY <1>3, <3>1
  <2>2. ASSUME NEW b \in batch PROVE at[b.run][b.step] <= now'
    BY <1>2, <1>3 DEF MarksInv, Timed
  <2>3. batch' \subseteq batch
    BY DEF Steady
  <2> QED
    BY <2>1, <2>2, <2>3 DEF Steady, MarksInv, Timed
<1>6. Lost'
  BY <1>1 DEF Steady, MarksInv, Lost
<1>7. Ahead'
  <2> SUFFICES ASSUME NEW r \in Run, st'[r] \in Firing, NEW i \in Starts(r), mark'[r][i] = "open"
               PROVE  mark'[r][LastStop(r)] = "open" /\ at'[r][i] < When(r, LastStop(r))
    BY DEF Ahead
  <2>1. mark[r][i] = "open" /\ st[r] \in Firing
    BY <1>1 DEF Steady, Keeps
  <2>2. mark[r][LastStop(r)] = "open" /\ at[r][i] < When(r, LastStop(r))
    BY <2>1 DEF MarksInv, Ahead
  <2>3. LastStop(r) \in Closes(r)
    BY <2>1, Relaunched DEF MarksInv
  <2> QED
    BY <1>1, <2>2, <2>3 DEF Steady, Keeps
<1>8. InOrder'
  <2> SUFFICES ASSUME NEW r \in Run, st'[r] \in Firing, NEW i \in Starts(r), NEW b \in batch',
                      mark'[r][i] = "open", b.run = r, b.step = LastStop(r)
               PROVE  \E a \in batch' : a.run = r /\ a.step = i /\ a.at < b.at
    BY DEF InOrder
  <2>1. mark[r][i] = "open" /\ st[r] \in Firing /\ b \in batch
    BY <1>1 DEF Steady, Keeps
  <2>2. PICK a \in batch : a.run = r /\ a.step = i /\ a.at < b.at
    BY <2>1 DEF MarksInv, InOrder
  <2>3. a \in batch'
    BY <2>2 DEF Steady
  <2> QED
    BY <2>2, <2>3
<1>9. ASSUME NEW q \in Run, NEW r \in Run, RivalsFiring(q, r)' PROVE RivalsFiring(q, r)
  BY <1>9 DEF RivalsFiring, Steady
<1>10. Disjoint'
  BY <1>9 DEF MarksInv, Disjoint
<1>11. InTurn'
  <2> SUFFICES ASSUME NEW q \in Run, NEW r \in Run, RivalsFiring(q, r)', Early(q, r),
                      NEW i \in Opens(r), NEW j \in Closes(q), NEW b \in batch',
                      b.run = r, b.step = i, mark'[r][i] = "open", mark'[q][j] = "open"
               PROVE  \E a \in batch' : a.run = q /\ a.step = j
    BY DEF InTurn
  <2>1. mark[r][i] = "open" /\ mark[q][j] = "open" /\ b \in batch
    BY <1>1 DEF Steady, Keeps, Starts
  <2>2. PICK a \in batch : a.run = q /\ a.step = j
    BY <1>9, <2>1 DEF MarksInv, InTurn
  <2>3. a \in batch'
    BY <2>2 DEF Steady, RivalsFiring
  <2> QED
    BY <2>2, <2>3
<1>12. Gone'
  BY <1>1, <1>9 DEF MarksInv, Gone, Keeps
<1> QED
  BY <1>4, <1>5, <1>6, <1>7, <1>8, <1>10, <1>11, <1>12 DEF MarksInv

\* All that a run fires is of one task.
LEMMA OneTask ==
  ASSUME Orderly, Sound, OwnInv, NEW r \in Run, NEW t \in Touched(r), NEW i \in Known(r)
  PROVE  TaskOf(r, i) = t
<1>1. PICK k \in Steps(r) : TaskOf(r, k) = t
  BY DEF Touched
<1>2. \A j \in Steps(r) : TaskOf(r, j) = t
  BY <1>1, Plans
<1>3. CASE i \in Steps(r)
  BY <1>2, <1>3
<1>4. CASE i = N /\ again[r] # NoTask
  <2>1. again[r] \in Touched(r)
    BY <1>4 DEF OwnInv, FaultsOwn
  <2>2. again[r] = t
    BY <1>2, <2>1 DEF Touched
  <2> QED
    BY <1>4, <2>2 DEF TaskOf, StepAt
<1> QED
  BY <1>3, <1>4 DEF Known

\* A run that is told of a fault has begun, and nothing of it is left to fire.
LEMMA CoupledRuns ==
  ASSUME Orderly, Sound, OwnInv, Lost, NEW t \in Task, Couple(t), NEW r \in Run
  PROVE  /\ r \in Coupled(t) => /\ t \in Touched(r) /\ Begins(r)
                                /\ \A i \in Slot : mark'[r][i] = IF mark[r][i] = "open" THEN "fault"
                                                                 ELSE mark[r][i]
         /\ r \notin Coupled(t) => mark'[r] = mark[r] /\ fault'[r] = fault[r]
<1>1. CASE r \in Coupled(t)
  <2>1. t \in LiveTasks(r) /\ t \in Touched(r)
    BY <1>1, LiveOwn DEF Coupled, Sound, OwnInv
  <2>2. ASSUME NEW i \in Slot
        PROVE  mark'[r][i] = IF mark[r][i] = "open" THEN "fault" ELSE mark[r][i]
    <3>1. CASE mark[r][i] = "open"
      <4>1. i \in Known(r)
        BY <3>1 DEF Sound, SlotsInv
      <4> QED
        BY <1>1, <2>1, <3>1, <4>1, OneTask DEF Couple
    <3> QED
      BY <1>1, <3>1 DEF Couple
  <2>3. PICK i \in Slot : mark[r][i] = "fired" /\ Act(r, i) = "start"
    BY <2>1 DEF LiveTasks
  <2>4. i \in Known(r)
    BY <2>3 DEF Sound, SlotsInv
  <2>5. i \in Starts(r)
    BY <2>3, <2>4, StartsAndCloses DEF Known
  <2>6. Begins(r)
    <3>1. PICK k \in Opens(r) : i # k => Begins(r)
      BY <2>3, <2>5, Relaunched
    <3> QED
      BY <2>3, <3>1 DEF Begins
  <2> QED
    BY <1>1, <2>1, <2>2, <2>6
<1>2. CASE r \notin Coupled(t)
  <2>1. mark'[r] = [i \in Slot |-> mark[r][i]]
    BY <1>2 DEF Couple
  <2> QED
    BY <1>2, <2>1 DEF Couple, Sound, TypeOK, RunTypes
<1> QED
  BY <1>1, <1>2

\* Telling the runs of a fault keeps the marks in order.
LEMMA CoupleMarks ==
  ASSUME Orderly, Sound, OwnInv, MarksInv, NEW t \in Task, Coupling(t)
  PROVE  MarksInv'
<1>1. ASSUME NEW r \in Run
      PROVE  /\ r \in Coupled(t) => /\ t \in Touched(r) /\ Begins(r)
                                    /\ \A i \in Slot : mark'[r][i] = IF mark[r][i] = "open" THEN "fault"
                                                                     ELSE mark[r][i]
             /\ r \notin Coupled(t) => mark'[r] = mark[r] /\ fault'[r] = fault[r]
  BY CoupledRuns DEF MarksInv, Coupling
<1>2. ASSUME NEW r \in Run, NEW i \in Slot
      PROVE  /\ mark'[r][i] = mark[r][i] \/ (mark[r][i] = "open" /\ mark'[r][i] = "fault")
             /\ mark'[r][i] = "open" => mark[r][i] = "open" /\ mark'[r] = mark[r]
  BY <1>1
<1>3. ASSUME NEW r \in Run PROVE Begins(r)' <=> Begins(r)
  BY <1>2, StartsAndCloses DEF Begins
<1>4. Laid'
  <2>1. \A r \in Run : st[r] = "none" => r \notin Coupled(t)
    BY DEF Coupled, Active, Firing
  <2> QED
    BY <1>1, <1>2, <2>1, StartsAndCloses DEF Coupling, MarksInv, Laid
<1>5. Timed'
  BY <1>2 DEF Coupling, MarksInv, Timed
<1>6. Lost'
  <2>1. \A r \in Run : r \in Coupled(t) => \A i \in Slot : mark'[r][i] # "open"
    BY <1>1
  <2> QED
    BY <1>1, <1>3, <2>1 DEF Coupling, MarksInv, Lost
<1>7. Ahead'
  <2> SUFFICES ASSUME NEW r \in Run, st'[r] \in Firing, NEW i \in Starts(r), mark'[r][i] = "open"
               PROVE  mark'[r][LastStop(r)] = "open" /\ at'[r][i] < When(r, LastStop(r))
    BY DEF Ahead
  <2>1. mark[r][i] = "open" /\ mark'[r] = mark[r]
    BY <1>2, StartsAndCloses
  <2> QED
    BY <2>1 DEF Coupling, MarksInv, Ahead
<1>8. InOrder'
  BY <1>2, StartsAndCloses DEF Coupling, MarksInv, InOrder
<1>9. Disjoint'
  BY DEF Coupling, MarksInv, Disjoint, RivalsFiring
<1>10. InTurn'
  <2>1. ASSUME NEW r \in Run, NEW i \in Opens(r) \cup Closes(r), mark'[r][i] = "open"
        PROVE  mark[r][i] = "open"
    BY <1>2, <2>1, StartsAndCloses
  <2> QED
    BY <2>1 DEF Coupling, MarksInv, InTurn, RivalsFiring
<1>11. Gone'
  <2>1. ASSUME NEW r \in Run, NEW i \in Closes(r), mark'[r][i] = "open"
        PROVE  mark[r][i] = "open"
    BY <1>2, <2>1, StartsAndCloses
  <2> QED
    BY <1>3, <2>1 DEF Coupling, MarksInv, Gone, RivalsFiring
<1> QED
  BY <1>4, <1>5, <1>6, <1>7, <1>8, <1>9, <1>10, <1>11 DEF MarksInv

\* What the loop takes is an open fire of its run.
LEMMA Taken ==
  ASSUME Orderly, Sound, Collected, NEW b \in batch, Fireable(b)
  PROVE  /\ b.run \in Run /\ b.step \in Slot /\ b.step \in Known(b.run) /\ b.at \in Int
         /\ st[b.run] \in Firing /\ mark[b.run][b.step] = "open"
         /\ Take(b) => /\ mark' = [mark EXCEPT ![b.run][b.step] = "fired"]
                       /\ \A r \in Run : st'[r] \in Firing <=> st[r] \in Firing
                       /\ \A r \in Run : st'[r] # st[r] => st'[r] = "RUNNING"
BY DEF Sound, TypeOK, RunTypes, WorkTypes, SlotsInv, Collected, Fireable, MarkOf, OfRun, Take,
   SetMark, Firing

\* Firing a START or a STOP keeps the marks in order: what has to come before it
\* has been fired.
LEMMA TakeMarks ==
  ASSUME Orderly, Sound, Collected, MarksInv, NEW b \in batch, First(b), Fireable(b), Take(b),
         UNCHANGED <<now, end, at, again, fault>>, Act(b.run, b.step) # "tune"
  PROVE  MarksInv'
<1> DEFINE q == b.run
           k == b.step
<1>1. /\ q \in Run /\ k \in Slot /\ k \in Known(q) /\ b.at \in Int
      /\ st[q] \in Firing /\ mark[q][k] = "open" /\ st'[q] # "none"
      /\ \A r \in Run : st'[r] \in Firing <=> st[r] \in Firing
      /\ \A r \in Run : st'[r] # st[r] => st'[r] = "RUNNING"
      /\ mark \in [Run -> [Slot -> Mark]] /\ mark' = [mark EXCEPT ![q][k] = "fired"]
      /\ batch' = batch \ {b}
  BY Taken DEF Sound, TypeOK, RunTypes, Take, Firing
<1>2. k \in Starts(q) \/ k \in Closes(q)
  BY <1>1, StartsAndCloses, KnownSteps DEF Known, Sound
<1>3. \A r \in Run, i \in Slot : mark'[r][i] = IF r = q /\ i = k THEN "fired" ELSE mark[r][i]
  BY <1>1
<1> HIDE DEF q, k
<1>4. \A r \in Run : Begins(r) => Begins(r)'
  BY <1>3, StartsAndCloses DEF Begins
<1>5. ASSUME NEW a \in batch, a.run \in Run, NEW i \in Starts(q) \cup Closes(q), a.at \in Int, a.at <= b.at,
             a.at < b.at \/ (Act(a.run, a.step) = "stop" /\ k \in Starts(q))
      PROVE  FALSE
  <2>1. k \in Starts(q) => Act(b.run, b.step) # "stop"
    BY <1>1, StartsAndCloses DEF q, k, Starts, Known
  <2>2. ~Sooner(a, b)
    BY DEF First
  <2>6. b.at \in Int
    BY <1>1
  <2>3. a.at < b.at \/ a.at = b.at
    BY <1>5, <2>6
  <2>4. ~(a.at < b.at)
    BY <2>2 DEF Sooner
  <2>5. Act(a.run, a.step) = "stop" /\ Act(b.run, b.step) # "stop"
    BY <1>5, <2>1, <2>4
  <2> QED
    BY <2>2, <2>3, <2>4, <2>5 DEF Sooner
<1>6. Laid'
  <2>1. \A r \in Run : st'[r] # "HOLDING" /\ (st'[r] = "none" => st[r] = "none")
    BY <1>1 DEF MarksInv, Laid, Firing
  <2>2. \A r \in Run, i \in Slot : mark'[r][i] \in {mark[r][i], "fired"}
    BY <1>3
  <2> SUFFICES ASSUME NEW r \in Run
               PROVE  /\ st'[r] # "HOLDING"
                      /\ st'[r] # "none" =>
                           /\ end[r] # Never
                           /\ \A i \in Steps(r) : at[r][i] = When(r, i) /\ mark'[r][i] # "unset"
                      /\ st'[r] = "none" => fault[r] = <<>> /\ again[r] = NoTask
                      /\ \A j \in Closes(r) : mark'[r][j] \in {"unset", "open", "fired", "fault"}
    BY DEF Laid
  <2>3. \A i \in Steps(r) : mark'[r][i] # "unset" \/ mark'[r][i] = mark[r][i]
    BY <2>2, StartsAndCloses
  <2>4. \A j \in Closes(r) : mark'[r][j] \in {"unset", "open", "fired", "fault"}
    BY <2>2, StartsAndCloses DEF MarksInv, Laid
  <2>5. st'[r] # "none" => st[r] # "none"
    BY <1>1 DEF Firing
  <2> QED
    BY <2>1, <2>3, <2>4, <2>5 DEF MarksInv, Laid
<1>7. Timed'
  <2>1. at[q][k] <= now
    BY DEF MarksInv, Timed, q, k
  <2> QED
    BY <1>1, <1>3, <2>1 DEF MarksInv, Timed
<1>8. Lost'
  BY <1>3, <1>4 DEF MarksInv, Lost
<1>9. Ahead'
  <2> SUFFICES ASSUME NEW r \in Run, st'[r] \in Firing, NEW i \in Starts(r), mark'[r][i] = "open"
               PROVE  mark'[r][LastStop(r)] = "open" /\ at'[r][i] < When(r, LastStop(r))
    BY DEF Ahead
  <2>1. mark[r][i] = "open" /\ st[r] \in Firing
    BY <1>1, <1>3, StartsAndCloses
  <2>2. mark[r][LastStop(r)] = "open" /\ at[r][i] < When(r, LastStop(r))
    BY <2>1 DEF MarksInv, Ahead
  <2>3. LastStop(r) \in Closes(r)
    BY <2>1, Relaunched DEF MarksInv
  <2>4. ~(r = q /\ LastStop(r) = k)
    <3> SUFFICES ASSUME r = q, LastStop(r) = k PROVE FALSE
      OBVIOUS
    <3>1. PICK a \in batch : a.run = r /\ a.step = i /\ a.at < b.at
      BY <2>1 DEF MarksInv, InOrder, q, k
    <3>2. a.at \in Int
      BY DEF Sound, TypeOK, WorkTypes
    <3> QED
      BY <1>1, <1>2, <1>5, <3>1, <3>2
  <2> QED
    BY <1>3, <2>2, <2>3, <2>4, StartsAndCloses
<1>10. InOrder'
  <2> SUFFICES ASSUME NEW r \in Run, st'[r] \in Firing, NEW i \in Starts(r), NEW d \in batch',
                      mark'[r][i] = "open", d.run = r, d.step = LastStop(r)
               PROVE  \E a \in batch' : a.run = r /\ a.step = i /\ a.at < d.at
    BY DEF InOrder
  <2>1. mark[r][i] = "open" /\ st[r] \in Firing /\ d \in batch /\ ~(r = q /\ i = k)
    BY <1>1, <1>3, StartsAndCloses
  <2>2. PICK a \in batch : a.run = r /\ a.step = i /\ a.at < d.at
    BY <2>1 DEF MarksInv, InOrder
  <2> QED
    BY <1>1, <2>1, <2>2 DEF q, k
<1>11. ASSUME NEW p \in Run, NEW r \in Run, RivalsFiring(p, r)' PROVE RivalsFiring(p, r)
  BY <1>1, <1>11 DEF RivalsFiring
<1>12. Disjoint'
  BY <1>11 DEF MarksInv, Disjoint
<1>13. InTurn'
  <2> SUFFICES ASSUME NEW p \in Run, NEW r \in Run, RivalsFiring(p, r)', Early(p, r),
                      NEW i \in Opens(r), NEW j \in Closes(p), NEW d \in batch',
                      d.run = r, d.step = i, mark'[r][i] = "open", mark'[p][j] = "open"
               PROVE  \E a \in batch' : a.run = p /\ a.step = j
    BY DEF InTurn
  <2>1. mark[r][i] = "open" /\ mark[p][j] = "open" /\ d \in batch /\ ~(p = q /\ j = k)
    BY <1>1, <1>3, StartsAndCloses
  <2>2. PICK a \in batch : a.run = p /\ a.step = j
    BY <1>11, <2>1 DEF MarksInv, InTurn
  <2> QED
    BY <1>1, <2>1, <2>2 DEF q, k
<1>14. Gone'
  <2> SUFFICES ASSUME NEW p \in Run, NEW r \in Run, RivalsFiring(p, r)', Early(p, r), Begins(r)',
                      NEW j \in Closes(p), mark'[p][j] = "open"
               PROVE  FALSE
    BY DEF Gone
  <2>1. mark[p][j] = "open" /\ j \in Slot
    BY <1>3, StartsAndCloses
  <2>2. ~Begins(r)
    BY <1>11, <2>1 DEF MarksInv, Gone
  <2>3. r = q /\ k \in Opens(r)
    BY <1>3, <2>2, StartsAndCloses DEF Begins
  <2>4. PICK a \in batch : a.run = p /\ a.step = j
    BY <1>1, <1>11, <2>1, <2>3 DEF MarksInv, InTurn, q, k
  <2>5. a.at = When(p, j) /\ When(r, k) <= b.at
    BY <2>3, <2>4 DEF MarksInv, Timed, Starts, q, k
  <2>6. When(p, j) <= When(r, k) /\ When(p, j) \in Int /\ When(r, k) \in Int
    BY <2>3, StartsAndCloses, Plans DEF Early
  <2>7. Act(a.run, a.step) = "stop"
    BY <2>1, <2>4, StartsAndCloses
  <2> QED
    BY <1>1, <1>2, <1>5, <2>3, <2>4, <2>5, <2>6, <2>7 DEF Starts
<1> QED
  BY <1>6, <1>7, <1>8, <1>9, <1>10, <1>12, <1>13, <1>14 DEF MarksInv

\* A tick collects what is due, each START and STOP for its time.
LEMMA Ticked ==
  ASSUME Orderly, Sound, Laid, Tick
  PROVE  /\ UNCHANGED <<now, end, at, again, fault>>
         /\ \A r \in Run : /\ st'[r] = st[r] \/ (st[r] = "RUNNING" /\ st'[r] = "COMPLETED")
                           /\ st'[r] # "HOLDING"
         /\ \A r \in Run, i \in Slot : \/ mark'[r][i] = mark[r][i]
                                       \/ /\ i \notin Starts(r) \cup Closes(r) /\ mark[r][i] = "open"
                                          /\ mark'[r][i] = "late"
         /\ \A b \in batch' : /\ b.run \in Run /\ b.step \in Due(b.run)
                              /\ b.step \in Starts(b.run) \cup Closes(b.run) =>
                                   b.at = at[b.run][b.step]
         /\ \A r \in Run : \A i \in Due(r) \cap (Starts(r) \cup Closes(r)) :
              \E b \in batch' : b.run = r /\ b.step = i /\ b.at = at[r][i]
<1> DEFINE Late(g, r) == {i \in Due(r) : Act(r, i) = "tune" /\ Superseded(r, i, g)}
           Time(g, r, i) == IF Act(r, i) = "tune"
                            THEN Most({at[r][j] : j \in Piled(r, i, g) \cup {i}})
                            ELSE at[r][i]
<1>1. PICK g \in SUBSET Binding :
        /\ batch' = UNION {{[run |-> r, step |-> i, gen |-> gen[r], at |-> Time(g, r, i)] :
                              i \in Due(r) \ Late(g, r)} : r \in Run}
        /\ mark' = [r \in Run |-> [i \in Slot |-> IF i \in Late(g, r) THEN "late" ELSE mark[r][i]]]
  BY DEF Tick
<1>2. /\ UNCHANGED <<now, end, at, again, fault>>
      /\ \A r \in Run : /\ st'[r] = st[r] \/ (st[r] = "RUNNING" /\ st'[r] = "COMPLETED")
                        /\ st'[r] # "HOLDING"
  BY DEF Tick, Lapsed, Laid, faults
<1>3. ASSUME NEW r \in Run, NEW i \in Starts(r) \cup Closes(r)
      PROVE  i \in Slot /\ Act(r, i) # "tune"
  BY <1>3, StartsAndCloses DEF Starts
<1>4. \A r \in Run : \A i \in Late(g, r) : i \notin Starts(r) \cup Closes(r) /\ mark[r][i] = "open"
  BY <1>3 DEF Due
<1>5. \A r \in Run : \A i \in Due(r) \cap (Starts(r) \cup Closes(r)) :
        i \notin Late(g, r) /\ Time(g, r, i) = at[r][i]
  BY <1>3
<1> HIDE DEF Late, Time
<1>6. ASSUME NEW b \in batch'
      PROVE  /\ b.run \in Run /\ b.step \in Due(b.run)
             /\ b.step \in Starts(b.run) \cup Closes(b.run) => b.at = at[b.run][b.step]
  <2>1. PICK r \in Run : \E i \in Due(r) \ Late(g, r) :
          b = [run |-> r, step |-> i, gen |-> gen[r], at |-> Time(g, r, i)]
    BY <1>1, <1>6
  <2> QED
    BY <1>5, <2>1
<1>7. ASSUME NEW r \in Run, NEW i \in Due(r) \cap (Starts(r) \cup Closes(r))
      PROVE  \E b \in batch' : b.run = r /\ b.step = i /\ b.at = at[r][i]
  <2> DEFINE b == [run |-> r, step |-> i, gen |-> gen[r], at |-> Time(g, r, i)]
  <2>1. b \in batch'
    BY <1>1, <1>5
  <2> QED
    BY <1>5, <2>1
<1> QED
  BY <1>1, <1>2, <1>4, <1>6, <1>7

\* So the new batch is in order.
LEMMA TickMarks ==
  ASSUME Orderly, Sound, MarksInv, Tick
  PROVE  MarksInv'
<1>1. /\ UNCHANGED <<now, end, at, again, fault>>
      /\ \A r \in Run : /\ st'[r] = st[r] \/ (st[r] = "RUNNING" /\ st'[r] = "COMPLETED")
                        /\ st'[r] # "HOLDING"
      /\ \A r \in Run, i \in Slot : \/ mark'[r][i] = mark[r][i]
                                    \/ /\ i \notin Starts(r) \cup Closes(r) /\ mark[r][i] = "open"
                                       /\ mark'[r][i] = "late"
      /\ \A b \in batch' : /\ b.run \in Run /\ b.step \in Due(b.run)
                           /\ b.step \in Starts(b.run) \cup Closes(b.run) =>
                                b.at = at[b.run][b.step]
      /\ \A r \in Run : \A i \in Due(r) \cap (Starts(r) \cup Closes(r)) :
           \E b \in batch' : b.run = r /\ b.step = i /\ b.at = at[r][i]
  BY Ticked DEF MarksInv
<1> DEFINE Keeps(r) == \A i \in Starts(r) \cup Closes(r) : mark'[r][i] = mark[r][i]
<1>2. ASSUME NEW r \in Run PROVE Keeps(r) /\ (Begins(r)' <=> Begins(r))
  BY <1>1, StartsAndCloses DEF Begins, Starts
<1> HIDE DEF Keeps
<1>3. ASSUME NEW r \in Run, st'[r] \in Firing PROVE st[r] \in Firing
  BY <1>1, <1>3 DEF Firing
<1>4. now \in Int /\ \A r \in Run, i \in Slot : at[r][i] \in Int
  BY DEF Sound, TypeOK, RunTypes
<1>5. Laid'
  BY <1>1, <1>2, StartsAndCloses DEF MarksInv, Laid, Keeps
<1>6. Timed'
  <2>1. \A r \in Run, i \in Slot : (mark'[r][i] = "fired" \/ i = N) => at[r][i] <= now
    BY <1>1 DEF MarksInv, Timed
  <2>2. ASSUME NEW b \in batch'
        PROVE  /\ at[b.run][b.step] <= now
               /\ b.step \in Closes(b.run) => b.at = When(b.run, b.step)
               /\ b.step \in Starts(b.run) => \A i \in Opens(b.run) : When(b.run, i) <= b.at
    <3>1. /\ b.run \in Run /\ b.step \in Slot /\ mark[b.run][b.step] = "open"
          /\ at[b.run][b.step] <= now /\ st[b.run] \in Firing
      BY <1>1 DEF Due
    <3>2. \A i \in Steps(b.run) : at[b.run][i] = When(b.run, i)
      BY <3>1 DEF MarksInv, Laid, Firing
    <3>3. b.step \in Closes(b.run) => b.at = When(b.run, b.step)
      BY <1>1, <3>1, <3>2, StartsAndCloses
    <3>4. ASSUME b.step \in Starts(b.run), NEW i \in Opens(b.run) PROVE When(b.run, i) <= b.at
      <4>1. b.at = at[b.run][b.step]
        BY <1>1, <3>4
      <4>2. CASE b.step = N
        <5>1. again[b.run] # NoTask
          BY <3>1, <4>2, StartsAndCloses DEF Sound, SlotsInv, Known
        <5> QED
          BY <3>1, <4>1, <4>2, <5>1 DEF MarksInv, Timed
      <4>3. CASE b.step \in Opens(b.run)
        <5>1. b.step = i /\ When(b.run, i) \in Int
          BY <3>1, <4>3, Plans, StartsAndCloses
        <5> QED
          BY <3>1, <3>2, <4>1, <5>1, StartsAndCloses
      <4> QED
        BY <3>4, <4>2, <4>3 DEF Starts
    <3> QED
      BY <3>1, <3>3, <3>4
  <2> QED
    BY <1>1, <2>1, <2>2 DEF MarksInv, Timed
<1>7. Lost'
  BY <1>1, <1>2 DEF MarksInv, Lost
<1>8. ASSUME NEW r \in Run, st'[r] \in Firing, NEW i \in Starts(r), mark'[r][i] = "open"
      PROVE  /\ mark'[r][LastStop(r)] = "open" /\ at[r][i] < When(r, LastStop(r))
             /\ LastStop(r) \in Closes(r) /\ mark[r][i] = "open" /\ st[r] \in Firing
  <2>1. mark[r][i] = "open" /\ st[r] \in Firing
    BY <1>2, <1>3, <1>8 DEF Keeps
  <2>2. mark[r][LastStop(r)] = "open" /\ at[r][i] < When(r, LastStop(r))
    BY <2>1 DEF MarksInv, Ahead
  <2>3. LastStop(r) \in Closes(r)
    BY <2>1, Relaunched DEF MarksInv
  <2> QED
    BY <1>2, <2>1, <2>2, <2>3 DEF Keeps
<1>9. Ahead'
  BY <1>1, <1>8 DEF Ahead
<1>10. InOrder'
  <2> SUFFICES ASSUME NEW r \in Run, st'[r] \in Firing, NEW i \in Starts(r), NEW b \in batch',
                      mark'[r][i] = "open", b.run = r, b.step = LastStop(r)
               PROVE  \E a \in batch' : a.run = r /\ a.step = i /\ a.at < b.at
    BY DEF InOrder
  <2>1. /\ at[r][i] < When(r, LastStop(r)) /\ mark[r][i] = "open" /\ st[r] \in Firing
        /\ LastStop(r) \in Closes(r)
    BY <1>8
  <2>2. b.at = at[r][LastStop(r)] /\ at[r][LastStop(r)] <= now
    <3>1. b.step \in Due(r) /\ b.step \in Closes(r)
      BY <1>1, <2>1
    <3>2. b.at = at[r][LastStop(r)]
      BY <1>1, <3>1
    <3>3. at[r][LastStop(r)] <= now
      BY <3>1 DEF Due
    <3> QED
      BY <3>2, <3>3
  <2>3. at[r][LastStop(r)] = When(r, LastStop(r))
    BY <2>1, StartsAndCloses DEF MarksInv, Laid, Firing
  <2>4. i \in Slot /\ LastStop(r) \in Slot
    BY <2>1, StartsAndCloses
  <2>5. at[r][i] <= now
    BY <1>4, <2>1, <2>2, <2>3, <2>4
  <2>6. i \in Due(r)
    BY <2>1, <2>4, <2>5 DEF Due
  <2> QED
    BY <1>1, <2>1, <2>2, <2>3, <2>6
<1>11. ASSUME NEW q \in Run, NEW r \in Run, RivalsFiring(q, r)' PROVE RivalsFiring(q, r)
  BY <1>3, <1>11 DEF RivalsFiring
<1>12. Disjoint'
  BY <1>11 DEF MarksInv, Disjoint
<1>13. InTurn'
  <2> SUFFICES ASSUME NEW q \in Run, NEW r \in Run, RivalsFiring(q, r)', Early(q, r),
                      NEW i \in Opens(r), NEW j \in Closes(q), NEW b \in batch',
                      b.run = r, b.step = i, mark'[r][i] = "open", mark'[q][j] = "open"
               PROVE  \E a \in batch' : a.run = q /\ a.step = j
    BY DEF InTurn
  <2>1. /\ mark[q][j] = "open" /\ {st[q], st[r]} \subseteq Firing
    BY <1>2, <1>11 DEF Keeps, RivalsFiring
  <2>2. at[r][i] <= now /\ at[r][i] = When(r, i) /\ at[q][j] = When(q, j)
    <3>1. i \in Due(r)
      BY <1>1
    <3>2. at[r][i] <= now
      BY <3>1 DEF Due
    <3> QED
      BY <2>1, <3>2, StartsAndCloses DEF MarksInv, Laid, Firing
  <2>3. When(q, j) <= When(r, i) /\ When(q, j) \in Int /\ When(r, i) \in Int /\ j \in Slot
    BY StartsAndCloses, Plans DEF Early
  <2>4. j \in Due(q)
    BY <1>4, <2>1, <2>2, <2>3 DEF Due
  <2> QED
    BY <1>1, <2>4
<1>14. Gone'
  BY <1>2, <1>11 DEF MarksInv, Gone, Keeps
<1> QED
  BY <1>5, <1>6, <1>7, <1>9, <1>10, <1>12, <1>13, <1>14 DEF MarksInv

\* While a restart waits, its clock stands close to when it began, and nothing of
\* its run has fired, or is in the batch, that is later.
Mends ==
  \A c \in Coroutine : Restarting(c) =>
    /\ mode[c] = "resync" /\ now <= since[c] + Patience
    /\ \A i \in Slot : (mark[cur[c]][i] = "fired" \/ i = N) => at[cur[c]][i] <= since[c]
    /\ \A b \in batch : b.run = cur[c] => at[b.run][b.step] <= since[c]

\* A restart opens a START for the instant it began, and what is later of its
\* run, the last STOP for one.
LEMMA Committed ==
  ASSUME Orderly, Sound, OwnInv, MarksInv, Mends, NEW c \in Coroutine, Commit(c)
  PROVE  LET r == cur[c]
             s == since[c]
         IN /\ r \in Run /\ s \in Nat /\ s <= now /\ now <= s + Patience /\ st[r] = "RUNNING"
            /\ Restarting(c) /\ fault[r] # <<>> /\ Begins(r)
            /\ UNCHANGED <<now, st, batch>>
            /\ \A q \in Run \ {r} : /\ at'[q] = at[q] /\ mark'[q] = mark[q] /\ end'[q] = end[q]
                                    /\ again'[q] = again[q] /\ fault'[q] = fault[q]
            /\ fault'[r] = <<>> /\ end'[r] = end[r]
            /\ \A i \in Steps(r) : /\ at'[r][i] = at[r][i]
                                   /\ \/ mark'[r][i] = mark[r][i] /\ mark'[r][i] # "open"
                                      \/ /\ mark[r][i] = "fault" /\ mark'[r][i] = "open"
                                         /\ s < at[r][i]
            /\ \A i \in Slot : (i \notin Steps(r) /\ i # N) =>
                              at'[r][i] = at[r][i] /\ mark'[r][i] = mark[r][i]
            /\ \/ at'[r][N] = at[r][N] /\ again'[r] = again[r] /\ mark'[r][N] = mark[r][N]
               \/ at'[r][N] = s /\ mark'[r][N] = "open"
            /\ LastStop(r) \in Closes(r) /\ s < When(r, LastStop(r))
            /\ mark'[r][LastStop(r)] = "open"
<1> DEFINE r == cur[c]
           s == since[c]
           back == Reinstated(r, s, mode[c])
           off == ScheduledOff(r, s, mode[c])
<1>1. Restarting(c)
  BY DEF Commit, At, Restarting
<1>2. /\ r \in Run /\ s \in Nat /\ s <= now /\ now <= s + Patience /\ mode[c] = "resync"
      /\ on[c] \in Touched(r)
      /\ \A i \in Slot : (mark[r][i] = "fired" \/ i = N) => at[r][i] <= s
  BY <1>1 DEF Sound, HandInv, Hand, TypeOK, HandTypes, TimeInv, Mends, OwnInv, MendsOwn
<1>3. st[r] = "RUNNING" /\ fault[r] # <<>> /\ Plannable(r, s, mode[c])
  BY DEF Commit, Recheck, Restartable
<1>4. Begins(r) /\ \A i \in Slot : mark[r][i] # "open"
  BY <1>2, <1>3 DEF MarksInv, Lost
<1>5. FaultTask(r) \in Touched(r)
  BY <1>2, <1>3, Faulty, NameAssumption DEF Sound, OwnInv, FaultsOwn
<1>6. back = {i \in Slot : mark[r][i] = "fault" /\ TaskOf(r, i) = FaultTask(r) /\ at[r][i] > s}
  BY <1>2 DEF Reinstated
<1>7. /\ at \in [Run -> [Slot -> Int]] /\ mark \in [Run -> [Slot -> Mark]] /\ end[r] \in Nat
      /\ end \in [Run -> Nat]
      /\ again \in [Run -> Task \cup {NoTask}] /\ fault \in [Run -> Seq(Task)]
  BY <1>2 DEF Sound, TypeOK, RunTypes, FaultTypes
<1>8. NewAt(r, s, mode[c]) = at[r]
  <2>1. \A i \in Slot : NewAt(r, s, mode[c])[i] = at[r][i]
    BY <1>2 DEF NewAt, Later
  <2>2. at[r] = [i \in Slot |-> at[r][i]]
    BY <1>2, <1>7
  <2> QED
    BY <2>1, <2>2 DEF NewAt
<1>9. NewEnd(r, s, mode[c]) = end[r]
  BY <1>2, <1>7 DEF NewEnd, Shift
<1>10. N \notin back
  BY <1>2, <1>6, <1>7, StartsAndCloses
<1> HIDE DEF r, s, back, off
<1>11. /\ at' = [at EXCEPT ![r] = [i \in Slot |-> IF i = N /\ ~off THEN s ELSE at[r][i]]]
       /\ mark' = [mark EXCEPT ![r] = [i \in Slot |->
            IF i \in back \/ (i = N /\ ~off) THEN "open" ELSE mark[r][i]]]
       /\ end' = [end EXCEPT ![r] = end[r]]
       /\ again' = [again EXCEPT ![r] = IF off THEN again[r] ELSE on[c]]
       /\ fault' = [fault EXCEPT ![r] = <<>>]
       /\ UNCHANGED <<now, st, batch>>
  <2>1. /\ at' = [at EXCEPT ![r] = [i \in Slot |->
             IF i = N /\ ~off THEN s ELSE NewAt(r, s, mode[c])[i]]]
        /\ mark' = [mark EXCEPT ![r] = [i \in Slot |->
             IF i \in back \/ (i = N /\ ~off) THEN "open" ELSE @[i]]]
        /\ end' = [end EXCEPT ![r] = NewEnd(r, s, mode[c])]
        /\ again' = [again EXCEPT ![r] = IF off THEN @ ELSE on[c]]
        /\ fault' = [fault EXCEPT ![r] = <<>>]
        /\ UNCHANGED <<now, st, batch>>
    BY DEF Commit, work, r, s, back, off
  <2> QED
    BY <1>8, <1>9, <2>1
<1>12. \A q \in Run \ {r} : /\ at'[q] = at[q] /\ mark'[q] = mark[q] /\ end'[q] = end[q]
                            /\ again'[q] = again[q] /\ fault'[q] = fault[q]
  BY <1>7, <1>11
<1>13. fault'[r] = <<>> /\ end'[r] = end[r]
  BY <1>2, <1>7, <1>11
<1>14. \A i \in Steps(r) : /\ at'[r][i] = at[r][i]
                           /\ \/ mark'[r][i] = mark[r][i] /\ mark'[r][i] # "open"
                              \/ mark[r][i] = "fault" /\ mark'[r][i] = "open" /\ s < at[r][i]
  <2> TAKE i \in Steps(r)
  <2>1. i \in Slot /\ i # N
    BY <1>2, StartsAndCloses
  <2>2. /\ at'[r][i] = at[r][i]
        /\ mark'[r][i] = IF i \in back THEN "open" ELSE mark[r][i]
    BY <1>2, <1>7, <1>11, <2>1
  <2>3. at[r][i] \in Int /\ s \in Int
    BY <1>2, <1>7, <2>1
  <2> QED
    BY <1>4, <1>6, <2>1, <2>2, <2>3
<1>15. \/ at'[r][N] = at[r][N] /\ again'[r] = again[r] /\ mark'[r][N] = mark[r][N]
       \/ at'[r][N] = s /\ mark'[r][N] = "open"
  BY <1>2, <1>7, <1>10, <1>11, StartsAndCloses
<1>19. \A i \in Slot : (i \notin Steps(r) /\ i # N) =>
                       at'[r][i] = at[r][i] /\ mark'[r][i] = mark[r][i]
  <2> TAKE i \in Slot
  <2> HAVE i \notin Steps(r) /\ i # N
  <2>1. i \notin back
    BY <1>2, <1>6 DEF Sound, SlotsInv, Known
  <2> QED
    BY <1>2, <1>7, <1>11, <2>1
<1>16. LastStop(r) \in Closes(r) /\ \A k \in Closes(r) : When(r, k) <= When(r, LastStop(r))
  BY <1>2, <1>4, Plans DEF Begins
<1>17. s < When(r, LastStop(r))
  <2>1. StopToCome(r, s, mode[c])
    BY <1>2, <1>3 DEF Plannable, MarksInv, Laid
  <2>2. PICK i \in Fires(r) : Act(r, i) = "stop" /\ at[r][i] > s
    BY <1>8, <2>1 DEF StopToCome
  <2>3. i \in Slot /\ i \in Known(r)
    BY <1>2, <2>2 DEF Fires, Sound, SlotsInv
  <2>4. i \in Closes(r)
    BY <1>2, <2>2, <2>3, StartsAndCloses DEF Known
  <2>5. at[r][i] = When(r, i)
    BY <1>2, <1>3, <2>4, StartsAndCloses DEF MarksInv, Laid
  <2>6. When(r, i) \in Int /\ When(r, LastStop(r)) \in Int
    BY <1>2, <1>16, <2>4, Plans, StartsAndCloses
  <2> QED
    BY <1>2, <1>16, <2>2, <2>4, <2>5, <2>6
<1>18. mark'[r][LastStop(r)] = "open"
  <2> DEFINE j == LastStop(r)
  <2>1. j \in Steps(r) /\ j \in Slot /\ j # N /\ When(r, j) \in Int
    BY <1>2, <1>16, Plans, StartsAndCloses
  <2>2. at[r][j] = When(r, j) /\ mark[r][j] \in {"open", "fired", "fault"}
    BY <1>2, <1>3, <1>16, <2>1 DEF MarksInv, Laid
  <2>3. mark[r][j] = "fault"
    BY <1>2, <1>4, <1>17, <2>1, <2>2
  <2>4. TaskOf(r, j) = FaultTask(r)
    BY <1>2, <1>5, <2>1, OneTask DEF Known
  <2>5. j \in back
    BY <1>6, <1>17, <2>1, <2>2, <2>3, <2>4
  <2> QED
    BY <1>2, <1>7, <1>11, <2>1, <2>5
<1> QED
  BY <1>1, <1>2, <1>3, <1>4, <1>11, <1>12, <1>13, <1>14, <1>15, <1>16, <1>17, <1>18,
     <1>19 DEF r, s

\* So a restart keeps the marks in order: what it opens is later than what the
\* loop has collected of its run and than the START of a rival that is due.
LEMMA CommitMarks ==
  ASSUME Orderly, Sound, OwnInv, MarksInv, Mends, NEW c \in Coroutine, Commit(c)
  PROVE  MarksInv'
<1> DEFINE p == cur[c]
           s == since[c]
<1>1. /\ p \in Run /\ s \in Nat /\ s <= now /\ now <= s + Patience /\ st[p] = "RUNNING"
      /\ Restarting(c) /\ fault[p] # <<>> /\ Begins(p)
      /\ UNCHANGED <<now, st, batch>>
      /\ \A q \in Run \ {p} : /\ at'[q] = at[q] /\ mark'[q] = mark[q] /\ end'[q] = end[q]
                              /\ again'[q] = again[q] /\ fault'[q] = fault[q]
      /\ fault'[p] = <<>> /\ end'[p] = end[p]
      /\ \A i \in Steps(p) : /\ at'[p][i] = at[p][i]
                             /\ \/ mark'[p][i] = mark[p][i] /\ mark'[p][i] # "open"
                                \/ /\ mark[p][i] = "fault" /\ mark'[p][i] = "open"
                                   /\ s < at[p][i]
      /\ \A i \in Slot : (i \notin Steps(p) /\ i # N) =>
                        at'[p][i] = at[p][i] /\ mark'[p][i] = mark[p][i]
      /\ \/ at'[p][N] = at[p][N] /\ again'[p] = again[p] /\ mark'[p][N] = mark[p][N]
         \/ at'[p][N] = s /\ mark'[p][N] = "open"
      /\ LastStop(p) \in Closes(p) /\ s < When(p, LastStop(p)) /\ mark'[p][LastStop(p)] = "open"
  BY Committed
<1>2. /\ \A i \in Slot : (mark[p][i] = "fired" \/ i = N) => at[p][i] <= s
      /\ \A b \in batch : b.run = p => at[b.run][b.step] <= s
  BY <1>1 DEF Mends
<1> HIDE DEF p, s
<1>3. /\ now \in Int /\ Patience \in Int /\ \A r \in Run, i \in Slot : at[r][i] \in Int
      /\ \A b \in batch : b.run \in Run /\ b.step \in Slot /\ b.step \in Known(b.run)
  BY Bounds DEF Sound, TypeOK, RunTypes, WorkTypes, SlotsInv
<1>4. ASSUME NEW r \in Run PROVE Begins(r)' <=> Begins(r)
  <2>1. CASE r = p
    <3>1. PICK i \in Opens(p) : mark[p][i] = "fired"
      BY <1>1 DEF Begins
    <3>2. mark'[p][i] = "fired"
      BY <1>1, <3>1, StartsAndCloses
    <3> QED
      BY <1>1, <2>1, <3>2 DEF Begins
  <2>2. CASE r # p
    BY <1>1, <2>2 DEF Begins
  <2> QED
    BY <2>1, <2>2
<1>5. \A i \in Steps(p) : at[p][i] = When(p, i)
  BY <1>1 DEF MarksInv, Laid
<1>6. ASSUME NEW i \in Opens(p)
      PROVE  /\ i \in Steps(p) /\ mark'[p][i] # "open" /\ When(p, i) <= s
  <2>1. mark[p][i] = "fired" /\ i \in Steps(p)
    BY <1>1, Plans, StartsAndCloses DEF Begins
  <2> QED
    BY <1>1, <1>2, <1>5, <2>1, StartsAndCloses
<1>7. ASSUME NEW i \in Starts(p), mark'[p][i] = "open"
      PROVE  i = N /\ at'[p][i] <= s
  <2>1. i = N
    BY <1>6, <1>7 DEF Starts
  <2> QED
    BY <1>1, <1>2, <2>1, StartsAndCloses
<1>8. Laid'
  <2> SUFFICES ASSUME NEW r \in Run
               PROVE  /\ st[r] # "HOLDING"
                      /\ st[r] # "none" =>
                           /\ end'[r] # Never
                           /\ \A i \in Steps(r) : at'[r][i] = When(r, i) /\ mark'[r][i] # "unset"
                      /\ st[r] = "none" => fault'[r] = <<>> /\ again'[r] = NoTask
                      /\ \A j \in Closes(r) : mark'[r][j] \in {"unset", "open", "fired", "fault"}
    BY <1>1 DEF Laid
  <2>1. CASE r = p
    BY <1>1, <1>5, <2>1, StartsAndCloses DEF MarksInv, Laid
  <2>2. CASE r # p
    BY <1>1, <2>2 DEF MarksInv, Laid
  <2> QED
    BY <2>1, <2>2
<1>9. Timed'
  <2>1. ASSUME NEW r \in Run, NEW i \in Slot, mark'[r][i] = "fired" \/ i = N
        PROVE  at'[r][i] <= now
    <3>1. CASE r # p
      BY <1>1, <2>1, <3>1 DEF MarksInv, Timed
    <3>2. CASE r = p /\ i = N
      BY <1>1, <1>3, <3>2 DEF MarksInv, Timed
    <3>3. CASE r = p /\ i # N /\ i \in Steps(p)
      BY <1>1, <2>1, <3>3 DEF MarksInv, Timed
    <3>4. CASE r = p /\ i # N /\ i \notin Steps(p)
      <4>1. mark'[p][i] = mark[p][i] /\ at'[p][i] = at[p][i]
        BY <1>1, <3>4
      <4> QED
        BY <1>1, <2>1, <3>4, <4>1 DEF MarksInv, Timed
    <3> QED
      BY <3>1, <3>2, <3>3, <3>4
  <2>2. ASSUME NEW r \in Run, again'[r] # NoTask, NEW i \in Opens(r)
        PROVE  When(r, i) <= at'[r][N]
    <3>1. CASE r # p
      BY <1>1, <2>2, <3>1 DEF MarksInv, Timed
    <3>2. CASE r = p
      BY <1>1, <1>6, <2>2, <3>2 DEF MarksInv, Timed
    <3> QED
      BY <3>1, <3>2
  <2>3. ASSUME NEW b \in batch PROVE at'[b.run][b.step] <= now
    <3>1. CASE b.run # p
      BY <1>1, <1>3, <3>1 DEF MarksInv, Timed
    <3>2. CASE b.run = p /\ b.step \in Steps(p)
      BY <1>1, <3>2 DEF MarksInv, Timed
    <3>3. CASE b.run = p /\ b.step = N
      BY <2>1, <1>3, <3>3
    <3> QED
      BY <1>3, <3>1, <3>2, <3>3 DEF Known
  <2> QED
    BY <1>1, <2>1, <2>2, <2>3 DEF MarksInv, Timed
<1>10. Lost'
  BY <1>1, <1>4 DEF MarksInv, Lost
<1>11. Ahead'
  <2> SUFFICES ASSUME NEW r \in Run, st'[r] \in Firing, NEW i \in Starts(r), mark'[r][i] = "open"
               PROVE  mark'[r][LastStop(r)] = "open" /\ at'[r][i] < When(r, LastStop(r))
    BY DEF Ahead
  <2>1. CASE r = p
    <3>1. When(p, LastStop(p)) \in Int /\ at'[p][i] <= s /\ at'[p][i] \in Int
      BY <1>1, <1>3, <1>7, <2>1, Plans, StartsAndCloses
    <3> QED
      BY <1>1, <2>1, <3>1
  <2>2. CASE r # p
    BY <1>1, <2>2 DEF MarksInv, Ahead
  <2> QED
    BY <2>1, <2>2
<1>12. InOrder'
  <2> SUFFICES ASSUME NEW r \in Run, st'[r] \in Firing, NEW i \in Starts(r), NEW b \in batch,
                      mark'[r][i] = "open", b.run = r, b.step = LastStop(r)
               PROVE  \E a \in batch : a.run = r /\ a.step = i /\ a.at < b.at
    BY <1>1 DEF InOrder
  <2>1. CASE r = p
    <3>1. at[p][LastStop(p)] <= s /\ at[p][LastStop(p)] = When(p, LastStop(p))
      BY <1>1, <1>2, <1>5, <2>1, StartsAndCloses
    <3>2. When(p, LastStop(p)) \in Int
      BY <1>1, Plans, StartsAndCloses
    <3> QED
      BY <1>1, <3>1, <3>2
  <2>2. CASE r # p
    BY <1>1, <2>2 DEF MarksInv, InOrder
  <2> QED
    BY <2>1, <2>2
<1>13. Disjoint'
  BY <1>1 DEF MarksInv, Disjoint, RivalsFiring
<1>14. ASSUME NEW q \in Run, NEW r \in Run, Rivals(q, r), Early(q, r), NEW i \in Opens(r), When(r, i) <= now,
              NEW j \in Closes(q), mark'[q][j] = "open"
       PROVE  mark[q][j] = "open"
  <2>1. CASE q # p
    BY <1>1, <1>14, <2>1
  <2>2. CASE q = p
    <3>1. When(p, j) + Patience <= When(r, i)
      BY <1>14, <2>2 DEF Orderly
    <3>2. When(p, j) \in Int /\ When(r, i) \in Int /\ j \in Steps(p)
      BY <2>2, Plans, StartsAndCloses
    <3>3. When(p, j) <= s
      BY <1>1, <1>3, <1>14, <3>1, <3>2
    <3> QED
      BY <1>1, <1>5, <1>14, <2>2, <3>2, <3>3
  <2> QED
    BY <2>1, <2>2
<1>15. ASSUME NEW r \in Run, NEW i \in Opens(r), st[r] \in Firing,
              mark[r][i] = "fired" \/ \E b \in batch : b.run = r /\ b.step = i
       PROVE  When(r, i) <= now
  <2>1. at[r][i] = When(r, i) /\ i \in Slot
    BY <1>15, StartsAndCloses DEF MarksInv, Laid, Firing
  <2> QED
    BY <1>15, <2>1 DEF MarksInv, Timed
<1>16. InTurn'
  <2> SUFFICES ASSUME NEW q \in Run, NEW r \in Run, RivalsFiring(q, r), Early(q, r),
                      NEW i \in Opens(r), NEW j \in Closes(q), NEW b \in batch,
                      b.run = r, b.step = i, mark'[r][i] = "open", mark'[q][j] = "open"
               PROVE  \E a \in batch : a.run = q /\ a.step = j
    BY <1>1 DEF InTurn, RivalsFiring
  <2>1. mark[q][j] = "open"
    BY <1>14, <1>15 DEF RivalsFiring
  <2>2. r # p /\ mark[r][i] = "open"
    BY <1>1, <1>6
  <2> QED
    BY <2>1, <2>2 DEF MarksInv, InTurn
<1>17. Gone'
  <2> SUFFICES ASSUME NEW q \in Run, NEW r \in Run, RivalsFiring(q, r), Early(q, r), Begins(r),
                      NEW j \in Closes(q), mark'[q][j] = "open"
               PROVE  FALSE
    BY <1>1, <1>4 DEF Gone, RivalsFiring
  <2>1. mark[q][j] = "open"
    BY <1>14, <1>15 DEF RivalsFiring, Begins
  <2> QED
    BY <2>1 DEF MarksInv, Gone
<1> QED
  BY <1>8, <1>9, <1>10, <1>11, <1>12, <1>13, <1>16, <1>17 DEF MarksInv

\* No fire is later than the end of the channel, after a step either.
LEMMA EndOfChannelAfter ==
  ASSUME TypeOK', NEW r \in Run
  PROVE  ChannelEnd(r)' \in Int /\ \A i \in Fires(r)' : at'[r][i] <= ChannelEnd(r)'
<1> DEFINE f == at'[r]
           D == Fires(r)'
           e == end'[r]
<1>1. N \in Nat /\ f \in [1 .. N -> Int] /\ e \in Int /\ D \in SUBSET (1 .. N)
  BY Bounds DEF Slot, TypeOK, RunTypes, Fires
<1>2. ChannelEnd(r)' = Most({e} \cup {f[i] : i \in D})
  BY DEF ChannelEnd
<1> HIDE DEF f, D, e
<1>3. LET m == Most({e} \cup {f[i] : i \in D}) IN m \in Int /\ \A i \in D : f[i] <= m
  BY <1>1, MostOf
<1>4. ChannelEnd(r)' \in Int /\ \A i \in D : f[i] <= ChannelEnd(r)'
  BY <1>2, <1>3
<1> QED
  BY <1>4 DEF f, D

\* arm gives a run the fires of its plan, none of which is due.
LEMMA JustArmed ==
  ASSUME Orderly, Sound, Shared, MarksInv, NEW r \in Run, Arm(r)
  PROVE  /\ st[r] = "none" /\ st'[r] = "ARMED" /\ end'[r] # Never /\ Clear(r)
         /\ fault[r] = <<>> /\ again[r] = NoTask /\ \A b \in batch : b.run # r
         /\ now \in Int /\ now < Lead(r) /\ Lead(r) \in Int
         /\ \A i \in Steps(r) : /\ at'[r][i] = When(r, i) /\ mark'[r][i] = "open"
                                /\ Lead(r) <= When(r, i) /\ now < When(r, i)
         /\ \A i \in Slot : i \notin Steps(r) => at'[r][i] = 0 /\ mark'[r][i] = "unset"
         /\ \A q \in Run \ {r} : /\ st'[q] = st[q] /\ end'[q] = end[q]
                                 /\ at'[q] = at[q] /\ mark'[q] = mark[q]
         /\ UNCHANGED <<now, batch, again, fault>>
<1>1. /\ st \in [Run -> RunState \cup {"none"}] /\ end \in [Run -> Nat]
      /\ at \in [Run -> [Slot -> Int]] /\ mark \in [Run -> [Slot -> Mark]] /\ now \in Int
  BY DEF Sound, TypeOK, RunTypes
<1>2. AtArm(r) = Steps(r) /\ ~OpenEnded(r) /\ Plan[r].off # Never /\ Steps(r) \subseteq Slot
  BY Plans, StartsAndCloses DEF Orderly, Plainly
<1>3. /\ st[r] = "none" /\ st' = [st EXCEPT ![r] = "ARMED"] /\ Clear(r) /\ now < Lead(r)
      /\ end' = [end EXCEPT ![r] = IF OpenEnded(r) THEN Never ELSE Plan[r].off]
      /\ at' = [at EXCEPT ![r] = [i \in Slot |->
           IF i \in AtArm(r) THEN FireAt(r, i, end'[r], 0) ELSE 0]]
      /\ mark' = [mark EXCEPT ![r] = [i \in Slot |-> IF i \in AtArm(r) THEN "open" ELSE "unset"]]
      /\ UNCHANGED <<now, batch, again, fault>>
  BY DEF Arm, work, faults
<1>4. st'[r] = "ARMED" /\ end'[r] = Plan[r].off
  BY <1>1, <1>2, <1>3
<1>5. \A i \in Slot : /\ at'[r][i] = IF i \in Steps(r) THEN FireAt(r, i, Plan[r].off, 0) ELSE 0
                      /\ mark'[r][i] = IF i \in Steps(r) THEN "open" ELSE "unset"
  BY <1>1, <1>2, <1>3, <1>4
<1>6. \A i \in Steps(r) : /\ FireAt(r, i, Plan[r].off, 0) = When(r, i) /\ When(r, i) \in Int
                          /\ Lead(r) \in Int /\ Lead(r) <= When(r, i)
  BY Plans, LeadBefore
<1>7. \A i \in Steps(r) : /\ at'[r][i] = When(r, i) /\ mark'[r][i] = "open"
                          /\ Lead(r) <= When(r, i) /\ now < When(r, i)
  BY <1>1, <1>2, <1>3, <1>5, <1>6
<1>8. \A q \in Run \ {r} : /\ st'[q] = st[q] /\ end'[q] = end[q]
                           /\ at'[q] = at[q] /\ mark'[q] = mark[q]
  BY <1>1, <1>3
<1>9. fault[r] = <<>> /\ again[r] = NoTask /\ \A b \in batch : b.run # r
  BY <1>3 DEF MarksInv, Laid, Shared, Collected
<1>10. Lead(r) \in Int
  BY LeadTime
<1> QED
  BY <1>1, <1>2, <1>3, <1>4, <1>5, <1>7, <1>8, <1>9, <1>10

\* By guard A it is earlier or later than the rivals that are to fire.
LEMMA ArmedApart ==
  ASSUME Orderly, Sound, Sound', Shared, MarksInv, NEW r \in Run, Arm(r),
         NEW q \in Run, Rivals(q, r), st[q] \in Firing
  PROVE  Early(q, r) \/ Early(r, q)
<1>1. /\ st[r] = "none" /\ Clear(r) /\ now \in Int /\ Lead(r) \in Int
      /\ \A i \in Steps(r) : at'[r][i] = When(r, i) /\ mark'[r][i] = "open" /\ Lead(r) <= When(r, i)
  BY JustArmed
<1>2. PICK j \in Opens(q), i \in Opens(r) : Plan[q].steps[j].task = Plan[r].steps[i].task
  BY DEF Rivals
<1>3. TaskOf(q, j) = TaskOf(r, i) /\ j \in Steps(q) /\ i \in Steps(r)
  BY <1>2, Plans, StartsAndCloses
<1>4. \A p \in Run : Ever(p) = Steps(p)
  BY Plans DEF Ever
<1>5. TaskOf(q, j) \in MayLaunch(q) /\ TaskOf(r, i) \in MayLaunch(r)
  BY <1>3, <1>4, StartsAndCloses DEF MayLaunch, Starts
<1>6. MayLaunch(q) \subseteq Launches(q)
  BY LaunchesMay DEF Shared, Firing
<1>7. MayLaunch(r) \subseteq Launches(r)
  BY <1>1, <1>4 DEF MayLaunch, Launches
<1>8. Launches(q) \cap Launches(r) # {} /\ q \in Run \ {r} /\ st[q] \in Active
  BY <1>3, <1>5, <1>6, <1>7 DEF Rivals, Active
<1>9. ~(Lead(r) < ChannelEnd(q) /\ ChannelStart(q) < ChannelEnd(r)')
  BY <1>1, <1>8 DEF Clear
<1>10. \A k \in Steps(q) : k \in Fires(q) /\ at[q][k] = When(q, k)
  BY StartsAndCloses DEF MarksInv, Laid, Fires, Firing
<1>11. /\ ChannelEnd(q) \in Int /\ ChannelStart(q) \in Int
       /\ \A k \in Steps(q) : /\ When(q, k) <= ChannelEnd(q) /\ ChannelStart(q) <= When(q, k)
                              /\ When(q, k) \in Int
  BY <1>10, EndOfChannel, StartOfChannel, Plans DEF Sound
<1>12. \A k \in Steps(r) : k \in Fires(r)' /\ at'[r][k] = When(r, k)
  BY <1>1, StartsAndCloses DEF Fires
<1>13. ChannelEnd(r)' \in Int /\ \A k \in Fires(r)' : at'[r][k] <= ChannelEnd(r)'
  BY EndOfChannelAfter DEF Sound
<1>14. \A k \in Steps(r) : When(r, k) <= ChannelEnd(r)' /\ When(r, k) \in Int
  BY <1>12, <1>13, Plans
<1>15. CASE ChannelEnd(q) <= Lead(r)
  <2>1. \A k \in Steps(q), l \in Steps(r) : When(q, k) <= When(r, l)
    BY <1>1, <1>11, <1>14, <1>15
  <2> QED
    BY <2>1 DEF Early
<1>16. CASE ChannelEnd(r)' <= ChannelStart(q)
  <2>1. \A k \in Steps(r), l \in Steps(q) : When(r, k) <= When(q, l)
    BY <1>11, <1>13, <1>14, <1>16
  <2> QED
    BY <2>1 DEF Early
<1> QED
  BY <1>1, <1>9, <1>11, <1>13, <1>15, <1>16

\* What of a rival is collected or has begun was due, and of a run that has just
\* been armed nothing is: it is not the earlier one of such two.
LEMMA ArmMarks ==
  ASSUME Orderly, Sound, Sound', Shared, MarksInv, NEW r \in Run, Arm(r)
  PROVE  MarksInv'
<1>1. /\ st[r] = "none" /\ st'[r] = "ARMED" /\ end'[r] # Never
      /\ fault[r] = <<>> /\ again[r] = NoTask /\ \A b \in batch : b.run # r
      /\ now \in Int /\ now < Lead(r) /\ Lead(r) \in Int
      /\ \A i \in Steps(r) : /\ at'[r][i] = When(r, i) /\ mark'[r][i] = "open"
                             /\ Lead(r) <= When(r, i) /\ now < When(r, i)
      /\ \A i \in Slot : i \notin Steps(r) => at'[r][i] = 0 /\ mark'[r][i] = "unset"
      /\ \A q \in Run \ {r} : /\ st'[q] = st[q] /\ end'[q] = end[q]
                              /\ at'[q] = at[q] /\ mark'[q] = mark[q]
      /\ UNCHANGED <<now, batch, again, fault>>
  BY JustArmed
<1>2. \A b \in batch : b.run \in Run \ {r}
  BY <1>1 DEF Sound, TypeOK, WorkTypes
<1>3. now \in Nat /\ ~Begins(r)' /\ \A q \in Run \ {r} : Begins(q)' <=> Begins(q)
  BY <1>1, StartsAndCloses DEF Begins, Sound, TypeOK
<1>4. Laid'
  <2> SUFFICES ASSUME NEW q \in Run
               PROVE  /\ st'[q] # "HOLDING"
                      /\ st'[q] # "none" =>
                           /\ end'[q] # Never
                           /\ \A i \in Steps(q) : at'[q][i] = When(q, i) /\ mark'[q][i] # "unset"
                      /\ st'[q] = "none" => fault[q] = <<>> /\ again[q] = NoTask
                      /\ \A j \in Closes(q) : mark'[q][j] \in {"unset", "open", "fired", "fault"}
    BY <1>1 DEF Laid
  <2>1. CASE q = r
    BY <1>1, <2>1, StartsAndCloses
  <2>2. CASE q # r
    BY <1>1, <2>2 DEF MarksInv, Laid
  <2> QED
    BY <2>1, <2>2
<1>5. Timed'
  <2>1. ASSUME NEW q \in Run, NEW i \in Slot, mark'[q][i] = "fired" \/ i = N PROVE at'[q][i] <= now
    <3>1. CASE q = r
      BY <1>1, <1>3, <2>1, <3>1, StartsAndCloses
    <3>2. CASE q # r
      BY <1>1, <2>1, <3>2 DEF MarksInv, Timed
    <3> QED
      BY <3>1, <3>2
  <2>2. ASSUME NEW q \in Run, again[q] # NoTask, NEW i \in Opens(q) PROVE When(q, i) <= at'[q][N]
    BY <1>1, <2>2 DEF MarksInv, Timed
  <2>3. \A b \in batch : at'[b.run][b.step] <= now
    BY <1>1, <1>2 DEF MarksInv, Timed
  <2> QED
    BY <1>1, <2>1, <2>2, <2>3 DEF MarksInv, Timed
<1>6. Lost'
  <2> SUFFICES ASSUME NEW q \in Run
               PROVE  /\ fault[q] # <<>> => \A i \in Slot : mark'[q][i] # "open"
                      /\ (fault[q] # <<>> \/ again[q] # NoTask) => Begins(q)'
    BY <1>1 DEF Lost
  <2>1. CASE q = r
    BY <1>1, <2>1
  <2>2. CASE q # r
    BY <1>1, <1>3, <2>2 DEF MarksInv, Lost
  <2> QED
    BY <2>1, <2>2
<1>7. Ahead'
  <2> SUFFICES ASSUME NEW q \in Run, st'[q] \in Firing, NEW i \in Starts(q), mark'[q][i] = "open"
               PROVE  mark'[q][LastStop(q)] = "open" /\ at'[q][i] < When(q, LastStop(q))
    BY DEF Ahead
  <2>1. CASE q = r
    <3>1. i \in Opens(r)
      BY <1>1, <2>1, StartsAndCloses DEF Starts
    <3>2. When(r, i) < When(r, LastStop(r)) /\ LastStop(r) \in Steps(r) /\ i \in Steps(r)
      BY <3>1, Plans, StartsAndCloses
    <3> QED
      BY <1>1, <2>1, <3>2
  <2>2. CASE q # r
    BY <1>1, <2>2 DEF MarksInv, Ahead
  <2> QED
    BY <2>1, <2>2
<1>8. InOrder'
  <2> SUFFICES ASSUME NEW q \in Run, st'[q] \in Firing, NEW i \in Starts(q), NEW b \in batch,
                      mark'[q][i] = "open", b.run = q, b.step = LastStop(q)
               PROVE  \E a \in batch : a.run = q /\ a.step = i /\ a.at < b.at
    BY <1>1 DEF InOrder
  <2>1. q # r
    BY <1>1
  <2> QED
    BY <1>1, <2>1 DEF MarksInv, InOrder
<1>9. Disjoint'
  <2> SUFFICES ASSUME NEW p \in Run, NEW q \in Run, Rivals(p, q), {st'[p], st'[q]} \subseteq Firing
               PROVE  Early(p, q) \/ Early(q, p)
    BY DEF Disjoint, RivalsFiring
  <2>1. CASE p = r
    <3>1. q # r /\ Rivals(q, r)
      BY <2>1 DEF Rivals
    <3> QED
      BY <1>1, <2>1, <3>1, ArmedApart
  <2>2. CASE q = r
    <3>1. p # r
      BY <2>2 DEF Rivals
    <3> QED
      BY <1>1, <2>2, <3>1, ArmedApart
  <2>3. CASE p # r /\ q # r
    BY <1>1, <2>3 DEF MarksInv, Disjoint, RivalsFiring
  <2> QED
    BY <2>1, <2>2, <2>3
<1>10. ASSUME NEW q \in Run, Rivals(r, q), Early(r, q), st'[q] \in Firing, NEW i \in Opens(q),
              NEW j \in Closes(r), at[q][i] <= now
       PROVE  FALSE
  <2>1. q # r /\ at[q][i] = When(q, i) /\ i \in Steps(q) /\ j \in Steps(r)
    BY <1>1, <1>10, StartsAndCloses DEF Rivals, MarksInv, Laid, Firing
  <2>2. When(r, j) <= When(q, i) /\ When(r, j) \in Int /\ When(q, i) \in Int
    BY <1>10, <2>1, Plans DEF Early
  <2> QED
    BY <1>1, <1>10, <2>1, <2>2
<1>11. InTurn'
  <2> SUFFICES ASSUME NEW p \in Run, NEW q \in Run, RivalsFiring(p, q)', Early(p, q),
                      NEW i \in Opens(q), NEW j \in Closes(p), NEW b \in batch,
                      b.run = q, b.step = i, mark'[q][i] = "open", mark'[p][j] = "open"
               PROVE  \E a \in batch : a.run = p /\ a.step = j
    BY <1>1 DEF InTurn
  <2>1. q # r /\ at[q][i] <= now
    BY <1>1 DEF MarksInv, Timed
  <2>2. p # r
    BY <1>10, <2>1 DEF RivalsFiring
  <2> QED
    BY <1>1, <2>1, <2>2 DEF MarksInv, InTurn, RivalsFiring
<1>12. Gone'
  <2> SUFFICES ASSUME NEW p \in Run, NEW q \in Run, RivalsFiring(p, q)', Early(p, q), Begins(q)',
                      NEW j \in Closes(p), mark'[p][j] = "open"
               PROVE  FALSE
    BY DEF Gone
  <2>1. q # r
    BY <1>3
  <2>2. PICK i \in Opens(q) : mark[q][i] = "fired"
    BY <1>1, <2>1 DEF Begins
  <2>3. at[q][i] <= now
    BY <2>2, StartsAndCloses DEF MarksInv, Timed
  <2>4. p # r
    BY <1>10, <2>3 DEF RivalsFiring
  <2> QED
    BY <1>1, <1>3, <2>1, <2>4 DEF MarksInv, Gone, RivalsFiring
<1> QED
  BY <1>4, <1>5, <1>6, <1>7, <1>8, <1>9, <1>11, <1>12 DEF MarksInv

\* A restart that waits keeps its run, its clock and its mode, and the clock does
\* not run away from it.
Waits ==
  \A c \in Coroutine : Restarting(c)' =>
    /\ Restarting(c) /\ cur'[c] = cur[c] /\ since'[c] = since[c] /\ mode'[c] = mode[c]
    /\ now' = now \/ (now - since[c] < Patience /\ now' = now + 1)

\* One that has just begun does so now, for a run that has a fault.
Rekindles ==
  /\ UNCHANGED <<now, at, mark, batch>>
  /\ \A c \in Coroutine : Restarting(c)' =>
       \/ Restarting(c) /\ cur'[c] = cur[c] /\ since'[c] = since[c] /\ mode'[c] = mode[c]
       \/ cur'[c] \in Run /\ since'[c] = now /\ mode'[c] = "resync"

\* A restart that stops a live process changes nothing else of what runs, and
\* waits from now on.
LEMMA RestartWaits ==
  ASSUME Sound, NEW c \in Coroutine, NEW r \in Run, NEW label \in {"idle", "redo"}, NEW how,
         how = "resync", Restart(c, r, how, label)
  PROVE  Rekindles
<1> USE DEF Sound, TypeOK, HandTypes
<1>1. UNCHANGED <<now, at, mark, batch>>
  BY DEF Restart, runs
<1>2. \A d \in Coroutine : d # c => /\ pc'[d] = pc[d] /\ cur'[d] = cur[d] /\ then'[d] = then[d]
                                   /\ since'[d] = since[d] /\ mode'[d] = mode[d]
  BY DEF Restart, Refused, StopTask, Goto
<1>3. cur'[c] = r /\ since'[c] = now /\ mode'[c] = "resync"
  BY DEF Restart
<1>4. \A d \in Coroutine : d # c => (Restarting(d)' => Restarting(d))
  BY <1>2 DEF Restarting, Awaiting
<1> QED
  BY <1>1, <1>2, <1>3, <1>4 DEF Rekindles

\* A restart either waits or has just begun.
LEMMA WaitStep ==
  ASSUME Orderly, Sound, [Next]_vars
  PROVE  Waits \/ Rekindles
<1> USE LoopRuns DEF Sound, TypeOK
<1>1. ASSUME NEW r \in Run, Arm(r) PROVE Waits
  BY <1>1 DEF Arm, At, Goto, Restarting, Awaiting, Waits, HandTypes, hand
<1>2. ASSUME NEW r \in Run, HoldNow(r) PROVE Waits
  BY <1>2 DEF HoldNow, At, Goto, Restarting, Awaiting, Waits, HandTypes, hand
<1>3. ASSUME NEW r \in Run, NEW to \in Ends, Patch(r, to) PROVE Waits
  BY <1>3 DEF Patch, At, Goto, Restarting, Awaiting, Waits, HandTypes, hand
<1>4. ASSUME NEW r \in Run, NEW resume \in {now, now + 1}, Proceed(r, resume) PROVE Waits
  BY <1>4 DEF Proceed, At, Goto, Restarting, Awaiting, Waits, HandTypes, hand
<1>5. ASSUME NEW r \in Run, RestartUnattended(r) PROVE Rekindles
  BY <1>5, RestartWaits DEF RestartUnattended
<1>6. ASSUME NEW r \in Run, Forgive(r) PROVE Waits
  BY <1>6 DEF Forgive, At, Goto, Restarting, Awaiting, Waits, HandTypes, hand
<1>7. ASSUME NEW c \in Caller, AbortAll(c) PROVE Waits
  BY <1>7 DEF AbortAll, At, Goto, Restarting, Awaiting, Waits, HandTypes, hand
<1>8. ASSUME NEW c \in Caller, NEW r \in Run, Cancel(c, r) PROVE Waits
  BY <1>8 DEF Cancel, At, Goto, Restarting, Awaiting, Waits, HandTypes, hand
<1>9. ASSUME NEW c \in Caller, NEW r \in Run, NEW how \in Modes, RestartByHand(c, r,
   how) PROVE Rekindles
  BY <1>9, RestartWaits DEF RestartByHand, Orderly
<1>10. ASSUME NEW c \in Coroutine, Muted(c) PROVE Waits
  BY <1>10 DEF Muted, At, Goto, Restarting, Awaiting, Waits, HandTypes, hand
<1>11. ASSUME NEW c \in Coroutine, Swept(c) PROVE Waits
  BY <1>11 DEF Swept, At, Goto, Restarting, Awaiting, Waits, HandTypes, hand
<1>12. ASSUME NEW c \in Coroutine, RestartRefused(c) PROVE Waits
  BY <1>12 DEF RestartRefused, Refused, At, Goto, Restarting, Awaiting, Waits, HandTypes, hand
<1>13. ASSUME NEW c \in Coroutine, Commit(c) PROVE Waits
  BY <1>13 DEF Commit, Goto, At, Restarting, Awaiting, Waits, HandTypes, hand
<1>14. ASSUME NEW c \in Coroutine, NEW r \in Run, Abort(c, r) PROVE Waits
  BY <1>14 DEF Abort, At, Goto, Restarting, Awaiting, Waits, HandTypes, hand
<1>15. ASSUME NEW c \in Coroutine, NEW n \in {1, 2}, NEW t \in Task, Sweep(c, n, t) PROVE Waits
  BY <1>15 DEF Sweep, StopTask, Goto, At, Restarting, Awaiting, Waits, HandTypes, hand
<1>16. ASSUME NEW b \in batch, FireSkipped(b) PROVE Waits
  BY <1>16 DEF FireSkipped, At, Goto, Restarting, Awaiting, Waits, HandTypes, hand
<1>17. ASSUME NEW b \in batch, TuneDeferred(b) PROVE Waits
  BY <1>17 DEF TuneDeferred, At, Goto, Restarting, Awaiting, Waits, HandTypes, hand
<1>18. ASSUME NEW b \in batch, TuneDropped(b) PROVE Waits
  BY <1>18 DEF TuneDropped, At, Goto, Restarting, Awaiting, Waits, HandTypes, hand
<1>19. ASSUME NEW b \in batch, Tune(b) PROVE Waits
  BY <1>19 DEF Tune, Take, At, Goto, Restarting, Awaiting, Waits, HandTypes, hand
<1>20. ASSUME NEW b \in batch, Start(b) PROVE Waits
  BY <1>20 DEF Start, Take, At, Goto, Restarting, Awaiting, Waits, HandTypes, hand
<1>21. ASSUME NEW b \in batch, Stop(b) PROVE Waits
  BY <1>21 DEF Stop, Take, StopTask, Goto, At, Restarting, Awaiting, Waits, HandTypes, hand
<1>22. ASSUME Tick PROVE Waits
  BY <1>22 DEF Tick, At, Goto, Restarting, Awaiting, Waits, HandTypes, hand
<1>23. ASSUME Tuned PROVE Waits
  BY <1>23 DEF Tuned, At, Goto, Restarting, Awaiting, Waits, HandTypes, hand
<1>24. ASSUME Unpark PROVE Waits
  BY <1>24 DEF Unpark, At, Goto, Woken, Restarting, Awaiting, Waits, HandTypes, hand
<1>25. ASSUME Exec PROVE Waits
  BY <1>25 DEF Exec, At, Goto, Woken, Restarting, Awaiting, Waits, HandTypes, hand
<1>26. ASSUME Launched PROVE Waits
  BY <1>26 DEF Launched, StopTask, Goto, At, Restarting, Awaiting, Waits, HandTypes, hand
<1>27. ASSUME After PROVE Waits
  BY <1>27 DEF After, At, Goto, Restarting, Awaiting, Waits, HandTypes, hand
<1>28. ASSUME Holds PROVE Waits
  BY <1>28 DEF Holds, At, Goto, Restarting, Awaiting, Waits, HandTypes, hand
<1>29. ASSUME Collect PROVE Waits
  BY <1>29 DEF Collect, At, Goto, Restarting, Awaiting, Waits, HandTypes, hand
<1>30. ASSUME Sleep PROVE Waits
  BY <1>30 DEF Sleep, At, Goto, Restarting, Awaiting, Waits, HandTypes, hand
<1>31. ASSUME NEW t \in Task, Bind(t) PROVE Waits
  BY <1>31 DEF Bind, At, Goto, Restarting, Awaiting, Waits, HandTypes, hand
<1>32. ASSUME NEW t \in Task, Exit(t) PROVE Waits
  BY <1>32 DEF Exit, Woken, At, Goto, Restarting, Awaiting, Waits, HandTypes, hand
<1>33. ASSUME NEW t \in Task, Fail(t) PROVE Waits
  BY <1>33 DEF Fail, At, Goto, Restarting, Awaiting, Waits, HandTypes, hand
<1>34. ASSUME NEW t \in Task, Alarm(t) PROVE Waits
  BY <1>34 DEF Alarm, Restarting, Awaiting, Waits, hand
<1>35. ASSUME TimePasses PROVE Waits
  BY <1>35 DEF TimePasses, Quiet, InHand, Restarting, Awaiting, Waits, HandTypes, hand
<1>36. ASSUME CrashAndRestart PROVE Waits
  <2>1. \A c \in Coroutine : pc'[c] \in {"idle", "done"}
    BY <1>36 DEF CrashAndRestart
  <2> QED
    BY <2>1 DEF Restarting, Awaiting, Waits
<1>37. ASSUME UNCHANGED vars PROVE Waits
  BY <1>37 DEF vars, hand, Waits, Restarting, Awaiting
<1> HIDE DEF Sound, TypeOK
<1> QED
  BY <1>1, <1>2, <1>3, <1>4, <1>5, <1>6, <1>7, <1>8, <1>9, <1>10, <1>11, <1>12, <1>13,
     <1>14, <1>15, <1>16, <1>17, <1>18, <1>19, <1>20, <1>21, <1>22, <1>23, <1>24, <1>25,
     <1>26, <1>27, <1>28, <1>29, <1>30, <1>31, <1>32, <1>33, <1>34, <1>35, <1>36,
     <1>37 DEF Next

\* What a restart has in hand has a fault, so no step fires or collects anything
\* of it: nothing of it is open.
LEMMA MendsStep ==
  ASSUME Orderly, Sound, Sound', OwnInv, Shared, MarksInv, Mends, [Next]_vars
  PROVE  Mends'
<1>1. /\ now \in Nat /\ since \in [Coroutine -> Nat] /\ Patience \in Nat /\ now' \in Nat
      /\ at \in [Run -> [Slot -> Int]] /\ mark \in [Run -> [Slot -> Mark]]
      /\ \A b \in batch : b.run \in Run /\ b.step \in Slot
  BY Bounds DEF Sound, TypeOK, HandTypes, RunTypes, WorkTypes
<1>2. CASE Rekindles
  <2> SUFFICES ASSUME NEW c \in Coroutine, Restarting(c)'
               PROVE  /\ mode'[c] = "resync" /\ now <= since'[c] + Patience
                      /\ \A i \in Slot : (mark[cur'[c]][i] = "fired" \/ i = N) => at[cur'[c]][i] <= since'[c]
                      /\ \A b \in batch : b.run = cur'[c] => at[b.run][b.step] <= since'[c]
    BY <1>2 DEF Rekindles, Mends
  <2>1. CASE Restarting(c) /\ cur'[c] = cur[c] /\ since'[c] = since[c] /\ mode'[c] = mode[c]
    BY <2>1 DEF Mends
  <2>2. CASE cur'[c] \in Run /\ since'[c] = now /\ mode'[c] = "resync"
    BY <1>1, <2>2 DEF MarksInv, Timed
  <2> QED
    BY <1>2, <2>1, <2>2 DEF Rekindles
<1>3. CASE Waits
  <2> SUFFICES ASSUME NEW c \in Coroutine, Restarting(c)'
               PROVE  /\ mode'[c] = "resync" /\ now' <= since'[c] + Patience
                      /\ \A i \in Slot :
                           (mark'[cur'[c]][i] = "fired" \/ i = N) => at'[cur'[c]][i] <= since'[c]
                      /\ \A b \in batch' : b.run = cur'[c] => at'[b.run][b.step] <= since'[c]
    BY DEF Mends
  <2>1. /\ Restarting(c) /\ cur'[c] = cur[c] /\ since'[c] = since[c] /\ mode'[c] = mode[c]
        /\ now' = now \/ (now - since[c] < Patience /\ now' = now + 1)
    BY <1>3 DEF Waits
  <2>2. PICK r \in Run : r = cur[c]
    BY <2>1 DEF Sound, HandInv, Hand
  <2>3. PICK s \in Nat : s = since[c]
    BY <1>1
  <2>4. fault[r] # <<>> /\ \A i \in Slot : mark[r][i] # "open"
    BY <2>1, <2>2 DEF Sound, RestartInv, Mending, MarksInv, Lost
  <2>5. /\ mode[c] = "resync" /\ now <= s + Patience
        /\ \A i \in Slot : (mark[r][i] = "fired" \/ i = N) => at[r][i] <= s
        /\ \A b \in batch : b.run = r => at[b.run][b.step] <= s
    BY <2>1, <2>2, <2>3 DEF Mends
  <2>6. now' <= s + Patience
    BY <1>1, <2>1, <2>3, <2>5
  <2>7. SUFFICES /\ at'[r] = at[r]
                 /\ \A i \in Slot : mark'[r][i] = "fired" => mark[r][i] = "fired"
                 /\ \A b \in batch' : b.run = r => b \in batch
    BY <2>1, <2>2, <2>3, <2>5, <2>6
  <2>8. CASE Steady
    BY <2>4, <2>8 DEF Steady
  <2>9. ASSUME NEW q \in Run, Arm(q)
        PROVE  /\ at'[r] = at[r]
               /\ \A i \in Slot : mark'[r][i] = "fired" => mark[r][i] = "fired"
               /\ \A b \in batch' : b.run = r => b \in batch
    <3>1. q # r
      BY <2>4, <2>9, JustArmed
    <3> QED
      BY <2>9, <3>1, JustArmed
  <2>10. CASE Tick
    <3>1. /\ at' = at /\ \A i \in Slot : mark'[r][i] = "fired" => mark[r][i] = "fired"
          /\ \A b \in batch' : b.step \in Due(b.run)
      BY <2>10, Ticked DEF MarksInv
    <3> QED
      BY <2>4, <3>1 DEF Due
  <2>11. ASSUME NEW b \in batch, Start(b) \/ Stop(b)
         PROVE  /\ at'[r] = at[r]
                /\ \A i \in Slot : mark'[r][i] = "fired" => mark[r][i] = "fired"
                /\ \A d \in batch' : d.run = r => d \in batch
    <3>1. Fireable(b) /\ Take(b) /\ at' = at
      BY <2>11 DEF Start, Stop
    <3>2. /\ b.run \in Run /\ b.step \in Slot /\ mark[b.run][b.step] = "open"
          /\ mark' = [mark EXCEPT ![b.run][b.step] = "fired"]
      BY <3>1, Taken DEF Shared
    <3>3. b.run # r
      BY <2>4, <3>2
    <3> QED
      BY <1>1, <3>1, <3>2, <3>3 DEF Take
  <2>12. ASSUME NEW t \in Task, Coupling(t)
         PROVE  /\ at'[r] = at[r]
                /\ \A i \in Slot : mark'[r][i] = "fired" => mark[r][i] = "fired"
                /\ \A b \in batch' : b.run = r => b \in batch
    BY <2>12, CoupledRuns DEF MarksInv, Coupling
  <2>13. ASSUME NEW d \in Coroutine, Commit(d)
         PROVE  /\ at'[r] = at[r]
                /\ \A i \in Slot : mark'[r][i] = "fired" => mark[r][i] = "fired"
                /\ \A b \in batch' : b.run = r => b \in batch
    <3>1. Restarting(d) /\ pc'[d] \in {"done", "redo"}
      BY <2>13 DEF Commit, At, Restarting, Goto, Sound, TypeOK, HandTypes
    <3>2. ~Restarting(d)'
      BY <3>1 DEF Restarting, Awaiting
    <3>3. cur[d] # r
      BY <2>1, <2>2, <3>1, <3>2 DEF Sound, RestartInv, OneAtATime
    <3> QED
      BY <2>13, <3>3, Committed
  <2>14. QED
    <3>1. \/ Steady \/ (\E q \in Run : Arm(q)) \/ Tick \/ (\E b \in batch : Start(b) \/ Stop(b))
          \/ (\E t \in Task : Coupling(t)) \/ \E d \in Coroutine : Commit(d)
      BY MarkKinds DEF Shared, MarksInv
    <3> QED
      BY <2>8, <2>9, <2>10, <2>11, <2>12, <2>13, <3>1
<1> QED
  BY <1>2, <1>3, WaitStep

\* Every step keeps the marks in order.
LEMMA MarksStep ==
  ASSUME Orderly, Sound, Sound', OwnInv, Shared, MarksInv, Mends, [Next]_vars
  PROVE  MarksInv'
<1>1. ASSUME NEW b \in batch, Start(b) \/ Stop(b) PROVE MarksInv'
  <2>1. /\ First(b) /\ Fireable(b) /\ Take(b) /\ UNCHANGED <<now, end, at, again, fault>>
        /\ Act(b.run, b.step) # "tune"
    BY <1>1 DEF Start, Stop, faults
  <2> QED
    BY <2>1, TakeMarks DEF Shared
<1>2. \/ Steady \/ (\E q \in Run : Arm(q)) \/ Tick \/ (\E b \in batch : Start(b) \/ Stop(b))
      \/ (\E t \in Task : Coupling(t)) \/ \E d \in Coroutine : Commit(d)
  BY MarkKinds DEF Shared, MarksInv
<1> QED
  BY <1>1, <1>2, SteadyMarks, ArmMarks, TickMarks, CoupleMarks, CommitMarks

-----------------------------------------------------------------------------
(* What is on the air or about to be.                                      *)

\* A task serves a run that has launched it or is launching it.
Serves(t, r) == Aired(t, r) \/ (Spawning(t) /\ cur[Loop] = r)

\* What a run is served by it started, by the START of its plan at first, and no
\* relaunch is to fire.
AirBegun ==
  \A t \in Task :
    /\ owner[t] # NoRun => Begins(owner[t])
    /\ air[t] = "on" => owner[t] # NoRun
    /\ Spawning(t) => Begins(cur[Loop])
NoneOpen == \A t \in Task, r \in Run : Serves(t, r) => mark[r][N] # "open"

\* A task that is launched is not on the air already, nor is a fault of it told.
Spawned ==
  \A t \in Task : Spawning(t) => fault[cur[Loop]] = <<>> /\ air[t] # "on" /\ alarm[t] = "none"
Alarmed == \A t \in Task : alarm[t] = "past" => air[t] # "on"

\* The last STOP of a run that a task serves is to come, or the alarm.
Stops ==
  \A t \in Task, r \in Run :
    (st[r] \in Firing /\ Serves(t, r)) => mark[r][LastStop(r)] = "open" \/ alarm[t] = "wedge"

\* Who sweeps does so for a run that is over; while it waits nothing is on the
\* air for that run but what has just come up.
SweepInv ==
  \A c \in Coroutine : left[c] # {} =>
    /\ st[cur[c]] \in Over /\ left[c] \subseteq {1, 2} \X Touched(cur[c])
    /\ \A t \in Task : (Awaiting(c) /\ Aired(t, cur[c])) =>
         pc[Loop] = "launched" /\ cur[Loop] = cur[c] /\ on[Loop] = t

AirInv == AirBegun /\ NoneOpen /\ Spawned /\ Alarmed /\ Stops /\ SweepInv

\* Most steps launch nothing: what is on the air or parked was before, and an
\* alarm changes for a task that is not, or when it fails.
Unlaunched ==
  /\ owner' = owner
  /\ \A t \in Task :
       /\ air'[t] = "on" => air[t] = "on"
       /\ Spawning(t)' => Spawning(t) /\ cur'[Loop] = cur[Loop]
       /\ alarm'[t] = alarm[t] \/ (~Spawning(t)' /\ (air'[t] = "on" => alarm'[t] = "wedge"))
\* The others park a START, or bring one up.
Up ==
  LET t == on[Loop] IN
  /\ pc[Loop] = "exec" /\ pc'[Loop] = "launched" /\ air' = [air EXCEPT ![t] = "on"]
  /\ owner' = [owner EXCEPT ![t] = cur[Loop]]
  /\ UNCHANGED <<mark, fault, st, alarm, cur, on>>

\* The three kinds of steps.
LEMMA LaunchKinds ==
  ASSUME Sound, Spawned, Alarmed, [Next]_vars
  PROVE  Unlaunched \/ Up \/ \E b \in batch : Start(b)
<1> USE LoopRuns DEF Sound, TypeOK
<1>1. ASSUME NEW r \in Run, Arm(r) PROVE Unlaunched
  BY <1>1 DEF Arm, Unlaunched, Spawning, At, Goto, slots, hand, HandTypes, TaskTypes
<1>2. ASSUME NEW r \in Run, HoldNow(r) PROVE Unlaunched
  BY <1>2 DEF HoldNow, Unlaunched, Spawning, At, Goto, slots, hand, HandTypes, TaskTypes
<1>3. ASSUME NEW r \in Run, NEW to \in Ends, Patch(r, to) PROVE Unlaunched
  BY <1>3 DEF Patch, Unlaunched, Spawning, At, Goto, slots, hand, HandTypes, TaskTypes
<1>4. ASSUME NEW r \in Run, NEW resume \in {now, now + 1}, Proceed(r, resume) PROVE Unlaunched
  BY <1>4 DEF Proceed, Unlaunched, Spawning, At, Goto, slots, hand, HandTypes, TaskTypes
<1>5. ASSUME NEW r \in Run, RestartUnattended(r) PROVE Unlaunched
  BY <1>5 DEF RestartUnattended, Restart, Refused, StopTask, Unlaunched, Spawning, At, Goto,
     slots, hand, HandTypes, TaskTypes
<1>6. ASSUME NEW r \in Run, Forgive(r) PROVE Unlaunched
  BY <1>6 DEF Forgive, Unlaunched, Spawning, At, Goto, slots, hand, HandTypes, TaskTypes
<1>7. ASSUME NEW c \in Caller, AbortAll(c) PROVE Unlaunched
  BY <1>7 DEF AbortAll, Unlaunched, Spawning, At, Goto, slots, hand, HandTypes, TaskTypes
<1>8. ASSUME NEW c \in Caller, NEW r \in Run, Cancel(c, r) PROVE Unlaunched
  BY <1>8 DEF Cancel, Unlaunched, Spawning, At, Goto, slots, hand, HandTypes, TaskTypes
<1>9. ASSUME NEW c \in Caller, NEW r \in Run, NEW how \in Modes, RestartByHand(c, r, how) PROVE
   Unlaunched
  BY <1>9 DEF RestartByHand, Restart, Refused, StopTask, Unlaunched, Spawning, At, Goto, slots,
     hand, HandTypes, TaskTypes
<1>10. ASSUME NEW c \in Coroutine, Muted(c) PROVE Unlaunched
  BY <1>10 DEF Muted, Unlaunched, Spawning, At, Goto, slots, hand, HandTypes, TaskTypes, HandInv, Hand
<1>11. ASSUME NEW c \in Coroutine, Swept(c) PROVE Unlaunched
  BY <1>11 DEF Swept, Unlaunched, Spawning, At, Goto, slots, hand, HandTypes, TaskTypes
<1>12. ASSUME NEW c \in Coroutine, RestartRefused(c) PROVE Unlaunched
  BY <1>12 DEF RestartRefused, Refused, Unlaunched, Spawning, At, Goto, slots, hand, HandTypes,
     TaskTypes
<1>13. ASSUME NEW c \in Coroutine, Commit(c) PROVE Unlaunched
  BY <1>13 DEF Commit, Unlaunched, Spawning, At, Goto, slots, hand, HandTypes, TaskTypes
<1>14. ASSUME NEW c \in Coroutine, NEW r \in Run, Abort(c, r) PROVE Unlaunched
  BY <1>14 DEF Abort, Unlaunched, Spawning, At, Goto, slots, hand, HandTypes, TaskTypes
<1>15. ASSUME NEW c \in Coroutine, NEW n \in {1, 2}, NEW t \in Task, Sweep(c, n, t) PROVE
   Unlaunched
  BY <1>15 DEF Sweep, StopTask, Unlaunched, Spawning, At, Goto, slots, hand, HandTypes, TaskTypes
<1>16. ASSUME NEW b \in batch, FireSkipped(b) PROVE Unlaunched
  BY <1>16 DEF FireSkipped, Unlaunched, Spawning, At, Goto, slots, hand, HandTypes, TaskTypes
<1>17. ASSUME NEW b \in batch, TuneDeferred(b) PROVE Unlaunched
  BY <1>17 DEF TuneDeferred, Unlaunched, Spawning, At, Goto, slots, hand, HandTypes, TaskTypes
<1>18. ASSUME NEW b \in batch, TuneDropped(b) PROVE Unlaunched
  BY <1>18 DEF TuneDropped, Unlaunched, Spawning, At, Goto, slots, hand, HandTypes, TaskTypes
<1>19. ASSUME NEW b \in batch, Tune(b) PROVE Unlaunched
  BY <1>19 DEF Tune, Take, Unlaunched, Spawning, At, Goto, slots, hand, HandTypes, TaskTypes
<1>20. ASSUME NEW b \in batch, Start(b) PROVE \E d \in batch : Start(d)
  BY <1>20
<1>21. ASSUME NEW b \in batch, Stop(b) PROVE Unlaunched
  BY <1>21 DEF Stop, Take, StopTask, Unlaunched, Spawning, At, Goto, slots, hand, HandTypes,
     TaskTypes
<1>22. ASSUME Tick PROVE Unlaunched
  BY <1>22 DEF Tick, Unlaunched, Spawning, At, Goto, slots, hand, HandTypes, TaskTypes
<1>23. ASSUME Tuned PROVE Unlaunched
  BY <1>23 DEF Tuned, Unlaunched, Spawning, At, Goto, slots, hand, HandTypes, TaskTypes
<1>24. ASSUME Unpark PROVE Unlaunched
  BY <1>24 DEF Unpark, Unlaunched, Spawning, At, Goto, slots, hand, HandTypes, TaskTypes
<1>25. ASSUME Exec PROVE Unlaunched \/ Up
  <2>1. on[Loop] \in Task /\ Spawning(on[Loop])
    BY <1>25 DEF Exec, At, HandInv, Hand, Launching, Spawning
  <2>2. CASE air'[on[Loop]] = "off"
    BY <1>25, <2>1, <2>2 DEF Exec, Woken, Unlaunched, Spawning, At, Goto, slots, hand, HandTypes,
       TaskTypes
  <2>3. CASE air'[on[Loop]] # "off"
    <3>1. alarm' = alarm
      BY <1>25, <2>1, <2>3 DEF Exec, Spawned, TaskTypes
    <3> QED
      BY <1>25, <2>1, <2>3, <3>1 DEF Exec, Up, At, Goto, TaskTypes, HandTypes, work, hand
  <2> QED
    BY <2>2, <2>3
<1>26. ASSUME Launched PROVE Unlaunched
  BY <1>26 DEF Launched, StopTask, Unlaunched, Spawning, At, Goto, slots, hand, HandTypes,
     TaskTypes
<1>27. ASSUME After PROVE Unlaunched
  BY <1>27 DEF After, Unlaunched, Spawning, At, Goto, slots, hand, HandTypes, TaskTypes
<1>28. ASSUME Holds PROVE Unlaunched
  BY <1>28 DEF Holds, Unlaunched, Spawning, At, Goto, slots, hand, HandTypes, TaskTypes
<1>29. ASSUME Collect PROVE Unlaunched
  BY <1>29 DEF Collect, Unlaunched, Spawning, At, Goto, slots, hand, HandTypes, TaskTypes
<1>30. ASSUME Sleep PROVE Unlaunched
  BY <1>30 DEF Sleep, Unlaunched, Spawning, At, Goto, slots, hand, HandTypes, TaskTypes
<1>31. ASSUME NEW t \in Task, Bind(t) PROVE Unlaunched
  BY <1>31 DEF Bind, Unlaunched, Spawning, At, Goto, slots, hand, HandTypes, TaskTypes
<1>32. ASSUME NEW t \in Task, Exit(t) PROVE Unlaunched
  BY <1>32 DEF Exit, Woken, Unlaunched, Spawning, At, Goto, slots, hand, HandTypes, TaskTypes
<1>33. ASSUME NEW t \in Task, Fail(t) PROVE Unlaunched
  BY <1>33 DEF Fail, Unlaunched, Spawning, At, Goto, slots, hand, HandTypes, TaskTypes, Spawned
<1>34. ASSUME NEW t \in Task, Alarm(t) PROVE Unlaunched
  BY <1>34 DEF Alarm, Unlaunched, Spawning, At, Goto, slots, hand, HandTypes, TaskTypes, Spawned,
     Alarmed
<1>35. ASSUME TimePasses PROVE Unlaunched
  BY <1>35 DEF TimePasses, Unlaunched, Spawning, At, Goto, slots, hand, HandTypes, TaskTypes
<1>36. ASSUME CrashAndRestart PROVE Unlaunched
  BY <1>36 DEF CrashAndRestart, Unlaunched, Spawning, At, Goto, slots, hand, HandTypes, TaskTypes
<1>37. ASSUME UNCHANGED vars PROVE Unlaunched
  BY <1>37 DEF vars, Unlaunched, Spawning, At, Goto, slots, hand, HandTypes, TaskTypes
<1> HIDE DEF Sound, TypeOK
<1> QED
  BY <1>1, <1>2, <1>3, <1>4, <1>5, <1>6, <1>7, <1>8, <1>9, <1>10, <1>11, <1>12, <1>13, <1>14,
     <1>15, <1>16, <1>17, <1>18, <1>19, <1>20, <1>21, <1>22, <1>23, <1>24, <1>25, <1>26, <1>27,
     <1>28, <1>29, <1>30, <1>31, <1>32, <1>33, <1>34, <1>35, <1>36, <1>37 DEF Next

\* What is to be swept is of the run in hand, which an abort has put there; a
\* coroutine that sweeps comes to wait by it.
Sweeps ==
  \A c \in Coroutine : left'[c] # {} =>
    \/ \E r \in Run : Abort(c, r)
    \/ /\ left'[c] \subseteq left[c] /\ cur'[c] = cur[c]
       /\ Awaiting(c)' => Awaiting(c) \/ \E n \in {1, 2}, t \in Task : Sweep(c, n, t)

\* The loop looks at what it has launched before it does anything else.
Looks ==
  pc[Loop] = "launched" =>
    \/ Launched \/ \A t \in Task : air'[t] # "on"
    \/ pc'[Loop] = "launched" /\ cur'[Loop] = cur[Loop] /\ on'[Loop] = on[Loop]

\* So it is with every step.
LEMMA SweepKinds ==
  ASSUME Sound, [Next]_vars
  PROVE  Sweeps /\ Looks
<1> USE LoopRuns DEF Sound, TypeOK
<1>1. ASSUME NEW r \in Run, Arm(r) PROVE Sweeps /\ Looks
  BY <1>1 DEF Arm, Sweeps, Looks, Awaiting, At, Goto, work, hand, HandTypes, WorkTypes, HandInv,
     Hand
<1>2. ASSUME NEW r \in Run, HoldNow(r) PROVE Sweeps /\ Looks
  BY <1>2 DEF HoldNow, Sweeps, Looks, Awaiting, At, Goto, work, hand, HandTypes, WorkTypes,
     HandInv, Hand
<1>3. ASSUME NEW r \in Run, NEW to \in Ends, Patch(r, to) PROVE Sweeps /\ Looks
  BY <1>3 DEF Patch, Sweeps, Looks, Awaiting, At, Goto, work, hand, HandTypes, WorkTypes,
     HandInv, Hand
<1>4. ASSUME NEW r \in Run, NEW resume \in {now, now + 1}, Proceed(r, resume) PROVE Sweeps /\
   Looks
  BY <1>4 DEF Proceed, Sweeps, Looks, Awaiting, At, Goto, work, hand, HandTypes, WorkTypes,
     HandInv, Hand
<1>5. ASSUME NEW r \in Run, RestartUnattended(r) PROVE Sweeps /\ Looks
  BY <1>5 DEF RestartUnattended, Restart, Refused, StopTask, Sweeps, Looks, Awaiting, At, Goto,
     work, hand, HandTypes, WorkTypes, HandInv, Hand
<1>6. ASSUME NEW r \in Run, Forgive(r) PROVE Sweeps /\ Looks
  BY <1>6 DEF Forgive, Sweeps, Looks, Awaiting, At, Goto, work, hand, HandTypes, WorkTypes,
     HandInv, Hand
<1>7. ASSUME NEW c \in Caller, AbortAll(c) PROVE Sweeps /\ Looks
  BY <1>7 DEF AbortAll, Sweeps, Looks, Awaiting, At, Goto, work, hand, HandTypes, WorkTypes,
     HandInv, Hand
<1>8. ASSUME NEW c \in Caller, NEW r \in Run, Cancel(c, r) PROVE Sweeps /\ Looks
  BY <1>8 DEF Cancel, Sweeps, Looks, Awaiting, At, Goto, work, hand, HandTypes, WorkTypes,
     HandInv, Hand
<1>9. ASSUME NEW c \in Caller, NEW r \in Run, NEW how \in Modes, RestartByHand(c, r, how) PROVE
   Sweeps /\ Looks
  BY <1>9 DEF RestartByHand, Restart, Refused, StopTask, Sweeps, Looks, Awaiting, At, Goto, work,
     hand, HandTypes, WorkTypes, HandInv, Hand
<1>10. ASSUME NEW c \in Coroutine, Muted(c) PROVE Sweeps /\ Looks
  BY <1>10 DEF Muted, Sweeps, Looks, Awaiting, At, Goto, work, hand, HandTypes, WorkTypes,
     HandInv, Hand
<1>11. ASSUME NEW c \in Coroutine, Swept(c) PROVE Sweeps /\ Looks
  BY <1>11 DEF Swept, Sweeps, Looks, Awaiting, At, Goto, work, hand, HandTypes, WorkTypes,
     HandInv, Hand
<1>12. ASSUME NEW c \in Coroutine, RestartRefused(c) PROVE Sweeps /\ Looks
  BY <1>12 DEF RestartRefused, Refused, Sweeps, Looks, Awaiting, At, Goto, work, hand, HandTypes,
     WorkTypes, HandInv, Hand
<1>13. ASSUME NEW c \in Coroutine, Commit(c) PROVE Sweeps /\ Looks
  BY <1>13 DEF Commit, Sweeps, Looks, Awaiting, At, Goto, work, hand, HandTypes, WorkTypes,
     HandInv, Hand
<1>14. ASSUME NEW c \in Coroutine, NEW r \in Run, Abort(c, r) PROVE Sweeps /\ Looks
  BY <1>14 DEF Abort, Sweeps, Looks, Awaiting, At, Goto, work, hand, HandTypes, WorkTypes,
     HandInv, Hand
<1>15. ASSUME NEW c \in Coroutine, NEW n \in {1, 2}, NEW t \in Task, Sweep(c, n, t) PROVE Sweeps
   /\ Looks
  <2>1. /\ \A d \in Coroutine : cur'[d] = cur[d] /\ left'[d] \subseteq left[d]
        /\ \A d \in Coroutine \ {c} : pc'[d] = pc[d]
    BY <1>15 DEF Sweep, StopTask, Goto, WorkTypes, HandTypes
  <2>2. Sweeps
    BY <1>15, <2>1 DEF Sweeps, Awaiting
  <2>3. pc[Loop] # "launched"
    BY <1>15 DEF Sweep, At, InHand
  <2> QED
    BY <2>2, <2>3 DEF Looks
<1>16. ASSUME NEW b \in batch, FireSkipped(b) PROVE Sweeps /\ Looks
  BY <1>16 DEF FireSkipped, Sweeps, Looks, Awaiting, At, Goto, work, hand, HandTypes, WorkTypes,
     HandInv, Hand
<1>17. ASSUME NEW b \in batch, TuneDeferred(b) PROVE Sweeps /\ Looks
  BY <1>17 DEF TuneDeferred, Sweeps, Looks, Awaiting, At, Goto, work, hand, HandTypes, WorkTypes,
     HandInv, Hand
<1>18. ASSUME NEW b \in batch, TuneDropped(b) PROVE Sweeps /\ Looks
  BY <1>18 DEF TuneDropped, Sweeps, Looks, Awaiting, At, Goto, work, hand, HandTypes, WorkTypes,
     HandInv, Hand
<1>19. ASSUME NEW b \in batch, Tune(b) PROVE Sweeps /\ Looks
  BY <1>19 DEF Tune, Take, Sweeps, Looks, Awaiting, At, Goto, work, hand, HandTypes, WorkTypes,
     HandInv, Hand
<1>20. ASSUME NEW b \in batch, Start(b) PROVE Sweeps /\ Looks
  BY <1>20 DEF Start, Take, Sweeps, Looks, Awaiting, At, Goto, work, hand, HandTypes, WorkTypes,
     HandInv, Hand
<1>21. ASSUME NEW b \in batch, Stop(b) PROVE Sweeps /\ Looks
  BY <1>21 DEF Stop, Take, StopTask, Sweeps, Looks, Awaiting, At, Goto, work, hand, HandTypes,
     WorkTypes, HandInv, Hand
<1>22. ASSUME Tick PROVE Sweeps /\ Looks
  BY <1>22 DEF Tick, Sweeps, Looks, Awaiting, At, Goto, work, hand, HandTypes, WorkTypes,
     HandInv, Hand
<1>23. ASSUME Tuned PROVE Sweeps /\ Looks
  BY <1>23 DEF Tuned, Sweeps, Looks, Awaiting, At, Goto, work, hand, HandTypes, WorkTypes,
     HandInv, Hand
<1>24. ASSUME Unpark PROVE Sweeps /\ Looks
  BY <1>24 DEF Unpark, Sweeps, Looks, Awaiting, At, Goto, work, hand, HandTypes, WorkTypes,
     HandInv, Hand
<1>25. ASSUME Exec PROVE Sweeps /\ Looks
  BY <1>25 DEF Exec, Woken, Sweeps, Looks, Awaiting, At, Goto, work, hand, HandTypes, WorkTypes,
     HandInv, Hand
<1>26. ASSUME Launched PROVE Sweeps /\ Looks
  BY <1>26 DEF Launched, StopTask, Sweeps, Looks, Awaiting, At, Goto, work, hand, HandTypes,
     WorkTypes, HandInv, Hand
<1>27. ASSUME After PROVE Sweeps /\ Looks
  BY <1>27 DEF After, Sweeps, Looks, Awaiting, At, Goto, work, hand, HandTypes, WorkTypes,
     HandInv, Hand
<1>28. ASSUME Holds PROVE Sweeps /\ Looks
  BY <1>28 DEF Holds, Sweeps, Looks, Awaiting, At, Goto, work, hand, HandTypes, WorkTypes,
     HandInv, Hand
<1>29. ASSUME Collect PROVE Sweeps /\ Looks
  BY <1>29 DEF Collect, Sweeps, Looks, Awaiting, At, Goto, work, hand, HandTypes, WorkTypes,
     HandInv, Hand
<1>30. ASSUME Sleep PROVE Sweeps /\ Looks
  BY <1>30 DEF Sleep, Sweeps, Looks, Awaiting, At, Goto, work, hand, HandTypes, WorkTypes,
     HandInv, Hand
<1>31. ASSUME NEW t \in Task, Bind(t) PROVE Sweeps /\ Looks
  BY <1>31 DEF Bind, Sweeps, Looks, Awaiting, At, Goto, work, hand, HandTypes, WorkTypes,
     HandInv, Hand
<1>32. ASSUME NEW t \in Task, Exit(t) PROVE Sweeps /\ Looks
  BY <1>32 DEF Exit, Woken, Sweeps, Looks, Awaiting, At, Goto, work, hand, HandTypes, WorkTypes,
     HandInv, Hand
<1>33. ASSUME NEW t \in Task, Fail(t) PROVE Sweeps /\ Looks
  BY <1>33 DEF Fail, Sweeps, Looks, Awaiting, At, Goto, work, hand, HandTypes, WorkTypes,
     HandInv, Hand
<1>34. ASSUME NEW t \in Task, Alarm(t) PROVE Sweeps /\ Looks
  BY <1>34 DEF Alarm, Sweeps, Looks, Awaiting, At, Goto, work, hand, HandTypes, WorkTypes,
     HandInv, Hand
<1>35. ASSUME TimePasses PROVE Sweeps /\ Looks
  BY <1>35 DEF TimePasses, Sweeps, Looks, Awaiting, At, Goto, work, hand, HandTypes, WorkTypes,
     HandInv, Hand
<1>36. ASSUME CrashAndRestart PROVE Sweeps /\ Looks
  BY <1>36 DEF CrashAndRestart, Sweeps, Looks, Awaiting, At, Goto, work, hand, HandTypes,
     WorkTypes, HandInv, Hand
<1>37. ASSUME UNCHANGED vars PROVE Sweeps /\ Looks
  BY <1>37 DEF vars, Sweeps, Looks, Awaiting, At, Goto, work, hand, HandTypes, WorkTypes,
     HandInv, Hand
<1> HIDE DEF Sound, TypeOK
<1> QED
  BY <1>1, <1>2, <1>3, <1>4, <1>5, <1>6, <1>7, <1>8, <1>9, <1>10, <1>11, <1>12, <1>13, <1>14,
     <1>15, <1>16, <1>17, <1>18, <1>19, <1>20, <1>21, <1>22, <1>23, <1>24, <1>25, <1>26, <1>27,
     <1>28, <1>29, <1>30, <1>31, <1>32, <1>33, <1>34, <1>35, <1>36, <1>37 DEF Next

\* A task is told of no fault while it is on the air, or launched, and stays so.
LEMMA CouplingIdle ==
  ASSUME Sound, Spawned, Alarmed, NEW t \in Task, Coupling(t)
  PROVE  air'[t] # "on" /\ ~Spawning(t)'
<1>1. CASE Alarm(t)
  <2>1. /\ alarm[t] \in {"wedge", "past"} /\ UNCHANGED <<pc, on>>
        /\ air' = [air EXCEPT ![t] = IF alarm[t] = "wedge" /\ @ = "on" THEN "leaving" ELSE @]
    BY <1>1 DEF Alarm, hand, Sound, TypeOK, TaskTypes
  <2>2. ~Spawning(t)'
    BY <2>1 DEF Spawned, Spawning
  <2>3. air'[t] # "on"
    BY <2>1 DEF Alarmed, Sound, TypeOK, TaskTypes
  <2> QED
    BY <2>2, <2>3
<1>2. CASE Spawning(t) /\ pc'[Loop] = "launched" /\ air'[t] \in {air[t], "off"}
  BY <1>2 DEF Spawned, Spawning
<1> QED
  BY <1>1, <1>2 DEF Coupling

\* What serves a run serves it with its task, and the run has begun.
LEMMA ServesOwn ==
  ASSUME Orderly, Sound, OwnInv, AirInv, NEW t \in Task, NEW r \in Run, Serves(t, r)
  PROVE  /\ Begun(r) /\ t \in Touched(r) /\ Begins(r) /\ LastStop(r) \in Closes(r)
         /\ \A i \in Known(r) : TaskOf(r, i) = t
         /\ \A u \in Touched(r) : u = t
<1>1. Begun(r) /\ t \in Touched(r) /\ Begins(r)
  <2>1. CASE Aired(t, r)
    BY <2>1, NameAssumption DEF Aired, OwnInv, OwnersBegun, AirInv, AirBegun
  <2>2. CASE Spawning(t) /\ cur[Loop] = r
    BY <2>2 DEF Spawning, Launching, OwnInv, LaunchOwn, AirInv, AirBegun
  <2> QED
    BY <2>1, <2>2 DEF Serves
<1>2. \A i \in Known(r) : TaskOf(r, i) = t
  BY <1>1, OneTask
<1>3. \A u \in Touched(r) : u = t
  BY <1>2 DEF Touched, Known
<1>4. LastStop(r) \in Closes(r)
  BY <1>1, Plans DEF Begins
<1> QED
  BY <1>1, <1>2, <1>3, <1>4

\* A run that has begun to transmit has for good.
LEMMA BeginsStay ==
  ASSUME Orderly, Sound, OwnInv, Shared, MarksInv, Mends, [Next]_vars,
         NEW r \in Run, Begun(r), Begins(r)
  PROVE  Begins(r)'
<1> SUFFICES \A i \in Opens(r) : mark[r][i] = "fired" => mark'[r][i] = "fired"
  BY DEF Begins
<1> TAKE i \in Opens(r)
<1> HAVE mark[r][i] = "fired"
<1>0. i \in Steps(r) /\ i \in Slot /\ i \in Starts(r)
  BY StartsAndCloses DEF Starts
<1>1. CASE Steady
  BY <1>0, <1>1 DEF Steady
<1>2. ASSUME NEW q \in Run, Arm(q) PROVE mark'[r][i] = "fired"
  <2>1. q # r
    BY <1>2, JustArmed DEF Begun
  <2> QED
    BY <1>2, <2>1, JustArmed
<1>3. CASE Tick
  BY <1>0, <1>3, Ticked DEF MarksInv
<1>4. ASSUME NEW b \in batch, Start(b) \/ Stop(b) PROVE mark'[r][i] = "fired"
  <2>1. Fireable(b) /\ Take(b)
    BY <1>4 DEF Start, Stop
  <2>2. /\ b.run \in Run /\ b.step \in Slot
        /\ mark' = [mark EXCEPT ![b.run][b.step] = "fired"]
    BY <2>1, Taken DEF Shared
  <2> QED
    BY <1>0, <2>2 DEF Sound, TypeOK, RunTypes
<1>5. ASSUME NEW t \in Task, Coupling(t) PROVE mark'[r][i] = "fired"
  BY <1>0, <1>5, CoupledRuns DEF MarksInv, Coupling
<1>6. ASSUME NEW c \in Coroutine, Commit(c) PROVE mark'[r][i] = "fired"
  BY <1>0, <1>6, Committed
<1>7. \/ Steady \/ (\E q \in Run : Arm(q)) \/ Tick \/ (\E b \in batch : Start(b) \/ Stop(b))
      \/ (\E t \in Task : Coupling(t)) \/ \E d \in Coroutine : Commit(d)
  BY MarkKinds DEF Shared, MarksInv
<1> QED
  BY <1>1, <1>2, <1>3, <1>4, <1>5, <1>6, <1>7

\* So is a run over for good, and none comes to fire but when it is armed.
LEMMA OverStays ==
  ASSUME Orderly, Sound, Sound', Shared, MarksInv, [Next]_vars, NEW r \in Run, Mends, OwnInv
  PROVE  /\ st[r] \in Over => st'[r] \in Over
         /\ (st'[r] \in Firing /\ st[r] # "none") => st[r] \in Firing
<1>0. /\ st[r] \in RunState \cup {"none"} /\ st'[r] \in RunState \cup {"none"}
      /\ st[r] # "HOLDING"
  BY DEF Sound, TypeOK, RunTypes, MarksInv, Laid
<1> DEFINE Goal == /\ st[r] \in Over => st'[r] \in Over
                   /\ (st'[r] \in Firing /\ st[r] # "none") => st[r] \in Firing
<1>1. CASE Steady
  BY <1>0, <1>1 DEF Steady, Over, Firing, RunState
<1>2. ASSUME NEW q \in Run, Arm(q) PROVE Goal
  BY <1>2, JustArmed DEF Over, Firing
<1>3. CASE Tick
  <2>1. st'[r] = st[r] \/ (st[r] = "RUNNING" /\ st'[r] = "COMPLETED")
    BY <1>3, Ticked DEF MarksInv
  <2> QED
    BY <2>1 DEF Over, Firing
<1>4. ASSUME NEW b \in batch, Start(b) \/ Stop(b) PROVE Goal
  <2>1. Fireable(b) /\ Take(b)
    BY <1>4 DEF Start, Stop
  <2>2. (st'[r] \in Firing <=> st[r] \in Firing) /\ (st'[r] # st[r] => st'[r] = "RUNNING")
    BY <2>1, Taken DEF Shared
  <2> QED
    BY <2>2 DEF Over, Firing
<1>5. ASSUME NEW t \in Task, Coupling(t) PROVE Goal
  BY <1>5 DEF Coupling
<1>6. ASSUME NEW c \in Coroutine, Commit(c) PROVE Goal
  BY <1>6 DEF Commit
<1>7. \/ Steady \/ (\E q \in Run : Arm(q)) \/ Tick \/ (\E b \in batch : Start(b) \/ Stop(b))
      \/ (\E t \in Task : Coupling(t)) \/ \E d \in Coroutine : Commit(d)
  BY MarkKinds DEF Shared, MarksInv
<1> QED
  BY <1>1, <1>2, <1>3, <1>4, <1>5, <1>6, <1>7

\* While a task serves a run no step opens the relaunch of it, and what closes
\* its last STOP, or faults it, takes the task off the air.
LEMMA ServedMarks ==
  ASSUME Orderly, Sound, Sound', OwnInv, Shared, MarksInv, Mends, AirInv, [Next]_vars,
         NEW t \in Task, NEW r \in Run, Serves(t, r)
  PROVE  /\ mark'[r][N] # "open"
         /\ \/ air'[t] # "on" /\ ~Spawning(t)'
            \/ /\ fault[r] = <<>> => fault'[r] = <<>>
               /\ mark[r][LastStop(r)] = "open" => mark'[r][LastStop(r)] = "open"
<1>0. /\ Begun(r) /\ t \in Touched(r) /\ Begins(r) /\ LastStop(r) \in Closes(r)
      /\ \A i \in Known(r) : TaskOf(r, i) = t
      /\ \A u \in Touched(r) : u = t
  BY ServesOwn
<1>1. /\ LastStop(r) \in Steps(r) /\ LastStop(r) \in Slot /\ LastStop(r) \notin Starts(r)
      /\ N \in Starts(r) /\ N \in Slot /\ N # LastStop(r) /\ mark[r][N] # "open"
  BY <1>0, StartsAndCloses DEF Starts, AirInv, NoneOpen
<1> DEFINE Same == fault'[r] = fault[r] /\ \A i \in {N, LastStop(r)} : mark'[r][i] = mark[r][i]
           Goal == /\ mark'[r][N] # "open"
                   /\ \/ air'[t] # "on" /\ ~Spawning(t)'
                      \/ /\ fault[r] = <<>> => fault'[r] = <<>>
                         /\ mark[r][LastStop(r)] = "open" => mark'[r][LastStop(r)] = "open"
<1>2. ASSUME Same PROVE Goal
  BY <1>1, <1>2
<1> HIDE DEF Same, Goal
<1>3. ASSUME Steady PROVE Same
  BY <1>0, <1>1, <1>3 DEF Steady, Same
<1>4. ASSUME NEW q \in Run, Arm(q) PROVE Same
  <2>1. q # r
    BY <1>0, <1>4, JustArmed DEF Begun
  <2> QED
    BY <1>4, <2>1, JustArmed DEF Same
<1>5. ASSUME Tick PROVE Same
  BY <1>0, <1>1, <1>5, Ticked DEF MarksInv, Same
<1>6. ASSUME NEW b \in batch, Start(b) PROVE Goal
  <2>1. Fireable(b) /\ Take(b) /\ fault' = fault /\ Act(b.run, b.step) = "start"
    BY <1>6 DEF Start, faults
  <2>2. /\ b.run \in Run /\ b.step \in Slot /\ b.step \in Known(b.run)
        /\ mark' = [mark EXCEPT ![b.run][b.step] = "fired"]
    BY <2>1, Taken DEF Shared
  <2>3. b.step \in Starts(b.run)
    BY <2>1, <2>2, StartsAndCloses DEF Known
  <2>4. mark'[r][N] # "open" /\ mark'[r][LastStop(r)] = mark[r][LastStop(r)]
    BY <1>1, <2>2, <2>3 DEF Sound, TypeOK, RunTypes
  <2> QED
    BY <2>1, <2>4 DEF Goal
<1>7. ASSUME NEW b \in batch, Stop(b) PROVE Goal
  <2>1. Fireable(b) /\ Take(b) /\ fault' = fault /\ StopTask(Loop, TaskOf(b.run, b.step), "after")
    BY <1>7 DEF Stop, faults
  <2>2. /\ b.run \in Run /\ b.step \in Slot
        /\ mark' = [mark EXCEPT ![b.run][b.step] = "fired"]
    BY <2>1, Taken DEF Shared
  <2>3. mark'[r][N] # "open"
    BY <1>1, <2>2 DEF Sound, TypeOK, RunTypes
  <2>4. CASE b.run = r /\ b.step = LastStop(r)
    <3>1. TaskOf(b.run, b.step) = t
      BY <1>0, <1>1, <2>4 DEF Known
    <3>2. StopTask(Loop, t, "after")
      BY <2>1, <3>1
    <3>3. air'[t] # "on"
      BY <3>2 DEF StopTask, Sound, TypeOK, TaskTypes
    <3>4. pc'[Loop] \in {"stopping", "muting"}
      BY <3>2, LoopRuns DEF StopTask, Goto, Sound, TypeOK, HandTypes
    <3> QED
      BY <2>3, <3>3, <3>4 DEF Goal, Spawning
  <2>5. CASE ~(b.run = r /\ b.step = LastStop(r))
    <3>1. mark'[r][LastStop(r)] = mark[r][LastStop(r)]
      BY <1>1, <2>2, <2>5 DEF Sound, TypeOK, RunTypes
    <3> QED
      BY <2>1, <2>3, <3>1 DEF Goal
  <2> QED
    BY <2>4, <2>5
<1>8. ASSUME NEW u \in Task, Coupling(u) PROVE Goal
  <2>1. CASE r \in Coupled(u)
    <3>1. u = t /\ \A i \in Slot : mark'[r][i] = IF mark[r][i] = "open" THEN "fault" ELSE mark[r][i]
      BY <1>0, <1>8, <2>1, CoupledRuns DEF MarksInv, Coupling
    <3>2. air'[t] # "on" /\ ~Spawning(t)'
      BY <1>8, <3>1, CouplingIdle DEF AirInv
    <3> QED
      BY <1>1, <3>1, <3>2 DEF Goal
  <2>2. CASE r \notin Coupled(u)
    <3>1. mark'[r] = mark[r] /\ fault'[r] = fault[r]
      BY <1>8, <2>2, CoupledRuns DEF MarksInv, Coupling
    <3> QED
      BY <1>2, <3>1 DEF Same
  <2> QED
    BY <2>1, <2>2
<1>9. ASSUME NEW c \in Coroutine, Commit(c) PROVE Same
  <2>1. /\ Restarting(c) /\ fault[cur[c]] # <<>> /\ cur[c] \in Run
    BY <1>9, Committed
  <2>2. air[on[c]] \notin {"on", "leaving"}
    BY <1>9 DEF Commit, Recheck
  <2>3. on[c] \in Touched(cur[c])
    BY <2>1 DEF OwnInv, MendsOwn
  <2>4. cur[c] # r
    BY <1>0, <2>1, <2>2, <2>3 DEF Serves, Aired, AirInv, Spawned
  <2> QED
    BY <1>9, <2>4, Committed DEF Same
<1>10. \/ Steady \/ (\E q \in Run : Arm(q)) \/ Tick \/ (\E b \in batch : Start(b) \/ Stop(b))
       \/ (\E u \in Task : Coupling(u)) \/ \E d \in Coroutine : Commit(d)
  BY MarkKinds DEF Shared, MarksInv
<1> QED
  BY <1>2, <1>3, <1>4, <1>5, <1>6, <1>7, <1>8, <1>9, <1>10 DEF Goal

\* When a START fires, its task is not on the air: neither for its own run, whose
\* relaunch would not be open, nor for one that is over, which is swept first,
\* nor for a rival, whose last STOP goes before the START.
LEMMA Vacant ==
  ASSUME Orderly, Sound, OwnInv, Shared, MarksInv, AirInv, Silent, NEW b \in batch, Start(b)
  PROVE  /\ b.run \in Run /\ b.step \in Starts(b.run) /\ TaskOf(b.run, b.step) \in Task
         /\ st[b.run] \in Firing /\ mark[b.run][b.step] = "open" /\ fault[b.run] = <<>>
         /\ mark' = [mark EXCEPT ![b.run][b.step] = "fired"]
         /\ air[TaskOf(b.run, b.step)] # "on" /\ alarm[TaskOf(b.run, b.step)] = "none"
<1> DEFINE r == b.run
           k == b.step
           t == TaskOf(r, k)
<1>1. /\ At(Loop, "fire") /\ First(b) /\ Fireable(b) /\ Take(b) /\ Act(r, k) = "start"
  BY DEF Start
<1>2. /\ r \in Run /\ k \in Slot /\ k \in Known(r) /\ b.at \in Int
      /\ st[r] \in Firing /\ mark[r][k] = "open"
      /\ mark' = [mark EXCEPT ![r][k] = "fired"]
  BY <1>1, Taken DEF Shared
<1>3. k \in Starts(r) /\ t \in Task
  BY <1>1, <1>2, StartsAndCloses, KnownSteps DEF Known, Sound
<1>4. fault[r] = <<>>
  BY <1>2 DEF MarksInv, Lost
<1>5. alarm[t] = "none" /\ pc[Loop] = "fire" /\ \A c \in Coroutine : c # Loop => pc[c] # "sweep"
  BY <1>1, <1>3 DEF At, Calm, InHand, Orderly
<1>6. PICK i \in Opens(r) : Opens(r) = {i} /\ (k # i => Begins(r))
  BY <1>2, <1>3, Relaunched DEF MarksInv
<1>7. mark[r][LastStop(r)] = "open" /\ LastStop(r) \in Closes(r)
  BY <1>2, <1>3, Relaunched DEF MarksInv, Ahead
<1> HIDE DEF r, k, t
<1>8. ASSUME air[t] = "on" PROVE FALSE
  <2>1. PICK q \in Run : owner[t] = q
    BY <1>3, <1>8 DEF AirInv, AirBegun, Sound, TypeOK, TaskTypes
  <2>2. Serves(t, q)
    BY <1>8, <2>1 DEF Serves, Aired
  <2>3. /\ Begun(q) /\ t \in Touched(q) /\ Begins(q) /\ LastStop(q) \in Closes(q)
        /\ \A j \in Known(q) : TaskOf(q, j) = t
    BY <1>3, <2>2, ServesOwn
  <2>4. CASE q = r
    <3>1. mark[r][N] # "open"
      BY <1>3, <2>2, <2>4 DEF AirInv, NoneOpen
    <3>2. k \in Opens(r)
      BY <1>2, <1>3, <3>1 DEF Starts
    <3> QED
      BY <1>2, <1>6, <2>3, <2>4, <3>2 DEF Begins
  <2>5. CASE st[q] \in Over
    <3>1. Pending(q, t)
      BY <1>3, <1>8, <2>1, <2>5 DEF Silent, Pending, Over, Active, Firing
    <3>2. PICK c \in Coroutine : cur[c] = q /\ left[c] # {}
      BY <1>5, <3>1 DEF Pending
    <3>3. Awaiting(c)
      BY <1>5, <3>2 DEF Sound, HandInv, Hand, Awaiting
    <3>4. Aired(t, cur[c])
      BY <1>8, <2>1, <3>2 DEF Aired
    <3> QED
      BY <1>3, <1>5, <3>2, <3>3, <3>4 DEF AirInv, SweepInv
  <2>6. CASE st[q] \in Firing /\ q # r
    <3>1. mark[q][LastStop(q)] = "open"
      BY <1>3, <1>5, <2>2, <2>6 DEF AirInv, Stops
    <3>2. PICK j \in Opens(q) : mark[q][j] = "fired"
      BY <2>3 DEF Begins
    <3>3. Plan[q].steps[j].task = t
      BY <2>3, Plans, StartsAndCloses DEF Known
    <3>4. Plan[r].steps[i].task = t
      <4>1. i \in Steps(r) /\ TaskOf(r, i) = Plan[r].steps[i].task
        BY <1>2, Plans, StartsAndCloses
      <4>2. TaskOf(r, i) \in Touched(r)
        BY <4>1 DEF Touched
      <4> QED
        BY <1>2, <4>1, <4>2, OneTask DEF t
    <3>5. RivalsFiring(q, r) /\ RivalsFiring(r, q)
      BY <1>2, <2>6, <3>3, <3>4 DEF RivalsFiring, Rivals
    <3>6. CASE Early(r, q)
      BY <1>2, <1>7, <2>3, <3>5, <3>6 DEF MarksInv, Gone
    <3>7. CASE Early(q, r)
      <4>1. ~Begins(r)
        BY <1>2, <2>3, <3>1, <3>5, <3>7 DEF MarksInv, Gone
      <4>2. k = i
        BY <1>6, <4>1
      <4>3. PICK a \in batch : a.run = q /\ a.step = LastStop(q)
        BY <1>2, <1>6, <2>3, <3>1, <3>5, <3>7, <4>2 DEF MarksInv, InTurn, r, k
      <4>4. a.at = When(q, LastStop(q)) /\ When(r, i) <= b.at
        BY <1>6, <2>3, <4>2, <4>3 DEF MarksInv, Timed, Starts, r, k
      <4>5. /\ When(q, LastStop(q)) <= When(r, i)
            /\ When(q, LastStop(q)) \in Int /\ When(r, i) \in Int
        BY <1>2, <2>3, <3>7, StartsAndCloses, Plans DEF Early
      <4>6. Act(a.run, a.step) = "stop" /\ Act(b.run, b.step) # "stop"
        BY <1>1, <2>3, <4>3, StartsAndCloses DEF r, k
      <4>7. a.at < b.at \/ a.at = b.at
        BY <1>2, <4>4, <4>5
      <4> QED
        BY <1>1, <4>6, <4>7 DEF First, Sooner
    <3> QED
      BY <1>2, <3>5, <3>6, <3>7 DEF MarksInv, Disjoint
  <2>7. st[q] \in Over \cup Firing
    BY <2>3 DEF Begun, Over, Firing, RunState, Sound, TypeOK, RunTypes, MarksInv, Laid
  <2> QED
    BY <2>4, <2>5, <2>6, <2>7
<1> QED
  BY <1>2, <1>3, <1>4, <1>5, <1>8 DEF r, k, t

\* What serves a run after a step did before, or is the START that it fires.
LEMMA ServesSince ==
  ASSUME Sound, Sound', Spawned, Alarmed, [Next]_vars, NEW t \in Task, NEW r \in Run, Serves(t, r)'
  PROVE  \/ Serves(t, r)
         \/ \E b \in batch : Start(b) /\ b.run = r /\ TaskOf(b.run, b.step) = t
<1>1. CASE Unlaunched
  BY <1>1 DEF Unlaunched, Serves, Aired
<1>2. CASE Up
  <2>1. on[Loop] \in Task /\ Spawning(on[Loop])
    BY <1>2, LoopRuns DEF Up, Spawning, Sound, HandInv, Hand, Launching
  <2>2. ~Spawning(t)'
    BY <1>2 DEF Up, Spawning
  <2>3. CASE t = on[Loop]
    <3>1. owner'[t] = cur[Loop]
      BY <1>2, <2>1, <2>3 DEF Up, Sound, TypeOK, TaskTypes
    <3> QED
      BY <2>1, <2>2, <2>3, <3>1 DEF Serves, Aired
  <2>4. CASE t # on[Loop]
    BY <1>2, <2>2, <2>4 DEF Up, Serves, Aired, Sound, TypeOK, TaskTypes
  <2> QED
    BY <2>3, <2>4
<1>3. ASSUME NEW b \in batch, Start(b)
      PROVE  \/ Serves(t, r)
             \/ Start(b) /\ b.run = r /\ TaskOf(b.run, b.step) = t
  <2>1. /\ UNCHANGED <<air, owner>> /\ cur' = [cur EXCEPT ![Loop] = b.run]
        /\ on' = [on EXCEPT ![Loop] = TaskOf(b.run, b.step)]
    BY <1>3 DEF Start, Take
  <2>2. cur'[Loop] = b.run /\ on'[Loop] = TaskOf(b.run, b.step)
    BY <2>1, LoopRuns DEF Sound, TypeOK, HandTypes
  <2> QED
    BY <1>3, <2>1, <2>2 DEF Serves, Aired, Spawning
<1> QED
  BY <1>1, <1>2, <1>3, LaunchKinds

\* Every step keeps what serves the runs in order.
LEMMA AirStep ==
  ASSUME Orderly, Sound, Sound', OwnInv, OwnInv', Shared, MarksInv, Mends, AirInv, Silent, [Next]_vars
  PROVE  AirBegun' /\ NoneOpen' /\ Spawned' /\ Alarmed' /\ Stops'
<1>1. ASSUME NEW t \in Task, NEW r \in Run, Serves(t, r)'
      PROVE  /\ Begins(r)' /\ mark'[r][N] # "open"
             /\ Spawning(t)' => fault'[r] = <<>>
             /\ st'[r] \in Firing => mark'[r][LastStop(r)] = "open" \/ alarm'[t] = "wedge"
  <2>1. CASE Serves(t, r)
    <3>1. Begun(r) /\ Begins(r) /\ st[r] # "none"
      BY <2>1, ServesOwn DEF Begun
    <3>2. Begins(r)'
      BY <3>1, BeginsStay
    <3>3. /\ mark'[r][N] # "open"
          /\ \/ air'[t] # "on" /\ ~Spawning(t)'
             \/ /\ fault[r] = <<>> => fault'[r] = <<>>
                /\ mark[r][LastStop(r)] = "open" => mark'[r][LastStop(r)] = "open"
      BY <2>1, ServedMarks
    <3>4. ~(air'[t] # "on" /\ ~Spawning(t)')
      BY <1>1 DEF Serves, Aired
    <3>5. Spawning(t)' => fault'[r] = <<>>
      <4> SUFFICES ASSUME Spawning(t)' PROVE fault[r] = <<>>
        BY <3>3, <3>4
      <4>1. CASE Unlaunched
        <5>1. Spawning(t) /\ cur'[Loop] = cur[Loop] /\ air'[t] # "on"
          BY <4>1 DEF Unlaunched, AirInv, Spawned
        <5>2. cur[Loop] = r
          BY <1>1, <5>1 DEF Serves, Aired
        <5> QED
          BY <5>1, <5>2 DEF AirInv, Spawned
      <4>2. CASE Up
        BY <4>2 DEF Up, Spawning
      <4>3. ASSUME NEW b \in batch, Start(b) PROVE fault[r] = <<>>
        <5>1. /\ b.run \in Run /\ air[TaskOf(b.run, b.step)] # "on" /\ fault[b.run] = <<>>
          BY <4>3, Vacant
        <5>2. air' = air /\ cur'[Loop] = b.run /\ on'[Loop] = TaskOf(b.run, b.step)
          BY <4>3, LoopRuns DEF Start, Take, Sound, TypeOK, HandTypes
        <5>3. t = TaskOf(b.run, b.step)
          BY <5>2 DEF Spawning
        <5> QED
          BY <1>1, <5>1, <5>2, <5>3 DEF Serves, Aired
      <4> QED
        BY <4>1, <4>2, <4>3, LaunchKinds DEF AirInv
    <3>6. ASSUME st'[r] \in Firing PROVE mark'[r][LastStop(r)] = "open" \/ alarm'[t] = "wedge"
      <4>1. st[r] \in Firing
        BY <3>1, <3>6, OverStays
      <4>2. mark[r][LastStop(r)] = "open" \/ alarm[t] = "wedge"
        BY <2>1, <4>1 DEF AirInv, Stops
      <4>3. CASE alarm[t] = "wedge"
        <5>1. CASE Unlaunched
          BY <3>4, <4>3, <5>1 DEF Unlaunched
        <5>2. CASE Up
          BY <4>3, <5>2 DEF Up
        <5>3. ASSUME NEW b \in batch, Start(b) PROVE alarm'[t] = "wedge"
          BY <4>3, <5>3 DEF Start
        <5> QED
          BY <5>1, <5>2, <5>3, LaunchKinds DEF AirInv
      <4> QED
        BY <3>3, <3>4, <4>2, <4>3
    <3> QED
      BY <3>2, <3>3, <3>5, <3>6
  <2>2. ASSUME NEW b \in batch, Start(b), b.run = r, TaskOf(b.run, b.step) = t
        PROVE  /\ Begins(r)' /\ mark'[r][N] # "open"
               /\ Spawning(t)' => fault'[r] = <<>>
               /\ st'[r] \in Firing => mark'[r][LastStop(r)] = "open" \/ alarm'[t] = "wedge"
    <3> DEFINE k == b.step
    <3>1. /\ k \in Starts(r) /\ st[r] \in Firing /\ mark[r][k] = "open" /\ fault[r] = <<>>
          /\ mark' = [mark EXCEPT ![r][k] = "fired"]
      BY <2>2, Vacant
    <3>2. fault' = fault
      BY <2>2 DEF Start, faults
    <3> HIDE DEF k
    <3>3. /\ k \in Slot /\ N \in Slot /\ mark[r][LastStop(r)] = "open" /\ LastStop(r) \in Closes(r)
          /\ LastStop(r) # k /\ LastStop(r) \in Slot
      BY <3>1, StartsAndCloses, Relaunched DEF MarksInv, Ahead
    <3>4. PICK i \in Opens(r) : Opens(r) = {i} /\ (k # i => Begins(r))
      BY <3>1, Relaunched DEF MarksInv
    <3>5. \A j \in Slot : mark'[r][j] = IF j = k THEN "fired" ELSE mark[r][j]
      BY <3>1, <3>3 DEF Sound, TypeOK, RunTypes
    <3>6. i \in Slot
      BY StartsAndCloses
    <3>7. Begins(r)'
      <4>1. CASE k = i
        BY <3>5, <3>6, <4>1 DEF Begins
      <4>2. CASE k # i
        <5>1. mark[r][i] = "fired"
          BY <3>4, <4>2 DEF Begins
        <5> QED
          BY <3>5, <3>6, <5>1 DEF Begins
      <4> QED
        BY <4>1, <4>2
    <3>8. mark'[r][N] # "open"
      <4>1. CASE k = N
        BY <3>3, <3>5, <4>1
      <4>2. CASE k # N
        <5>1. k = i
          BY <3>1, <3>4, <4>2 DEF Starts
        <5>2. ~Begins(r)
          BY <3>1, <3>4, <5>1 DEF Begins
        <5>3. mark[r][N] = "unset"
          BY <3>3, <5>2, StartsAndCloses DEF MarksInv, Lost, Sound, SlotsInv, Known
        <5> QED
          BY <3>3, <3>5, <4>2, <5>3
      <4> QED
        BY <4>1, <4>2
    <3> QED
      BY <3>1, <3>2, <3>3, <3>5, <3>7, <3>8
  <2> QED
    BY <1>1, <2>1, <2>2, ServesSince DEF AirInv
<1>2. AirBegun'
  <2> SUFFICES ASSUME NEW t \in Task
               PROVE  /\ owner'[t] # NoRun => Begins(owner[t])'
                      /\ air'[t] = "on" => owner'[t] # NoRun
                      /\ Spawning(t)' => Begins(cur[Loop])'
    BY DEF AirBegun
  <2>1. ASSUME Spawning(t)' PROVE Begins(cur[Loop])'
    <3>1. PICK r \in Run : cur'[Loop] = r
      BY <2>1, LoopRuns DEF Spawning, Launching, Sound, HandInv, Hand
    <3>2. Serves(t, r)'
      BY <2>1, <3>1 DEF Serves
    <3> QED
      BY <1>1, <3>1, <3>2
  <2>2. ASSUME NEW r \in Run, owner[t] = r PROVE Begins(r)'
    <3>1. Begun(r) /\ Begins(r)
      BY <2>2, NameAssumption DEF OwnInv, OwnersBegun, AirInv, AirBegun
    <3> QED
      BY <3>1, BeginsStay
  <2>3. ASSUME owner'[t] # NoRun PROVE Begins(owner[t])'
    <3>1. CASE owner'[t] = owner[t]
      <4>1. PICK r \in Run : owner[t] = r
        BY <2>3, <3>1 DEF Sound, TypeOK, TaskTypes
      <4> QED
        BY <2>2, <3>1, <4>1
    <3>2. CASE owner'[t] # owner[t]
      <4>1. Up
        BY <3>2, LaunchKinds DEF AirInv, Unlaunched, Start
      <4>2. t = on[Loop] /\ owner'[t] = cur[Loop] /\ air'[t] = "on"
        BY <3>2, <4>1 DEF Up, Sound, TypeOK, TaskTypes
      <4>3. PICK r \in Run : cur[Loop] = r
        BY <4>1, LoopRuns DEF Up, Launching, Sound, HandInv, Hand
      <4>4. Serves(t, r)'
        BY <4>2, <4>3 DEF Serves, Aired
      <4> QED
        BY <1>1, <4>2, <4>3, <4>4
    <3> QED
      BY <3>1, <3>2
  <2>4. ASSUME air'[t] = "on" PROVE owner'[t] # NoRun
    <3>1. CASE Up
      <4>1. cur[Loop] \in Run
        BY <3>1, LoopRuns DEF Up, Launching, Sound, HandInv, Hand
      <4> QED
        BY <2>4, <3>1, <4>1, NameAssumption DEF Up, AirInv, AirBegun, Sound, TypeOK, TaskTypes
    <3> QED
      BY <2>4, <3>1, LaunchKinds DEF AirInv, AirBegun, Unlaunched, Start
  <2> QED
    BY <2>1, <2>3, <2>4
<1>3. NoneOpen' /\ Stops'
  BY <1>1 DEF NoneOpen, Stops
<1>4. Spawned'
  <2> SUFFICES ASSUME NEW t \in Task, Spawning(t)'
               PROVE  fault'[cur'[Loop]] = <<>> /\ air'[t] # "on" /\ alarm'[t] = "none"
    BY DEF Spawned
  <2>1. PICK r \in Run : cur'[Loop] = r
    BY LoopRuns DEF Spawning, Launching, Sound, HandInv, Hand
  <2>2. fault'[r] = <<>>
    BY <1>1, <2>1 DEF Serves
  <2>3. CASE Unlaunched
    BY <2>1, <2>2, <2>3 DEF Unlaunched, AirInv, Spawned
  <2>4. CASE Up
    BY <2>4 DEF Up, Spawning
  <2>5. ASSUME NEW b \in batch, Start(b) PROVE air'[t] # "on" /\ alarm'[t] = "none"
    <3>1. on'[Loop] = TaskOf(b.run, b.step) /\ UNCHANGED <<air, alarm>>
      BY <2>5, LoopRuns DEF Start, Sound, TypeOK, HandTypes
    <3> QED
      BY <2>5, <3>1, Vacant DEF Spawning
  <2> QED
    BY <2>1, <2>2, <2>3, <2>4, <2>5, LaunchKinds DEF AirInv
<1>5. Alarmed'
  <2> SUFFICES ASSUME NEW t \in Task, alarm'[t] = "past" PROVE air'[t] # "on"
    BY DEF Alarmed
  <2>1. CASE Unlaunched
    BY <2>1 DEF Unlaunched, AirInv, Alarmed
  <2>2. CASE Up
    <3>1. on[Loop] \in Task /\ Spawning(on[Loop])
      BY <2>2, LoopRuns DEF Up, Spawning, Sound, HandInv, Hand, Launching
    <3>2. t # on[Loop] /\ alarm[t] = "past"
      BY <2>2, <3>1 DEF Up, AirInv, Spawned
    <3> QED
      BY <2>2, <3>2 DEF Up, AirInv, Alarmed, Sound, TypeOK, TaskTypes
  <2>3. ASSUME NEW b \in batch, Start(b) PROVE air'[t] # "on"
    BY <2>3 DEF Start, AirInv, Alarmed
  <2> QED
    BY <2>1, <2>2, <2>3, LaunchKinds DEF AirInv
<1> QED
  BY <1>2, <1>3, <1>4, <1>5

\* A sweep that waits has taken the only task of its run off the air, and the
\* loop takes off what comes up meanwhile.
LEMMA SweepStep ==
  ASSUME Orderly, Sound, Sound', OwnInv, OwnInv', Shared, MarksInv, Mends, AirInv, [Next]_vars
  PROVE  SweepInv'
<1> SUFFICES ASSUME NEW c \in Coroutine, left'[c] # {}
             PROVE  /\ st'[cur'[c]] \in Over /\ left'[c] \subseteq {1, 2} \X Touched(cur[c])'
                    /\ \A t \in Task : (Awaiting(c)' /\ Aired(t, cur[c])') =>
                         pc'[Loop] = "launched" /\ cur'[Loop] = cur'[c] /\ on'[Loop] = t
  BY DEF SweepInv
<1>1. Sweeps /\ Looks
  BY SweepKinds
<1>2. ASSUME NEW r \in Run, Abort(c, r)
      PROVE  /\ st'[cur'[c]] \in Over /\ left'[c] \subseteq {1, 2} \X Touched(cur[c])'
             /\ ~Awaiting(c)'
  <2>1. /\ cur'[c] = r /\ left'[c] \subseteq {1, 2} \X Touched(r)
        /\ st'[r] \in {"CANCELLED", "ABORTED"}
    BY <1>2 DEF Abort, Sound, TypeOK, RunTypes, HandTypes, WorkTypes
  <2>2. Touched(r)' = Touched(r)
    BY TouchedConstant
  <2>3. ~Awaiting(c)'
    BY <1>2 DEF Abort, At, Awaiting
  <2> QED
    BY <2>1, <2>2, <2>3 DEF Over, Touched
<1>3. ASSUME left'[c] \subseteq left[c], cur'[c] = cur[c],
             Awaiting(c)' => Awaiting(c) \/ \E n \in {1, 2}, t \in Task : Sweep(c, n, t)
      PROVE  /\ st'[cur'[c]] \in Over /\ left'[c] \subseteq {1, 2} \X Touched(cur[c])'
             /\ \A t \in Task : (Awaiting(c)' /\ Aired(t, cur[c])') =>
                  pc'[Loop] = "launched" /\ cur'[Loop] = cur'[c] /\ on'[Loop] = t
  <2>1. left[c] # {}
    BY <1>3
  <2>2. PICK r \in Run : cur[c] = r
    BY <2>1 DEF Sound, HandInv, Hand
  <2>3. st[r] \in Over /\ left[c] \subseteq {1, 2} \X Touched(r)
    BY <2>1, <2>2 DEF AirInv, SweepInv
  <2>4. Touched(r)' = Touched(r)
    BY TouchedConstant
  <2>5. st'[r] \in Over
    BY <2>3, OverStays
  <2>6. ASSUME NEW t \in Task, Awaiting(c)', air'[t] = "on", owner'[t] = r
        PROVE  pc'[Loop] = "launched" /\ cur'[Loop] = r /\ on'[Loop] = t
    <3>1. CASE Awaiting(c)
      <4>1. ASSUME NEW u \in Task, Aired(u, r)
            PROVE  pc[Loop] = "launched" /\ cur[Loop] = r /\ on[Loop] = u
        BY <2>1, <2>2, <3>1, <4>1 DEF AirInv, SweepInv
      <4>2. CASE Unlaunched
        <5>1. pc[Loop] = "launched" /\ cur[Loop] = r /\ on[Loop] = t
          BY <2>6, <4>1, <4>2 DEF Unlaunched, Aired
        <5>2. ~Launched
          <6> SUFFICES ASSUME Launched PROVE FALSE
            OBVIOUS
          <6>1. StopTask(Loop, t, "after")
            BY <2>3, <5>1 DEF Launched, Over, Active, Firing
          <6> QED
            BY <2>6, <6>1 DEF StopTask, Sound, TypeOK, TaskTypes
        <5> QED
          BY <1>1, <2>6, <5>1, <5>2 DEF Looks
      <4>3. CASE Up
        <5>1. ~Aired(t, r)
          BY <4>1, <4>3 DEF Up
        <5>2. t = on[Loop] /\ cur[Loop] = r
          BY <2>6, <4>3, <5>1 DEF Up, Aired, Sound, TypeOK, TaskTypes
        <5> QED
          BY <4>3, <5>2 DEF Up
      <4>4. ASSUME NEW b \in batch, Start(b) PROVE FALSE
        <5>1. Aired(t, r) /\ pc[Loop] = "fire"
          BY <2>6, <4>4 DEF Start, At, Aired
        <5> QED
          BY <4>1, <5>1
      <4> QED
        BY <4>2, <4>3, <4>4, LaunchKinds DEF AirInv
    <3>2. ASSUME NEW n \in {1, 2}, NEW u \in Task, Sweep(c, n, u), ~Awaiting(c) PROVE FALSE
      <4>1. StopTask(c, u, "sweep") /\ owner' = owner /\ <<n, u>> \in left[c]
        BY <2>6, <3>2 DEF Sweep, Awaiting
      <4>2. u \in Touched(r)
        BY <2>3, <4>1
      <4>3. air'[u] # "on" /\ air[t] = "on"
        BY <2>6, <4>1 DEF StopTask, Sound, TypeOK, TaskTypes
      <4>4. Serves(t, r)
        BY <2>6, <4>1, <4>3 DEF Serves, Aired
      <4>5. u = t
        BY <4>2, <4>4, ServesOwn
      <4> QED
        BY <2>6, <4>3, <4>5
    <3> QED
      BY <1>3, <2>6, <3>1, <3>2
  <2>7. \A t \in Task : (Awaiting(c)' /\ Aired(t, cur[c])') =>
          pc'[Loop] = "launched" /\ cur'[Loop] = cur'[c] /\ on'[Loop] = t
    BY <1>3, <2>2, <2>6 DEF Aired
  <2>8. left'[c] \subseteq {1, 2} \X Touched(cur[c])'
    BY <1>3, <2>2, <2>3, <2>4 DEF Touched
  <2> QED
    BY <1>3, <2>2, <2>5, <2>7, <2>8
<1>4. CASE \E r \in Run : Abort(c, r)
  BY <1>2, <1>4
<1>5. CASE ~\E r \in Run : Abort(c, r)
  BY <1>1, <1>3, <1>5 DEF Sweeps
<1> QED
  BY <1>4, <1>5

\* What will stop what is on the air is its run's last STOP.
LEMMA StopsWill ==
  ASSUME Orderly, Sound, OwnInv, AirInv
  PROVE  WillStop
<1> SUFFICES ASSUME NEW t \in Task, NEW r \in Run, air[t] = "on", owner[t] = r, st[r] \in Firing
             PROVE  \/ \E i \in Slot : mark[r][i] = "open" /\ Act(r, i) = "stop" /\ TaskOf(r, i) = t
                    \/ alarm[t] = "wedge"
  BY DEF WillStop
<1>1. Serves(t, r)
  BY DEF Serves, Aired
<1>2. mark[r][LastStop(r)] = "open" \/ alarm[t] = "wedge"
  BY <1>1 DEF AirInv, Stops
<1>3. LastStop(r) \in Closes(r) /\ LastStop(r) \in Steps(r) /\ LastStop(r) \in Slot
  BY <1>1, ServesOwn, StartsAndCloses
<1>4. TaskOf(r, LastStop(r)) = t /\ Act(r, LastStop(r)) = "stop"
  BY <1>1, <1>3, ServesOwn, StartsAndCloses DEF Known
<1> QED
  BY <1>2, <1>3, <1>4

\* The inductive invariant.
StopInv == Shared /\ MarksInv /\ Mends /\ AirInv /\ Silent

\* The invariant holds at first, when no run is armed and no task is up.
LEMMA StopInit ==
  ASSUME Orderly, Init
  PROVE  StopInv
<1> USE DEF Init
<1>1. Shared
  BY SharedInit
<1>2. \A r \in Run : ~Begins(r) /\ \A i \in Slot : mark[r][i] = "unset" /\ at[r][i] = 0
  BY StartsAndCloses DEF Begins
<1>3. Laid
  BY <1>2, StartsAndCloses DEF Laid
<1>4. Timed
  BY <1>2 DEF Timed
<1>5. Lost
  BY DEF Lost
<1>6. Ahead /\ InOrder /\ Disjoint /\ InTurn /\ Gone
  BY DEF Ahead, InOrder, Disjoint, InTurn, Gone, RivalsFiring, Firing
<1>7. Mends
  BY DEF Mends, Restarting, Awaiting
<1>8. \A t \in Task : ~Spawning(t) /\ air[t] # "on" /\ owner[t] = NoRun /\ alarm[t] = "none"
  BY LoopRuns DEF Spawning
<1>9. AirInv
  BY <1>8 DEF AirInv, AirBegun, NoneOpen, Serves, Aired, Spawned, Alarmed, Stops, SweepInv
<1>10. Silent
  BY <1>8 DEF Silent
<1> QED
  BY <1>1, <1>3, <1>4, <1>5, <1>6, <1>7, <1>9, <1>10 DEF StopInv, MarksInv

\* Each part of the invariant is kept by a step from the other parts before it.
LEMMA StopStep ==
  ASSUME Orderly, Sound, Sound', OwnInv, OwnInv', StopInv, [Next]_vars
  PROVE  StopInv'
<1>1. Shared /\ MarksInv /\ Mends /\ AirInv /\ Silent
  BY DEF StopInv
<1>2. Shared'
  BY <1>1, OrderlyLeads, SharedStep DEF Orderly
<1>3. MarksInv' /\ Mends'
  BY <1>1, MarksStep, MendsStep
<1>4. AirInv'
  BY <1>1, AirStep, SweepStep DEF AirInv
<1>5. WillStop
  BY <1>1, StopsWill
<1>6. Silent'
  BY <1>1, <1>5, SilentKept DEF Orderly
<1> QED
  BY <1>2, <1>3, <1>4, <1>6 DEF StopInv

\* So it holds always, beside what is proved of every plan.
LEMMA StopInvHolds ==
  ASSUME Orderly
  PROVE  Spec => [](Sound /\ OwnInv /\ StopInv)
<1>1. Init => StopInv
  BY StopInit
<1>2. Sound /\ Sound' /\ OwnInv /\ OwnInv' /\ StopInv /\ [Next]_vars => StopInv'
  BY StopStep
<1> QED
  BY OwnHolds, <1>1, <1>2, PTL DEF Spec

\* on_task_fault, restart_run and the batch of a tick: whatever fails, is aborted
\* or restarted, a task on the air for a run with a known end has a STOP to come,
\* or the alarm that will stop it is on its way.
THEOREM WillStopHolds ==
  ASSUME Orderly
  PROVE  Spec => []WillStop
<1>1. Sound /\ OwnInv /\ StopInv => WillStop
  BY StopsWill DEF StopInv
<1> QED
  BY StopInvHolds, <1>1, PTL

\* So nothing stays on the air for a run that is over, not even for one that has
\* completed.
THEOREM OrderlySilent ==
  ASSUME Orderly
  PROVE  Spec => []Silent
BY StopInvHolds, PTL DEF StopInv

-----------------------------------------------------------------------------
(* A tune reaches no other run's process.                                  *)

\* What was fired last of a task.
StartsIn(t, k) == Act(log[t][k][1], log[t][k][2]) = "start"
StartedBy(t, k, r) ==
  /\ k \in DOMAIN log[t] /\ StartsIn(t, k)
  /\ log[t][k][1] = r /\ mark[r][log[t][k][2]] = "fired"

\* The last START of a task is of the run that it serves.
LastInv ==
  \A t \in Task, r \in Run : Serves(t, r) =>
    \E k \in DOMAIN log[t] :
      StartedBy(t, k, r) /\ \A m \in DOMAIN log[t] : (k < m /\ StartsIn(t, m)) => log[t][m][1] = r

\* Only the loop logs what it fires, and only it tunes.
Logs ==
  /\ log' = log \/ \E b \in batch : Start(b) \/ Stop(b)
  /\ pc'[Loop] = "tuning" =>
       \/ \E b \in batch : Tune(b)
       \/ pc[Loop] = "tuning" /\ cur'[Loop] = cur[Loop] /\ on'[Loop] = on[Loop]

\* So it is with every step.
LEMMA LogKinds ==
  ASSUME Sound, [Next]_vars
  PROVE  Logs
<1> USE LoopRuns DEF Sound, TypeOK
<1>1. ASSUME NEW r \in Run, Arm(r) PROVE Logs
  BY <1>1 DEF Arm, Logs, At, Goto, slots, hand, HandTypes
<1>2. ASSUME NEW r \in Run, HoldNow(r) PROVE Logs
  BY <1>2 DEF HoldNow, Logs, At, Goto, slots, hand, HandTypes
<1>3. ASSUME NEW r \in Run, NEW to \in Ends, Patch(r, to) PROVE Logs
  BY <1>3 DEF Patch, Logs, At, Goto, slots, hand, HandTypes
<1>4. ASSUME NEW r \in Run, NEW resume \in {now, now + 1}, Proceed(r, resume) PROVE Logs
  BY <1>4 DEF Proceed, Logs, At, Goto, slots, hand, HandTypes
<1>5. ASSUME NEW r \in Run, RestartUnattended(r) PROVE Logs
  BY <1>5 DEF RestartUnattended, Restart, Refused, StopTask, Logs, At, Goto, slots, hand,
     HandTypes
<1>6. ASSUME NEW r \in Run, Forgive(r) PROVE Logs
  BY <1>6 DEF Forgive, Logs, At, Goto, slots, hand, HandTypes
<1>7. ASSUME NEW c \in Caller, AbortAll(c) PROVE Logs
  BY <1>7 DEF AbortAll, Logs, At, Goto, slots, hand, HandTypes
<1>8. ASSUME NEW c \in Caller, NEW r \in Run, Cancel(c, r) PROVE Logs
  BY <1>8 DEF Cancel, Logs, At, Goto, slots, hand, HandTypes
<1>9. ASSUME NEW c \in Caller, NEW r \in Run, NEW how \in Modes, RestartByHand(c, r, how) PROVE
   Logs
  BY <1>9 DEF RestartByHand, Restart, Refused, StopTask, Logs, At, Goto, slots, hand, HandTypes
<1>10. ASSUME NEW c \in Coroutine, Muted(c) PROVE Logs
  BY <1>10 DEF Muted, Logs, At, Goto, slots, hand, HandTypes, HandInv, Hand
<1>11. ASSUME NEW c \in Coroutine, Swept(c) PROVE Logs
  BY <1>11 DEF Swept, Logs, At, Goto, slots, hand, HandTypes
<1>12. ASSUME NEW c \in Coroutine, RestartRefused(c) PROVE Logs
  BY <1>12 DEF RestartRefused, Refused, Logs, At, Goto, slots, hand, HandTypes
<1>13. ASSUME NEW c \in Coroutine, Commit(c) PROVE Logs
  BY <1>13 DEF Commit, Logs, At, Goto, slots, hand, HandTypes
<1>14. ASSUME NEW c \in Coroutine, NEW r \in Run, Abort(c, r) PROVE Logs
  BY <1>14 DEF Abort, Logs, At, Goto, slots, hand, HandTypes
<1>15. ASSUME NEW c \in Coroutine, NEW n \in {1, 2}, NEW t \in Task, Sweep(c, n, t) PROVE Logs
  BY <1>15 DEF Sweep, StopTask, Logs, At, Goto, slots, hand, HandTypes
<1>16. ASSUME NEW b \in batch, FireSkipped(b) PROVE Logs
  BY <1>16 DEF FireSkipped, Logs, At, Goto, slots, hand, HandTypes
<1>17. ASSUME NEW b \in batch, TuneDeferred(b) PROVE Logs
  BY <1>17 DEF TuneDeferred, Logs, At, Goto, slots, hand, HandTypes
<1>18. ASSUME NEW b \in batch, TuneDropped(b) PROVE Logs
  BY <1>18 DEF TuneDropped, Logs, At, Goto, slots, hand, HandTypes
<1>19. ASSUME NEW b \in batch, Tune(b) PROVE Logs
  BY <1>19 DEF Tune, Take, Logs, At, Goto, slots, hand, HandTypes
<1>20. ASSUME NEW b \in batch, Start(b) PROVE Logs
  BY <1>20 DEF Start, Take, Logs, At, Goto, slots, hand, HandTypes
<1>21. ASSUME NEW b \in batch, Stop(b) PROVE Logs
  BY <1>21 DEF Stop, Take, StopTask, Logs, At, Goto, slots, hand, HandTypes
<1>22. ASSUME Tick PROVE Logs
  BY <1>22 DEF Tick, Logs, At, Goto, slots, hand, HandTypes
<1>23. ASSUME Tuned PROVE Logs
  BY <1>23 DEF Tuned, Logs, At, Goto, slots, hand, HandTypes
<1>24. ASSUME Unpark PROVE Logs
  BY <1>24 DEF Unpark, Logs, At, Goto, slots, hand, HandTypes
<1>25. ASSUME Exec PROVE Logs
  BY <1>25 DEF Exec, Woken, Logs, At, Goto, slots, hand, HandTypes
<1>26. ASSUME Launched PROVE Logs
  BY <1>26 DEF Launched, StopTask, Logs, At, Goto, slots, hand, HandTypes
<1>27. ASSUME After PROVE Logs
  BY <1>27 DEF After, Logs, At, Goto, slots, hand, HandTypes
<1>28. ASSUME Holds PROVE Logs
  BY <1>28 DEF Holds, Logs, At, Goto, slots, hand, HandTypes
<1>29. ASSUME Collect PROVE Logs
  BY <1>29 DEF Collect, Logs, At, Goto, slots, hand, HandTypes
<1>30. ASSUME Sleep PROVE Logs
  BY <1>30 DEF Sleep, Logs, At, Goto, slots, hand, HandTypes
<1>31. ASSUME NEW t \in Task, Bind(t) PROVE Logs
  BY <1>31 DEF Bind, Logs, At, Goto, slots, hand, HandTypes
<1>32. ASSUME NEW t \in Task, Exit(t) PROVE Logs
  BY <1>32 DEF Exit, Woken, Logs, At, Goto, slots, hand, HandTypes
<1>33. ASSUME NEW t \in Task, Fail(t) PROVE Logs
  BY <1>33 DEF Fail, Logs, At, Goto, slots, hand, HandTypes
<1>34. ASSUME NEW t \in Task, Alarm(t) PROVE Logs
  BY <1>34 DEF Alarm, Logs, At, Goto, slots, hand, HandTypes
<1>35. ASSUME TimePasses PROVE Logs
  BY <1>35 DEF TimePasses, Logs, At, Goto, slots, hand, HandTypes
<1>36. ASSUME CrashAndRestart PROVE Logs
  BY <1>36 DEF CrashAndRestart, Logs, At, Goto, slots, hand, HandTypes
<1>37. ASSUME UNCHANGED vars PROVE Logs
  BY <1>37 DEF vars, Logs, At, Goto, slots, hand, HandTypes
<1> HIDE DEF Sound, TypeOK
<1> QED
  BY <1>1, <1>2, <1>3, <1>4, <1>5, <1>6, <1>7, <1>8, <1>9, <1>10, <1>11, <1>12, <1>13, <1>14,
     <1>15, <1>16, <1>17, <1>18, <1>19, <1>20, <1>21, <1>22, <1>23, <1>24, <1>25, <1>26, <1>27,
     <1>28, <1>29, <1>30, <1>31, <1>32, <1>33, <1>34, <1>35, <1>36, <1>37 DEF Next

\* The last START of a run in the log of a task.
LEMMA LastStarted ==
  ASSUME Sound, NEW r \in Run, NEW t \in Task
  PROVE  /\ FiredLast(r, t, "start") \in Nat
         /\ FiredLast(r, t, "start") > 0 => StartedBy(t, FiredLast(r, t, "start"), r)
         /\ \A k : StartedBy(t, k, r) => k \in Nat /\ 0 < k /\ k <= FiredLast(r, t, "start")
<1> DEFINE K == {k \in DOMAIN log[t] : /\ log[t][k][1] = r
                                       /\ mark[r][log[t][k][2]] = "fired"
                                       /\ Act(r, log[t][k][2]) = "start"}
           S == {0} \cup K
<1>1. log[t] \in Seq(Run \X Slot)
  BY DEF Sound, TypeOK, TaskTypes
<1>2. DOMAIN log[t] = 1 .. Len(log[t]) /\ Len(log[t]) \in Nat
  BY <1>1
<1>3. \A k : k \in K <=> StartedBy(t, k, r)
  BY DEF StartedBy, StartsIn
<1>4. FiredLast(r, t, "start") = Most(S)
  BY DEF FiredLast
<1>5. S \in SUBSET Int /\ S # {} /\ 0 \in S /\ Len(log[t]) \in Int /\ \A x \in S : x <= Len(log[t])
  BY <1>2
<1>6. \A k \in K : k \in Nat /\ 0 < k /\ k \in S
  BY <1>2
<1> HIDE DEF K, S
<1>7. Most(S) \in S /\ \A y \in S : y <= Most(S)
  BY <1>5, MostOfBounded
<1>8. Most(S) \in Nat
  <2>1. PICK m \in Int : m = Most(S)
    BY <1>5, <1>7
  <2>2. 0 <= m
    BY <1>5, <1>7, <2>1
  <2> QED
    BY <2>1, <2>2
<1>9. Most(S) > 0 => Most(S) \in K
  BY <1>7 DEF S
<1> QED
  BY <1>3, <1>4, <1>6, <1>7, <1>8, <1>9

\* What a slot does does not change, and its START has fired once it has.
LEMMA ActsStay ==
  ASSUME NEW r, NEW i
  PROVE  Act(r, i)' = Act(r, i)
<1>1. CASE i = N
  BY <1>1 DEF Act, StepAt
<1>2. CASE i # N
  BY <1>2 DEF Act, StepAt
<1> QED
  BY <1>1, <1>2

\* No restart of a run is committed while a task serves it.
LEMMA ServedWaits ==
  ASSUME Orderly, Sound, OwnInv, MarksInv, Mends, AirInv,
         NEW t \in Task, NEW r \in Run, Serves(t, r), NEW c \in Coroutine, Commit(c)
  PROVE  cur[c] # r
<1>1. /\ Restarting(c) /\ fault[cur[c]] # <<>> /\ cur[c] \in Run
  BY Committed
<1>2. air[on[c]] \notin {"on", "leaving"}
  BY DEF Commit, Recheck
<1>3. on[c] \in Touched(cur[c])
  BY <1>1 DEF OwnInv, MendsOwn
<1> QED
  BY <1>1, <1>2, <1>3, ServesOwn DEF Serves, Aired, AirInv, Spawned

\* So a START of the run stays fired; and none is fired but by a START.
LEMMA StartsStay ==
  ASSUME Orderly, Sound, Sound', OwnInv, Shared, MarksInv, Mends, AirInv, [Next]_vars,
         NEW r \in Run, NEW i \in Slot, Act(r, i) = "start"
  PROVE  /\ \A t \in Task : (Serves(t, r) /\ mark[r][i] = "fired") => mark'[r][i] = "fired"
         /\ (mark'[r][i] = "fired" /\ mark[r][i] # "fired") =>
              \E b \in batch : (Start(b) \/ Stop(b)) /\ b.run = r /\ b.step = i
<1>1. ASSUME mark[r][i] # "unset" PROVE i \in Starts(r)
  BY <1>1, StartsAndCloses DEF Sound, SlotsInv, Known
<1> DEFINE Keeps == mark'[r][i] = mark[r][i]
           Fires1 == \E b \in batch : (Start(b) \/ Stop(b)) /\ b.run = r /\ b.step = i
           Goal == /\ \A t \in Task : (Serves(t, r) /\ mark[r][i] = "fired") => mark'[r][i] = "fired"
                   /\ (mark'[r][i] = "fired" /\ mark[r][i] # "fired") => Fires1
<1>2. ASSUME Keeps PROVE Goal
  BY <1>2
<1> HIDE DEF Fires1
<1>3. ASSUME Steady PROVE Keeps
  BY <1>1, <1>3 DEF Steady
<1>4. ASSUME NEW q \in Run, Arm(q) PROVE Goal
  <2>1. CASE q # r
    BY <1>4, <2>1, JustArmed
  <2>2. CASE q = r
    <3>1. st[r] = "none" /\ mark'[r][i] \in {"open", "unset"}
      BY <1>4, <2>2, JustArmed
    <3> QED
      BY <3>1, ServesOwn DEF Begun
  <2> QED
    BY <2>1, <2>2
<1>5. ASSUME Tick PROVE Keeps
  BY <1>1, <1>5, Ticked DEF MarksInv
<1>6. ASSUME NEW b \in batch, Start(b) \/ Stop(b) PROVE Goal
  <2>1. Fireable(b) /\ Take(b)
    BY <1>6 DEF Start, Stop
  <2>2. /\ b.run \in Run /\ b.step \in Slot
        /\ mark' = [mark EXCEPT ![b.run][b.step] = "fired"]
    BY <2>1, Taken DEF Shared
  <2>3. CASE b.run = r /\ b.step = i
    <3>1. mark'[r][i] = "fired"
      BY <2>2, <2>3 DEF Sound, TypeOK, RunTypes
    <3> QED
      BY <1>6, <2>3, <3>1 DEF Fires1
  <2>4. CASE ~(b.run = r /\ b.step = i)
    <3>1. Keeps
      BY <2>2, <2>4 DEF Sound, TypeOK, RunTypes
    <3> QED
      BY <1>2, <3>1
  <2> QED
    BY <2>3, <2>4
<1>7. ASSUME NEW u \in Task, Coupling(u) PROVE Goal
  BY <1>7, CoupledRuns DEF MarksInv, Coupling
<1>8. ASSUME NEW c \in Coroutine, Commit(c) PROVE Goal
  <2>1. cur[c] # r => Keeps
    BY <1>8, Committed
  <2>2. cur[c] = r => mark'[r][i] = mark[r][i] \/ mark'[r][i] = "open"
    BY <1>8, Committed
  <2>3. \A t \in Task : Serves(t, r) => cur[c] # r
    BY <1>8, ServedWaits
  <2> QED
    BY <2>1, <2>2, <2>3
<1>9. \/ Steady \/ (\E q \in Run : Arm(q)) \/ Tick \/ (\E b \in batch : Start(b) \/ Stop(b))
      \/ (\E u \in Task : Coupling(u)) \/ \E d \in Coroutine : Commit(d)
  BY MarkKinds DEF Shared, MarksInv
<1> QED
  BY <1>2, <1>3, <1>4, <1>5, <1>6, <1>7, <1>8, <1>9 DEF Fires1

\* The last START of a task stays the one of the run that it serves: while it does,
\* no other START of the task fires.
LEMMA LastStep ==
  ASSUME Orderly, Sound, Sound', OwnInv, OwnInv', Shared, MarksInv, Mends, AirInv, AirInv', Silent,
         LastInv, [Next]_vars
  PROVE  LastInv'
<1> SUFFICES ASSUME NEW t \in Task, NEW r \in Run, Serves(t, r)'
             PROVE  \E k \in DOMAIN log'[t] :
                      /\ StartedBy(t, k, r)'
                      /\ \A m \in DOMAIN log'[t] : (k < m /\ StartsIn(t, m)') => log'[t][m][1] = r
  BY DEF LastInv
<1>1. /\ log[t] \in Seq(Run \X Slot) /\ log \in [Task -> Seq(Run \X Slot)]
      /\ DOMAIN log[t] = 1 .. Len(log[t]) /\ Len(log[t]) \in Nat
  BY DEF Sound, TypeOK, TaskTypes
<1>2. \A k : StartsIn(t, k)' <=> Act(log'[t][k][1], log'[t][k][2]) = "start"
  BY ActsStay DEF StartsIn
<1>3. ASSUME NEW b \in batch, Start(b) \/ Stop(b)
      PROVE  LET u == TaskOf(b.run, b.step)
             IN  /\ b.run \in Run /\ b.step \in Slot /\ u \in Task
                 /\ log' = [log EXCEPT ![u] = Append(log[u], <<b.run, b.step>>)]
                 /\ mark' = [mark EXCEPT ![b.run][b.step] = "fired"]
  <2>1. Fireable(b) /\ Take(b) /\ Logged(b)
    BY <1>3 DEF Start, Stop
  <2>2. OfRun(b)
    BY DEF OfRun, Shared, Collected
  <2> QED
    BY <2>1, <2>2, Taken, BatchTypes DEF Shared, Logged
<1>4. CASE Serves(t, r)
  <2>1. PICK k \in DOMAIN log[t] :
          /\ StartedBy(t, k, r)
          /\ \A m \in DOMAIN log[t] : (k < m /\ StartsIn(t, m)) => log[t][m][1] = r
    BY <1>4 DEF LastInv
  <2>2. k \in Nat /\ log[t][k][2] \in Slot /\ log[t][k][1] = r
    BY <1>1, <2>1 DEF StartedBy
  <2>3. Act(r, log[t][k][2]) = "start" /\ mark'[r][log[t][k][2]] = "fired"
    BY <1>4, <2>1, <2>2, StartsStay DEF StartedBy, StartsIn
  <2>4. CASE log'[t] = log[t]
    BY <1>2, <2>1, <2>2, <2>3, <2>4 DEF StartedBy, StartsIn
  <2>5. CASE log'[t] # log[t]
    <3>1. PICK b \in batch : Start(b) \/ Stop(b)
      BY <2>5, LogKinds DEF Logs
    <3>2. /\ TaskOf(b.run, b.step) = t /\ log'[t] = Append(log[t], <<b.run, b.step>>)
      BY <1>1, <1>3, <2>5, <3>1
    <3>3. ~Start(b)
      <4> SUFFICES ASSUME Start(b) PROVE FALSE
        OBVIOUS
      <4>1. air[t] # "on" /\ pc[Loop] = "fire"
        BY <3>2, Vacant DEF Start, At
      <4> QED
        BY <1>4, <4>1 DEF Serves, Aired, Spawning
    <3>4. Act(b.run, b.step) # "start"
      BY <3>1, <3>3 DEF Stop
    <3> PICK n \in Nat : n = Len(log[t]) + 1
      BY <1>1
    <3>5. /\ DOMAIN log'[t] = 1 .. n
          /\ \A m \in DOMAIN log[t] : log'[t][m] = log[t][m]
          /\ log'[t][n] = <<b.run, b.step>>
      BY <1>1, <1>3, <3>1, <3>2
    <3>6. ~StartsIn(t, n)'
      BY <1>2, <3>4, <3>5
    <3>7. k \in DOMAIN log'[t] /\ StartedBy(t, k, r)'
      <4>1. k \in DOMAIN log'[t] /\ log'[t][k] = log[t][k]
        BY <1>1, <2>2, <3>5
      <4>2. StartsIn(t, k)'
        BY <1>2, <2>2, <2>3, <4>1
      <4> QED
        BY <2>2, <2>3, <4>1, <4>2 DEF StartedBy
    <3>8. ASSUME NEW m \in DOMAIN log'[t], k < m, StartsIn(t, m)' PROVE log'[t][m][1] = r
      <4>1. m \in DOMAIN log[t]
        BY <1>1, <3>5, <3>6, <3>8
      <4>2. log'[t][m] = log[t][m]
        BY <3>5, <4>1
      <4>3. StartsIn(t, m)
        BY <1>2, <3>8, <4>2 DEF StartsIn
      <4> QED
        BY <2>1, <3>8, <4>1, <4>2, <4>3
    <3> QED
      BY <3>7, <3>8
  <2> QED
    BY <2>4, <2>5
<1>5. ASSUME NEW b \in batch, Start(b), b.run = r, TaskOf(b.run, b.step) = t
      PROVE  \E k \in DOMAIN log'[t] :
               /\ StartedBy(t, k, r)'
               /\ \A m \in DOMAIN log'[t] : (k < m /\ StartsIn(t, m)') => log'[t][m][1] = r
  <2> PICK n \in Nat : n = Len(log[t]) + 1
    BY <1>1
  <2>0. /\ b.step \in Slot
        /\ log' = [log EXCEPT ![t] = Append(log[t], <<r, b.step>>)]
        /\ mark' = [mark EXCEPT ![r][b.step] = "fired"]
    BY <1>3, <1>5
  <2>1. /\ b.step \in Slot /\ log'[t] = Append(log[t], <<r, b.step>>)
        /\ mark'[r][b.step] = "fired"
    BY <1>1, <2>0 DEF Sound, TypeOK, RunTypes
  <2>2. DOMAIN log'[t] = 1 .. n /\ log'[t][n] = <<r, b.step>> /\ n \in Nat /\ n \in 1 .. n
    BY <1>1, <2>1
  <2>3. Act(r, b.step) = "start"
    BY <1>5 DEF Start
  <2>4. StartedBy(t, n, r)'
    BY <1>2, <2>1, <2>2, <2>3 DEF StartedBy
  <2>5. \A m \in DOMAIN log'[t] : ~(n < m)
    BY <2>2
  <2> QED
    BY <2>2, <2>4, <2>5
<1> QED
  BY <1>4, <1>5, ServesSince DEF AirInv

\* While the loop tunes, the process is of the run in hand, if that run has started
\* the task: otherwise the tune was stale.
LEMMA TuneStep ==
  ASSUME Orderly, Sound, Sound', OwnInv, OwnInv', Shared, MarksInv, Mends, AirInv, AirInv', Silent,
         LastInv, NoForeignTune, [Next]_vars
  PROVE  NoForeignTune'
<1> SUFFICES ASSUME NEW t, on'[Loop] = t, pc'[Loop] = "tuning", air'[t] = "on",
                    (FiredLast(cur[Loop], t, "start") > 0)'
             PROVE  owner'[t] = cur'[Loop]
  BY DEF NoForeignTune
<1>1. t \in Task /\ cur'[Loop] \in Run
  BY LoopRuns DEF Sound, HandInv, Hand
<1> PICK r \in Run : r = cur'[Loop]
  BY <1>1
<1>2. air[t] = "on" /\ owner'[t] = owner[t]
  <2>1. CASE Unlaunched
    BY <1>1, <2>1 DEF Unlaunched
  <2>2. CASE Up
    BY <2>2 DEF Up
  <2>3. ASSUME NEW b \in batch, Start(b) PROVE FALSE
    BY <2>3, LoopRuns DEF Start, Goto, Sound, TypeOK, HandTypes
  <2> QED
    BY <2>1, <2>2, <2>3, LaunchKinds DEF AirInv
<1>3. ~(\E b \in batch : Start(b) \/ Stop(b))
  BY LoopRuns DEF Start, Stop, StopTask, Goto, Sound, TypeOK, HandTypes
<1>4. log' = log
  BY <1>3, LogKinds DEF Logs
<1>5. PICK k : StartedBy(t, k, r)'
  <2> SUFFICES ASSUME \A k : ~StartedBy(t, k, r)' PROVE FALSE
    OBVIOUS
  <2> DEFINE K == {k \in DOMAIN log[t] : /\ log[t][k][1] = r
                                        /\ mark[r][log[t][k][2]] = "fired"
                                        /\ Act(r, log[t][k][2]) = "start"}
  <2>1. K' = {}
    <3> SUFFICES ASSUME NEW k \in K' PROVE FALSE
      OBVIOUS
    <3>1. /\ k \in DOMAIN log'[t] /\ log'[t][k][1] = r /\ mark'[r][log'[t][k][2]] = "fired"
          /\ Act(r, log[t][k][2])' = "start"
      OBVIOUS
    <3>2. StartedBy(t, k, r)'
      BY <3>1 DEF StartedBy, StartsIn
    <3> QED
      BY <3>2
  <2>2. Most({0}) = 0
    BY MostOfBounded
  <2>3. FiredLast(r, t, "start")' = Most({0} \cup K')
    BY DEF FiredLast
  <2> HIDE DEF K
  <2> QED
    BY <2>1, <2>2, <2>3
<1>6. StartedBy(t, k, r)
  <2>1. /\ k \in DOMAIN log[t] /\ log[t][k][1] = r /\ mark'[r][log[t][k][2]] = "fired"
        /\ Act(r, log[t][k][2]) = "start"
    BY <1>4, <1>5, ActsStay DEF StartedBy, StartsIn
  <2>2. log[t][k][2] \in Slot
    BY <1>1, <2>1 DEF Sound, TypeOK, TaskTypes
  <2>3. mark[r][log[t][k][2]] = "fired"
    BY <1>3, <2>1, <2>2, StartsStay
  <2> QED
    BY <2>1, <2>3 DEF StartedBy, StartsIn
<1>7. FiredLast(r, t, "start") > 0
  BY <1>1, <1>6, LastStarted
<1>8. CASE pc[Loop] = "tuning" /\ cur'[Loop] = cur[Loop] /\ on'[Loop] = on[Loop]
  BY <1>2, <1>7, <1>8 DEF NoForeignTune
<1>9. ASSUME NEW b \in batch, Tune(b) PROVE owner[t] = r
  <2>1. ~Stale(r, t) /\ At(Loop, "fire")
    <3>1. /\ cur' = [cur EXCEPT ![Loop] = b.run]
          /\ on' = [on EXCEPT ![Loop] = TaskOf(b.run, b.step)]
      BY <1>9 DEF Tune, Take
    <3>2. b.run = r /\ TaskOf(b.run, b.step) = t
      BY <3>1, LoopRuns DEF Sound, TypeOK, HandTypes
    <3> QED
      BY <1>9, <3>2 DEF Tune
  <2>2. pc[Loop] = "fire" /\ \A c \in Coroutine : c # Loop => pc[c] # "sweep"
    BY <2>1 DEF At, Calm, InHand, Orderly
  <2>3. PICK q \in Run : owner[t] = q
    BY <1>1, <1>2 DEF AirInv, AirBegun, Sound, TypeOK, TaskTypes
  <2>4. Serves(t, q)
    BY <1>2, <2>3 DEF Serves, Aired
  <2>5. PICK l \in DOMAIN log[t] :
          /\ StartedBy(t, l, q)
          /\ \A m \in DOMAIN log[t] : (l < m /\ StartsIn(t, m)) => log[t][m][1] = q
    BY <1>1, <2>4 DEF LastInv
  <2>6. st[q] \notin Over
    <3> SUFFICES ASSUME st[q] \in Over PROVE FALSE
      OBVIOUS
    <3>1. Pending(q, t)
      BY <1>1, <1>2, <2>3 DEF Silent, Pending, Over, Active, Firing
    <3>2. PICK c \in Coroutine : cur[c] = q /\ left[c] # {}
      BY <2>2, <3>1 DEF Pending
    <3>3. Awaiting(c)
      BY <2>2, <3>2 DEF Sound, HandInv, Hand, Awaiting
    <3>4. Aired(t, cur[c])
      BY <1>2, <2>3, <3>2 DEF Aired
    <3> QED
      BY <1>1, <2>2, <3>2, <3>3, <3>4 DEF AirInv, SweepInv
  <2>7. st[q] \in Active
    <3>1. Begun(q)
      BY <1>1, <2>4, ServesOwn
    <3>2. st[q] \in Over \cup Firing
      BY <3>1 DEF Begun, Over, Firing, RunState, Sound, TypeOK, RunTypes, MarksInv, Laid
    <3> QED
      BY <2>6, <3>2 DEF Active
  <2>8. ASSUME q # r PROVE FALSE
    <3>1. PICK f \in Nat : f = FiredLast(r, t, "start")
      BY <1>1, LastStarted
    <3>2. PICK g \in Nat : g = FiredLast(q, t, "start")
      BY <1>1, LastStarted
    <3>3. f > 0 /\ StartedBy(t, f, r)
      BY <1>1, <1>7, <3>1, LastStarted
    <3>4. l \in Nat /\ l <= g
      BY <1>1, <2>5, <3>2, LastStarted
    <3>5. ~(l < f) /\ l # f
      BY <2>5, <2>8, <3>3 DEF StartedBy
    <3>6. g > f
      BY <3>4, <3>5
    <3> QED
      BY <2>1, <2>7, <2>8, <3>1, <3>2, <3>3, <3>6 DEF Stale
  <2> QED
    BY <2>3, <2>8
<1> QED
  BY <1>2, <1>8, <1>9, LogKinds DEF Logs

\* A tune never reaches the process of another run, whatever the runs and the
\* tunes that are deferred.  (_tune_target_stale, in _fire_step.)
THEOREM NoForeignTuneHolds ==
  ASSUME Orderly
  PROVE  Spec => []NoForeignTune
<1> DEFINE Inv == Sound /\ OwnInv /\ StopInv /\ LastInv /\ NoForeignTune
<1>1. Init => LastInv /\ NoForeignTune
  BY LoopRuns DEF Init, LastInv, NoForeignTune, Serves, Aired, Spawning
<1>2. /\ Sound /\ OwnInv /\ StopInv /\ Sound' /\ OwnInv' /\ StopInv'
      /\ LastInv /\ NoForeignTune /\ [Next]_vars
      => LastInv' /\ NoForeignTune'
  BY LastStep, TuneStep DEF StopInv
<1> QED
  BY <1>1, <1>2, StopInvHolds, PTL DEF Spec

=============================================================================
