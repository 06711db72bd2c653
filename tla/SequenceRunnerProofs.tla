------------------------ MODULE SequenceRunnerProofs ------------------------
(***************************************************************************)
(* Proofs about SequenceRunner, for any runs, plans, tasks and callers.    *)
(***************************************************************************)
EXTENDS SequenceRunner, TLAPS, WellFoundedInduction

-----------------------------------------------------------------------------
(* The latest and the earliest of some instants.                           *)

\* Induction over the numbers goes by the least counterexample.
Less == {p \in Nat \X Nat : p[1] < p[2]}

\* Any numbers have a least one.
LEMMA LeastNatural ==
  ASSUME NEW T \in SUBSET Nat, T # {}
  PROVE  \E m \in T : \A k \in T : m <= k
<1>1. IsWellFoundedOn(Less, Nat)
  BY NatLessThanWellFounded DEF OpToRel, Less
<1>2. PICK m \in T : \A k \in T : <<k, m>> \notin Less
  BY <1>1, WFMin
<1>3. \A k \in T : ~(k < m)
  BY <1>2 DEF Less
<1> QED
  BY <1>3

\* Most gives the greatest of the numbers when they are bounded.
LEMMA MostOfBounded ==
  ASSUME NEW S \in SUBSET Int, S # {}, NEW b \in Int, \A x \in S : x <= b
  PROVE  Most(S) \in S /\ \A y \in S : y <= Most(S)
<1> DEFINE T == {b - x : x \in S}
<1>1. T \in SUBSET Nat /\ T # {}
  <2>1. \A x \in S : x \in Int /\ x <= b /\ b - x \in Nat
    OBVIOUS
  <2> QED
    BY <2>1
<1>2. PICK m \in T : \A k \in T : m <= k
  BY <1>1, LeastNatural
<1>3. PICK x \in S : m = b - x
  BY <1>2
<1>4. \A y \in S : y <= x
  BY <1>2, <1>3
<1> QED
  BY <1>3, <1>4 DEF Most

\* The numbers in the slots of a table are bounded.
LEMMA Bounded ==
  ASSUME NEW n \in Nat, NEW f \in [1 .. n -> Int]
  PROVE  \E b \in Int : \A i \in 1 .. n : f[i] <= b
<1> DEFINE Up(m) == \E b \in Int : \A i \in 1 .. m : f[i] <= b
           T == {m \in 0 .. n : ~Up(m)}
<1> SUFFICES ASSUME T # {} PROVE FALSE
  <2>1. n \in 0 .. n
    OBVIOUS
  <2>2. T = {} => Up(n)
    BY <2>1
  <2> QED
    BY <2>2
<1>0. T \in SUBSET Nat
  OBVIOUS
<1>1. PICK m \in T : \A k \in T : m <= k
  BY <1>0, LeastNatural
<1>2. m \in 0 .. n /\ ~Up(m)
  BY <1>1
<1>3. m # 0
  <2>1. \A i \in 1 .. 0 : f[i] <= 0
    OBVIOUS
  <2>2. Up(0)
    BY <2>1
  <2> QED
    BY <1>2, <2>2
<1>4. m - 1 \in 0 .. n /\ ~(m <= m - 1)
  BY <1>2, <1>3
<1>5. Up(m - 1)
  <2>1. m - 1 \notin T
    BY <1>1, <1>4
  <2> QED
    BY <2>1, <1>4
<1>6. PICK b \in Int : \A i \in 1 .. m - 1 : f[i] <= b
  BY <1>5
<1>7. m \in 1 .. n /\ f[m] \in Int
  BY <1>2, <1>3
<1>8. \A i \in 1 .. m : i \in 1 .. m - 1 \/ i = m
  BY <1>2
<1>9. PICK c \in Int : b <= c /\ f[m] <= c
  <2>1. CASE b <= f[m]
    BY <2>1, <1>7
  <2>2. CASE ~(b <= f[m])
    BY <2>2, <1>7
  <2> QED
    BY <2>1, <2>2
<1>10. \A i \in 1 .. m : f[i] <= c
  <2> TAKE i \in 1 .. m
  <2>1. CASE i = m
    BY <2>1, <1>9
  <2>2. CASE i \in 1 .. m - 1
    <3>1. i \in 1 .. n /\ f[i] \in Int
      BY <1>2
    <3>2. f[i] <= b
      BY <2>2, <1>6
    <3> QED
      BY <3>1, <3>2, <1>9
  <2> QED
    BY <2>1, <2>2, <1>8
<1>11. Up(m)
  BY <1>10
<1> QED
  BY <1>2, <1>11

\* So Most gives one of the instants of some slots, and of two.
LEMMA MostOfSlots ==
  ASSUME NEW n \in Nat, NEW f \in [1 .. n -> Int], NEW D \in SUBSET (1 .. n), D # {}
  PROVE  Most({f[i] : i \in D}) \in Int
<1>1. PICK b \in Int : \A i \in 1 .. n : f[i] <= b
  BY Bounded
<1> DEFINE S == {f[i] : i \in D}
<1>2. S \in SUBSET Int /\ S # {} /\ \A x \in S : x <= b
  BY <1>1
<1>3. Most(S) \in S
  BY <1>2, MostOfBounded
<1> QED
  BY <1>2, <1>3

\* Most of two is one of them, and no less than either.
LEMMA MostOfTwo ==
  ASSUME NEW x \in Int, NEW y \in Int
  PROVE  Most({x, y}) \in {x, y} /\ x <= Most({x, y}) /\ y <= Most({x, y})
<1>1. \E b \in Int : x <= b /\ y <= b
  OBVIOUS
<1> QED
  BY <1>1, MostOfBounded

\* No less than nothing, if nothing is one of them.
LEMMA MostWithZero ==
  ASSUME NEW n \in Nat, NEW f \in [1 .. n -> Int], NEW D \in SUBSET (1 .. n)
  PROVE  Most({f[i] : i \in D} \cup {0}) \in Nat
<1>1. PICK b \in Int : \A i \in 1 .. n : f[i] <= b
  BY Bounded
<1> DEFINE S == {f[i] : i \in D} \cup {0}
<1>2. PICK c \in Int : b <= c /\ 0 <= c
  OBVIOUS
<1>3. S \in SUBSET Int /\ 0 \in S /\ \A x \in S : x <= c
  BY <1>1, <1>2
<1>4. Most(S) \in S /\ 0 <= Most(S)
  BY <1>3, MostOfBounded
<1> QED
  BY <1>3, <1>4

-----------------------------------------------------------------------------
(* The steps of a plan, and the types of what the steps of a run make.     *)

Awaiting(c) == pc[c] \in {"stopping", "muting"}
Launching(c) == pc[c] \in {"parked", "exec", "launched"}
Restarting(c) == pc[c] = "recheck" \/ (Awaiting(c) /\ then[c] = "recheck")

\* The slots of a run that may have a StepFire.
Known(r) == Steps(r) \cup (IF again[r] = NoTask THEN {} ELSE {N})

\* What a coroutine has in hand where it is parked: the API calls never fire a
\* step, and who has tasks left to stop is sweeping.
Hand(c) ==
  /\ then[c] \in {"idle", "after", "sweep", "recheck"}
  /\ c \in Caller => /\ pc[c] \in {"idle", "done", "sweep", "stopping", "muting", "recheck"}
                     /\ then[c] # "after"
  /\ pc[c] \in {"tuning", "after"} \/ Launching(c) => cur[c] \in Run
  /\ pc[c] = "tuning" \/ Launching(c) \/ Awaiting(c) => on[c] \in Task
  /\ Awaiting(c) => then[c] # "idle"
  /\ (Awaiting(c) /\ then[c] = "after") => cur[c] \in Run
  /\ left[c] # {} => cur[c] \in Run /\ (pc[c] = "sweep" \/ (Awaiting(c) /\ then[c] = "sweep"))
  /\ Restarting(c) => cur[c] \in Run /\ on[c] \in Task
HandInv == \A c \in Coroutine : Hand(c)

\* Only known slots have a StepFire, and only they are collected to be fired.
SlotsInv ==
  /\ \A r \in Run, i \in Slot : mark[r][i] # "unset" => i \in Known(r)
  /\ \A b \in batch : b.step \in Known(b.run)

\* No restart looks into the future.
TimeInv == (\A r \in Run : faultAt[r] <= now) /\ \A c \in Coroutine : since[c] <= now

\* One restart of a run at a time, and while it waits for the process to be
\* gone the run keeps a fault that is older than the restart.
Mending(c) ==
  Restarting(c) =>
    /\ cur[c] \in restarting /\ was[c] # <<>> /\ fault[cur[c]] # <<>>
    /\ faultAt[cur[c]] <= since[c]
OneAtATime ==
  \A c, d \in Coroutine : (Restarting(c) /\ Restarting(d) /\ cur[c] = cur[d]) => c = d
RestartInv == (\A c \in Coroutine : Mending(c)) /\ OneAtATime

Sound == TypeOK /\ HandInv /\ SlotsInv /\ TimeInv /\ RestartInv

\* The bounds are numbers.
LEMMA Bounds ==
  /\ N \in Nat /\ Never \in Nat /\ MaxHold \in Nat /\ Budget \in Nat /\ Margin \in Nat
  /\ Horizon \in Nat /\ Patience \in Nat /\ Latest \in Int /\ Ends \subseteq Nat
  /\ MaxPatches \in Nat /\ MaxFaults \in Nat /\ MaxCrashes \in Nat
BY BoundAssumption DEF Latest

\* The steps of a plan are below the slot of the relaunch.
LEMMA PlanSteps ==
  ASSUME NEW r \in Run
  PROVE  /\ Steps(r) = 1 .. Len(Plan[r].steps) /\ Len(Plan[r].steps) \in Nat
         /\ Steps(r) \subseteq Slot /\ N \in Slot /\ N \notin Steps(r)
         /\ \A i \in Steps(r) : StepAt(r, i) = Plan[r].steps[i] /\ StepAt(r, i) \in Step
         /\ Plan[r].on \in Nat /\ Plan[r].off \in Nat /\ Plan[r].hold \in Nat
<1>1. /\ Plan[r].steps \in Seq(Step) /\ Len(Plan[r].steps) < N /\ N \in Nat
      /\ Plan[r].on \in Nat /\ Plan[r].off \in Nat /\ Plan[r].hold \in Nat
  BY PlanAssumption, Bounds
<1> DEFINE s == Plan[r].steps
<1>2. /\ Len(s) \in Nat /\ DOMAIN s = 1 .. Len(s)
      /\ \A i \in DOMAIN s : s[i] \in Step
  BY <1>1
<1>3. N \in Slot /\ DOMAIN s \subseteq Slot /\ N \notin DOMAIN s
  BY <1>1, <1>2 DEF Slot
<1> QED
  BY <1>1, <1>2, <1>3 DEF Steps, StepAt

\* A known slot is of a task, and its root has an anchor of the run's own.
LEMMA KnownSteps ==
  ASSUME TypeOK, NEW r \in Run, NEW i \in Known(r)
  PROVE  /\ i \in Slot /\ TaskOf(r, i) \in Task
         /\ Act(r, i) \in {"start", "tune", "stop"}
         /\ RootBase(r, i) \in {"start", "stop", "enter", "hold"}
         /\ StepAt(r, i).off \in Int /\ StepAt(r, Root(r, i)).off \in Int
<1>1. CASE i = N
  <2>1. N \in Slot /\ again[r] \in Task
    BY <1>1, PlanSteps DEF TypeOK, FaultTypes, Known
  <2>2. /\ StepAt(r, N).act = "start" /\ StepAt(r, N).task = again[r]
        /\ StepAt(r, N).base = "start" /\ StepAt(r, N).off = 0
    BY DEF StepAt
  <2>3. Root(r, N) = N
    BY <2>2 DEF Root
  <2> QED
    BY <1>1, <2>1, <2>2, <2>3 DEF TaskOf, Act, RootBase
<1>2. CASE i \in Steps(r)
  <2>1. StepAt(r, i) \in Step /\ i \in Slot
    BY <1>2, PlanSteps
  <2>2. Root(r, i) \in Steps(r) /\ StepAt(r, Root(r, i)).base # "step"
    BY <1>2, <2>1, PlanAssumption, PlanSteps DEF Root, Steps
  <2>3. StepAt(r, Root(r, i)) \in Step
    BY <2>2, PlanSteps
  <2> QED
    BY <2>1, <2>2, <2>3 DEF TaskOf, Act, RootBase, Step
<1> QED
  BY <1>1, <1>2 DEF Known

\* When a step fires is an instant.
LEMMA FireTimes ==
  ASSUME TypeOK, NEW r \in Run, NEW i \in Known(r), NEW to \in Int, NEW resume \in Int
  PROVE  FireAt(r, i, to, resume) \in Int
<1>1. CASE RootBase(r, i) = "start"
  BY <1>1, KnownSteps, PlanSteps DEF FireAt
<1>2. CASE RootBase(r, i) = "enter"
  BY <1>2, KnownSteps, PlanSteps DEF FireAt
<1>3. CASE RootBase(r, i) = "hold"
  BY <1>3, KnownSteps, PlanSteps DEF FireAt
<1>4. CASE RootBase(r, i) = "stop"
  BY <1>4, KnownSteps, PlanSteps DEF FireAt
<1> QED
  BY <1>1, <1>2, <1>3, <1>4, KnownSteps

\* What is left to do after a Hold takes no negative time.
LEMMA ContentNatural ==
  ASSUME NEW r \in Run
  PROVE  Content(r) \in Nat
<1> DEFINE n == Len(Plan[r].steps)
           f == [i \in 1 .. n |-> Plan[r].steps[i].off]
           g == [i \in 1 .. n |-> -Plan[r].steps[i].off]
           B(b) == {j \in Steps(r) : Plan[r].steps[j].base = b}
<1>1. n \in Nat /\ Steps(r) = 1 .. n
  BY PlanSteps
<1>2. \A i \in 1 .. n : Plan[r].steps[i].off \in Int
  BY <1>1, PlanSteps DEF Step
<1>3. f \in [1 .. n -> Int] /\ g \in [1 .. n -> Int]
  BY <1>2
<1>4. \A b : B(b) \in SUBSET (1 .. n)
  BY <1>1
<1> HIDE DEF n
<1>5. \A b : {f[i] : i \in B(b)} = {Plan[r].steps[i].off : i \in B(b)}
  BY <1>1
<1>6. \A b : {g[i] : i \in B(b)} = {-Plan[r].steps[i].off : i \in B(b)}
  BY <1>1
<1> HIDE DEF f, g
<1>7. Most({f[i] : i \in B("hold")} \cup {0}) \in Nat
  BY <1>1, <1>3, <1>4, MostWithZero
<1>8. Most({g[i] : i \in B("stop")} \cup {0}) \in Nat
  BY <1>1, <1>3, <1>4, MostWithZero
<1>9. Content(r) = Most({f[i] : i \in B("hold")} \cup {0}) + Most({g[i] : i \in B("stop")} \cup {0})
  BY <1>5, <1>6 DEF Content
<1> QED
  BY <1>7, <1>8, <1>9

-----------------------------------------------------------------------------
(* Every step keeps the types.                                             *)

\* A run that has a fault has a task it is of.
LEMMA Faulty ==
  ASSUME TypeOK, NEW r \in Run
  PROVE  /\ FaultTask(r) \in Task \cup {NoTask}
         /\ fault[r] # <<>> => FaultTask(r) \in Task /\ FaultTask(r) = fault[r][1]
BY DEF TypeOK, FaultTypes, FaultTask

\* Stopping a task changes types of nothing.
LEMMA StopTypes ==
  ASSUME TypeOK, NEW c \in Coroutine, NEW t \in Task, NEW next \in Label, StopTask(c, t, next)
  PROVE  /\ opStop' \in [Task -> BOOLEAN]
         /\ air' \in [Task -> {"off", "starting", "doomed", "on", "leaving"}]
         /\ pc' \in [Coroutine -> Label] /\ then' \in [Coroutine -> Label]
         /\ on' \in [Coroutine -> Task \cup {NoTask}]
<1>1. air' = [air EXCEPT ![t] = CASE air[t] = "on"       -> "leaving"
                                 [] air[t] = "starting" -> "doomed"
                                 [] OTHER               -> air[t]]
  BY DEF StopTask
<1>2. air[t] \in {"off", "starting", "doomed", "on", "leaving"}
  BY DEF TypeOK, TaskTypes
<1>3. (CASE air[t] = "on"       -> "leaving"
         [] air[t] = "starting" -> "doomed"
         [] OTHER               -> air[t]) \in {"off", "starting", "doomed", "on", "leaving"}
  BY <1>2
<1>4. air' \in [Task -> {"off", "starting", "doomed", "on", "leaving"}]
  BY <1>1, <1>3 DEF TypeOK, TaskTypes
<1>5. (IF air[t] \in {"on", "starting", "doomed"} THEN "stopping" ELSE "muting") \in Label
  BY DEF Label
<1> QED
  BY <1>4, <1>5 DEF StopTask, TypeOK, TaskTypes, HandTypes, Goto

\* Nor does telling the runs of a fault.
LEMMA CoupleTypes ==
  ASSUME TypeOK, NEW t \in Task, Couple(t)
  PROVE  /\ mark' \in [Run -> [Slot -> Mark]] /\ fault' \in [Run -> Seq(Task)]
         /\ faultAt' \in [Run -> Nat] /\ newer' \in [Task -> SUBSET Run]
<1>1. mark' \in [Run -> [Slot -> Mark]]
  BY DEF Couple, TypeOK, RunTypes, Mark
<1>2. \A r \in Run : fault[r] \in Seq(Task) /\ Append(fault[r], t) \in Seq(Task)
  BY DEF TypeOK, FaultTypes
<1>3. fault' \in [Run -> Seq(Task)]
  BY <1>2 DEF Couple
<1>4. faultAt' \in [Run -> Nat] /\ newer' \in [Task -> SUBSET Run]
  BY DEF Couple, TypeOK, FaultTypes, TaskTypes
<1> QED
  BY <1>1, <1>3, <1>4

\* A fire that was collected is of a task, and marking it keeps the marks.
LEMMA BatchTypes ==
  ASSUME Sound, NEW b \in batch
  PROVE  /\ b.run \in Run /\ b.step \in Slot /\ TaskOf(b.run, b.step) \in Task
         /\ batch \ {b} \subseteq [run : Run, step : Slot, gen : Nat, at : Int]
         /\ \A m \in Mark : SetMark(b, m) => mark' \in [Run -> [Slot -> Mark]]
         /\ Logged(b) => log' \in [Task -> Seq(Run \X Slot)]
<1>1. b.run \in Run /\ b.step \in Slot /\ b.step \in Known(b.run)
  BY DEF Sound, TypeOK, WorkTypes, SlotsInv
<1>2. TaskOf(b.run, b.step) \in Task
  BY <1>1, KnownSteps DEF Sound
<1>3. \A m \in Mark : SetMark(b, m) => mark' \in [Run -> [Slot -> Mark]]
  BY <1>1 DEF SetMark, Sound, TypeOK, RunTypes
<1>4. <<b.run, b.step>> \in Run \X Slot
  BY <1>1
<1>5. Logged(b) => log' \in [Task -> Seq(Run \X Slot)]
  BY <1>2, <1>4 DEF Logged, Sound, TypeOK, TaskTypes
<1> QED
  BY <1>1, <1>2, <1>3, <1>5 DEF Sound, TypeOK, WorkTypes

\* A restart begins with the types it found.
LEMMA RestartTypes ==
  ASSUME TypeOK, NEW c \in Coroutine, NEW r \in Run, NEW how \in {"resync", "replay"},
         NEW label, Restart(c, r, how, label)
  PROVE  FaultTypes' /\ HandTypes' /\ TaskTypes'
<1>1. FaultTypes'
  <2>1. Most({tries[r], Budget}) \in Nat
    <3>1. tries[r] \in Nat /\ Budget \in Nat /\ tries[r] \in Int /\ Budget \in Int
      BY Bounds DEF TypeOK, FaultTypes
    <3>2. Most({tries[r], Budget}) \in {tries[r], Budget}
      BY <3>1, MostOfTwo
    <3> QED
      BY <3>1, <3>2
  <2> QED
    BY <2>1 DEF Restart, Refused, TypeOK, FaultTypes
<1>2. /\ opStop' \in [Task -> BOOLEAN]
      /\ air' \in [Task -> {"off", "starting", "doomed", "on", "leaving"}]
      /\ pc' \in [Coroutine -> Label] /\ then' \in [Coroutine -> Label]
      /\ on' \in [Coroutine -> Task \cup {NoTask}]
  <2>1. CASE StopTask(c, FaultTask(r), "recheck") /\ Restartable(r)
    BY <2>1, StopTypes, Faulty DEF Restartable, Label
  <2>2. CASE \E l \in Label : Goto(c, l) /\ UNCHANGED <<opStop, air, then, on>>
    BY <2>2 DEF Goto, TypeOK, HandTypes, TaskTypes
  <2> QED
    BY <2>1, <2>2 DEF Restart, Refused, Label
<1>3. HandTypes'
  BY <1>2 DEF Restart, TypeOK, HandTypes, FaultTypes
<1>4. TaskTypes'
  BY <1>2 DEF Restart, TypeOK, TaskTypes
<1> QED
  BY <1>1, <1>3, <1>4

\* The loop is a coroutine.
LEMMA LoopRuns == Loop \in Coroutine /\ Caller \subseteq Coroutine /\ Loop \notin Caller
BY NameAssumption DEF Coroutine

\* What a step leaves alone keeps its types.
LEMMA TypesKept ==
  ASSUME TypeOK
  PROVE  /\ UNCHANGED runs => RunTypes'
         /\ UNCHANGED <<faults, restarting>> => FaultTypes'
         /\ UNCHANGED work => WorkTypes'
         /\ UNCHANGED <<pc, hand>> => HandTypes'
         /\ UNCHANGED slots => TaskTypes'
         /\ UNCHANGED <<now, counts>> => now' \in Nat /\ failures' \in Nat /\ crashes' \in Nat
BY DEF TypeOK, RunTypes, FaultTypes, WorkTypes, HandTypes, TaskTypes, runs, faults,
   work, hand,
       slots, counts

\* Every step keeps the types.
LEMMA TypeStep ==
  ASSUME Sound, [Next]_vars
  PROVE  TypeOK'
<1> USE LoopRuns DEF Sound, TypeOK
<1>1. ASSUME NEW r \in Run, Arm(r) PROVE TypeOK'
  <2>1. \A i \in AtArm(r) : i \in Known(r) /\ i \in Slot
    BY PlanSteps DEF AtArm, Known
  <2>2. end' \in [Run -> Nat]
    BY <1>1, PlanSteps, Bounds DEF Arm, RunTypes
  <2>3. \A i \in AtArm(r) : FireAt(r, i, end'[r], 0) \in Int
    BY <2>1, <2>2, FireTimes
  <2>4. at' \in [Run -> [Slot -> Int]]
    BY <1>1, <2>3 DEF Arm, RunTypes
  <2>5. mark' \in [Run -> [Slot -> Mark]]
    BY <1>1 DEF Arm, RunTypes, Mark
  <2>6. RunTypes'
    BY <1>1, <2>2, <2>4, <2>5 DEF Arm, RunState, RunTypes, runs
  <2>7. FaultTypes' /\ WorkTypes' /\ HandTypes' /\ TaskTypes' /\ (now' \in Nat /\ failures' \in Nat /\ crashes' \in Nat)
    BY <1>1, TypesKept DEF Arm
  <2> QED
    BY <2>6, <2>7
<1>2. ASSUME NEW r \in Run, HoldNow(r) PROVE TypeOK'
  <2>1. RunTypes'
    BY <1>2 DEF HoldNow, RunState, Mark, RunTypes, runs
  <2>2. FaultTypes' /\ WorkTypes' /\ HandTypes' /\ TaskTypes' /\ (now' \in Nat /\ failures' \in Nat /\ crashes' \in Nat)
    BY <1>2, TypesKept DEF HoldNow
  <2> QED
    BY <2>1, <2>2
<1>3. ASSUME NEW r \in Run, NEW to \in Ends, Patch(r, to) PROVE TypeOK'
  <2>1. \A i \in Fires(r) : i \in Known(r)
    BY DEF Fires, SlotsInv
  <2>2. to \in Nat
    BY Bounds
  <2>3. \A i \in Fires(r) : FireAt(r, i, to, 0) \in Int
    BY <2>1, <2>2, FireTimes
  <2>4. at' \in [Run -> [Slot -> Int]]
    BY <1>3, <2>3 DEF Patch, RunTypes
  <2>5. mark' \in [Run -> [Slot -> Mark]]
    BY <1>3 DEF Patch, RunTypes, Mark
  <2>6. RunTypes'
    BY <1>3, <2>2, <2>4, <2>5 DEF Patch, RunTypes, runs
  <2>7. FaultTypes' /\ WorkTypes' /\ HandTypes' /\ TaskTypes' /\ (now' \in Nat /\ failures' \in Nat /\ crashes' \in Nat)
    BY <1>3, TypesKept DEF Patch
  <2> QED
    BY <2>6, <2>7
<1>4. ASSUME NEW r \in Run, NEW resume \in {now, now + 1}, Proceed(r, resume) PROVE TypeOK'
  <2> DEFINE to == resume + Content(r)
             B == {i \in Steps(r) : RootBase(r, i) \in {"hold", "stop"}}
  <2>1. resume \in Nat /\ to \in Nat
    BY ContentNatural
  <2>2. \A i \in B : FireAt(r, i, to, resume) \in Int
    <3>1. \A i \in B : i \in Known(r)
      BY DEF Known
    <3> QED
      BY <2>1, <3>1, FireTimes
  <2>3. /\ end' = [end EXCEPT ![r] = to]
        /\ at' = [at EXCEPT ![r] = [i \in Slot |-> IF i \in B THEN FireAt(r, i, to, resume) ELSE @[i]]]
        /\ mark' = [mark EXCEPT ![r] = [i \in Slot |-> IF i \in B THEN "open" ELSE @[i]]]
    BY <1>4 DEF Proceed
  <2> HIDE DEF to, B
  <2>4. end' \in [Run -> Nat]
    BY <2>1, <2>3 DEF RunTypes
  <2>5. at' \in [Run -> [Slot -> Int]]
    BY <2>2, <2>3 DEF RunTypes
  <2>6. mark' \in [Run -> [Slot -> Mark]]
    BY <2>3 DEF RunTypes, Mark
  <2>7. RunTypes'
    BY <1>4, <2>4, <2>5, <2>6 DEF Proceed, RunState, RunTypes, runs
  <2>8. FaultTypes' /\ WorkTypes' /\ HandTypes' /\ TaskTypes' /\ (now' \in Nat /\ failures' \in Nat /\ crashes' \in Nat)
    BY <1>4, TypesKept DEF Proceed
  <2> QED
    BY <2>7, <2>8
<1>5. ASSUME NEW r \in Run, RestartUnattended(r) PROVE TypeOK'
  <2>1. Restart(Loop, r, "resync", "redo")
    BY <1>5 DEF RestartUnattended
  <2>2. FaultTypes'
    BY <2>1, RestartTypes
  <2>3. WorkTypes'
    BY <1>5 DEF RestartUnattended, Restart, WorkTypes, work
  <2>4. HandTypes'
    BY <2>1, RestartTypes
  <2>5. TaskTypes'
    BY <2>1, RestartTypes
  <2>6. RunTypes' /\ (now' \in Nat /\ failures' \in Nat /\ crashes' \in Nat)
    BY <1>5, TypesKept DEF RestartUnattended, Restart
  <2> QED
    BY <2>2, <2>3, <2>4, <2>5, <2>6
<1>6. ASSUME NEW r \in Run, Forgive(r) PROVE TypeOK'
  <2>1. FaultTypes'
    BY <1>6 DEF Forgive, FaultTypes, faults
  <2>2. RunTypes' /\ WorkTypes' /\ HandTypes' /\ TaskTypes' /\ (now' \in Nat /\ failures' \in Nat /\ crashes' \in Nat)
    BY <1>6, TypesKept DEF Forgive
  <2> QED
    BY <2>1, <2>2
<1>7. ASSUME NEW c \in Caller, AbortAll(c) PROVE TypeOK'
  <2>1. WorkTypes'
    BY <1>7 DEF AbortAll, WorkTypes, work
  <2>2. HandTypes'
    BY <1>7 DEF AbortAll, HandTypes, hand, Goto, Label
  <2>3. RunTypes' /\ FaultTypes' /\ TaskTypes' /\ (now' \in Nat /\ failures' \in Nat /\ crashes' \in Nat)
    BY <1>7, TypesKept DEF AbortAll
  <2> QED
    BY <2>1, <2>2, <2>3
<1>8. ASSUME NEW c \in Caller, NEW r \in Run, Cancel(c, r) PROVE TypeOK'
  <2>1. WorkTypes'
    BY <1>8 DEF Cancel, WorkTypes, work
  <2>2. HandTypes'
    BY <1>8 DEF Cancel, HandTypes, hand, Goto, Label
  <2>3. RunTypes' /\ FaultTypes' /\ TaskTypes' /\ (now' \in Nat /\ failures' \in Nat /\ crashes' \in Nat)
    BY <1>8, TypesKept DEF Cancel
  <2> QED
    BY <2>1, <2>2, <2>3
<1>9. ASSUME NEW c \in Caller, NEW r \in Run, NEW how \in Modes, RestartByHand(c, r, how) PROVE TypeOK'
  <2>1. Restart(c, r, how, "idle") /\ how \in {"resync", "replay"}
    BY <1>9, ModeAssumption DEF RestartByHand
  <2>2. FaultTypes'
    BY <2>1, RestartTypes
  <2>3. HandTypes'
    BY <2>1, RestartTypes
  <2>4. TaskTypes'
    BY <2>1, RestartTypes
  <2>5. RunTypes' /\ WorkTypes' /\ (now' \in Nat /\ failures' \in Nat /\ crashes' \in Nat)
    BY <1>9, TypesKept DEF RestartByHand, Restart, work
  <2> QED
    BY <2>2, <2>3, <2>4, <2>5
<1>10. ASSUME NEW c \in Coroutine, Muted(c) PROVE TypeOK'
  <2>1. HandTypes'
    BY <1>10 DEF Muted, HandTypes, hand, Goto, Label
  <2>2. RunTypes' /\ FaultTypes' /\ WorkTypes' /\ TaskTypes' /\ (now' \in Nat /\ failures' \in Nat /\ crashes' \in Nat)
    BY <1>10, TypesKept DEF Muted
  <2> QED
    BY <2>1, <2>2
<1>11. ASSUME NEW c \in Coroutine, Swept(c) PROVE TypeOK'
  <2>1. HandTypes'
    BY <1>11 DEF Swept, HandTypes, hand, Goto, Label
  <2>2. RunTypes' /\ FaultTypes' /\ WorkTypes' /\ TaskTypes' /\ (now' \in Nat /\ failures' \in Nat /\ crashes' \in Nat)
    BY <1>11, TypesKept DEF Swept
  <2> QED
    BY <2>1, <2>2
<1>12. ASSUME NEW c \in Coroutine, RestartRefused(c) PROVE TypeOK'
  <2>1. cur[c] \in Run
    BY <1>12 DEF RestartRefused, At, HandInv, Hand, Restarting
  <2>2. Most({tries[cur[c]], Budget}) \in Nat
    <3>1. /\ tries[cur[c]] \in Nat /\ Budget \in Nat
          /\ tries[cur[c]] \in Int /\ Budget \in Int
      BY <2>1, Bounds DEF FaultTypes
    <3>2. Most({tries[cur[c]], Budget}) \in {tries[cur[c]], Budget}
      BY <3>1, MostOfTwo
    <3> QED
      BY <3>1, <3>2
  <2>3. FaultTypes'
    BY <1>12, <2>1, <2>2 DEF RestartRefused, Refused, FaultTypes, faults
  <2>4. HandTypes'
    BY <1>12 DEF RestartRefused, Refused, HandTypes, hand, Goto, Label
  <2>5. RunTypes' /\ WorkTypes' /\ TaskTypes' /\ (now' \in Nat /\ failures' \in Nat /\ crashes' \in Nat)
    BY <1>12, TypesKept DEF RestartRefused
  <2> QED
    BY <2>3, <2>4, <2>5
<1>13. ASSUME NEW c \in Coroutine, Commit(c) PROVE TypeOK'
  <2> DEFINE r == cur[c]
             s == since[c]
  <2>1. r \in Run /\ s \in Nat /\ on[c] \in Task /\ Restarting(c)
    BY <1>13 DEF Commit, At, HandInv, Hand, Restarting, HandTypes
  <2>2. faultAt[r] \in Nat /\ faultAt[r] <= s /\ end[r] \in Nat /\ mode[c] \in {"resync", "replay"}
    BY <2>1 DEF RestartInv, Mending, RunTypes, FaultTypes, HandTypes
  <2>3. Shift(r, s, mode[c]) \in Nat
    BY <2>1, <2>2 DEF Shift
  <2>4. NewEnd(r, s, mode[c]) \in Nat
    BY <2>2, <2>3, Bounds DEF NewEnd
  <2>5. \A i \in Slot : NewAt(r, s, mode[c])[i] \in Int
    <3> TAKE i \in Slot
    <3>1. at[r][i] \in Int
      BY <2>1 DEF RunTypes
    <3>2. Later(r, i, s, mode[c]) \in Int
      <4> DEFINE x == at[r][i] + Shift(r, s, mode[c])
      <4>1. x \in Int /\ s + 1 \in Int
        BY <2>1, <2>3, <3>1
      <4>2. Most({x, s + 1}) \in {x, s + 1}
        BY <4>1, MostOfTwo
      <4>3. Later(r, i, s, mode[c]) \in {x, s + 1, at[r][i]}
        BY <4>2 DEF Later
      <4> QED
        BY <3>1, <4>1, <4>3
    <3> QED
      BY <3>1, <3>2 DEF NewAt
  <2>6. at' \in [Run -> [Slot -> Int]]
    BY <1>13, <2>1, <2>5 DEF Commit, RunTypes
  <2>7. mark' \in [Run -> [Slot -> Mark]]
    BY <1>13 DEF Commit, RunTypes, Mark
  <2>8. end' \in [Run -> Nat] /\ again' \in [Run -> Task \cup {NoTask}] /\ fault' \in [Run -> Seq(Task)]
    BY <1>13, <2>1, <2>4 DEF Commit, RunTypes, FaultTypes
  <2>9. /\ tries' \in [Run -> Nat] /\ mended' \in [Run -> Task \cup {NoTask}]
        /\ gaveUp' \subseteq Run /\ restarting' \subseteq Run /\ pc' \in [Coroutine -> Label]
    BY <1>13, <2>1 DEF Commit, FaultTypes, HandTypes, Goto, Label
  <2>10. RunTypes'
    BY <1>13, <2>6, <2>7, <2>8 DEF Commit, RunTypes, runs
  <2>11. FaultTypes'
    BY <1>13, <2>8, <2>9 DEF Commit, FaultTypes, faults
  <2>12. HandTypes'
    BY <1>13, <2>9 DEF Commit, HandTypes, hand, Goto, Label
  <2>13. WorkTypes' /\ TaskTypes' /\ (now' \in Nat /\ failures' \in Nat /\ crashes' \in Nat)
    BY <1>13, TypesKept DEF Commit
  <2> QED
    BY <2>10, <2>11, <2>12, <2>13
<1>14. ASSUME NEW c \in Coroutine, NEW r \in Run, Abort(c, r) PROVE TypeOK'
  <2>1. Touched(r) \subseteq Task
    BY KnownSteps DEF Touched, Known
  <2>2. left' \in [Coroutine -> SUBSET ({1, 2} \X Task)]
    BY <1>14, <2>1 DEF Abort, WorkTypes
  <2>3. RunTypes'
    BY <1>14 DEF Abort, RunState, RunTypes, runs
  <2>4. WorkTypes'
    BY <1>14, <2>2 DEF Abort, WorkTypes, work
  <2>5. HandTypes'
    BY <1>14 DEF Abort, HandTypes, hand, Goto, Label
  <2>6. FaultTypes' /\ TaskTypes' /\ (now' \in Nat /\ failures' \in Nat /\ crashes' \in Nat)
    BY <1>14, TypesKept DEF Abort
  <2> QED
    BY <2>3, <2>4, <2>5, <2>6
<1>15. ASSUME NEW c \in Coroutine, NEW n \in {1, 2}, NEW t \in Task, Sweep(c, n, t) PROVE TypeOK'
  <2>1. StopTask(c, t, "sweep") \/ UNCHANGED <<opStop, air, pc, then, on>>
    BY <1>15 DEF Sweep
  <2>2. /\ opStop' \in [Task -> BOOLEAN]
        /\ air' \in [Task -> {"off", "starting", "doomed", "on", "leaving"}]
        /\ pc' \in [Coroutine -> Label] /\ then' \in [Coroutine -> Label]
        /\ on' \in [Coroutine -> Task \cup {NoTask}]
    BY <2>1, StopTypes DEF HandTypes, TaskTypes, Label
  <2>3. WorkTypes'
    BY <1>15 DEF Sweep, WorkTypes, work
  <2>4. HandTypes'
    BY <1>15, <2>2 DEF Sweep, HandTypes, hand, Goto, Label
  <2>5. TaskTypes'
    BY <1>15, <2>2 DEF Sweep, TaskTypes, slots
  <2>6. RunTypes' /\ FaultTypes' /\ (now' \in Nat /\ failures' \in Nat /\ crashes' \in Nat)
    BY <1>15, TypesKept DEF Sweep
  <2> QED
    BY <2>3, <2>4, <2>5, <2>6
<1>16. ASSUME NEW b \in batch, FireSkipped(b) PROVE TypeOK'
  <2>1. batch' \subseteq [run : Run, step : Slot, gen : Nat, at : Int]
    BY <1>16, BatchTypes DEF FireSkipped
  <2>2. WorkTypes'
    BY <1>16, <2>1 DEF FireSkipped, WorkTypes, work
  <2>3. RunTypes' /\ FaultTypes' /\ HandTypes' /\ TaskTypes' /\ (now' \in Nat /\ failures' \in Nat /\ crashes' \in Nat)
    BY <1>16, TypesKept DEF FireSkipped
  <2> QED
    BY <2>2, <2>3
<1>17. ASSUME NEW b \in batch, TuneDeferred(b) PROVE TypeOK'
  <2>1. batch' \subseteq [run : Run, step : Slot, gen : Nat, at : Int]
    BY <1>17, BatchTypes DEF TuneDeferred
  <2>2. WorkTypes'
    BY <1>17, <2>1 DEF TuneDeferred, WorkTypes, work
  <2>3. RunTypes' /\ FaultTypes' /\ HandTypes' /\ TaskTypes' /\ (now' \in Nat /\ failures' \in Nat /\ crashes' \in Nat)
    BY <1>17, TypesKept DEF TuneDeferred
  <2> QED
    BY <2>2, <2>3
<1>18. ASSUME NEW b \in batch, TuneDropped(b) PROVE TypeOK'
  <2>1. mark' \in [Run -> [Slot -> Mark]] /\ batch' \subseteq [run : Run, step : Slot, gen : Nat, at : Int]
    BY <1>18, BatchTypes DEF TuneDropped, Mark
  <2>2. RunTypes'
    BY <1>18, <2>1 DEF TuneDropped, RunTypes, runs
  <2>3. WorkTypes'
    BY <1>18, <2>1 DEF TuneDropped, WorkTypes, work
  <2>4. HandTypes'
    BY <1>18, BatchTypes DEF TuneDropped, HandTypes, hand, Goto, Label
  <2>5. FaultTypes' /\ TaskTypes' /\ (now' \in Nat /\ failures' \in Nat /\ crashes' \in Nat)
    BY <1>18, TypesKept DEF TuneDropped
  <2> QED
    BY <2>2, <2>3, <2>4, <2>5
<1>19. ASSUME NEW b \in batch, Tune(b) PROVE TypeOK'
  <2>1. mark' \in [Run -> [Slot -> Mark]] /\ batch' \subseteq [run : Run, step : Slot, gen : Nat, at : Int]
    BY <1>19, BatchTypes DEF Tune, Take, Mark
  <2>2. b.run \in Run /\ TaskOf(b.run, b.step) \in Task
    BY BatchTypes
  <2>3. RunTypes'
    BY <1>19, <2>1, <2>2 DEF Tune, Take, RunState, RunTypes, runs
  <2>4. WorkTypes'
    BY <1>19, <2>1 DEF Tune, WorkTypes, work
  <2>5. HandTypes'
    BY <1>19, <2>2 DEF Tune, Take, HandTypes, hand, Goto, Label
  <2>6. FaultTypes' /\ TaskTypes' /\ (now' \in Nat /\ failures' \in Nat /\ crashes' \in Nat)
    BY <1>19, TypesKept DEF Tune
  <2> QED
    BY <2>3, <2>4, <2>5, <2>6
<1>20. ASSUME NEW b \in batch, Start(b) PROVE TypeOK'
  <2>1. mark' \in [Run -> [Slot -> Mark]] /\ batch' \subseteq [run : Run, step : Slot, gen : Nat, at : Int]
    BY <1>20, BatchTypes DEF Start, Take, Mark
  <2>2. b.run \in Run /\ TaskOf(b.run, b.step) \in Task
    BY BatchTypes
  <2>3. log' \in [Task -> Seq(Run \X Slot)]
    BY <1>20, BatchTypes DEF Start
  <2>4. RunTypes'
    BY <1>20, <2>1, <2>2 DEF Start, Take, RunState, RunTypes, runs
  <2>5. WorkTypes'
    BY <1>20, <2>1 DEF Start, WorkTypes, work
  <2>6. HandTypes'
    BY <1>20, <2>2 DEF Start, Take, HandTypes, hand, Goto, Label
  <2>7. TaskTypes'
    BY <1>20, <2>2, <2>3 DEF Start, TaskTypes, slots
  <2>8. FaultTypes' /\ (now' \in Nat /\ failures' \in Nat /\ crashes' \in Nat)
    BY <1>20, TypesKept DEF Start
  <2> QED
    BY <2>4, <2>5, <2>6, <2>7, <2>8
<1>21. ASSUME NEW b \in batch, Stop(b) PROVE TypeOK'
  <2>1. mark' \in [Run -> [Slot -> Mark]] /\ batch' \subseteq [run : Run, step : Slot, gen : Nat, at : Int]
    BY <1>21, BatchTypes DEF Stop, Take, Mark
  <2>2. b.run \in Run /\ TaskOf(b.run, b.step) \in Task
    BY BatchTypes
  <2>3. log' \in [Task -> Seq(Run \X Slot)]
    BY <1>21, BatchTypes DEF Stop
  <2>4. /\ opStop' \in [Task -> BOOLEAN]
        /\ air' \in [Task -> {"off", "starting", "doomed", "on", "leaving"}]
        /\ pc' \in [Coroutine -> Label] /\ then' \in [Coroutine -> Label]
        /\ on' \in [Coroutine -> Task \cup {NoTask}]
    BY <1>21, <2>2, StopTypes DEF Stop, Label
  <2>5. RunTypes'
    BY <1>21, <2>1, <2>2 DEF Stop, Take, RunState, RunTypes, runs
  <2>6. WorkTypes'
    BY <1>21, <2>1 DEF Stop, WorkTypes, work
  <2>7. HandTypes'
    BY <1>21, <2>2, <2>4 DEF Stop, Take, HandTypes, hand, Goto, Label
  <2>8. TaskTypes'
    BY <1>21, <2>3, <2>4 DEF Stop, TaskTypes, slots
  <2>9. FaultTypes' /\ (now' \in Nat /\ failures' \in Nat /\ crashes' \in Nat)
    BY <1>21, TypesKept DEF Stop
  <2> QED
    BY <2>5, <2>6, <2>7, <2>8, <2>9
<1>22. ASSUME Tick PROVE TypeOK'
  <2> DEFINE Late(g, r) == {i \in Due(r) : Act(r, i) = "tune" /\ Superseded(r, i, g)}
             When(g, r, i) == IF Act(r, i) = "tune"
                              THEN Most({at[r][j] : j \in Piled(r, i, g) \cup {i}})
                              ELSE at[r][i]
  <2>1. PICK grace \in SUBSET Binding :
          /\ mark' = [r \in Run |-> [i \in Slot |-> IF i \in Late(grace, r) THEN "late" ELSE mark[r][i]]]
          /\ batch' = UNION {{[run |-> r, step |-> i, gen |-> gen[r], at |-> When(grace, r, i)] :
                                i \in Due(r) \ Late(grace, r)} : r \in Run}
    BY <1>22 DEF Tick
  <2>2. mark' \in [Run -> [Slot -> Mark]]
    BY <2>1 DEF RunTypes, Mark
  <2>3. \A r \in Run : \A i \in Due(r) : i \in Slot /\ When(grace, r, i) \in Int
    <3> TAKE r \in Run
    <3> TAKE i \in Due(r)
    <3>1. i \in Slot /\ at[r] \in [1 .. N -> Int] /\ Piled(r, i, grace) \cup {i} \subseteq 1 .. N
      BY DEF Due, Piled, Slot, RunTypes
    <3>2. Most({at[r][j] : j \in Piled(r, i, grace) \cup {i}}) \in Int
      BY <3>1, Bounds, MostOfSlots
    <3> QED
      BY <3>1, <3>2
  <2>4. batch' \subseteq [run : Run, step : Slot, gen : Nat, at : Int]
    <3> HIDE DEF When
    <3>1. \A b \in batch' : \E r \in Run : \E i \in Due(r) :
            b = [run |-> r, step |-> i, gen |-> gen[r], at |-> When(grace, r, i)]
      BY <2>1
    <3>2. \A r \in Run : gen[r] \in Nat
      BY DEF RunTypes
    <3> QED
      BY <2>3, <3>1, <3>2
  <2>5. RunTypes'
    BY <1>22, <2>2 DEF Tick, RunState, RunTypes, runs
  <2>6. WorkTypes'
    BY <1>22, <2>4 DEF Tick, WorkTypes, work
  <2>7. HandTypes'
    BY <1>22 DEF Tick, HandTypes, hand, Goto, Label
  <2>8. FaultTypes' /\ TaskTypes' /\ (now' \in Nat /\ failures' \in Nat /\ crashes' \in Nat)
    BY <1>22, TypesKept DEF Tick
  <2> QED
    BY <2>5, <2>6, <2>7, <2>8
<1>23. ASSUME Tuned PROVE TypeOK'
  <2>1. HandTypes'
    BY <1>23 DEF Tuned, HandTypes, hand, Goto, Label
  <2>2. RunTypes' /\ FaultTypes' /\ WorkTypes' /\ TaskTypes' /\ (now' \in Nat /\ failures' \in Nat /\ crashes' \in Nat)
    BY <1>23, TypesKept DEF Tuned
  <2> QED
    BY <2>1, <2>2
<1>24. ASSUME Unpark PROVE TypeOK'
  <2>1. on[Loop] \in Task
    BY <1>24 DEF Unpark, At, HandInv, Hand, Launching
  <2>2. /\ mark' \in [Run -> [Slot -> Mark]] /\ fault' \in [Run -> Seq(Task)]
        /\ faultAt' \in [Run -> Nat] /\ newer' \in [Task -> SUBSET Run]
    BY <1>24, <2>1, CoupleTypes DEF Unpark, RunTypes, FaultTypes, TaskTypes
  <2>3. RunTypes'
    BY <1>24, <2>2 DEF Unpark, RunTypes, runs
  <2>4. FaultTypes'
    BY <1>24, <2>2 DEF Unpark, FaultTypes, faults
  <2>5. HandTypes'
    BY <1>24 DEF Unpark, HandTypes, hand, Goto, Label
  <2>6. TaskTypes'
    BY <1>24, <2>1, <2>2 DEF Unpark, TaskTypes, slots
  <2>7. (now' \in Nat /\ failures' \in Nat /\ crashes' \in Nat)
    BY <1>24 DEF Unpark, counts
  <2>8. WorkTypes'
    BY <1>24, TypesKept DEF Unpark
  <2> QED
    BY <2>3, <2>4, <2>5, <2>6, <2>7, <2>8
<1>25. ASSUME Exec PROVE TypeOK'
  <2>1. on[Loop] \in Task /\ cur[Loop] \in Run
    BY <1>25 DEF Exec, At, HandInv, Hand, Launching
  <2>2. /\ mark' \in [Run -> [Slot -> Mark]] /\ fault' \in [Run -> Seq(Task)]
        /\ faultAt' \in [Run -> Nat]
    BY <1>25, <2>1, CoupleTypes DEF Exec, RunTypes, FaultTypes
  <2>3. newer' \in [Task -> SUBSET Run]
    <3>1. CASE newer' = [newer EXCEPT ![on[Loop]] = {r \in Run : FaultTask(r) = on[Loop]}]
      BY <3>1 DEF TaskTypes
    <3> QED
      BY <1>25, <2>1, <3>1, CoupleTypes DEF Exec
  <2>4. pc' \in [Coroutine -> Label]
    BY <1>25 DEF Exec, Woken, Goto, HandTypes, Label
  <2>5. /\ air' \in [Task -> {"off", "starting", "doomed", "on", "leaving"}]
        /\ owner' \in [Task -> Run \cup {NoRun}] /\ bound' \in [Task -> BOOLEAN]
        /\ alarm' \in [Task -> {"none", "wedge", "past"}] /\ failures' \in Nat
    <3>1. /\ air' = [air EXCEPT ![on[Loop]] = "on"] \/ air' = [air EXCEPT ![on[Loop]] = "off"]
          /\ owner' = [owner EXCEPT ![on[Loop]] = cur[Loop]] \/ owner' = owner
          /\ bound' = [bound EXCEPT ![on[Loop]] = FALSE] \/ bound' = bound
          /\ \/ alarm' = [alarm EXCEPT ![on[Loop]] = IF @ = "none" THEN @ ELSE "past"]
             \/ alarm' = alarm
          /\ failures' = failures + 1 \/ failures' = failures
      BY <1>25 DEF Exec
    <3>2. /\ air' \in [Task -> {"off", "starting", "doomed", "on", "leaving"}]
          /\ owner' \in [Task -> Run \cup {NoRun}]
      BY <2>1, <3>1 DEF TaskTypes
    <3>3. bound' \in [Task -> BOOLEAN]
      BY <2>1, <3>1 DEF TaskTypes
    <3>4. alarm' \in [Task -> {"none", "wedge", "past"}]
      BY <2>1, <3>1 DEF TaskTypes
    <3> QED
      BY <3>1, <3>2, <3>3, <3>4
  <2>6. RunTypes'
    BY <1>25, <2>2 DEF Exec, RunTypes, runs
  <2>7. FaultTypes'
    BY <1>25, <2>2 DEF Exec, FaultTypes, faults
  <2>8. HandTypes'
    BY <1>25, <2>4 DEF Exec, HandTypes, hand, Goto, Label
  <2>9. TaskTypes'
    BY <1>25, <2>3, <2>5 DEF Exec, TaskTypes, slots
  <2>10. (now' \in Nat /\ failures' \in Nat /\ crashes' \in Nat)
    BY <1>25, <2>5 DEF Exec, counts
  <2>11. WorkTypes'
    BY <1>25, TypesKept DEF Exec
  <2> QED
    BY <2>6, <2>7, <2>8, <2>9, <2>10, <2>11
<1>26. ASSUME Launched PROVE TypeOK'
  <2>1. on[Loop] \in Task
    BY <1>26 DEF Launched, At, HandInv, Hand, Launching
  <2>2. /\ opStop' \in [Task -> BOOLEAN]
        /\ air' \in [Task -> {"off", "starting", "doomed", "on", "leaving"}]
        /\ pc' \in [Coroutine -> Label] /\ then' \in [Coroutine -> Label]
        /\ on' \in [Coroutine -> Task \cup {NoTask}]
    <3>1. CASE StopTask(Loop, on[Loop], "after")
      BY <2>1, <3>1, StopTypes DEF Label
    <3> QED
      BY <1>26, <3>1 DEF Launched, Goto, HandTypes, TaskTypes, Label
  <2>3. HandTypes'
    BY <1>26, <2>2 DEF Launched, HandTypes, hand, Goto, Label
  <2>4. TaskTypes'
    BY <1>26, <2>2 DEF Launched, TaskTypes, slots
  <2>5. RunTypes' /\ FaultTypes' /\ WorkTypes' /\ (now' \in Nat /\ failures' \in Nat /\ crashes' \in Nat)
    BY <1>26, TypesKept DEF Launched
  <2> QED
    BY <2>3, <2>4, <2>5
<1>27. ASSUME After PROVE TypeOK'
  <2>1. RunTypes'
    BY <1>27 DEF After, RunState, RunTypes, runs
  <2>2. HandTypes'
    BY <1>27 DEF After, HandTypes, hand, Goto, Label
  <2>3. FaultTypes' /\ WorkTypes' /\ TaskTypes' /\ (now' \in Nat /\ failures' \in Nat /\ crashes' \in Nat)
    BY <1>27, TypesKept DEF After
  <2> QED
    BY <2>1, <2>2, <2>3
<1>28. ASSUME Holds PROVE TypeOK'
  <2>1. HeldTooLong(since[Loop]) \subseteq Run
    BY DEF HeldTooLong
  <2>2. RunTypes'
    BY <1>28 DEF Holds, HandTypes, RunState, RunTypes, runs
  <2>3. WorkTypes'
    BY <1>28, <2>1 DEF Holds, WorkTypes, work
  <2>4. HandTypes'
    BY <1>28 DEF Holds, HandTypes, hand, Goto, Label
  <2>5. FaultTypes' /\ TaskTypes' /\ (now' \in Nat /\ failures' \in Nat /\ crashes' \in Nat)
    BY <1>28, TypesKept DEF Holds
  <2> QED
    BY <2>2, <2>3, <2>4, <2>5
<1>29. ASSUME Collect PROVE TypeOK'
  <2>1. FaultTypes'
    BY <1>29 DEF Collect, Failed, FaultTypes, faults
  <2>2. WorkTypes'
    BY <1>29 DEF Collect, Failed, WorkTypes, work
  <2>3. HandTypes'
    BY <1>29 DEF Collect, HandTypes, hand, Goto, Label
  <2>4. RunTypes' /\ TaskTypes' /\ (now' \in Nat /\ failures' \in Nat /\ crashes' \in Nat)
    BY <1>29, TypesKept DEF Collect
  <2> QED
    BY <2>1, <2>2, <2>3, <2>4
<1>30. ASSUME Sleep PROVE TypeOK'
  <2>1. HandTypes'
    BY <1>30 DEF Sleep, HandTypes, hand, Goto, Label
  <2>2. RunTypes' /\ FaultTypes' /\ WorkTypes' /\ TaskTypes' /\ (now' \in Nat /\ failures' \in Nat /\ crashes' \in Nat)
    BY <1>30, TypesKept DEF Sleep
  <2> QED
    BY <2>1, <2>2
<1>31. ASSUME NEW t \in Task, Bind(t) PROVE TypeOK'
  <2>1. TaskTypes'
    BY <1>31 DEF Bind, TaskTypes, slots
  <2>2. RunTypes' /\ FaultTypes' /\ WorkTypes' /\ HandTypes' /\ (now' \in Nat /\ failures' \in Nat /\ crashes' \in Nat)
    BY <1>31, TypesKept DEF Bind
  <2> QED
    BY <2>1, <2>2
<1>32. ASSUME NEW t \in Task, Exit(t) PROVE TypeOK'
  <2>1. HandTypes'
    BY <1>32 DEF Exit, Woken, HandTypes, hand, Goto, Label
  <2>2. TaskTypes'
    BY <1>32 DEF Exit, TaskTypes, slots
  <2>3. RunTypes' /\ FaultTypes' /\ WorkTypes' /\ (now' \in Nat /\ failures' \in Nat /\ crashes' \in Nat)
    BY <1>32, TypesKept DEF Exit
  <2> QED
    BY <2>1, <2>2, <2>3
<1>33. ASSUME NEW t \in Task, Fail(t) PROVE TypeOK'
  <2>1. TaskTypes'
    BY <1>33 DEF Fail, TaskTypes, slots
  <2>2. (now' \in Nat /\ failures' \in Nat /\ crashes' \in Nat)
    BY <1>33 DEF Fail, counts
  <2>3. RunTypes' /\ FaultTypes' /\ WorkTypes' /\ HandTypes'
    BY <1>33, TypesKept DEF Fail
  <2> QED
    BY <2>1, <2>2, <2>3
<1>34. ASSUME NEW t \in Task, Alarm(t) PROVE TypeOK'
  <2>1. /\ mark' \in [Run -> [Slot -> Mark]] /\ fault' \in [Run -> Seq(Task)]
        /\ faultAt' \in [Run -> Nat] /\ newer' \in [Task -> SUBSET Run]
    BY <1>34, CoupleTypes DEF Alarm
  <2>2. RunTypes'
    BY <1>34, <2>1 DEF Alarm, RunTypes, runs
  <2>3. FaultTypes'
    BY <1>34, <2>1 DEF Alarm, FaultTypes, faults
  <2>4. TaskTypes'
    BY <1>34, <2>1 DEF Alarm, TaskTypes, slots
  <2>5. WorkTypes' /\ HandTypes' /\ (now' \in Nat /\ failures' \in Nat /\ crashes' \in Nat)
    BY <1>34, TypesKept DEF Alarm
  <2> QED
    BY <2>2, <2>3, <2>4, <2>5
<1>35. ASSUME TimePasses PROVE TypeOK'
  <2>1. (now' \in Nat /\ failures' \in Nat /\ crashes' \in Nat)
    BY <1>35 DEF TimePasses, counts
  <2>2. RunTypes' /\ FaultTypes' /\ WorkTypes' /\ HandTypes' /\ TaskTypes'
    BY <1>35, TypesKept DEF TimePasses
  <2> QED
    BY <2>1, <2>2
<1>36. ASSUME CrashAndRestart PROVE TypeOK'
  <2>1. st' \in [Run -> RunState \cup {"none"}]
    BY <1>36 DEF CrashAndRestart, Reconciled, RunTypes, RunState
  <2>2. RunTypes'
    BY <1>36, <2>1 DEF CrashAndRestart, RunTypes, runs
  <2>3. FaultTypes'
    BY <1>36 DEF CrashAndRestart, FaultTypes, faults
  <2>4. WorkTypes'
    BY <1>36 DEF CrashAndRestart, WorkTypes, work
  <2>5. HandTypes'
    BY <1>36 DEF CrashAndRestart, HandTypes, hand, Goto, Label
  <2>6. TaskTypes'
    BY <1>36 DEF CrashAndRestart, TaskTypes, slots
  <2>7. (now' \in Nat /\ failures' \in Nat /\ crashes' \in Nat)
    BY <1>36 DEF CrashAndRestart, counts
  <2> QED
    BY <2>2, <2>3, <2>4, <2>5, <2>6, <2>7
<1>37. ASSUME UNCHANGED vars PROVE TypeOK'
  BY <1>37, TypesKept DEF vars
<1> HIDE DEF Sound, TypeOK
<1> QED
  BY <1>1, <1>2, <1>3, <1>4, <1>5, <1>6, <1>7, <1>8, <1>9, <1>10, <1>11, <1>12, <1>13,
     <1>14, <1>15, <1>16, <1>17, <1>18, <1>19, <1>20, <1>21, <1>22, <1>23, <1>24, <1>25,
     <1>26, <1>27, <1>28, <1>29, <1>30, <1>31, <1>32, <1>33, <1>34, <1>35, <1>36, <1>37 DEF
     Next

-----------------------------------------------------------------------------
(* Every step keeps what the coroutines have in hand.                      *)

\* So does one that leaves a coroutine's hand alone.
LEMMA HandKept ==
  ASSUME NEW c \in Coroutine, Hand(c), pc'[c] = pc[c], then'[c] = then[c], cur'[c] = cur[c],
         on'[c] = on[c], left'[c] = left[c]
  PROVE  Hand(c)'
BY DEF Hand, Launching, Awaiting, Restarting

\* And one that moves nobody.
LEMMA HandsKept ==
  ASSUME HandInv, UNCHANGED <<pc, hand, left>>
  PROVE  HandInv'
BY HandKept DEF HandInv, hand

\* Every step keeps what the coroutines have in hand.
LEMMA HandStep ==
  ASSUME Sound, [Next]_vars
  PROVE  HandInv'
<1> USE LoopRuns DEF Sound, TypeOK
<1>1. ASSUME NEW r \in Run, Arm(r) PROVE HandInv'
  BY <1>1, HandsKept DEF Arm, hand, work
<1>2. ASSUME NEW r \in Run, HoldNow(r) PROVE HandInv'
  BY <1>2, HandsKept DEF HoldNow, hand, work
<1>3. ASSUME NEW r \in Run, NEW to \in Ends, Patch(r, to) PROVE HandInv'
  BY <1>3, HandsKept DEF Patch, hand, work
<1>4. ASSUME NEW r \in Run, NEW resume \in {now, now + 1}, Proceed(r, resume) PROVE HandInv'
  BY <1>4, HandsKept DEF Proceed, hand, work
<1>5. ASSUME NEW r \in Run, RestartUnattended(r) PROVE HandInv'
  <2>0. Restartable(r) => FaultTask(r) \in Task
    BY Faulty DEF Restartable
  <2>1. ASSUME NEW d \in Coroutine, d # Loop PROVE Hand(d)'
    <3>1. /\ pc'[d] = pc[d] /\ then'[d] = then[d] /\ cur'[d] = cur[d]
          /\ on'[d] = on[d] /\ left'[d] = left[d]
      BY <1>5, <2>1 DEF RestartUnattended, Restart, Refused, StopTask, Goto, hand, work,
         HandTypes, WorkTypes
    <3> QED
      BY <2>1, <3>1, HandKept DEF HandInv
  <2>2. Hand(Loop)'
    BY <2>0, <1>5 DEF RestartUnattended, Restart, Refused, StopTask, Goto, hand, work,
       At, HandInv, Hand, Launching, Awaiting, Restarting, HandTypes, WorkTypes
  <2> QED
    BY <2>1, <2>2 DEF HandInv
<1>6. ASSUME NEW r \in Run, Forgive(r) PROVE HandInv'
  BY <1>6, HandsKept DEF Forgive, hand, work
<1>7. ASSUME NEW c \in Caller, AbortAll(c) PROVE HandInv'
  <2>1. ASSUME NEW d \in Coroutine, d # c PROVE Hand(d)'
    <3>1. /\ pc'[d] = pc[d] /\ then'[d] = then[d] /\ cur'[d] = cur[d]
          /\ on'[d] = on[d] /\ left'[d] = left[d]
      BY <1>7, <2>1 DEF AbortAll, Goto, hand, work, HandTypes, WorkTypes
    <3> QED
      BY <2>1, <3>1, HandKept DEF HandInv
  <2>2. Hand(c)'
    BY <1>7 DEF AbortAll, Goto, hand, work, At, HandInv, Hand, Launching, Awaiting,
       Restarting, HandTypes, WorkTypes
  <2> QED
    BY <2>1, <2>2 DEF HandInv
<1>8. ASSUME NEW c \in Caller, NEW r \in Run, Cancel(c, r) PROVE HandInv'
  <2>1. ASSUME NEW d \in Coroutine, d # c PROVE Hand(d)'
    <3>1. /\ pc'[d] = pc[d] /\ then'[d] = then[d] /\ cur'[d] = cur[d]
          /\ on'[d] = on[d] /\ left'[d] = left[d]
      BY <1>8, <2>1 DEF Cancel, Goto, hand, work, HandTypes, WorkTypes
    <3> QED
      BY <2>1, <3>1, HandKept DEF HandInv
  <2>2. Hand(c)'
    BY <1>8 DEF Cancel, Goto, hand, work, At, HandInv, Hand, Launching, Awaiting,
       Restarting, HandTypes, WorkTypes
  <2> QED
    BY <2>1, <2>2 DEF HandInv
<1>9. ASSUME NEW c \in Caller, NEW r \in Run, NEW how \in Modes, RestartByHand(c, r, how) PROVE HandInv'
  <2>0. Restartable(r) => FaultTask(r) \in Task
    BY Faulty DEF Restartable
  <2>1. ASSUME NEW d \in Coroutine, d # c PROVE Hand(d)'
    <3>1. /\ pc'[d] = pc[d] /\ then'[d] = then[d] /\ cur'[d] = cur[d]
          /\ on'[d] = on[d] /\ left'[d] = left[d]
      BY <1>9, <2>1 DEF RestartByHand, Restart, Refused, StopTask, Goto, hand, work,
         HandTypes, WorkTypes
    <3> QED
      BY <2>1, <3>1, HandKept DEF HandInv
  <2>2. Hand(c)'
    BY <2>0, <1>9 DEF RestartByHand, Restart, Refused, StopTask, Goto, hand, work, At,
       HandInv, Hand, Launching, Awaiting, Restarting, HandTypes, WorkTypes
  <2> QED
    BY <2>1, <2>2 DEF HandInv
<1>10. ASSUME NEW c \in Coroutine, Muted(c) PROVE HandInv'
  <2>1. ASSUME NEW d \in Coroutine, d # c PROVE Hand(d)'
    <3>1. /\ pc'[d] = pc[d] /\ then'[d] = then[d] /\ cur'[d] = cur[d]
          /\ on'[d] = on[d] /\ left'[d] = left[d]
      BY <1>10, <2>1 DEF Muted, Goto, hand, work, HandTypes, WorkTypes
    <3> QED
      BY <2>1, <3>1, HandKept DEF HandInv
  <2>2. Hand(c)'
    BY <1>10 DEF Muted, Goto, hand, work, At, HandInv, Hand, Launching, Awaiting,
       Restarting, HandTypes, WorkTypes
  <2> QED
    BY <2>1, <2>2 DEF HandInv
<1>11. ASSUME NEW c \in Coroutine, Swept(c) PROVE HandInv'
  <2>1. ASSUME NEW d \in Coroutine, d # c PROVE Hand(d)'
    <3>1. /\ pc'[d] = pc[d] /\ then'[d] = then[d] /\ cur'[d] = cur[d]
          /\ on'[d] = on[d] /\ left'[d] = left[d]
      BY <1>11, <2>1 DEF Swept, Goto, hand, work, HandTypes, WorkTypes
    <3> QED
      BY <2>1, <3>1, HandKept DEF HandInv
  <2>2. Hand(c)'
    BY <1>11 DEF Swept, Goto, hand, work, At, HandInv, Hand, Launching, Awaiting,
       Restarting, HandTypes, WorkTypes
  <2> QED
    BY <2>1, <2>2 DEF HandInv
<1>12. ASSUME NEW c \in Coroutine, RestartRefused(c) PROVE HandInv'
  <2>1. ASSUME NEW d \in Coroutine, d # c PROVE Hand(d)'
    <3>1. /\ pc'[d] = pc[d] /\ then'[d] = then[d] /\ cur'[d] = cur[d]
          /\ on'[d] = on[d] /\ left'[d] = left[d]
      BY <1>12, <2>1 DEF RestartRefused, Refused, Goto, hand, work, HandTypes, WorkTypes
    <3> QED
      BY <2>1, <3>1, HandKept DEF HandInv
  <2>2. Hand(c)'
    BY <1>12 DEF RestartRefused, Refused, Goto, hand, work, At, HandInv, Hand,
       Launching, Awaiting, Restarting, HandTypes, WorkTypes
  <2> QED
    BY <2>1, <2>2 DEF HandInv
<1>13. ASSUME NEW c \in Coroutine, Commit(c) PROVE HandInv'
  <2>1. ASSUME NEW d \in Coroutine, d # c PROVE Hand(d)'
    <3>1. /\ pc'[d] = pc[d] /\ then'[d] = then[d] /\ cur'[d] = cur[d]
          /\ on'[d] = on[d] /\ left'[d] = left[d]
      BY <1>13, <2>1 DEF Commit, Goto, hand, work, HandTypes, WorkTypes
    <3> QED
      BY <2>1, <3>1, HandKept DEF HandInv
  <2>2. Hand(c)'
    BY <1>13 DEF Commit, Goto, hand, work, At, HandInv, Hand, Launching, Awaiting,
       Restarting, HandTypes, WorkTypes
  <2> QED
    BY <2>1, <2>2 DEF HandInv
<1>14. ASSUME NEW c \in Coroutine, NEW r \in Run, Abort(c, r) PROVE HandInv'
  <2>1. ASSUME NEW d \in Coroutine, d # c PROVE Hand(d)'
    <3>1. /\ pc'[d] = pc[d] /\ then'[d] = then[d] /\ cur'[d] = cur[d]
          /\ on'[d] = on[d] /\ left'[d] = left[d]
      BY <1>14, <2>1 DEF Abort, Goto, hand, work, HandTypes, WorkTypes
    <3> QED
      BY <2>1, <3>1, HandKept DEF HandInv
  <2>2. Hand(c)'
    BY <1>14 DEF Abort, Goto, hand, work, At, HandInv, Hand, Launching, Awaiting,
       Restarting, HandTypes, WorkTypes
  <2> QED
    BY <2>1, <2>2 DEF HandInv
<1>15. ASSUME NEW c \in Coroutine, NEW n \in {1, 2}, NEW t \in Task, Sweep(c, n, t) PROVE HandInv'
  <2>1. ASSUME NEW d \in Coroutine, d # c PROVE Hand(d)'
    <3>1. /\ pc'[d] = pc[d] /\ then'[d] = then[d] /\ cur'[d] = cur[d]
          /\ on'[d] = on[d] /\ left'[d] = left[d]
      BY <1>15, <2>1 DEF Sweep, StopTask, Goto, hand, work, HandTypes, WorkTypes
    <3> QED
      BY <2>1, <3>1, HandKept DEF HandInv
  <2>2. Hand(c)'
    BY <1>15 DEF Sweep, StopTask, Goto, hand, work, At, HandInv, Hand, Launching,
       Awaiting, Restarting, HandTypes, WorkTypes
  <2> QED
    BY <2>1, <2>2 DEF HandInv
<1>16. ASSUME NEW b \in batch, FireSkipped(b) PROVE HandInv'
  BY <1>16, HandsKept DEF FireSkipped, hand, work
<1>17. ASSUME NEW b \in batch, TuneDeferred(b) PROVE HandInv'
  BY <1>17, HandsKept DEF TuneDeferred, hand, work
<1>18. ASSUME NEW b \in batch, TuneDropped(b) PROVE HandInv'
  <2>0. b.run \in Run /\ TaskOf(b.run, b.step) \in Task
    BY BatchTypes
  <2>1. ASSUME NEW d \in Coroutine, d # Loop PROVE Hand(d)'
    <3>1. /\ pc'[d] = pc[d] /\ then'[d] = then[d] /\ cur'[d] = cur[d]
          /\ on'[d] = on[d] /\ left'[d] = left[d]
      BY <1>18, <2>1 DEF TuneDropped, Goto, hand, work, HandTypes, WorkTypes
    <3> QED
      BY <2>1, <3>1, HandKept DEF HandInv
  <2>2. Hand(Loop)'
    BY <2>0, <1>18 DEF TuneDropped, Goto, hand, work, At, HandInv, Hand, Launching,
       Awaiting, Restarting, HandTypes, WorkTypes
  <2> QED
    BY <2>1, <2>2 DEF HandInv
<1>19. ASSUME NEW b \in batch, Tune(b) PROVE HandInv'
  <2>0. b.run \in Run /\ TaskOf(b.run, b.step) \in Task
    BY BatchTypes
  <2>1. ASSUME NEW d \in Coroutine, d # Loop PROVE Hand(d)'
    <3>1. /\ pc'[d] = pc[d] /\ then'[d] = then[d] /\ cur'[d] = cur[d]
          /\ on'[d] = on[d] /\ left'[d] = left[d]
      BY <1>19, <2>1 DEF Tune, Take, Goto, hand, work, HandTypes, WorkTypes
    <3> QED
      BY <2>1, <3>1, HandKept DEF HandInv
  <2>2. Hand(Loop)'
    BY <2>0, <1>19 DEF Tune, Take, Goto, hand, work, At, HandInv, Hand, Launching,
       Awaiting, Restarting, HandTypes, WorkTypes
  <2> QED
    BY <2>1, <2>2 DEF HandInv
<1>20. ASSUME NEW b \in batch, Start(b) PROVE HandInv'
  <2>0. b.run \in Run /\ TaskOf(b.run, b.step) \in Task
    BY BatchTypes
  <2>1. ASSUME NEW d \in Coroutine, d # Loop PROVE Hand(d)'
    <3>1. /\ pc'[d] = pc[d] /\ then'[d] = then[d] /\ cur'[d] = cur[d]
          /\ on'[d] = on[d] /\ left'[d] = left[d]
      BY <1>20, <2>1 DEF Start, Take, Goto, hand, work, HandTypes, WorkTypes
    <3> QED
      BY <2>1, <3>1, HandKept DEF HandInv
  <2>2. Hand(Loop)'
    BY <2>0, <1>20 DEF Start, Take, Goto, hand, work, At, HandInv, Hand, Launching,
       Awaiting, Restarting, HandTypes, WorkTypes
  <2> QED
    BY <2>1, <2>2 DEF HandInv
<1>21. ASSUME NEW b \in batch, Stop(b) PROVE HandInv'
  <2>0. b.run \in Run /\ TaskOf(b.run, b.step) \in Task
    BY BatchTypes
  <2>1. ASSUME NEW d \in Coroutine, d # Loop PROVE Hand(d)'
    <3>1. /\ pc'[d] = pc[d] /\ then'[d] = then[d] /\ cur'[d] = cur[d]
          /\ on'[d] = on[d] /\ left'[d] = left[d]
      BY <1>21, <2>1 DEF Stop, StopTask, Take, Goto, hand, work, HandTypes, WorkTypes
    <3> QED
      BY <2>1, <3>1, HandKept DEF HandInv
  <2>2. Hand(Loop)'
    BY <2>0, <1>21 DEF Stop, StopTask, Take, Goto, hand, work, At, HandInv, Hand,
       Launching, Awaiting, Restarting, HandTypes, WorkTypes
  <2> QED
    BY <2>1, <2>2 DEF HandInv
<1>22. ASSUME Tick PROVE HandInv'
  <2>1. ASSUME NEW d \in Coroutine, d # Loop PROVE Hand(d)'
    <3>1. /\ pc'[d] = pc[d] /\ then'[d] = then[d] /\ cur'[d] = cur[d]
          /\ on'[d] = on[d] /\ left'[d] = left[d]
      BY <1>22, <2>1 DEF Tick, Goto, hand, work, HandTypes, WorkTypes
    <3> QED
      BY <2>1, <3>1, HandKept DEF HandInv
  <2>2. Hand(Loop)'
    BY <1>22 DEF Tick, Goto, hand, work, At, HandInv, Hand, Launching, Awaiting,
       Restarting, HandTypes, WorkTypes
  <2> QED
    BY <2>1, <2>2 DEF HandInv
<1>23. ASSUME Tuned PROVE HandInv'
  <2>1. ASSUME NEW d \in Coroutine, d # Loop PROVE Hand(d)'
    <3>1. /\ pc'[d] = pc[d] /\ then'[d] = then[d] /\ cur'[d] = cur[d]
          /\ on'[d] = on[d] /\ left'[d] = left[d]
      BY <1>23, <2>1 DEF Tuned, Goto, hand, work, HandTypes, WorkTypes
    <3> QED
      BY <2>1, <3>1, HandKept DEF HandInv
  <2>2. Hand(Loop)'
    BY <1>23 DEF Tuned, Goto, hand, work, At, HandInv, Hand, Launching, Awaiting,
       Restarting, HandTypes, WorkTypes
  <2> QED
    BY <2>1, <2>2 DEF HandInv
<1>24. ASSUME Unpark PROVE HandInv'
  <2>1. ASSUME NEW d \in Coroutine, d # Loop PROVE Hand(d)'
    <3>1. /\ pc'[d] = pc[d] /\ then'[d] = then[d] /\ cur'[d] = cur[d]
          /\ on'[d] = on[d] /\ left'[d] = left[d]
      BY <1>24, <2>1 DEF Unpark, Goto, hand, work, HandTypes, WorkTypes
    <3> QED
      BY <2>1, <3>1, HandKept DEF HandInv
  <2>2. Hand(Loop)'
    BY <1>24 DEF Unpark, Goto, hand, work, At, HandInv, Hand, Launching, Awaiting,
       Restarting, HandTypes, WorkTypes
  <2> QED
    BY <2>1, <2>2 DEF HandInv
<1>25. ASSUME Exec PROVE HandInv'
  <2>1. ASSUME NEW d \in Coroutine PROVE Hand(d)'
    <3>1. then'[d] = then[d] /\ cur'[d] = cur[d] /\ on'[d] = on[d] /\ left'[d] = left[d]
      BY <1>25 DEF Exec, hand, work
    <3>2. pc[Loop] = "exec"
      BY <1>25 DEF Exec, At
    <3>3. CASE d = Loop
      <4>1. pc'[d] = "launched"
        BY <1>25, <3>3 DEF Exec, Goto, Woken, HandTypes
      <4> QED
        BY <3>1, <3>2, <3>3, <4>1 DEF HandInv, Hand, Launching, Awaiting, Restarting
    <3>4. CASE d # Loop /\ pc'[d] = pc[d]
      BY <3>1, <3>4, HandKept DEF HandInv
    <3>5. CASE d # Loop /\ pc[d] = "stopping" /\ pc'[d] = "muting"
      BY <3>1, <3>5 DEF HandInv, Hand, Launching, Awaiting, Restarting
    <3> QED
      BY <1>25, <3>3, <3>4, <3>5 DEF Exec, Goto, Woken, HandTypes
  <2> QED
    BY <2>1 DEF HandInv
<1>26. ASSUME Launched PROVE HandInv'
  <2>1. ASSUME NEW d \in Coroutine, d # Loop PROVE Hand(d)'
    <3>1. /\ pc'[d] = pc[d] /\ then'[d] = then[d] /\ cur'[d] = cur[d]
          /\ on'[d] = on[d] /\ left'[d] = left[d]
      BY <1>26, <2>1 DEF Launched, StopTask, Goto, hand, work, HandTypes, WorkTypes
    <3> QED
      BY <2>1, <3>1, HandKept DEF HandInv
  <2>2. Hand(Loop)'
    BY <1>26 DEF Launched, StopTask, Goto, hand, work, At, HandInv, Hand, Launching,
       Awaiting, Restarting, HandTypes, WorkTypes
  <2> QED
    BY <2>1, <2>2 DEF HandInv
<1>27. ASSUME After PROVE HandInv'
  <2>1. ASSUME NEW d \in Coroutine, d # Loop PROVE Hand(d)'
    <3>1. /\ pc'[d] = pc[d] /\ then'[d] = then[d] /\ cur'[d] = cur[d]
          /\ on'[d] = on[d] /\ left'[d] = left[d]
      BY <1>27, <2>1 DEF After, Goto, hand, work, HandTypes, WorkTypes
    <3> QED
      BY <2>1, <3>1, HandKept DEF HandInv
  <2>2. Hand(Loop)'
    BY <1>27 DEF After, Goto, hand, work, At, HandInv, Hand, Launching, Awaiting,
       Restarting, HandTypes, WorkTypes
  <2> QED
    BY <2>1, <2>2 DEF HandInv
<1>28. ASSUME Holds PROVE HandInv'
  <2>1. ASSUME NEW d \in Coroutine, d # Loop PROVE Hand(d)'
    <3>1. /\ pc'[d] = pc[d] /\ then'[d] = then[d] /\ cur'[d] = cur[d]
          /\ on'[d] = on[d] /\ left'[d] = left[d]
      BY <1>28, <2>1 DEF Holds, Goto, hand, work, HandTypes, WorkTypes
    <3> QED
      BY <2>1, <3>1, HandKept DEF HandInv
  <2>2. Hand(Loop)'
    BY <1>28 DEF Holds, Goto, hand, work, At, HandInv, Hand, Launching, Awaiting,
       Restarting, HandTypes, WorkTypes
  <2> QED
    BY <2>1, <2>2 DEF HandInv
<1>29. ASSUME Collect PROVE HandInv'
  <2>1. ASSUME NEW d \in Coroutine, d # Loop PROVE Hand(d)'
    <3>1. /\ pc'[d] = pc[d] /\ then'[d] = then[d] /\ cur'[d] = cur[d]
          /\ on'[d] = on[d] /\ left'[d] = left[d]
      BY <1>29, <2>1 DEF Collect, Goto, hand, work, HandTypes, WorkTypes
    <3> QED
      BY <2>1, <3>1, HandKept DEF HandInv
  <2>2. Hand(Loop)'
    BY <1>29 DEF Collect, Goto, hand, work, At, HandInv, Hand, Launching, Awaiting,
       Restarting, HandTypes, WorkTypes
  <2> QED
    BY <2>1, <2>2 DEF HandInv
<1>30. ASSUME Sleep PROVE HandInv'
  <2>1. ASSUME NEW d \in Coroutine, d # Loop PROVE Hand(d)'
    <3>1. /\ pc'[d] = pc[d] /\ then'[d] = then[d] /\ cur'[d] = cur[d]
          /\ on'[d] = on[d] /\ left'[d] = left[d]
      BY <1>30, <2>1 DEF Sleep, Goto, hand, work, HandTypes, WorkTypes
    <3> QED
      BY <2>1, <3>1, HandKept DEF HandInv
  <2>2. Hand(Loop)'
    BY <1>30 DEF Sleep, Goto, hand, work, At, HandInv, Hand, Launching, Awaiting,
       Restarting, HandTypes, WorkTypes
  <2> QED
    BY <2>1, <2>2 DEF HandInv
<1>31. ASSUME NEW t \in Task, Bind(t) PROVE HandInv'
  BY <1>31, HandsKept DEF Bind, hand, work
<1>32. ASSUME NEW t \in Task, Exit(t) PROVE HandInv'
  <2>1. ASSUME NEW d \in Coroutine PROVE Hand(d)'
    <3>1. then'[d] = then[d] /\ cur'[d] = cur[d] /\ on'[d] = on[d] /\ left'[d] = left[d]
      BY <1>32 DEF Exit, hand, work
    <3>2. CASE pc'[d] = pc[d]
      BY <3>1, <3>2, HandKept DEF HandInv
    <3>3. CASE pc[d] = "stopping" /\ pc'[d] = "muting"
      BY <3>1, <3>3 DEF HandInv, Hand, Launching, Awaiting, Restarting
    <3> QED
      BY <1>32, <3>2, <3>3 DEF Exit, Woken
  <2> QED
    BY <2>1 DEF HandInv
<1>33. ASSUME NEW t \in Task, Fail(t) PROVE HandInv'
  BY <1>33, HandsKept DEF Fail, hand, work
<1>34. ASSUME NEW t \in Task, Alarm(t) PROVE HandInv'
  BY <1>34, HandsKept DEF Alarm, hand, work
<1>35. ASSUME TimePasses PROVE HandInv'
  BY <1>35, HandsKept DEF TimePasses, hand, work
<1>36. ASSUME CrashAndRestart PROVE HandInv'
  <2>1. ASSUME NEW d \in Coroutine PROVE Hand(d)'
    <3>1. /\ then'[d] = then[d] /\ pc'[d] \in {"idle", "done"} /\ left'[d] = {}
      BY <1>36 DEF CrashAndRestart, hand
    <3> QED
      BY <3>1 DEF HandInv, Hand, Launching, Awaiting, Restarting
  <2> QED
    BY <2>1 DEF HandInv
<1>37. ASSUME UNCHANGED vars PROVE HandInv'
  BY <1>37, HandsKept DEF vars, work
<1> HIDE DEF Sound, TypeOK
<1> QED
  BY <1>1, <1>2, <1>3, <1>4, <1>5, <1>6, <1>7, <1>8, <1>9, <1>10, <1>11, <1>12, <1>13,
     <1>14, <1>15, <1>16, <1>17, <1>18, <1>19, <1>20, <1>21, <1>22, <1>23, <1>24, <1>25,
     <1>26, <1>27, <1>28, <1>29, <1>30, <1>31, <1>32, <1>33, <1>34, <1>35, <1>36, <1>37 DEF
     Next

-----------------------------------------------------------------------------
(* Every step keeps the slots, the clock and the restarts.                 *)

\* A slot that is known stays known while the run has its relaunch.
LEMMA KnownKept ==
  ASSUME NEW r \in Run, again'[r] = again[r]
  PROVE  Known(r)' = Known(r)
BY DEF Known, Steps

\* What neither marks a slot nor collects one keeps the slots.
LEMMA SlotsKept ==
  ASSUME SlotsInv, batch \subseteq [run : Run, step : Slot, gen : Nat, at : Int],
         \A r \in Run : again'[r] = again[r], batch' \subseteq batch,
         \A r \in Run, i \in Slot : mark'[r][i] # "unset" => mark[r][i] # "unset"
  PROVE  SlotsInv'
<1>1. \A r \in Run : Known(r)' = Known(r)
  BY KnownKept
<1>2. \A b \in batch : b.run \in Run
  OBVIOUS
<1> QED
  BY <1>1, <1>2 DEF SlotsInv

\* No step marks or collects an unknown slot.
LEMMA SlotsStep ==
  ASSUME Sound, [Next]_vars
  PROVE  SlotsInv'
<1> USE LoopRuns DEF Sound, TypeOK
<1>1. ASSUME NEW r \in Run, Arm(r) PROVE SlotsInv'
  <2>1. again' = again /\ batch' = batch
    BY <1>1 DEF Arm, faults, work
  <2>2. \A q \in Run : Known(q)' = Known(q)
    BY <2>1, KnownKept
  <2>3. \A q \in Run, i \in Slot : mark'[q][i] # "unset" => i \in Steps(q) \/ mark[q][i] # "unset"
    BY <1>1 DEF Arm, RunTypes, AtArm
  <2>4. \A q \in Run, i \in Slot : mark'[q][i] # "unset" => i \in Known(q)
    BY <2>3 DEF SlotsInv, Known
  <2>5. \A e \in batch : e.run \in Run
    BY DEF WorkTypes
  <2> QED
    BY <2>1, <2>2, <2>4, <2>5 DEF SlotsInv
<1>2. ASSUME NEW r \in Run, HoldNow(r) PROVE SlotsInv'
  <2>1. \A q \in Run : again'[q] = again[q]
    BY <1>2 DEF HoldNow, faults
  <2>2. batch' \subseteq batch
    BY <1>2 DEF HoldNow, work
  <2>3. \A q \in Run, i \in Slot : mark'[q][i] # "unset" => mark[q][i] # "unset"
    BY <1>2 DEF HoldNow, runs, faults, work, RunTypes
  <2> QED
    BY <2>1, <2>2, <2>3, SlotsKept DEF WorkTypes
<1>3. ASSUME NEW r \in Run, NEW to \in Ends, Patch(r, to) PROVE SlotsInv'
  <2>1. again' = again /\ batch' = batch
    BY <1>3 DEF Patch, faults, work
  <2>2. \A q \in Run : Known(q)' = Known(q)
    BY <2>1, KnownKept
  <2>3. \A q \in Run, i \in Slot : mark'[q][i] # "unset" => i \in Steps(q) \/ mark[q][i] # "unset"
    BY <1>3 DEF Patch, RunTypes
  <2>4. \A q \in Run, i \in Slot : mark'[q][i] # "unset" => i \in Known(q)
    BY <2>3 DEF SlotsInv, Known
  <2>5. \A e \in batch : e.run \in Run
    BY DEF WorkTypes
  <2> QED
    BY <2>1, <2>2, <2>4, <2>5 DEF SlotsInv
<1>4. ASSUME NEW r \in Run, NEW resume \in {now, now + 1}, Proceed(r, resume) PROVE SlotsInv'
  <2>1. again' = again /\ batch' = batch
    BY <1>4 DEF Proceed, faults, work
  <2>2. \A q \in Run : Known(q)' = Known(q)
    BY <2>1, KnownKept
  <2>3. \A q \in Run, i \in Slot : mark'[q][i] # "unset" => i \in Steps(q) \/ mark[q][i] # "unset"
    BY <1>4 DEF Proceed, RunTypes
  <2>4. \A q \in Run, i \in Slot : mark'[q][i] # "unset" => i \in Known(q)
    BY <2>3 DEF SlotsInv, Known
  <2>5. \A e \in batch : e.run \in Run
    BY DEF WorkTypes
  <2> QED
    BY <2>1, <2>2, <2>4, <2>5 DEF SlotsInv
<1>5. ASSUME NEW r \in Run, RestartUnattended(r) PROVE SlotsInv'
  BY <1>5, SlotsKept DEF RestartUnattended, Restart, runs, faults, work, WorkTypes
<1>6. ASSUME NEW r \in Run, Forgive(r) PROVE SlotsInv'
  BY <1>6, SlotsKept DEF Forgive, runs, faults, work, WorkTypes
<1>7. ASSUME NEW c \in Caller, AbortAll(c) PROVE SlotsInv'
  BY <1>7, SlotsKept DEF AbortAll, runs, faults, work, WorkTypes
<1>8. ASSUME NEW c \in Caller, NEW r \in Run, Cancel(c, r) PROVE SlotsInv'
  BY <1>8, SlotsKept DEF Cancel, runs, faults, work, WorkTypes
<1>9. ASSUME NEW c \in Caller, NEW r \in Run, NEW how \in Modes, RestartByHand(c, r, how) PROVE SlotsInv'
  BY <1>9, SlotsKept DEF RestartByHand, Restart, runs, faults, work, WorkTypes
<1>10. ASSUME NEW c \in Coroutine, Muted(c) PROVE SlotsInv'
  BY <1>10, SlotsKept DEF Muted, runs, faults, work, WorkTypes
<1>11. ASSUME NEW c \in Coroutine, Swept(c) PROVE SlotsInv'
  BY <1>11, SlotsKept DEF Swept, runs, faults, work, WorkTypes
<1>12. ASSUME NEW c \in Coroutine, RestartRefused(c) PROVE SlotsInv'
  BY <1>12, SlotsKept DEF RestartRefused, runs, faults, work, WorkTypes
<1>13. ASSUME NEW c \in Coroutine, Commit(c) PROVE SlotsInv'
  <2> DEFINE q == cur[c]
  <2>1. q \in Run /\ on[c] \in Task
    BY <1>13 DEF Commit, At, HandInv, Hand, Restarting
  <2>2. batch' = batch
    BY <1>13 DEF Commit, work
  <2>3. \A r \in Run : again'[r] = again[r] \/ (r = q /\ again'[r] = on[c])
    BY <1>13 DEF Commit, FaultTypes
  <2>4. \A r \in Run : Known(r) \subseteq Known(r)'
    BY <2>1, <2>3, NameAssumption DEF Known, Steps
  <2>5. \A r \in Run, i \in Slot :
          mark'[r][i] # "unset" => mark[r][i] # "unset" \/ (r = q /\ i = N /\ again'[r] = on[c])
    <3> TAKE r \in Run, i \in Slot
    <3>1. CASE r # q
      BY <1>13, <2>1, <3>1 DEF Commit, RunTypes
    <3>2. CASE r = q
      <4>1. CASE i = N /\ ~ScheduledOff(r, since[c], mode[c])
        BY <1>13, <2>1, <3>2, <4>1 DEF Commit, FaultTypes
      <4>2. CASE i \in Reinstated(r, since[c], mode[c])
        BY <4>2 DEF Reinstated
      <4>3. CASE ~(i = N /\ ~ScheduledOff(r, since[c], mode[c])) /\ i \notin Reinstated(r, since[c], mode[c])
        BY <1>13, <2>1, <3>2, <4>3 DEF Commit, RunTypes
      <4> QED
        BY <4>1, <4>2, <4>3
    <3> QED
      BY <3>1, <3>2
  <2>6. \A r \in Run, i \in Slot : mark'[r][i] # "unset" => i \in Known(r)'
    <3> TAKE r \in Run, i \in Slot
    <3> HAVE mark'[r][i] # "unset"
    <3>1. CASE mark[r][i] # "unset"
      BY <2>4, <3>1 DEF SlotsInv
    <3>2. CASE r = q /\ i = N /\ again'[r] = on[c]
      BY <2>1, <3>2, NameAssumption DEF Known
    <3> QED
      BY <2>5, <3>1, <3>2
  <2>7. \A b \in batch : b.run \in Run
    BY DEF WorkTypes
  <2> QED
    BY <2>2, <2>4, <2>6, <2>7 DEF SlotsInv
<1>14. ASSUME NEW c \in Coroutine, NEW r \in Run, Abort(c, r) PROVE SlotsInv'
  BY <1>14, SlotsKept DEF Abort, runs, faults, work, WorkTypes
<1>15. ASSUME NEW c \in Coroutine, NEW n \in {1, 2}, NEW t \in Task, Sweep(c, n, t) PROVE SlotsInv'
  BY <1>15, SlotsKept DEF Sweep, runs, faults, work, WorkTypes
<1>16. ASSUME NEW b \in batch, FireSkipped(b) PROVE SlotsInv'
  BY <1>16, SlotsKept DEF FireSkipped, runs, faults, work, WorkTypes
<1>17. ASSUME NEW b \in batch, TuneDeferred(b) PROVE SlotsInv'
  BY <1>17, SlotsKept DEF TuneDeferred, runs, faults, work, WorkTypes
<1>18. ASSUME NEW b \in batch, TuneDropped(b) PROVE SlotsInv'
  <2>1. b.run \in Run /\ b.step \in Slot /\ b.step \in Known(b.run)
    BY BatchTypes DEF SlotsInv
  <2>2. \A r \in Run : again'[r] = again[r]
    BY <1>18 DEF TuneDropped, SetMark, faults
  <2>3. batch' \subseteq batch
    BY <1>18 DEF TuneDropped, SetMark
  <2>4. \A r \in Run, i \in Slot : mark'[r][i] # "unset" => i \in Known(r)
    <3> TAKE r \in Run, i \in Slot
    <3>1. CASE r = b.run /\ i = b.step
      BY <2>1, <3>1
    <3>2. CASE mark'[r][i] = mark[r][i]
      BY <3>2 DEF SlotsInv
    <3> QED
      BY <1>18, <3>1, <3>2 DEF TuneDropped, SetMark, RunTypes
  <2>5. \A r \in Run : Known(r)' = Known(r)
    BY <2>2, KnownKept
  <2>6. \A e \in batch' : e \in batch /\ e.run \in Run
    BY <2>3 DEF WorkTypes
  <2> QED
    BY <2>4, <2>5, <2>6 DEF SlotsInv
<1>19. ASSUME NEW b \in batch, Tune(b) PROVE SlotsInv'
  <2>1. b.run \in Run /\ b.step \in Slot /\ b.step \in Known(b.run)
    BY BatchTypes DEF SlotsInv
  <2>2. \A r \in Run : again'[r] = again[r]
    BY <1>19 DEF Tune, Take, SetMark, faults
  <2>3. batch' \subseteq batch
    BY <1>19 DEF Tune, Take, SetMark
  <2>4. \A r \in Run, i \in Slot : mark'[r][i] # "unset" => i \in Known(r)
    <3> TAKE r \in Run, i \in Slot
    <3>1. CASE r = b.run /\ i = b.step
      BY <2>1, <3>1
    <3>2. CASE mark'[r][i] = mark[r][i]
      BY <3>2 DEF SlotsInv
    <3> QED
      BY <1>19, <3>1, <3>2 DEF Tune, Take, SetMark, RunTypes
  <2>5. \A r \in Run : Known(r)' = Known(r)
    BY <2>2, KnownKept
  <2>6. \A e \in batch' : e \in batch /\ e.run \in Run
    BY <2>3 DEF WorkTypes
  <2> QED
    BY <2>4, <2>5, <2>6 DEF SlotsInv
<1>20. ASSUME NEW b \in batch, Start(b) PROVE SlotsInv'
  <2>1. b.run \in Run /\ b.step \in Slot /\ b.step \in Known(b.run)
    BY BatchTypes DEF SlotsInv
  <2>2. \A r \in Run : again'[r] = again[r]
    BY <1>20 DEF Start, Take, SetMark, faults
  <2>3. batch' \subseteq batch
    BY <1>20 DEF Start, Take, SetMark
  <2>4. \A r \in Run, i \in Slot : mark'[r][i] # "unset" => i \in Known(r)
    <3> TAKE r \in Run, i \in Slot
    <3>1. CASE r = b.run /\ i = b.step
      BY <2>1, <3>1
    <3>2. CASE mark'[r][i] = mark[r][i]
      BY <3>2 DEF SlotsInv
    <3> QED
      BY <1>20, <3>1, <3>2 DEF Start, Take, SetMark, RunTypes
  <2>5. \A r \in Run : Known(r)' = Known(r)
    BY <2>2, KnownKept
  <2>6. \A e \in batch' : e \in batch /\ e.run \in Run
    BY <2>3 DEF WorkTypes
  <2> QED
    BY <2>4, <2>5, <2>6 DEF SlotsInv
<1>21. ASSUME NEW b \in batch, Stop(b) PROVE SlotsInv'
  <2>1. b.run \in Run /\ b.step \in Slot /\ b.step \in Known(b.run)
    BY BatchTypes DEF SlotsInv
  <2>2. \A r \in Run : again'[r] = again[r]
    BY <1>21 DEF Stop, Take, SetMark, faults
  <2>3. batch' \subseteq batch
    BY <1>21 DEF Stop, Take, SetMark
  <2>4. \A r \in Run, i \in Slot : mark'[r][i] # "unset" => i \in Known(r)
    <3> TAKE r \in Run, i \in Slot
    <3>1. CASE r = b.run /\ i = b.step
      BY <2>1, <3>1
    <3>2. CASE mark'[r][i] = mark[r][i]
      BY <3>2 DEF SlotsInv
    <3> QED
      BY <1>21, <3>1, <3>2 DEF Stop, Take, SetMark, RunTypes
  <2>5. \A r \in Run : Known(r)' = Known(r)
    BY <2>2, KnownKept
  <2>6. \A e \in batch' : e \in batch /\ e.run \in Run
    BY <2>3 DEF WorkTypes
  <2> QED
    BY <2>4, <2>5, <2>6 DEF SlotsInv
<1>22. ASSUME Tick PROVE SlotsInv'
  <2>1. \A r \in Run : again'[r] = again[r]
    BY <1>22 DEF Tick, faults
  <2>2. \A r \in Run : Known(r)' = Known(r)
    BY <2>1, KnownKept
  <2>3. \A r \in Run : \A i \in Due(r) : i \in Known(r) /\ mark[r][i] # "unset"
    BY DEF Due, SlotsInv
  <2>4. \A r \in Run, i \in Slot : mark'[r][i] # "unset" => i \in Known(r)
    <3> TAKE r \in Run, i \in Slot
    <3>1. PICK late : /\ \A q \in Run : late[q] \subseteq Due(q)
                      /\ mark' = [q \in Run |-> [j \in Slot |-> IF j \in late[q] THEN "late"
                                                                ELSE mark[q][j]]]
      <4>1. PICK grace \in SUBSET Binding :
              mark' = [q \in Run |-> [j \in Slot |->
                         IF j \in {k \in Due(q) : Act(q, k) = "tune" /\ Superseded(q, k, grace)}
                         THEN "late" ELSE mark[q][j]]]
        BY <1>22 DEF Tick
      <4> DEFINE late == [q \in Run |-> {k \in Due(q) : Act(q, k) = "tune" /\ Superseded(q, k, grace)}]
      <4> WITNESS late
      <4> QED
        BY <4>1
    <3>2. mark'[r][i] = mark[r][i] \/ i \in Due(r)
      BY <3>1
    <3> QED
      BY <2>3, <3>2 DEF SlotsInv
  <2>5. \A b \in batch' : \E r \in Run : \E i \in Due(r) : b.run = r /\ b.step = i
    <3> DEFINE Late(g, r) == {i \in Due(r) : Act(r, i) = "tune" /\ Superseded(r, i, g)}
               When(g, r, i) == IF Act(r, i) = "tune"
                                THEN Most({at[r][j] : j \in Piled(r, i, g) \cup {i}})
                                ELSE at[r][i]
    <3>1. PICK g \in SUBSET Binding :
            batch' = UNION {{[run |-> r, step |-> i, gen |-> gen[r], at |-> When(g, r, i)] :
                               i \in Due(r) \ Late(g, r)} : r \in Run}
      BY <1>22 DEF Tick
    <3> HIDE DEF When, Late
    <3> QED
      BY <3>1
  <2> QED
    BY <2>2, <2>3, <2>4, <2>5 DEF SlotsInv
<1>23. ASSUME Tuned PROVE SlotsInv'
  BY <1>23, SlotsKept DEF Tuned, runs, faults, work, WorkTypes
<1>24. ASSUME Unpark PROVE SlotsInv'
  <2>1. \A r \in Run : again'[r] = again[r]
    BY <1>24 DEF Unpark, faults
  <2>2. batch' \subseteq batch
    BY <1>24 DEF Unpark, work
  <2>3. \A r \in Run, i \in Slot : mark'[r][i] # "unset" => mark[r][i] # "unset"
    BY <1>24 DEF Unpark, Couple, runs, faults, work, RunTypes
  <2> QED
    BY <2>1, <2>2, <2>3, SlotsKept DEF WorkTypes
<1>25. ASSUME Exec PROVE SlotsInv'
  <2>1. \A r \in Run : again'[r] = again[r]
    BY <1>25 DEF Exec, faults
  <2>2. batch' \subseteq batch
    BY <1>25 DEF Exec, work
  <2>3. \A r \in Run, i \in Slot : mark'[r][i] # "unset" => mark[r][i] # "unset"
    BY <1>25 DEF Exec, Couple, runs, faults, work, RunTypes
  <2> QED
    BY <2>1, <2>2, <2>3, SlotsKept DEF WorkTypes
<1>26. ASSUME Launched PROVE SlotsInv'
  BY <1>26, SlotsKept DEF Launched, runs, faults, work, WorkTypes
<1>27. ASSUME After PROVE SlotsInv'
  BY <1>27, SlotsKept DEF After, runs, faults, work, WorkTypes
<1>28. ASSUME Holds PROVE SlotsInv'
  BY <1>28, SlotsKept DEF Holds, runs, faults, work, WorkTypes
<1>29. ASSUME Collect PROVE SlotsInv'
  BY <1>29, SlotsKept DEF Collect, runs, faults, work, WorkTypes
<1>30. ASSUME Sleep PROVE SlotsInv'
  BY <1>30, SlotsKept DEF Sleep, runs, faults, work, WorkTypes
<1>31. ASSUME NEW t \in Task, Bind(t) PROVE SlotsInv'
  BY <1>31, SlotsKept DEF Bind, runs, faults, work, WorkTypes
<1>32. ASSUME NEW t \in Task, Exit(t) PROVE SlotsInv'
  BY <1>32, SlotsKept DEF Exit, runs, faults, work, WorkTypes
<1>33. ASSUME NEW t \in Task, Fail(t) PROVE SlotsInv'
  BY <1>33, SlotsKept DEF Fail, runs, faults, work, WorkTypes
<1>34. ASSUME NEW t \in Task, Alarm(t) PROVE SlotsInv'
  <2>1. \A r \in Run : again'[r] = again[r]
    BY <1>34 DEF Alarm, faults
  <2>2. batch' \subseteq batch
    BY <1>34 DEF Alarm, work
  <2>3. \A r \in Run, i \in Slot : mark'[r][i] # "unset" => mark[r][i] # "unset"
    BY <1>34 DEF Alarm, Couple, runs, faults, work, RunTypes
  <2> QED
    BY <2>1, <2>2, <2>3, SlotsKept DEF WorkTypes
<1>35. ASSUME TimePasses PROVE SlotsInv'
  BY <1>35, SlotsKept DEF TimePasses, runs, faults, work, WorkTypes
<1>36. ASSUME CrashAndRestart PROVE SlotsInv'
  BY <1>36, SlotsKept DEF CrashAndRestart, runs, faults, work, WorkTypes
<1>37. ASSUME UNCHANGED vars PROVE SlotsInv'
  BY <1>37, SlotsKept DEF vars, runs, faults, work, WorkTypes
<1> HIDE DEF Sound, TypeOK
<1> QED
  BY <1>1, <1>2, <1>3, <1>4, <1>5, <1>6, <1>7, <1>8, <1>9, <1>10, <1>11, <1>12, <1>13,
     <1>14, <1>15, <1>16, <1>17, <1>18, <1>19, <1>20, <1>21, <1>22, <1>23, <1>24, <1>25,
     <1>26, <1>27, <1>28, <1>29, <1>30, <1>31, <1>32, <1>33, <1>34, <1>35, <1>36, <1>37 DEF
     Next

\* Telling the runs of a fault dates no fault later than now.
LEMMA CoupleTime ==
  ASSUME TypeOK, TimeInv, NEW t \in Task, Couple(t)
  PROVE  \A r \in Run : faultAt'[r] <= now
<1>1. \A r \in Run : faultAt'[r] = now \/ faultAt'[r] = faultAt[r]
  BY DEF Couple
<1> QED
  BY <1>1 DEF TypeOK, TimeInv

\* No step dates anything later than now.
LEMMA TimeStep ==
  ASSUME Sound, [Next]_vars
  PROVE  TimeInv'
<1> USE LoopRuns DEF Sound, TypeOK
<1>1. ASSUME NEW r \in Run, Arm(r) PROVE TimeInv'
  BY <1>1 DEF Arm, faults, hand, TimeInv, HandTypes
<1>2. ASSUME NEW r \in Run, HoldNow(r) PROVE TimeInv'
  BY <1>2 DEF HoldNow, faults, hand, TimeInv, HandTypes
<1>3. ASSUME NEW r \in Run, NEW to \in Ends, Patch(r, to) PROVE TimeInv'
  BY <1>3 DEF Patch, faults, hand, TimeInv, HandTypes
<1>4. ASSUME NEW r \in Run, NEW resume \in {now, now + 1}, Proceed(r, resume) PROVE TimeInv'
  BY <1>4 DEF Proceed, faults, hand, TimeInv, HandTypes
<1>5. ASSUME NEW r \in Run, RestartUnattended(r) PROVE TimeInv'
  BY <1>5 DEF RestartUnattended, Restart, faults, hand, TimeInv, HandTypes
<1>6. ASSUME NEW r \in Run, Forgive(r) PROVE TimeInv'
  BY <1>6 DEF Forgive, faults, hand, TimeInv, HandTypes
<1>7. ASSUME NEW c \in Caller, AbortAll(c) PROVE TimeInv'
  BY <1>7 DEF AbortAll, faults, hand, TimeInv, HandTypes
<1>8. ASSUME NEW c \in Caller, NEW r \in Run, Cancel(c, r) PROVE TimeInv'
  BY <1>8 DEF Cancel, faults, hand, TimeInv, HandTypes
<1>9. ASSUME NEW c \in Caller, NEW r \in Run, NEW how \in Modes, RestartByHand(c, r, how) PROVE TimeInv'
  BY <1>9 DEF RestartByHand, Restart, faults, hand, TimeInv, HandTypes
<1>10. ASSUME NEW c \in Coroutine, Muted(c) PROVE TimeInv'
  BY <1>10 DEF Muted, faults, hand, TimeInv, HandTypes
<1>11. ASSUME NEW c \in Coroutine, Swept(c) PROVE TimeInv'
  BY <1>11 DEF Swept, faults, hand, TimeInv, HandTypes
<1>12. ASSUME NEW c \in Coroutine, RestartRefused(c) PROVE TimeInv'
  BY <1>12 DEF RestartRefused, faults, hand, TimeInv, HandTypes
<1>13. ASSUME NEW c \in Coroutine, Commit(c) PROVE TimeInv'
  BY <1>13 DEF Commit, faults, hand, TimeInv, HandTypes
<1>14. ASSUME NEW c \in Coroutine, NEW r \in Run, Abort(c, r) PROVE TimeInv'
  BY <1>14 DEF Abort, faults, hand, TimeInv, HandTypes
<1>15. ASSUME NEW c \in Coroutine, NEW n \in {1, 2}, NEW t \in Task, Sweep(c, n, t) PROVE TimeInv'
  BY <1>15 DEF Sweep, faults, hand, TimeInv, HandTypes
<1>16. ASSUME NEW b \in batch, FireSkipped(b) PROVE TimeInv'
  BY <1>16 DEF FireSkipped, faults, hand, TimeInv, HandTypes
<1>17. ASSUME NEW b \in batch, TuneDeferred(b) PROVE TimeInv'
  BY <1>17 DEF TuneDeferred, faults, hand, TimeInv, HandTypes
<1>18. ASSUME NEW b \in batch, TuneDropped(b) PROVE TimeInv'
  BY <1>18 DEF TuneDropped, faults, hand, TimeInv, HandTypes
<1>19. ASSUME NEW b \in batch, Tune(b) PROVE TimeInv'
  BY <1>19 DEF Tune, faults, hand, TimeInv, HandTypes
<1>20. ASSUME NEW b \in batch, Start(b) PROVE TimeInv'
  BY <1>20 DEF Start, faults, hand, TimeInv, HandTypes
<1>21. ASSUME NEW b \in batch, Stop(b) PROVE TimeInv'
  BY <1>21 DEF Stop, faults, hand, TimeInv, HandTypes
<1>22. ASSUME Tick PROVE TimeInv'
  BY <1>22 DEF Tick, faults, hand, TimeInv, HandTypes
<1>23. ASSUME Tuned PROVE TimeInv'
  BY <1>23 DEF Tuned, faults, hand, TimeInv, HandTypes
<1>24. ASSUME Unpark PROVE TimeInv'
  <2>1. on[Loop] \in Task
    BY <1>24 DEF Unpark, At, HandInv, Hand, Launching
  <2>2. \A r \in Run : faultAt'[r] <= now
    BY <1>24, <2>1, CoupleTime DEF Unpark, TimeInv
  <2> QED
    BY <1>24, <2>2 DEF Unpark, hand, TimeInv
<1>25. ASSUME Exec PROVE TimeInv'
  <2>1. on[Loop] \in Task
    BY <1>25 DEF Exec, At, HandInv, Hand, Launching
  <2>2. \A r \in Run : faultAt'[r] <= now
    BY <1>25, <2>1, CoupleTime DEF Exec, TimeInv
  <2> QED
    BY <1>25, <2>2 DEF Exec, hand, TimeInv
<1>26. ASSUME Launched PROVE TimeInv'
  BY <1>26 DEF Launched, faults, hand, TimeInv, HandTypes
<1>27. ASSUME After PROVE TimeInv'
  BY <1>27 DEF After, faults, hand, TimeInv, HandTypes
<1>28. ASSUME Holds PROVE TimeInv'
  BY <1>28 DEF Holds, faults, hand, TimeInv, HandTypes
<1>29. ASSUME Collect PROVE TimeInv'
  BY <1>29 DEF Collect, faults, hand, TimeInv, HandTypes
<1>30. ASSUME Sleep PROVE TimeInv'
  BY <1>30 DEF Sleep, faults, hand, TimeInv, HandTypes
<1>31. ASSUME NEW t \in Task, Bind(t) PROVE TimeInv'
  BY <1>31 DEF Bind, faults, hand, TimeInv, HandTypes
<1>32. ASSUME NEW t \in Task, Exit(t) PROVE TimeInv'
  BY <1>32 DEF Exit, faults, hand, TimeInv, HandTypes
<1>33. ASSUME NEW t \in Task, Fail(t) PROVE TimeInv'
  BY <1>33 DEF Fail, faults, hand, TimeInv, HandTypes
<1>34. ASSUME NEW t \in Task, Alarm(t) PROVE TimeInv'
  <2>1. \A r \in Run : faultAt'[r] <= now
    BY <1>34, CoupleTime DEF Alarm
  <2> QED
    BY <1>34, <2>1 DEF Alarm, hand, TimeInv
<1>35. ASSUME TimePasses PROVE TimeInv'
  <2>1. now' = now + 1 /\ faultAt' = faultAt /\ since' = since
    BY <1>35 DEF TimePasses, faults, hand
  <2> QED
    BY <2>1 DEF TimeInv, FaultTypes, HandTypes
<1>36. ASSUME CrashAndRestart PROVE TimeInv'
  BY <1>36 DEF CrashAndRestart, faults, hand, TimeInv, HandTypes
<1>37. ASSUME UNCHANGED vars PROVE TimeInv'
  BY <1>37 DEF vars, faults, hand, TimeInv
<1> HIDE DEF Sound, TypeOK
<1> QED
  BY <1>1, <1>2, <1>3, <1>4, <1>5, <1>6, <1>7, <1>8, <1>9, <1>10, <1>11, <1>12, <1>13,
     <1>14, <1>15, <1>16, <1>17, <1>18, <1>19, <1>20, <1>21, <1>22, <1>23, <1>24, <1>25,
     <1>26, <1>27, <1>28, <1>29, <1>30, <1>31, <1>32, <1>33, <1>34, <1>35, <1>36, <1>37 DEF
     Next

\* A step that moves no restart and takes no fault away keeps the restarts.
LEMMA RestartKept ==
  ASSUME RestartInv, HandInv,
         \A c \in Coroutine : Restarting(c)' => Restarting(c) /\ cur'[c] = cur[c],
         \A c \in Coroutine : Restarting(c) => since'[c] = since[c] /\ was'[c] = was[c],
         restarting \subseteq restarting',
         \A r \in Run : fault[r] # <<>> => fault'[r] # <<>> /\ faultAt'[r] = faultAt[r]
  PROVE  RestartInv'
<1>1. \A c \in Coroutine : Mending(c)'
  <2> SUFFICES ASSUME NEW c \in Coroutine, Restarting(c)' PROVE Mending(c)'
    BY DEF Mending
  <2>1. Restarting(c) /\ cur'[c] = cur[c] /\ cur[c] \in Run
    BY DEF HandInv, Hand
  <2>2. Mending(c) /\ since'[c] = since[c] /\ was'[c] = was[c]
    BY <2>1 DEF RestartInv
  <2>3. fault'[cur[c]] # <<>> /\ faultAt'[cur[c]] = faultAt[cur[c]]
    BY <2>1, <2>2 DEF Mending
  <2> QED
    BY <2>1, <2>2, <2>3 DEF Mending
<1>2. OneAtATime'
  BY DEF RestartInv, OneAtATime
<1> QED
  BY <1>1, <1>2 DEF RestartInv

\* One that does not touch them at all does.
LEMMA RestartsKept ==
  ASSUME RestartInv, HandInv, UNCHANGED <<pc, hand, faults, restarting>>
  PROVE  RestartInv'
<1>1. UNCHANGED <<pc, cur, then, since, was, fault, faultAt, restarting>>
  BY DEF hand, faults
<1>2. \A c \in Coroutine : Restarting(c)' = Restarting(c)
  BY <1>1 DEF Restarting, Awaiting
<1> QED
  BY <1>1, <1>2, RestartKept

\* A run that is told of a fault has one, and keeps the instant of its first.
LEMMA CoupleFaults ==
  ASSUME TypeOK, NEW t \in Task, Couple(t), NEW r \in Run
  PROVE  /\ fault[r] # <<>> => faultAt'[r] = faultAt[r]
         /\ fault[r] # <<>> => fault'[r] # <<>>
<1>1. fault[r] # <<>> => faultAt'[r] = faultAt[r]
  BY DEF Couple
<1>2. Append(fault[r], t) # <<>>
  <2>1. fault[r] \in Seq(Task)
    BY DEF TypeOK, FaultTypes
  <2>2. Len(Append(fault[r], t)) = Len(fault[r]) + 1 /\ Len(fault[r]) \in Nat
    BY <2>1
  <2> QED
    BY <2>2
<1> QED
  BY <1>1, <1>2 DEF Couple

\* A restart of a run that has none in flight keeps them apart.
LEMMA RestartOne ==
  ASSUME TypeOK, HandInv, RestartInv, TimeInv, NEW c \in Coroutine, NEW r \in Run, NEW how,
         NEW label \in {"idle", "redo"}, Restart(c, r, how, label)
  PROVE  RestartInv'
<1> USE DEF TypeOK, HandTypes
<1>1. ~Restarting(c)
  BY DEF Restart, At, Restarting, Awaiting
<1>2. \A d \in Coroutine : d # c => /\ Restarting(d)' = Restarting(d) /\ cur'[d] = cur[d]
                                   /\ since'[d] = since[d] /\ was'[d] = was[d]
  <2>1. \A d \in Coroutine : d # c => /\ pc'[d] = pc[d] /\ cur'[d] = cur[d] /\ then'[d] = then[d]
                                     /\ since'[d] = since[d] /\ was'[d] = was[d]
    BY DEF Restart, Refused, StopTask, Goto
  <2> QED
    BY <2>1 DEF Restarting, Awaiting
<1>3. cur'[c] = r /\ since'[c] = now /\ was'[c] = fault[r]
  BY DEF Restart
<1>4. fault' = fault /\ faultAt' = faultAt /\ restarting \subseteq restarting'
  BY DEF Restart
<1>5. Restarting(c)' => Restartable(r) /\ r \notin restarting /\ r \in restarting'
  BY DEF Restart, Refused, StopTask, Goto, Restarting, Awaiting
<1>6. \A d \in Coroutine : Mending(d)'
  <2>1. Mending(c)'
    BY <1>3, <1>4, <1>5 DEF Mending, Restartable, TimeInv
  <2>2. ASSUME NEW d \in Coroutine, d # c PROVE Mending(d)'
    BY <2>2, <1>2, <1>4 DEF Mending, RestartInv
  <2> QED
    BY <2>1, <2>2
<1>7. OneAtATime'
  <2>1. ASSUME NEW d \in Coroutine, d # c, Restarting(d)', Restarting(c)' PROVE cur'[d] # cur'[c]
    <3>1. Restarting(d) /\ cur[d] \in restarting /\ cur'[d] = cur[d]
      BY <1>2, <2>1 DEF RestartInv, Mending
    <3> QED
      BY <3>1, <1>3, <1>5, <2>1
  <2>2. ASSUME NEW d \in Coroutine, NEW e \in Coroutine, d # c, e # c,
               Restarting(d)', Restarting(e)', cur'[d] = cur'[e]
        PROVE  d = e
    BY <2>2, <1>2 DEF RestartInv, OneAtATime
  <2> QED
    BY <2>1, <2>2 DEF OneAtATime
<1> QED
  BY <1>6, <1>7 DEF RestartInv

\* A restart that ends, whatever it does to its run, leaves the others alone.
LEMMA RestartEnds ==
  ASSUME RestartInv, HandInv, NEW c \in Coroutine, Restarting(c), ~Restarting(c)',
         UNCHANGED hand, \A d \in Coroutine : d # c => pc'[d] = pc[d],
         restarting' = restarting \ {cur[c]},
         \A r \in Run : r # cur[c] => fault'[r] = fault[r] /\ faultAt'[r] = faultAt[r]
  PROVE  RestartInv'
<1>1. \A d \in Coroutine : Restarting(d)' => Restarting(d) /\ d # c
  BY DEF Restarting, Awaiting, hand
<1>2. \A d \in Coroutine : cur'[d] = cur[d] /\ since'[d] = since[d] /\ was'[d] = was[d]
  BY DEF hand
<1>3. ASSUME NEW d \in Coroutine PROVE Mending(d)'
  <2> SUFFICES ASSUME Restarting(d)' PROVE Mending(d)'
    BY DEF Mending
  <2>1. Restarting(d) /\ cur[d] # cur[c] /\ cur[d] \in Run /\ Mending(d)
    BY <1>1 DEF RestartInv, OneAtATime, HandInv, Hand
  <2> QED
    BY <2>1, <1>2 DEF Mending
<1>4. OneAtATime'
  BY <1>1, <1>2 DEF RestartInv, OneAtATime
<1> QED
  BY <1>3, <1>4 DEF RestartInv

\* Every step keeps the restarts apart.
LEMMA RestartStep ==
  ASSUME Sound, [Next]_vars
  PROVE  RestartInv'
<1> USE LoopRuns DEF Sound, TypeOK
<1>1. ASSUME NEW r \in Run, Arm(r) PROVE RestartInv'
  BY <1>1, RestartsKept DEF Arm
<1>2. ASSUME NEW r \in Run, HoldNow(r) PROVE RestartInv'
  BY <1>2, RestartsKept DEF HoldNow
<1>3. ASSUME NEW r \in Run, NEW to \in Ends, Patch(r, to) PROVE RestartInv'
  BY <1>3, RestartsKept DEF Patch
<1>4. ASSUME NEW r \in Run, NEW resume \in {now, now + 1}, Proceed(r, resume) PROVE RestartInv'
  BY <1>4, RestartsKept DEF Proceed
<1>5. ASSUME NEW r \in Run, RestartUnattended(r) PROVE RestartInv'
  <2>1. Restart(Loop, r, "resync", "redo")
    BY <1>5 DEF RestartUnattended
  <2> QED
    BY <2>1, RestartOne
<1>6. ASSUME NEW r \in Run, Forgive(r) PROVE RestartInv'
  <2>1. \A d \in Coroutine : Restarting(d)' => Restarting(d) /\ cur'[d] = cur[d]
    BY <1>6 DEF Forgive, At, Goto, Restarting, Awaiting, HandTypes, hand
  <2>2. \A d \in Coroutine : Restarting(d) => since'[d] = since[d] /\ was'[d] = was[d]
    BY <1>6 DEF Forgive, At, Goto, Restarting, Awaiting, HandTypes, hand
  <2>3. UNCHANGED <<fault, faultAt, restarting>>
    BY <1>6 DEF Forgive, faults
  <2> QED
    BY <2>1, <2>2, <2>3, RestartKept
<1>7. ASSUME NEW c \in Caller, AbortAll(c) PROVE RestartInv'
  <2>1. \A d \in Coroutine : Restarting(d)' => Restarting(d) /\ cur'[d] = cur[d]
    BY <1>7 DEF AbortAll, At, Goto, Restarting, Awaiting, HandTypes, hand
  <2>2. \A d \in Coroutine : Restarting(d) => since'[d] = since[d] /\ was'[d] = was[d]
    BY <1>7 DEF AbortAll, At, Goto, Restarting, Awaiting, HandTypes, hand
  <2>3. UNCHANGED <<fault, faultAt, restarting>>
    BY <1>7 DEF AbortAll, faults
  <2> QED
    BY <2>1, <2>2, <2>3, RestartKept
<1>8. ASSUME NEW c \in Caller, NEW r \in Run, Cancel(c, r) PROVE RestartInv'
  <2>1. \A d \in Coroutine : Restarting(d)' => Restarting(d) /\ cur'[d] = cur[d]
    BY <1>8 DEF Cancel, At, Goto, Restarting, Awaiting, HandTypes, hand
  <2>2. \A d \in Coroutine : Restarting(d) => since'[d] = since[d] /\ was'[d] = was[d]
    BY <1>8 DEF Cancel, At, Goto, Restarting, Awaiting, HandTypes, hand
  <2>3. UNCHANGED <<fault, faultAt, restarting>>
    BY <1>8 DEF Cancel, faults
  <2> QED
    BY <2>1, <2>2, <2>3, RestartKept
<1>9. ASSUME NEW c \in Caller, NEW r \in Run, NEW how \in Modes, RestartByHand(c, r, how) PROVE RestartInv'
  <2>1. Restart(c, r, how, "idle")
    BY <1>9 DEF RestartByHand
  <2> QED
    BY <2>1, RestartOne
<1>10. ASSUME NEW c \in Coroutine, Muted(c) PROVE RestartInv'
  <2>1. \A d \in Coroutine : Restarting(d)' => Restarting(d) /\ cur'[d] = cur[d]
    BY <1>10 DEF Muted, At, Goto, Restarting, Awaiting, HandTypes, hand
  <2>2. \A d \in Coroutine : Restarting(d) => since'[d] = since[d] /\ was'[d] = was[d]
    BY <1>10 DEF Muted, At, Goto, Restarting, Awaiting, HandTypes, hand
  <2>3. UNCHANGED <<fault, faultAt, restarting>>
    BY <1>10 DEF Muted, faults
  <2> QED
    BY <2>1, <2>2, <2>3, RestartKept
<1>11. ASSUME NEW c \in Coroutine, Swept(c) PROVE RestartInv'
  <2>1. \A d \in Coroutine : Restarting(d)' => Restarting(d) /\ cur'[d] = cur[d]
    BY <1>11 DEF Swept, At, Goto, Restarting, Awaiting, HandTypes, hand
  <2>2. \A d \in Coroutine : Restarting(d) => since'[d] = since[d] /\ was'[d] = was[d]
    BY <1>11 DEF Swept, At, Goto, Restarting, Awaiting, HandTypes, hand
  <2>3. UNCHANGED <<fault, faultAt, restarting>>
    BY <1>11 DEF Swept, faults
  <2> QED
    BY <2>1, <2>2, <2>3, RestartKept
<1>12. ASSUME NEW c \in Coroutine, RestartRefused(c) PROVE RestartInv'
  <2>1. Restarting(c) /\ ~Restarting(c)'
    BY <1>12 DEF RestartRefused, Refused, At, Goto, Restarting, Awaiting, HandTypes
  <2>2. \A d \in Coroutine : d # c => pc'[d] = pc[d]
    BY <1>12 DEF RestartRefused, Refused, Goto, HandTypes
  <2>3. restarting' = restarting \ {cur[c]} /\ UNCHANGED hand
    BY <1>12 DEF RestartRefused, work
  <2>4. \A r \in Run : r # cur[c] => fault'[r] = fault[r] /\ faultAt'[r] = faultAt[r]
    BY <1>12 DEF RestartRefused, FaultTypes
  <2> QED
    BY <2>1, <2>2, <2>3, <2>4, RestartEnds
<1>13. ASSUME NEW c \in Coroutine, Commit(c) PROVE RestartInv'
  <2>1. Restarting(c) /\ ~Restarting(c)'
    BY <1>13 DEF Commit, At, Goto, Restarting, Awaiting, HandTypes
  <2>2. \A d \in Coroutine : d # c => pc'[d] = pc[d]
    BY <1>13 DEF Commit, Goto, HandTypes
  <2>3. restarting' = restarting \ {cur[c]} /\ UNCHANGED hand
    BY <1>13 DEF Commit, work
  <2>4. \A r \in Run : r # cur[c] => fault'[r] = fault[r] /\ faultAt'[r] = faultAt[r]
    BY <1>13 DEF Commit, FaultTypes
  <2> QED
    BY <2>1, <2>2, <2>3, <2>4, RestartEnds
<1>14. ASSUME NEW c \in Coroutine, NEW r \in Run, Abort(c, r) PROVE RestartInv'
  <2>1. \A d \in Coroutine : Restarting(d)' => Restarting(d) /\ cur'[d] = cur[d]
    BY <1>14 DEF Abort, At, Goto, Restarting, Awaiting, HandTypes, hand
  <2>2. \A d \in Coroutine : Restarting(d) => since'[d] = since[d] /\ was'[d] = was[d]
    BY <1>14 DEF Abort, At, Goto, Restarting, Awaiting, HandTypes, hand
  <2>3. UNCHANGED <<fault, faultAt, restarting>>
    BY <1>14 DEF Abort, faults
  <2> QED
    BY <2>1, <2>2, <2>3, RestartKept
<1>15. ASSUME NEW c \in Coroutine, NEW n \in {1, 2}, NEW t \in Task, Sweep(c, n, t) PROVE RestartInv'
  <2>1. \A d \in Coroutine : Restarting(d)' => Restarting(d) /\ cur'[d] = cur[d]
    BY <1>15 DEF Sweep, StopTask, At, Goto, Restarting, Awaiting, HandTypes, hand
  <2>2. \A d \in Coroutine : Restarting(d) => since'[d] = since[d] /\ was'[d] = was[d]
    BY <1>15 DEF Sweep, StopTask, At, Goto, Restarting, Awaiting, HandTypes, hand
  <2>3. UNCHANGED <<fault, faultAt, restarting>>
    BY <1>15 DEF Sweep, faults
  <2> QED
    BY <2>1, <2>2, <2>3, RestartKept
<1>16. ASSUME NEW b \in batch, FireSkipped(b) PROVE RestartInv'
  BY <1>16, RestartsKept DEF FireSkipped
<1>17. ASSUME NEW b \in batch, TuneDeferred(b) PROVE RestartInv'
  BY <1>17, RestartsKept DEF TuneDeferred
<1>18. ASSUME NEW b \in batch, TuneDropped(b) PROVE RestartInv'
  <2>1. \A d \in Coroutine : Restarting(d)' => Restarting(d) /\ cur'[d] = cur[d]
    BY <1>18 DEF TuneDropped, At, Goto, Restarting, Awaiting, HandTypes, hand
  <2>2. \A d \in Coroutine : Restarting(d) => since'[d] = since[d] /\ was'[d] = was[d]
    BY <1>18 DEF TuneDropped, At, Goto, Restarting, Awaiting, HandTypes, hand
  <2>3. UNCHANGED <<fault, faultAt, restarting>>
    BY <1>18 DEF TuneDropped, faults
  <2> QED
    BY <2>1, <2>2, <2>3, RestartKept
<1>19. ASSUME NEW b \in batch, Tune(b) PROVE RestartInv'
  <2>1. \A d \in Coroutine : Restarting(d)' => Restarting(d) /\ cur'[d] = cur[d]
    BY <1>19 DEF Tune, Take, At, Goto, Restarting, Awaiting, HandTypes, hand
  <2>2. \A d \in Coroutine : Restarting(d) => since'[d] = since[d] /\ was'[d] = was[d]
    BY <1>19 DEF Tune, Take, At, Goto, Restarting, Awaiting, HandTypes, hand
  <2>3. UNCHANGED <<fault, faultAt, restarting>>
    BY <1>19 DEF Tune, faults
  <2> QED
    BY <2>1, <2>2, <2>3, RestartKept
<1>20. ASSUME NEW b \in batch, Start(b) PROVE RestartInv'
  <2>1. \A d \in Coroutine : Restarting(d)' => Restarting(d) /\ cur'[d] = cur[d]
    BY <1>20 DEF Start, Take, At, Goto, Restarting, Awaiting, HandTypes, hand
  <2>2. \A d \in Coroutine : Restarting(d) => since'[d] = since[d] /\ was'[d] = was[d]
    BY <1>20 DEF Start, Take, At, Goto, Restarting, Awaiting, HandTypes, hand
  <2>3. UNCHANGED <<fault, faultAt, restarting>>
    BY <1>20 DEF Start, faults
  <2> QED
    BY <2>1, <2>2, <2>3, RestartKept
<1>21. ASSUME NEW b \in batch, Stop(b) PROVE RestartInv'
  <2>1. \A d \in Coroutine : Restarting(d)' => Restarting(d) /\ cur'[d] = cur[d]
    BY <1>21 DEF Stop, Take, StopTask, At, Goto, Restarting, Awaiting, HandTypes, hand
  <2>2. \A d \in Coroutine : Restarting(d) => since'[d] = since[d] /\ was'[d] = was[d]
    BY <1>21 DEF Stop, Take, StopTask, At, Goto, Restarting, Awaiting, HandTypes, hand
  <2>3. UNCHANGED <<fault, faultAt, restarting>>
    BY <1>21 DEF Stop, faults
  <2> QED
    BY <2>1, <2>2, <2>3, RestartKept
<1>22. ASSUME Tick PROVE RestartInv'
  <2>1. \A d \in Coroutine : Restarting(d)' => Restarting(d) /\ cur'[d] = cur[d]
    BY <1>22 DEF Tick, At, Goto, Restarting, Awaiting, HandTypes, hand
  <2>2. \A d \in Coroutine : Restarting(d) => since'[d] = since[d] /\ was'[d] = was[d]
    BY <1>22 DEF Tick, At, Goto, Restarting, Awaiting, HandTypes, hand
  <2>3. UNCHANGED <<fault, faultAt, restarting>>
    BY <1>22 DEF Tick, faults
  <2> QED
    BY <2>1, <2>2, <2>3, RestartKept
<1>23. ASSUME Tuned PROVE RestartInv'
  <2>1. \A d \in Coroutine : Restarting(d)' => Restarting(d) /\ cur'[d] = cur[d]
    BY <1>23 DEF Tuned, At, Goto, Restarting, Awaiting, HandTypes, hand
  <2>2. \A d \in Coroutine : Restarting(d) => since'[d] = since[d] /\ was'[d] = was[d]
    BY <1>23 DEF Tuned, At, Goto, Restarting, Awaiting, HandTypes, hand
  <2>3. UNCHANGED <<fault, faultAt, restarting>>
    BY <1>23 DEF Tuned, faults
  <2> QED
    BY <2>1, <2>2, <2>3, RestartKept
<1>24. ASSUME Unpark PROVE RestartInv'
  <2>1. \A d \in Coroutine : Restarting(d)' => Restarting(d) /\ cur'[d] = cur[d]
    BY <1>24 DEF Unpark, At, Goto, Woken, Restarting, Awaiting, HandTypes, hand
  <2>2. UNCHANGED <<since, was, restarting>>
    BY <1>24 DEF Unpark, hand
  <2>3. on[Loop] \in Task
    BY <1>24 DEF Unpark, At, HandInv, Hand, Launching
  <2>4. Couple(on[Loop]) \/ UNCHANGED <<fault, faultAt>>
    BY <1>24 DEF Unpark
  <2>5. \A r \in Run : fault[r] # <<>> => fault'[r] # <<>> /\ faultAt'[r] = faultAt[r]
    BY <2>3, <2>4, CoupleFaults
  <2> QED
    BY <2>1, <2>2, <2>5, RestartKept
<1>25. ASSUME Exec PROVE RestartInv'
  <2>1. \A d \in Coroutine : Restarting(d)' => Restarting(d) /\ cur'[d] = cur[d]
    BY <1>25 DEF Exec, At, Goto, Woken, Restarting, Awaiting, HandTypes, hand
  <2>2. UNCHANGED <<since, was, restarting>>
    BY <1>25 DEF Exec, hand
  <2>3. on[Loop] \in Task
    BY <1>25 DEF Exec, At, HandInv, Hand, Launching
  <2>4. Couple(on[Loop]) \/ UNCHANGED <<fault, faultAt>>
    BY <1>25 DEF Exec
  <2>5. \A r \in Run : fault[r] # <<>> => fault'[r] # <<>> /\ faultAt'[r] = faultAt[r]
    BY <2>3, <2>4, CoupleFaults
  <2> QED
    BY <2>1, <2>2, <2>5, RestartKept
<1>26. ASSUME Launched PROVE RestartInv'
  <2>1. \A d \in Coroutine : Restarting(d)' => Restarting(d) /\ cur'[d] = cur[d]
    BY <1>26 DEF Launched, StopTask, At, Goto, Restarting, Awaiting, HandTypes, hand
  <2>2. \A d \in Coroutine : Restarting(d) => since'[d] = since[d] /\ was'[d] = was[d]
    BY <1>26 DEF Launched, StopTask, At, Goto, Restarting, Awaiting, HandTypes, hand
  <2>3. UNCHANGED <<fault, faultAt, restarting>>
    BY <1>26 DEF Launched, faults
  <2> QED
    BY <2>1, <2>2, <2>3, RestartKept
<1>27. ASSUME After PROVE RestartInv'
  <2>1. \A d \in Coroutine : Restarting(d)' => Restarting(d) /\ cur'[d] = cur[d]
    BY <1>27 DEF After, At, Goto, Restarting, Awaiting, HandTypes, hand
  <2>2. \A d \in Coroutine : Restarting(d) => since'[d] = since[d] /\ was'[d] = was[d]
    BY <1>27 DEF After, At, Goto, Restarting, Awaiting, HandTypes, hand
  <2>3. UNCHANGED <<fault, faultAt, restarting>>
    BY <1>27 DEF After, faults
  <2> QED
    BY <2>1, <2>2, <2>3, RestartKept
<1>28. ASSUME Holds PROVE RestartInv'
  <2>1. \A d \in Coroutine : Restarting(d)' => Restarting(d) /\ cur'[d] = cur[d]
    BY <1>28 DEF Holds, At, Goto, Restarting, Awaiting, HandTypes, hand
  <2>2. \A d \in Coroutine : Restarting(d) => since'[d] = since[d] /\ was'[d] = was[d]
    BY <1>28 DEF Holds, At, Goto, Restarting, Awaiting, HandTypes, hand
  <2>3. UNCHANGED <<fault, faultAt, restarting>>
    BY <1>28 DEF Holds, faults
  <2> QED
    BY <2>1, <2>2, <2>3, RestartKept
<1>29. ASSUME Collect PROVE RestartInv'
  <2>1. \A d \in Coroutine : Restarting(d)' => Restarting(d) /\ cur'[d] = cur[d]
    BY <1>29 DEF Collect, At, Goto, Restarting, Awaiting, HandTypes, hand
  <2>2. \A d \in Coroutine : Restarting(d) => since'[d] = since[d] /\ was'[d] = was[d]
    BY <1>29 DEF Collect, At, Goto, Restarting, Awaiting, HandTypes, hand
  <2>3. UNCHANGED <<fault, faultAt, restarting>>
    BY <1>29 DEF Collect, faults
  <2> QED
    BY <2>1, <2>2, <2>3, RestartKept
<1>30. ASSUME Sleep PROVE RestartInv'
  <2>1. \A d \in Coroutine : Restarting(d)' => Restarting(d) /\ cur'[d] = cur[d]
    BY <1>30 DEF Sleep, At, Goto, Restarting, Awaiting, HandTypes, hand
  <2>2. \A d \in Coroutine : Restarting(d) => since'[d] = since[d] /\ was'[d] = was[d]
    BY <1>30 DEF Sleep, At, Goto, Restarting, Awaiting, HandTypes, hand
  <2>3. UNCHANGED <<fault, faultAt, restarting>>
    BY <1>30 DEF Sleep, faults
  <2> QED
    BY <2>1, <2>2, <2>3, RestartKept
<1>31. ASSUME NEW t \in Task, Bind(t) PROVE RestartInv'
  BY <1>31, RestartsKept DEF Bind
<1>32. ASSUME NEW t \in Task, Exit(t) PROVE RestartInv'
  <2>1. \A d \in Coroutine : Restarting(d)' => Restarting(d) /\ cur'[d] = cur[d]
    BY <1>32 DEF Exit, Woken, At, Goto, Restarting, Awaiting, HandTypes, hand
  <2>2. \A d \in Coroutine : Restarting(d) => since'[d] = since[d] /\ was'[d] = was[d]
    BY <1>32 DEF Exit, Woken, At, Goto, Restarting, Awaiting, HandTypes, hand
  <2>3. UNCHANGED <<fault, faultAt, restarting>>
    BY <1>32 DEF Exit, faults
  <2> QED
    BY <2>1, <2>2, <2>3, RestartKept
<1>33. ASSUME NEW t \in Task, Fail(t) PROVE RestartInv'
  BY <1>33, RestartsKept DEF Fail
<1>34. ASSUME NEW t \in Task, Alarm(t) PROVE RestartInv'
  <2>1. \A r \in Run : fault[r] # <<>> => fault'[r] # <<>> /\ faultAt'[r] = faultAt[r]
    BY <1>34, CoupleFaults DEF Alarm
  <2>2. UNCHANGED <<pc, cur, then, since, was, restarting>>
    BY <1>34 DEF Alarm, hand
  <2>3. \A d \in Coroutine : Restarting(d)' = Restarting(d)
    BY <2>2 DEF Restarting, Awaiting
  <2> QED
    BY <2>1, <2>2, <2>3, RestartKept
<1>35. ASSUME TimePasses PROVE RestartInv'
  BY <1>35, RestartsKept DEF TimePasses
<1>36. ASSUME CrashAndRestart PROVE RestartInv'
  <2>1. \A d \in Coroutine : ~Restarting(d)'
    <3>1. \A d \in Coroutine : pc'[d] \in {"idle", "done"}
      BY <1>36 DEF CrashAndRestart
    <3> QED
      BY <3>1 DEF Restarting, Awaiting
  <2> QED
    BY <2>1 DEF RestartInv, Mending, OneAtATime
<1>37. ASSUME UNCHANGED vars PROVE RestartInv'
  BY <1>37, RestartsKept DEF vars
<1> HIDE DEF Sound, TypeOK
<1> QED
  BY <1>1, <1>2, <1>3, <1>4, <1>5, <1>6, <1>7, <1>8, <1>9, <1>10, <1>11, <1>12, <1>13,
     <1>14, <1>15, <1>16, <1>17, <1>18, <1>19, <1>20, <1>21, <1>22, <1>23, <1>24, <1>25,
     <1>26, <1>27, <1>28, <1>29, <1>30, <1>31, <1>32, <1>33, <1>34, <1>35, <1>36, <1>37 DEF
     Next

-----------------------------------------------------------------------------
(* What the runner starts with, and what holds throughout.                 *)

\* A runner that has just come up is sound.
LEMMA SoundInit ==
  ASSUME Init PROVE Sound
<1> USE DEF Init
<1>1. TypeOK
  <2>1. RunTypes
    BY Bounds DEF RunTypes, Mark
  <2>2. FaultTypes /\ WorkTypes
    BY DEF FaultTypes, WorkTypes
  <2>3. HandTypes
    BY DEF HandTypes, Label
  <2>4. TaskTypes
    BY DEF TaskTypes
  <2> QED
    BY <2>1, <2>2, <2>3, <2>4 DEF TypeOK
<1>2. \A c \in Coroutine : pc[c] = "idle" /\ left[c] = {} /\ then[c] = "idle"
  OBVIOUS
<1>3. HandInv
  BY <1>2 DEF HandInv, Hand, Launching, Awaiting, Restarting
<1>4. SlotsInv
  BY DEF SlotsInv
<1>5. TimeInv
  BY DEF TimeInv
<1>6. RestartInv
  BY <1>2 DEF RestartInv, Mending, OneAtATime, Restarting, Awaiting
<1> QED
  BY <1>1, <1>3, <1>4, <1>5, <1>6 DEF Sound

\* What each step finds, it leaves: the types and what they rest on hold
\* throughout, whatever the plans are.
LEMMA SoundHolds == Spec => []Sound
<1>1. ASSUME Sound, [Next]_vars PROVE Sound'
  BY <1>1, TypeStep, HandStep, SlotsStep, TimeStep, RestartStep DEF Sound
<1> QED
  BY SoundInit, <1>1, PTL DEF Spec

\* The types of the variables are right in every state, for any plans, tasks
\* and bounds: in particular no fire is ever dated or collected for a slot
\* that has no StepFire, and no restart is planned before the fault it mends.
THEOREM TypeCorrect == Spec => []TypeOK
BY SoundHolds, PTL DEF Sound

\* restart_run: however restarts by hand, unattended ones, refusals and
\* crashes are interleaved, a run has one restart in flight at a time.
THEOREM OneRestartHolds == Spec => []OneAtATime
BY SoundHolds, PTL DEF Sound, RestartInv

-----------------------------------------------------------------------------
(* Whose a task is: a run only ever launches, mends and loses its own.     *)

\* A run that has begun.
Begun(r) == st[r] \notin {"none", "ARMED"}

\* A launch is of a run that has begun, and so is what is on the air; what a
\* run launches, loses and mends is a task of its plan.
FaultsOwn == \A r \in Run : {FaultTask(r), again[r]} \subseteq Touched(r) \cup {NoTask}
OwnersBegun ==
  \A t \in Task : owner[t] # NoRun => Begun(owner[t]) /\ t \in Touched(owner[t])
LaunchOwn == Launching(Loop) => Begun(cur[Loop]) /\ on[Loop] \in Touched(cur[Loop])
MendsOwn == \A c \in Coroutine : Restarting(c) => on[c] \in Touched(cur[c])
OwnInv == FaultsOwn /\ OwnersBegun /\ LaunchOwn /\ MendsOwn

\* The tasks of a plan are what they are.
LEMMA TouchedConstant ==
  ASSUME NEW r \in Run
  PROVE  Touched(r)' = Touched(r) /\ Touched(r) \subseteq Task
<1>1. \A i \in Steps(r) : i # N
  BY PlanSteps
<1>2. Steps(r)' = Steps(r) /\ \A i \in Steps(r) : TaskOf(r, i)' = TaskOf(r, i)
  BY <1>1 DEF Steps, TaskOf, StepAt
<1>3. \A i \in Steps(r) : TaskOf(r, i) \in Task
  BY PlanSteps DEF TaskOf, Step
<1> QED
  BY <1>2, <1>3 DEF Touched

\* What a run has live is a task of its plan.
LEMMA LiveOwn ==
  ASSUME TypeOK, SlotsInv, FaultsOwn, NEW r \in Run
  PROVE  LiveTasks(r) \subseteq Touched(r)
<1> SUFFICES ASSUME NEW t \in Task, NEW i \in Slot, mark[r][i] = "fired", TaskOf(r, i) = t
             PROVE  t \in Touched(r)
  BY DEF LiveTasks
<1>1. i \in Known(r)
  BY DEF SlotsInv
<1>2. CASE i \in Steps(r)
  BY <1>2 DEF Touched
<1>3. CASE i \notin Steps(r)
  <2>1. i = N
    BY <1>1, <1>3 DEF Known
  <2>2. TaskOf(r, i) = again[r]
    BY <2>1 DEF TaskOf, StepAt
  <2> QED
    BY <2>2, NameAssumption DEF FaultsOwn
<1> QED
  BY <1>2, <1>3

\* Nor does telling it of a fault give a run a fault of another's task.
LEMMA CoupleOwn ==
  ASSUME TypeOK, SlotsInv, FaultsOwn, NEW t \in Task, Couple(t), NEW r \in Run
  PROVE  FaultTask(r)' \in Touched(r) \cup {NoTask}
<1>1. fault[r] \in Seq(Task) /\ t \in Task
  BY DEF TypeOK, FaultTypes
<1>2. CASE r \notin Coupled(t)
  <2>1. fault'[r] = fault[r]
    BY <1>2 DEF Couple
  <2> QED
    BY <2>1 DEF FaultTask, FaultsOwn
<1>3. CASE r \in Coupled(t)
  <2>1. fault'[r] = Append(fault[r], t) /\ t \in LiveTasks(r)
    BY <1>3 DEF Couple, Coupled
  <2>2. CASE fault[r] = <<>>
    <3>1. Append(fault[r], t) = <<t>>
      BY <2>2
    <3>2. FaultTask(r)' = t
      BY <2>1, <3>1 DEF FaultTask
    <3> QED
      BY <2>1, <3>2, LiveOwn
  <2>3. CASE fault[r] # <<>>
    <3>1. Len(fault[r]) \in Nat /\ Len(fault[r]) >= 1
      BY <1>1, <2>3
    <3>2. Len(Append(fault[r], t)) = Len(fault[r]) + 1 /\ Append(fault[r], t)[1] = fault[r][1]
      BY <1>1, <3>1
    <3>3. Append(fault[r], t) # <<>> /\ Head(Append(fault[r], t)) = Head(fault[r])
      BY <1>1, <2>3, <3>1, <3>2
    <3>4. FaultTask(r)' = FaultTask(r)
      BY <2>1, <2>3, <3>3 DEF FaultTask
    <3> QED
      BY <3>4 DEF FaultsOwn
  <2> QED
    BY <2>2, <2>3
<1> QED
  BY <1>2, <1>3

\* A run that has begun has begun for good.
LEMMA BegunStep ==
  ASSUME Sound, NEW q \in Run, Begun(q), [Next]_vars
  PROVE  Begun(q)'
<1> USE LoopRuns DEF Sound, TypeOK
<1>1. ASSUME NEW r \in Run, Arm(r) PROVE Begun(q)'
  BY <1>1 DEF Arm, Begun, RunTypes, runs
<1>2. ASSUME NEW r \in Run, HoldNow(r) PROVE Begun(q)'
  BY <1>2 DEF HoldNow, Begun, RunTypes, runs
<1>3. ASSUME NEW r \in Run, NEW to \in Ends, Patch(r, to) PROVE Begun(q)'
  BY <1>3 DEF Patch, Begun, RunTypes, runs
<1>4. ASSUME NEW r \in Run, NEW resume \in {now, now + 1}, Proceed(r, resume) PROVE Begun(q)'
  BY <1>4 DEF Proceed, Begun, RunTypes, runs
<1>5. ASSUME NEW r \in Run, RestartUnattended(r) PROVE Begun(q)'
  BY <1>5 DEF RestartUnattended, Restart, Begun, RunTypes, runs
<1>6. ASSUME NEW r \in Run, Forgive(r) PROVE Begun(q)'
  BY <1>6 DEF Forgive, Begun, RunTypes, runs
<1>7. ASSUME NEW c \in Caller, AbortAll(c) PROVE Begun(q)'
  BY <1>7 DEF AbortAll, Begun, RunTypes, runs
<1>8. ASSUME NEW c \in Caller, NEW r \in Run, Cancel(c, r) PROVE Begun(q)'
  BY <1>8 DEF Cancel, Begun, RunTypes, runs
<1>9. ASSUME NEW c \in Caller, NEW r \in Run, NEW how \in Modes, RestartByHand(c, r, how) PROVE Begun(q)'
  BY <1>9 DEF RestartByHand, Restart, Begun, RunTypes, runs
<1>10. ASSUME NEW c \in Coroutine, Muted(c) PROVE Begun(q)'
  BY <1>10 DEF Muted, Begun, RunTypes, runs
<1>11. ASSUME NEW c \in Coroutine, Swept(c) PROVE Begun(q)'
  BY <1>11 DEF Swept, Begun, RunTypes, runs
<1>12. ASSUME NEW c \in Coroutine, RestartRefused(c) PROVE Begun(q)'
  BY <1>12 DEF RestartRefused, Begun, RunTypes, runs
<1>13. ASSUME NEW c \in Coroutine, Commit(c) PROVE Begun(q)'
  BY <1>13 DEF Commit, Begun, RunTypes, runs
<1>14. ASSUME NEW c \in Coroutine, NEW r \in Run, Abort(c, r) PROVE Begun(q)'
  BY <1>14 DEF Abort, Begun, RunTypes, runs
<1>15. ASSUME NEW c \in Coroutine, NEW n \in {1, 2}, NEW t \in Task, Sweep(c, n, t) PROVE Begun(q)'
  BY <1>15 DEF Sweep, Begun, RunTypes, runs
<1>16. ASSUME NEW b \in batch, FireSkipped(b) PROVE Begun(q)'
  BY <1>16 DEF FireSkipped, Begun, RunTypes, runs
<1>17. ASSUME NEW b \in batch, TuneDeferred(b) PROVE Begun(q)'
  BY <1>17 DEF TuneDeferred, Begun, RunTypes, runs
<1>18. ASSUME NEW b \in batch, TuneDropped(b) PROVE Begun(q)'
  BY <1>18 DEF TuneDropped, Begun, RunTypes, runs
<1>19. ASSUME NEW b \in batch, Tune(b) PROVE Begun(q)'
  BY <1>19 DEF Tune, Take, Begun, RunTypes, runs
<1>20. ASSUME NEW b \in batch, Start(b) PROVE Begun(q)'
  BY <1>20 DEF Start, Take, Begun, RunTypes, runs
<1>21. ASSUME NEW b \in batch, Stop(b) PROVE Begun(q)'
  BY <1>21 DEF Stop, Take, Begun, RunTypes, runs
<1>22. ASSUME Tick PROVE Begun(q)'
  BY <1>22 DEF Tick, Begun, RunTypes, runs
<1>23. ASSUME Tuned PROVE Begun(q)'
  BY <1>23 DEF Tuned, Begun, RunTypes, runs
<1>24. ASSUME Unpark PROVE Begun(q)'
  BY <1>24 DEF Unpark, Begun, RunTypes, runs
<1>25. ASSUME Exec PROVE Begun(q)'
  BY <1>25 DEF Exec, Begun, RunTypes, runs
<1>26. ASSUME Launched PROVE Begun(q)'
  BY <1>26 DEF Launched, Begun, RunTypes, runs
<1>27. ASSUME After PROVE Begun(q)'
  BY <1>27 DEF After, Begun, RunTypes, runs
<1>28. ASSUME Holds PROVE Begun(q)'
  BY <1>28 DEF Holds, Begun, RunTypes
<1>29. ASSUME Collect PROVE Begun(q)'
  BY <1>29 DEF Collect, Begun, RunTypes, runs
<1>30. ASSUME Sleep PROVE Begun(q)'
  BY <1>30 DEF Sleep, Begun, RunTypes, runs
<1>31. ASSUME NEW t \in Task, Bind(t) PROVE Begun(q)'
  BY <1>31 DEF Bind, Begun, RunTypes, runs
<1>32. ASSUME NEW t \in Task, Exit(t) PROVE Begun(q)'
  BY <1>32 DEF Exit, Begun, RunTypes, runs
<1>33. ASSUME NEW t \in Task, Fail(t) PROVE Begun(q)'
  BY <1>33 DEF Fail, Begun, RunTypes, runs
<1>34. ASSUME NEW t \in Task, Alarm(t) PROVE Begun(q)'
  BY <1>34 DEF Alarm, Begun, RunTypes, runs
<1>35. ASSUME TimePasses PROVE Begun(q)'
  BY <1>35 DEF TimePasses, Begun, RunTypes, runs
<1>36. ASSUME CrashAndRestart PROVE Begun(q)'
  <2>1. st'[q] = Reconciled(q)
    BY <1>36 DEF CrashAndRestart
  <2> QED
    BY <2>1 DEF Reconciled, Begun
<1>37. ASSUME UNCHANGED vars PROVE Begun(q)'
  BY <1>37 DEF vars, runs, Begun
<1> HIDE DEF Sound, TypeOK
<1> QED
  BY <1>1, <1>2, <1>3, <1>4, <1>5, <1>6, <1>7, <1>8, <1>9, <1>10, <1>11, <1>12, <1>13,
     <1>14, <1>15, <1>16, <1>17, <1>18, <1>19, <1>20, <1>21, <1>22, <1>23, <1>24, <1>25,
     <1>26, <1>27, <1>28, <1>29, <1>30, <1>31, <1>32, <1>33, <1>34, <1>35, <1>36, <1>37 DEF
     Next

\* A step that launches, mends and loses nothing new keeps what is whose.
LEMMA OwnKept ==
  ASSUME Sound, OwnInv, [Next]_vars,
         \A r \in Run : fault'[r] \in {fault[r], <<>>},
         UNCHANGED <<again, owner>>,
         Launching(Loop)' => Launching(Loop) /\ cur'[Loop] = cur[Loop] /\ on'[Loop] = on[Loop],
         \A c \in Coroutine :
           Restarting(c)' => Restarting(c) /\ cur'[c] = cur[c] /\ on'[c] = on[c]
  PROVE  OwnInv'
<1>1. \A r \in Run : Touched(r)' = Touched(r)
  BY TouchedConstant
<1>2. FaultsOwn'
  <2>1. \A r \in Run : FaultTask(r)' \in {FaultTask(r), NoTask}
    BY DEF FaultTask
  <2> QED
    BY <1>1, <2>1 DEF OwnInv, FaultsOwn
<1>3. OwnersBegun'
  <2>1. \A t \in Task : owner[t] # NoRun => owner[t] \in Run
    BY DEF Sound, TypeOK, TaskTypes
  <2> QED
    BY <1>1, <2>1, BegunStep DEF OwnInv, OwnersBegun
<1>4. LaunchOwn'
  <2>1. Launching(Loop) => cur[Loop] \in Run
    BY LoopRuns DEF Sound, HandInv, Hand
  <2> QED
    BY <1>1, <2>1, BegunStep DEF OwnInv, LaunchOwn
<1>5. MendsOwn'
  <2>1. \A c \in Coroutine : Restarting(c) => cur[c] \in Run
    BY DEF Sound, HandInv, Hand
  <2> QED
    BY <1>1, <2>1 DEF OwnInv, MendsOwn
<1> QED
  BY <1>2, <1>3, <1>4, <1>5 DEF OwnInv

\* Nor does a restart that sets out to mend the fault of its run.
LEMMA OwnRestart ==
  ASSUME Sound, OwnInv, [Next]_vars, NEW c \in Coroutine, NEW r \in Run, NEW how,
         NEW label \in {"idle", "redo"}, Restart(c, r, how, label)
  PROVE  OwnInv'
<1> USE LoopRuns DEF Sound, TypeOK, HandTypes
<1>1. UNCHANGED <<fault, again, owner>>
  BY DEF Restart
<1>2. \A d \in Coroutine : d # c => /\ pc'[d] = pc[d] /\ cur'[d] = cur[d] /\ then'[d] = then[d]
                                   /\ on'[d] = on[d]
  BY DEF Restart, Refused, StopTask, Goto
<1>3. pc[c] \in {"idle", "redo"} /\ pc'[c] \notin {"parked", "exec", "launched"}
  BY DEF Restart, At, Refused, StopTask, Goto
<1>4. Restarting(c)' => on'[c] = FaultTask(r) /\ cur'[c] = r /\ Restartable(r)
  BY DEF Restart, Refused, StopTask, Goto, Restarting, Awaiting
<1>5. \A q \in Run : Touched(q)' = Touched(q)
  BY TouchedConstant
<1>6. MendsOwn'
  <2>1. Restarting(c)' => on'[c] \in Touched(cur'[c])
    BY <1>4, Faulty, NameAssumption DEF OwnInv, FaultsOwn, Restartable
  <2>2. \A d \in Coroutine : d # c => (Restarting(d)' => Restarting(d) /\ cur[d] \in Run)
    BY <1>2 DEF Restarting, Awaiting, HandInv, Hand
  <2>3. cur'[c] = r
    BY DEF Restart
  <2> QED
    BY <1>2, <1>5, <2>1, <2>2, <2>3 DEF OwnInv, MendsOwn
<1>7. FaultsOwn'
  BY <1>1, <1>5 DEF OwnInv, FaultsOwn, FaultTask
<1>8. OwnersBegun'
  <2>1. \A t \in Task : owner[t] # NoRun => owner[t] \in Run
    BY DEF TaskTypes
  <2> QED
    BY <1>1, <1>5, <2>1, BegunStep DEF OwnInv, OwnersBegun
<1>9. LaunchOwn'
  <2>1. Launching(Loop)' => /\ Launching(Loop) /\ cur[Loop] \in Run
                            /\ cur'[Loop] = cur[Loop] /\ on'[Loop] = on[Loop]
    BY <1>2, <1>3 DEF Launching, HandInv, Hand
  <2> QED
    BY <1>5, <2>1, BegunStep DEF OwnInv, LaunchOwn
<1> QED
  BY <1>6, <1>7, <1>8, <1>9 DEF OwnInv

\* No step launches, mends or loses what is not the run's own.
LEMMA OwnStep ==
  ASSUME Sound, OwnInv, [Next]_vars
  PROVE  OwnInv'
<1> USE LoopRuns DEF Sound, TypeOK
<1>1. ASSUME NEW r \in Run, Arm(r) PROVE OwnInv'
  <2>1. UNCHANGED <<fault, again, owner>>
    BY <1>1 DEF Arm, faults, slots
  <2>2. Launching(Loop)' => Launching(Loop) /\ cur'[Loop] = cur[Loop] /\ on'[Loop] = on[Loop]
    BY <1>1 DEF Arm, At, Goto, Launching, HandTypes, HandInv, Hand, hand
  <2>3. \A d \in Coroutine :
          Restarting(d)' => Restarting(d) /\ cur'[d] = cur[d] /\ on'[d] = on[d]
    BY <1>1 DEF Arm, At, Goto, Restarting, Awaiting, HandTypes, hand
  <2> QED
    BY <2>1, <2>2, <2>3, OwnKept
<1>2. ASSUME NEW r \in Run, HoldNow(r) PROVE OwnInv'
  <2>1. UNCHANGED <<fault, again, owner>>
    BY <1>2 DEF HoldNow, faults, slots
  <2>2. Launching(Loop)' => Launching(Loop) /\ cur'[Loop] = cur[Loop] /\ on'[Loop] = on[Loop]
    BY <1>2 DEF HoldNow, At, Goto, Launching, HandTypes, HandInv, Hand, hand
  <2>3. \A d \in Coroutine :
          Restarting(d)' => Restarting(d) /\ cur'[d] = cur[d] /\ on'[d] = on[d]
    BY <1>2 DEF HoldNow, At, Goto, Restarting, Awaiting, HandTypes, hand
  <2> QED
    BY <2>1, <2>2, <2>3, OwnKept
<1>3. ASSUME NEW r \in Run, NEW to \in Ends, Patch(r, to) PROVE OwnInv'
  <2>1. UNCHANGED <<fault, again, owner>>
    BY <1>3 DEF Patch, faults, slots
  <2>2. Launching(Loop)' => Launching(Loop) /\ cur'[Loop] = cur[Loop] /\ on'[Loop] = on[Loop]
    BY <1>3 DEF Patch, At, Goto, Launching, HandTypes, HandInv, Hand, hand
  <2>3. \A d \in Coroutine :
          Restarting(d)' => Restarting(d) /\ cur'[d] = cur[d] /\ on'[d] = on[d]
    BY <1>3 DEF Patch, At, Goto, Restarting, Awaiting, HandTypes, hand
  <2> QED
    BY <2>1, <2>2, <2>3, OwnKept
<1>4. ASSUME NEW r \in Run, NEW resume \in {now, now + 1}, Proceed(r, resume) PROVE OwnInv'
  <2>1. UNCHANGED <<fault, again, owner>>
    BY <1>4 DEF Proceed, faults, slots
  <2>2. Launching(Loop)' => Launching(Loop) /\ cur'[Loop] = cur[Loop] /\ on'[Loop] = on[Loop]
    BY <1>4 DEF Proceed, At, Goto, Launching, HandTypes, HandInv, Hand, hand
  <2>3. \A d \in Coroutine :
          Restarting(d)' => Restarting(d) /\ cur'[d] = cur[d] /\ on'[d] = on[d]
    BY <1>4 DEF Proceed, At, Goto, Restarting, Awaiting, HandTypes, hand
  <2> QED
    BY <2>1, <2>2, <2>3, OwnKept
<1>5. ASSUME NEW r \in Run, RestartUnattended(r) PROVE OwnInv'
  <2>1. Restart(Loop, r, "resync", "redo")
    BY <1>5 DEF RestartUnattended
  <2> QED
    BY <2>1, OwnRestart
<1>6. ASSUME NEW r \in Run, Forgive(r) PROVE OwnInv'
  <2>1. UNCHANGED <<fault, again, owner>>
    BY <1>6 DEF Forgive, faults, slots
  <2>2. Launching(Loop)' => Launching(Loop) /\ cur'[Loop] = cur[Loop] /\ on'[Loop] = on[Loop]
    BY <1>6 DEF Forgive, At, Goto, Launching, HandTypes, HandInv, Hand, hand
  <2>3. \A d \in Coroutine :
          Restarting(d)' => Restarting(d) /\ cur'[d] = cur[d] /\ on'[d] = on[d]
    BY <1>6 DEF Forgive, At, Goto, Restarting, Awaiting, HandTypes, hand
  <2> QED
    BY <2>1, <2>2, <2>3, OwnKept
<1>7. ASSUME NEW c \in Caller, AbortAll(c) PROVE OwnInv'
  <2>1. UNCHANGED <<fault, again, owner>>
    BY <1>7 DEF AbortAll, faults, slots
  <2>2. Launching(Loop)' => Launching(Loop) /\ cur'[Loop] = cur[Loop] /\ on'[Loop] = on[Loop]
    BY <1>7 DEF AbortAll, At, Goto, Launching, HandTypes, HandInv, Hand, hand
  <2>3. \A d \in Coroutine :
          Restarting(d)' => Restarting(d) /\ cur'[d] = cur[d] /\ on'[d] = on[d]
    BY <1>7 DEF AbortAll, At, Goto, Restarting, Awaiting, HandTypes, hand
  <2> QED
    BY <2>1, <2>2, <2>3, OwnKept
<1>8. ASSUME NEW c \in Caller, NEW r \in Run, Cancel(c, r) PROVE OwnInv'
  <2>1. UNCHANGED <<fault, again, owner>>
    BY <1>8 DEF Cancel, faults, slots
  <2>2. Launching(Loop)' => Launching(Loop) /\ cur'[Loop] = cur[Loop] /\ on'[Loop] = on[Loop]
    BY <1>8 DEF Cancel, At, Goto, Launching, HandTypes, HandInv, Hand, hand
  <2>3. \A d \in Coroutine :
          Restarting(d)' => Restarting(d) /\ cur'[d] = cur[d] /\ on'[d] = on[d]
    BY <1>8 DEF Cancel, At, Goto, Restarting, Awaiting, HandTypes, hand
  <2> QED
    BY <2>1, <2>2, <2>3, OwnKept
<1>9. ASSUME NEW c \in Caller, NEW r \in Run, NEW how \in Modes, RestartByHand(c, r, how) PROVE OwnInv'
  <2>1. Restart(c, r, how, "idle")
    BY <1>9 DEF RestartByHand
  <2> QED
    BY <2>1, OwnRestart
<1>10. ASSUME NEW c \in Coroutine, Muted(c) PROVE OwnInv'
  <2>1. UNCHANGED <<fault, again, owner>>
    BY <1>10 DEF Muted, faults, slots
  <2>2. Launching(Loop)' => Launching(Loop) /\ cur'[Loop] = cur[Loop] /\ on'[Loop] = on[Loop]
    BY <1>10 DEF Muted, At, Goto, Launching, HandTypes, HandInv, Hand, hand
  <2>3. \A d \in Coroutine :
          Restarting(d)' => Restarting(d) /\ cur'[d] = cur[d] /\ on'[d] = on[d]
    BY <1>10 DEF Muted, At, Goto, Restarting, Awaiting, HandTypes, hand
  <2> QED
    BY <2>1, <2>2, <2>3, OwnKept
<1>11. ASSUME NEW c \in Coroutine, Swept(c) PROVE OwnInv'
  <2>1. UNCHANGED <<fault, again, owner>>
    BY <1>11 DEF Swept, faults, slots
  <2>2. Launching(Loop)' => Launching(Loop) /\ cur'[Loop] = cur[Loop] /\ on'[Loop] = on[Loop]
    BY <1>11 DEF Swept, At, Goto, Launching, HandTypes, HandInv, Hand, hand
  <2>3. \A d \in Coroutine :
          Restarting(d)' => Restarting(d) /\ cur'[d] = cur[d] /\ on'[d] = on[d]
    BY <1>11 DEF Swept, At, Goto, Restarting, Awaiting, HandTypes, hand
  <2> QED
    BY <2>1, <2>2, <2>3, OwnKept
<1>12. ASSUME NEW c \in Coroutine, RestartRefused(c) PROVE OwnInv'
  <2>1. UNCHANGED <<fault, again, owner>>
    BY <1>12 DEF RestartRefused, faults, slots
  <2>2. Launching(Loop)' => Launching(Loop) /\ cur'[Loop] = cur[Loop] /\ on'[Loop] = on[Loop]
    BY <1>12 DEF RestartRefused, Refused, At, Goto, Launching, HandTypes, HandInv, Hand,
       hand
  <2>3. \A d \in Coroutine :
          Restarting(d)' => Restarting(d) /\ cur'[d] = cur[d] /\ on'[d] = on[d]
    BY <1>12 DEF RestartRefused, Refused, At, Goto, Restarting, Awaiting, HandTypes,
       hand
  <2> QED
    BY <2>1, <2>2, <2>3, OwnKept
<1>13. ASSUME NEW c \in Coroutine, Commit(c) PROVE OwnInv'
  <2> DEFINE q == cur[c]
  <2>1. q \in Run /\ on[c] \in Touched(q) /\ Restarting(c)
    BY <1>13 DEF Commit, At, HandInv, Hand, Restarting, OwnInv, MendsOwn
  <2>2. UNCHANGED <<cur, on, then, owner>>
    BY <1>13 DEF Commit, hand, slots
  <2>3. \A r \in Run : Touched(r)' = Touched(r)
    BY TouchedConstant
  <2>4. \A r \in Run : /\ fault'[r] \in {fault[r], <<>>}
                       /\ again'[r] = again[r] \/ (r = q /\ again'[r] = on[c])
    BY <1>13, <2>1 DEF Commit, FaultTypes
  <2>5. FaultsOwn'
    <3>1. \A r \in Run : FaultTask(r)' \in {FaultTask(r), NoTask}
      BY <2>4 DEF FaultTask
    <3> QED
      BY <2>1, <2>3, <2>4, <3>1 DEF OwnInv, FaultsOwn
  <2>6. \A d \in Coroutine : Restarting(d)' => Restarting(d) /\ cur[d] \in Run
    BY <1>13 DEF Commit, Goto, Restarting, Awaiting, HandTypes, HandInv, Hand, hand
  <2>7. MendsOwn'
    BY <2>2, <2>3, <2>6 DEF OwnInv, MendsOwn
  <2>8. LaunchOwn'
    <3>1. Launching(Loop)' => Launching(Loop) /\ cur[Loop] \in Run
      BY <1>13 DEF Commit, Goto, Launching, HandTypes, HandInv, Hand
    <3> QED
      BY <2>2, <2>3, <3>1, BegunStep DEF OwnInv, LaunchOwn
  <2>9. OwnersBegun'
    <3>1. \A u \in Task : owner[u] # NoRun => owner[u] \in Run
      BY DEF TaskTypes
    <3> QED
      BY <2>2, <2>3, <3>1, BegunStep DEF OwnInv, OwnersBegun
  <2> QED
    BY <2>5, <2>7, <2>8, <2>9 DEF OwnInv
<1>14. ASSUME NEW c \in Coroutine, NEW r \in Run, Abort(c, r) PROVE OwnInv'
  <2>1. UNCHANGED <<fault, again, owner>>
    BY <1>14 DEF Abort, faults, slots
  <2>2. Launching(Loop)' => Launching(Loop) /\ cur'[Loop] = cur[Loop] /\ on'[Loop] = on[Loop]
    BY <1>14 DEF Abort, At, Goto, Launching, HandTypes, HandInv, Hand, hand
  <2>3. \A d \in Coroutine :
          Restarting(d)' => Restarting(d) /\ cur'[d] = cur[d] /\ on'[d] = on[d]
    BY <1>14 DEF Abort, At, Goto, Restarting, Awaiting, HandTypes, hand
  <2> QED
    BY <2>1, <2>2, <2>3, OwnKept
<1>15. ASSUME NEW c \in Coroutine, NEW n \in {1, 2}, NEW t \in Task, Sweep(c, n, t) PROVE OwnInv'
  <2>1. UNCHANGED <<fault, again, owner>>
    BY <1>15 DEF Sweep, faults, slots
  <2>2. Launching(Loop)' => Launching(Loop) /\ cur'[Loop] = cur[Loop] /\ on'[Loop] = on[Loop]
    BY <1>15 DEF Sweep, StopTask, Goto, At, Launching, HandTypes, HandInv, Hand, hand
  <2>3. \A d \in Coroutine :
          Restarting(d)' => Restarting(d) /\ cur'[d] = cur[d] /\ on'[d] = on[d]
    BY <1>15 DEF Sweep, StopTask, Goto, At, Restarting, Awaiting, HandTypes, hand
  <2> QED
    BY <2>1, <2>2, <2>3, OwnKept
<1>16. ASSUME NEW b \in batch, FireSkipped(b) PROVE OwnInv'
  <2>1. UNCHANGED <<fault, again, owner>>
    BY <1>16 DEF FireSkipped, faults, slots
  <2>2. Launching(Loop)' => Launching(Loop) /\ cur'[Loop] = cur[Loop] /\ on'[Loop] = on[Loop]
    BY <1>16 DEF FireSkipped, At, Goto, Launching, HandTypes, HandInv, Hand, hand
  <2>3. \A d \in Coroutine :
          Restarting(d)' => Restarting(d) /\ cur'[d] = cur[d] /\ on'[d] = on[d]
    BY <1>16 DEF FireSkipped, At, Goto, Restarting, Awaiting, HandTypes, hand
  <2> QED
    BY <2>1, <2>2, <2>3, OwnKept
<1>17. ASSUME NEW b \in batch, TuneDeferred(b) PROVE OwnInv'
  <2>1. UNCHANGED <<fault, again, owner>>
    BY <1>17 DEF TuneDeferred, faults, slots
  <2>2. Launching(Loop)' => Launching(Loop) /\ cur'[Loop] = cur[Loop] /\ on'[Loop] = on[Loop]
    BY <1>17 DEF TuneDeferred, At, Goto, Launching, HandTypes, HandInv, Hand, hand
  <2>3. \A d \in Coroutine :
          Restarting(d)' => Restarting(d) /\ cur'[d] = cur[d] /\ on'[d] = on[d]
    BY <1>17 DEF TuneDeferred, At, Goto, Restarting, Awaiting, HandTypes, hand
  <2> QED
    BY <2>1, <2>2, <2>3, OwnKept
<1>18. ASSUME NEW b \in batch, TuneDropped(b) PROVE OwnInv'
  <2>1. UNCHANGED <<fault, again, owner>>
    BY <1>18 DEF TuneDropped, faults, slots
  <2>2. Launching(Loop)' => Launching(Loop) /\ cur'[Loop] = cur[Loop] /\ on'[Loop] = on[Loop]
    BY <1>18 DEF TuneDropped, At, Goto, Launching, HandTypes, HandInv, Hand, hand
  <2>3. \A d \in Coroutine :
          Restarting(d)' => Restarting(d) /\ cur'[d] = cur[d] /\ on'[d] = on[d]
    BY <1>18 DEF TuneDropped, At, Goto, Restarting, Awaiting, HandTypes, hand
  <2> QED
    BY <2>1, <2>2, <2>3, OwnKept
<1>19. ASSUME NEW b \in batch, Tune(b) PROVE OwnInv'
  <2>1. UNCHANGED <<fault, again, owner>>
    BY <1>19 DEF Tune, faults, slots
  <2>2. Launching(Loop)' => Launching(Loop) /\ cur'[Loop] = cur[Loop] /\ on'[Loop] = on[Loop]
    BY <1>19 DEF Tune, Take, At, Goto, Launching, HandTypes, HandInv, Hand, hand
  <2>3. \A d \in Coroutine :
          Restarting(d)' => Restarting(d) /\ cur'[d] = cur[d] /\ on'[d] = on[d]
    BY <1>19 DEF Tune, Take, At, Goto, Restarting, Awaiting, HandTypes, hand
  <2> QED
    BY <2>1, <2>2, <2>3, OwnKept
<1>20. ASSUME NEW b \in batch, Start(b) PROVE OwnInv'
  <2> DEFINE q == b.run
             t == TaskOf(q, b.step)
  <2>1. q \in Run /\ t \in Task /\ b.step \in Known(q)
    BY BatchTypes DEF SlotsInv
  <2>2. UNCHANGED <<fault, again, owner>>
    BY <1>20 DEF Start, faults
  <2>3. cur'[Loop] = q /\ on'[Loop] = t /\ st'[q] = "RUNNING"
    BY <1>20, <2>1 DEF Start, Take, RunTypes, HandTypes
  <2>4. t \in Touched(q)
    <3>1. CASE b.step \in Steps(q)
      BY <3>1 DEF Touched
    <3>2. CASE b.step = N
      BY <2>1, <3>2, NameAssumption DEF TaskOf, StepAt, OwnInv, FaultsOwn
    <3> QED
      BY <2>1, <3>1, <3>2 DEF Known
  <2>5. \A r \in Run : Touched(r)' = Touched(r)
    BY TouchedConstant
  <2>6. LaunchOwn'
    BY <2>1, <2>3, <2>4, <2>5 DEF LaunchOwn, Begun
  <2>7. \A d \in Coroutine :
          Restarting(d)' => Restarting(d) /\ cur'[d] = cur[d] /\ on'[d] = on[d] /\ cur[d] \in Run
    BY <1>20 DEF Start, Take, At, Goto, Restarting, Awaiting, HandTypes, HandInv, Hand
  <2>8. MendsOwn'
    BY <2>5, <2>7 DEF MendsOwn, OwnInv
  <2>9. FaultsOwn'
    BY <2>2, <2>5 DEF OwnInv, FaultsOwn, FaultTask
  <2>10. OwnersBegun'
    <3>1. \A u \in Task : owner[u] # NoRun => owner[u] \in Run
      BY DEF TaskTypes
    <3> QED
      BY <2>2, <2>5, <3>1, BegunStep DEF OwnInv, OwnersBegun
  <2> QED
    BY <2>6, <2>8, <2>9, <2>10 DEF OwnInv
<1>21. ASSUME NEW b \in batch, Stop(b) PROVE OwnInv'
  <2>1. UNCHANGED <<fault, again, owner>>
    BY <1>21 DEF Stop, faults, slots
  <2>2. Launching(Loop)' => Launching(Loop) /\ cur'[Loop] = cur[Loop] /\ on'[Loop] = on[Loop]
    BY <1>21 DEF Stop, Take, StopTask, Goto, At, Launching, HandTypes, HandInv, Hand,
       hand
  <2>3. \A d \in Coroutine :
          Restarting(d)' => Restarting(d) /\ cur'[d] = cur[d] /\ on'[d] = on[d]
    BY <1>21 DEF Stop, Take, StopTask, Goto, At, Restarting, Awaiting, HandTypes, hand
  <2> QED
    BY <2>1, <2>2, <2>3, OwnKept
<1>22. ASSUME Tick PROVE OwnInv'
  <2>1. UNCHANGED <<fault, again, owner>>
    BY <1>22 DEF Tick, faults, slots
  <2>2. Launching(Loop)' => Launching(Loop) /\ cur'[Loop] = cur[Loop] /\ on'[Loop] = on[Loop]
    BY <1>22 DEF Tick, At, Goto, Launching, HandTypes, HandInv, Hand, hand
  <2>3. \A d \in Coroutine :
          Restarting(d)' => Restarting(d) /\ cur'[d] = cur[d] /\ on'[d] = on[d]
    BY <1>22 DEF Tick, At, Goto, Restarting, Awaiting, HandTypes, hand
  <2> QED
    BY <2>1, <2>2, <2>3, OwnKept
<1>23. ASSUME Tuned PROVE OwnInv'
  <2>1. UNCHANGED <<fault, again, owner>>
    BY <1>23 DEF Tuned, faults, slots
  <2>2. Launching(Loop)' => Launching(Loop) /\ cur'[Loop] = cur[Loop] /\ on'[Loop] = on[Loop]
    BY <1>23 DEF Tuned, At, Goto, Launching, HandTypes, HandInv, Hand, hand
  <2>3. \A d \in Coroutine :
          Restarting(d)' => Restarting(d) /\ cur'[d] = cur[d] /\ on'[d] = on[d]
    BY <1>23 DEF Tuned, At, Goto, Restarting, Awaiting, HandTypes, hand
  <2> QED
    BY <2>1, <2>2, <2>3, OwnKept
<1>24. ASSUME Unpark PROVE OwnInv'
  <2>1. cur[Loop] \in Run /\ on[Loop] \in Task /\ Launching(Loop)
    BY <1>24 DEF Unpark, At, HandInv, Hand, Launching
  <2>2. UNCHANGED <<again, cur, on, then>>
    BY <1>24 DEF Unpark, hand
  <2>3. \A r \in Run : Touched(r)' = Touched(r)
    BY TouchedConstant
  <2>4. Couple(on[Loop]) \/ UNCHANGED fault
    BY <1>24 DEF Unpark
  <2>5. \A r \in Run : FaultTask(r)' \in Touched(r) \cup {NoTask}
    <3>1. CASE UNCHANGED fault
      BY <3>1 DEF FaultTask, OwnInv, FaultsOwn
    <3> QED
      BY <2>1, <2>4, <3>1, CoupleOwn DEF OwnInv
  <2>6. FaultsOwn'
    BY <2>2, <2>3, <2>5 DEF OwnInv, FaultsOwn
  <2>7. \A c \in Coroutine : Restarting(c)' => Restarting(c) /\ cur[c] \in Run
    BY <1>24, <2>2 DEF Unpark, At, Goto, Woken, Restarting, Awaiting, HandTypes,
       HandInv, Hand
  <2>8. MendsOwn'
    BY <2>2, <2>3, <2>7 DEF OwnInv, MendsOwn
  <2>9. LaunchOwn'
    BY <2>1, <2>2, <2>3, BegunStep DEF OwnInv, LaunchOwn
  <2>10. OwnersBegun'
    <3>1. \A t \in Task : owner[t] # NoRun => owner[t] \in Run
      BY DEF TaskTypes
    <3>2. \A t \in Task : owner'[t] = owner[t] \/ (t = on[Loop] /\ owner'[t] = cur[Loop])
      BY <1>24 DEF Unpark, TaskTypes
    <3> QED
      BY <2>1, <2>3, <3>1, <3>2, BegunStep DEF OwnInv, OwnersBegun, LaunchOwn
  <2> QED
    BY <2>6, <2>8, <2>9, <2>10 DEF OwnInv
<1>25. ASSUME Exec PROVE OwnInv'
  <2>1. cur[Loop] \in Run /\ on[Loop] \in Task /\ Launching(Loop)
    BY <1>25 DEF Exec, At, HandInv, Hand, Launching
  <2>2. UNCHANGED <<again, cur, on, then>>
    BY <1>25 DEF Exec, hand
  <2>3. \A r \in Run : Touched(r)' = Touched(r)
    BY TouchedConstant
  <2>4. Couple(on[Loop]) \/ UNCHANGED fault
    BY <1>25 DEF Exec
  <2>5. \A r \in Run : FaultTask(r)' \in Touched(r) \cup {NoTask}
    <3>1. CASE UNCHANGED fault
      BY <3>1 DEF FaultTask, OwnInv, FaultsOwn
    <3> QED
      BY <2>1, <2>4, <3>1, CoupleOwn DEF OwnInv
  <2>6. FaultsOwn'
    BY <2>2, <2>3, <2>5 DEF OwnInv, FaultsOwn
  <2>7. \A c \in Coroutine : Restarting(c)' => Restarting(c) /\ cur[c] \in Run
    BY <1>25, <2>2 DEF Exec, At, Goto, Woken, Restarting, Awaiting, HandTypes, HandInv,
       Hand
  <2>8. MendsOwn'
    BY <2>2, <2>3, <2>7 DEF OwnInv, MendsOwn
  <2>9. LaunchOwn'
    BY <2>1, <2>2, <2>3, BegunStep DEF OwnInv, LaunchOwn
  <2>10. OwnersBegun'
    <3>1. \A t \in Task : owner[t] # NoRun => owner[t] \in Run
      BY DEF TaskTypes
    <3>2. \A t \in Task : owner'[t] = owner[t] \/ (t = on[Loop] /\ owner'[t] = cur[Loop])
      BY <1>25 DEF Exec, TaskTypes
    <3> QED
      BY <2>1, <2>3, <3>1, <3>2, BegunStep DEF OwnInv, OwnersBegun, LaunchOwn
  <2> QED
    BY <2>6, <2>8, <2>9, <2>10 DEF OwnInv
<1>26. ASSUME Launched PROVE OwnInv'
  <2>1. UNCHANGED <<fault, again, owner>>
    BY <1>26 DEF Launched, faults, slots
  <2>2. Launching(Loop)' => Launching(Loop) /\ cur'[Loop] = cur[Loop] /\ on'[Loop] = on[Loop]
    BY <1>26 DEF Launched, StopTask, Goto, At, Launching, HandTypes, HandInv, Hand, hand
  <2>3. \A d \in Coroutine :
          Restarting(d)' => Restarting(d) /\ cur'[d] = cur[d] /\ on'[d] = on[d]
    BY <1>26 DEF Launched, StopTask, Goto, At, Restarting, Awaiting, HandTypes, hand
  <2> QED
    BY <2>1, <2>2, <2>3, OwnKept
<1>27. ASSUME After PROVE OwnInv'
  <2>1. UNCHANGED <<fault, again, owner>>
    BY <1>27 DEF After, faults, slots
  <2>2. Launching(Loop)' => Launching(Loop) /\ cur'[Loop] = cur[Loop] /\ on'[Loop] = on[Loop]
    BY <1>27 DEF After, At, Goto, Launching, HandTypes, HandInv, Hand, hand
  <2>3. \A d \in Coroutine :
          Restarting(d)' => Restarting(d) /\ cur'[d] = cur[d] /\ on'[d] = on[d]
    BY <1>27 DEF After, At, Goto, Restarting, Awaiting, HandTypes, hand
  <2> QED
    BY <2>1, <2>2, <2>3, OwnKept
<1>28. ASSUME Holds PROVE OwnInv'
  <2>1. UNCHANGED <<fault, again, owner>>
    BY <1>28 DEF Holds, faults, slots
  <2>2. Launching(Loop)' => Launching(Loop) /\ cur'[Loop] = cur[Loop] /\ on'[Loop] = on[Loop]
    BY <1>28 DEF Holds, At, Goto, Launching, HandTypes, HandInv, Hand, hand
  <2>3. \A d \in Coroutine :
          Restarting(d)' => Restarting(d) /\ cur'[d] = cur[d] /\ on'[d] = on[d]
    BY <1>28 DEF Holds, At, Goto, Restarting, Awaiting, HandTypes, hand
  <2> QED
    BY <2>1, <2>2, <2>3, OwnKept
<1>29. ASSUME Collect PROVE OwnInv'
  <2>1. UNCHANGED <<fault, again, owner>>
    BY <1>29 DEF Collect, faults, slots
  <2>2. Launching(Loop)' => Launching(Loop) /\ cur'[Loop] = cur[Loop] /\ on'[Loop] = on[Loop]
    BY <1>29 DEF Collect, At, Goto, Launching, HandTypes, HandInv, Hand, hand
  <2>3. \A d \in Coroutine :
          Restarting(d)' => Restarting(d) /\ cur'[d] = cur[d] /\ on'[d] = on[d]
    BY <1>29 DEF Collect, At, Goto, Restarting, Awaiting, HandTypes, hand
  <2> QED
    BY <2>1, <2>2, <2>3, OwnKept
<1>30. ASSUME Sleep PROVE OwnInv'
  <2>1. UNCHANGED <<fault, again, owner>>
    BY <1>30 DEF Sleep, faults, slots
  <2>2. Launching(Loop)' => Launching(Loop) /\ cur'[Loop] = cur[Loop] /\ on'[Loop] = on[Loop]
    BY <1>30 DEF Sleep, At, Goto, Launching, HandTypes, HandInv, Hand, hand
  <2>3. \A d \in Coroutine :
          Restarting(d)' => Restarting(d) /\ cur'[d] = cur[d] /\ on'[d] = on[d]
    BY <1>30 DEF Sleep, At, Goto, Restarting, Awaiting, HandTypes, hand
  <2> QED
    BY <2>1, <2>2, <2>3, OwnKept
<1>31. ASSUME NEW t \in Task, Bind(t) PROVE OwnInv'
  <2>1. UNCHANGED <<fault, again, owner>>
    BY <1>31 DEF Bind, faults, slots
  <2>2. Launching(Loop)' => Launching(Loop) /\ cur'[Loop] = cur[Loop] /\ on'[Loop] = on[Loop]
    BY <1>31 DEF Bind, At, Goto, Launching, HandTypes, HandInv, Hand, hand
  <2>3. \A d \in Coroutine :
          Restarting(d)' => Restarting(d) /\ cur'[d] = cur[d] /\ on'[d] = on[d]
    BY <1>31 DEF Bind, At, Goto, Restarting, Awaiting, HandTypes, hand
  <2> QED
    BY <2>1, <2>2, <2>3, OwnKept
<1>32. ASSUME NEW t \in Task, Exit(t) PROVE OwnInv'
  <2>1. UNCHANGED <<fault, again, owner>>
    BY <1>32 DEF Exit, faults, slots
  <2>2. Launching(Loop)' => Launching(Loop) /\ cur'[Loop] = cur[Loop] /\ on'[Loop] = on[Loop]
    BY <1>32 DEF Exit, Woken, At, Goto, Launching, HandTypes, HandInv, Hand, hand
  <2>3. \A d \in Coroutine :
          Restarting(d)' => Restarting(d) /\ cur'[d] = cur[d] /\ on'[d] = on[d]
    BY <1>32 DEF Exit, Woken, At, Goto, Restarting, Awaiting, HandTypes, hand
  <2> QED
    BY <2>1, <2>2, <2>3, OwnKept
<1>33. ASSUME NEW t \in Task, Fail(t) PROVE OwnInv'
  <2>1. UNCHANGED <<fault, again, owner>>
    BY <1>33 DEF Fail, faults, slots
  <2>2. Launching(Loop)' => Launching(Loop) /\ cur'[Loop] = cur[Loop] /\ on'[Loop] = on[Loop]
    BY <1>33 DEF Fail, At, Goto, Launching, HandTypes, HandInv, Hand, hand
  <2>3. \A d \in Coroutine :
          Restarting(d)' => Restarting(d) /\ cur'[d] = cur[d] /\ on'[d] = on[d]
    BY <1>33 DEF Fail, At, Goto, Restarting, Awaiting, HandTypes, hand
  <2> QED
    BY <2>1, <2>2, <2>3, OwnKept
<1>34. ASSUME NEW t \in Task, Alarm(t) PROVE OwnInv'
  <2>1. UNCHANGED <<again, pc, cur, on, then, owner>>
    BY <1>34 DEF Alarm, hand
  <2>2. \A r \in Run : Touched(r)' = Touched(r)
    BY TouchedConstant
  <2>3. FaultsOwn'
    BY <1>34, <2>1, <2>2, CoupleOwn DEF Alarm, OwnInv, FaultsOwn
  <2>4. MendsOwn'
    <3>1. \A c \in Coroutine : Restarting(c)' => Restarting(c) /\ cur[c] \in Run
      BY <2>1 DEF Restarting, Awaiting, HandInv, Hand
    <3> QED
      BY <2>1, <2>2, <3>1 DEF OwnInv, MendsOwn
  <2>5. LaunchOwn'
    <3>1. Launching(Loop)' => Launching(Loop) /\ cur[Loop] \in Run
      BY <2>1 DEF Launching, HandInv, Hand
    <3> QED
      BY <2>1, <2>2, <3>1, BegunStep DEF OwnInv, LaunchOwn
  <2>6. OwnersBegun'
    <3>1. \A u \in Task : owner[u] # NoRun => owner[u] \in Run
      BY DEF TaskTypes
    <3> QED
      BY <2>1, <2>2, <3>1, BegunStep DEF OwnInv, OwnersBegun
  <2> QED
    BY <2>3, <2>4, <2>5, <2>6 DEF OwnInv
<1>35. ASSUME TimePasses PROVE OwnInv'
  <2>1. UNCHANGED <<fault, again, owner>>
    BY <1>35 DEF TimePasses, faults, slots
  <2>2. Launching(Loop)' => Launching(Loop) /\ cur'[Loop] = cur[Loop] /\ on'[Loop] = on[Loop]
    BY <1>35 DEF TimePasses, At, Goto, Launching, HandTypes, HandInv, Hand, hand
  <2>3. \A d \in Coroutine :
          Restarting(d)' => Restarting(d) /\ cur'[d] = cur[d] /\ on'[d] = on[d]
    BY <1>35 DEF TimePasses, At, Goto, Restarting, Awaiting, HandTypes, hand
  <2> QED
    BY <2>1, <2>2, <2>3, OwnKept
<1>36. ASSUME CrashAndRestart PROVE OwnInv'
  <2>1. UNCHANGED <<fault, again, owner>>
    BY <1>36 DEF CrashAndRestart
  <2>2. \A d \in Coroutine : pc'[d] \in {"idle", "done"}
    BY <1>36 DEF CrashAndRestart
  <2>3. ~Launching(Loop)' /\ \A d \in Coroutine : ~Restarting(d)'
    BY <2>2 DEF Launching, Restarting, Awaiting
  <2> QED
    BY <2>1, <2>3, OwnKept
<1>37. ASSUME UNCHANGED vars PROVE OwnInv'
  <2>1. UNCHANGED <<fault, again, owner, pc, then, cur, on>>
    BY <1>37 DEF vars, faults, hand, slots
  <2> QED
    BY <2>1, OwnKept DEF Launching, Restarting, Awaiting
<1> HIDE DEF Sound, TypeOK
<1> QED
  BY <1>1, <1>2, <1>3, <1>4, <1>5, <1>6, <1>7, <1>8, <1>9, <1>10, <1>11, <1>12, <1>13,
     <1>14, <1>15, <1>16, <1>17, <1>18, <1>19, <1>20, <1>21, <1>22, <1>23, <1>24, <1>25,
     <1>26, <1>27, <1>28, <1>29, <1>30, <1>31, <1>32, <1>33, <1>34, <1>35, <1>36, <1>37 DEF
     Next

-----------------------------------------------------------------------------
(* Nothing stays on the air for a run that is over.                        *)

\* A task is about to be stopped for its run: a sweep has it before it, or the
\* loop looks at what it has just launched.
Pending(r, t) ==
  \/ \E c \in Coroutine : cur[c] = r /\ \E n \in {1, 2} : <<n, t>> \in left[c]
  \/ pc[Loop] = "launched" /\ cur[Loop] = r /\ on[Loop] = t
Over == {"COMPLETED", "CANCELLED", "ABORTED"}
SilentIn(S) ==
  \A t \in Task, r \in Run : (air[t] = "on" /\ owner[t] = r /\ st[r] \in S) => Pending(r, t)

\* A task stays pending while the sweeps stand and the loop looks.
LEMMA PendingKept ==
  ASSUME NEW r, NEW t, Pending(r, t),
         \A c \in Coroutine : left[c] # {} => left'[c] = left[c] /\ cur'[c] = cur[c],
         pc[Loop] = "launched" => /\ pc'[Loop] = "launched" /\ cur'[Loop] = cur[Loop]
                                  /\ on'[Loop] = on[Loop]
  PROVE  Pending(r, t)'
BY DEF Pending

\* What is on the air for a run that is over, but did not complete just now, is
\* about to be stopped, after every step.
LEMMA SilentStep ==
  ASSUME Sound, OwnInv, NEW S \in SUBSET Over, SilentIn(S), NEW q \in Run, NEW u \in Task,
         air'[u] = "on", owner'[u] = q, st'[q] \in S,
         st'[q] = "COMPLETED" => st[q] = "COMPLETED",
         [Next]_vars
  PROVE  Pending(q, u)'
<1> USE LoopRuns DEF Sound, TypeOK
<1>1. ASSUME NEW r \in Run, Arm(r) PROVE Pending(q, u)'
  <2>1. air[u] = "on" /\ owner[u] = q
    BY <1>1 DEF Arm, slots, TaskTypes
  <2>2. st[q] \in S
    BY <1>1 DEF Arm, runs, RunTypes, Over
  <2>3. \A d \in Coroutine : left[d] # {} => left'[d] = left[d] /\ cur'[d] = cur[d]
    BY <1>1 DEF Arm, work, hand, At, HandInv, Hand, Awaiting, HandTypes, WorkTypes
  <2>4. pc[Loop] = "launched" => /\ pc'[Loop] = "launched" /\ cur'[Loop] = cur[Loop]
                                 /\ on'[Loop] = on[Loop]
    BY <1>1 DEF Arm, hand, At, Quiet, InHand, Woken, Goto, HandTypes
  <2> QED
    BY <2>1, <2>2, <2>3, <2>4, PendingKept DEF SilentIn
<1>2. ASSUME NEW r \in Run, HoldNow(r) PROVE Pending(q, u)'
  <2>1. air[u] = "on" /\ owner[u] = q
    BY <1>2 DEF HoldNow, slots, TaskTypes
  <2>2. st[q] \in S
    BY <1>2 DEF HoldNow, runs, RunTypes, Over
  <2>3. \A d \in Coroutine : left[d] # {} => left'[d] = left[d] /\ cur'[d] = cur[d]
    BY <1>2 DEF HoldNow, work, hand, At, HandInv, Hand, Awaiting, HandTypes, WorkTypes
  <2>4. pc[Loop] = "launched" => /\ pc'[Loop] = "launched" /\ cur'[Loop] = cur[Loop]
                                 /\ on'[Loop] = on[Loop]
    BY <1>2 DEF HoldNow, hand, At, Quiet, InHand, Woken, Goto, HandTypes
  <2> QED
    BY <2>1, <2>2, <2>3, <2>4, PendingKept DEF SilentIn
<1>3. ASSUME NEW r \in Run, NEW to \in Ends, Patch(r, to) PROVE Pending(q, u)'
  <2>1. air[u] = "on" /\ owner[u] = q
    BY <1>3 DEF Patch, slots, TaskTypes
  <2>2. st[q] \in S
    BY <1>3 DEF Patch, runs, RunTypes, Over
  <2>3. \A d \in Coroutine : left[d] # {} => left'[d] = left[d] /\ cur'[d] = cur[d]
    BY <1>3 DEF Patch, work, hand, At, HandInv, Hand, Awaiting, HandTypes, WorkTypes
  <2>4. pc[Loop] = "launched" => /\ pc'[Loop] = "launched" /\ cur'[Loop] = cur[Loop]
                                 /\ on'[Loop] = on[Loop]
    BY <1>3 DEF Patch, hand, At, Quiet, InHand, Woken, Goto, HandTypes
  <2> QED
    BY <2>1, <2>2, <2>3, <2>4, PendingKept DEF SilentIn
<1>4. ASSUME NEW r \in Run, NEW resume \in {now, now + 1}, Proceed(r, resume) PROVE Pending(q, u)'
  <2>1. air[u] = "on" /\ owner[u] = q
    BY <1>4 DEF Proceed, slots, TaskTypes
  <2>2. st[q] \in S
    BY <1>4 DEF Proceed, runs, RunTypes, Over
  <2>3. \A d \in Coroutine : left[d] # {} => left'[d] = left[d] /\ cur'[d] = cur[d]
    BY <1>4 DEF Proceed, work, hand, At, HandInv, Hand, Awaiting, HandTypes, WorkTypes
  <2>4. pc[Loop] = "launched" => /\ pc'[Loop] = "launched" /\ cur'[Loop] = cur[Loop]
                                 /\ on'[Loop] = on[Loop]
    BY <1>4 DEF Proceed, hand, At, Quiet, InHand, Woken, Goto, HandTypes
  <2> QED
    BY <2>1, <2>2, <2>3, <2>4, PendingKept DEF SilentIn
<1>5. ASSUME NEW r \in Run, RestartUnattended(r) PROVE Pending(q, u)'
  <2>1. air[u] = "on" /\ owner[u] = q
    BY <1>5 DEF RestartUnattended, Restart, Refused, StopTask, Goto, slots, TaskTypes
  <2>2. st[q] \in S
    BY <1>5 DEF RestartUnattended, Restart, Refused, StopTask, Goto, runs, RunTypes,
       Over
  <2>3. \A d \in Coroutine : left[d] # {} => left'[d] = left[d] /\ cur'[d] = cur[d]
    BY <1>5 DEF RestartUnattended, Restart, Refused, StopTask, Goto, work, hand, At,
       HandInv, Hand, Awaiting, HandTypes, WorkTypes
  <2>4. pc[Loop] = "launched" => /\ pc'[Loop] = "launched" /\ cur'[Loop] = cur[Loop]
                                 /\ on'[Loop] = on[Loop]
    BY <1>5 DEF RestartUnattended, Restart, Refused, StopTask, Goto, hand, At, Quiet,
       InHand, Woken, Goto, HandTypes
  <2> QED
    BY <2>1, <2>2, <2>3, <2>4, PendingKept DEF SilentIn
<1>6. ASSUME NEW r \in Run, Forgive(r) PROVE Pending(q, u)'
  <2>1. air[u] = "on" /\ owner[u] = q
    BY <1>6 DEF Forgive, slots, TaskTypes
  <2>2. st[q] \in S
    BY <1>6 DEF Forgive, runs, RunTypes, Over
  <2>3. \A d \in Coroutine : left[d] # {} => left'[d] = left[d] /\ cur'[d] = cur[d]
    BY <1>6 DEF Forgive, work, hand, At, HandInv, Hand, Awaiting, HandTypes, WorkTypes
  <2>4. pc[Loop] = "launched" => /\ pc'[Loop] = "launched" /\ cur'[Loop] = cur[Loop]
                                 /\ on'[Loop] = on[Loop]
    BY <1>6 DEF Forgive, hand, At, Quiet, InHand, Woken, Goto, HandTypes
  <2> QED
    BY <2>1, <2>2, <2>3, <2>4, PendingKept DEF SilentIn
<1>7. ASSUME NEW c \in Caller, AbortAll(c) PROVE Pending(q, u)'
  <2>1. air[u] = "on" /\ owner[u] = q
    BY <1>7 DEF AbortAll, slots, TaskTypes
  <2>2. st[q] \in S
    BY <1>7 DEF AbortAll, runs, RunTypes, Over
  <2>3. \A d \in Coroutine : left[d] # {} => left'[d] = left[d] /\ cur'[d] = cur[d]
    BY <1>7 DEF AbortAll, work, hand, At, HandInv, Hand, Awaiting, HandTypes, WorkTypes
  <2>4. pc[Loop] = "launched" => /\ pc'[Loop] = "launched" /\ cur'[Loop] = cur[Loop]
                                 /\ on'[Loop] = on[Loop]
    BY <1>7 DEF AbortAll, hand, At, Quiet, InHand, Woken, Goto, HandTypes
  <2> QED
    BY <2>1, <2>2, <2>3, <2>4, PendingKept DEF SilentIn
<1>8. ASSUME NEW c \in Caller, NEW r \in Run, Cancel(c, r) PROVE Pending(q, u)'
  <2>1. air[u] = "on" /\ owner[u] = q
    BY <1>8 DEF Cancel, slots, TaskTypes
  <2>2. st[q] \in S
    BY <1>8 DEF Cancel, runs, RunTypes, Over
  <2>3. \A d \in Coroutine : left[d] # {} => left'[d] = left[d] /\ cur'[d] = cur[d]
    BY <1>8 DEF Cancel, work, hand, At, HandInv, Hand, Awaiting, HandTypes, WorkTypes
  <2>4. pc[Loop] = "launched" => /\ pc'[Loop] = "launched" /\ cur'[Loop] = cur[Loop]
                                 /\ on'[Loop] = on[Loop]
    BY <1>8 DEF Cancel, hand, At, Quiet, InHand, Woken, Goto, HandTypes
  <2> QED
    BY <2>1, <2>2, <2>3, <2>4, PendingKept DEF SilentIn
<1>9. ASSUME NEW c \in Caller, NEW r \in Run, NEW how \in Modes, RestartByHand(c, r, how) PROVE Pending(q, u)'
  <2>1. air[u] = "on" /\ owner[u] = q
    BY <1>9 DEF RestartByHand, Restart, Refused, StopTask, Goto, slots, TaskTypes
  <2>2. st[q] \in S
    BY <1>9 DEF RestartByHand, Restart, Refused, StopTask, Goto, runs, RunTypes, Over
  <2>3. \A d \in Coroutine : left[d] # {} => left'[d] = left[d] /\ cur'[d] = cur[d]
    BY <1>9 DEF RestartByHand, Restart, Refused, StopTask, Goto, work, hand, At,
       HandInv, Hand, Awaiting, HandTypes, WorkTypes
  <2>4. pc[Loop] = "launched" => /\ pc'[Loop] = "launched" /\ cur'[Loop] = cur[Loop]
                                 /\ on'[Loop] = on[Loop]
    BY <1>9 DEF RestartByHand, Restart, Refused, StopTask, Goto, hand, At, Quiet,
       InHand, Woken, Goto, HandTypes
  <2> QED
    BY <2>1, <2>2, <2>3, <2>4, PendingKept DEF SilentIn
<1>10. ASSUME NEW c \in Coroutine, Muted(c) PROVE Pending(q, u)'
  <2>1. air[u] = "on" /\ owner[u] = q
    BY <1>10 DEF Muted, slots, TaskTypes
  <2>2. st[q] \in S
    BY <1>10 DEF Muted, runs, RunTypes, Over
  <2>3. \A d \in Coroutine : left[d] # {} => left'[d] = left[d] /\ cur'[d] = cur[d]
    BY <1>10 DEF Muted, work, hand, At, HandInv, Hand, Awaiting, HandTypes, WorkTypes
  <2>4. pc[Loop] = "launched" => /\ pc'[Loop] = "launched" /\ cur'[Loop] = cur[Loop]
                                 /\ on'[Loop] = on[Loop]
    BY <1>10 DEF Muted, hand, At, Quiet, InHand, Woken, Goto, HandTypes
  <2> QED
    BY <2>1, <2>2, <2>3, <2>4, PendingKept DEF SilentIn
<1>11. ASSUME NEW c \in Coroutine, Swept(c) PROVE Pending(q, u)'
  <2>1. air[u] = "on" /\ owner[u] = q
    BY <1>11 DEF Swept, slots, TaskTypes
  <2>2. st[q] \in S
    BY <1>11 DEF Swept, runs, RunTypes, Over
  <2>3. \A d \in Coroutine : left[d] # {} => left'[d] = left[d] /\ cur'[d] = cur[d]
    BY <1>11 DEF Swept, work, hand, At, HandInv, Hand, Awaiting, HandTypes, WorkTypes
  <2>4. pc[Loop] = "launched" => /\ pc'[Loop] = "launched" /\ cur'[Loop] = cur[Loop]
                                 /\ on'[Loop] = on[Loop]
    BY <1>11 DEF Swept, hand, At, Quiet, InHand, Woken, Goto, HandTypes
  <2> QED
    BY <2>1, <2>2, <2>3, <2>4, PendingKept DEF SilentIn
<1>12. ASSUME NEW c \in Coroutine, RestartRefused(c) PROVE Pending(q, u)'
  <2>1. air[u] = "on" /\ owner[u] = q
    BY <1>12 DEF RestartRefused, Refused, Goto, slots, TaskTypes
  <2>2. st[q] \in S
    BY <1>12 DEF RestartRefused, Refused, Goto, runs, RunTypes, Over
  <2>3. \A d \in Coroutine : left[d] # {} => left'[d] = left[d] /\ cur'[d] = cur[d]
    BY <1>12 DEF RestartRefused, Refused, Goto, work, hand, At, HandInv, Hand, Awaiting,
       HandTypes, WorkTypes
  <2>4. pc[Loop] = "launched" => /\ pc'[Loop] = "launched" /\ cur'[Loop] = cur[Loop]
                                 /\ on'[Loop] = on[Loop]
    BY <1>12 DEF RestartRefused, Refused, Goto, hand, At, Quiet, InHand, Woken, Goto,
       HandTypes
  <2> QED
    BY <2>1, <2>2, <2>3, <2>4, PendingKept DEF SilentIn
<1>13. ASSUME NEW c \in Coroutine, Commit(c) PROVE Pending(q, u)'
  <2>1. air[u] = "on" /\ owner[u] = q
    BY <1>13 DEF Commit, slots, TaskTypes
  <2>2. st[q] \in S
    BY <1>13 DEF Commit, runs, RunTypes, Over
  <2>3. \A d \in Coroutine : left[d] # {} => left'[d] = left[d] /\ cur'[d] = cur[d]
    BY <1>13 DEF Commit, work, hand, At, HandInv, Hand, Awaiting, HandTypes, WorkTypes
  <2>4. pc[Loop] = "launched" => /\ pc'[Loop] = "launched" /\ cur'[Loop] = cur[Loop]
                                 /\ on'[Loop] = on[Loop]
    BY <1>13 DEF Commit, hand, At, Quiet, InHand, Woken, Goto, HandTypes
  <2> QED
    BY <2>1, <2>2, <2>3, <2>4, PendingKept DEF SilentIn
<1>14. ASSUME NEW c \in Coroutine, NEW r \in Run, Abort(c, r) PROVE Pending(q, u)'
  <2>1. air[u] = "on" /\ owner[u] = q /\ left[c] = {}
    BY <1>14 DEF Abort, slots
  <2>2. CASE q = r
    <3>1. q \in Run /\ Begun(q) /\ u \in Touched(q)
      BY <2>1, NameAssumption DEF OwnInv, OwnersBegun
    <3>2. left'[c] = {1, 2} \X Touched(q) /\ cur'[c] = q
      BY <1>14, <2>2, <3>1 DEF Abort, Begun, WorkTypes, HandTypes
    <3>3. <<1, u>> \in left'[c]
      BY <3>1, <3>2
    <3> QED
      BY <3>2, <3>3 DEF Pending
  <2>3. CASE q # r
    <3>1. st[q] \in S
      BY <1>14, <2>3 DEF Abort, RunTypes
    <3>2. \A d \in Coroutine : left[d] # {} => left'[d] = left[d] /\ cur'[d] = cur[d]
      BY <1>14, <2>1 DEF Abort, HandTypes, WorkTypes
    <3>3. pc[Loop] # "launched"
      BY <1>14 DEF Abort, At, InHand
    <3> QED
      BY <2>1, <3>1, <3>2, <3>3, PendingKept DEF SilentIn
  <2> QED
    BY <2>2, <2>3
<1>15. ASSUME NEW c \in Coroutine, NEW n \in {1, 2}, NEW t \in Task, Sweep(c, n, t) PROVE Pending(q, u)'
  <2>1. air[u] = "on" /\ owner[u] = q /\ st[q] \in S
    BY <1>15 DEF Sweep, StopTask, runs, TaskTypes
  <2>2. u # t
    BY <1>15, <2>1 DEF Sweep, StopTask, TaskTypes
  <2>3. pc[Loop] # "launched"
    BY <1>15 DEF Sweep, At, InHand
  <2>4. PICK d \in Coroutine, m \in {1, 2} : cur[d] = q /\ <<m, u>> \in left[d]
    BY <2>1, <2>3 DEF SilentIn, Pending
  <2>5. <<m, u>> \in left'[d] /\ cur'[d] = q
    BY <1>15, <2>2, <2>4 DEF Sweep, HandTypes, WorkTypes
  <2> QED
    BY <2>5 DEF Pending
<1>16. ASSUME NEW b \in batch, FireSkipped(b) PROVE Pending(q, u)'
  <2>1. air[u] = "on" /\ owner[u] = q
    BY <1>16 DEF FireSkipped, slots, TaskTypes
  <2>2. st[q] \in S
    BY <1>16 DEF FireSkipped, runs, RunTypes, Over
  <2>3. \A d \in Coroutine : left[d] # {} => left'[d] = left[d] /\ cur'[d] = cur[d]
    BY <1>16 DEF FireSkipped, work, hand, At, HandInv, Hand, Awaiting, HandTypes,
       WorkTypes
  <2>4. pc[Loop] = "launched" => /\ pc'[Loop] = "launched" /\ cur'[Loop] = cur[Loop]
                                 /\ on'[Loop] = on[Loop]
    BY <1>16 DEF FireSkipped, hand, At, Quiet, InHand, Woken, Goto, HandTypes
  <2> QED
    BY <2>1, <2>2, <2>3, <2>4, PendingKept DEF SilentIn
<1>17. ASSUME NEW b \in batch, TuneDeferred(b) PROVE Pending(q, u)'
  <2>1. air[u] = "on" /\ owner[u] = q
    BY <1>17 DEF TuneDeferred, slots, TaskTypes
  <2>2. st[q] \in S
    BY <1>17 DEF TuneDeferred, runs, RunTypes, Over
  <2>3. \A d \in Coroutine : left[d] # {} => left'[d] = left[d] /\ cur'[d] = cur[d]
    BY <1>17 DEF TuneDeferred, work, hand, At, HandInv, Hand, Awaiting, HandTypes,
       WorkTypes
  <2>4. pc[Loop] = "launched" => /\ pc'[Loop] = "launched" /\ cur'[Loop] = cur[Loop]
                                 /\ on'[Loop] = on[Loop]
    BY <1>17 DEF TuneDeferred, hand, At, Quiet, InHand, Woken, Goto, HandTypes
  <2> QED
    BY <2>1, <2>2, <2>3, <2>4, PendingKept DEF SilentIn
<1>18. ASSUME NEW b \in batch, TuneDropped(b) PROVE Pending(q, u)'
  <2>1. air[u] = "on" /\ owner[u] = q
    BY <1>18 DEF TuneDropped, slots, TaskTypes
  <2>2. st[q] \in S
    BY <1>18 DEF TuneDropped, runs, RunTypes, Over
  <2>3. \A d \in Coroutine : left[d] # {} => left'[d] = left[d] /\ cur'[d] = cur[d]
    BY <1>18 DEF TuneDropped, work, hand, At, HandInv, Hand, Awaiting, HandTypes,
       WorkTypes
  <2>4. pc[Loop] = "launched" => /\ pc'[Loop] = "launched" /\ cur'[Loop] = cur[Loop]
                                 /\ on'[Loop] = on[Loop]
    BY <1>18 DEF TuneDropped, hand, At, Quiet, InHand, Woken, Goto, HandTypes
  <2> QED
    BY <2>1, <2>2, <2>3, <2>4, PendingKept DEF SilentIn
<1>19. ASSUME NEW b \in batch, Tune(b) PROVE Pending(q, u)'
  <2>0. b.run \in Run
    BY BatchTypes
  <2>1. air[u] = "on" /\ owner[u] = q
    BY <1>19 DEF Tune, Take, slots, TaskTypes
  <2>2. st[q] \in S
    BY <2>0, <1>19 DEF Tune, Take, runs, RunTypes, Over
  <2>3. \A d \in Coroutine : left[d] # {} => left'[d] = left[d] /\ cur'[d] = cur[d]
    BY <1>19 DEF Tune, Take, work, hand, At, HandInv, Hand, Awaiting, HandTypes,
       WorkTypes
  <2>4. pc[Loop] = "launched" => /\ pc'[Loop] = "launched" /\ cur'[Loop] = cur[Loop]
                                 /\ on'[Loop] = on[Loop]
    BY <1>19 DEF Tune, Take, hand, At, Quiet, InHand, Woken, Goto, HandTypes
  <2> QED
    BY <2>1, <2>2, <2>3, <2>4, PendingKept DEF SilentIn
<1>20. ASSUME NEW b \in batch, Start(b) PROVE Pending(q, u)'
  <2>0. b.run \in Run
    BY BatchTypes
  <2>1. air[u] = "on" /\ owner[u] = q
    BY <1>20 DEF Start, Take, slots, TaskTypes
  <2>2. st[q] \in S
    BY <2>0, <1>20 DEF Start, Take, runs, RunTypes, Over
  <2>3. \A d \in Coroutine : left[d] # {} => left'[d] = left[d] /\ cur'[d] = cur[d]
    BY <1>20 DEF Start, Take, work, hand, At, HandInv, Hand, Awaiting, HandTypes,
       WorkTypes
  <2>4. pc[Loop] = "launched" => /\ pc'[Loop] = "launched" /\ cur'[Loop] = cur[Loop]
                                 /\ on'[Loop] = on[Loop]
    BY <1>20 DEF Start, Take, hand, At, Quiet, InHand, Woken, Goto, HandTypes
  <2> QED
    BY <2>1, <2>2, <2>3, <2>4, PendingKept DEF SilentIn
<1>21. ASSUME NEW b \in batch, Stop(b) PROVE Pending(q, u)'
  <2>0. b.run \in Run
    BY BatchTypes
  <2>1. air[u] = "on" /\ owner[u] = q
    BY <1>21 DEF Stop, Take, StopTask, Goto, slots, TaskTypes
  <2>2. st[q] \in S
    BY <2>0, <1>21 DEF Stop, Take, StopTask, Goto, runs, RunTypes, Over
  <2>3. \A d \in Coroutine : left[d] # {} => left'[d] = left[d] /\ cur'[d] = cur[d]
    BY <1>21 DEF Stop, Take, StopTask, Goto, work, hand, At, HandInv, Hand, Awaiting,
       HandTypes, WorkTypes
  <2>4. pc[Loop] = "launched" => /\ pc'[Loop] = "launched" /\ cur'[Loop] = cur[Loop]
                                 /\ on'[Loop] = on[Loop]
    BY <1>21 DEF Stop, Take, StopTask, Goto, hand, At, Quiet, InHand, Woken, Goto,
       HandTypes
  <2> QED
    BY <2>1, <2>2, <2>3, <2>4, PendingKept DEF SilentIn
<1>22. ASSUME Tick PROVE Pending(q, u)'
  <2>1. air[u] = "on" /\ owner[u] = q
    BY <1>22 DEF Tick, slots, TaskTypes
  <2>2. st[q] \in S
    BY <1>22 DEF Tick, runs, RunTypes, Over
  <2>3. \A d \in Coroutine : left[d] # {} => left'[d] = left[d] /\ cur'[d] = cur[d]
    BY <1>22 DEF Tick, work, hand, At, HandInv, Hand, Awaiting, HandTypes, WorkTypes
  <2>4. pc[Loop] = "launched" => /\ pc'[Loop] = "launched" /\ cur'[Loop] = cur[Loop]
                                 /\ on'[Loop] = on[Loop]
    BY <1>22 DEF Tick, hand, At, Quiet, InHand, Woken, Goto, HandTypes
  <2> QED
    BY <2>1, <2>2, <2>3, <2>4, PendingKept DEF SilentIn
<1>23. ASSUME Tuned PROVE Pending(q, u)'
  <2>1. air[u] = "on" /\ owner[u] = q
    BY <1>23 DEF Tuned, slots, TaskTypes
  <2>2. st[q] \in S
    BY <1>23 DEF Tuned, runs, RunTypes, Over
  <2>3. \A d \in Coroutine : left[d] # {} => left'[d] = left[d] /\ cur'[d] = cur[d]
    BY <1>23 DEF Tuned, work, hand, At, HandInv, Hand, Awaiting, HandTypes, WorkTypes
  <2>4. pc[Loop] = "launched" => /\ pc'[Loop] = "launched" /\ cur'[Loop] = cur[Loop]
                                 /\ on'[Loop] = on[Loop]
    BY <1>23 DEF Tuned, hand, At, Quiet, InHand, Woken, Goto, HandTypes
  <2> QED
    BY <2>1, <2>2, <2>3, <2>4, PendingKept DEF SilentIn
<1>24. ASSUME Unpark PROVE Pending(q, u)'
  <2>1. air[u] = "on" /\ owner[u] = q
    BY <1>24 DEF Unpark, slots, TaskTypes
  <2>2. st[q] \in S
    BY <1>24 DEF Unpark, runs, RunTypes, Over
  <2>3. \A d \in Coroutine : left[d] # {} => left'[d] = left[d] /\ cur'[d] = cur[d]
    BY <1>24 DEF Unpark, work, hand, At, HandInv, Hand, Awaiting, HandTypes, WorkTypes
  <2>4. pc[Loop] = "launched" => /\ pc'[Loop] = "launched" /\ cur'[Loop] = cur[Loop]
                                 /\ on'[Loop] = on[Loop]
    BY <1>24 DEF Unpark, hand, At, Quiet, InHand, Woken, Goto, HandTypes
  <2> QED
    BY <2>1, <2>2, <2>3, <2>4, PendingKept DEF SilentIn
<1>25. ASSUME Exec PROVE Pending(q, u)'
  <2>1. pc'[Loop] = "launched" /\ UNCHANGED <<cur, on, left, st>>
    BY <1>25 DEF Exec, Goto, Woken, HandTypes, hand, work
  <2>2. CASE u = on[Loop] /\ cur[Loop] = q
    BY <2>1, <2>2 DEF Pending
  <2>3. CASE ~(u = on[Loop] /\ cur[Loop] = q)
    <3>1. air[u] = "on" /\ owner[u] = q
      BY <1>25, <2>3 DEF Exec, TaskTypes
    <3>2. pc[Loop] # "launched"
      BY <1>25 DEF Exec, At
    <3> QED
      BY <2>1, <3>1, <3>2, PendingKept DEF SilentIn
  <2> QED
    BY <2>2, <2>3
<1>26. ASSUME Launched PROVE Pending(q, u)'
  <2>1. air[u] = "on" /\ owner[u] = q /\ st[q] \in S
    BY <1>26 DEF Launched, StopTask, runs, TaskTypes
  <2>2. ~(cur[Loop] = q /\ on[Loop] = u)
    BY <1>26, <2>1 DEF Launched, StopTask, TaskTypes, Over, Active, Firing
  <2>3. PICK d \in Coroutine, m \in {1, 2} : cur[d] = q /\ <<m, u>> \in left[d]
    BY <2>1, <2>2 DEF SilentIn, Pending
  <2>4. <<m, u>> \in left'[d] /\ cur'[d] = q
    BY <1>26, <2>3 DEF Launched, work
  <2> QED
    BY <2>4 DEF Pending
<1>27. ASSUME After PROVE Pending(q, u)'
  <2>1. air[u] = "on" /\ owner[u] = q
    BY <1>27 DEF After, slots, TaskTypes
  <2>2. st[q] \in S
    BY <1>27 DEF After, runs, RunTypes, Over
  <2>3. \A d \in Coroutine : left[d] # {} => left'[d] = left[d] /\ cur'[d] = cur[d]
    BY <1>27 DEF After, work, hand, At, HandInv, Hand, Awaiting, HandTypes, WorkTypes
  <2>4. pc[Loop] = "launched" => /\ pc'[Loop] = "launched" /\ cur'[Loop] = cur[Loop]
                                 /\ on'[Loop] = on[Loop]
    BY <1>27 DEF After, hand, At, Quiet, InHand, Woken, Goto, HandTypes
  <2> QED
    BY <2>1, <2>2, <2>3, <2>4, PendingKept DEF SilentIn
<1>28. ASSUME Holds PROVE Pending(q, u)'
  <2>1. air[u] = "on" /\ owner[u] = q
    BY <1>28 DEF Holds, slots, TaskTypes
  <2>2. st[q] \in S
    BY <1>28 DEF Holds, runs, RunTypes, Over
  <2>3. \A d \in Coroutine : left[d] # {} => left'[d] = left[d] /\ cur'[d] = cur[d]
    BY <1>28 DEF Holds, work, hand, At, HandInv, Hand, Awaiting, HandTypes, WorkTypes
  <2>4. pc[Loop] = "launched" => /\ pc'[Loop] = "launched" /\ cur'[Loop] = cur[Loop]
                                 /\ on'[Loop] = on[Loop]
    BY <1>28 DEF Holds, hand, At, Quiet, InHand, Woken, Goto, HandTypes
  <2> QED
    BY <2>1, <2>2, <2>3, <2>4, PendingKept DEF SilentIn
<1>29. ASSUME Collect PROVE Pending(q, u)'
  <2>1. air[u] = "on" /\ owner[u] = q
    BY <1>29 DEF Collect, slots, TaskTypes
  <2>2. st[q] \in S
    BY <1>29 DEF Collect, runs, RunTypes, Over
  <2>3. \A d \in Coroutine : left[d] # {} => left'[d] = left[d] /\ cur'[d] = cur[d]
    BY <1>29 DEF Collect, work, hand, At, HandInv, Hand, Awaiting, HandTypes, WorkTypes
  <2>4. pc[Loop] = "launched" => /\ pc'[Loop] = "launched" /\ cur'[Loop] = cur[Loop]
                                 /\ on'[Loop] = on[Loop]
    BY <1>29 DEF Collect, hand, At, Quiet, InHand, Woken, Goto, HandTypes
  <2> QED
    BY <2>1, <2>2, <2>3, <2>4, PendingKept DEF SilentIn
<1>30. ASSUME Sleep PROVE Pending(q, u)'
  <2>1. air[u] = "on" /\ owner[u] = q
    BY <1>30 DEF Sleep, slots, TaskTypes
  <2>2. st[q] \in S
    BY <1>30 DEF Sleep, runs, RunTypes, Over
  <2>3. \A d \in Coroutine : left[d] # {} => left'[d] = left[d] /\ cur'[d] = cur[d]
    BY <1>30 DEF Sleep, work, hand, At, HandInv, Hand, Awaiting, HandTypes, WorkTypes
  <2>4. pc[Loop] = "launched" => /\ pc'[Loop] = "launched" /\ cur'[Loop] = cur[Loop]
                                 /\ on'[Loop] = on[Loop]
    BY <1>30 DEF Sleep, hand, At, Quiet, InHand, Woken, Goto, HandTypes
  <2> QED
    BY <2>1, <2>2, <2>3, <2>4, PendingKept DEF SilentIn
<1>31. ASSUME NEW t \in Task, Bind(t) PROVE Pending(q, u)'
  <2>1. air[u] = "on" /\ owner[u] = q
    BY <1>31 DEF Bind, slots, TaskTypes
  <2>2. st[q] \in S
    BY <1>31 DEF Bind, runs, RunTypes, Over
  <2>3. \A d \in Coroutine : left[d] # {} => left'[d] = left[d] /\ cur'[d] = cur[d]
    BY <1>31 DEF Bind, work, hand, At, HandInv, Hand, Awaiting, HandTypes, WorkTypes
  <2>4. pc[Loop] = "launched" => /\ pc'[Loop] = "launched" /\ cur'[Loop] = cur[Loop]
                                 /\ on'[Loop] = on[Loop]
    BY <1>31 DEF Bind, hand, At, Quiet, InHand, Woken, Goto, HandTypes
  <2> QED
    BY <2>1, <2>2, <2>3, <2>4, PendingKept DEF SilentIn
<1>32. ASSUME NEW t \in Task, Exit(t) PROVE Pending(q, u)'
  <2>1. air[u] = "on" /\ owner[u] = q
    BY <1>32 DEF Exit, slots, TaskTypes
  <2>2. st[q] \in S
    BY <1>32 DEF Exit, runs, RunTypes, Over
  <2>3. \A d \in Coroutine : left[d] # {} => left'[d] = left[d] /\ cur'[d] = cur[d]
    BY <1>32 DEF Exit, work, hand, At, HandInv, Hand, Awaiting, HandTypes, WorkTypes
  <2>4. pc[Loop] = "launched" => /\ pc'[Loop] = "launched" /\ cur'[Loop] = cur[Loop]
                                 /\ on'[Loop] = on[Loop]
    BY <1>32 DEF Exit, hand, At, Quiet, InHand, Woken, Goto, HandTypes
  <2> QED
    BY <2>1, <2>2, <2>3, <2>4, PendingKept DEF SilentIn
<1>33. ASSUME NEW t \in Task, Fail(t) PROVE Pending(q, u)'
  <2>1. air[u] = "on" /\ owner[u] = q
    BY <1>33 DEF Fail, slots, TaskTypes
  <2>2. st[q] \in S
    BY <1>33 DEF Fail, runs, RunTypes, Over
  <2>3. \A d \in Coroutine : left[d] # {} => left'[d] = left[d] /\ cur'[d] = cur[d]
    BY <1>33 DEF Fail, work, hand, At, HandInv, Hand, Awaiting, HandTypes, WorkTypes
  <2>4. pc[Loop] = "launched" => /\ pc'[Loop] = "launched" /\ cur'[Loop] = cur[Loop]
                                 /\ on'[Loop] = on[Loop]
    BY <1>33 DEF Fail, hand, At, Quiet, InHand, Woken, Goto, HandTypes
  <2> QED
    BY <2>1, <2>2, <2>3, <2>4, PendingKept DEF SilentIn
<1>34. ASSUME NEW t \in Task, Alarm(t) PROVE Pending(q, u)'
  <2>1. air[u] = "on" /\ owner[u] = q
    BY <1>34 DEF Alarm, slots, TaskTypes
  <2>2. st[q] \in S
    BY <1>34 DEF Alarm, runs, RunTypes, Over
  <2>3. \A d \in Coroutine : left[d] # {} => left'[d] = left[d] /\ cur'[d] = cur[d]
    BY <1>34 DEF Alarm, work, hand, At, HandInv, Hand, Awaiting, HandTypes, WorkTypes
  <2>4. pc[Loop] = "launched" => /\ pc'[Loop] = "launched" /\ cur'[Loop] = cur[Loop]
                                 /\ on'[Loop] = on[Loop]
    BY <1>34 DEF Alarm, hand, At, Quiet, InHand, Woken, Goto, HandTypes
  <2> QED
    BY <2>1, <2>2, <2>3, <2>4, PendingKept DEF SilentIn
<1>35. ASSUME TimePasses PROVE Pending(q, u)'
  <2>1. air[u] = "on" /\ owner[u] = q
    BY <1>35 DEF TimePasses, slots, TaskTypes
  <2>2. st[q] \in S
    BY <1>35 DEF TimePasses, runs, RunTypes, Over
  <2>3. \A d \in Coroutine : left[d] # {} => left'[d] = left[d] /\ cur'[d] = cur[d]
    BY <1>35 DEF TimePasses, work, hand, At, HandInv, Hand, Awaiting, HandTypes,
       WorkTypes
  <2>4. pc[Loop] = "launched" => /\ pc'[Loop] = "launched" /\ cur'[Loop] = cur[Loop]
                                 /\ on'[Loop] = on[Loop]
    BY <1>35 DEF TimePasses, hand, At, Quiet, InHand, Woken, Goto, HandTypes
  <2> QED
    BY <2>1, <2>2, <2>3, <2>4, PendingKept DEF SilentIn
<1>36. ASSUME CrashAndRestart PROVE Pending(q, u)'
  BY <1>36 DEF CrashAndRestart
<1>37. ASSUME UNCHANGED vars PROVE Pending(q, u)'
  BY <1>37 DEF vars, runs, slots, hand, work, SilentIn, Pending
<1> HIDE DEF Sound, TypeOK
<1> QED
  BY <1>1, <1>2, <1>3, <1>4, <1>5, <1>6, <1>7, <1>8, <1>9, <1>10, <1>11, <1>12, <1>13,
     <1>14, <1>15, <1>16, <1>17, <1>18, <1>19, <1>20, <1>21, <1>22, <1>23, <1>24, <1>25,
     <1>26, <1>27, <1>28, <1>29, <1>30, <1>31, <1>32, <1>33, <1>34, <1>35, <1>36, <1>37 DEF
     Next

-----------------------------------------------------------------------------
(* The theorems.                                                           *)

\* What each step finds, it leaves.
LEMMA OwnHolds == Spec => [](Sound /\ OwnInv)
<1>1. ASSUME Init PROVE OwnInv
  <2>1. \A r \in Run : FaultTask(r) = NoTask /\ again[r] = NoTask
    BY <1>1 DEF Init, FaultTask
  <2>2. \A c \in Coroutine : pc[c] = "idle"
    BY <1>1 DEF Init
  <2>3. \A t \in Task : owner[t] = NoRun
    BY <1>1 DEF Init
  <2> QED
    BY <2>1, <2>2, <2>3, LoopRuns DEF OwnInv, FaultsOwn, OwnersBegun, LaunchOwn,
       MendsOwn,
       Launching, Restarting, Awaiting
<1>2. ASSUME Sound, OwnInv, [Next]_vars PROVE OwnInv'
  BY <1>2, OwnStep
<1> QED
  BY SoundHolds, <1>1, <1>2, PTL DEF Spec

\* A run only ever launches, loses and mends tasks of its own plan, and only
\* once it has begun: what is on the air is owned by a run that fired a step.
THEOREM OwnersHold == Spec => []OwnersBegun
BY OwnHolds, PTL DEF OwnInv

\* _abort_run and the check of _fire_step after a launch: whoever cancels or
\* aborts a run, whatever is being launched, restarted or swept meanwhile, and
\* however late faults are told, what is on the air for the run is about to be
\* stopped.
SilentOnceAborted == SilentIn({"CANCELLED", "ABORTED"})

\* So it is, whatever the plans and however late the alarms.
THEOREM SilentOnceAbortedHolds == Spec => []SilentOnceAborted
<1>1. ASSUME Init PROVE SilentOnceAborted
  BY <1>1 DEF Init, SilentOnceAborted, SilentIn
<1>2. ASSUME Sound, OwnInv, SilentOnceAborted, [Next]_vars PROVE SilentOnceAborted'
  <2> DEFINE S == {"CANCELLED", "ABORTED"}
  <2>1. S \in SUBSET Over /\ SilentIn(S)
    BY <1>2 DEF Over, SilentOnceAborted
  <2>2. ASSUME NEW t \in Task, NEW r \in Run, air'[t] = "on", owner'[t] = r, st'[r] \in S
        PROVE  Pending(r, t)'
    BY <1>2, <2>1, <2>2, SilentStep
  <2> QED
    BY <2>2 DEF SilentOnceAborted, SilentIn
<1> QED
  BY OwnHolds, <1>1, <1>2, PTL DEF Spec

\* What is on the air for a run.
Aired(t, r) == air[t] = "on" /\ owner[t] = r

\* A run that completes has nothing on the air, while every task on the air has
\* a STOP to come: it completes when no fire of it is open.
LEMMA CompletesSilent ==
  ASSUME SlowAlarm = FALSE, Sound, WillStop, NEW q \in Run, NEW u \in Task,
         st'[q] = "COMPLETED", st[q] # "COMPLETED", [Next]_vars
  PROVE  (~Aired(u, q))'
<1> USE LoopRuns DEF Sound, TypeOK
<1>1. ASSUME NEW r \in Run, Arm(r) PROVE (~Aired(u, q))'
  BY <1>1 DEF Arm, runs, RunTypes
<1>2. ASSUME NEW r \in Run, HoldNow(r) PROVE (~Aired(u, q))'
  BY <1>2 DEF HoldNow, runs, RunTypes
<1>3. ASSUME NEW r \in Run, NEW to \in Ends, Patch(r, to) PROVE (~Aired(u, q))'
  BY <1>3 DEF Patch, runs, RunTypes
<1>4. ASSUME NEW r \in Run, NEW resume \in {now, now + 1}, Proceed(r, resume) PROVE (~Aired(u, q))'
  BY <1>4 DEF Proceed, runs, RunTypes
<1>5. ASSUME NEW r \in Run, RestartUnattended(r) PROVE (~Aired(u, q))'
  BY <1>5 DEF RestartUnattended, Restart, runs, RunTypes
<1>6. ASSUME NEW r \in Run, Forgive(r) PROVE (~Aired(u, q))'
  BY <1>6 DEF Forgive, runs, RunTypes
<1>7. ASSUME NEW c \in Caller, AbortAll(c) PROVE (~Aired(u, q))'
  BY <1>7 DEF AbortAll, runs, RunTypes
<1>8. ASSUME NEW c \in Caller, NEW r \in Run, Cancel(c, r) PROVE (~Aired(u, q))'
  BY <1>8 DEF Cancel, runs, RunTypes
<1>9. ASSUME NEW c \in Caller, NEW r \in Run, NEW how \in Modes, RestartByHand(c, r, how) PROVE (~Aired(u, q))'
  BY <1>9 DEF RestartByHand, Restart, runs, RunTypes
<1>10. ASSUME NEW c \in Coroutine, Muted(c) PROVE (~Aired(u, q))'
  BY <1>10 DEF Muted, runs, RunTypes
<1>11. ASSUME NEW c \in Coroutine, Swept(c) PROVE (~Aired(u, q))'
  BY <1>11 DEF Swept, runs, RunTypes
<1>12. ASSUME NEW c \in Coroutine, RestartRefused(c) PROVE (~Aired(u, q))'
  BY <1>12 DEF RestartRefused, runs, RunTypes
<1>13. ASSUME NEW c \in Coroutine, Commit(c) PROVE (~Aired(u, q))'
  BY <1>13 DEF Commit, runs, RunTypes
<1>14. ASSUME NEW c \in Coroutine, NEW r \in Run, Abort(c, r) PROVE (~Aired(u, q))'
  BY <1>14 DEF Abort, runs, RunTypes
<1>15. ASSUME NEW c \in Coroutine, NEW n \in {1, 2}, NEW t \in Task, Sweep(c, n, t) PROVE (~Aired(u, q))'
  BY <1>15 DEF Sweep, runs, RunTypes
<1>16. ASSUME NEW b \in batch, FireSkipped(b) PROVE (~Aired(u, q))'
  BY <1>16 DEF FireSkipped, runs, RunTypes
<1>17. ASSUME NEW b \in batch, TuneDeferred(b) PROVE (~Aired(u, q))'
  BY <1>17 DEF TuneDeferred, runs, RunTypes
<1>18. ASSUME NEW b \in batch, TuneDropped(b) PROVE (~Aired(u, q))'
  BY <1>18 DEF TuneDropped, runs, RunTypes
<1>19. ASSUME NEW b \in batch, Tune(b) PROVE (~Aired(u, q))'
  BY <1>19 DEF Tune, Take, runs, RunTypes
<1>20. ASSUME NEW b \in batch, Start(b) PROVE (~Aired(u, q))'
  BY <1>20 DEF Start, Take, runs, RunTypes
<1>21. ASSUME NEW b \in batch, Stop(b) PROVE (~Aired(u, q))'
  BY <1>21 DEF Stop, Take, runs, RunTypes
<1>22. ASSUME Tick PROVE (~Aired(u, q))'
  <2>1. q \in Lapsed /\ UNCHANGED <<air, owner>>
    BY <1>22 DEF Tick, slots
  <2>2. /\ st[q] \in Firing /\ end[q] # Never
        /\ \A i \in Slot : mark[q][i] # "open"
    BY <2>1 DEF Lapsed, ChannelOver, AllDone, Firing
  <2>3. alarm[u] # "wedge"
    BY <1>22 DEF Tick, At, Calm
  <2> QED
    BY <2>1, <2>2, <2>3 DEF WillStop, Aired
<1>23. ASSUME Tuned PROVE (~Aired(u, q))'
  BY <1>23 DEF Tuned, runs, RunTypes
<1>24. ASSUME Unpark PROVE (~Aired(u, q))'
  BY <1>24 DEF Unpark, runs, RunTypes
<1>25. ASSUME Exec PROVE (~Aired(u, q))'
  BY <1>25 DEF Exec, runs, RunTypes
<1>26. ASSUME Launched PROVE (~Aired(u, q))'
  BY <1>26 DEF Launched, runs, RunTypes
<1>27. ASSUME After PROVE (~Aired(u, q))'
  <2>1. UNCHANGED <<air, owner>>
    BY <1>27 DEF After, slots
  <2>2. /\ st[q] \in Firing /\ end[q] # Never
        /\ \A i \in Slot : mark[q][i] # "open"
    BY <1>27 DEF After, AllDone, Firing, RunTypes
  <2>3. alarm[u] # "wedge"
    BY <1>27 DEF After, At, Calm
  <2> QED
    BY <2>1, <2>2, <2>3 DEF WillStop, Aired
<1>28. ASSUME Holds PROVE (~Aired(u, q))'
  BY <1>28 DEF Holds, runs, RunTypes
<1>29. ASSUME Collect PROVE (~Aired(u, q))'
  BY <1>29 DEF Collect, runs, RunTypes
<1>30. ASSUME Sleep PROVE (~Aired(u, q))'
  BY <1>30 DEF Sleep, runs, RunTypes
<1>31. ASSUME NEW t \in Task, Bind(t) PROVE (~Aired(u, q))'
  BY <1>31 DEF Bind, runs, RunTypes
<1>32. ASSUME NEW t \in Task, Exit(t) PROVE (~Aired(u, q))'
  BY <1>32 DEF Exit, runs, RunTypes
<1>33. ASSUME NEW t \in Task, Fail(t) PROVE (~Aired(u, q))'
  BY <1>33 DEF Fail, runs, RunTypes
<1>34. ASSUME NEW t \in Task, Alarm(t) PROVE (~Aired(u, q))'
  BY <1>34 DEF Alarm, runs, RunTypes
<1>35. ASSUME TimePasses PROVE (~Aired(u, q))'
  BY <1>35 DEF TimePasses, runs, RunTypes
<1>36. ASSUME CrashAndRestart PROVE (~Aired(u, q))'
  BY <1>36 DEF CrashAndRestart, Reconciled, RunTypes
<1>37. ASSUME UNCHANGED vars PROVE (~Aired(u, q))'
  BY <1>37 DEF vars, runs
<1> HIDE DEF Sound, TypeOK
<1> QED
  BY <1>1, <1>2, <1>3, <1>4, <1>5, <1>6, <1>7, <1>8, <1>9, <1>10, <1>11, <1>12, <1>13,
     <1>14, <1>15, <1>16, <1>17, <1>18, <1>19, <1>20, <1>21, <1>22, <1>23, <1>24, <1>25,
     <1>26, <1>27, <1>28, <1>29, <1>30, <1>31, <1>32, <1>33, <1>34, <1>35, <1>36, <1>37 DEF
     Next

\* Silent says no more than that of what is on the air for a run, which has begun.
LEMMA SilentOver ==
  ASSUME TypeOK, OwnersBegun
  PROVE  Silent <=> SilentIn(Over)
<1>1. ASSUME NEW t \in Task, NEW r \in Run, owner[t] = r
      PROVE  st[r] \notin Active <=> st[r] \in Over
  <2>1. Begun(r) /\ st[r] \in RunState \cup {"none"}
    BY <1>1, NameAssumption DEF OwnersBegun, TypeOK, RunTypes
  <2> QED
    BY <2>1 DEF Begun, Active, Firing, Over, RunState
<1> QED
  BY <1>1 DEF Silent, SilentIn, Pending

\* Then no step leaves anything on the air for a run that is over.
LEMMA SilentKept ==
  ASSUME SlowAlarm = FALSE, Sound, OwnInv, Sound', OwnInv', WillStop, Silent, [Next]_vars
  PROVE  Silent'
<1>1. SilentIn(Over)
  BY SilentOver DEF Sound, OwnInv
<1>2. ASSUME NEW t \in Task, NEW r \in Run, air'[t] = "on", owner'[t] = r, st'[r] \in Over
      PROVE  Pending(r, t)'
  <2>1. st'[r] = "COMPLETED" => st[r] = "COMPLETED"
    BY <1>2, CompletesSilent DEF Aired
  <2> QED
    BY <1>1, <1>2, <2>1, SilentStep
<1>3. SilentIn(Over)'
  BY <1>2 DEF SilentIn, Over
<1>4. (Silent <=> SilentIn(Over))'
  BY SilentOver, PTL DEF Sound, OwnInv
<1> QED
  BY <1>3, <1>4

\* _maybe_complete, and _abort_run with all its sweeps: while every task on the
\* air of a run with a known end has its STOP to come, nothing stays on the air
\* for a run that is over.  A fault must not be told late: with SlowAlarm TRUE
\* a run completes while the task that a wedge has halted is still alive.
THEOREM SilentHolds ==
  ASSUME SlowAlarm = FALSE
  PROVE  Spec /\ []WillStop => []Silent
<1>1. ASSUME Init PROVE Silent
  BY <1>1 DEF Init, Silent
<1>2. ASSUME Sound, OwnInv, Sound', OwnInv', WillStop, Silent, [Next]_vars PROVE Silent'
  BY <1>2, SilentKept
<1> QED
  BY OwnHolds, <1>1, <1>2, PTL DEF Spec

-----------------------------------------------------------------------------
(* The channel: one run at a time has that of a task, by hand or           *)
(* unattended, as long as no end is moved.                                 *)

\* The steps of a run that ever have a StepFire, but for the relaunch, and the
\* tasks that it may launch.
Ever(r) == AtArm(r) \cup {j \in Steps(r) : HasHold(r)}
MayLaunch(r) == {TaskOf(r, i) : i \in {j \in Ever(r) : Act(r, j) = "start"}}

\* No step of a plan comes before the lead-in that arm's guard goes by, and the
\* sentinel is later than all of them.  This is about the plans alone.
LeadFirst ==
  \A r \in Run :
    /\ Plan[r].on < Never
    /\ \A i \in AtArm(r) : /\ Lead(r) <= FireAt(r, i, Plan[r].off, 0)
                           /\ FireAt(r, i, Plan[r].off, 0) < Never

\* A run that was armed has its fires, and no others.
Armed ==
  \A r \in Run :
    /\ st[r] # "none" => AtArm(r) \subseteq Fires(r) /\ Fires(r) \subseteq Ever(r) \cup {N}
    /\ st[r] = "ARMED" => Fires(r) = AtArm(r) /\ ChannelStart(r) < Never

\* What a run loses, relaunches and mends is a task that it may launch.
FaultsLaunched == \A r \in Run : {FaultTask(r), again[r]} \subseteq MayLaunch(r) \cup {NoTask}
MendsLaunched == \A c \in Coroutine : Restarting(c) => on[c] \in MayLaunch(cur[c])

\* What the loop has collected is due, if its run is still to begin.
Collected ==
  \A b \in batch :
    /\ b.gen = gen[b.run] /\ st[b.run] # "none"
    /\ st[b.run] = "ARMED" => at[b.run][b.step] <= now

\* Only a run that was armed is to be aborted.
Doomed == \A c \in Coroutine, r \in Run : r \in doom[c] => st[r] # "none"

\* A Hold is entered once, and until it is over the run has no end.
HeldOnce ==
  \A r \in Run :
    /\ st[r] = "HOLDING" => HasHold(r) /\ held[r] # Never /\ end[r] = Never
    /\ (HasHold(r) /\ held[r] = Never /\ st[r] # "none") => end[r] = Never

\* A run that has begun has fired a step that it was armed with.
Started ==
  \A r \in Run : st[r] \in {"RUNNING", "HOLDING"} =>
    \E i \in AtArm(r) : mark[r][i] = "fired" /\ at[r][i] <= now

\* One of two runs leaves the channel before the other takes it, or has left it.
Apart(r, q) ==
  \E e \in {ChannelEnd(r), ChannelEnd(q)}, m \in {ChannelStart(r), ChannelStart(q), now} : e <= m
AllApart ==
  \A r, q \in Run :
    (r # q /\ {st[r], st[q]} \subseteq Active /\ MayLaunch(r) \cap MayLaunch(q) # {}) => Apart(r, q)

Shared ==
  Armed /\ FaultsLaunched /\ MendsLaunched /\ Collected /\ Doomed /\ HeldOnce /\ Started
  /\ AllApart /\ now <= Horizon

-----------------------------------------------------------------------------
(* What does not change, and the span of a run.                            *)

\* What a plan says is no matter of state.
LEMMA PlanConstant ==
  ASSUME NEW r \in Run
  PROVE  /\ AtArm(r)' = AtArm(r) /\ Ever(r)' = Ever(r) /\ MayLaunch(r)' = MayLaunch(r)
         /\ AtArm(r) \subseteq Steps(r) /\ Ever(r) \subseteq Steps(r) /\ Steps(r)' = Steps(r)
         /\ AtArm(r) \subseteq Slot /\ N \notin Ever(r) /\ MayLaunch(r) \subseteq Task
<1>1. Steps(r)' = Steps(r)
  BY DEF Steps
<1>2. \A i \in Steps(r) : i # N /\ i \in Slot
  BY PlanSteps
<1>3. \A i \in Steps(r) : StepAt(r, i)' = StepAt(r, i)
  BY <1>2 DEF StepAt
<1>4. \A i \in Steps(r) : Root(r, i)' = Root(r, i) /\ Root(r, i) \in Steps(r)
  <2> TAKE i \in Steps(r)
  <2>1. Plan[r].steps[i].base = "step" => Plan[r].steps[i].of \in Steps(r)
    BY PlanAssumption DEF Steps
  <2> QED
    BY <1>3, <2>1, PlanSteps DEF Root
<1>5. \A i \in Steps(r) : RootBase(r, i)' = RootBase(r, i)
  BY <1>3, <1>4 DEF RootBase
<1>6. AtArm(r)' = AtArm(r) /\ AtArm(r) \subseteq Steps(r)
  BY <1>1, <1>5 DEF AtArm, OpenEnded, HasHold
<1>7. Ever(r)' = Ever(r) /\ Ever(r) \subseteq Steps(r)
  BY <1>1, <1>6 DEF Ever, HasHold
<1>8. \A i \in Steps(r) : /\ TaskOf(r, i)' = TaskOf(r, i) /\ Act(r, i)' = Act(r, i)
                          /\ TaskOf(r, i) \in Task
  BY <1>3, PlanSteps DEF TaskOf, Act, Step
<1>9. MayLaunch(r)' = MayLaunch(r) /\ MayLaunch(r) \subseteq Task
  BY <1>7, <1>8 DEF MayLaunch
<1> QED
  BY <1>1, <1>2, <1>6, <1>7, <1>9

\* Least gives the least of the numbers when they are bounded.
LEMMA LeastOfBounded ==
  ASSUME NEW S \in SUBSET Int, S # {}, NEW b \in Int, \A x \in S : b <= x
  PROVE  Least(S) \in S /\ \A y \in S : Least(S) <= y
<1> DEFINE T == {x - b : x \in S}
<1>1. T \in SUBSET Nat /\ T # {}
  <2>1. \A x \in S : x \in Int /\ b <= x /\ x - b \in Nat
    OBVIOUS
  <2> QED
    BY <2>1
<1>2. PICK m \in T : \A k \in T : m <= k
  BY <1>1, LeastNatural
<1>3. PICK x \in S : m = x - b
  BY <1>2
<1>4. \A y \in S : x <= y
  BY <1>2, <1>3
<1> QED
  BY <1>3, <1>4 DEF Least

\* The numbers in the slots of a table are bounded below as well.
LEMMA BoundedBelow ==
  ASSUME NEW n \in Nat, NEW f \in [1 .. n -> Int]
  PROVE  \E b \in Int : \A i \in 1 .. n : b <= f[i]
<1> DEFINE g == [i \in 1 .. n |-> -f[i]]
<1>1. g \in [1 .. n -> Int]
  OBVIOUS
<1>2. PICK c \in Int : \A i \in 1 .. n : g[i] <= c
  BY <1>1, Bounded
<1>3. \A i \in 1 .. n : -c <= f[i]
  BY <1>2
<1> QED
  BY <1>3

\* What Most gives of a number and of the instants of some slots.
LEMMA MostOf ==
  ASSUME NEW n \in Nat, NEW f \in [1 .. n -> Int], NEW D \in SUBSET (1 .. n), NEW e \in Int
  PROVE  LET m == Most({e} \cup {f[i] : i \in D}) IN
         m \in Int /\ e <= m /\ (\A i \in D : f[i] <= m) /\ (m = e \/ \E i \in D : m = f[i])
<1> DEFINE S == {e} \cup {f[i] : i \in D}
<1>1. PICK b \in Int : \A i \in 1 .. n : f[i] <= b
  BY Bounded
<1>2. PICK c \in Int : b <= c /\ e <= c
  <2>1. CASE b <= e
    BY <2>1
  <2>2. CASE ~(b <= e)
    BY <2>2
  <2> QED
    BY <2>1, <2>2
<1>3. \A i \in D : f[i] \in Int /\ f[i] <= c
  BY <1>1, <1>2
<1>4. S \in SUBSET Int /\ S # {} /\ \A x \in S : x <= c
  BY <1>2, <1>3
<1>5. Most(S) \in S /\ \A y \in S : y <= Most(S)
  BY <1>4, MostOfBounded
<1> QED
  BY <1>4, <1>5

\* What Least gives of the instants of some slots.
LEMMA LeastOf ==
  ASSUME NEW n \in Nat, NEW f \in [1 .. n -> Int], NEW D \in SUBSET (1 .. n), D # {}
  PROVE  LET m == Least({f[i] : i \in D}) IN
         m \in Int /\ (\A i \in D : m <= f[i]) /\ \E i \in D : m = f[i]
<1> DEFINE S == {f[i] : i \in D}
<1>1. PICK b \in Int : \A i \in 1 .. n : b <= f[i]
  BY BoundedBelow
<1>2. S \in SUBSET Int /\ S # {} /\ \A x \in S : b <= x
  BY <1>1
<1>3. Least(S) \in S /\ \A y \in S : Least(S) <= y
  BY <1>2, LeastOfBounded
<1> QED
  BY <1>2, <1>3

\* A run has the channel until its end or its last fire, whichever is later.
LEMMA EndOfChannel ==
  ASSUME TypeOK, NEW r \in Run
  PROVE  /\ ChannelEnd(r) \in Int /\ end[r] <= ChannelEnd(r)
         /\ \A i \in Fires(r) : at[r][i] <= ChannelEnd(r)
         /\ ChannelEnd(r) = end[r] \/ \E i \in Fires(r) : ChannelEnd(r) = at[r][i]
<1>1. /\ N \in Nat /\ at[r] \in [1 .. N -> Int] /\ end[r] \in Int
      /\ Fires(r) \in SUBSET (1 .. N)
  BY Bounds DEF Slot, TypeOK, RunTypes, Fires
<1> QED
  BY <1>1, MostOf DEF ChannelEnd

\* It takes the channel with its first fire.
LEMMA StartOfChannel ==
  ASSUME TypeOK, NEW r \in Run
  PROVE  /\ ChannelStart(r) \in Int
         /\ \A i \in Fires(r) : ChannelStart(r) <= at[r][i]
         /\ Fires(r) # {} => \E i \in Fires(r) : ChannelStart(r) = at[r][i]
         /\ Fires(r) = {} => ChannelStart(r) = Plan[r].on
<1>1. N \in Nat /\ at[r] \in [1 .. N -> Int] /\ Fires(r) \in SUBSET (1 .. N)
  BY Bounds DEF Slot, TypeOK, RunTypes, Fires
<1>2. CASE Fires(r) = {}
  BY <1>2, PlanSteps DEF ChannelStart
<1>3. CASE Fires(r) # {}
  BY <1>1, <1>3, LeastOf DEF ChannelStart
<1> QED
  BY <1>2, <1>3

-----------------------------------------------------------------------------
(* What the steps of most actions leave alone.                             *)

\* Fires keep their times, what is marked stays marked and only an open mark
\* changes.
Still ==
  /\ UNCHANGED <<at, end, gen>>
  /\ \A r \in Run, i \in Slot :
       mark'[r][i] = mark[r][i] \/ (mark[r][i] = "open" /\ mark'[r][i] # "unset")
\* No run becomes active, or armed.
Onward ==
  \A r \in Run : \/ st'[r] = st[r] \/ (st[r] # "none" /\ st'[r] \in Over)
                 \/ st[r] \in Active /\ st'[r] \notin {"none", "ARMED"}
Aging == now' = now \/ (now < Horizon /\ now' = now + 1)
\* The loop collects what is due and no more, and only runs that were armed are
\* to be aborted.
Gathered ==
  /\ \A b \in batch' : b \in batch \/ (b.run \in Run /\ b.gen = gen[b.run] /\ b.step \in Due(b.run))
  /\ \A c \in Coroutine, r \in Run : r \in doom'[c] => r \in doom[c] \/ st[r] # "none"
\* No run begins, or enters a Hold.
Idle == UNCHANGED held /\ \A r \in Run : st'[r] \in {"RUNNING", "HOLDING"} => st'[r] = st[r]
Plain == Still /\ Onward /\ Aging /\ Gathered /\ Idle

\* A run loses what it has live, and a restart mends what was lost.
Mended ==
  /\ \A r \in Run : \/ FaultTask(r)' \in {FaultTask(r), NoTask}
                    \/ st[r] \in Active /\ FaultTask(r)' \in LiveTasks(r)
  /\ \A r \in Run : \/ again'[r] = again[r]
                    \/ \E c \in Coroutine : Restarting(c) /\ cur[c] = r /\ again'[r] = on[c]
  /\ \A c \in Coroutine : Restarting(c)' =>
       \/ Restarting(c) /\ cur'[c] = cur[c] /\ on'[c] = on[c]
       \/ cur'[c] \in Run /\ fault[cur'[c]] # <<>> /\ on'[c] = FaultTask(cur'[c])

\* Then a run has the channel as long as it had.
LEMMA SpanKept ==
  ASSUME TypeOK, Still, NEW r \in Run
  PROVE  /\ Fires(r)' = Fires(r) /\ ChannelEnd(r)' = ChannelEnd(r)
         /\ ChannelStart(r)' = ChannelStart(r)
<1>1. Fires(r)' = Fires(r)
  BY DEF Still, Fires
<1>2. UNCHANGED <<at, end>>
  BY DEF Still
<1> QED
  BY <1>1, <1>2 DEF ChannelEnd, ChannelStart

\* Nor does an armed run lose a fire or get one.
LEMMA ArmedKept ==
  ASSUME TypeOK, Still, Onward, Armed
  PROVE  Armed'
<1> SUFFICES ASSUME NEW r \in Run
             PROVE  /\ st'[r] # "none" => /\ AtArm(r)' \subseteq Fires(r)'
                                          /\ Fires(r)' \subseteq Ever(r)' \cup {N}
                    /\ st'[r] = "ARMED" => Fires(r)' = AtArm(r)' /\ ChannelStart(r)' < Never
  BY DEF Armed
<1>1. st[r] = "none" => st'[r] = "none"
  BY DEF Onward, Active, Firing, Over
<1>2. st'[r] = "ARMED" => st[r] = "ARMED"
  BY DEF Onward, Over, Active, Firing
<1> QED
  BY <1>1, <1>2, SpanKept, PlanConstant DEF Armed

\* Runs that were apart stay so: the clock never goes back.
LEMMA ApartKept ==
  ASSUME TypeOK, Still, Onward, Aging, AllApart
  PROVE  AllApart'
<1> SUFFICES ASSUME NEW r \in Run, NEW q \in Run, r # q, {st'[r], st'[q]} \subseteq Active,
                    MayLaunch(r) \cap MayLaunch(q) # {}
             PROVE  Apart(r, q)'
  BY PlanConstant DEF AllApart
<1>1. {st[r], st[q]} \subseteq Active
  BY DEF Onward, Over, Active, Firing
<1>2. PICK e \in {ChannelEnd(r), ChannelEnd(q)},
           m \in {ChannelStart(r), ChannelStart(q), now} : e <= m
  BY <1>1 DEF AllApart, Apart
<1>3. /\ ChannelEnd(r)' = ChannelEnd(r) /\ ChannelEnd(q)' = ChannelEnd(q)
      /\ ChannelStart(r)' = ChannelStart(r) /\ ChannelStart(q)' = ChannelStart(q)
  BY SpanKept
<1>4. now \in Int /\ now' \in Int /\ now <= now'
  BY DEF Aging, TypeOK
<1>5. e \in Int
  BY <1>2, EndOfChannel
<1>6. CASE m = now
  <2>1. e <= now'
    BY <1>2, <1>4, <1>5, <1>6
  <2> QED
    BY <1>2, <1>3, <2>1 DEF Apart
<1>7. CASE m # now
  BY <1>2, <1>3, <1>7 DEF Apart
<1> QED
  BY <1>6, <1>7

\* What was collected stays due.
LEMMA CollectedKept ==
  ASSUME Sound, UNCHANGED <<at, gen>>, Onward, Aging, Gathered, Collected
  PROVE  Collected'
<1> SUFFICES ASSUME NEW b \in batch'
             PROVE  /\ b.gen = gen'[b.run] /\ st'[b.run] # "none"
                    /\ st'[b.run] = "ARMED" => at'[b.run][b.step] <= now'
  BY DEF Collected
<1>1. now \in Int /\ now' \in Int /\ now <= now'
  BY DEF Aging, Sound, TypeOK
<1>2. CASE b \in batch
  <2>1. b.run \in Run /\ b.step \in Slot
    BY <1>2 DEF Sound, TypeOK, WorkTypes
  <2>2. at[b.run][b.step] \in Int
    BY <2>1 DEF Sound, TypeOK, RunTypes
  <2>3. /\ b.gen = gen[b.run] /\ st[b.run] # "none"
        /\ st[b.run] = "ARMED" => at[b.run][b.step] <= now
    BY <1>2 DEF Collected
  <2>4. st'[b.run] # "none" /\ (st'[b.run] = "ARMED" => st[b.run] = "ARMED")
    BY <2>1, <2>3 DEF Onward, Over
  <2> QED
    BY <1>1, <2>2, <2>3, <2>4
<1>3. CASE b \notin batch
  <2>1. b.run \in Run /\ b.gen = gen[b.run] /\ b.step \in Due(b.run)
    BY <1>3 DEF Gathered
  <2>2. st[b.run] \in Firing /\ b.step \in Slot /\ at[b.run][b.step] <= now
    BY <2>1 DEF Due
  <2>3. at[b.run][b.step] \in Int
    BY <2>1, <2>2 DEF Sound, TypeOK, RunTypes
  <2>4. st'[b.run] # "none"
    BY <2>1, <2>2 DEF Onward, Firing, Over
  <2> QED
    BY <1>1, <2>1, <2>2, <2>3, <2>4
<1> QED
  BY <1>2, <1>3

\* Who is to be aborted stays one that was armed.
LEMMA DoomKept ==
  ASSUME Onward, Gathered, Doomed
  PROVE  Doomed'
<1>1. \A r \in Run : st[r] # "none" => st'[r] # "none"
  BY DEF Onward, Over
<1> QED
  BY <1>1 DEF Doomed, Gathered

\* No Hold is entered without a step of its own.
LEMMA HeldKept ==
  ASSUME UNCHANGED end, Idle, Onward, HeldOnce
  PROVE  HeldOnce'
<1> SUFFICES ASSUME NEW r \in Run
             PROVE  /\ st'[r] = "HOLDING" => HasHold(r) /\ held'[r] # Never /\ end'[r] = Never
                    /\ (HasHold(r) /\ held'[r] = Never /\ st'[r] # "none") => end'[r] = Never
  BY DEF HeldOnce, HasHold
<1>1. UNCHANGED <<end, held>> /\ (st'[r] = "HOLDING" => st[r] = "HOLDING")
  BY DEF Idle
<1>2. st[r] = "none" => st'[r] = "none"
  BY DEF Onward, Active, Firing, Over
<1> QED
  BY <1>1, <1>2 DEF HeldOnce

\* A run that has begun has fired its step for good.
LEMMA StartedKept ==
  ASSUME Sound, Still, Aging, Started,
         \A r \in Run : st'[r] \in {"RUNNING", "HOLDING"} =>
           \/ st[r] \in {"RUNNING", "HOLDING"}
           \/ \E i \in AtArm(r) : mark'[r][i] = "fired" /\ at[r][i] <= now
  PROVE  Started'
<1> SUFFICES ASSUME NEW r \in Run, st'[r] \in {"RUNNING", "HOLDING"}
             PROVE  \E i \in AtArm(r) : mark'[r][i] = "fired" /\ at'[r][i] <= now'
  BY PlanConstant DEF Started
<1>1. AtArm(r) \subseteq Slot
  BY PlanConstant
<1>2. PICK i \in AtArm(r) : mark'[r][i] = "fired" /\ at[r][i] <= now
  BY <1>1 DEF Started, Still
<1>3. now \in Int /\ now' \in Int /\ now <= now' /\ at[r][i] \in Int
  BY <1>1 DEF Aging, Sound, TypeOK, RunTypes
<1> QED
  BY <1>2, <1>3 DEF Still

\* What a run that was armed launches is what it may launch.
LEMMA LaunchesMay ==
  ASSUME Sound, Armed, FaultsLaunched, NEW r \in Run, st[r] # "none"
  PROVE  /\ Launches(r) \subseteq MayLaunch(r) /\ LiveTasks(r) \subseteq MayLaunch(r)
         /\ MayLaunch(r) \subseteq Launches(r)
<1>1. \A i \in Fires(r) : Act(r, i) = "start" => TaskOf(r, i) \in MayLaunch(r)
  <2> TAKE i \in Fires(r)
  <2> HAVE Act(r, i) = "start"
  <2>1. CASE i \in Ever(r)
    BY <2>1 DEF MayLaunch
  <2>2. CASE i \notin Ever(r)
    <3>1. i = N
      BY <2>2 DEF Armed
    <3>2. TaskOf(r, i) = again[r]
      BY <3>1 DEF TaskOf, StepAt
    <3>3. again[r] # NoTask
      BY <3>1, PlanSteps DEF Sound, SlotsInv, Fires, Known
    <3> QED
      BY <3>2, <3>3 DEF FaultsLaunched
  <2> QED
    BY <2>1, <2>2
<1>2. \A i \in Steps(r) : HasHold(r) => i \in Ever(r)
  BY DEF Ever
<1>3. Launches(r) \subseteq MayLaunch(r)
  BY <1>1, <1>2 DEF Launches, MayLaunch
<1>4. LiveTasks(r) \subseteq MayLaunch(r)
  BY <1>1 DEF LiveTasks, Fires
<1>5. MayLaunch(r) \subseteq Launches(r)
  BY DEF MayLaunch, Ever, Launches, Armed
<1> QED
  BY <1>3, <1>4, <1>5

\* So what a run loses and mends is a task that it may launch.
LEMMA MendsKept ==
  ASSUME Sound, Armed, FaultsLaunched, MendsLaunched, Mended
  PROVE  FaultsLaunched' /\ MendsLaunched'
<1>1. \A r \in Run : MayLaunch(r)' = MayLaunch(r)
  BY PlanConstant
<1>2. \A r \in Run : st[r] \in Active => LiveTasks(r) \subseteq MayLaunch(r)
  BY LaunchesMay DEF Active, Firing
<1>3. \A c \in Coroutine : Restarting(c) => cur[c] \in Run /\ on[c] \in MayLaunch(cur[c])
  BY DEF MendsLaunched, Sound, HandInv, Hand
<1>4. FaultsLaunched'
  <2>1. \A r \in Run : FaultTask(r)' \in MayLaunch(r) \cup {NoTask}
    BY <1>2 DEF Mended, FaultsLaunched
  <2>2. \A r \in Run : again'[r] \in MayLaunch(r) \cup {NoTask}
    BY <1>3 DEF Mended, FaultsLaunched
  <2> QED
    BY <1>1, <2>1, <2>2 DEF FaultsLaunched
<1>5. MendsLaunched'
  <2>1. ASSUME NEW c \in Coroutine, Restarting(c)'
        PROVE  cur'[c] \in Run /\ on'[c] \in MayLaunch(cur'[c])
    <3>1. CASE Restarting(c) /\ cur'[c] = cur[c] /\ on'[c] = on[c]
      BY <1>3, <3>1
    <3>2. CASE cur'[c] \in Run /\ fault[cur'[c]] # <<>> /\ on'[c] = FaultTask(cur'[c])
      BY <3>2, Faulty, NameAssumption DEF FaultsLaunched, Sound
    <3> QED
      BY <2>1, <3>1, <3>2 DEF Mended
  <2> QED
    BY <1>1, <2>1 DEF MendsLaunched
<1> QED
  BY <1>4, <1>5

\* When a run has the channel is all that these steps leave alone.
LEMMA SteadyStep ==
  ASSUME Sound, Shared, Still, Onward, Aging, Gathered, Mended, HeldOnce', Started'
  PROVE  Shared'
<1> USE DEF Shared
<1>1. Armed' /\ AllApart' /\ Collected' /\ Doomed'
  BY ArmedKept, ApartKept, CollectedKept, DoomKept DEF Still, Sound
<1>2. FaultsLaunched' /\ MendsLaunched'
  BY MendsKept
<1>3. now' <= Horizon
  BY Bounds DEF Aging, Sound, TypeOK
<1> QED
  BY <1>1, <1>2, <1>3

\* A plain step keeps the whole invariant.
LEMMA PlainStep ==
  ASSUME Sound, Shared, Plain, Mended
  PROVE  Shared'
<1>1. HeldOnce'
  BY HeldKept DEF Plain, Still, Shared
<1>2. Started'
  BY StartedKept DEF Plain, Idle, Shared
<1> QED
  BY <1>1, <1>2, SteadyStep DEF Plain

-----------------------------------------------------------------------------
(* What is lost and what is mended.                                        *)

\* A step that tells of no fault and begins no restart.
Unmended ==
  /\ UNCHANGED again /\ \A r \in Run : fault'[r] \in {fault[r], <<>>}
  /\ \A c \in Coroutine : Restarting(c)' => Restarting(c) /\ cur'[c] = cur[c] /\ on'[c] = on[c]

\* Such a step mends nothing that was not lost.
LEMMA UnmendedMended ==
  ASSUME Unmended
  PROVE  Mended
<1>1. \A r \in Run : FaultTask(r)' \in {FaultTask(r), NoTask}
  BY DEF Unmended, FaultTask
<1> QED
  BY <1>1 DEF Unmended, Mended

\* The task whose fault is told is what the runs that have it live have lost,
\* unless they had lost another one before.
LEMMA CoupleLoses ==
  ASSUME TypeOK, NEW t \in Task, Couple(t), NEW r \in Run
  PROVE  FaultTask(r)' = FaultTask(r) \/ (st[r] \in Active /\ FaultTask(r)' \in LiveTasks(r))
<1>1. fault[r] \in Seq(Task) /\ t \in Task
  BY DEF TypeOK, FaultTypes
<1>2. CASE r \notin Coupled(t)
  <2>1. fault'[r] = fault[r]
    BY <1>2 DEF Couple
  <2> QED
    BY <2>1 DEF FaultTask
<1>3. CASE r \in Coupled(t)
  <2>1. fault'[r] = Append(fault[r], t) /\ t \in LiveTasks(r) /\ st[r] \in Active
    BY <1>3 DEF Couple, Coupled
  <2>2. CASE fault[r] = <<>>
    <3>1. Append(fault[r], t) = <<t>>
      BY <2>2
    <3>2. FaultTask(r)' = t
      BY <2>1, <3>1 DEF FaultTask
    <3> QED
      BY <2>1, <3>2
  <2>3. CASE fault[r] # <<>>
    <3>1. Len(fault[r]) \in Nat /\ Len(fault[r]) >= 1
      BY <1>1, <2>3
    <3>2. Len(Append(fault[r], t)) = Len(fault[r]) + 1 /\ Append(fault[r], t)[1] = fault[r][1]
      BY <1>1, <3>1
    <3>3. Append(fault[r], t) # <<>> /\ Head(Append(fault[r], t)) = Head(fault[r])
      BY <1>1, <2>3, <3>1, <3>2
    <3> QED
      BY <2>1, <2>3, <3>3 DEF FaultTask
  <2> QED
    BY <2>2, <2>3
<1> QED
  BY <1>2, <1>3

\* A restart sets out to mend what its run has lost.
LEMMA RestartMends ==
  ASSUME Sound, NEW c \in Coroutine, NEW r \in Run, NEW how,
         NEW label \in {"idle", "redo"}, Restart(c, r, how, label)
  PROVE  Mended
<1> USE DEF Sound, TypeOK, HandTypes
<1>1. UNCHANGED <<fault, again>>
  BY DEF Restart
<1>2. \A d \in Coroutine : d # c => /\ pc'[d] = pc[d] /\ cur'[d] = cur[d] /\ then'[d] = then[d]
                                   /\ on'[d] = on[d]
  BY DEF Restart, Refused, StopTask, Goto
<1>3. pc[c] \in {"idle", "redo"}
  BY DEF Restart, At
<1>4. Restarting(c)' => on'[c] = FaultTask(r) /\ cur'[c] = r /\ fault[r] # <<>>
  BY <1>3 DEF Restart, Refused, StopTask, Goto, Restarting, Awaiting, Restartable
<1>5. \A d \in Coroutine : d # c => (Restarting(d)' => Restarting(d))
  BY <1>2 DEF Restarting, Awaiting
<1>6. \A q \in Run : FaultTask(q)' = FaultTask(q)
  BY <1>1 DEF FaultTask
<1> QED
  BY <1>1, <1>2, <1>4, <1>5, <1>6 DEF Mended

\* Whatever happens, a run loses what it has live, and a restart mends what was lost.
LEMMA MendStep ==
  ASSUME Sound, [Next]_vars
  PROVE  Mended
<1> USE LoopRuns DEF Sound, TypeOK
<1>1. ASSUME NEW r \in Run, Arm(r) PROVE Unmended
  BY <1>1 DEF Arm, At, Goto, Restarting, Awaiting, Unmended, HandTypes, faults, hand
<1>2. ASSUME NEW r \in Run, HoldNow(r) PROVE Unmended
  BY <1>2 DEF HoldNow, At, Goto, Restarting, Awaiting, Unmended, HandTypes, faults, hand
<1>3. ASSUME NEW r \in Run, NEW to \in Ends, Patch(r, to) PROVE Unmended
  BY <1>3 DEF Patch, At, Goto, Restarting, Awaiting, Unmended, HandTypes, faults, hand
<1>4. ASSUME NEW r \in Run, NEW resume \in {now, now + 1}, Proceed(r, resume) PROVE Unmended
  BY <1>4 DEF Proceed, At, Goto, Restarting, Awaiting, Unmended, HandTypes, faults, hand
<1>5. ASSUME NEW r \in Run, RestartUnattended(r) PROVE Mended
  BY <1>5, RestartMends DEF RestartUnattended
<1>6. ASSUME NEW r \in Run, Forgive(r) PROVE Unmended
  BY <1>6 DEF Forgive, At, Goto, Restarting, Awaiting, Unmended, HandTypes, faults, hand
<1>7. ASSUME NEW c \in Caller, AbortAll(c) PROVE Unmended
  BY <1>7 DEF AbortAll, At, Goto, Restarting, Awaiting, Unmended, HandTypes, faults,
     hand
<1>8. ASSUME NEW c \in Caller, NEW r \in Run, Cancel(c, r) PROVE Unmended
  BY <1>8 DEF Cancel, At, Goto, Restarting, Awaiting, Unmended, HandTypes, faults, hand
<1>9. ASSUME NEW c \in Caller, NEW r \in Run, NEW how \in Modes, RestartByHand(c, r, how) PROVE Mended
  BY <1>9, RestartMends DEF RestartByHand
<1>10. ASSUME NEW c \in Coroutine, Muted(c) PROVE Unmended
  BY <1>10 DEF Muted, At, Goto, Restarting, Awaiting, Unmended, HandTypes, faults, hand
<1>11. ASSUME NEW c \in Coroutine, Swept(c) PROVE Unmended
  BY <1>11 DEF Swept, At, Goto, Restarting, Awaiting, Unmended, HandTypes, faults, hand
<1>12. ASSUME NEW c \in Coroutine, RestartRefused(c) PROVE Unmended
  BY <1>12 DEF RestartRefused, Refused, At, Goto, Restarting, Awaiting, Unmended,
     HandTypes, faults, hand
<1>13. ASSUME NEW c \in Coroutine, Commit(c) PROVE Mended
  <2>1. Restarting(c) /\ UNCHANGED <<cur, on, then>>
    BY <1>13 DEF Commit, At, Restarting, hand
  <2>2. \A r \in Run : /\ fault'[r] \in {fault[r], <<>>}
                       /\ again'[r] = again[r] \/ (r = cur[c] /\ again'[r] = on[c])
    BY <1>13 DEF Commit, FaultTypes
  <2>3. \A r \in Run : FaultTask(r)' \in {FaultTask(r), NoTask}
    BY <2>2 DEF FaultTask
  <2>4. \A d \in Coroutine : Restarting(d)' => Restarting(d)
    BY <1>13 DEF Commit, Goto, Restarting, Awaiting, HandTypes, hand
  <2> QED
    BY <2>1, <2>2, <2>3, <2>4 DEF Mended
<1>14. ASSUME NEW c \in Coroutine, NEW r \in Run, Abort(c, r) PROVE Unmended
  BY <1>14 DEF Abort, At, Goto, Restarting, Awaiting, Unmended, HandTypes, faults, hand
<1>15. ASSUME NEW c \in Coroutine, NEW n \in {1, 2}, NEW t \in Task, Sweep(c, n, t) PROVE Unmended
  BY <1>15 DEF Sweep, StopTask, Goto, At, Restarting, Awaiting, Unmended, HandTypes,
     faults, hand
<1>16. ASSUME NEW b \in batch, FireSkipped(b) PROVE Unmended
  BY <1>16 DEF FireSkipped, At, Goto, Restarting, Awaiting, Unmended, HandTypes, faults,
     hand
<1>17. ASSUME NEW b \in batch, TuneDeferred(b) PROVE Unmended
  BY <1>17 DEF TuneDeferred, At, Goto, Restarting, Awaiting, Unmended, HandTypes,
     faults, hand
<1>18. ASSUME NEW b \in batch, TuneDropped(b) PROVE Unmended
  BY <1>18 DEF TuneDropped, At, Goto, Restarting, Awaiting, Unmended, HandTypes, faults,
     hand
<1>19. ASSUME NEW b \in batch, Tune(b) PROVE Unmended
  BY <1>19 DEF Tune, Take, At, Goto, Restarting, Awaiting, Unmended, HandTypes, faults,
     hand
<1>20. ASSUME NEW b \in batch, Start(b) PROVE Unmended
  BY <1>20 DEF Start, Take, At, Goto, Restarting, Awaiting, Unmended, HandTypes, faults,
     hand
<1>21. ASSUME NEW b \in batch, Stop(b) PROVE Unmended
  BY <1>21 DEF Stop, Take, StopTask, Goto, At, Restarting, Awaiting, Unmended,
     HandTypes, faults, hand
<1>22. ASSUME Tick PROVE Unmended
  BY <1>22 DEF Tick, At, Goto, Restarting, Awaiting, Unmended, HandTypes, faults, hand
<1>23. ASSUME Tuned PROVE Unmended
  BY <1>23 DEF Tuned, At, Goto, Restarting, Awaiting, Unmended, HandTypes, faults, hand
<1>24. ASSUME Unpark PROVE Mended
  <2>1. on[Loop] \in Task
    BY <1>24 DEF Unpark, At, HandInv, Hand, Launching
  <2>2. UNCHANGED <<again, cur, on, then>>
    BY <1>24 DEF Unpark, hand
  <2>3. \A r \in Run : \/ FaultTask(r)' = FaultTask(r)
                       \/ st[r] \in Active /\ FaultTask(r)' \in LiveTasks(r)
    <3>1. CASE UNCHANGED fault
      BY <3>1 DEF FaultTask
    <3>2. CASE Couple(on[Loop])
      BY <2>1, <3>2, CoupleLoses
    <3> QED
      BY <1>24, <3>1, <3>2 DEF Unpark
  <2>4. \A c \in Coroutine : Restarting(c)' => Restarting(c)
    BY <1>24, <2>2 DEF Unpark, At, Goto, Woken, Restarting, Awaiting, HandTypes
  <2> QED
    BY <2>2, <2>3, <2>4 DEF Mended
<1>25. ASSUME Exec PROVE Mended
  <2>1. on[Loop] \in Task
    BY <1>25 DEF Exec, At, HandInv, Hand, Launching
  <2>2. UNCHANGED <<again, cur, on, then>>
    BY <1>25 DEF Exec, hand
  <2>3. \A r \in Run : \/ FaultTask(r)' = FaultTask(r)
                       \/ st[r] \in Active /\ FaultTask(r)' \in LiveTasks(r)
    <3>1. CASE UNCHANGED fault
      BY <3>1 DEF FaultTask
    <3>2. CASE Couple(on[Loop])
      BY <2>1, <3>2, CoupleLoses
    <3> QED
      BY <1>25, <3>1, <3>2 DEF Exec
  <2>4. \A c \in Coroutine : Restarting(c)' => Restarting(c)
    BY <1>25, <2>2 DEF Exec, At, Goto, Woken, Restarting, Awaiting, HandTypes
  <2> QED
    BY <2>2, <2>3, <2>4 DEF Mended
<1>26. ASSUME Launched PROVE Unmended
  BY <1>26 DEF Launched, StopTask, Goto, At, Restarting, Awaiting, Unmended, HandTypes,
     faults, hand
<1>27. ASSUME After PROVE Unmended
  BY <1>27 DEF After, At, Goto, Restarting, Awaiting, Unmended, HandTypes, faults, hand
<1>28. ASSUME Holds PROVE Unmended
  BY <1>28 DEF Holds, At, Goto, Restarting, Awaiting, Unmended, HandTypes, faults, hand
<1>29. ASSUME Collect PROVE Unmended
  BY <1>29 DEF Collect, At, Goto, Restarting, Awaiting, Unmended, HandTypes, faults,
     hand
<1>30. ASSUME Sleep PROVE Unmended
  BY <1>30 DEF Sleep, At, Goto, Restarting, Awaiting, Unmended, HandTypes, faults, hand
<1>31. ASSUME NEW t \in Task, Bind(t) PROVE Unmended
  BY <1>31 DEF Bind, At, Goto, Restarting, Awaiting, Unmended, HandTypes, faults, hand
<1>32. ASSUME NEW t \in Task, Exit(t) PROVE Unmended
  BY <1>32 DEF Exit, Woken, At, Goto, Restarting, Awaiting, Unmended, HandTypes, faults,
     hand
<1>33. ASSUME NEW t \in Task, Fail(t) PROVE Unmended
  BY <1>33 DEF Fail, At, Goto, Restarting, Awaiting, Unmended, HandTypes, faults, hand
<1>34. ASSUME NEW t \in Task, Alarm(t) PROVE Mended
  <2>1. UNCHANGED <<again, pc, cur, on, then>>
    BY <1>34 DEF Alarm, hand
  <2>2. \A r \in Run : \/ FaultTask(r)' = FaultTask(r)
                       \/ st[r] \in Active /\ FaultTask(r)' \in LiveTasks(r)
    BY <1>34, CoupleLoses DEF Alarm
  <2>3. \A c \in Coroutine : Restarting(c)' => Restarting(c)
    BY <2>1 DEF Restarting, Awaiting
  <2> QED
    BY <2>1, <2>2, <2>3 DEF Mended
<1>35. ASSUME TimePasses PROVE Unmended
  BY <1>35 DEF TimePasses, At, Goto, Restarting, Awaiting, Unmended, HandTypes, faults,
     hand
<1>36. ASSUME CrashAndRestart PROVE Unmended
  <2>1. \A c \in Coroutine : pc'[c] \in {"idle", "done"}
    BY <1>36 DEF CrashAndRestart
  <2> QED
    BY <1>36, <2>1 DEF CrashAndRestart, Restarting, Awaiting, Unmended
<1>37. ASSUME UNCHANGED vars PROVE Unmended
  BY <1>37 DEF vars, faults, hand, Unmended, Restarting, Awaiting
<1> HIDE DEF Sound, TypeOK
<1> QED
  BY <1>1, <1>2, <1>3, <1>4, <1>5, <1>6, <1>7, <1>8, <1>9, <1>10, <1>11, <1>12, <1>13,
     <1>14, <1>15, <1>16, <1>17, <1>18, <1>19, <1>20, <1>21, <1>22, <1>23, <1>24, <1>25,
     <1>26, <1>27, <1>28, <1>29, <1>30, <1>31, <1>32, <1>33, <1>34, <1>35, <1>36, <1>37,
     UnmendedMended DEF Next

-----------------------------------------------------------------------------
(* Which steps are plain.                                                  *)

\* The steps that change when a run has the channel, or begin one or a Hold.
Special ==
  \/ \E r \in Run : Arm(r) \/ HoldNow(r) \/ \E resume \in {now, now + 1} : Proceed(r, resume)
  \/ \E c \in Coroutine : Commit(c)
  \/ \E b \in batch : Tune(b) \/ Start(b) \/ Stop(b)
  \/ Holds

\* The others are plain, while no end is moved.
LEMMA Kinds ==
  ASSUME Sound, Collected, Doomed, Ends = {}, [Next]_vars
  PROVE  Plain \/ Special
<1> USE LoopRuns DEF Sound, TypeOK
<1>1. ASSUME NEW r \in Run, NEW to \in Ends, Patch(r, to) PROVE Plain
  BY <1>1
<1>2. ASSUME NEW r \in Run, RestartUnattended(r) PROVE Plain
  BY <1>2 DEF RestartUnattended, Restart, Plain, Still, Onward, Aging, Gathered, Idle,
     RunTypes, WorkTypes, runs, work
<1>3. ASSUME NEW r \in Run, Forgive(r) PROVE Plain
  BY <1>3 DEF Forgive, Plain, Still, Onward, Aging, Gathered, Idle, RunTypes, WorkTypes,
     runs, work
<1>4. ASSUME NEW c \in Caller, AbortAll(c) PROVE Plain
  BY <1>4 DEF AbortAll, Plain, Still, Onward, Aging, Gathered, Idle, RunTypes,
     WorkTypes, runs, Active, Firing
<1>5. ASSUME NEW c \in Caller, NEW r \in Run, Cancel(c, r) PROVE Plain
  BY <1>5 DEF Cancel, Plain, Still, Onward, Aging, Gathered, Idle, RunTypes, WorkTypes,
     runs, Active, Firing
<1>6. ASSUME NEW c \in Caller, NEW r \in Run, NEW how \in Modes, RestartByHand(c, r, how) PROVE Plain
  BY <1>6 DEF RestartByHand, Restart, Plain, Still, Onward, Aging, Gathered, Idle,
     RunTypes, WorkTypes, runs, work
<1>7. ASSUME NEW c \in Coroutine, Muted(c) PROVE Plain
  BY <1>7 DEF Muted, Plain, Still, Onward, Aging, Gathered, Idle, RunTypes, WorkTypes,
     runs, work
<1>8. ASSUME NEW c \in Coroutine, Swept(c) PROVE Plain
  BY <1>8 DEF Swept, Plain, Still, Onward, Aging, Gathered, Idle, RunTypes, WorkTypes,
     runs, work
<1>9. ASSUME NEW c \in Coroutine, RestartRefused(c) PROVE Plain
  BY <1>9 DEF RestartRefused, Plain, Still, Onward, Aging, Gathered, Idle, RunTypes,
     WorkTypes, runs, work
<1>10. ASSUME NEW c \in Coroutine, NEW r \in Run, Abort(c, r) PROVE Plain
  <2>1. st[r] # "none"
    BY <1>10 DEF Abort, Doomed
  <2> QED
    BY <1>10, <2>1 DEF Abort, Over, RunTypes, WorkTypes, Plain, Still, Onward, Aging,
       Gathered, Idle
<1>11. ASSUME NEW c \in Coroutine, NEW n \in {1, 2}, NEW t \in Task, Sweep(c, n, t) PROVE Plain
  BY <1>11 DEF Sweep, Plain, Still, Onward, Aging, Gathered, Idle, RunTypes, WorkTypes,
     runs, work
<1>12. ASSUME NEW b \in batch, FireSkipped(b) PROVE Plain
  BY <1>12 DEF FireSkipped, Plain, Still, Onward, Aging, Gathered, Idle, RunTypes,
     WorkTypes, runs, work
<1>13. ASSUME NEW b \in batch, TuneDeferred(b) PROVE Plain
  BY <1>13 DEF TuneDeferred, Plain, Still, Onward, Aging, Gathered, Idle, RunTypes,
     WorkTypes, runs, work
<1>14. ASSUME NEW b \in batch, TuneDropped(b) PROVE Plain
  BY <1>14 DEF TuneDropped, SetMark, OfRun, MarkOf, Fireable, WorkTypes, Plain, Still,
     Onward, Aging, Gathered, Idle, RunTypes, WorkTypes, runs, work
<1>15. ASSUME Tick PROVE Plain
  <2>1. Still
    BY <1>15 DEF Tick, Still, Due
  <2>2. Onward /\ Idle
    BY <1>15 DEF Tick, Onward, Idle, Lapsed, Over, Active, Firing
  <2>3. Gathered
    <3>1. doom' = doom
      BY <1>15 DEF Tick
    <3>2. ASSUME NEW b \in batch'
          PROVE  b.run \in Run /\ b.gen = gen[b.run] /\ b.step \in Due(b.run)
      <4> DEFINE Late(g, r) == {i \in Due(r) : Act(r, i) = "tune" /\ Superseded(r, i, g)}
                 When(g, r, i) == IF Act(r, i) = "tune"
                                  THEN Most({at[r][j] : j \in Piled(r, i, g) \cup {i}})
                                  ELSE at[r][i]
      <4>1. PICK g \in SUBSET Binding :
              batch' = UNION {{[run |-> r, step |-> i, gen |-> gen[r], at |-> When(g, r, i)] :
                                 i \in Due(r) \ Late(g, r)} : r \in Run}
        BY <1>15 DEF Tick
      <4> HIDE DEF When, Late
      <4>2. PICK r \in Run : \E i \in Due(r) \ Late(g, r) :
              b = [run |-> r, step |-> i, gen |-> gen[r], at |-> When(g, r, i)]
        BY <3>2, <4>1
      <4> QED
        BY <4>2
    <3> QED
      BY <3>1, <3>2 DEF Gathered
  <2> QED
    BY <1>15, <2>1, <2>2, <2>3 DEF Tick, Plain, Aging
<1>16. ASSUME Tuned PROVE Plain
  BY <1>16 DEF Tuned, Plain, Still, Onward, Aging, Gathered, Idle, RunTypes, WorkTypes,
     runs, work
<1>17. ASSUME Unpark PROVE Plain
  <2>1. \A r \in Run, i \in Slot : mark'[r][i] = mark[r][i] \/ (mark[r][i] = "open" /\ mark'[r][i] # "unset")
    BY <1>17 DEF Unpark, Couple
  <2> QED
    BY <1>17, <2>1 DEF Unpark, Plain, Still, Onward, Aging, Gathered, Idle, work
<1>18. ASSUME Exec PROVE Plain
  <2>1. \A r \in Run, i \in Slot : mark'[r][i] = mark[r][i] \/ (mark[r][i] = "open" /\ mark'[r][i] # "unset")
    BY <1>18 DEF Exec, Couple
  <2> QED
    BY <1>18, <2>1 DEF Exec, Plain, Still, Onward, Aging, Gathered, Idle, work
<1>19. ASSUME Launched PROVE Plain
  BY <1>19 DEF Launched, Plain, Still, Onward, Aging, Gathered, Idle, RunTypes,
     WorkTypes, runs, work
<1>20. ASSUME After PROVE Plain
  BY <1>20 DEF After, Over, Active, Firing, RunTypes, work, Plain, Still, Onward, Aging,
     Gathered, Idle
<1>21. ASSUME Collect PROVE Plain
  BY <1>21 DEF Collect, Plain, Still, Onward, Aging, Gathered, Idle, RunTypes,
     WorkTypes, runs, work
<1>22. ASSUME Sleep PROVE Plain
  BY <1>22 DEF Sleep, Plain, Still, Onward, Aging, Gathered, Idle, RunTypes, WorkTypes,
     runs, work
<1>23. ASSUME NEW t \in Task, Bind(t) PROVE Plain
  BY <1>23 DEF Bind, Plain, Still, Onward, Aging, Gathered, Idle, RunTypes, WorkTypes,
     runs, work
<1>24. ASSUME NEW t \in Task, Exit(t) PROVE Plain
  BY <1>24 DEF Exit, Plain, Still, Onward, Aging, Gathered, Idle, RunTypes, WorkTypes,
     runs, work
<1>25. ASSUME NEW t \in Task, Fail(t) PROVE Plain
  BY <1>25 DEF Fail, Plain, Still, Onward, Aging, Gathered, Idle, RunTypes, WorkTypes,
     runs, work
<1>26. ASSUME NEW t \in Task, Alarm(t) PROVE Plain
  <2>1. \A r \in Run, i \in Slot : mark'[r][i] = mark[r][i] \/ (mark[r][i] = "open" /\ mark'[r][i] # "unset")
    BY <1>26 DEF Alarm, Couple
  <2> QED
    BY <1>26, <2>1 DEF Alarm, Plain, Still, Onward, Aging, Gathered, Idle, work
<1>27. ASSUME TimePasses PROVE Plain
  BY <1>27 DEF TimePasses, Plain, Still, Onward, Aging, Gathered, Idle, RunTypes,
     WorkTypes, runs, work
<1>28. ASSUME CrashAndRestart PROVE Plain
  <2>1. \A r \in Run : st'[r] = st[r] \/ (st[r] \in Active /\ st'[r] = "ABORTED")
    BY <1>28 DEF CrashAndRestart, Reconciled
  <2> QED
    BY <1>28, <2>1 DEF CrashAndRestart, Over, Plain, Still, Onward, Aging, Gathered,
       Idle
<1>29. ASSUME UNCHANGED vars PROVE Plain
  BY <1>29 DEF vars, runs, work, Plain, Still, Onward, Aging, Gathered, Idle
<1> HIDE DEF Sound, TypeOK
<1> QED
  BY <1>1, <1>2, <1>3, <1>4, <1>5, <1>6, <1>7, <1>8, <1>9, <1>10, <1>11, <1>12, <1>13,
     <1>14, <1>15, <1>16, <1>17, <1>18, <1>19, <1>20, <1>21, <1>22, <1>23, <1>24, <1>25,
     <1>26, <1>27, <1>28, <1>29 DEF Next, Special

-----------------------------------------------------------------------------
(* The steps that begin a run or its Hold.                                 *)

\* A run that has begun took the channel no later than now, and an active run
\* takes it before the sentinel.
LEMMA Behind ==
  ASSUME Sound, Shared, NEW r \in Run, st[r] \in Active
  PROVE  /\ ChannelStart(r) < Never /\ now < Never
         /\ st[r] \in {"RUNNING", "HOLDING"} => ChannelStart(r) <= now
<1>1. now \in Int /\ Never \in Int /\ Horizon \in Int /\ Horizon < Never /\ now <= Horizon
  BY BoundAssumption, Bounds DEF Sound, TypeOK, Shared
<1>2. CASE st[r] = "ARMED"
  BY <1>1, <1>2 DEF Shared, Armed
<1>3. CASE st[r] \in {"RUNNING", "HOLDING"}
  <2>1. PICK i \in AtArm(r) : at[r][i] <= now
    BY <1>3 DEF Shared, Started
  <2>2. i \in Fires(r) /\ at[r][i] \in Int
    BY <1>3, PlanConstant DEF Shared, Armed, Sound, TypeOK, RunTypes
  <2>3. ChannelStart(r) \in Int /\ ChannelStart(r) <= at[r][i]
    BY <2>2, StartOfChannel DEF Sound
  <2> QED
    BY <1>1, <2>1, <2>2, <2>3
<1> QED
  BY <1>2, <1>3 DEF Active, Firing

\* hold_now enters the Hold.
LEMMA HoldNowShared ==
  ASSUME Sound, Shared, Mended, NEW r \in Run, HoldNow(r)
  PROVE  Shared'
<1> USE DEF Sound, TypeOK
<1>1. Still /\ Onward /\ Aging /\ Gathered
  BY DEF HoldNow, Still, Onward, Aging, Gathered, RunTypes, WorkTypes, work, Active,
     Firing
<1>2. HeldOnce'
  <2>1. now \in Int /\ Never \in Int /\ now # Never
    BY Behind, Bounds DEF HoldNow, Active, Firing
  <2> QED
    BY <2>1 DEF HoldNow, HeldOnce, Shared, HasHold, RunTypes
<1>3. Started'
  <2>1. \A q \in Run : st'[q] \in {"RUNNING", "HOLDING"} => st[q] \in {"RUNNING", "HOLDING"}
    BY DEF HoldNow, RunTypes
  <2> QED
    BY <1>1, <2>1, StartedKept DEF Shared
<1> QED
  BY <1>1, <1>2, <1>3, SteadyStep

\* The tick enters the Holds whose pause is over.
LEMMA HoldsShared ==
  ASSUME Sound, Shared, Mended, Holds
  PROVE  Shared'
<1> USE LoopRuns DEF Sound, TypeOK
<1>1. \A r \in Holding(since[Loop]) :
        r \in Run /\ st[r] = "RUNNING" /\ HasHold(r) /\ held[r] = Never
  BY DEF Holding
<1>2. Still /\ Onward /\ Aging
  BY <1>1 DEF Holds, Still, Onward, Aging, RunTypes, Active, Firing
<1>3. Gathered
  <2>1. \A r \in HeldTooLong(since[Loop]) : st[r] # "none"
    BY DEF HeldTooLong
  <2>2. \A c \in Coroutine : doom'[c] = IF c = Loop THEN HeldTooLong(since[Loop]) ELSE doom[c]
    BY DEF Holds, WorkTypes
  <2> QED
    BY <2>1, <2>2 DEF Holds, Gathered
<1>4. HeldOnce'
  <2>1. since[Loop] \in Int /\ Never \in Int /\ since[Loop] # Never
    BY BoundAssumption, Bounds DEF TimeInv, Shared, HandTypes
  <2> QED
    BY <1>1, <2>1 DEF Holds, HeldOnce, Shared, HasHold, RunTypes
<1>5. Started'
  <2>1. \A q \in Run : st'[q] \in {"RUNNING", "HOLDING"} => st[q] \in {"RUNNING", "HOLDING"}
    BY <1>1 DEF Holds, RunTypes
  <2> QED
    BY <1>2, <2>1, StartedKept DEF Shared
<1> QED
  BY <1>2, <1>3, <1>4, <1>5, SteadyStep

\* A fire is one of its run's, and the first one begins the run.
LEMMA TakeShared ==
  ASSUME Sound, Shared, Mended, NEW b \in batch, Fireable(b), Take(b),
         UNCHANGED <<now, end, at, held, gen, doom>>
  PROVE  Shared'
<1> USE DEF Sound, TypeOK
<1>1. b.run \in Run /\ b.step \in Slot /\ OfRun(b)
  BY DEF WorkTypes, Shared, Collected, OfRun
<1>2. /\ st[b.run] \in Firing /\ mark[b.run][b.step] = "open"
      /\ mark' = [mark EXCEPT ![b.run][b.step] = "fired"]
      /\ st' = [st EXCEPT ![b.run] = "RUNNING"] /\ batch' \subseteq batch
  BY <1>1 DEF Fireable, MarkOf, Take, SetMark
<1>3. Still /\ Onward /\ Aging /\ Gathered
  BY <1>1, <1>2 DEF Still, Onward, Aging, Gathered, RunTypes, Active, Firing
<1>4. HeldOnce'
  BY <1>1, <1>2 DEF HeldOnce, Shared, HasHold, RunTypes, Firing
<1>5. Started'
  <2>1. st[b.run] = "ARMED" => b.step \in AtArm(b.run) /\ at[b.run][b.step] <= now
    BY <1>1, <1>2 DEF Shared, Armed, Collected, Fires
  <2>2. mark'[b.run][b.step] = "fired"
    BY <1>1, <1>2 DEF RunTypes
  <2>3. \A r \in Run : st'[r] \in {"RUNNING", "HOLDING"} =>
          \/ st[r] \in {"RUNNING", "HOLDING"}
          \/ \E i \in AtArm(r) : mark'[r][i] = "fired" /\ at[r][i] <= now
    BY <1>1, <1>2, <2>1, <2>2 DEF RunTypes, Firing
  <2> QED
    BY <1>3, <2>3, StartedKept DEF Shared
<1> QED
  BY <1>3, <1>4, <1>5, SteadyStep

-----------------------------------------------------------------------------
(* The steps that change when one run has the channel.                     *)

\* Only r moves.
Moves(r) ==
  /\ UNCHANGED <<now, gen, batch, doom>>
  /\ \A q \in Run \ {r} : /\ st'[q] = st[q] /\ end'[q] = end[q] /\ at'[q] = at[q]
                          /\ mark'[q] = mark[q] /\ held'[q] = held[q]
                          /\ UNCHANGED <<ChannelEnd(q), ChannelStart(q)>>

\* The other runs have the channel as they had.
LEMMA OthersStay ==
  ASSUME NEW q \in Run, end'[q] = end[q], at'[q] = at[q], mark'[q] = mark[q]
  PROVE  UNCHANGED <<ChannelEnd(q), ChannelStart(q)>>
<1>1. Fires(q)' = Fires(q)
  BY DEF Fires
<1>2. ChannelEnd(q)' = ChannelEnd(q)
  BY <1>1 DEF ChannelEnd
<1>3. ChannelStart(q)' = ChannelStart(q)
  BY <1>1 DEF ChannelStart
<1> QED
  BY <1>2, <1>3

\* Then all that matters is r.
LEMMA MoveShared ==
  ASSUME Sound, Shared, Mended, NEW r \in Run, Moves(r), st'[r] # "none",
         AtArm(r) \subseteq Fires(r)' /\ Fires(r)' \subseteq Ever(r) \cup {N},
         st'[r] = "ARMED" => Fires(r)' = AtArm(r) /\ ChannelStart(r)' < Never,
         st'[r] # "HOLDING", (HasHold(r) /\ held'[r] = Never) => end'[r] = Never,
         \A b \in batch : b.run = r => st'[r] # "ARMED",
         st'[r] = "RUNNING" => \E i \in AtArm(r) : mark'[r][i] = "fired" /\ at'[r][i] <= now,
         \A q \in Run \ {r} :
           ({st'[r], st[q]} \subseteq Active /\ MayLaunch(r) \cap MayLaunch(q) # {}) =>
             Apart(r, q)'
  PROVE  Shared'
<1>1. \A q \in Run : AtArm(q)' = AtArm(q) /\ Ever(q)' = Ever(q) /\ MayLaunch(q)' = MayLaunch(q)
  BY PlanConstant
<1>2. \A q \in Run \ {r} : Fires(q)' = Fires(q)
  BY DEF Moves, Fires
<1>3. Armed'
  BY <1>1, <1>2 DEF Shared, Armed, Moves
<1>4. FaultsLaunched' /\ MendsLaunched'
  BY MendsKept DEF Shared
<1>5. Collected'
  BY DEF Shared, Collected, Moves, Sound, TypeOK, WorkTypes
<1>6. Doomed'
  BY DEF Shared, Doomed, Moves
<1>7. HeldOnce'
  BY DEF Shared, HeldOnce, Moves, HasHold
<1>8. Started'
  BY <1>1 DEF Shared, Started, Moves
<1>9. AllApart'
  <2> SUFFICES ASSUME NEW p \in Run, NEW q \in Run, p # q, {st'[p], st'[q]} \subseteq Active,
                      MayLaunch(p) \cap MayLaunch(q) # {}
               PROVE  Apart(p, q)'
    BY <1>1 DEF AllApart
  <2>1. CASE p = r
    BY <2>1 DEF Moves
  <2>2. CASE q = r
    <3>1. Apart(q, p)'
      BY <2>2 DEF Moves
    <3> QED
      BY <3>1 DEF Apart
  <2>3. CASE p # r /\ q # r
    <3>1. Apart(p, q)
      BY <2>3 DEF Shared, AllApart, Moves
    <3> QED
      BY <2>3, <3>1 DEF Apart, Moves
  <2> QED
    BY <2>1, <2>2, <2>3
<1>10. now' <= Horizon
  BY DEF Shared, Moves
<1> QED
  BY <1>3, <1>4, <1>5, <1>6, <1>7, <1>8, <1>9, <1>10 DEF Shared

\* A run that has begun and has no end is apart only from runs that leave the
\* channel before it did or will.
LEMMA OtherGone ==
  ASSUME Sound, Shared, NEW r \in Run, NEW q \in Run, r # q, st[r] \in {"RUNNING", "HOLDING"},
         st[q] \in Active, MayLaunch(r) \cap MayLaunch(q) # {}
  PROVE  \/ ChannelEnd(q) <= now \/ ChannelEnd(q) <= ChannelStart(q)
         \/ end[r] # Never /\ (ChannelEnd(r) <= now \/ ChannelEnd(r) <= ChannelStart(q))
<1>1. Apart(r, q)
  BY DEF Shared, AllApart, Active, Firing
<1>2. PICK e \in {ChannelEnd(r), ChannelEnd(q)},
           m \in {ChannelStart(r), ChannelStart(q), now} : e <= m
  BY <1>1 DEF Apart
<1>3. /\ ChannelStart(r) <= now /\ ChannelStart(q) < Never /\ now < Never
  BY Behind DEF Active, Firing
<1>4. /\ ChannelEnd(r) \in Int /\ ChannelEnd(q) \in Int /\ ChannelStart(r) \in Int
      /\ ChannelStart(q) \in Int /\ now \in Int /\ Never \in Int /\ end[r] \in Int
      /\ end[r] <= ChannelEnd(r)
  BY EndOfChannel, StartOfChannel, Bounds DEF Sound, TypeOK, RunTypes
<1>5. e <= now \/ e <= ChannelStart(q)
  BY <1>2, <1>3, <1>4
<1>6. e = ChannelEnd(r) => end[r] # Never
  BY <1>3, <1>4, <1>5
<1> QED
  BY <1>2, <1>5, <1>6

\* proceed gives an end to a run that had none.
LEMMA ProceedShared ==
  ASSUME Sound, Shared, Mended, NEW r \in Run, NEW resume \in {now, now + 1}, Proceed(r, resume)
  PROVE  Shared'
<1> USE DEF Sound, TypeOK, RunTypes
<1> DEFINE B == {i \in Steps(r) : RootBase(r, i) \in {"hold", "stop"}}
<1>1. /\ st[r] = "HOLDING" /\ st' = [st EXCEPT ![r] = "RUNNING"]
      /\ HasHold(r) /\ held[r] # Never /\ end[r] = Never
      /\ UNCHANGED <<now, gen, batch, doom, held>>
      /\ \E to : end' = [end EXCEPT ![r] = to]
  BY DEF Proceed, Shared, HeldOnce, work
<1>2. /\ mark' = [mark EXCEPT ![r] = [i \in Slot |-> IF i \in B THEN "open" ELSE mark[r][i]]]
      /\ \E T : at' = [at EXCEPT ![r] = [i \in Slot |-> IF i \in B THEN T[i] ELSE at[r][i]]]
  <2> DEFINE T == [j \in Slot |-> FireAt(r, j, resume + Content(r), resume)]
  <2>1. at' = [at EXCEPT ![r] = [i \in Slot |-> IF i \in B THEN T[i] ELSE at[r][i]]]
    BY DEF Proceed
  <2>2. mark' = [mark EXCEPT ![r] = [i \in Slot |-> IF i \in B THEN "open" ELSE mark[r][i]]]
    BY DEF Proceed
  <2> HIDE DEF T, B
  <2> QED
    BY <2>1, <2>2
<1>3. \A i \in AtArm(r) : i \in Slot /\ i \notin B
  BY <1>1, PlanConstant DEF AtArm, OpenEnded
<1>4. /\ \A i \in Slot \ B : mark'[r][i] = mark[r][i] /\ at'[r][i] = at[r][i]
      /\ \A i \in Slot : mark'[r][i] = "unset" => mark[r][i] = "unset"
  BY <1>2
<1> HIDE DEF B
<1>5. Moves(r)
  <2>1. \A q \in Run \ {r} : /\ st'[q] = st[q] /\ end'[q] = end[q] /\ at'[q] = at[q]
                             /\ mark'[q] = mark[q] /\ held'[q] = held[q]
    BY <1>1, <1>2
  <2> QED
    BY <1>1, <2>1, OthersStay DEF Moves
<1>6. st'[r] = "RUNNING"
  BY <1>1
<1>7. AtArm(r) \subseteq Fires(r)' /\ Fires(r)' \subseteq Ever(r) \cup {N}
  <2>1. AtArm(r) \subseteq Fires(r) /\ Fires(r) \subseteq Ever(r) \cup {N}
    BY <1>1 DEF Shared, Armed
  <2>2. B \subseteq Ever(r)
    BY <1>1 DEF B, Ever
  <2> QED
    BY <1>3, <1>4, <2>1, <2>2 DEF Fires
<1>8. \E i \in AtArm(r) : mark'[r][i] = "fired" /\ at'[r][i] <= now
  BY <1>1, <1>3, <1>4 DEF Shared, Started
<1>9. ASSUME NEW q \in Run \ {r}, {st'[r], st[q]} \subseteq Active,
             MayLaunch(r) \cap MayLaunch(q) # {}
      PROVE  Apart(r, q)'
  <2>1. ChannelEnd(q) <= now \/ ChannelEnd(q) <= ChannelStart(q)
    BY <1>1, <1>9, OtherGone
  <2> QED
    BY <1>5, <2>1 DEF Moves, Apart
<1> QED
  BY <1>1, <1>5, <1>6, <1>7, <1>8, <1>9, MoveShared

\* The same of the end of the channel after a step.
LEMMA EndOfChannelNext ==
  ASSUME TypeOK', NEW r \in Run
  PROVE  /\ ChannelEnd(r)' \in Int
         /\ ChannelEnd(r)' = end'[r] \/ \E i \in Fires(r)' : ChannelEnd(r)' = at'[r][i]
<1> DEFINE f == at'[r]
           D == Fires(r)'
           e == end'[r]
<1>1. N \in Nat /\ f \in [1 .. N -> Int] /\ e \in Int /\ D \in SUBSET (1 .. N)
  BY Bounds DEF Slot, TypeOK, RunTypes, Fires
<1>2. ChannelEnd(r)' = Most({e} \cup {f[i] : i \in D})
  BY DEF ChannelEnd
<1> HIDE DEF f, D, e
<1>3. LET m == Most({e} \cup {f[i] : i \in D}) IN
      m \in Int /\ e <= m /\ (\A i \in D : f[i] <= m) /\ (m = e \/ \E i \in D : m = f[i])
  BY <1>1, MostOf
<1>4. ChannelEnd(r)' \in Int /\ (ChannelEnd(r)' = e \/ \E i \in D : ChannelEnd(r)' = f[i])
  BY <1>2, <1>3
<1> QED
  BY <1>4 DEF f, D, e

\* And of its start.
LEMMA StartOfChannelNext ==
  ASSUME TypeOK', NEW r \in Run
  PROVE  /\ ChannelStart(r)' \in Int
         /\ Fires(r)' # {} => \E i \in Fires(r)' : ChannelStart(r)' = at'[r][i]
<1> DEFINE f == at'[r]
           D == Fires(r)'
<1>1. N \in Nat /\ f \in [1 .. N -> Int] /\ D \in SUBSET (1 .. N)
  BY Bounds DEF Slot, TypeOK, RunTypes, Fires
<1>2. CASE D = {}
  BY <1>2, PlanSteps DEF ChannelStart
<1>3. CASE D # {}
  <2>1. ChannelStart(r)' = Least({f[i] : i \in D})
    BY <1>3 DEF ChannelStart
  <2> HIDE DEF f, D
  <2>2. LET m == Least({f[i] : i \in D}) IN m \in Int /\ \E i \in D : m = f[i]
    BY <1>1, <1>3, LeastOf
  <2>3. ChannelStart(r)' \in Int /\ \E i \in D : ChannelStart(r)' = f[i]
    BY <2>1, <2>2
  <2> QED
    BY <2>3 DEF f, D
<1> QED
  BY <1>2, <1>3

\* The lead-in is an instant.
LEMMA LeadTime ==
  ASSUME Sound, NEW r \in Run
  PROVE  Lead(r) \in Int
<1> DEFINE L == {i \in Steps(r) : StepAt(r, i).base \in {"start", "enter"}}
           f == [i \in Slot |-> IF i \in L THEN FireAt(r, i, 0, 0) ELSE 0]
<1>1. \A i \in L : FireAt(r, i, 0, 0) \in Int
  BY FireTimes DEF Known, Sound
<1>2. N \in Nat /\ Slot = 1 .. N /\ L \in SUBSET Slot
  BY Bounds, PlanSteps DEF Slot
<1>3. f \in [1 .. N -> Int] /\ L \in SUBSET (1 .. N)
  BY <1>1, <1>2
<1>4. CASE L = {}
  BY <1>4, PlanSteps DEF Lead
<1>5. CASE L # {}
  <2>1. {FireAt(r, i, 0, 0) : i \in L} = {f[i] : i \in L}
    BY <1>2
  <2>2. Lead(r) = Least({FireAt(r, i, 0, 0) : i \in L})
    BY <1>5 DEF Lead
  <2> HIDE DEF f, L
  <2>3. LET m == Least({f[i] : i \in L}) IN m \in Int
    BY <1>2, <1>3, <1>5, LeastOf
  <2> QED
    BY <2>1, <2>2, <2>3
<1> QED
  BY <1>4, <1>5

\* Three numbers have a bound.
LEMMA BoundOfThree ==
  ASSUME NEW x \in Int, NEW y \in Int, NEW z \in Int
  PROVE  \E d \in Int : x <= d /\ y <= d /\ z <= d
<1>1. PICK m \in Int : x <= m /\ y <= m
  BY MostOfTwo
<1>2. Most({m, z}) \in {m, z} /\ m <= Most({m, z}) /\ z <= Most({m, z})
  BY <1>1, MostOfTwo
<1> QED
  BY <1>1, <1>2

\* A restart that keeps its times does not have the channel for longer, and one
\* that moves them not into the span of another run.
LEMMA RestartSpan ==
  ASSUME Sound, Sound', NEW r \in Run, NEW s \in Nat, NEW how \in {"resync", "replay"},
         NEW D \in SUBSET {N}, faultAt[r] <= s, end[r] # Never, Plannable(r, s, how),
         Fires(r)' = Fires(r) \cup D, end'[r] = NewEnd(r, s, how),
         \A i \in Slot : at'[r][i] = IF i \in D THEN s ELSE NewAt(r, s, how)[i]
  PROVE  \/ ChannelEnd(r)' <= ChannelEnd(r)
         \/ \A q \in Run \ {r} : st[q] \in Active =>
              ChannelEnd(q) <= s \/ ChannelEnd(r)' <= ChannelStart(q)
<1>1. /\ N \in Nat /\ Slot = 1 .. N /\ end'[r] \in Int /\ at'[r] \in [1 .. N -> Int]
      /\ end[r] \in Int /\ at[r] \in [1 .. N -> Int] /\ faultAt[r] \in Int
      /\ Fires(r) \in SUBSET Slot /\ Fires(r)' \in SUBSET Slot
  <2>1. /\ end'[r] \in Int /\ at'[r] \in [Slot -> Int]
        /\ end[r] \in Int /\ at[r] \in [Slot -> Int] /\ faultAt[r] \in Int
    BY DEF Sound, TypeOK, RunTypes, FaultTypes
  <2>2. Fires(r) \in SUBSET Slot /\ Fires(r)' \in SUBSET Slot
    BY DEF Fires
  <2>3. N \in Nat /\ Slot = 1 .. N
    BY Bounds DEF Slot
  <2> QED
    BY <2>1, <2>2, <2>3
<1>2. TypeOK /\ TypeOK'
  BY DEF Sound
<1>3. /\ ChannelEnd(r)' \in Int
      /\ ChannelEnd(r)' = end'[r] \/ \E i \in Fires(r)' : ChannelEnd(r)' = at'[r][i]
  BY <1>2, EndOfChannelNext
<1>4. /\ ChannelEnd(r) \in Int /\ end[r] <= ChannelEnd(r)
      /\ \A i \in Fires(r) : at[r][i] <= ChannelEnd(r)
  BY <1>2, EndOfChannel
<1>5. CASE how = "resync"
  <2>1. end'[r] = end[r]
    BY <1>1, <1>5 DEF NewEnd, Shift
  <2>2. \A i \in Slot : NewAt(r, s, how)[i] = at[r][i] /\ at[r][i] \in Int
    BY <1>1, <1>5 DEF NewAt, Later
  <2>3. PICK i \in Fires(r) : NewAt(r, s, how)[i] > s
    BY DEF Plannable, StopToCome
  <2>4. s <= ChannelEnd(r)
    BY <1>1, <1>4, <2>2, <2>3
  <2>5. \A j \in Fires(r)' : at'[r][j] <= ChannelEnd(r)
    BY <1>1, <1>4, <2>2, <2>4
  <2> QED
    BY <1>3, <1>4, <2>1, <2>5
<1>6. CASE how = "replay"
  <2> DEFINE T == NewAt(r, s, how)
             C == NewChannelEnd(r, s, how)
             S == {end'[r], s} \cup {T[i] : i \in Fires(r)}
  <2>1. T \in [1 .. N -> Int]
    <3>1. Shift(r, s, how) \in Int
      BY <1>1 DEF Shift
    <3>2. \A i \in Slot : Later(r, i, s, how) \in Int
      <4> TAKE i \in Slot
      <4>1. at[r][i] \in Int /\ at[r][i] + Shift(r, s, how) \in Int /\ s + 1 \in Int
        BY <1>1, <3>1
      <4>2. Most({at[r][i] + Shift(r, s, how), s + 1}) \in
              {at[r][i] + Shift(r, s, how), s + 1}
        BY <4>1, MostOfTwo
      <4> QED
        BY <4>1, <4>2 DEF Later
    <3> QED
      BY <1>1, <3>2 DEF NewAt
  <2>2. C = Most(S)
    BY DEF NewChannelEnd
  <2>3. PICK b \in Int : \A i \in 1 .. N : T[i] <= b
    BY <1>1, <2>1, Bounded
  <2> HIDE DEF T, C
  <2>4. PICK d \in Int : b <= d /\ end'[r] <= d /\ s <= d
    BY <1>1, BoundOfThree
  <2>5. S \in SUBSET Int /\ S # {} /\ \A x \in S : x <= d
    BY <1>1, <2>1, <2>3, <2>4
  <2>6. C \in Int /\ \A x \in S : x <= C
    BY <2>2, <2>5, MostOfBounded
  <2>7. end'[r] <= C /\ \A i \in Fires(r)' : at'[r][i] <= C
    BY <1>1, <2>6 DEF T
  <2>8. ChannelEnd(r)' <= C
    BY <1>3, <2>7
  <2>9. ASSUME NEW q \in Run \ {r}, st[q] \in Active
        PROVE  ChannelEnd(q) <= s \/ ChannelEnd(r)' <= ChannelStart(q)
    <3>1. ~(s < ChannelEnd(q) /\ ChannelStart(q) < C)
      BY <1>6, <2>9 DEF Plannable, C
    <3>2. ChannelEnd(q) \in Int /\ ChannelStart(q) \in Int
      BY <1>2, EndOfChannel, StartOfChannel
    <3> QED
      BY <1>3, <2>6, <2>8, <3>1, <3>2
  <2> QED
    BY <2>9
<1> QED
  BY <1>5, <1>6

\* A restart begins its run anew.
LEMMA CommitShared ==
  ASSUME Sound, Sound', Shared, Mended, NEW c \in Coroutine, Commit(c)
  PROVE  Shared'
<1>1. /\ cur[c] \in Run /\ st[cur[c]] = "RUNNING" /\ Plannable(cur[c], since[c], mode[c])
      /\ since[c] \in Nat /\ since[c] <= now /\ mode[c] \in {"resync", "replay"}
      /\ faultAt[cur[c]] <= since[c]
  <2>1. Restarting(c) /\ c \in Coroutine
    BY DEF Commit, At, Restarting
  <2> QED
    BY <2>1 DEF Commit, Recheck, Restartable, HandInv, Hand, TimeInv, HandTypes,
       RestartInv,
                Mending, Sound, TypeOK
<1>2. PICK r \in Run, s \in Nat, how \in {"resync", "replay"} :
        r = cur[c] /\ s = since[c] /\ how = mode[c]
  BY <1>1
<1>3. st[r] = "RUNNING" /\ Plannable(r, s, how) /\ s <= now /\ faultAt[r] <= s
  BY <1>1, <1>2
<1>4. PICK D \in SUBSET {N} : D = IF ScheduledOff(r, s, how) THEN {} ELSE {N}
  OBVIOUS
<1>5. /\ at' = [at EXCEPT ![r] = [i \in Slot |-> IF i \in D THEN s ELSE NewAt(r, s, how)[i]]]
      /\ mark' = [mark EXCEPT ![r] = [i \in Slot |->
           IF i \in Reinstated(r, s, how) \/ i \in D THEN "open" ELSE mark[r][i]]]
      /\ end' = [end EXCEPT ![r] = NewEnd(r, s, how)]
      /\ UNCHANGED <<now, st, gen, held, batch, doom>>
  <2>1. \A i \in Slot : (i = N /\ ~ScheduledOff(r, s, how)) <=> i \in D
    BY <1>4
  <2> QED
    BY <1>2, <2>1 DEF Commit, work
<1>6. /\ st \in [Run -> RunState \cup {"none"}] /\ end \in [Run -> Nat]
      /\ at \in [Run -> [Slot -> Int]] /\ mark \in [Run -> [Slot -> Mark]]
  BY DEF Sound, TypeOK, RunTypes
<1>7. Fires(r)' = Fires(r) \cup D
  <2>1. Reinstated(r, s, how) \subseteq Fires(r)
    BY DEF Reinstated, Fires
  <2>2. \A i \in Slot : mark'[r][i] = IF i \in Reinstated(r, s, how) \/ i \in D THEN "open"
                                      ELSE mark[r][i]
    BY <1>6, <1>5
  <2>3. D \subseteq Slot
    BY <1>4, PlanSteps
  <2> QED
    BY <2>1, <2>2, <2>3 DEF Fires
<1>8. Moves(r)
  <2>1. \A q \in Run \ {r} : /\ st'[q] = st[q] /\ end'[q] = end[q] /\ at'[q] = at[q]
                             /\ mark'[q] = mark[q] /\ held'[q] = held[q]
    BY <1>6, <1>3, <1>5
  <2> QED
    BY <1>5, <2>1, OthersStay DEF Moves
<1>9. st'[r] = "RUNNING" /\ end'[r] = NewEnd(r, s, how) /\ held'[r] = held[r]
  BY <1>6, <1>3, <1>5
<1>10. AtArm(r) \subseteq Fires(r)' /\ Fires(r)' \subseteq Ever(r) \cup {N}
  BY <1>3, <1>4, <1>7 DEF Shared, Armed
<1>11. (HasHold(r) /\ held'[r] = Never) => end'[r] = Never
  BY <1>3, <1>9 DEF NewEnd, Shared, HeldOnce
<1>12. \E i \in AtArm(r) : mark'[r][i] = "fired" /\ at'[r][i] <= now
  <2>1. PICK i \in AtArm(r) : mark[r][i] = "fired" /\ at[r][i] <= now
    BY <1>3 DEF Shared, Started
  <2>2. i \in Slot /\ i # N
    BY <1>3, PlanConstant, PlanSteps
  <2>3. i \notin D /\ i \notin Reinstated(r, s, how)
    BY <1>4, <2>1, <2>2 DEF Reinstated
  <2>4. mark'[r][i] = "fired" /\ at'[r][i] = at[r][i]
    BY <1>6, <1>3, <1>5, <2>1, <2>2, <2>3 DEF NewAt
  <2> QED
    BY <2>1, <2>4
<1>13. ASSUME NEW q \in Run \ {r}, {st'[r], st[q]} \subseteq Active,
              MayLaunch(r) \cap MayLaunch(q) # {}
       PROVE  Apart(r, q)'
  <2>1. \/ ChannelEnd(q) <= now \/ ChannelEnd(q) <= ChannelStart(q)
        \/ end[r] # Never /\ (ChannelEnd(r) <= now \/ ChannelEnd(r) <= ChannelStart(q))
    BY <1>3, <1>13, OtherGone
  <2>2. CASE end[r] = Never
    BY <1>8, <1>13, <2>1, <2>2 DEF Moves, Apart
  <2>3. CASE end[r] # Never
    <3>1. \/ ChannelEnd(r)' <= ChannelEnd(r)
          \/ \A p \in Run \ {r} : st[p] \in Active =>
               ChannelEnd(p) <= s \/ ChannelEnd(r)' <= ChannelStart(p)
      <4>1. \A i \in Slot : at'[r][i] = IF i \in D THEN s ELSE NewAt(r, s, how)[i]
        BY <1>6, <1>3, <1>5
      <4> QED
        BY <1>3, <1>4, <1>7, <1>9, <2>3, <4>1, RestartSpan
    <3>2. ChannelEnd(r) \in Int /\ ChannelEnd(q) \in Int /\ ChannelStart(q) \in Int /\ now \in Int
      BY <1>3, EndOfChannel, StartOfChannel DEF Sound, TypeOK
    <3>3. ChannelEnd(r)' \in Int
      BY <1>3, EndOfChannelNext DEF Sound
    <3>4. \/ ChannelEnd(q) <= now \/ ChannelEnd(q) <= ChannelStart(q)
          \/ ChannelEnd(r)' <= now \/ ChannelEnd(r)' <= ChannelStart(q)
      BY <1>3, <1>13, <2>1, <3>1, <3>2, <3>3
    <3> QED
      BY <1>8, <1>13, <3>4 DEF Moves, Apart
  <2> QED
    BY <2>2, <2>3
<1> QED
  BY <1>3, <1>8, <1>9, <1>10, <1>11, <1>12, <1>13, MoveShared

-----------------------------------------------------------------------------
(* The step that arms a run, and all of them.                              *)

\* What of a plan has a time at arm does not depend on an end that is not known.
LEMMA ArmTimes ==
  ASSUME NEW r \in Run, NEW i \in AtArm(r), NEW to, to = IF OpenEnded(r) THEN Never ELSE Plan[r].off
  PROVE  FireAt(r, i, to, 0) = FireAt(r, i, Plan[r].off, 0)
<1>1. CASE OpenEnded(r)
  <2>1. i \in Steps(r) /\ RootBase(r, i) \notin {"hold", "stop"}
    BY <1>1 DEF AtArm
  <2> QED
    BY <2>1 DEF FireAt
<1>2. CASE ~OpenEnded(r)
  BY <1>2
<1> QED
  BY <1>1, <1>2

\* arm gives the channel to a run that no other has it in common with.
LEMMA ArmShared ==
  ASSUME Sound, Sound', Shared, LeadFirst, Mended, NEW r \in Run, Arm(r)
  PROVE  Shared'
<1>1. /\ st \in [Run -> RunState \cup {"none"}] /\ end \in [Run -> Nat]
      /\ at \in [Run -> [Slot -> Int]] /\ mark \in [Run -> [Slot -> Mark]]
  BY DEF Sound, TypeOK, RunTypes
<1>2. /\ st[r] = "none" /\ st' = [st EXCEPT ![r] = "ARMED"] /\ Clear(r)
      /\ end' = [end EXCEPT ![r] = IF OpenEnded(r) THEN Never ELSE Plan[r].off]
      /\ at' = [at EXCEPT ![r] = [i \in Slot |->
           IF i \in AtArm(r) THEN FireAt(r, i, end'[r], 0) ELSE 0]]
      /\ mark' = [mark EXCEPT ![r] = [i \in Slot |-> IF i \in AtArm(r) THEN "open" ELSE "unset"]]
      /\ UNCHANGED <<now, gen, held, batch, doom>>
  BY DEF Arm, work
<1>3. /\ st'[r] = "ARMED" /\ end'[r] = IF OpenEnded(r) THEN Never ELSE Plan[r].off
      /\ AtArm(r) \subseteq Slot
  BY <1>1, <1>2, PlanConstant
<1>4. Fires(r)' = AtArm(r)
  <2>1. \A i \in Slot : mark'[r][i] = IF i \in AtArm(r) THEN "open" ELSE "unset"
    BY <1>1, <1>2
  <2>2. \A i \in Slot : mark'[r][i] # "unset" <=> i \in AtArm(r)
    BY <2>1
  <2> QED
    BY <1>3, <2>2 DEF Fires
<1>5. \A i \in AtArm(r) : at'[r][i] = FireAt(r, i, Plan[r].off, 0)
  <2>1. \A i \in AtArm(r) : at'[r][i] = FireAt(r, i, end'[r], 0)
    BY <1>1, <1>2, <1>3
  <2> QED
    BY <1>3, <2>1, ArmTimes
<1>6. Moves(r)
  <2>1. \A q \in Run \ {r} : /\ st'[q] = st[q] /\ end'[q] = end[q] /\ at'[q] = at[q]
                             /\ mark'[q] = mark[q] /\ held'[q] = held[q]
    BY <1>1, <1>2
  <2> QED
    BY <1>2, <2>1, OthersStay DEF Moves
<1>7. Lead(r) <= ChannelStart(r)' /\ ChannelStart(r)' < Never
  <2>1. CASE AtArm(r) = {}
    <3>1. ChannelStart(r)' = Plan[r].on
      BY <1>4, <2>1 DEF ChannelStart
    <3>2. {i \in Steps(r) : StepAt(r, i).base \in {"start", "enter"}} = {}
      BY <2>1 DEF AtArm, RootBase, Root
    <3>3. Lead(r) = Plan[r].on /\ Plan[r].on \in Int
      BY <3>2, PlanSteps DEF Lead
    <3> QED
      BY <3>1, <3>3 DEF LeadFirst
  <2>2. CASE AtArm(r) # {}
    <3>1. \E i \in AtArm(r) : ChannelStart(r)' = at'[r][i]
      BY <1>4, <2>2, StartOfChannelNext DEF Sound
    <3> QED
      BY <1>5, <3>1 DEF LeadFirst
  <2> QED
    BY <2>1, <2>2
<1>8. AtArm(r) \subseteq Fires(r)' /\ Fires(r)' \subseteq Ever(r) \cup {N}
  BY <1>4 DEF Ever
<1>9. (HasHold(r) /\ held'[r] = Never) => end'[r] = Never
  BY <1>3 DEF OpenEnded
<1>10. \A b \in batch : b.run = r => st'[r] # "ARMED"
  BY <1>2 DEF Shared, Collected
<1>11. ASSUME NEW q \in Run \ {r}, {st'[r], st[q]} \subseteq Active,
              MayLaunch(r) \cap MayLaunch(q) # {}
       PROVE  Apart(r, q)'
  <2>1. Launches(q) \cap Launches(r) # {}
    <3>1. MayLaunch(r) \subseteq Launches(r)
      BY <1>2, PlanConstant DEF MayLaunch, Launches
    <3>2. MayLaunch(q) \subseteq Launches(q)
      BY <1>11, LaunchesMay DEF Shared, Active, Firing
    <3> QED
      BY <1>11, <3>1, <3>2
  <2>2. ~(Lead(r) < ChannelEnd(q) /\ ChannelStart(q) < ChannelEnd(r)')
    BY <1>2, <1>11, <2>1 DEF Clear
  <2>3. /\ ChannelEnd(q) \in Int /\ ChannelStart(q) \in Int
        /\ ChannelEnd(r)' \in Int /\ ChannelStart(r)' \in Int
    BY EndOfChannel, StartOfChannel, EndOfChannelNext, StartOfChannelNext DEF Sound
  <2>4. Lead(r) \in Int
    BY LeadTime
  <2>5. ChannelEnd(q) <= ChannelStart(r)' \/ ChannelEnd(r)' <= ChannelStart(q)
    BY <1>7, <2>2, <2>3, <2>4
  <2> QED
    BY <1>6, <2>5 DEF Moves, Apart
<1> QED
  BY <1>3, <1>4, <1>6, <1>7, <1>8, <1>9, <1>10, <1>11, MoveShared

\* No step takes a channel that another run has.
LEMMA SharedStep ==
  ASSUME Sound, Sound', Ends = {}, LeadFirst, Shared, [Next]_vars
  PROVE  Shared'
<1>1. Mended
  BY MendStep
<1>2. CASE Plain
  BY <1>1, <1>2, PlainStep
<1>3. CASE Special
  <2>1. ASSUME NEW r \in Run, Arm(r) PROVE Shared'
    BY <1>1, <2>1, ArmShared
  <2>2. ASSUME NEW r \in Run, HoldNow(r) PROVE Shared'
    BY <1>1, <2>2, HoldNowShared
  <2>3. ASSUME NEW r \in Run, NEW resume \in {now, now + 1}, Proceed(r, resume) PROVE Shared'
    BY <1>1, <2>3, ProceedShared
  <2>4. ASSUME NEW c \in Coroutine, Commit(c) PROVE Shared'
    BY <1>1, <2>4, CommitShared
  <2>5. ASSUME NEW b \in batch, Tune(b) PROVE Shared'
    <3>1. Fireable(b) /\ Take(b) /\ UNCHANGED <<now, end, at, held, gen, doom>>
      BY <2>5 DEF Tune
    <3> QED
      BY <1>1, <3>1, TakeShared
  <2>6. ASSUME NEW b \in batch, Start(b) PROVE Shared'
    <3>1. Fireable(b) /\ Take(b) /\ UNCHANGED <<now, end, at, held, gen, doom>>
      BY <2>6 DEF Start
    <3> QED
      BY <1>1, <3>1, TakeShared
  <2>7. ASSUME NEW b \in batch, Stop(b) PROVE Shared'
    <3>1. Fireable(b) /\ Take(b) /\ UNCHANGED <<now, end, at, held, gen, doom>>
      BY <2>7 DEF Stop
    <3> QED
      BY <1>1, <3>1, TakeShared
  <2>8. CASE Holds
    BY <1>1, <2>8, HoldsShared
  <2> QED
    BY <1>3, <2>1, <2>2, <2>3, <2>4, <2>5, <2>6, <2>7, <2>8 DEF Special
<1> QED
  BY <1>2, <1>3, Kinds DEF Shared

\* In the beginning no run has a channel.
LEMMA SharedInit ==
  ASSUME Init
  PROVE  Shared
<1>1. Armed /\ AllApart
  BY DEF Init, Armed, AllApart, Active, Firing
<1>2. FaultsLaunched
  BY DEF Init, FaultsLaunched, FaultTask
<1>3. MendsLaunched
  BY DEF Init, MendsLaunched, Restarting, Awaiting
<1>4. Collected /\ Doomed /\ HeldOnce /\ Started
  BY DEF Init, Collected, Doomed, HeldOnce, Started
<1>5. now <= Horizon
  BY Bounds DEF Init
<1> QED
  BY <1>1, <1>2, <1>3, <1>4, <1>5 DEF Shared

\* Runs that are apart have the channel one at a time.
LEMMA SharedFree ==
  ASSUME Sound, Shared
  PROVE  ChannelFree
<1> SUFFICES ASSUME NEW r \in Run, NEW q \in Run, r # q, {st[r], st[q]} \subseteq Active,
                    Launches(r) \cap Launches(q) # {}
             PROVE  Least({ChannelEnd(r), ChannelEnd(q)}) <=
                      Most({ChannelStart(r), ChannelStart(q), now})
  BY DEF ChannelFree
<1>1. MayLaunch(r) \cap MayLaunch(q) # {}
  BY LaunchesMay DEF Shared, Active, Firing
<1>2. PICK e \in {ChannelEnd(r), ChannelEnd(q)},
           m \in {ChannelStart(r), ChannelStart(q), now} : e <= m
  BY <1>1 DEF Shared, AllApart, Apart
<1> DEFINE E == {ChannelEnd(r), ChannelEnd(q)}
           M == {ChannelStart(r), ChannelStart(q), now}
<1>3. E \in SUBSET Int /\ M \in SUBSET Int /\ e \in E /\ m \in M
  BY <1>2, EndOfChannel, StartOfChannel DEF Sound, TypeOK
<1>4. Least(E) \in E /\ \A y \in E : Least(E) <= y
  <2>1. \E b \in Int : \A x \in E : b <= x
    <3>1. /\ ChannelEnd(r) \in Int /\ ChannelEnd(q) \in Int
      BY <1>3
    <3>2. -ChannelEnd(r) \in Int /\ -ChannelEnd(q) \in Int
      BY <3>1
    <3>3. PICK d \in Int : -ChannelEnd(r) <= d /\ -ChannelEnd(q) <= d /\ 0 <= d
      BY <3>2, BoundOfThree
    <3>4. -d \in Int /\ -d <= ChannelEnd(r) /\ -d <= ChannelEnd(q)
      BY <3>1, <3>3
    <3> QED
      BY <3>4
  <2> HIDE DEF E
  <2> QED
    BY <1>3, <2>1, LeastOfBounded
<1>5. Most(M) \in M /\ \A y \in M : y <= Most(M)
  <2>1. \E b \in Int : \A x \in M : x <= b
    BY <1>3, BoundOfThree
  <2> HIDE DEF M
  <2> QED
    BY <1>3, <2>1, MostOfBounded
<1> HIDE DEF E, M
<1>6. Least(E) <= e /\ m <= Most(M) /\ Least(E) \in Int /\ Most(M) \in Int
      /\ e \in Int /\ m \in Int
  BY <1>3, <1>4, <1>5
<1>7. Least(E) <= Most(M)
  BY <1>2, <1>6
<1> QED
  BY <1>7 DEF E, M

\* As long as no end is moved, two runs that launch the same task never have the
\* channel at the same time, if no step of a plan comes before the lead-in that
\* arm goes by: not through a Hold either, a proceed, a restart or a crash.
THEOREM ChannelFreeHolds ==
  ASSUME Ends = {}
  PROVE  Spec /\ []LeadFirst => []ChannelFree
<1>1. Init => Shared
  BY SharedInit
<1>2. Sound /\ Sound' /\ LeadFirst /\ Shared /\ [Next]_vars => Shared'
  BY SharedStep
<1>3. Sound /\ Shared => ChannelFree
  BY SharedFree
<1> QED
  BY SoundHolds, <1>1, <1>2, <1>3, PTL DEF Spec

=============================================================================
