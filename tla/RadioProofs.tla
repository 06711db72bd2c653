---------------------------- MODULE RadioProofs ----------------------------
(***************************************************************************)
(* Proofs about Radio, for any number of tasks, of calls and of levels: the*)
(* types, the device gate, the level of a relaunch, the position that is   *)
(* remembered, and the level at which whoever transmits does so.           *)
(***************************************************************************)
EXTENDS Radio, TLAPS

\* The kinds of job that launch a process, and where a coroutine has a task.
Launched == {"start", "oneshot", "relaunch"}
Busy == {"gate", "through", "set", "ready", "spawn", "rpc", "stopping", "flag", "delay"}

\* What each phase of a coroutine knows.
PhaseInv ==
  /\ \A c \in Coroutine : pc[c] = "set" => cmd[c] \in Position
  /\ \A c \in Coroutine : pc[c] \in Busy => job[c].task \in Task
  /\ \A c \in Coroutine : job[c].kind \in Launched => job[c].ask \in Setting
  /\ \A c \in Coroutine :
        pc[c] \in {"gate", "through"} => job[c].kind \in Launched \cup {"tune"}
  /\ \A c \in Coroutine : pc[c] = "stopping" => job[c].kind \in {"stop", "panic"}
  /\ \A c \in Coroutine :
        pc[c] = "spawn" /\ job[c].kind # "oneshot" => req[job[c].task] \in Setting
  /\ \A c \in Coroutine : pc[c] \in {"flag", "delay"} => job[c].kind = "after"
  /\ \A c \in Coroutine : job[c].kind = "after" =>
        job[c].task \in Task /\ req[job[c].task] \in Setting
  /\ \A t \in Task : slot[t] # "off" => req[t] \in Setting

\* Which coroutine does what.
ClassInv ==
  /\ \A c \in Call : job[c].kind \notin {"after", "relaunch"}
  /\ \A c \in Call \cup Watch : pc[c] \notin {"check", "probe"}
  /\ \A t \in Task : pc[W(t)] # "idle" => job[W(t)].task = t
  /\ \A t \in Task : job[W(t)].kind \in {"none", "after", "relaunch"}
  /\ pc[Boot] \in {"idle", "probe"} /\ pc[Reset] \in {"idle", "check", "probe"}

\* Where a coroutine may await, what it may do, and what the gate remembers.
Labels == {"idle", "gate", "through", "set", "ready", "spawn", "rpc",
           "stopping", "next", "flag", "delay", "check", "probe", "done"}
Sorts == {"none", "start", "oneshot", "tune", "stop", "panic", "reload", "after", "relaunch"}
Jobs == [kind : Sorts, task : Task \cup {NoTask}, ask : Change]
GateSetting == [power : Power \cup {None}, on : {0, 1}]
Owners == Task \cup {NoTask, "muted"}

\* The types of what coroutines, slots and the chain hold.
CallTypes ==
  /\ pc \in [Coroutine -> Labels] /\ job \in [Coroutine -> Jobs]
  /\ epoch0 \in [Coroutine -> Nat] /\ asked \in [Coroutine -> Nat]
  /\ under \in [Coroutine -> SUBSET {Boot, Reset}]
SlotTypes ==
  /\ slot \in [Task -> {"off", "starting", "on", "stopping"}]
  /\ opStop \in [Task -> BOOLEAN] /\ epoch \in Nat
  /\ req \in [Task -> Change] /\ live \in [Task -> Change] /\ emits \in [Task -> Change]
  /\ shot \in [Call -> {"none", "on", "termed"}]
  /\ known \subseteq Task /\ left \in [Call -> SUBSET Task]
ChainTypes ==
  /\ gateState \in [Task -> GateSetting]
  /\ cmd \in [Coroutine -> Position \cup {None}]
  /\ last \in Position \cup {None} /\ chain \in Position /\ late \subseteq Position
  /\ owner \in Owners /\ strayed \in BOOLEAN
RestTypes == gate \in BOOLEAN /\ faults \in 0..MaxFaults /\ slips \in 0..MaxSlips

\* The inductive invariant from which the types follow.
TypeInv == CallTypes /\ SlotTypes /\ ChainTypes /\ RestTypes /\ PhaseInv /\ ClassInv

\* Each task has a watcher of its own.
LEMMA WatchFacts ==
  /\ \A t \in Task : W(t) \in Watch
  /\ \A t, u \in Task : W(t) = W(u) => t = u
  /\ \A c \in Watch : \E t \in Task : c = W(t)
BY DEF W, Watch

\* Settings and changes with the same level and gate are the same.
LEMMA SameChange ==
  ASSUME NEW x \in Change, NEW y \in Change, x.power = y.power, x.on = y.on
  PROVE  x = y
BY DEF Change

\* Merging a change into a setting takes what the change gives and keeps the rest.
LEMMA MergeFacts ==
  ASSUME NEW s \in Change, NEW ch \in Change
  PROVE  /\ Merge(s, ch) \in Change
         /\ Merge(s, ch).power = IF ch.power = None THEN s.power ELSE ch.power
         /\ Merge(s, ch).on = IF ch.on = None THEN s.on ELSE ch.on
<1>1. Merge(s, ch) = [power |-> IF ch.power = None THEN s.power ELSE ch.power,
                      on |-> IF ch.on = None THEN s.on ELSE ch.on]
  BY DEF Merge, Change
<1> QED BY <1>1 DEF Change

\* The inductive invariant implies the types.
LEMMA TypeParts == TypeInv => TypeOK
BY DEF TypeInv, TypeOK, CallTypes, SlotTypes, ChainTypes, RestTypes, Labels, Jobs, Sorts,
       GateSetting, Owners

\* The muted position is a position, and no position is the unknown one.
LEMMA PositionFacts == Mute \in Position /\ None \notin Position /\ Mute # None
BY RadioAssumption DEF Position, Mute, None

\* A launch's setting is a change, and one the gate may remember.
LEMMA SettingFacts ==
  /\ Setting \subseteq Change /\ Setting \subseteq GateSetting
  /\ NoAsk \in Change
BY DEF Setting, Change, GateSetting, NoAsk

\* A job without a setting has the kind and the task it was made of.
LEMMA DoingFacts ==
  ASSUME NEW k \in Sorts, NEW t \in Task \cup {NoTask}
  PROVE  Doing(k, t) \in Jobs /\ Doing(k, t).kind = k /\ Doing(k, t).task = t
BY SettingFacts DEF Doing, Jobs

\* A set drives the chain to one of its positions, or there is none to drive it to.
LEMMA TargetType ==
  ASSUME NEW t, NEW s \in GateSetting
  PROVE  Target(t, s) \in Position \cup {None}
BY PositionFacts DEF Target, GateSetting, Position

\* What the gate remembers after a launch or tune has a gate that is open or closed.
LEMMA GateStateType ==
  ASSUME TypeInv, NEW c \in Coroutine, job[c].task \in Task,
         job[c].kind \in Launched \cup {"tune"}
  PROVE  GateStateFor(c) \in GateSetting
<1> USE DEF TypeInv, CallTypes, ChainTypes
<1>1. CASE job[c].kind = "tune"
  <2>1. gateState[job[c].task] \in GateSetting /\ job[c].ask \in Change BY DEF Jobs
  <2>2. Merge(gateState[job[c].task], job[c].ask) \in GateSetting
    BY <2>1 DEF Merge, GateSetting, Change
  <2> QED BY <1>1, <2>2 DEF GateStateFor
<1>2. CASE job[c].kind # "tune"
  BY <1>2, SettingFacts DEF GateStateFor, PhaseInv
<1> QED BY <1>1, <1>2

\* The chain serves a task, is muted, or is in doubt.
LEMMA OwnerTypes ==
  ASSUME TypeInv, NEW c \in Coroutine, job[c].task \in Task, NEW t \in Task
  PROVE  /\ \A v : OwnerAfter(c, v) \in Owners
         /\ LeftTo(t) \in Owners
BY DEF TypeInv, ChainTypes, OwnerAfter, LeftTo, Owners

\* Sending a set keeps the types of the chain.
LEMMA SendTypes ==
  ASSUME TypeInv, NEW c \in Coroutine, NEW v \in Position, Send(c, v),
         job[c].task \in Task, gateState' \in [Task -> GateSetting]
  PROVE  ChainTypes'
<1> USE DEF TypeInv, ChainTypes
<1>1. cmd' \in [Coroutine -> Position \cup {None}] BY DEF Send
<1>2. last' \in Position \cup {None} BY DEF Send, Forgotten
<1>3. chain' \in Position /\ late' \subseteq Position BY DEF Send
<1>4. owner' \in Owners BY OwnerTypes DEF Send
<1>5. strayed' \in BOOLEAN BY DEF Send
<1> QED BY <1>1, <1>2, <1>3, <1>4, <1>5

\* Leaving the chain alone keeps its types.
LEMMA NoSendTypes ==
  ASSUME TypeInv, NEW c \in Coroutine, NEW o \in Owners, NoSend(c, o),
         gateState' \in [Task -> GateSetting]
  PROVE  ChainTypes'
BY DEF TypeInv, ChainTypes, NoSend, Owners

\* The types hold initially.
LEMMA TypeInit == Init => TypeInv
<1> SUFFICES ASSUME Init PROVE TypeInv OBVIOUS
<1> USE RadioAssumption, CoroutineAssumption, WatchFacts, PositionFacts, SettingFacts
  DEF Init
<1>1. CallTypes
  <2>2. pc \in [Coroutine -> {"idle", "probe"}] OBVIOUS
  <2> QED BY <2>2, DoingFacts DEF CallTypes, Idle, Sorts, Labels
<1>2. SlotTypes BY DEF SlotTypes
<1>3. ChainTypes
  <2>1. [power |-> None, on |-> 1] \in GateSetting BY DEF GateSetting
  <2> QED BY <2>1 DEF ChainTypes, Owners
<1>4. RestTypes
  <2>1. gate \in BOOLEAN OBVIOUS
  <2>2. faults = 0 /\ slips = 0 OBVIOUS
  <2> HIDE DEF Init
  <2> QED BY <2>1, <2>2 DEF RestTypes
<1>5. PhaseInv BY DEF Idle, Doing, PhaseInv, Busy, Launched, Coroutine
<1>6. ClassInv BY DEF Idle, Doing, ClassInv, Coroutine
<1> QED BY <1>1, <1>2, <1>3, <1>4, <1>5, <1>6 DEF TypeInv

\* Every step keeps the types.
LEMMA TypeStep == TypeInv /\ [Next]_vars => TypeInv'
<1> SUFFICES ASSUME TypeInv, [Next]_vars PROVE TypeInv' OBVIOUS
<1> USE RadioAssumption, CoroutineAssumption, WatchFacts
  DEF TypeInv, Busy, Launched, At, To
<1> USE DEF callVars, slotVars, chainVars, bounds, Coroutine
<1>1. ASSUME NEW c \in Call, NEW k \in Kinds, NEW t \in Task, NEW s \in Launches,
             BeginLaunch(c, k, t, s)
      PROVE  TypeInv'
  <2> USE <1>1 DEF BeginLaunch, Arrive
  <2>1. CallTypes'
    <3>1. [kind |-> k, task |-> t, ask |-> s] \in Jobs BY SettingFacts DEF Jobs, Sorts
    <3>2. pc' \in [Coroutine -> Labels] BY DEF CallTypes, Labels
    <3>3. job' \in [Coroutine -> Jobs] BY <3>1 DEF CallTypes
    <3>4. Probing \in SUBSET {Boot, Reset} BY DEF Probing
    <3> QED BY <3>2, <3>3, <3>4 DEF CallTypes, SlotTypes
  <2>2. SlotTypes' BY DEF SlotTypes
  <2>3. ChainTypes' BY DEF ChainTypes
  <2>4. RestTypes' BY DEF RestTypes
  <2>5. PhaseInv' BY DEF PhaseInv, CallTypes, SlotTypes, ChainTypes, Labels, Jobs
  <2>6. ClassInv' BY DEF ClassInv, CallTypes, Labels, Jobs
  <2> QED BY <2>1, <2>2, <2>3, <2>4, <2>5, <2>6
<1>2. ASSUME NEW c \in Call, NEW t \in Task, NEW ch \in Tunes, BeginTune(c, t, ch)
      PROVE  TypeInv'
  <2> USE <1>2 DEF BeginTune
  <2>0. [kind |-> "tune", task |-> t, ask |-> ch] \in Jobs BY DEF Jobs, Sorts
  <2>1. CallTypes'
    <3>1. pc' \in [Coroutine -> Labels] BY DEF CallTypes, Labels
    <3>2. job' \in [Coroutine -> Jobs] BY <2>0 DEF CallTypes
    <3> QED BY <3>1, <3>2 DEF CallTypes, SlotTypes
  <2>2. SlotTypes' BY DEF SlotTypes
  <2>3. ChainTypes' BY DEF ChainTypes
  <2>4. RestTypes' BY DEF RestTypes
  <2>5. PhaseInv' BY DEF PhaseInv, CallTypes, SlotTypes, ChainTypes, Labels, Jobs
  <2>6. ClassInv' BY DEF ClassInv, CallTypes, Labels, Jobs
  <2> QED BY <2>1, <2>2, <2>3, <2>4, <2>5, <2>6
<1>3. ASSUME NEW c \in Call, NEW t \in Task, BeginStop(c, t) PROVE TypeInv'
  <2> USE <1>3 DEF BeginStop
  <2>0. /\ Doing("stop", t) \in Jobs
        /\ Doing("stop", t).kind = "stop" /\ Doing("stop", t).task = t
    BY DoingFacts DEF Sorts
  <2>1. CallTypes'
    <3>1. pc' \in [Coroutine -> Labels] BY DEF CallTypes, Labels
    <3>2. job' \in [Coroutine -> Jobs] BY <2>0 DEF CallTypes
    <3> QED BY <3>1, <3>2 DEF CallTypes, SlotTypes
  <2>2. SlotTypes' BY DEF SlotTypes
  <2>3. ChainTypes' BY DEF ChainTypes
  <2>4. RestTypes' BY DEF RestTypes
  <2>5. PhaseInv' BY <2>0 DEF PhaseInv, CallTypes, SlotTypes, ChainTypes, Labels, Jobs
  <2>6. ClassInv' BY <2>0 DEF ClassInv, CallTypes, Labels, Jobs
  <2> QED BY <2>1, <2>2, <2>3, <2>4, <2>5, <2>6
<1>4. ASSUME NEW c \in Call, BeginPanic(c) PROVE TypeInv'
  <2> USE <1>4 DEF BeginPanic
  <2>0. /\ Doing("panic", NoTask) \in Jobs
        /\ Doing("panic", NoTask).kind = "panic" /\ Doing("panic", NoTask).task = NoTask
    BY DoingFacts DEF Sorts
  <2>1. CallTypes'
    <3>1. pc' \in [Coroutine -> Labels] BY DEF CallTypes, Labels
    <3>2. job' \in [Coroutine -> Jobs] BY <2>0 DEF CallTypes
    <3> QED BY <3>1, <3>2 DEF CallTypes, SlotTypes
  <2>2. SlotTypes' BY DEF SlotTypes
  <2>3. ChainTypes' BY DEF ChainTypes
  <2>4. RestTypes' BY DEF RestTypes
  <2>5. PhaseInv' BY <2>0 DEF PhaseInv, CallTypes, SlotTypes, ChainTypes, Labels, Jobs
  <2>6. ClassInv' BY <2>0 DEF ClassInv, CallTypes, Labels, Jobs
  <2> QED BY <2>1, <2>2, <2>3, <2>4, <2>5, <2>6
<1>5. ASSUME NEW c \in Call, PanicNext(c) PROVE TypeInv'
  <2> USE <1>5 DEF PanicNext, Ends
  <2>0. \A t \in Task : /\ Doing("panic", t) \in Jobs /\ Doing("panic", t).kind = "panic"
                        /\ Doing("panic", t).task = t
    BY DoingFacts DEF Sorts
  <2>a. \A t \in left[c] : t \in Task BY DEF SlotTypes
  <2>1. CASE left[c] = {}
    <3>1. CallTypes' BY <2>1 DEF CallTypes, Labels
    <3>2. SlotTypes' BY <2>1 DEF SlotTypes
    <3>3. ChainTypes' /\ RestTypes' BY DEF ChainTypes, RestTypes
    <3>5. PhaseInv' BY <2>1 DEF PhaseInv, CallTypes, SlotTypes
    <3>6. ClassInv' BY <2>1 DEF ClassInv, CallTypes
    <3> QED BY <3>1, <3>2, <3>3, <3>5, <3>6
  <2>2. CASE left[c] # {}
    <3>0. PICK t \in left[c] : /\ left' = [left EXCEPT ![c] = left[c] \ {t}]
                            /\ job' = [job EXCEPT ![c] = Doing("panic", t)]
                            /\ opStop' = [opStop EXCEPT ![t] = TRUE]
                            /\ pc' = [pc EXCEPT ![c] = "stopping"]
                            /\ UNCHANGED shot
      BY <2>2
    <3>a. t \in Task BY <2>a
    <3>1. CallTypes' BY <3>0, <3>a, <2>0 DEF CallTypes, Labels
    <3>2. SlotTypes'
      <4>1. left[c] \ {t} \in SUBSET Task BY DEF SlotTypes
      <4>2. left' \in [Call -> SUBSET Task] BY <3>0, <4>1 DEF SlotTypes
      <4>3. opStop' \in [Task -> BOOLEAN] BY <3>0 DEF SlotTypes
      <4> QED BY <3>0, <4>2, <4>3 DEF SlotTypes
    <3>3. ChainTypes' /\ RestTypes' BY DEF ChainTypes, RestTypes
    <3>5. PhaseInv' BY <3>0, <3>a, <2>0 DEF PhaseInv, CallTypes, SlotTypes
    <3>6. ClassInv' BY <3>0, <3>a, <2>0 DEF ClassInv, CallTypes
    <3> QED BY <3>1, <3>2, <3>3, <3>5, <3>6
  <2> QED BY <2>1, <2>2
<1>6. ASSUME NEW c \in Call, NEW keep \in SUBSET Task, Reload(c, keep) PROVE TypeInv'
  <2> USE <1>6 DEF Reload, Ends
  <2>0. /\ Doing("reload", NoTask) \in Jobs
        /\ Doing("reload", NoTask).kind = "reload" /\ Doing("reload", NoTask).task = NoTask
    BY DoingFacts DEF Sorts
  <2>1. CallTypes'
    <3>1. pc' \in [Coroutine -> Labels] BY DEF CallTypes, Labels
    <3>2. job' \in [Coroutine -> Jobs] BY <2>0 DEF CallTypes
    <3> QED BY <3>1, <3>2 DEF CallTypes, SlotTypes
  <2>2. SlotTypes' BY DEF SlotTypes
  <2>3. ChainTypes' BY DEF ChainTypes
  <2>4. RestTypes' BY DEF RestTypes
  <2>5. PhaseInv' BY <2>0 DEF PhaseInv, CallTypes, SlotTypes, ChainTypes, Labels, Jobs
  <2>6. ClassInv' BY <2>0 DEF ClassInv, CallTypes, Labels, Jobs
  <2> QED BY <2>1, <2>2, <2>3, <2>4, <2>5, <2>6
<1>7. ASSUME NEW c \in Call, ShotExits(c) PROVE TypeInv'
  <2> USE <1>7 DEF ShotExits
  <2>1. CallTypes' BY DEF CallTypes, Labels, Jobs
  <2>2. SlotTypes' BY DEF SlotTypes, CallTypes, Labels, Jobs
  <2>3. ChainTypes' BY DEF ChainTypes, CallTypes, Labels, Jobs
  <2>4. RestTypes' BY DEF RestTypes, CallTypes, Labels, Jobs
  <2>5. PhaseInv' BY DEF PhaseInv, CallTypes, SlotTypes, ChainTypes, Labels, Jobs
  <2>6. ClassInv' BY DEF ClassInv, CallTypes, Labels, Jobs
  <2> QED BY <2>1, <2>2, <2>3, <2>4, <2>5, <2>6
<1>8. ASSUME NEW c \in Call \cup Watch, PreCommand(c) PROVE TypeInv'
  <2> USE <1>8 DEF PreCommand, Ends
  <2>0. job[c].task \in Task /\ job[c].kind \in Launched \cup {"tune"}
    BY DEF PhaseInv
  <2>a. GateStateFor(c) \in GateSetting BY <2>0, GateStateType
  <2>b. Target(job[c].task, GateStateFor(c)) \in Position \cup {None}
    BY <2>a, TargetType
  <2>c. \A v : OwnerAfter(c, v) \in Owners BY <2>0, OwnerTypes
  <2>1. CallTypes' BY DEF CallTypes, Labels, Send, NoSend
  <2>2. SlotTypes' BY DEF SlotTypes
  <2>3. ChainTypes'
    <3> DEFINE v == Target(job[c].task, GateStateFor(c))
    <3>1. CASE job[c].task \notin known BY <3>1 DEF ChainTypes
    <3>2. CASE job[c].task \in known
      <4>1. gateState' \in [Task -> GateSetting] BY <3>2, <2>0, <2>a DEF ChainTypes
      <4>2. CASE v # None /\ ~MaySkip(c, v)
        BY <3>2, <4>1, <4>2, <2>0, <2>b, SendTypes
      <4>3. CASE v = None \/ MaySkip(c, v)
        BY <3>2, <4>1, <4>3, NoSendTypes DEF ChainTypes
      <4> QED BY <4>2, <4>3
    <3> QED BY <3>1, <3>2
  <2>4. RestTypes' BY DEF RestTypes
  <2>5. PhaseInv'
    BY <2>0, <2>b DEF PhaseInv, CallTypes, ChainTypes, Send, NoSend
  <2>6. ClassInv' BY DEF ClassInv, CallTypes, Send, NoSend
  <2> QED BY <2>1, <2>2, <2>3, <2>4, <2>5, <2>6
<1>9. ASSUME NEW c \in Call \cup Watch, SetDone(c) PROVE TypeInv'
  <2> USE <1>9 DEF SetDone
  <2>1. CallTypes' BY DEF CallTypes, Labels, Jobs
  <2>2. SlotTypes' BY DEF SlotTypes
  <2>3. ChainTypes' BY DEF ChainTypes, PhaseInv, Owners
  <2>4. RestTypes' BY DEF RestTypes
  <2>5. PhaseInv' BY DEF PhaseInv, CallTypes, SlotTypes, ChainTypes, Labels, Jobs
  <2>6. ClassInv' BY DEF ClassInv, CallTypes, Labels, Jobs
  <2> QED BY <2>1, <2>2, <2>3, <2>4, <2>5, <2>6
<1>10. ASSUME NEW c \in Call \cup Watch, SetFails(c) PROVE TypeInv'
  <2> USE <1>10 DEF SetFails, Ends
  <2>1. CallTypes' BY DEF CallTypes, Labels, Jobs
  <2>2. SlotTypes' BY DEF SlotTypes
  <2>3. ChainTypes' BY DEF ChainTypes, PhaseInv, Owners
  <2>4. RestTypes' BY DEF RestTypes
  <2>5. PhaseInv' BY DEF PhaseInv, CallTypes, SlotTypes, ChainTypes, Labels, Jobs
  <2>6. ClassInv' BY DEF ClassInv, CallTypes, Labels, Jobs
  <2> QED BY <2>1, <2>2, <2>3, <2>4, <2>5, <2>6
<1>11. ASSUME NEW c \in Call \cup Watch, Launch(c) PROVE TypeInv'
  <2> USE <1>11 DEF Launch, Ends
  <2>0. job[c].task \in Task /\ job[c].ask \in Setting BY DEF PhaseInv
  <2>a. job[c].ask \in Change /\ NoAsk \in Change BY <2>0, SettingFacts
  <2>1. CallTypes' BY DEF CallTypes, Labels
  <2> DEFINE t == job[c].task
  <2> DEFINE go == ~Abandoned(c) /\ slot[job[c].task] = "off"
  <2>2. SlotTypes'
    <3>1. CASE ~go BY <3>1 DEF SlotTypes
    <3>2. CASE go
      <4>1. /\ slot' = [slot EXCEPT ![t] = "starting"] /\ opStop' = [opStop EXCEPT ![t] = FALSE]
            /\ req' = [req EXCEPT ![t] = job[c].ask] /\ live' = [live EXCEPT ![t] = NoAsk]
            /\ emits' = [emits EXCEPT ![t] = job[c].ask]
            /\ UNCHANGED <<epoch, shot, known, left>>
        BY <3>2
      <4> QED BY <4>1, <2>0, <2>a DEF SlotTypes
    <3> QED BY <3>1, <3>2
  <2>3. ChainTypes' BY DEF ChainTypes, Owners
  <2>4. RestTypes' BY DEF RestTypes
  <2>5. PhaseInv'
    <3>1. CASE ~go BY <3>1 DEF PhaseInv, CallTypes, SlotTypes
    <3>2. CASE go
      <4>1. /\ slot' = [slot EXCEPT ![t] = "starting"] /\ req' = [req EXCEPT ![t] = job[c].ask]
            /\ pc' = [pc EXCEPT ![c] = "spawn"] /\ UNCHANGED <<cmd, job>>
        BY <3>2
      <4> HIDE <1>11 DEF Launch
      <4> QED BY <4>1, <2>0 DEF PhaseInv, CallTypes, SlotTypes
    <3> QED BY <3>1, <3>2
  <2>6. ClassInv' BY DEF ClassInv, CallTypes
  <2> QED BY <2>1, <2>2, <2>3, <2>4, <2>5, <2>6
<1>12. ASSUME NEW c \in Call \cup Watch, Spawned(c) PROVE TypeInv'
  <2> USE <1>12 DEF Spawned, Ends
  <2>1. CallTypes' BY DEF CallTypes, Labels, Jobs
  <2>2. SlotTypes' BY DEF SlotTypes
  <2>3. ChainTypes' BY DEF ChainTypes, PhaseInv, Owners
  <2>4. RestTypes' BY DEF RestTypes
  <2>5. PhaseInv' BY DEF PhaseInv, CallTypes, SlotTypes, ChainTypes, Labels, Jobs
  <2>6. ClassInv' BY DEF ClassInv, CallTypes, Labels, Jobs
  <2> QED BY <2>1, <2>2, <2>3, <2>4, <2>5, <2>6
<1>13. ASSUME NEW c \in Call \cup Watch, LaunchShot(c) PROVE TypeInv'
  <2> USE <1>13 DEF LaunchShot
  <2>1. CallTypes' BY DEF CallTypes, Labels, Jobs
  <2>2. SlotTypes' BY DEF SlotTypes, CallTypes, Labels, Jobs
  <2>3. ChainTypes' BY DEF ChainTypes, CallTypes, Labels, Jobs
  <2>4. RestTypes' BY DEF RestTypes, CallTypes, Labels, Jobs
  <2>5. PhaseInv' BY DEF PhaseInv, CallTypes, SlotTypes, ChainTypes, Labels, Jobs
  <2>6. ClassInv' BY DEF ClassInv, CallTypes, Labels, Jobs
  <2> QED BY <2>1, <2>2, <2>3, <2>4, <2>5, <2>6
<1>14. ASSUME NEW c \in Call \cup Watch, ShotSpawned(c) PROVE TypeInv'
  <2> USE <1>14 DEF ShotSpawned, Ends
  <2>1. CallTypes' BY DEF CallTypes, Labels, Jobs
  <2>2. SlotTypes' BY DEF SlotTypes, CallTypes, Labels, Jobs
  <2>3. ChainTypes' BY DEF ChainTypes, CallTypes, Labels, Jobs
  <2>4. RestTypes' BY DEF RestTypes, CallTypes, Labels, Jobs
  <2>5. PhaseInv' BY DEF PhaseInv, CallTypes, SlotTypes, ChainTypes, Labels, Jobs
  <2>6. ClassInv' BY DEF ClassInv, CallTypes, Labels, Jobs
  <2> QED BY <2>1, <2>2, <2>3, <2>4, <2>5, <2>6
<1>15. ASSUME NEW c \in Call \cup Watch, Tune(c) PROVE TypeInv'
  <2> USE <1>15 DEF Tune, Ends
  <2>1. CallTypes' BY DEF CallTypes, Labels, Jobs
  <2>2. SlotTypes' BY DEF SlotTypes
  <2>3. ChainTypes' BY DEF ChainTypes, PhaseInv, Owners
  <2>4. RestTypes' BY DEF RestTypes
  <2>5. PhaseInv' BY DEF PhaseInv, CallTypes, SlotTypes, ChainTypes, Labels, Jobs
  <2>6. ClassInv' BY DEF ClassInv, CallTypes, Labels, Jobs
  <2> QED BY <2>1, <2>2, <2>3, <2>4, <2>5, <2>6
<1>16. ASSUME NEW c \in Call \cup Watch, Tuned(c) PROVE TypeInv'
  <2> USE <1>16 DEF Tuned, Ends
  <2>0. job[c].task \in Task /\ job[c].ask \in Change BY DEF PhaseInv, CallTypes, Jobs
  <2>a. \A R : Applied(job[c].ask, R) \in Change BY <2>0 DEF Applied, Change
  <2>b. \A R, e : e \in Change => Merge(e, Applied(job[c].ask, R)) \in Change
    BY <2>a, MergeFacts
  <2>1. CallTypes' BY DEF CallTypes, Labels
  <2>2. SlotTypes' BY <2>0, <2>b DEF SlotTypes
  <2>3. ChainTypes' BY DEF ChainTypes, Owners
  <2>4. RestTypes' BY DEF RestTypes
  <2>5. PhaseInv' BY DEF PhaseInv, CallTypes
  <2>6. ClassInv' BY DEF ClassInv, CallTypes
  <2> QED BY <2>1, <2>2, <2>3, <2>4, <2>5, <2>6
<1>17. ASSUME NEW c \in Call \cup Watch, StopSignals(c) PROVE TypeInv'
  <2> USE <1>17 DEF StopSignals
  <2>1. CallTypes' BY DEF CallTypes, Labels, Jobs
  <2>2. SlotTypes' BY DEF SlotTypes, CallTypes, Labels, Jobs
  <2>3. ChainTypes' BY DEF ChainTypes, CallTypes, Labels, Jobs
  <2>4. RestTypes' BY DEF RestTypes, CallTypes, Labels, Jobs
  <2>5. PhaseInv' BY DEF PhaseInv, CallTypes, SlotTypes, ChainTypes, Labels, Jobs
  <2>6. ClassInv' BY DEF ClassInv, CallTypes, Labels, Jobs
  <2> QED BY <2>1, <2>2, <2>3, <2>4, <2>5, <2>6
<1>18. ASSUME NEW c \in Call \cup Watch, StopMutes(c) PROVE TypeInv'
  <2> USE <1>18 DEF StopMutes, MuteChain
  <2>0. job[c].task \in Task BY DEF PhaseInv
  <2>a. (\A v : OwnerAfter(c, v) \in Owners) /\ LeftTo(job[c].task) \in Owners
    BY <2>0, OwnerTypes
  <2>1. CallTypes' BY DEF CallTypes, Labels, Send, NoSend
  <2>2. SlotTypes' BY DEF SlotTypes
  <2>3. ChainTypes'
    <3>1. gateState' \in [Task -> GateSetting] /\ owner \in Owners BY DEF ChainTypes
    <3>2. CASE Send(c, Mute) BY <3>1, <3>2, <2>0, SendTypes, PositionFacts
    <3>3. CASE NoSend(c, owner) \/ NoSend(c, LeftTo(job[c].task))
      BY <3>1, <3>3, <2>a, NoSendTypes
    <3> QED BY <3>2, <3>3
  <2>4. RestTypes' BY DEF RestTypes
  <2>5. PhaseInv'
    BY <2>0, PositionFacts DEF PhaseInv, CallTypes, ChainTypes, Send, NoSend
  <2>6. ClassInv' BY DEF ClassInv, CallTypes, Send, NoSend
  <2> QED BY <2>1, <2>2, <2>3, <2>4, <2>5, <2>6
<1>19. ASSUME NEW c \in Call \cup Watch, Stopped(c) PROVE TypeInv'
  <2> USE <1>19 DEF Stopped
  <2>1. CallTypes' BY DEF CallTypes, Labels, Jobs
  <2>2. SlotTypes' BY DEF SlotTypes, CallTypes, Labels, Jobs
  <2>3. ChainTypes' BY DEF ChainTypes, CallTypes, Labels, Jobs
  <2>4. RestTypes' BY DEF RestTypes, CallTypes, Labels, Jobs
  <2>5. PhaseInv' BY DEF PhaseInv, CallTypes, SlotTypes, ChainTypes, Labels, Jobs
  <2>6. ClassInv' BY DEF ClassInv, CallTypes, Labels, Jobs
  <2> QED BY <2>1, <2>2, <2>3, <2>4, <2>5, <2>6
<1>20. ASSUME NEW c \in Call \cup Watch, AfterFault(c) PROVE TypeInv'
  <2> USE <1>20 DEF AfterFault, MuteChain
  <2>0. job[c].task \in Task BY DEF PhaseInv
  <2>a. (\A v : OwnerAfter(c, v) \in Owners) /\ LeftTo(job[c].task) \in Owners
    BY <2>0, OwnerTypes
  <2>1. CallTypes' BY DEF CallTypes, Labels, Send, NoSend
  <2>2. SlotTypes' BY DEF SlotTypes
  <2>3. ChainTypes'
    <3>1. gateState' \in [Task -> GateSetting] /\ owner \in Owners BY DEF ChainTypes
    <3>2. CASE Send(c, Mute) BY <3>1, <3>2, <2>0, SendTypes, PositionFacts
    <3>3. CASE NoSend(c, owner) \/ NoSend(c, LeftTo(job[c].task))
      BY <3>1, <3>3, <2>a, NoSendTypes
    <3> QED BY <3>2, <3>3
  <2>4. RestTypes' BY DEF RestTypes
  <2>5. PhaseInv'
    BY <2>0, PositionFacts DEF PhaseInv, CallTypes, ChainTypes, Send, NoSend
  <2>6. ClassInv' BY DEF ClassInv, CallTypes, Send, NoSend
  <2> QED BY <2>1, <2>2, <2>3, <2>4, <2>5, <2>6
<1>21. ASSUME NEW c \in Call \cup Watch, StartReset(c) PROVE TypeInv'
  <2> USE <1>21 DEF StartReset
  <2>1. CallTypes' BY DEF CallTypes, Labels, Jobs
  <2>2. SlotTypes' BY DEF SlotTypes, CallTypes, Labels, Jobs
  <2>3. ChainTypes' BY DEF ChainTypes, CallTypes, Labels, Jobs
  <2>4. RestTypes' BY DEF RestTypes, CallTypes, Labels, Jobs
  <2>5. PhaseInv' BY DEF PhaseInv, CallTypes, SlotTypes, ChainTypes, Labels, Jobs
  <2>6. ClassInv' BY DEF ClassInv, CallTypes, Labels, Jobs
  <2> QED BY <2>1, <2>2, <2>3, <2>4, <2>5, <2>6
<1>22. ASSUME NEW c \in Call \cup Watch, Relaunch(c) PROVE TypeInv'
  <2> USE <1>22 DEF Relaunch, Arrive, Ends
  <2>0. job[c].kind = "after" /\ job[c].task \in Task /\ req[job[c].task] \in Setting
    BY DEF PhaseInv
  <2>a. c \in Watch BY <2>0 DEF ClassInv
  <2>1. CASE UNCHANGED <<job, epoch0, under>>
    <3>1. CallTypes' BY <2>1 DEF CallTypes, Labels, SlotTypes
    <3>2. SlotTypes' /\ ChainTypes' /\ RestTypes'
      BY DEF SlotTypes, ChainTypes, RestTypes
    <3>5. PhaseInv' BY <2>1, <2>0 DEF PhaseInv, CallTypes
    <3>6. ClassInv' BY <2>1 DEF ClassInv, CallTypes
    <3> QED BY <3>1, <3>2, <3>5, <3>6
  <2>2. CASE ~UNCHANGED <<job, epoch0, under>>
    <3> DEFINE j == [kind |-> "relaunch", task |-> job[c].task, ask |-> Overlay(job[c].task)]
    <3>0. /\ job' = [job EXCEPT ![c] = j]
          /\ epoch0' = [epoch0 EXCEPT ![c] = epoch]
          /\ under' = [under EXCEPT ![c] = Probing]
          /\ pc' = [pc EXCEPT ![c] = IF gate THEN "through" ELSE "gate"]
      BY <2>2
    <3>a. live[job[c].task] \in Change BY <2>0 DEF SlotTypes
    <3>b. Overlay(job[c].task) \in Setting
      BY <2>0, <3>a DEF Overlay, Merge, Setting, Change
    <3>c. j \in Jobs BY <3>b, <2>0, SettingFacts DEF Jobs, Sorts
    <3>d. Probing \in SUBSET {Boot, Reset} BY DEF Probing
    <3>e. j.kind = "relaunch" /\ j.task = job[c].task /\ j.ask \in Setting BY <3>b
    <3> HIDE DEF j
    <3>1. CallTypes' BY <3>0, <3>c, <3>d DEF CallTypes, Labels, SlotTypes
    <3>2. SlotTypes' /\ ChainTypes' /\ RestTypes'
      BY DEF SlotTypes, ChainTypes, RestTypes
    <3>5. PhaseInv' BY <3>0, <3>e, <2>0 DEF PhaseInv, CallTypes
    <3>6. ClassInv' BY <3>0, <3>e, <2>a DEF ClassInv, CallTypes
    <3> QED BY <3>1, <3>2, <3>5, <3>6
  <2> QED BY <2>1, <2>2
<1>23. ASSUME NEW t \in Task, Exit(t) PROVE TypeInv'
  <2> USE <1>23 DEF Exit
  <2>1. CallTypes' BY DEF CallTypes, Labels, Jobs
  <2>2. SlotTypes' BY DEF SlotTypes, CallTypes, Labels, Jobs
  <2>3. ChainTypes' BY DEF ChainTypes, CallTypes, Labels, Jobs
  <2>4. RestTypes' BY DEF RestTypes, CallTypes, Labels, Jobs
  <2>5. PhaseInv' BY DEF PhaseInv, CallTypes, SlotTypes, ChainTypes, Labels, Jobs
  <2>6. ClassInv' BY DEF ClassInv, CallTypes, Labels, Jobs
  <2> QED BY <2>1, <2>2, <2>3, <2>4, <2>5, <2>6
<1>24. ASSUME NEW t \in Task, Fault(t) PROVE TypeInv'
  <2> USE <1>24 DEF Fault
  <2>0. /\ Doing("after", t) \in Jobs
        /\ Doing("after", t).kind = "after" /\ Doing("after", t).task = t
    BY DoingFacts DEF Sorts
  <2>1. CallTypes'
    <3>1. pc' \in [Coroutine -> Labels] BY DEF CallTypes, Labels
    <3>2. job' \in [Coroutine -> Jobs] BY <2>0 DEF CallTypes
    <3> QED BY <3>1, <3>2 DEF CallTypes, SlotTypes
  <2>2. SlotTypes' BY DEF SlotTypes
  <2>3. ChainTypes' BY DEF ChainTypes
  <2>4. RestTypes' BY DEF RestTypes
  <2>5. PhaseInv' BY <2>0 DEF PhaseInv, CallTypes, SlotTypes, ChainTypes, Labels, Jobs
  <2>6. ClassInv' BY <2>0 DEF ClassInv, CallTypes, Labels, Jobs
  <2> QED BY <2>1, <2>2, <2>3, <2>4, <2>5, <2>6
<1>25. ASSUME LateSet PROVE TypeInv'
  <2> USE <1>25 DEF LateSet
  <2>1. CallTypes' BY DEF CallTypes, Labels, Jobs
  <2>2. SlotTypes' BY DEF SlotTypes
  <2>3. ChainTypes' BY DEF ChainTypes, PhaseInv, Owners
  <2>4. RestTypes' BY DEF RestTypes
  <2>5. PhaseInv' BY DEF PhaseInv, CallTypes, SlotTypes, ChainTypes, Labels, Jobs
  <2>6. ClassInv' BY DEF ClassInv, CallTypes, Labels, Jobs
  <2> QED BY <2>1, <2>2, <2>3, <2>4, <2>5, <2>6
<1>26. ASSUME ProbeBegins PROVE TypeInv'
  <2> USE <1>26 DEF ProbeBegins
  <2>1. CallTypes' BY DEF CallTypes, Labels, Jobs
  <2>2. SlotTypes' BY DEF SlotTypes, CallTypes, Labels, Jobs
  <2>3. ChainTypes' BY DEF ChainTypes, CallTypes, Labels, Jobs
  <2>4. RestTypes' BY DEF RestTypes, CallTypes, Labels, Jobs
  <2>5. PhaseInv' BY DEF PhaseInv, CallTypes, SlotTypes, ChainTypes, Labels, Jobs
  <2>6. ClassInv' BY DEF ClassInv, CallTypes, Labels, Jobs
  <2> QED BY <2>1, <2>2, <2>3, <2>4, <2>5, <2>6
<1>27. ASSUME NEW p \in {Boot, Reset}, ProbeEnds(p) PROVE TypeInv'
  <2> USE <1>27 DEF ProbeEnds
  <2>1. CallTypes' BY DEF CallTypes, Labels, Jobs
  <2>2. SlotTypes' BY DEF SlotTypes, CallTypes, Labels, Jobs
  <2>3. ChainTypes' BY DEF ChainTypes, CallTypes, Labels, Jobs
  <2>4. RestTypes' BY DEF RestTypes, CallTypes, Labels, Jobs
  <2>5. PhaseInv' BY DEF PhaseInv, CallTypes, SlotTypes, ChainTypes, Labels, Jobs
  <2>6. ClassInv' BY DEF ClassInv, CallTypes, Labels, Jobs
  <2> QED BY <2>1, <2>2, <2>3, <2>4, <2>5, <2>6
<1>28. ASSUME UNCHANGED vars PROVE TypeInv'
  <2> USE <1>28 DEF vars
  <2>1. CallTypes' BY DEF CallTypes
  <2>2. SlotTypes' BY DEF SlotTypes
  <2>3. ChainTypes' BY DEF ChainTypes
  <2>4. RestTypes' BY DEF RestTypes
  <2>5. PhaseInv' BY DEF PhaseInv
  <2>6. ClassInv' BY DEF ClassInv
  <2> QED BY <2>1, <2>2, <2>3, <2>4, <2>5, <2>6
<1> QED BY <1>1, <1>2, <1>3, <1>4, <1>5, <1>6, <1>7, <1>8, <1>9, <1>10, <1>11, <1>12,
           <1>13, <1>14, <1>15, <1>16, <1>17, <1>18, <1>19, <1>20, <1>21, <1>22, <1>23,
           <1>24, <1>25, <1>26, <1>27, <1>28 DEF Next, Step

\* Every variable has its type.
THEOREM RadioTypes == Spec => []TypeOK
<1>1. Init => TypeInv BY TypeInit
<1>2. TypeInv /\ [Next]_vars => TypeInv' BY TypeStep
<1> QED BY <1>1, <1>2, TypeParts, PTL DEF Spec

-----------------------------------------------------------------------------
(* The device gate *)

\* The gate is open exactly while nobody probes.
GateOpen == gate = (Probing = {})

\* While the boot pre-image probes nothing was launched, nor let past the gate.
BootAlone ==
  pc[Boot] = "probe" =>
    /\ pc[Reset] = "idle"
    /\ \A t \in Task : slot[t] = "off" /\ pc[W(t)] = "idle"
    /\ \A c \in Call :
          job[c].kind \in Launched => pc[c] \notin {"through", "set", "ready", "spawn"}

\* What is past the gate waits for no probe, ...
PastGate ==
  \A c \in Call \cup Watch :
    job[c].kind \in Launched /\ pc[c] \in {"through", "set", "ready"} => under[c] = {}
\* ... and what is at it only for those that still have the device.
AtGate == \A c \in Call \cup Watch : pc[c] = "gate" => under[c] \subseteq Probing
GateInv == GateOpen /\ BootAlone /\ PastGate /\ AtGate

\* Every step keeps the gate's invariant.
LEMMA GateStep == TypeInv /\ GateInv /\ [Next]_vars => GateInv'
<1> SUFFICES ASSUME TypeInv, GateInv, [Next]_vars PROVE GateInv' OBVIOUS
<1> USE CoroutineAssumption, WatchFacts DEF TypeInv, CallTypes, PhaseInv, ClassInv
<1> USE DEF GateInv, GateOpen, BootAlone, PastGate, AtGate, Probing
<1> USE DEF Busy, Launched, At, To, callVars, slotVars, chainVars, bounds, Coroutine
<1>1. ASSUME NEW c \in Call, NEW k \in Kinds, NEW t \in Task, NEW s \in Launches,
             BeginLaunch(c, k, t, s)
      PROVE  GateInv'
  <2> DEFINE j == [kind |-> k, task |-> t, ask |-> s]
  <2>0. job' = [job EXCEPT ![c] = j] /\ Arrive(c) /\ UNCHANGED <<gate, slot>>
    BY <1>1 DEF BeginLaunch
  <2>9. c \in Call OBVIOUS
  <2>a. job' = [job EXCEPT ![c] = j] /\ j.kind = k BY <2>0
  <2>1. /\ pc' = [pc EXCEPT ![c] = IF gate THEN "through" ELSE "gate"]
        /\ under' = [under EXCEPT ![c] = Probing] /\ UNCHANGED <<gate, slot>>
    BY <2>0 DEF Arrive
  <2> HIDE DEF j
  <2>2. Probing' = Probing BY <2>1
  <2>3. GateOpen' BY <2>1, <2>2
  <2>4. BootAlone' BY <2>a, <2>1, <2>9
  <2>5. PastGate' BY <2>a, <2>1
  <2>6. AtGate'
    <3> HIDE DEF Probing
    <3> QED BY <2>1, <2>2
  <2> QED BY <2>3, <2>4, <2>5, <2>6
<1>2. ASSUME NEW c \in Call, NEW t \in Task, NEW ch \in Tunes, BeginTune(c, t, ch)
      PROVE  GateInv'
  BY <1>2 DEF BeginTune
<1>3. ASSUME NEW c \in Call, NEW t \in Task, BeginStop(c, t) PROVE GateInv'
  BY <1>3 DEF BeginStop
<1>4. ASSUME NEW c \in Call, BeginPanic(c) PROVE GateInv'
  BY <1>4 DEF BeginPanic
<1>5. ASSUME NEW c \in Call, PanicNext(c) PROVE GateInv'
  BY <1>5 DEF PanicNext, Ends
<1>6. ASSUME NEW c \in Call, NEW keep \in SUBSET Task, Reload(c, keep) PROVE GateInv'
  BY <1>6 DEF Reload, Ends
<1>7. ASSUME NEW c \in Call, ShotExits(c) PROVE GateInv'
  BY <1>7 DEF ShotExits
<1>8. ASSUME NEW c \in Call \cup Watch, PreCommand(c) PROVE GateInv'
  BY <1>8 DEF PreCommand, Send, NoSend, Ends
<1>9. ASSUME NEW c \in Call \cup Watch, SetDone(c) PROVE GateInv'
  BY <1>9 DEF SetDone
<1>10. ASSUME NEW c \in Call \cup Watch, SetFails(c) PROVE GateInv'
  BY <1>10 DEF SetFails, Ends
<1>11. ASSUME NEW c \in Call \cup Watch, Launch(c) PROVE GateInv'
  BY <1>11 DEF Launch, Ends
<1>12. ASSUME NEW c \in Call \cup Watch, Spawned(c) PROVE GateInv'
  BY <1>12 DEF Spawned, Ends
<1>13. ASSUME NEW c \in Call \cup Watch, LaunchShot(c) PROVE GateInv'
  BY <1>13 DEF LaunchShot
<1>14. ASSUME NEW c \in Call \cup Watch, ShotSpawned(c) PROVE GateInv'
  BY <1>14 DEF ShotSpawned, Ends
<1>15. ASSUME NEW c \in Call \cup Watch, Tune(c) PROVE GateInv'
  BY <1>15 DEF Tune, Ends
<1>16. ASSUME NEW c \in Call \cup Watch, Tuned(c) PROVE GateInv'
  BY <1>16 DEF Tuned, Ends
<1>17. ASSUME NEW c \in Call \cup Watch, StopSignals(c) PROVE GateInv'
  BY <1>17 DEF StopSignals
<1>18. ASSUME NEW c \in Call \cup Watch, StopMutes(c) PROVE GateInv'
  BY <1>18 DEF StopMutes, MuteChain, Send, NoSend
<1>19. ASSUME NEW c \in Call \cup Watch, Stopped(c) PROVE GateInv'
  BY <1>19 DEF Stopped
<1>20. ASSUME NEW c \in Call \cup Watch, AfterFault(c) PROVE GateInv'
  BY <1>20 DEF AfterFault, MuteChain, Send, NoSend
<1>21. ASSUME NEW c \in Call \cup Watch, StartReset(c) PROVE GateInv'
  BY <1>21 DEF StartReset
<1>22. ASSUME NEW c \in Call \cup Watch, Relaunch(c) PROVE GateInv'
  <2> DEFINE j == [kind |-> "relaunch", task |-> job[c].task, ask |-> Overlay(job[c].task)]
  <2>8. c \in Watch /\ pc[c] = "delay" BY <1>22 DEF Relaunch
  <2>9. c \notin Call /\ pc[Boot] # "probe" BY <2>8
  <2>b. CASE UNCHANGED <<job, under>> /\ Ends(c)
    BY <1>22, <2>b DEF Relaunch, Ends
  <2>c. CASE ~(UNCHANGED <<job, under>> /\ Ends(c))
    <3>0. job' = [job EXCEPT ![c] = j] /\ Arrive(c) /\ UNCHANGED <<gate, slot>>
      BY <1>22, <2>c DEF Relaunch
    <3>a. job' = [job EXCEPT ![c] = j] /\ j.kind = "relaunch" BY <3>0
    <3>1. /\ pc' = [pc EXCEPT ![c] = IF gate THEN "through" ELSE "gate"]
          /\ under' = [under EXCEPT ![c] = Probing] /\ UNCHANGED <<gate, slot>>
      BY <3>0 DEF Arrive
    <3> HIDE DEF j
    <3>2. Probing' = Probing BY <3>1
    <3>3. GateOpen' BY <3>1, <3>2
    <3>4. BootAlone' BY <3>a, <3>1, <2>9
    <3>5. PastGate' BY <3>a, <3>1
    <3>6. AtGate'
      <4> HIDE DEF Probing
      <4> QED BY <3>1, <3>2
    <3> QED BY <3>3, <3>4, <3>5, <3>6
  <2> QED BY <2>b, <2>c
<1>23. ASSUME NEW t \in Task, Exit(t) PROVE GateInv'
  BY <1>23 DEF Exit
<1>24. ASSUME NEW t \in Task, Fault(t) PROVE GateInv'
  BY <1>24 DEF Fault
<1>25. ASSUME LateSet PROVE GateInv'
  BY <1>25 DEF LateSet
<1>26. ASSUME ProbeBegins PROVE GateInv'
  <2> USE <1>26 DEF ProbeBegins
  <2>1. CASE UNCHANGED gate /\ pc' = [pc EXCEPT ![Reset] = "idle"] BY <2>1
  <2>2. CASE gate' = FALSE /\ pc' = [pc EXCEPT ![Reset] = "probe"]
    <3>1. GateOpen' BY <2>2
    <3>2. BootAlone' BY <2>2
    <3>3. PastGate' BY <2>2
    <3>4. AtGate' BY <2>2
    <3> QED BY <3>1, <3>2, <3>3, <3>4
  <2> QED BY <2>1, <2>2
<1>27. ASSUME NEW p \in {Boot, Reset}, ProbeEnds(p) PROVE GateInv'
  <2> USE <1>27 DEF ProbeEnds
  <2>1. Probing = {p} OBVIOUS
  <2>2. Probing' = {} BY <2>1
  <2>3. GateOpen' BY <2>2
  <2>4. BootAlone' BY <2>2
  <2>5. PastGate' BY <2>1
  <2>6. AtGate' BY <2>1
  <2> QED BY <2>3, <2>4, <2>5, <2>6
<1>28. ASSUME UNCHANGED vars PROVE GateInv'
  BY <1>28 DEF vars
<1> QED BY <1>1, <1>2, <1>3, <1>4, <1>5, <1>6, <1>7, <1>8, <1>9, <1>10, <1>11, <1>12,
           <1>13, <1>14, <1>15, <1>16, <1>17, <1>18, <1>19, <1>20, <1>21, <1>22, <1>23,
           <1>24, <1>25, <1>26, <1>27, <1>28 DEF Next, Step

\* The gate's invariant holds initially.
LEMMA GateInit == Init => GateInv
<1> SUFFICES ASSUME Init PROVE GateInv OBVIOUS
<1> USE CoroutineAssumption, WatchFacts DEF Init, Coroutine, Probing
<1>1. GateOpen
  <2>1. PICK booting \in BOOLEAN :
          /\ gate = ~booting
          /\ pc = [c \in Coroutine |-> IF c = Boot /\ booting THEN "probe" ELSE "idle"]
    OBVIOUS
  <2>2. CASE booting
    <3>1. Boot \in Probing BY <2>1, <2>2
    <3> QED BY <2>1, <2>2, <3>1 DEF GateOpen
  <2>3. CASE ~booting
    <3>1. Probing = {} BY <2>1, <2>3
    <3> QED BY <2>1, <2>3, <3>1 DEF GateOpen
  <2> QED BY <2>2, <2>3
<1>2. BootAlone BY DEF BootAlone
<1>3. PastGate /\ AtGate BY DEF PastGate, AtGate
<1> QED BY <1>1, <1>2, <1>3 DEF GateInv

\* What GateHonoured says of one step.
GateKept == \A c \in Coroutine : Spawns(c) => under[c] = {}

\* No step spawns what still waits for a probe.
LEMMA GateAction == TypeInv /\ GateInv /\ [Next]_vars => GateKept
<1> SUFFICES ASSUME TypeInv, GateInv, [Next]_vars PROVE GateKept OBVIOUS
<1> SUFFICES ASSUME NEW d \in Coroutine, Spawns(d) PROVE under[d] = {} BY DEF GateKept
<1> USE CoroutineAssumption, WatchFacts
  DEF TypeInv, CallTypes, PhaseInv, ClassInv, GateInv, PastGate
<1> USE DEF Spawns, Launched, At, To, callVars, Coroutine
<1>1. ASSUME NEW c \in Call, NEW k \in Kinds, NEW t \in Task, NEW s \in Launches,
             BeginLaunch(c, k, t, s)
      PROVE  under[d] = {}
  BY <1>1 DEF BeginLaunch, Arrive
<1>2. ASSUME NEW c \in Call, NEW t \in Task, NEW ch \in Tunes, BeginTune(c, t, ch)
      PROVE  under[d] = {}
  BY <1>2 DEF BeginTune
<1>3. ASSUME NEW c \in Call, NEW t \in Task, BeginStop(c, t) PROVE under[d] = {}
  BY <1>3 DEF BeginStop
<1>4. ASSUME NEW c \in Call, BeginPanic(c) PROVE under[d] = {}
  BY <1>4 DEF BeginPanic
<1>5. ASSUME NEW c \in Call, PanicNext(c) PROVE under[d] = {}
  BY <1>5 DEF PanicNext, Ends
<1>6. ASSUME NEW c \in Call, NEW keep \in SUBSET Task, Reload(c, keep)
      PROVE  under[d] = {}
  BY <1>6 DEF Reload, Ends
<1>7. ASSUME NEW c \in Call, ShotExits(c) PROVE under[d] = {}
  BY <1>7 DEF ShotExits
<1>8. ASSUME NEW c \in Call \cup Watch, PreCommand(c) PROVE under[d] = {}
  BY <1>8 DEF PreCommand, Send, NoSend, Ends
<1>9. ASSUME NEW c \in Call \cup Watch, SetDone(c) PROVE under[d] = {}
  BY <1>9 DEF SetDone
<1>10. ASSUME NEW c \in Call \cup Watch, SetFails(c) PROVE under[d] = {}
  BY <1>10 DEF SetFails, Ends
<1>11. ASSUME NEW c \in Call \cup Watch, Launch(c) PROVE under[d] = {}
  BY <1>11 DEF Launch, Ends
<1>12. ASSUME NEW c \in Call \cup Watch, Spawned(c) PROVE under[d] = {}
  BY <1>12 DEF Spawned, Ends
<1>13. ASSUME NEW c \in Call \cup Watch, LaunchShot(c) PROVE under[d] = {}
  BY <1>13 DEF LaunchShot
<1>14. ASSUME NEW c \in Call \cup Watch, ShotSpawned(c) PROVE under[d] = {}
  BY <1>14 DEF ShotSpawned, Ends
<1>15. ASSUME NEW c \in Call \cup Watch, Tune(c) PROVE under[d] = {}
  BY <1>15 DEF Tune, Ends
<1>16. ASSUME NEW c \in Call \cup Watch, Tuned(c) PROVE under[d] = {}
  BY <1>16 DEF Tuned, Ends
<1>17. ASSUME NEW c \in Call \cup Watch, StopSignals(c) PROVE under[d] = {}
  BY <1>17 DEF StopSignals
<1>18. ASSUME NEW c \in Call \cup Watch, StopMutes(c) PROVE under[d] = {}
  BY <1>18 DEF StopMutes, MuteChain, Send, NoSend
<1>19. ASSUME NEW c \in Call \cup Watch, Stopped(c) PROVE under[d] = {}
  BY <1>19 DEF Stopped
<1>20. ASSUME NEW c \in Call \cup Watch, AfterFault(c) PROVE under[d] = {}
  BY <1>20 DEF AfterFault, MuteChain, Send, NoSend
<1>21. ASSUME NEW c \in Call \cup Watch, StartReset(c) PROVE under[d] = {}
  BY <1>21 DEF StartReset
<1>22. ASSUME NEW c \in Call \cup Watch, Relaunch(c) PROVE under[d] = {}
  BY <1>22 DEF Relaunch, Arrive, Ends
<1>23. ASSUME NEW t \in Task, Exit(t) PROVE under[d] = {}
  BY <1>23 DEF Exit
<1>24. ASSUME NEW t \in Task, Fault(t) PROVE under[d] = {}
  BY <1>24 DEF Fault
<1>25. ASSUME LateSet PROVE under[d] = {}
  BY <1>25 DEF LateSet
<1>26. ASSUME ProbeBegins PROVE under[d] = {}
  BY <1>26 DEF ProbeBegins
<1>27. ASSUME NEW p \in {Boot, Reset}, ProbeEnds(p) PROVE under[d] = {}
  BY <1>27 DEF ProbeEnds
<1>28. ASSUME UNCHANGED vars PROVE under[d] = {}
  BY <1>28 DEF vars
<1> QED BY <1>1, <1>2, <1>3, <1>4, <1>5, <1>6, <1>7, <1>8, <1>9, <1>10, <1>11, <1>12,
           <1>13, <1>14, <1>15, <1>16, <1>17, <1>18, <1>19, <1>20, <1>21, <1>22, <1>23,
           <1>24, <1>25, <1>26, <1>27, <1>28 DEF Next, Step

\* Nothing that came to the gate during a probe is spawned before the probe has ended
\* (_preimage_when_idle and _reset_radio against start, run_oneshot and relaunches).
THEOREM GateHonouredHolds == Spec => GateHonoured
<1>1. Init => TypeInv /\ GateInv BY TypeInit, GateInit
<1>2. TypeInv /\ GateInv /\ [Next]_vars => (TypeInv /\ GateInv)' BY TypeStep, GateStep
<1>3. TypeInv /\ GateInv /\ [Next]_vars => [\A c \in Coroutine : Spawns(c) => under[c] = {}]_vars
  BY GateAction DEF GateKept
<1> QED BY <1>1, <1>2, <1>3, PTL DEF Spec, GateHonoured

-----------------------------------------------------------------------------
(* The level of a relaunch *)

\* The launch request with the live changes on it is what the process is set to.
EmitInv == \A t \in Task : Merge(req[t], live[t]) = emits[t]

\* Two changes, one after the other, are one change.
LEMMA MergeAssociates ==
  ASSUME NEW s \in Change, NEW ch \in Change, NEW a \in Change
  PROVE  Merge(Merge(s, ch), a) = Merge(s, Merge(ch, a))
<1>1. Merge(s, ch) \in Change /\ Merge(ch, a) \in Change BY MergeFacts
<1>2. Merge(Merge(s, ch), a) \in Change /\ Merge(s, Merge(ch, a)) \in Change
  BY <1>1, MergeFacts
<1>3. Merge(Merge(s, ch), a).power = Merge(s, Merge(ch, a)).power BY <1>1, MergeFacts
<1>4. Merge(Merge(s, ch), a).on = Merge(s, Merge(ch, a)).on BY <1>1, MergeFacts
<1> QED BY <1>2, <1>3, <1>4, SameChange

\* A change that gives nothing changes nothing.
LEMMA MergeNothing == ASSUME NEW s \in Change PROVE Merge(s, NoAsk) = s
<1>1. NoAsk \in Change BY SettingFacts
<1>2. NoAsk.power = None /\ NoAsk.on = None BY DEF NoAsk
<1> QED BY <1>1, <1>2, MergeFacts, SameChange

\* Nothing runs initially, and nothing was asked for.
LEMMA EmitInit == Init => EmitInv
BY MergeNothing, SettingFacts DEF Init, EmitInv

\* Every step keeps request, live changes and process together.
LEMMA EmitStep == TypeInv /\ EmitInv /\ [Next]_vars => EmitInv'
<1> SUFFICES ASSUME TypeInv, EmitInv, [Next]_vars PROVE EmitInv' OBVIOUS
<1> USE DEF TypeInv, CallTypes, SlotTypes, PhaseInv, EmitInv
<1> USE DEF At, To, callVars, slotVars, chainVars, bounds, Coroutine
<1>1. ASSUME NEW c \in Call, NEW k \in Kinds, NEW t \in Task, NEW s \in Launches,
             BeginLaunch(c, k, t, s)
      PROVE  EmitInv'
  BY <1>1 DEF BeginLaunch, Arrive
<1>2. ASSUME NEW c \in Call, NEW t \in Task, NEW ch \in Tunes, BeginTune(c, t, ch)
      PROVE  EmitInv'
  BY <1>2 DEF BeginTune
<1>3. ASSUME NEW c \in Call, NEW t \in Task, BeginStop(c, t) PROVE EmitInv'
  BY <1>3 DEF BeginStop
<1>4. ASSUME NEW c \in Call, BeginPanic(c) PROVE EmitInv'
  BY <1>4 DEF BeginPanic
<1>5. ASSUME NEW c \in Call, PanicNext(c) PROVE EmitInv'
  BY <1>5 DEF PanicNext, Ends
<1>6. ASSUME NEW c \in Call, NEW keep \in SUBSET Task, Reload(c, keep) PROVE EmitInv'
  BY <1>6 DEF Reload, Ends
<1>7. ASSUME NEW c \in Call, ShotExits(c) PROVE EmitInv'
  BY <1>7 DEF ShotExits
<1>8. ASSUME NEW c \in Call \cup Watch, PreCommand(c) PROVE EmitInv'
  BY <1>8 DEF PreCommand, Send, NoSend, Ends
<1>9. ASSUME NEW c \in Call \cup Watch, SetDone(c) PROVE EmitInv'
  BY <1>9 DEF SetDone
<1>10. ASSUME NEW c \in Call \cup Watch, SetFails(c) PROVE EmitInv'
  BY <1>10 DEF SetFails, Ends
<1>11. ASSUME NEW c \in Call \cup Watch, Launch(c) PROVE EmitInv'
  <2> DEFINE t == job[c].task
  <2>1. CASE UNCHANGED <<req, live, emits>> BY <2>1
  <2>2. CASE /\ req' = [req EXCEPT ![t] = job[c].ask] /\ live' = [live EXCEPT ![t] = NoAsk]
             /\ emits' = [emits EXCEPT ![t] = job[c].ask]
    <3>1. Merge(job[c].ask, NoAsk) = job[c].ask BY MergeNothing DEF Jobs
    <3> QED BY <2>2, <3>1
  <2> QED BY <1>11, <2>1, <2>2 DEF Launch
<1>12. ASSUME NEW c \in Call \cup Watch, Spawned(c) PROVE EmitInv'
  BY <1>12 DEF Spawned, Ends
<1>13. ASSUME NEW c \in Call \cup Watch, LaunchShot(c) PROVE EmitInv'
  BY <1>13 DEF LaunchShot
<1>14. ASSUME NEW c \in Call \cup Watch, ShotSpawned(c) PROVE EmitInv'
  BY <1>14 DEF ShotSpawned, Ends
<1>15. ASSUME NEW c \in Call \cup Watch, Tune(c) PROVE EmitInv'
  BY <1>15 DEF Tune, Ends
<1>16. ASSUME NEW c \in Call \cup Watch, Tuned(c) PROVE EmitInv'
  <2> DEFINE t == job[c].task
  <2>1. CASE UNCHANGED <<req, live, emits>> BY <2>1
  <2>2. ASSUME NEW a \in Change, UNCHANGED req, live' = [live EXCEPT ![t] = Merge(live[t], a)],
               emits' = [emits EXCEPT ![t] = Merge(emits[t], a)]
        PROVE  EmitInv'
    <3>1. ASSUME t \in Task PROVE Merge(req[t], Merge(live[t], a)) = Merge(emits[t], a)
      BY <3>1, MergeAssociates
    <3> QED BY <2>2, <3>1
  <2>3. \A R : Applied(job[c].ask, R) \in Change
    <3>1. job[c].ask \in Change BY DEF Jobs
    <3> QED BY <3>1 DEF Applied, Change
  <2> QED BY <1>16, <2>1, <2>2, <2>3 DEF Tuned
<1>17. ASSUME NEW c \in Call \cup Watch, StopSignals(c) PROVE EmitInv'
  BY <1>17 DEF StopSignals
<1>18. ASSUME NEW c \in Call \cup Watch, StopMutes(c) PROVE EmitInv'
  BY <1>18 DEF StopMutes, MuteChain, Send, NoSend
<1>19. ASSUME NEW c \in Call \cup Watch, Stopped(c) PROVE EmitInv'
  BY <1>19 DEF Stopped
<1>20. ASSUME NEW c \in Call \cup Watch, AfterFault(c) PROVE EmitInv'
  BY <1>20 DEF AfterFault, MuteChain, Send, NoSend
<1>21. ASSUME NEW c \in Call \cup Watch, StartReset(c) PROVE EmitInv'
  BY <1>21 DEF StartReset
<1>22. ASSUME NEW c \in Call \cup Watch, Relaunch(c) PROVE EmitInv'
  BY <1>22 DEF Relaunch, Arrive, Ends
<1>23. ASSUME NEW t \in Task, Exit(t) PROVE EmitInv'
  BY <1>23 DEF Exit
<1>24. ASSUME NEW t \in Task, Fault(t) PROVE EmitInv'
  BY <1>24 DEF Fault
<1>25. ASSUME LateSet PROVE EmitInv'
  BY <1>25 DEF LateSet
<1>26. ASSUME ProbeBegins PROVE EmitInv'
  BY <1>26 DEF ProbeBegins
<1>27. ASSUME NEW p \in {Boot, Reset}, ProbeEnds(p) PROVE EmitInv'
  BY <1>27 DEF ProbeEnds
<1>28. ASSUME UNCHANGED vars PROVE EmitInv'
  BY <1>28 DEF vars
<1> QED BY <1>1, <1>2, <1>3, <1>4, <1>5, <1>6, <1>7, <1>8, <1>9, <1>10, <1>11, <1>12,
           <1>13, <1>14, <1>15, <1>16, <1>17, <1>18, <1>19, <1>20, <1>21, <1>22, <1>23,
           <1>24, <1>25, <1>26, <1>27, <1>28 DEF Next, Step

\* What LevelRestored says of one step.
RelaunchesSo == \A t \in Task : Relaunches(t) => job'[W(t)].ask = emits[t]

\* Every relaunch asks for what the task's process was set to.
LEMMA RelaunchAction == TypeInv /\ EmitInv /\ [Next]_vars => RelaunchesSo
<1> SUFFICES ASSUME TypeInv, EmitInv, [Next]_vars PROVE RelaunchesSo OBVIOUS
<1> SUFFICES ASSUME NEW u \in Task, Relaunches(u) PROVE job'[W(u)].ask = emits[u]
  BY DEF RelaunchesSo
<1> USE CoroutineAssumption, WatchFacts DEF TypeInv, CallTypes, PhaseInv, ClassInv
<1> USE DEF Relaunches, At, To, callVars, Coroutine
<1>1. ASSUME NEW c \in Call, NEW k \in Kinds, NEW t \in Task, NEW s \in Launches,
             BeginLaunch(c, k, t, s)
      PROVE  job'[W(u)].ask = emits[u]
  BY <1>1 DEF BeginLaunch, Arrive
<1>2. ASSUME NEW c \in Call, NEW t \in Task, NEW ch \in Tunes, BeginTune(c, t, ch)
      PROVE  job'[W(u)].ask = emits[u]
  BY <1>2 DEF BeginTune
<1>3. ASSUME NEW c \in Call, NEW t \in Task, BeginStop(c, t)
      PROVE  job'[W(u)].ask = emits[u]
  BY <1>3 DEF BeginStop
<1>4. ASSUME NEW c \in Call, BeginPanic(c) PROVE job'[W(u)].ask = emits[u]
  BY <1>4 DEF BeginPanic
<1>5. ASSUME NEW c \in Call, PanicNext(c) PROVE job'[W(u)].ask = emits[u]
  BY <1>5 DEF PanicNext, Ends
<1>6. ASSUME NEW c \in Call, NEW keep \in SUBSET Task, Reload(c, keep)
      PROVE  job'[W(u)].ask = emits[u]
  BY <1>6 DEF Reload, Ends
<1>7. ASSUME NEW c \in Call, ShotExits(c) PROVE job'[W(u)].ask = emits[u]
  BY <1>7 DEF ShotExits
<1>8. ASSUME NEW c \in Call \cup Watch, PreCommand(c) PROVE job'[W(u)].ask = emits[u]
  BY <1>8 DEF PreCommand, Send, NoSend, Ends
<1>9. ASSUME NEW c \in Call \cup Watch, SetDone(c) PROVE job'[W(u)].ask = emits[u]
  BY <1>9 DEF SetDone
<1>10. ASSUME NEW c \in Call \cup Watch, SetFails(c) PROVE job'[W(u)].ask = emits[u]
  BY <1>10 DEF SetFails, Ends
<1>11. ASSUME NEW c \in Call \cup Watch, Launch(c) PROVE job'[W(u)].ask = emits[u]
  BY <1>11 DEF Launch, Ends
<1>12. ASSUME NEW c \in Call \cup Watch, Spawned(c) PROVE job'[W(u)].ask = emits[u]
  BY <1>12 DEF Spawned, Ends
<1>13. ASSUME NEW c \in Call \cup Watch, LaunchShot(c) PROVE job'[W(u)].ask = emits[u]
  BY <1>13 DEF LaunchShot
<1>14. ASSUME NEW c \in Call \cup Watch, ShotSpawned(c) PROVE job'[W(u)].ask = emits[u]
  BY <1>14 DEF ShotSpawned, Ends
<1>15. ASSUME NEW c \in Call \cup Watch, Tune(c) PROVE job'[W(u)].ask = emits[u]
  BY <1>15 DEF Tune, Ends
<1>16. ASSUME NEW c \in Call \cup Watch, Tuned(c) PROVE job'[W(u)].ask = emits[u]
  BY <1>16 DEF Tuned, Ends
<1>17. ASSUME NEW c \in Call \cup Watch, StopSignals(c) PROVE job'[W(u)].ask = emits[u]
  BY <1>17 DEF StopSignals
<1>18. ASSUME NEW c \in Call \cup Watch, StopMutes(c) PROVE job'[W(u)].ask = emits[u]
  BY <1>18 DEF StopMutes, MuteChain, Send, NoSend
<1>19. ASSUME NEW c \in Call \cup Watch, Stopped(c) PROVE job'[W(u)].ask = emits[u]
  BY <1>19 DEF Stopped
<1>20. ASSUME NEW c \in Call \cup Watch, AfterFault(c) PROVE job'[W(u)].ask = emits[u]
  BY <1>20 DEF AfterFault, MuteChain, Send, NoSend
<1>21. ASSUME NEW c \in Call \cup Watch, StartReset(c) PROVE job'[W(u)].ask = emits[u]
  BY <1>21 DEF StartReset
<1>22. ASSUME NEW c \in Call \cup Watch, Relaunch(c) PROVE job'[W(u)].ask = emits[u]
  <2>1. c = W(u) /\ job[c].task = u BY <1>22 DEF Relaunch, Ends, Arrive
  <2>2. job'[c].ask = Overlay(u) BY <1>22, <2>1 DEF Relaunch, Ends
  <2> QED BY <2>1, <2>2 DEF Overlay, EmitInv
<1>23. ASSUME NEW t \in Task, Exit(t) PROVE job'[W(u)].ask = emits[u]
  BY <1>23 DEF Exit
<1>24. ASSUME NEW t \in Task, Fault(t) PROVE job'[W(u)].ask = emits[u]
  BY <1>24 DEF Fault
<1>25. ASSUME LateSet PROVE job'[W(u)].ask = emits[u]
  BY <1>25 DEF LateSet
<1>26. ASSUME ProbeBegins PROVE job'[W(u)].ask = emits[u]
  BY <1>26 DEF ProbeBegins
<1>27. ASSUME NEW p \in {Boot, Reset}, ProbeEnds(p) PROVE job'[W(u)].ask = emits[u]
  BY <1>27 DEF ProbeEnds
<1>28. ASSUME UNCHANGED vars PROVE job'[W(u)].ask = emits[u]
  BY <1>28 DEF vars
<1> QED BY <1>1, <1>2, <1>3, <1>4, <1>5, <1>6, <1>7, <1>8, <1>9, <1>10, <1>11, <1>12,
           <1>13, <1>14, <1>15, <1>16, <1>17, <1>18, <1>19, <1>20, <1>21, <1>22, <1>23,
           <1>24, <1>25, <1>26, <1>27, <1>28 DEF Next, Step

\* An unattended relaunch asks for exactly what the faulted process was set to, however
\* many tunes it had taken or rejected (overlay_live_params in relaunch).
THEOREM LevelRestoredHolds == Spec => LevelRestored
<1>1. Init => TypeInv /\ EmitInv BY TypeInit, EmitInit
<1>2. TypeInv /\ EmitInv /\ [Next]_vars => (TypeInv /\ EmitInv)' BY TypeStep, EmitStep
<1>3. TypeInv /\ EmitInv /\ [Next]_vars
        => [\A t \in Task : Relaunches(t) => job'[W(t)].ask = emits[t]]_vars
  BY RelaunchAction DEF RelaunchesSo
<1> QED BY <1>1, <1>2, <1>3, PTL DEF Spec, LevelRestored

-----------------------------------------------------------------------------
(* The remembered position *)

\* While sets do not overlap and none lands late there is at most one under way, during
\* which the position is not known; otherwise what is known of it is right.
CacheInv ==
  ~strayed =>
    /\ \A c, d \in InFlight : c = d
    /\ InFlight # {} => last = None
    /\ last \in {None, chain}

\* Nothing is known of the position initially.
LEMMA CacheInit == Init => CacheInv
BY DEF Init, CacheInv, InFlight

\* Sending a set keeps the cache's invariant.
LEMMA CacheSend ==
  ASSUME TypeInv, CacheInv, NEW c \in Coroutine, NEW v, Send(c, v)
  PROVE  CacheInv'
<1> USE DEF TypeInv, CallTypes, CacheInv, Send, To
<1>1. SUFFICES ASSUME InFlight = {} PROVE CacheInv' OBVIOUS
<1>2. InFlight' = {c} BY <1>1 DEF InFlight
<1>3. last' = None BY DEF Forgotten
<1> QED BY <1>2, <1>3

\* Every step keeps the cache's invariant.
LEMMA CacheStep == TypeInv /\ CacheInv /\ [Next]_vars => CacheInv'
<1> SUFFICES ASSUME TypeInv, CacheInv, [Next]_vars PROVE CacheInv' OBVIOUS
<1> USE CoroutineAssumption, WatchFacts
  DEF TypeInv, CallTypes, ClassInv, CacheInv, InFlight, Forgotten
<1> USE DEF At, To, callVars, slotVars, chainVars, bounds, Coroutine
<1>1. ASSUME NEW c \in Call, NEW k \in Kinds, NEW t \in Task, NEW s \in Launches,
             BeginLaunch(c, k, t, s)
      PROVE  CacheInv'
  BY <1>1 DEF BeginLaunch, Arrive
<1>2. ASSUME NEW c \in Call, NEW t \in Task, NEW ch \in Tunes, BeginTune(c, t, ch)
      PROVE  CacheInv'
  BY <1>2 DEF BeginTune
<1>3. ASSUME NEW c \in Call, NEW t \in Task, BeginStop(c, t) PROVE CacheInv'
  BY <1>3 DEF BeginStop
<1>4. ASSUME NEW c \in Call, BeginPanic(c) PROVE CacheInv'
  BY <1>4 DEF BeginPanic
<1>5. ASSUME NEW c \in Call, PanicNext(c) PROVE CacheInv'
  BY <1>5 DEF PanicNext, Ends
<1>6. ASSUME NEW c \in Call, NEW keep \in SUBSET Task, Reload(c, keep) PROVE CacheInv'
  BY <1>6 DEF Reload, Ends
<1>7. ASSUME NEW c \in Call, ShotExits(c) PROVE CacheInv'
  BY <1>7 DEF ShotExits
<1>8. ASSUME NEW c \in Call \cup Watch, PreCommand(c) PROVE CacheInv'
  <2>1. CASE \E v : Send(c, v) BY <2>1, CacheSend
  <2>2. CASE ~\E v : Send(c, v)
    BY <1>8, <2>2 DEF PreCommand, NoSend, Ends
  <2> QED BY <2>1, <2>2
<1>9. ASSUME NEW c \in Call \cup Watch, SetDone(c) PROVE CacheInv'
  BY <1>9 DEF SetDone
<1>10. ASSUME NEW c \in Call \cup Watch, SetFails(c) PROVE CacheInv'
  BY <1>10 DEF SetFails, Ends
<1>11. ASSUME NEW c \in Call \cup Watch, Launch(c) PROVE CacheInv'
  BY <1>11 DEF Launch, Ends
<1>12. ASSUME NEW c \in Call \cup Watch, Spawned(c) PROVE CacheInv'
  BY <1>12 DEF Spawned, Ends
<1>13. ASSUME NEW c \in Call \cup Watch, LaunchShot(c) PROVE CacheInv'
  BY <1>13 DEF LaunchShot
<1>14. ASSUME NEW c \in Call \cup Watch, ShotSpawned(c) PROVE CacheInv'
  BY <1>14 DEF ShotSpawned, Ends
<1>15. ASSUME NEW c \in Call \cup Watch, Tune(c) PROVE CacheInv'
  BY <1>15 DEF Tune, Ends
<1>16. ASSUME NEW c \in Call \cup Watch, Tuned(c) PROVE CacheInv'
  BY <1>16 DEF Tuned, Ends
<1>17. ASSUME NEW c \in Call \cup Watch, StopSignals(c) PROVE CacheInv'
  BY <1>17 DEF StopSignals
<1>18. ASSUME NEW c \in Call \cup Watch, StopMutes(c) PROVE CacheInv'
  <2>1. CASE \E v : Send(c, v) BY <2>1, CacheSend
  <2>2. CASE ~\E v : Send(c, v)
    BY <1>18, <2>2 DEF StopMutes, MuteChain, NoSend, Ends
  <2> QED BY <2>1, <2>2
<1>19. ASSUME NEW c \in Call \cup Watch, Stopped(c) PROVE CacheInv'
  BY <1>19 DEF Stopped
<1>20. ASSUME NEW c \in Call \cup Watch, AfterFault(c) PROVE CacheInv'
  <2>1. CASE \E v : Send(c, v) BY <2>1, CacheSend
  <2>2. CASE ~\E v : Send(c, v)
    BY <1>20, <2>2 DEF AfterFault, MuteChain, NoSend, Ends
  <2> QED BY <2>1, <2>2
<1>21. ASSUME NEW c \in Call \cup Watch, StartReset(c) PROVE CacheInv'
  BY <1>21 DEF StartReset
<1>22. ASSUME NEW c \in Call \cup Watch, Relaunch(c) PROVE CacheInv'
  BY <1>22 DEF Relaunch, Arrive, Ends
<1>23. ASSUME NEW t \in Task, Exit(t) PROVE CacheInv'
  BY <1>23 DEF Exit
<1>24. ASSUME NEW t \in Task, Fault(t) PROVE CacheInv'
  BY <1>24 DEF Fault
<1>25. ASSUME LateSet PROVE CacheInv'
  BY <1>25 DEF LateSet
<1>26. ASSUME ProbeBegins PROVE CacheInv'
  BY <1>26 DEF ProbeBegins
<1>27. ASSUME NEW p \in {Boot, Reset}, ProbeEnds(p) PROVE CacheInv'
  BY <1>27 DEF ProbeEnds
<1>28. ASSUME UNCHANGED vars PROVE CacheInv'
  BY <1>28 DEF vars
<1> QED BY <1>1, <1>2, <1>3, <1>4, <1>5, <1>6, <1>7, <1>8, <1>9, <1>10, <1>11, <1>12,
           <1>13, <1>14, <1>15, <1>16, <1>17, <1>18, <1>19, <1>20, <1>21, <1>22, <1>23,
           <1>24, <1>25, <1>26, <1>27, <1>28 DEF Next, Step

\* What _active_last remembers is where the attenuator is, unless sets
\* overlap or land late.
THEOREM CacheTrueHolds == Spec => []CacheTrue
<1>1. Init => TypeInv /\ CacheInv BY TypeInit, CacheInit
<1>2. TypeInv /\ CacheInv /\ [Next]_vars => (TypeInv /\ CacheInv)'
  BY TypeStep, CacheStep
<1>3. CacheInv => CacheTrue BY DEF CacheInv, CacheTrue
<1> QED BY <1>1, <1>2, <1>3, PTL DEF Spec
-----------------------------------------------------------------------------
(* Whoever transmits does so behind its own attenuation, and the chain is  *)
(* muted once nobody does.                                                 *)

\* Whoever moves the chain, or goes on to use it as it moved it.
Active == {c \in Coroutine : pc[c] \in {"set", "ready", "spawn", "rpc"}}

\* While it is known whom the chain serves at most one coroutine is at it.
SoleInv == owner # NoTask => ~strayed /\ \A c, d \in Active : c = d

\* Initially the chain serves nobody.
LEMMA SoleInit == Init => SoleInv
BY DEF Init, SoleInv

\* Who comes to the chain in peace finds nobody at it.
LEMMA PeaceIsSole ==
  ASSUME TypeInv, NEW c \in Coroutine, InPeace(c), pc[c] \notin {"set", "ready", "spawn", "rpc"}
  PROVE  Active = {} /\ InFlight = {}
BY DEF Active, InFlight, InPeace, Working

\* Who sends a set in peace is alone at the chain; else its owner is in doubt.
LEMMA SoleSend ==
  ASSUME TypeInv, SoleInv, NEW c \in Coroutine, pc[c] \notin {"set", "ready", "spawn", "rpc"},
         NEW v, Send(c, v)
  PROVE  SoleInv'
<1> USE DEF TypeInv, CallTypes, Send, To, SoleInv
<1>1. CASE InPeace(c)
  <2>1. Active' = {c} BY <1>1, PeaceIsSole DEF Active
  <2>2. ~strayed' BY <1>1, PeaceIsSole
  <2> QED BY <2>1, <2>2
<1>2. CASE ~InPeace(c)
  <2>1. owner' = OwnerAfter(c, v) OBVIOUS
  <2>2. OwnerAfter(c, v) = NoTask BY <1>2 DEF OwnerAfter
  <2> QED BY <2>1, <2>2
<1> QED BY <1>1, <1>2

\* Who leaves the chain alone in peace is alone at it.
LEMMA SoleNoSend ==
  ASSUME TypeInv, SoleInv, NEW c \in Coroutine, pc[c] \notin {"set", "ready", "spawn", "rpc"},
         NEW o, NoSend(c, o), o # NoTask => owner # NoTask
  PROVE  SoleInv'
<1> USE DEF TypeInv, CallTypes, NoSend, To, SoleInv
<1>1. CASE InPeace(c)
  <2>1. Active' = {c} BY <1>1, PeaceIsSole DEF Active
  <2> QED BY <1>1, <2>1
<1>2. CASE ~InPeace(c)
  BY <1>2
<1> QED BY <1>1, <1>2

\* Every step keeps the chain to one coroutine, or its owner in doubt.
LEMMA SoleStep == TypeInv /\ SoleInv /\ [Next]_vars => SoleInv'
<1> SUFFICES ASSUME TypeInv, SoleInv, [Next]_vars PROVE SoleInv' OBVIOUS
<1> USE CoroutineAssumption, WatchFacts
  DEF TypeInv, CallTypes, ClassInv, SoleInv, Active
<1> USE DEF At, To, callVars, slotVars, chainVars, bounds, Coroutine
<1>1. ASSUME NEW c \in Call, NEW k \in Kinds, NEW t \in Task, NEW s \in Launches,
             BeginLaunch(c, k, t, s)
      PROVE  SoleInv'
  BY <1>1 DEF BeginLaunch, Arrive
<1>2. ASSUME NEW c \in Call, NEW t \in Task, NEW ch \in Tunes, BeginTune(c, t, ch)
      PROVE  SoleInv'
  BY <1>2 DEF BeginTune
<1>3. ASSUME NEW c \in Call, NEW t \in Task, BeginStop(c, t) PROVE SoleInv'
  BY <1>3 DEF BeginStop
<1>4. ASSUME NEW c \in Call, BeginPanic(c) PROVE SoleInv'
  BY <1>4 DEF BeginPanic
<1>5. ASSUME NEW c \in Call, PanicNext(c) PROVE SoleInv'
  BY <1>5 DEF PanicNext, Ends
<1>6. ASSUME NEW c \in Call, NEW keep \in SUBSET Task, Reload(c, keep) PROVE SoleInv'
  BY <1>6 DEF Reload, Ends
<1>7. ASSUME NEW c \in Call, ShotExits(c) PROVE SoleInv'
  BY <1>7 DEF ShotExits
<1>8. ASSUME NEW c \in Call \cup Watch, PreCommand(c) PROVE SoleInv'
  <2>0. pc[c] \notin {"set", "ready", "spawn", "rpc"} /\ c \in Coroutine
    BY <1>8 DEF PreCommand
  <2>1. CASE \E v : Send(c, v) BY <2>0, <2>1, SoleSend
  <2>2. CASE \E o : NoSend(c, o) /\ (o # NoTask => owner # NoTask)
    BY <2>0, <2>2, SoleNoSend
  <2>3. CASE ~(\E v : Send(c, v)) /\ ~(\E o : NoSend(c, o) /\ (o # NoTask => owner # NoTask))
    BY <1>8, <2>3 DEF PreCommand, Ends
  <2> QED BY <2>1, <2>2, <2>3
<1>9. ASSUME NEW c \in Call \cup Watch, SetDone(c) PROVE SoleInv'
  BY <1>9 DEF SetDone
<1>10. ASSUME NEW c \in Call \cup Watch, SetFails(c) PROVE SoleInv'
  BY <1>10 DEF SetFails, Ends
<1>11. ASSUME NEW c \in Call \cup Watch, Launch(c) PROVE SoleInv'
  BY <1>11 DEF Launch, Ends
<1>12. ASSUME NEW c \in Call \cup Watch, Spawned(c) PROVE SoleInv'
  BY <1>12 DEF Spawned, Ends
<1>13. ASSUME NEW c \in Call \cup Watch, LaunchShot(c) PROVE SoleInv'
  BY <1>13 DEF LaunchShot
<1>14. ASSUME NEW c \in Call \cup Watch, ShotSpawned(c) PROVE SoleInv'
  BY <1>14 DEF ShotSpawned, Ends
<1>15. ASSUME NEW c \in Call \cup Watch, Tune(c) PROVE SoleInv'
  BY <1>15 DEF Tune, Ends
<1>16. ASSUME NEW c \in Call \cup Watch, Tuned(c) PROVE SoleInv'
  BY <1>16 DEF Tuned, Ends
<1>17. ASSUME NEW c \in Call \cup Watch, StopSignals(c) PROVE SoleInv'
  BY <1>17 DEF StopSignals
<1>18. ASSUME NEW c \in Call \cup Watch, StopMutes(c) PROVE SoleInv'
  <2>0. pc[c] \notin {"set", "ready", "spawn", "rpc"} /\ c \in Coroutine
    BY <1>18 DEF StopMutes
  <2>1. CASE \E v : Send(c, v) BY <2>0, <2>1, SoleSend
  <2>2. CASE \E o : NoSend(c, o) /\ (o # NoTask => owner # NoTask)
    BY <2>0, <2>2, SoleNoSend
  <2>3. CASE ~(\E v : Send(c, v)) /\ ~(\E o : NoSend(c, o) /\ (o # NoTask => owner # NoTask))
    BY <1>18, <2>3 DEF StopMutes, MuteChain, LeftTo, Ends
  <2> QED BY <2>1, <2>2, <2>3
<1>19. ASSUME NEW c \in Call \cup Watch, Stopped(c) PROVE SoleInv'
  BY <1>19 DEF Stopped
<1>20. ASSUME NEW c \in Call \cup Watch, AfterFault(c) PROVE SoleInv'
  <2>0. pc[c] \notin {"set", "ready", "spawn", "rpc"} /\ c \in Coroutine
    BY <1>20 DEF AfterFault
  <2>1. CASE \E v : Send(c, v) BY <2>0, <2>1, SoleSend
  <2>2. CASE \E o : NoSend(c, o) /\ (o # NoTask => owner # NoTask)
    BY <2>0, <2>2, SoleNoSend
  <2>3. CASE ~(\E v : Send(c, v)) /\ ~(\E o : NoSend(c, o) /\ (o # NoTask => owner # NoTask))
    BY <1>20, <2>3 DEF AfterFault, MuteChain, LeftTo, Ends
  <2> QED BY <2>1, <2>2, <2>3
<1>21. ASSUME NEW c \in Call \cup Watch, StartReset(c) PROVE SoleInv'
  BY <1>21 DEF StartReset
<1>22. ASSUME NEW c \in Call \cup Watch, Relaunch(c) PROVE SoleInv'
  BY <1>22 DEF Relaunch, Arrive, Ends
<1>23. ASSUME NEW t \in Task, Exit(t) PROVE SoleInv'
  BY <1>23 DEF Exit
<1>24. ASSUME NEW t \in Task, Fault(t) PROVE SoleInv'
  BY <1>24 DEF Fault
<1>25. ASSUME LateSet PROVE SoleInv'
  BY <1>25 DEF LateSet
<1>26. ASSUME ProbeBegins PROVE SoleInv'
  BY <1>26 DEF ProbeBegins
<1>27. ASSUME NEW p \in {Boot, Reset}, ProbeEnds(p) PROVE SoleInv'
  BY <1>27 DEF ProbeEnds
<1>28. ASSUME UNCHANGED vars PROVE SoleInv'
  BY <1>28 DEF vars
<1> QED BY <1>1, <1>2, <1>3, <1>4, <1>5, <1>6, <1>7, <1>8, <1>9, <1>10, <1>11, <1>12,
           <1>13, <1>14, <1>15, <1>16, <1>17, <1>18, <1>19, <1>20, <1>21, <1>22, <1>23,
           <1>24, <1>25, <1>26, <1>27, <1>28 DEF Next, Step

\* A launch, or a tune, of task t for which c has moved the chain or is doing so.
PendsLaunch(c, t) ==
  job[c].task = t /\ job[c].kind \in {"start", "relaunch"} /\ pc[c] \in {"set", "ready"}
PendsTune(c, t) ==
  job[c].task = t /\ (pc[c] = "rpc" \/ (job[c].kind = "tune" /\ pc[c] \in {"set", "ready"}))
Pends(c, t) == PendsLaunch(c, t) \/ PendsTune(c, t)

\* What it means that the chain serves t.
Owned(t) ==
  /\ t \in Calibrated /\ gateState[t] \in Setting
  /\ \A c \in InFlight : cmd[c] = Target(t, gateState[t]) /\ Pends(c, t)
  /\ InFlight = {} => chain = Target(t, gateState[t])
  /\ \A c \in Coroutine : PendsLaunch(c, t) => gateState[t] = job[c].ask
  /\ \A c \in Coroutine : PendsTune(c, t) => gateState[t] = Merge(emits[t], job[c].ask)
  /\ (\A c \in Coroutine : ~Pends(c, t)) => gateState[t] = emits[t]

\* The owner's level is at the chain, or on its way there.
LevelInv == \A t \in Task : owner = t => Owned(t)

\* What it means that the chain was muted.
MutedInv ==
  owner = "muted" =>
    /\ \A c \in InFlight : cmd[c] = Mute
    /\ InFlight = {} => chain = Mute

\* A slot that stops is awaited by the call that stops it.
StopInv ==
  \A t \in Task : slot[t] = "stopping" =>
    \E c \in Call : pc[c] = "stopping" /\ job[c].task = t

\* Somebody is about to mute the chain of a task that is off, or to launch it.
Attends(c, t) == (pc[c] \in {"stopping", "flag"} /\ job[c].task = t) \/ Pends(c, t)
OffInv ==
  \A t \in Task : owner = t /\ slot[t] = "off" => \E c \in Coroutine : Attends(c, t)

\* Initially the chain serves nobody and nothing stops.
LEMMA RestInit == Init => MutedInv /\ StopInv /\ OffInv /\ LevelInv
BY RadioAssumption DEF Init, MutedInv, StopInv, OffInv, LevelInv

\* Who leaves the chain alone leaves its owner alone, or in doubt.
LEMMA NoSendOwner ==
  ASSUME NEW c, NEW o, NoSend(c, o)
  PROVE  owner' \in {o, NoTask} /\ (owner' # NoTask => InPeace(c))
BY DEF NoSend

\* Whom the chain serves after a set: a stop mutes it, a launch or a tune of the task it
\* serves makes it that task's, and only in peace.
LEMMA SendOwner ==
  ASSUME TypeInv, NEW c \in Coroutine, NEW v, Send(c, v)
  PROVE  /\ job[c].kind \in {"stop", "panic", "after"} => owner' \in {"muted", NoTask}
         /\ job[c].kind \in Launched \cup {"tune"} => owner' \in {job[c].task, NoTask}
         /\ owner' # NoTask => InPeace(c)
         /\ owner' \notin {"muted", NoTask} =>
              job[c].kind \in {"start", "relaunch"} \/ (job[c].kind = "tune" /\ owner = job[c].task)
         /\ owner' = "muted" /\ job[c].task \in Task => v = Mute
<1> DEFINE t == job[c].task
<1>1. owner' = OwnerAfter(c, v) BY DEF Send
<1> USE RadioAssumption DEF Launched
<1>2. CASE ~InPeace(c)
  <2>1. owner' = NoTask BY <1>1, <1>2 DEF OwnerAfter
  <2> QED BY <2>1
<1>3. CASE InPeace(c)
  <2>1. CASE job[c].kind \in {"start", "relaunch"}
    <3>1. owner' = t BY <1>1, <1>3, <2>1 DEF OwnerAfter
    <3>2. job[c].kind \notin {"stop", "panic", "after", "tune"} BY <2>1
    <3> QED BY <1>3, <2>1, <3>1, <3>2
  <2>2. CASE job[c].kind = "tune" /\ owner = t
    <3>1. owner' = t BY <1>1, <1>3, <2>2 DEF OwnerAfter
    <3> QED BY <1>3, <2>2, <3>1
  <2>3. CASE job[c].kind \in {"stop", "panic", "after"} /\ v = Mute
    <3>1. owner' = "muted" BY <1>1, <1>3, <2>3 DEF OwnerAfter
    <3> QED BY <1>3, <2>3, <3>1
  <2>4. CASE /\ job[c].kind \notin {"start", "relaunch"} /\ ~(job[c].kind = "tune" /\ owner = t)
             /\ ~(job[c].kind \in {"stop", "panic", "after"} /\ v = Mute)
    <3>1. owner' = NoTask BY <1>1, <1>3, <2>4 DEF OwnerAfter
    <3> QED BY <3>1
  <2> QED BY <2>1, <2>2, <2>3, <2>4
<1> QED BY <1>2, <1>3

\* mute_chain mutes the chain unless another task is live; then the task that stops
\* is not served by it any more.
LEMMA MuteChainCases ==
  ASSUME TypeInv, NEW c \in Coroutine, NEW t \in Task, MuteChain(c, t)
  PROVE  \/ Send(c, Mute)
         \/ \E o : NoSend(c, o) /\ o \in {owner, NoTask}
                     /\ (o = t => t \notin Calibrated)
<1>1. CASE t \notin Calibrated BY <1>1 DEF MuteChain
<1>2. CASE t \in Calibrated /\ OtherLive(t)
  <2>1. NoSend(c, LeftTo(t)) BY <1>2 DEF MuteChain
  <2>2. LeftTo(t) \in {owner, NoTask} BY DEF LeftTo
  <2>3. LeftTo(t) # t BY <1>2, RadioAssumption DEF LeftTo, OtherLive, IsLive
  <2> QED BY <2>1, <2>2, <2>3
<1>3. CASE t \in Calibrated /\ ~OtherLive(t) BY <1>3 DEF MuteChain
<1> QED BY <1>1, <1>2, <1>3

\* What a relaunch leaves alone.
LEMMA RelaunchFrame ==
  ASSUME TypeInv, NEW c \in Call \cup Watch, Relaunch(c)
  PROVE  /\ c \in Watch /\ pc[c] = "delay" /\ pc'[c] \in {"done", "gate", "through"}
         /\ \A d \in Coroutine \ {c} : pc'[d] = pc[d] /\ job'[d] = job[d]
         /\ UNCHANGED <<slot, emits, gateState, cmd, chain, owner>>
<1> USE DEF TypeInv, CallTypes, Coroutine
<1>1. c \in Watch /\ pc[c] = "delay" BY DEF Relaunch, At, ClassInv, PhaseInv
<1>2. pc'[c] \in {"done", "gate", "through"} /\ \A d \in Coroutine \ {c} : pc'[d] = pc[d]
  BY DEF Relaunch, Arrive, Ends, To
<1>3. \A d \in Coroutine \ {c} : job'[d] = job[d] BY DEF Relaunch
<1> QED BY <1>1, <1>2, <1>3 DEF Relaunch, slotVars, chainVars

\* A step that leaves the chain alone, and who is at it, keeps the owner's level there.
LEMMA LevelKept ==
  ASSUME TypeInv, LevelInv, owner' \in {owner, NoTask}, UNCHANGED <<gateState, cmd, chain, emits>>,
         \A d \in Coroutine :
           \/ pc'[d] = pc[d] /\ job'[d] = job[d]
           \/ {pc[d], pc'[d]} \cap {"set", "ready", "rpc"} = {}
  PROVE  LevelInv'
<1>1. SUFFICES ASSUME NEW t \in Task, owner' = t PROVE Owned(t)' BY DEF LevelInv
<1>2. Owned(t) BY <1>1, RadioAssumption DEF LevelInv
<1>3. InFlight' = InFlight BY DEF InFlight
<1>4. \A d \in Coroutine : PendsLaunch(d, t)' = PendsLaunch(d, t) /\ PendsTune(d, t)' = PendsTune(d, t)
  BY DEF PendsLaunch, PendsTune
<1>5. \A d \in Coroutine : Pends(d, t)' = Pends(d, t) /\ (Pends(d, t) => job'[d] = job[d])
  BY <1>4 DEF Pends, PendsLaunch, PendsTune
<1>6. Target(t, gateState[t])' = Target(t, gateState[t]) BY DEF Target
<1> QED BY <1>2, <1>3, <1>4, <1>5, <1>6 DEF Owned, Pends, InFlight

\* Every step keeps a muted chain muted.
LEMMA MutedStep == TypeInv /\ SoleInv /\ MutedInv /\ [Next]_vars => MutedInv'
<1> SUFFICES ASSUME TypeInv, SoleInv, MutedInv, [Next]_vars PROVE MutedInv' OBVIOUS
<1> USE CoroutineAssumption, WatchFacts, RadioAssumption
  DEF TypeInv, CallTypes, SlotTypes, ChainTypes, ClassInv, MutedInv, SoleInv,
      InFlight, Active
<1> USE DEF At, To, callVars, slotVars, chainVars, bounds, Coroutine
<1>1. ASSUME NEW c \in Call, NEW k \in Kinds, NEW t \in Task, NEW s \in Launches,
             BeginLaunch(c, k, t, s)
      PROVE  MutedInv'
  BY <1>1 DEF BeginLaunch, Arrive
<1>2. ASSUME NEW c \in Call, NEW t \in Task, NEW ch \in Tunes, BeginTune(c, t, ch)
      PROVE  MutedInv'
  BY <1>2 DEF BeginTune
<1>3. ASSUME NEW c \in Call, NEW t \in Task, BeginStop(c, t) PROVE MutedInv'
  BY <1>3 DEF BeginStop
<1>4. ASSUME NEW c \in Call, BeginPanic(c) PROVE MutedInv'
  BY <1>4 DEF BeginPanic
<1>5. ASSUME NEW c \in Call, PanicNext(c) PROVE MutedInv'
  BY <1>5 DEF PanicNext, Ends
<1>6. ASSUME NEW c \in Call, NEW keep \in SUBSET Task, Reload(c, keep) PROVE MutedInv'
  BY <1>6 DEF Reload, Ends
<1>7. ASSUME NEW c \in Call, ShotExits(c) PROVE MutedInv'
  BY <1>7 DEF ShotExits
<1>8. ASSUME NEW c \in Call \cup Watch, PreCommand(c) PROVE MutedInv'
  <2>0. /\ pc[c] = "through" /\ job[c].task \in Task
        /\ job[c].kind \in Launched \cup {"tune"}
    BY <1>8 DEF PreCommand, PhaseInv, Busy
  <2>1. CASE \E v : Send(c, v)
    <3>1. owner' # "muted" BY <2>0, <2>1, SendOwner
    <3> QED BY <3>1
  <2>2. CASE NoSend(c, owner) BY <2>0, <2>2, NoSendOwner DEF NoSend
  <2>3. CASE UNCHANGED chainVars /\ Ends(c) BY <2>0, <2>3 DEF Ends
  <2> QED BY <1>8, <2>1, <2>2, <2>3 DEF PreCommand
<1>9. ASSUME NEW c \in Call \cup Watch, SetDone(c) PROVE MutedInv'
  BY <1>9 DEF SetDone
<1>10. ASSUME NEW c \in Call \cup Watch, SetFails(c) PROVE MutedInv'
  BY <1>10 DEF SetFails, Ends
<1>11. ASSUME NEW c \in Call \cup Watch, Launch(c) PROVE MutedInv'
  BY <1>11 DEF Launch, Ends
<1>12. ASSUME NEW c \in Call \cup Watch, Spawned(c) PROVE MutedInv'
  BY <1>12 DEF Spawned, Ends
<1>13. ASSUME NEW c \in Call \cup Watch, LaunchShot(c) PROVE MutedInv'
  BY <1>13 DEF LaunchShot
<1>14. ASSUME NEW c \in Call \cup Watch, ShotSpawned(c) PROVE MutedInv'
  BY <1>14 DEF ShotSpawned, Ends
<1>15. ASSUME NEW c \in Call \cup Watch, Tune(c) PROVE MutedInv'
  BY <1>15 DEF Tune, Ends
<1>16. ASSUME NEW c \in Call \cup Watch, Tuned(c) PROVE MutedInv'
  BY <1>16 DEF Tuned, Ends
<1>17. ASSUME NEW c \in Call \cup Watch, StopSignals(c) PROVE MutedInv'
  BY <1>17 DEF StopSignals
<1>18. ASSUME NEW c \in Call \cup Watch, StopMutes(c) PROVE MutedInv'
  <2>0. pc[c] = "stopping" /\ job[c].task \in Task /\ MuteChain(c, job[c].task)
    BY <1>18 DEF StopMutes, PhaseInv, Busy
  <2>1. CASE Send(c, Mute) BY <2>0, <2>1, SendOwner, PeaceIsSole DEF Send
  <2>2. CASE \E o : NoSend(c, o) /\ o \in {owner, NoTask}
    BY <2>0, <2>2, NoSendOwner DEF NoSend
  <2> QED BY <2>0, <2>1, <2>2, MuteChainCases
<1>19. ASSUME NEW c \in Call \cup Watch, Stopped(c) PROVE MutedInv'
  BY <1>19 DEF Stopped
<1>20. ASSUME NEW c \in Call \cup Watch, AfterFault(c) PROVE MutedInv'
  <2>0. pc[c] = "flag" /\ job[c].task \in Task /\ MuteChain(c, job[c].task)
    BY <1>20 DEF AfterFault, PhaseInv, Busy
  <2>1. CASE Send(c, Mute) BY <2>0, <2>1, SendOwner, PeaceIsSole DEF Send
  <2>2. CASE \E o : NoSend(c, o) /\ o \in {owner, NoTask}
    BY <2>0, <2>2, NoSendOwner DEF NoSend
  <2> QED BY <2>0, <2>1, <2>2, MuteChainCases
<1>21. ASSUME NEW c \in Call \cup Watch, StartReset(c) PROVE MutedInv'
  BY <1>21 DEF StartReset
<1>22. ASSUME NEW c \in Call \cup Watch, Relaunch(c) PROVE MutedInv'
  BY <1>22 DEF Relaunch, Arrive, Ends
<1>23. ASSUME NEW t \in Task, Exit(t) PROVE MutedInv'
  BY <1>23 DEF Exit
<1>24. ASSUME NEW t \in Task, Fault(t) PROVE MutedInv'
  BY <1>24 DEF Fault
<1>25. ASSUME LateSet PROVE MutedInv'
  BY <1>25 DEF LateSet
<1>26. ASSUME ProbeBegins PROVE MutedInv'
  BY <1>26 DEF ProbeBegins
<1>27. ASSUME NEW p \in {Boot, Reset}, ProbeEnds(p) PROVE MutedInv'
  BY <1>27 DEF ProbeEnds
<1>28. ASSUME UNCHANGED vars PROVE MutedInv'
  BY <1>28 DEF vars
<1> QED BY <1>1, <1>2, <1>3, <1>4, <1>5, <1>6, <1>7, <1>8, <1>9, <1>10, <1>11, <1>12,
           <1>13, <1>14, <1>15, <1>16, <1>17, <1>18, <1>19, <1>20, <1>21, <1>22, <1>23,
           <1>24, <1>25, <1>26, <1>27, <1>28 DEF Next, Step

\* Every step keeps a call at each slot that stops.
LEMMA StopStep == TypeInv /\ StopInv /\ [Next]_vars => StopInv'
<1> SUFFICES ASSUME TypeInv, StopInv, [Next]_vars PROVE StopInv' OBVIOUS
<1> USE CoroutineAssumption, WatchFacts
  DEF TypeInv, CallTypes, SlotTypes, PhaseInv, ClassInv, StopInv
<1> USE DEF At, To, callVars, slotVars, chainVars, bounds, Coroutine
<1>1. ASSUME NEW c \in Call, NEW k \in Kinds, NEW t \in Task, NEW s \in Launches,
             BeginLaunch(c, k, t, s)
      PROVE  StopInv'
  BY <1>1 DEF BeginLaunch, Arrive
<1>2. ASSUME NEW c \in Call, NEW t \in Task, NEW ch \in Tunes, BeginTune(c, t, ch)
      PROVE  StopInv'
  BY <1>2 DEF BeginTune
<1>3. ASSUME NEW c \in Call, NEW t \in Task, BeginStop(c, t) PROVE StopInv'
  BY <1>3 DEF BeginStop
<1>4. ASSUME NEW c \in Call, BeginPanic(c) PROVE StopInv'
  BY <1>4 DEF BeginPanic
<1>5. ASSUME NEW c \in Call, PanicNext(c) PROVE StopInv'
  BY <1>5 DEF PanicNext, Ends
<1>6. ASSUME NEW c \in Call, NEW keep \in SUBSET Task, Reload(c, keep) PROVE StopInv'
  BY <1>6 DEF Reload, Ends
<1>7. ASSUME NEW c \in Call, ShotExits(c) PROVE StopInv'
  BY <1>7 DEF ShotExits
<1>8. ASSUME NEW c \in Call \cup Watch, PreCommand(c) PROVE StopInv'
  BY <1>8 DEF PreCommand, Send, NoSend, Ends
<1>9. ASSUME NEW c \in Call \cup Watch, SetDone(c) PROVE StopInv'
  BY <1>9 DEF SetDone
<1>10. ASSUME NEW c \in Call \cup Watch, SetFails(c) PROVE StopInv'
  BY <1>10 DEF SetFails, Ends
<1>11. ASSUME NEW c \in Call \cup Watch, Launch(c) PROVE StopInv'
  BY <1>11 DEF Launch, Ends
<1>12. ASSUME NEW c \in Call \cup Watch, Spawned(c) PROVE StopInv'
  BY <1>12 DEF Spawned, Ends
<1>13. ASSUME NEW c \in Call \cup Watch, LaunchShot(c) PROVE StopInv'
  BY <1>13 DEF LaunchShot
<1>14. ASSUME NEW c \in Call \cup Watch, ShotSpawned(c) PROVE StopInv'
  BY <1>14 DEF ShotSpawned, Ends
<1>15. ASSUME NEW c \in Call \cup Watch, Tune(c) PROVE StopInv'
  BY <1>15 DEF Tune, Ends
<1>16. ASSUME NEW c \in Call \cup Watch, Tuned(c) PROVE StopInv'
  BY <1>16 DEF Tuned, Ends
<1>17. ASSUME NEW c \in Call \cup Watch, StopSignals(c) PROVE StopInv'
  BY <1>17 DEF StopSignals
<1>18. ASSUME NEW c \in Call \cup Watch, StopMutes(c) PROVE StopInv'
  BY <1>18 DEF StopMutes, MuteChain, Send, NoSend
<1>19. ASSUME NEW c \in Call \cup Watch, Stopped(c) PROVE StopInv'
  BY <1>19 DEF Stopped
<1>20. ASSUME NEW c \in Call \cup Watch, AfterFault(c) PROVE StopInv'
  BY <1>20 DEF AfterFault, MuteChain, Send, NoSend
<1>21. ASSUME NEW c \in Call \cup Watch, StartReset(c) PROVE StopInv'
  BY <1>21 DEF StartReset
<1>22. ASSUME NEW c \in Call \cup Watch, Relaunch(c) PROVE StopInv'
  BY <1>22, RelaunchFrame
<1>23. ASSUME NEW t \in Task, Exit(t) PROVE StopInv'
  BY <1>23 DEF Exit
<1>24. ASSUME NEW t \in Task, Fault(t) PROVE StopInv'
  BY <1>24 DEF Fault
<1>25. ASSUME LateSet PROVE StopInv'
  BY <1>25 DEF LateSet
<1>26. ASSUME ProbeBegins PROVE StopInv'
  BY <1>26 DEF ProbeBegins
<1>27. ASSUME NEW p \in {Boot, Reset}, ProbeEnds(p) PROVE StopInv'
  BY <1>27 DEF ProbeEnds
<1>28. ASSUME UNCHANGED vars PROVE StopInv'
  BY <1>28 DEF vars
<1> QED BY <1>1, <1>2, <1>3, <1>4, <1>5, <1>6, <1>7, <1>8, <1>9, <1>10, <1>11, <1>12,
           <1>13, <1>14, <1>15, <1>16, <1>17, <1>18, <1>19, <1>20, <1>21, <1>22, <1>23,
           <1>24, <1>25, <1>26, <1>27, <1>28 DEF Next, Step

\* Every step keeps somebody at the chain of an owner that is off.
LEMMA OffStep == TypeInv /\ SoleInv /\ StopInv /\ LevelInv /\ OffInv /\ [Next]_vars => OffInv'
<1> SUFFICES ASSUME TypeInv, SoleInv, StopInv, LevelInv, OffInv, [Next]_vars PROVE OffInv' OBVIOUS
<1> USE CoroutineAssumption, WatchFacts, RadioAssumption
  DEF TypeInv, CallTypes, SlotTypes, ChainTypes, PhaseInv, ClassInv, OffInv
<1> USE DEF At, To, callVars, slotVars, chainVars, bounds, Coroutine, Attends, Pends,
            PendsLaunch, PendsTune
<1>1. ASSUME NEW c \in Call, NEW k \in Kinds, NEW t \in Task, NEW s \in Launches,
             BeginLaunch(c, k, t, s)
      PROVE  OffInv'
  BY <1>1 DEF BeginLaunch, Arrive
<1>2. ASSUME NEW c \in Call, NEW t \in Task, NEW ch \in Tunes, BeginTune(c, t, ch)
      PROVE  OffInv'
  BY <1>2 DEF BeginTune
<1>3. ASSUME NEW c \in Call, NEW t \in Task, BeginStop(c, t) PROVE OffInv'
  BY <1>3 DEF BeginStop
<1>4. ASSUME NEW c \in Call, BeginPanic(c) PROVE OffInv'
  BY <1>4 DEF BeginPanic
<1>5. ASSUME NEW c \in Call, PanicNext(c) PROVE OffInv'
  <2> USE <1>5 DEF PanicNext, Ends
  <2>1. UNCHANGED <<slot, owner>> OBVIOUS
  <2>2. \A u \in Task, d \in Coroutine : Attends(d, u) => Attends(d, u)'
    <3>1. \A d \in Coroutine \ {c} : pc'[d] = pc[d] /\ job'[d] = job[d] OBVIOUS
    <3>2. pc[c] = "next" OBVIOUS
    <3> HIDE DEF PanicNext, To
    <3> QED BY <3>1, <3>2
  <2> HIDE DEF Attends, PanicNext
  <2> QED BY <2>1, <2>2
<1>6. ASSUME NEW c \in Call, NEW keep \in SUBSET Task, Reload(c, keep) PROVE OffInv'
  BY <1>6 DEF Reload, Ends
<1>7. ASSUME NEW c \in Call, ShotExits(c) PROVE OffInv'
  BY <1>7 DEF ShotExits
<1>8. ASSUME NEW c \in Call \cup Watch, PreCommand(c) PROVE OffInv'
  BY <1>8 DEF PreCommand, Send, NoSend, Ends, OwnerAfter
<1>9. ASSUME NEW c \in Call \cup Watch, SetDone(c) PROVE OffInv'
  BY <1>9 DEF SetDone
<1>10. ASSUME NEW c \in Call \cup Watch, SetFails(c) PROVE OffInv'
  BY <1>10 DEF SetFails, Ends
<1>11. ASSUME NEW c \in Call \cup Watch, Launch(c) PROVE OffInv'
  BY <1>11 DEF Launch, Ends
<1>12. ASSUME NEW c \in Call \cup Watch, Spawned(c) PROVE OffInv'
  BY <1>12 DEF Spawned, Ends
<1>13. ASSUME NEW c \in Call \cup Watch, LaunchShot(c) PROVE OffInv'
  BY <1>13 DEF LaunchShot
<1>14. ASSUME NEW c \in Call \cup Watch, ShotSpawned(c) PROVE OffInv'
  BY <1>14 DEF ShotSpawned, Ends
<1>15. ASSUME NEW c \in Call \cup Watch, Tune(c) PROVE OffInv'
  BY <1>15 DEF Tune, Ends
<1>16. ASSUME NEW c \in Call \cup Watch, Tuned(c) PROVE OffInv'
  BY <1>16 DEF Tuned, Ends
<1>17. ASSUME NEW c \in Call \cup Watch, StopSignals(c) PROVE OffInv'
  BY <1>17 DEF StopSignals
<1>18. ASSUME NEW c \in Call \cup Watch, StopMutes(c) PROVE OffInv'
  <2> DEFINE t == job[c].task
  <2>0. /\ pc[c] = "stopping" /\ t \in Task /\ MuteChain(c, t)
        /\ job[c].kind \in {"stop", "panic", "after"} /\ UNCHANGED <<slot, job>>
    BY <1>18 DEF StopMutes, Busy
  <2> HIDE DEF t
  <2>1. CASE Send(c, Mute)
    <3>1. owner' \in {"muted", NoTask} BY <2>0, <2>1, SendOwner
    <3> QED BY <3>1
  <2>2. CASE \E o : NoSend(c, o) /\ o \in {owner, NoTask} /\ (o = t => t \notin Calibrated)
    <3>1. SUFFICES ASSUME NEW u \in Task, owner' = u, slot[u] = "off"
                   PROVE  \E d \in Coroutine : Attends(d, u)'
      BY <2>0
    <3>2. owner = u /\ u # t BY <2>2, <3>1, NoSendOwner DEF LevelInv, Owned
    <3>3. PICK d \in Coroutine : Attends(d, u) BY <3>1, <3>2
    <3>4. d # c BY <2>0, <3>2, <3>3 DEF t
    <3>5. pc'[d] = pc[d] BY <2>2, <3>4 DEF NoSend
    <3> QED BY <2>0, <3>3, <3>5
  <2> QED BY <2>0, <2>1, <2>2, MuteChainCases
<1>19. ASSUME NEW c \in Call \cup Watch, Stopped(c) PROVE OffInv'
  BY <1>19 DEF Stopped
<1>20. ASSUME NEW c \in Call \cup Watch, AfterFault(c) PROVE OffInv'
  <2> DEFINE t == job[c].task
  <2>0. /\ pc[c] = "flag" /\ t \in Task /\ MuteChain(c, t)
        /\ job[c].kind \in {"stop", "panic", "after"} /\ UNCHANGED <<slot, job>>
    BY <1>20 DEF AfterFault, Busy
  <2> HIDE DEF t
  <2>1. CASE Send(c, Mute)
    <3>1. owner' \in {"muted", NoTask} BY <2>0, <2>1, SendOwner
    <3> QED BY <3>1
  <2>2. CASE \E o : NoSend(c, o) /\ o \in {owner, NoTask} /\ (o = t => t \notin Calibrated)
    <3>1. SUFFICES ASSUME NEW u \in Task, owner' = u, slot[u] = "off"
                   PROVE  \E d \in Coroutine : Attends(d, u)'
      BY <2>0
    <3>2. owner = u /\ u # t BY <2>2, <3>1, NoSendOwner DEF LevelInv, Owned
    <3>3. PICK d \in Coroutine : Attends(d, u) BY <3>1, <3>2
    <3>4. d # c BY <2>0, <3>2, <3>3 DEF t
    <3>5. pc'[d] = pc[d] BY <2>2, <3>4 DEF NoSend
    <3> QED BY <2>0, <3>3, <3>5
  <2> QED BY <2>0, <2>1, <2>2, MuteChainCases
<1>21. ASSUME NEW c \in Call \cup Watch, StartReset(c) PROVE OffInv'
  BY <1>21 DEF StartReset
<1>22. ASSUME NEW c \in Call \cup Watch, Relaunch(c) PROVE OffInv'
  <2>1. UNCHANGED <<slot, owner>> BY <1>22, RelaunchFrame
  <2>2. \A u \in Task, d \in Coroutine : Attends(d, u) => Attends(d, u)'
    <3>1. pc[c] = "delay" BY <1>22, RelaunchFrame
    <3>2. \A d \in Coroutine \ {c} : pc'[d] = pc[d] /\ job'[d] = job[d]
      BY <1>22, RelaunchFrame
    <3> QED BY <3>1, <3>2
  <2> HIDE DEF Attends
  <2> QED BY <2>1, <2>2
<1>23. ASSUME NEW t \in Task, Exit(t) PROVE OffInv'
  <2> USE <1>23 DEF Exit
  <2>1. PICK d \in Call : pc[d] = "stopping" /\ job[d].task = t BY DEF StopInv
  <2>2. Attends(d, t)' BY <2>1
  <2>3. \A u \in Task, e \in Coroutine : Attends(e, u) => Attends(e, u)' OBVIOUS
  <2> HIDE DEF Attends
  <2> QED BY <2>2, <2>3
<1>24. ASSUME NEW t \in Task, Fault(t) PROVE OffInv'
  <2> USE <1>24 DEF Fault
  <2>1. W(t) \in Coroutine /\ pc[W(t)] = "idle" OBVIOUS
  <2>2. Attends(W(t), t)' BY <2>1 DEF Doing
  <2>3. \A u \in Task, d \in Coroutine : Attends(d, u) => Attends(d, u)' BY <2>1
  <2> HIDE DEF Attends
  <2> QED BY <2>1, <2>2, <2>3
<1>25. ASSUME LateSet PROVE OffInv'
  BY <1>25 DEF LateSet
<1>26. ASSUME ProbeBegins PROVE OffInv'
  BY <1>26 DEF ProbeBegins
<1>27. ASSUME NEW p \in {Boot, Reset}, ProbeEnds(p) PROVE OffInv'
  BY <1>27 DEF ProbeEnds
<1>28. ASSUME UNCHANGED vars PROVE OffInv'
  BY <1>28 DEF vars
<1> QED BY <1>1, <1>2, <1>3, <1>4, <1>5, <1>6, <1>7, <1>8, <1>9, <1>10, <1>11, <1>12,
           <1>13, <1>14, <1>15, <1>16, <1>17, <1>18, <1>19, <1>20, <1>21, <1>22, <1>23,
           <1>24, <1>25, <1>26, <1>27, <1>28 DEF Next, Step

\* Every step keeps the owner's level at the chain.
LEMMA LevelStep == TypeInv /\ CacheInv /\ SoleInv /\ LevelInv /\ [Next]_vars => LevelInv'
<1> SUFFICES ASSUME TypeInv, CacheInv, SoleInv, LevelInv, [Next]_vars PROVE LevelInv' OBVIOUS
<1> USE CoroutineAssumption, WatchFacts, RadioAssumption
  DEF TypeInv, CallTypes, ClassInv
<1> USE DEF At, To, callVars, slotVars, chainVars, bounds, Coroutine
<1>1. ASSUME NEW c \in Call, NEW k \in Kinds, NEW t \in Task, NEW s \in Launches,
             BeginLaunch(c, k, t, s)
      PROVE  LevelInv'
  BY <1>1, LevelKept DEF BeginLaunch, Arrive, Ends
<1>2. ASSUME NEW c \in Call, NEW t \in Task, NEW ch \in Tunes, BeginTune(c, t, ch)
      PROVE  LevelInv'
  BY <1>2, LevelKept DEF BeginTune, Arrive, Ends
<1>3. ASSUME NEW c \in Call, NEW t \in Task, BeginStop(c, t) PROVE LevelInv'
  BY <1>3, LevelKept DEF BeginStop
<1>4. ASSUME NEW c \in Call, BeginPanic(c) PROVE LevelInv'
  BY <1>4, LevelKept DEF BeginPanic, Arrive, Ends
<1>5. ASSUME NEW c \in Call, PanicNext(c) PROVE LevelInv'
  BY <1>5, LevelKept DEF PanicNext, Arrive, Ends
<1>6. ASSUME NEW c \in Call, NEW keep \in SUBSET Task, Reload(c, keep) PROVE LevelInv'
  BY <1>6, LevelKept DEF Reload, Arrive, Ends
<1>7. ASSUME NEW c \in Call, ShotExits(c) PROVE LevelInv'
  BY <1>7, LevelKept DEF ShotExits, Arrive, Ends
<1>8. ASSUME NEW c \in Call \cup Watch, PreCommand(c) PROVE LevelInv'
  <2> DEFINE t == job[c].task
             s == GateStateFor(c)
             v == Target(t, s)
  <2>0. /\ pc[c] = "through" /\ t \in Task /\ c \in Coroutine
        /\ job[c].kind \in Launched \cup {"tune"} /\ UNCHANGED <<job, emits>>
    BY <1>8 DEF PreCommand, PhaseInv, Busy
  <2>1. CASE UNCHANGED chainVars /\ Ends(c) BY <2>0, <2>1, LevelKept DEF Ends
  <2>2. CASE ~(UNCHANGED chainVars /\ Ends(c))
    <3>1. /\ gateState' = [gateState EXCEPT ![t] = s]
          /\ \/ NoSend(c, owner) /\ (v = None \/ (job[c].kind = "tune" /\ last = v))
             \/ Send(c, v) /\ v # None
      <4>1. t \in known BY <1>8, <2>2 DEF PreCommand
      <4> HIDE DEF chainVars, At
      <4>2. gateState' = [gateState EXCEPT ![t] = s] BY <1>8, <4>1 DEF PreCommand
      <4>3. IF v = None \/ MaySkip(c, v) THEN NoSend(c, owner) ELSE Send(c, v)
        BY <1>8, <4>1 DEF PreCommand
      <4> QED BY <4>2, <4>3 DEF MaySkip
    <3>2. SUFFICES ASSUME NEW u \in Task, owner' = u PROVE Owned(u)' BY DEF LevelInv
    <3> HIDE DEF s
    <3>3. InPeace(c) BY <2>0, <3>1, <3>2, NoSendOwner, SendOwner
    <3>4. InFlight = {} /\ \A d, w : d \in Coroutine => ~Pends(d, w)
      BY <2>0, <3>3 DEF InPeace, Working, InFlight, Pends, PendsLaunch, PendsTune
    <3>5. u # t => owner = u /\ NoSend(c, owner)
      BY <2>0, <3>1, <3>2, NoSendOwner, SendOwner
    <3>6. owner = u => Owned(u) /\ gateState[u] = emits[u] BY <3>4 DEF LevelInv, Owned
    <3>7. CASE u # t
      <4>1. InFlight' = {} /\ UNCHANGED <<cmd, chain>>
        BY <2>0, <3>4, <3>5, <3>7 DEF NoSend, InFlight
      <4>2. \A d \in Coroutine : ~Pends(d, u)'
        BY <2>0, <3>4, <3>5, <3>7 DEF NoSend, Pends, PendsLaunch, PendsTune
      <4>3. gateState'[u] = gateState[u] BY <3>1, <3>7 DEF ChainTypes
      <4> QED BY <2>0, <3>4, <3>5, <3>6, <3>7, <4>1, <4>2, <4>3 DEF Owned, Pends, Target
    <3>8. CASE u = t
      <4>1. /\ job[c].kind \in {"start", "relaunch"} \/ (job[c].kind = "tune" /\ owner = t)
            /\ s \in Setting /\ t \in Calibrated
        <5>1. CASE job[c].kind = "tune" /\ owner = t
          <6>1. gateState[t] \in Setting /\ t \in Calibrated
            BY <3>6, <3>8, <5>1 DEF Owned
          <6>2. job[c].ask \in Change BY DEF Jobs
          <6>3. Merge(gateState[t], job[c].ask) \in Setting
            BY <6>1, <6>2 DEF Merge, Setting, Change
          <6> QED BY <5>1, <6>1, <6>3 DEF s, GateStateFor
        <5>2. CASE Send(c, v) /\ v # None /\ job[c].kind \in {"start", "relaunch"}
          <6>1. s = job[c].ask BY <5>2 DEF s, GateStateFor
          <6>2. job[c].ask \in Setting BY <2>0, <5>2 DEF PhaseInv, Launched
          <6>3. t \in Calibrated BY <5>2 DEF Target
          <6>4. s \in Setting BY <6>1, <6>2
          <6> QED BY <5>2, <6>3, <6>4
        <5>3. CASE NoSend(c, owner) /\ owner = t /\ job[c].kind # "tune" /\ v = None
          <6>1. t \in Calibrated BY <3>6, <3>8, <5>3 DEF Owned
          <6>2. s \in Setting BY <2>0, <5>3 DEF s, GateStateFor, PhaseInv
          <6>3. v # None BY <6>1, <6>2, PositionFacts DEF Target, Setting, None
          <6> QED BY <5>3, <6>3
        <5> QED BY <2>0, <3>1, <3>2, <3>8, <5>1, <5>2, <5>3, NoSendOwner, SendOwner
      <4>2. v # None BY <4>1, PositionFacts DEF Target, Setting, None
      <4>3. gateState'[t] = s BY <2>0, <3>1 DEF ChainTypes
      <4>4. job[c].kind \in {"start", "relaunch"} => s = job[c].ask
        BY DEF s, GateStateFor
      <4>5. job[c].kind = "tune" => s = Merge(emits[t], job[c].ask)
        BY <3>6, <3>8, <4>1 DEF s, GateStateFor
      <4>6. /\ \A d \in Coroutine \ {c} : pc'[d] \notin {"set", "ready", "rpc"}
            /\ pc'[c] \in {"set", "ready"}
        BY <2>0, <3>1, <3>3 DEF Send, NoSend, InPeace, Working
      <4>7. Pends(c, t)' BY <2>0, <4>1, <4>6 DEF Pends, PendsLaunch, PendsTune
      <4>8. \A d \in Coroutine : Pends(d, t)' => d = c
        BY <4>6 DEF Pends, PendsLaunch, PendsTune
      <4>9. /\ PendsLaunch(c, t)' => gateState'[t] = job'[c].ask
            /\ PendsTune(c, t)' => gateState'[t] = Merge(emits'[t], job'[c].ask)
        BY <2>0, <4>3, <4>4, <4>5, <4>6 DEF PendsLaunch, PendsTune
      <4>10. CASE Send(c, v)
        <5>1. InFlight' = {c} /\ cmd'[c] = v
          BY <2>0, <3>4, <4>10 DEF Send, InFlight, ChainTypes
        <5> QED BY <2>0, <3>8, <4>1, <4>3, <4>7, <4>8, <4>9, <5>1
          DEF Owned, Pends, Target
      <4>11. CASE NoSend(c, owner) /\ last = v
        <5>1. owner = t BY <2>0, <3>2, <3>8, <4>11, NoSendOwner
        <5>2. chain = v BY <2>0, <4>2, <4>11, <5>1 DEF SoleInv, CacheInv
        <5>3. InFlight' = {} /\ chain' = v
          BY <2>0, <3>4, <4>11, <5>2 DEF NoSend, InFlight
        <5> QED BY <2>0, <3>8, <4>1, <4>3, <4>7, <4>8, <4>9, <5>3
          DEF Owned, Pends, Target
      <4> QED BY <3>1, <4>2, <4>10, <4>11
    <3> QED BY <3>7, <3>8
  <2> QED BY <2>1, <2>2
<1>9. ASSUME NEW c \in Call \cup Watch, SetDone(c) PROVE LevelInv'
  BY <1>9
    DEF SetDone, Ends, SlotTypes, ChainTypes, PhaseInv, LevelInv, Owned, Pends,
        PendsLaunch, PendsTune, InFlight, Active, SoleInv
<1>10. ASSUME NEW c \in Call \cup Watch, SetFails(c) PROVE LevelInv'
  BY <1>10
    DEF SetFails, Ends, SlotTypes, ChainTypes, PhaseInv, LevelInv, Owned, Pends,
        PendsLaunch, PendsTune, InFlight, Active, SoleInv
<1>11. ASSUME NEW c \in Call \cup Watch, Launch(c) PROVE LevelInv'
  BY <1>11
    DEF Launch, Ends, SlotTypes, ChainTypes, PhaseInv, LevelInv, Owned, Pends,
        PendsLaunch, PendsTune, InFlight, Active, SoleInv
<1>12. ASSUME NEW c \in Call \cup Watch, Spawned(c) PROVE LevelInv'
  BY <1>12
    DEF Spawned, Ends, SlotTypes, ChainTypes, PhaseInv, LevelInv, Owned, Pends,
        PendsLaunch, PendsTune, InFlight, Active, SoleInv
<1>13. ASSUME NEW c \in Call \cup Watch, LaunchShot(c) PROVE LevelInv'
  BY <1>13, LevelKept DEF LaunchShot, Arrive, Ends
<1>14. ASSUME NEW c \in Call \cup Watch, ShotSpawned(c) PROVE LevelInv'
  BY <1>14, LevelKept DEF ShotSpawned, Arrive, Ends
<1>15. ASSUME NEW c \in Call \cup Watch, Tune(c) PROVE LevelInv'
  BY <1>15
    DEF Tune, Ends, SlotTypes, ChainTypes, PhaseInv, LevelInv, Owned, Pends,
        PendsLaunch, PendsTune, InFlight, Active, SoleInv
<1>16. ASSUME NEW c \in Call \cup Watch, Tuned(c) PROVE LevelInv'
  <2> DEFINE t == job[c].task
             ch == job[c].ask
  <2>0. pc[c] = "rpc" /\ t \in Task /\ c \in Coroutine
    BY <1>16 DEF Tuned, PhaseInv, Busy
  <2>1. pc' = [pc EXCEPT ![c] = "done"] /\ UNCHANGED <<job, gateState, cmd, chain>>
    BY <1>16 DEF Tuned, Ends
  <2>2. SUFFICES ASSUME NEW u \in Task, owner' = u PROVE Owned(u)' BY DEF LevelInv
  <2>3. owner' = owner /\ emits' = [emits EXCEPT ![t] = Merge(emits[t], Applied(ch, {}))]
    BY <1>16, <2>2 DEF Tuned
  <2>4. Applied(ch, {}) = ch BY DEF Applied, Jobs, Change
  <2>5. Owned(u) /\ \A d \in Coroutine : d # c => pc[d] \notin {"set", "ready", "spawn", "rpc"}
    BY <2>0, <2>2, <2>3 DEF LevelInv, SoleInv, Active
  <2>6. InFlight = {} /\ InFlight' = {} BY <2>0, <2>1, <2>5 DEF InFlight
  <2>7. \A d \in Coroutine : ~Pends(d, u)'
    BY <2>0, <2>1, <2>5 DEF Pends, PendsLaunch, PendsTune
  <2>8. gateState[u] = emits'[u]
    <3>1. CASE u = t
      <4>1. PendsTune(c, t) BY <2>0 DEF PendsTune
      <4>2. emits'[t] = Merge(emits[t], ch) BY <2>0, <2>3, <2>4 DEF SlotTypes
      <4> QED BY <2>0, <2>5, <3>1, <4>1, <4>2 DEF Owned
    <3>2. CASE u # t
      <4>1. \A d \in Coroutine : ~Pends(d, u)
        BY <2>0, <2>5, <3>2 DEF Pends, PendsLaunch, PendsTune
      <4> QED BY <2>3, <2>5, <3>2, <4>1 DEF Owned, SlotTypes
    <3> QED BY <3>1, <3>2
  <2> QED BY <2>1, <2>5, <2>6, <2>7, <2>8 DEF Owned, Pends, Target
<1>17. ASSUME NEW c \in Call \cup Watch, StopSignals(c) PROVE LevelInv'
  BY <1>17, LevelKept DEF StopSignals, Arrive, Ends
<1>18. ASSUME NEW c \in Call \cup Watch, StopMutes(c) PROVE LevelInv'
  <2> DEFINE t == job[c].task
  <2>0. /\ pc[c] = "stopping" /\ t \in Task /\ MuteChain(c, t)
        /\ job[c].kind \in {"stop", "panic", "after"} /\ UNCHANGED <<slot, job, emits, gateState>>
    BY <1>18 DEF StopMutes, Busy, PhaseInv, MuteChain
  <2> HIDE DEF t
  <2>1. CASE Send(c, Mute)
    <3>1. owner' \in {"muted", NoTask} BY <2>0, <2>1, SendOwner
    <3> QED BY <3>1 DEF LevelInv
  <2>2. CASE \E o : NoSend(c, o) /\ o \in {owner, NoTask}
    BY <2>0, <2>2
      DEF NoSend, SlotTypes, ChainTypes, LevelInv, Owned, Pends, PendsLaunch,
          PendsTune, InFlight, Active, SoleInv
  <2> QED BY <2>0, <2>1, <2>2, MuteChainCases
<1>19. ASSUME NEW c \in Call \cup Watch, Stopped(c) PROVE LevelInv'
  BY <1>19
    DEF Stopped, Ends, SlotTypes, ChainTypes, PhaseInv, LevelInv, Owned, Pends,
        PendsLaunch, PendsTune, InFlight, Active, SoleInv
<1>20. ASSUME NEW c \in Call \cup Watch, AfterFault(c) PROVE LevelInv'
  <2> DEFINE t == job[c].task
  <2>0. /\ pc[c] = "flag" /\ t \in Task /\ MuteChain(c, t)
        /\ job[c].kind \in {"stop", "panic", "after"} /\ UNCHANGED <<slot, job, emits, gateState>>
    BY <1>20 DEF AfterFault, Busy, PhaseInv, MuteChain
  <2> HIDE DEF t
  <2>1. CASE Send(c, Mute)
    <3>1. owner' \in {"muted", NoTask} BY <2>0, <2>1, SendOwner
    <3> QED BY <3>1 DEF LevelInv
  <2>2. CASE \E o : NoSend(c, o) /\ o \in {owner, NoTask}
    BY <2>0, <2>2
      DEF NoSend, SlotTypes, ChainTypes, LevelInv, Owned, Pends, PendsLaunch,
          PendsTune, InFlight, Active, SoleInv
  <2> QED BY <2>0, <2>1, <2>2, MuteChainCases
<1>21. ASSUME NEW c \in Call \cup Watch, StartReset(c) PROVE LevelInv'
  BY <1>21
    DEF StartReset, Ends, SlotTypes, ChainTypes, PhaseInv, LevelInv, Owned, Pends,
        PendsLaunch, PendsTune, InFlight, Active, SoleInv
<1>22. ASSUME NEW c \in Call \cup Watch, Relaunch(c) PROVE LevelInv'
  BY <1>22, RelaunchFrame, LevelKept
<1>23. ASSUME NEW t \in Task, Exit(t) PROVE LevelInv'
  BY <1>23, LevelKept DEF Exit, Arrive, Ends
<1>24. ASSUME NEW t \in Task, Fault(t) PROVE LevelInv'
  BY <1>24, LevelKept DEF Fault, Arrive, Ends
<1>25. ASSUME LateSet PROVE LevelInv'
  BY <1>25
    DEF LateSet, Ends, SlotTypes, ChainTypes, PhaseInv, LevelInv, Owned, Pends,
        PendsLaunch, PendsTune, InFlight, Active, SoleInv
<1>26. ASSUME ProbeBegins PROVE LevelInv'
  BY <1>26, LevelKept DEF ProbeBegins, Arrive, Ends
<1>27. ASSUME NEW p \in {Boot, Reset}, ProbeEnds(p) PROVE LevelInv'
  <2>1. \A d \in Coroutine : pc'[d] = pc[d] \/ {pc[d], pc'[d]} \cap {"set", "ready", "rpc"} = {}
    BY <1>27 DEF ProbeEnds
  <2>2. UNCHANGED <<job, owner, gateState, cmd, chain, emits>> BY <1>27 DEF ProbeEnds
  <2> QED BY <2>1, <2>2, LevelKept
<1>28. ASSUME UNCHANGED vars PROVE LevelInv'
  BY <1>28
    DEF vars, LevelInv, Owned, Pends, PendsLaunch, PendsTune, InFlight, Active, SoleInv
<1> QED BY <1>1, <1>2, <1>3, <1>4, <1>5, <1>6, <1>7, <1>8, <1>9, <1>10, <1>11, <1>12,
           <1>13, <1>14, <1>15, <1>16, <1>17, <1>18, <1>19, <1>20, <1>21, <1>22, <1>23,
           <1>24, <1>25, <1>26, <1>27, <1>28 DEF Next, Step

\* Whoever transmits through a chain that nobody else has moved does so behind the
\* attenuation its own level calls for, however many tunes there were (_gate_state).
THEOREM LevelHeldHolds == Spec => []LevelHeld
<1> DEFINE I == TypeInv /\ CacheInv /\ SoleInv /\ LevelInv
<1>1. Init => I BY TypeInit, CacheInit, SoleInit, RestInit
<1>2. I /\ [Next]_vars => I' BY TypeStep, CacheStep, SoleStep, LevelStep
<1>3. I => LevelHeld
  <2> SUFFICES ASSUME LevelInv, NEW t \in Task, emits[t].on = 1, owner = t, Working = {}
               PROVE  chain = emits[t].power
    BY DEF LevelHeld
  <2>1. InFlight = {} /\ \A c \in Coroutine : ~Pends(c, t)
    BY DEF Working, InFlight, Pends, PendsLaunch, PendsTune
  <2> QED BY <2>1 DEF LevelInv, Owned, Target
<1> QED BY <1>1, <1>2, <1>3, PTL DEF Spec

\* Once everything is stopped or faulted the chain is muted, unless somebody else moved
\* it, a set failed or its mute was left out for a live task (mute_chain).
THEOREM SafeAtRestHolds == Spec => []SafeAtRest
<1> DEFINE I == /\ TypeInv /\ CacheInv /\ SoleInv /\ LevelInv
                /\ MutedInv /\ StopInv /\ OffInv
<1>1. Init => I BY TypeInit, CacheInit, SoleInit, RestInit
<1>2. I /\ [Next]_vars => I'
  BY TypeStep, CacheStep, SoleStep, LevelStep, MutedStep, StopStep, OffStep
<1>3. I => SafeAtRest
  BY RadioAssumption
  DEF SafeAtRest, MutedInv, OffInv, Attends, Pends, PendsLaunch, PendsTune, InFlight
<1> QED BY <1>1, <1>2, <1>3, PTL DEF Spec
=============================================================================
