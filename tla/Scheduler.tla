------------------------------ MODULE Scheduler ------------------------------
(***************************************************************************)
(* The scheduler of timed events: class Scheduler of agent/scheduler.py,   *)
(* with the part of ProcessManager it drives.                              *)
(*                                                                         *)
(* An event starts its task at startAt and stops it at stopAt.  The loop   *)
(* takes a snapshot of what is due and works it off, awaiting a launch or  *)
(* a stop between one event and the next; the API calls (cancel,           *)
(* patch_stop, PANIC, an operator's start) run in those awaits.  _lock is  *)
(* never held across an await, so what it guards is one step here.         *)
(*                                                                         *)
(* The agent may be killed at any step.  It restarts from events.json.     *)
(*                                                                         *)
(* Of a task the module keeps what ManagedProcess shows of it from outside *)
(* (see TransmitterSlot), the operator's stop that a parked launch honours *)
(* and the event that put it on the air.  The clock never steps back.      *)
(***************************************************************************)
EXTENDS Naturals

CONSTANTS
  Event,       \* the events that may be created
  Task,        \* the tasks of the unit
  TaskOf,      \* ScheduledEvent.task_name
  Caller,      \* API calls, each made at most once
  Loop,        \* the scheduler loop
  NoEvent,     \* what a coroutine that has no event in hand holds
  Windows,     \* the start and stop times an event may be created with
  Horizon,     \* the last instant: bounds the clock
  MaxCrashes   \* bounds the crashes

ASSUME TaskAssumption == TaskOf \in [Event -> Task] /\ NoEvent \notin Event
ASSUME LoopAssumption == Loop \notin Caller
ASSUME WindowAssumption == Windows \subseteq Nat \X Nat
ASSUME BoundAssumption == Horizon \in Nat /\ MaxCrashes \in Nat

Coroutine == Caller \cup {Loop}
Instant == 0 .. Horizon
EventState == {"ARMED", "RUNNING", "COMPLETED", "CANCELLED", "ABORTED"}
Live == {"ARMED", "RUNNING"}

VARIABLES
  now,         \* the clock
  st,          \* ScheduledEvent.state, "none" before the event is created
  startAt,     \* ScheduledEvent.start_at
  stopAt,      \* ScheduledEvent.stop_at
  disk,        \* events.json: the state and the stop time of every event
  toStart,     \* the snapshot of _tick: events to start
  toStop,      \* the snapshot of _tick: events to stop
  pc,          \* the await each coroutine is parked at
  cur,         \* the event a coroutine has in hand
  todo,        \* the running events cancel_all_active has still to stop
  air,         \* what the task's slot does
  owner,       \* who launched what is on the air: an event, or NoEvent
  opStop,      \* _operator_stop_requested of the task's slot
  overtaken,   \* parked launches that have seen _panic_epoch move
  panicking,   \* the calls that are PANICs
  onTask,      \* the task an operator's start launches
  crashes      \* how often the agent was killed

events == <<st, startAt, stopAt>>
slots == <<air, owner, opStop>>
work == <<toStart, toStop, todo>>
calls == <<overtaken, panicking, onTask>>
vars == <<now, events, disk, work, pc, cur, slots, calls, crashes>>

Labels == {"idle", "next", "parked", "exec", "launched", "stopping", "stopped",
           "done"}
Air == {"off", "starting", "doomed", "on", "leaving"}

Init ==
  /\ now = 0
  /\ st = [e \in Event |-> "none"]
  /\ startAt = [e \in Event |-> 0] /\ stopAt = [e \in Event |-> 0]
  /\ disk = [state |-> st, stop |-> stopAt]
  /\ toStart = {} /\ toStop = {} /\ todo = [c \in Caller |-> {}]
  /\ pc = [c \in Coroutine |-> "idle"] /\ cur = [c \in Coroutine |-> NoEvent]
  /\ air = [t \in Task |-> "off"] /\ owner = [t \in Task |-> NoEvent]
  /\ opStop = [t \in Task |-> FALSE]
  /\ overtaken = {} /\ panicking = {}
  /\ onTask \in [Caller -> Task]
  /\ crashes = 0

-----------------------------------------------------------------------------

\* No await separates these labels from what comes before and after them:
\* whoever is at one of them goes on before anybody else.
InHand(c) == pc[c] \in {"next", "launched"}
Turn(c) == \A d \in Coroutine : InHand(d) => d = c
At(c, label) == pc[c] = label /\ Turn(c)
Quiet == \A d \in Coroutine : ~InHand(d)

Goto(c, label) == pc' = [pc EXCEPT ![c] = label]
SetState(e, s) == st' = [st EXCEPT ![e] = s]
Persist == disk' = [state |-> st', stop |-> stopAt']

\* The task a coroutine works on.
TaskAt(c) == IF cur[c] = NoEvent THEN onTask[c] ELSE TaskOf[cur[c]]

-----------------------------------------------------------------------------
(* The API.                                                                *)

Create(e, from, to) ==
  /\ Quiet
  /\ st[e] = "none"
  /\ now < from /\ from < to
  /\ SetState(e, "ARMED")
  /\ startAt' = [startAt EXCEPT ![e] = from]
  /\ stopAt' = [stopAt EXCEPT ![e] = to]
  /\ Persist
  /\ UNCHANGED <<now, work, pc, cur, slots, calls, crashes>>

PatchStop(c, e, to) ==
  /\ At(c, "idle") /\ c \in Caller
  /\ st[e] \in Live
  /\ now < to /\ startAt[e] < to
  /\ stopAt' = [stopAt EXCEPT ![e] = to]
  /\ UNCHANGED <<st, startAt>>
  /\ Persist
  /\ Goto(c, "done")
  /\ UNCHANGED <<now, work, cur, slots, calls, crashes>>

\* Mutant: the event takes a state of its task.
CancelArmedAsTask(c, e) ==
  /\ At(c, "idle") /\ c \in Caller
  /\ st[e] = "ARMED"
  /\ SetState(e, "STOPPED")
  /\ UNCHANGED <<startAt, stopAt>>
  /\ Persist
  /\ Goto(c, "done")
  /\ UNCHANGED <<now, work, cur, slots, calls, crashes>>
\* Mutant: the cancelled event is written with the next change.
CancelArmedUnsaved(c, e) ==
  /\ At(c, "idle") /\ c \in Caller
  /\ st[e] = "ARMED"
  /\ SetState(e, "CANCELLED")
  /\ Goto(c, "done")
  /\ UNCHANGED <<now, startAt, stopAt, disk, work, cur, slots, calls, crashes>>
CancelArmed(c, e) ==
  /\ At(c, "idle") /\ c \in Caller
  /\ st[e] = "ARMED"
  /\ SetState(e, "CANCELLED")
  /\ UNCHANGED <<startAt, stopAt>>
  /\ Persist
  /\ Goto(c, "done")
  /\ UNCHANGED <<now, work, cur, slots, calls, crashes>>

\* A running event is stopped outside the lock.
CancelRunning(c, e) ==
  /\ At(c, "idle") /\ c \in Caller
  /\ st[e] = "RUNNING"
  /\ todo' = [todo EXCEPT ![c] = {e}]
  /\ Goto(c, "next")
  /\ UNCHANGED <<now, events, disk, toStart, toStop, cur, slots, calls, crashes>>

\* PANIC: cancel_all_active, then the manager's sweep.
Panic(c) ==
  /\ At(c, "idle") /\ c \in Caller
  /\ st' = [e \in Event |-> IF st[e] = "ARMED" THEN "CANCELLED" ELSE st[e]]
  /\ UNCHANGED <<startAt, stopAt>>
  /\ IF st' # st THEN Persist ELSE UNCHANGED disk
  /\ todo' = [todo EXCEPT ![c] = {e \in Event : st[e] = "RUNNING"}]
  /\ panicking' = panicking \cup {c}
  /\ Goto(c, "next")
  /\ UNCHANGED <<now, toStart, toStop, cur, slots, overtaken, onTask, crashes>>

PanicSweep(c) ==
  /\ At(c, "next") /\ c \in panicking /\ todo[c] = {}
  /\ overtaken' = {d \in Coroutine : pc[d] = "parked"}
  /\ opStop' = [t \in Task |-> TRUE]
  /\ air' = [t \in Task |-> CASE air[t] = "on" -> "leaving"
                               [] air[t] = "starting" -> "doomed"
                               [] OTHER -> air[t]]
  /\ Goto(c, "done")
  /\ cur' = [cur EXCEPT ![c] = NoEvent]
  /\ UNCHANGED <<now, events, disk, work, owner, panicking, onTask, crashes>>

\* An operator's start of a task.
OperatorStart(c) ==
  /\ At(c, "idle") /\ c \in Caller
  /\ opStop' = [opStop EXCEPT ![onTask[c]] = FALSE]
  /\ Goto(c, "parked")
  /\ UNCHANGED <<now, events, disk, work, cur, air, owner, calls, crashes>>

-----------------------------------------------------------------------------
(* ProcessManager.start and stop, as seen from here.                       *)

\* The gates open.  A stop or PANIC meanwhile, a taken slot or the
\* pre-command refuses the launch.
Unpark(c) ==
  LET t == TaskAt(c) IN
  /\ At(c, "parked")
  /\ \/ /\ ~opStop[t] /\ c \notin overtaken /\ air[t] = "off"
        /\ air' = [air EXCEPT ![t] = "starting"]
        /\ Goto(c, "exec")
     \/ Goto(c, IF c = Loop THEN "next" ELSE "done") /\ UNCHANGED air
  /\ overtaken' = overtaken \ {c}
  /\ UNCHANGED <<now, events, work, cur, owner, opStop, panicking, onTask, crashes>>
  /\ IF pc'[c] = "next" THEN Persist ELSE UNCHANGED disk

\* Those who wait for the process of t to be gone.
Woken(t) == [d \in Coroutine |->
               IF pc[d] = "stopping" /\ TaskAt(d) = t THEN "stopped" ELSE pc[d]]

\* The spawn returns: on the air, or killed because a stop landed, or failed.
Exec(c) ==
  LET t == TaskAt(c) IN
  /\ At(c, "exec")
  /\ \/ /\ air[t] = "starting"
        /\ air' = [air EXCEPT ![t] = "on"]
        /\ owner' = [owner EXCEPT ![t] = cur[c]]
        /\ Goto(c, IF c = Loop THEN "launched" ELSE "done")
     \/ /\ air' = [air EXCEPT ![t] = "off"]
        /\ pc' = [Woken(t) EXCEPT ![c] = IF c = Loop THEN "next" ELSE "done"]
        /\ UNCHANGED owner
  /\ UNCHANGED <<now, events, work, cur, opStop, calls, crashes>>
  /\ IF pc'[c] = "next" THEN Persist ELSE UNCHANGED disk

\* stop() of task t: c waits unless there is nothing to wait for.
StopTask(c, t, wait, next) ==
  /\ opStop' = [opStop EXCEPT ![t] = TRUE]
  /\ \/ /\ air[t] \in {"on", "starting"}
        /\ air' = [air EXCEPT ![t] = IF air[t] = "on" THEN "leaving" ELSE "doomed"]
        /\ Goto(c, wait)
     \/ /\ air[t] = "doomed" /\ Goto(c, wait) /\ UNCHANGED air
     \/ /\ air[t] \in {"off", "leaving"} /\ Goto(c, next) /\ UNCHANGED air

\* The process exits: on its own, or because it was told to.
Exit(t) ==
  /\ Quiet
  /\ air[t] \in {"on", "leaving"}
  /\ air' = [air EXCEPT ![t] = "off"]
  /\ pc' = Woken(t)
  /\ UNCHANGED <<now, events, disk, work, cur, owner, opStop, calls, crashes>>

-----------------------------------------------------------------------------
(* The loop.                                                               *)

\* Mutant: an event whose task is not running has nothing to stop.
DueStopsRunningOnly ==
  {e \in Event : st[e] = "RUNNING" /\ stopAt[e] <= now /\ air[TaskOf[e]] = "on"}
DueStops == {e \in Event : st[e] = "RUNNING" /\ stopAt[e] <= now}
DueStarts == {e \in Event : st[e] = "ARMED" /\ startAt[e] <= now}

Tick ==
  /\ At(Loop, "idle")
  /\ DueStarts \cup DueStops # {}
  /\ toStart' = DueStarts /\ toStop' = DueStops
  /\ Goto(Loop, "next")
  /\ UNCHANGED <<now, events, disk, todo, cur, slots, calls, crashes>>

\* _start_task: launch, or note that the task is running already.
TickStart(e) ==
  /\ At(Loop, "next") /\ e \in toStart
  /\ toStart' = toStart \ {e}
  /\ cur' = [cur EXCEPT ![Loop] = e]
  /\ SetState(e, "RUNNING")
  /\ UNCHANGED <<startAt, stopAt>>
  /\ \/ /\ air[TaskOf[e]] = "on"
        /\ Persist
        /\ UNCHANGED <<pc, opStop>>
     \/ /\ air[TaskOf[e]] # "on"
        /\ opStop' = [opStop EXCEPT ![TaskOf[e]] = FALSE]
        /\ Goto(Loop, "parked")
        /\ UNCHANGED disk
  /\ UNCHANGED <<now, toStop, todo, air, owner, calls, crashes>>

\* Mutant: the launch is the end of it.
LateLaunchKept ==
  /\ At(Loop, "launched")
  /\ Goto(Loop, "next")
  /\ UNCHANGED <<now, events, work, cur, slots, calls, crashes>>
  /\ Persist
\* The launch is up.  If the event was stopped meanwhile it must come down.
LateLaunch ==
  /\ At(Loop, "launched")
  /\ IF st[cur[Loop]] = "RUNNING"
     THEN Goto(Loop, "next") /\ UNCHANGED <<opStop, air>>
     ELSE StopTask(Loop, TaskOf[cur[Loop]], "stopping", "next")
  /\ UNCHANGED <<now, events, work, cur, owner, calls, crashes>>
  /\ IF pc'[Loop] = "next" THEN Persist ELSE UNCHANGED disk

\* _stop_task, called by the loop, by cancel() and by cancel_all_active().
Stop(c, e) ==
  /\ At(c, "next")
  /\ \/ /\ c = Loop /\ toStart = {} /\ e \in toStop
        /\ toStop' = toStop \ {e} /\ UNCHANGED todo
     \/ /\ c # Loop /\ e \in todo[c]
        /\ todo' = [todo EXCEPT ![c] = @ \ {e}] /\ UNCHANGED toStop
  /\ cur' = [cur EXCEPT ![c] = e]
  /\ SetState(e, "COMPLETED")
  /\ UNCHANGED <<startAt, stopAt>>
  /\ StopTask(c, TaskOf[e], "stopping", "next")
  /\ IF pc'[c] = "next" THEN Persist ELSE UNCHANGED disk
  /\ UNCHANGED <<now, toStart, owner, calls, crashes>>

Stopped(c) ==
  /\ At(c, "stopped")
  /\ Goto(c, "next")
  /\ UNCHANGED events
  /\ Persist
  /\ UNCHANGED <<now, work, cur, slots, calls, crashes>>

\* Nothing is left of the snapshot.
Rest(c) ==
  /\ At(c, "next")
  /\ IF c = Loop THEN toStart \cup toStop = {} ELSE todo[c] = {}
  /\ c \notin panicking
  /\ Goto(c, IF c = Loop THEN "idle" ELSE "done")
  /\ cur' = [cur EXCEPT ![c] = NoEvent]
  /\ UNCHANGED <<now, events, disk, work, slots, calls, crashes>>

-----------------------------------------------------------------------------
(* Time, and the agent's death.                                            *)

TimePasses ==
  /\ Quiet
  /\ now < Horizon
  /\ now' = now + 1
  /\ UNCHANGED <<events, disk, work, pc, cur, slots, calls, crashes>>

\* Mutant: what was not over when the agent died is armed again.
RearmAll(e, t) ==
  IF disk.state[e] \notin Live THEN disk.state[e]
  ELSE IF disk.stop[e] <= t THEN "COMPLETED" ELSE "ARMED"
\* _reconcile_on_startup, t being the time of the restart.
Reconciled(e, t) ==
  IF disk.state[e] \notin Live THEN disk.state[e]
  ELSE IF disk.stop[e] <= t THEN "COMPLETED"
  ELSE IF startAt[e] <= t THEN "ABORTED" ELSE "ARMED"

\* The agent is killed, its tasks with it, and is restarted at time t.
CrashAndRestart(t) ==
  /\ crashes < MaxCrashes /\ crashes' = crashes + 1
  /\ now <= t /\ now' = t
  /\ st' = [e \in Event |-> Reconciled(e, t)]
  /\ stopAt' = disk.stop
  /\ Persist
  /\ toStart' = {} /\ toStop' = {} /\ todo' = [c \in Caller |-> {}]
  /\ pc' = [c \in Coroutine |->
              IF c = Loop \/ pc[c] = "idle" THEN "idle" ELSE "done"]
  /\ cur' = [c \in Coroutine |-> NoEvent]
  /\ air' = [u \in Task |-> "off"] /\ owner' = [u \in Task |-> NoEvent]
  /\ opStop' = [u \in Task |-> \E e \in Event : /\ disk.state[e] \in Live
                                                /\ Reconciled(e, t) = "ABORTED"
                                                /\ TaskOf[e] = u]
  /\ overtaken' = {} /\ panicking' = {}
  /\ UNCHANGED <<startAt, onTask>>

Next ==
  \/ \E e \in Event, w \in Windows : Create(e, w[1], w[2])
  \/ \E c \in Caller :
       \/ \E e \in Event : \/ CancelArmed(c, e) \/ CancelRunning(c, e)
                           \/ \E to \in Instant : PatchStop(c, e, to)
       \/ Panic(c) \/ PanicSweep(c) \/ OperatorStart(c)
  \/ \E c \in Coroutine : \/ Unpark(c) \/ Exec(c) \/ Stopped(c) \/ Rest(c)
                          \/ \E e \in Event : Stop(c, e)
  \/ \E t \in Task : Exit(t)
  \/ Tick \/ LateLaunch \/ \E e \in Event : TickStart(e)
  \/ TimePasses \/ \E t \in Instant : CrashAndRestart(t)

Spec == Init /\ [][Next]_vars

\* The clock goes on, the event loop runs every coroutine that can run,
\* spawns return and a process that is told to stop exits.
Fairness ==
  /\ WF_vars(TimePasses)
  /\ WF_vars(Tick) /\ WF_vars(LateLaunch) /\ WF_vars(\E e \in Event : TickStart(e))
  /\ \A c \in Coroutine :
       /\ WF_vars(Unpark(c)) /\ WF_vars(Exec(c)) /\ WF_vars(Stopped(c)) /\ WF_vars(Rest(c))
       /\ WF_vars(\E e \in Event : Stop(c, e)) /\ WF_vars(PanicSweep(c))
  /\ \A t \in Task : WF_vars(air[t] = "leaving" /\ Exit(t))

FairSpec == Spec /\ Fairness

-----------------------------------------------------------------------------
(* Properties.                                                             *)

\* The types of the variables.
TypeOK ==
  /\ now \in Nat
  /\ st \in [Event -> EventState \cup {"none"}]
  /\ startAt \in [Event -> Nat] /\ stopAt \in [Event -> Nat]
  /\ disk \in [state : [Event -> EventState \cup {"none"}], stop : [Event -> Nat]]
  /\ toStart \subseteq Event /\ toStop \subseteq Event
  /\ todo \in [Caller -> SUBSET Event]
  /\ pc \in [Coroutine -> Labels]
  /\ cur \in [Coroutine -> Event \cup {NoEvent}]
  /\ air \in [Task -> Air] /\ owner \in [Task -> Event \cup {NoEvent}]
  /\ opStop \in [Task -> BOOLEAN]
  /\ overtaken \subseteq Coroutine /\ panicking \subseteq Caller
  /\ onTask \in [Caller -> Task] /\ crashes \in Nat

\* An event that fired or was cancelled is never armed again, whatever the
\* agent was doing when it was killed: no broadcast is repeated after a reboot.
NeverRearmed ==
  [][\A e \in Event : st[e] \in EventState \ {"ARMED"} => st'[e] # "ARMED"]_vars

\* What carries it: the start time of an event that fires or has fired is past,
\* and an event that is over is so on the disk too, or its start time is past.
Due(e) == \/ st[e] = "RUNNING"
          \/ e \in toStart \cup toStop
          \/ \E c \in Caller : e \in todo[c]
SpentInv ==
  \A e \in Event :
    /\ Due(e) => st[e] # "none" /\ startAt[e] <= now
    /\ st[e] \in EventState \ Live
         => disk.state[e] \in EventState \ Live \/ startAt[e] <= now
    /\ st[e] # "none" => disk.state[e] # "none"

\* Every event that fired is brought to an end by the loop, a cancel, a PANIC or a
\* restart, also when its launch failed or its task died.
EventEnds == \A e \in Event : (st[e] = "RUNNING") ~> (st[e] # "RUNNING")

\* A task that comes up for an event which was stopped meanwhile is taken off
\* the air again.
NoLateLaunch ==
  \A t \in Task, e \in Event :
    (air[t] = "on" /\ owner[t] = e /\ st[e] # "RUNNING")
      ~> ~(air[t] = "on" /\ owner[t] = e /\ st[e] # "RUNNING")

\* A cancelled event never fires.
CancelledNeverFires ==
  [][\A e \in Event : st[e] = "CANCELLED" => st'[e] = "CANCELLED"]_vars
=============================================================================
