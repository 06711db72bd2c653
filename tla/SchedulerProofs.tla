--------------------------- MODULE SchedulerProofs ---------------------------
(***************************************************************************)
(* Proofs about Scheduler: its types, the invariant SpentInv, and that no  *)
(* event is ever armed a second time.                                      *)
(***************************************************************************)
EXTENDS Scheduler, TLAPS

\* The variables hold values of their types.
LEMMA TypeInit == Init => TypeOK
<1> SUFFICES ASSUME Init PROVE TypeOK OBVIOUS
<1> USE TaskAssumption, LoopAssumption DEF Init, TypeOK, Labels, Air, EventState
<1> QED BY DEF Coroutine

\* One step of any coroutine, of the clock or of the agent's death keeps them.
LEMMA TypeStep == TypeOK /\ [Next]_vars => TypeOK'
<1> SUFFICES ASSUME TypeOK, [Next]_vars PROVE TypeOK' OBVIOUS
<1> USE TaskAssumption, LoopAssumption, WindowAssumption, BoundAssumption
        DEF TypeOK, Labels, Air, Goto, SetState, Persist, events, slots, work, calls
<1> USE DEF EventState, Coroutine
<1>1. ASSUME NEW e \in Event, NEW w \in Windows, Create(e, w[1], w[2]) PROVE TypeOK'
  <2>1. w[1] \in Nat /\ w[2] \in Nat OBVIOUS
  <2> QED BY <1>1, <2>1 DEF Create
<1>2. ASSUME NEW c \in Caller, NEW e \in Event, CancelArmed(c, e) PROVE TypeOK'
  BY <1>2 DEF CancelArmed
<1>3. ASSUME NEW c \in Caller, NEW e \in Event, CancelRunning(c, e) PROVE TypeOK'
  BY <1>3 DEF CancelRunning
<1>4. ASSUME NEW c \in Caller, NEW e \in Event, NEW to \in Instant, PatchStop(c, e, to)
      PROVE TypeOK'
  BY <1>4 DEF PatchStop, Instant
<1>5. ASSUME NEW c \in Caller, Panic(c) PROVE TypeOK'
  BY <1>5 DEF Panic
<1>6. ASSUME NEW c \in Caller, PanicSweep(c) PROVE TypeOK'
  BY <1>6 DEF PanicSweep
<1>7. ASSUME NEW c \in Caller, OperatorStart(c) PROVE TypeOK'
  BY <1>7 DEF OperatorStart
<1>8. ASSUME NEW c \in Coroutine, Unpark(c) PROVE TypeOK'
  BY <1>8 DEF Unpark
<1>9. ASSUME NEW c \in Coroutine, Exec(c) PROVE TypeOK'
  <2>1. Woken(TaskAt(c)) \in [Coroutine -> Labels] BY DEF Woken
  <2>2. air' \in [Task -> Air] BY <1>9 DEF Exec
  <2>3. owner' \in [Task -> Event \cup {NoEvent}] BY <1>9 DEF Exec
  <2>4. pc' \in [Coroutine -> Labels] BY <1>9, <2>1 DEF Exec
  <2>5. UNCHANGED <<now, events, work, cur, opStop, calls, crashes>>
    BY <1>9, SMT DEF Exec
  <2>6. Persist \/ UNCHANGED disk BY <1>9, SMT DEF Exec
  <2> QED BY <2>2, <2>3, <2>4, <2>5, <2>6
<1>10. ASSUME NEW c \in Coroutine, Stopped(c) PROVE TypeOK'
  BY <1>10 DEF Stopped
<1>11. ASSUME NEW c \in Coroutine, Rest(c) PROVE TypeOK'
  BY <1>11 DEF Rest
<1>12. ASSUME NEW c \in Coroutine, NEW e \in Event, Stop(c, e) PROVE TypeOK'
  BY <1>12 DEF Stop, StopTask
<1>13. ASSUME NEW t \in Task, Exit(t) PROVE TypeOK'
  BY <1>13 DEF Exit, Woken
<1>14. ASSUME Tick PROVE TypeOK'
  BY <1>14 DEF Tick, DueStarts, DueStops
<1>15. ASSUME LateLaunch PROVE TypeOK'
  <2>1. air' \in [Task -> Air] BY <1>15 DEF LateLaunch, StopTask
  <2>2. opStop' \in [Task -> BOOLEAN] BY <1>15 DEF LateLaunch, StopTask
  <2>3. pc' \in [Coroutine -> Labels] BY <1>15 DEF LateLaunch, StopTask
  <2>4. UNCHANGED <<now, events, work, cur, owner, calls, crashes>>
    BY <1>15, SMT DEF LateLaunch
  <2>5. Persist \/ UNCHANGED disk BY <1>15, SMT DEF LateLaunch
  <2> QED BY <2>1, <2>2, <2>3, <2>4, <2>5
<1>16. ASSUME NEW e \in Event, TickStart(e) PROVE TypeOK'
  <2>1. st' \in [Event -> EventState \cup {"none"}] BY <1>16 DEF TickStart
  <2>2. opStop' \in [Task -> BOOLEAN] BY <1>16 DEF TickStart
  <2>3. pc' \in [Coroutine -> Labels] BY <1>16 DEF TickStart
  <2>4. cur' \in [Coroutine -> Event \cup {NoEvent}] BY <1>16 DEF TickStart
  <2>5. toStart' \subseteq Event BY <1>16 DEF TickStart
  <2>6. UNCHANGED <<now, startAt, stopAt, toStop, todo, air, owner, calls, crashes>>
    BY <1>16, SMT DEF TickStart
  <2>7. Persist \/ UNCHANGED disk BY <1>16, SMT DEF TickStart
  <2> QED BY <2>1, <2>2, <2>3, <2>4, <2>5, <2>6, <2>7
<1>17. ASSUME TimePasses PROVE TypeOK'
  BY <1>17 DEF TimePasses
<1>18. ASSUME NEW t \in Instant, CrashAndRestart(t) PROVE TypeOK'
  BY <1>18 DEF CrashAndRestart, Reconciled, Instant, Live
<1>19. CASE UNCHANGED vars BY <1>19 DEF vars
<1> QED
  BY <1>1, <1>2, <1>3, <1>4, <1>5, <1>6, <1>7, <1>8, <1>9, <1>10, <1>11, <1>12,
     <1>13, <1>14, <1>15, <1>16, <1>17, <1>18, <1>19 DEF Next

\* The type invariant of the scheduler.
THEOREM SchedulerTypes == Spec => []TypeOK
BY TypeInit, TypeStep, PTL DEF Spec

-----------------------------------------------------------------------------
(* SpentInv.                                                               *)

\* No event exists initially, so none is due and none is over.
LEMMA SpentInit == Init => SpentInv
BY DEF Init, SpentInv, Due, EventState, Live

\* A step that keeps the events and the clock, writes them to the disk or not,
\* and gives nobody an event to start or to stop, keeps SpentInv.
LEMMA SpentFrame ==
  ASSUME TypeOK, SpentInv, UNCHANGED <<now, st, startAt>>, Persist \/ UNCHANGED disk,
         toStart' \subseteq toStart, toStop' \subseteq toStop,
         \A c \in Caller : todo'[c] \subseteq todo[c]
  PROVE  SpentInv'
BY DEF TypeOK, SpentInv, Due, Persist

\* Every step keeps SpentInv.
LEMMA SpentStep == TypeOK /\ SpentInv /\ [Next]_vars => SpentInv'
<1> SUFFICES ASSUME TypeOK, SpentInv, [Next]_vars PROVE SpentInv' OBVIOUS
<1> USE DEF events, slots, work, calls
<1>1. ASSUME NEW e \in Event, NEW w \in Windows, Create(e, w[1], w[2]) PROVE SpentInv'
  <2>1. ~Due(e) BY <1>1 DEF Create, SpentInv
  <2> QED
    BY <1>1, <2>1 DEF Create, SetState, Persist, SpentInv, Due, TypeOK, EventState, Live
<1>2. ASSUME NEW c \in Caller, NEW e \in Event, CancelArmed(c, e) PROVE SpentInv'
  BY <1>2 DEF CancelArmed, SetState, Persist, SpentInv, Due, TypeOK, EventState, Live
<1>3. ASSUME NEW c \in Caller, NEW e \in Event, CancelRunning(c, e) PROVE SpentInv'
  BY <1>3 DEF CancelRunning, SpentInv, Due, TypeOK
<1>4. ASSUME NEW c \in Caller, NEW e \in Event, NEW to \in Instant, PatchStop(c, e, to)
      PROVE SpentInv'
  BY <1>4, SpentFrame DEF PatchStop
<1>5. ASSUME NEW c \in Caller, Panic(c) PROVE SpentInv'
  BY <1>5 DEF Panic, Persist, SpentInv, Due, TypeOK, EventState, Live
<1>6. ASSUME NEW c \in Caller, PanicSweep(c) PROVE SpentInv'
  BY <1>6, SpentFrame DEF PanicSweep
<1>7. ASSUME NEW c \in Caller, OperatorStart(c) PROVE SpentInv'
  BY <1>7, SpentFrame DEF OperatorStart
<1>8. ASSUME NEW c \in Coroutine, Unpark(c) PROVE SpentInv'
  BY <1>8, SpentFrame DEF Unpark
<1>9. ASSUME NEW c \in Coroutine, Exec(c) PROVE SpentInv'
  BY <1>9, SpentFrame DEF Exec
<1>10. ASSUME NEW c \in Coroutine, Stopped(c) PROVE SpentInv'
  BY <1>10, SpentFrame DEF Stopped
<1>11. ASSUME NEW c \in Coroutine, Rest(c) PROVE SpentInv'
  BY <1>11, SpentFrame DEF Rest
<1>12. ASSUME NEW c \in Coroutine, NEW e \in Event, Stop(c, e) PROVE SpentInv'
  <2>1. toStop' \subseteq toStop /\ UNCHANGED <<now, startAt, toStart>>
    BY <1>12 DEF Stop
  <2>2. \A d \in Caller : todo'[d] \subseteq todo[d] BY <1>12 DEF Stop, TypeOK
  <2>3. Due(e)
    BY <1>12 DEF Stop, Due, Coroutine
  <2>4. startAt[e] <= now /\ st[e] # "none" BY <2>3 DEF SpentInv
  <2>5. st' = [st EXCEPT ![e] = "COMPLETED"] BY <1>12 DEF Stop, SetState
  <2>6. Persist \/ UNCHANGED disk BY <1>12, SMT DEF Stop
  <2>7. ASSUME NEW d \in Event, d # e
        PROVE  /\ Due(d)' => st'[d] # "none" /\ startAt'[d] <= now'
               /\ st'[d] \in EventState \ Live
                    => disk'.state[d] \in EventState \ Live \/ startAt'[d] <= now'
               /\ st'[d] # "none" => disk'.state[d] # "none"
    <3>1. st'[d] = st[d] BY <2>5, <2>7 DEF TypeOK
    <3>2. Due(d)' => Due(d) BY <2>1, <2>2, <3>1 DEF Due
    <3> QED BY <2>1, <2>6, <3>1, <3>2 DEF SpentInv, Persist
  <2>8. st'[e] = "COMPLETED" BY <2>5 DEF TypeOK
  <2>9. disk'.state[e] # "none" BY <2>4, <2>6, <2>8 DEF SpentInv, Persist
  <2> QED BY <2>1, <2>4, <2>7, <2>8, <2>9 DEF SpentInv
<1>13. ASSUME NEW t \in Task, Exit(t) PROVE SpentInv'
  BY <1>13, SpentFrame DEF Exit
<1>14. ASSUME Tick PROVE SpentInv'
  BY <1>14 DEF Tick, DueStarts, DueStops, SpentInv, Due, TypeOK
<1>15. ASSUME LateLaunch PROVE SpentInv'
  BY <1>15, SpentFrame DEF LateLaunch
<1>16. ASSUME NEW e \in Event, TickStart(e) PROVE SpentInv'
  <2>1. toStart' \subseteq toStart /\ UNCHANGED <<now, startAt, toStop, todo>>
    BY <1>16 DEF TickStart
  <2>2. startAt[e] <= now /\ st[e] # "none" BY <1>16 DEF TickStart, SpentInv, Due
  <2>3. st' = [st EXCEPT ![e] = "RUNNING"] BY <1>16 DEF TickStart, SetState
  <2>4. Persist \/ UNCHANGED disk BY <1>16, SMT DEF TickStart
  <2>5. ASSUME NEW d \in Event, d # e
        PROVE  /\ Due(d)' => st'[d] # "none" /\ startAt'[d] <= now'
               /\ st'[d] \in EventState \ Live
                    => disk'.state[d] \in EventState \ Live \/ startAt'[d] <= now'
               /\ st'[d] # "none" => disk'.state[d] # "none"
    <3>1. st'[d] = st[d] BY <2>3, <2>5 DEF TypeOK
    <3>2. Due(d)' => Due(d) BY <2>1, <3>1 DEF Due
    <3> QED BY <2>1, <2>4, <3>1, <3>2 DEF SpentInv, Persist
  <2>6. st'[e] = "RUNNING" BY <2>3 DEF TypeOK
  <2>7. disk'.state[e] # "none" BY <2>2, <2>4, <2>6 DEF SpentInv, Persist
  <2> QED BY <2>1, <2>2, <2>5, <2>6, <2>7 DEF SpentInv, Live
<1>17. ASSUME TimePasses PROVE SpentInv'
  BY <1>17 DEF TimePasses, SpentInv, Due, TypeOK
<1>18. ASSUME NEW t \in Instant, CrashAndRestart(t) PROVE SpentInv'
  BY <1>18 DEF CrashAndRestart, Reconciled, Persist, SpentInv, Due, TypeOK, EventState, Live
<1>19. CASE UNCHANGED vars BY <1>19 DEF vars, SpentInv, Due
<1> QED
  BY <1>1, <1>2, <1>3, <1>4, <1>5, <1>6, <1>7, <1>8, <1>9, <1>10, <1>11, <1>12,
     <1>13, <1>14, <1>15, <1>16, <1>17, <1>18, <1>19 DEF Next

\* Whatever was started, stopped or cancelled is past its start time, or is known
\* to be over by the file the agent restarts from.
THEOREM SpentHolds == Spec => []SpentInv
BY TypeInit, TypeStep, SpentInit, SpentStep, PTL DEF Spec

-----------------------------------------------------------------------------
(* NeverRearmed.                                                           *)

\* The restart is the one step that could arm an event again.
LEMMA OnlyNewEventsAreArmed ==
  TypeOK /\ SpentInv /\ [Next]_vars
    => [\A e \in Event : st[e] \in EventState \ {"ARMED"} => st'[e] # "ARMED"]_vars
<1> SUFFICES ASSUME TypeOK, SpentInv, Next,
                    NEW e \in Event, st[e] \in EventState \ {"ARMED"}
             PROVE  st'[e] # "ARMED"
  OBVIOUS
<1> USE DEF events, SetState, TypeOK
<1>1. ASSUME NEW d \in Event, NEW w \in Windows, Create(d, w[1], w[2])
      PROVE  st'[e] # "ARMED"
  BY <1>1 DEF Create, EventState
<1>2. ASSUME NEW c \in Caller, NEW d \in Event, CancelArmed(c, d) PROVE st'[e] # "ARMED"
  BY <1>2 DEF CancelArmed
<1>3. ASSUME NEW c \in Caller, Panic(c) PROVE st'[e] # "ARMED"
  BY <1>3 DEF Panic
<1>4. ASSUME NEW c \in Coroutine, NEW d \in Event, Stop(c, d) PROVE st'[e] # "ARMED"
  BY <1>4, SMT DEF Stop
<1>5. ASSUME NEW d \in Event, TickStart(d) PROVE st'[e] # "ARMED"
  BY <1>5, SMT DEF TickStart
<1>6. ASSUME NEW t \in Instant, CrashAndRestart(t) PROVE st'[e] # "ARMED"
  <2>1. disk.state[e] \notin Live \/ startAt[e] <= now
    BY DEF SpentInv, Due, EventState, Live
  <2>2. startAt[e] <= now => startAt[e] <= t
    BY <1>6, BoundAssumption DEF CrashAndRestart, Instant
  <2>3. st'[e] = Reconciled(e, t) BY <1>6 DEF CrashAndRestart
  <2> QED BY <2>1, <2>2, <2>3 DEF Reconciled, Live
<1>7. ASSUME UNCHANGED st PROVE st'[e] # "ARMED"
  BY <1>7
<1> QED
  BY <1>1, <1>2, <1>3, <1>4, <1>5, <1>6, <1>7
  DEF Next, CancelRunning, PatchStop, PanicSweep, OperatorStart, Unpark, Exec, Stopped,
      Rest, Exit, Tick, LateLaunch, TimePasses

\* No event that fired or was cancelled is armed again, not even by a restart.
THEOREM NeverRearmedHolds == Spec => NeverRearmed
<1>1. Spec => [](TypeOK /\ SpentInv) BY SchedulerTypes, SpentHolds, PTL
<1> QED BY <1>1, OnlyNewEventsAreArmed, PTL DEF Spec, NeverRearmed
=============================================================================
