------------------------ MODULE ManagedProcessProofs ------------------------
(***************************************************************************)
(* Proofs about ManagedProcess, for any number of processes and of calls.  *)
(***************************************************************************)
EXTENDS ManagedProcess, TLAPS

\* The coroutines are pairwise different.
LEMMA Coroutines ==
  /\ \A p \in Proc : /\ W(p) \in Coroutine /\ W(p) \in Recovery
                     /\ R(p) \in Coroutine /\ R(p) \in Recovery
  /\ \A o \in Op : Call(o) \in Coroutine
  /\ Dog \in Coroutine
  /\ \A p, q \in Proc : /\ W(p) = W(q) => p = q
                        /\ R(p) = R(q) => p = q
                        /\ W(p) # R(q)
  /\ \A p \in Proc, o \in Op : W(p) # Call(o) /\ R(p) # Call(o)
  /\ \A p \in Proc : W(p) # Dog /\ R(p) # Dog
  /\ \A o \in Op : Call(o) # Dog
  /\ \A c \in Recovery : c \in Coroutine /\ c # Dog
  /\ \A o, u \in Op : Call(o) = Call(u) => o = u
BY DEF W, R, Call, Dog, Coroutine, Recovery

\* Cancelling coroutines and settling a cancelled launch keep the types.
LEMMA Cancelling ==
  ASSUME TypeOK, NEW C
  PROVE  /\ PcWithout(C) \in [Coroutine -> Awaits]
         /\ StateWithout(C) \in ProcessState
         /\ PcWithout({}) = pc
         /\ StateWithout({}) = state
BY DEF TypeOK, PcWithout, StateWithout, Cancelled, AnyAt, Awaits, ProcessState

\* Every step keeps the types.
LEMMA TypeStep == TypeOK /\ [Next]_vars => TypeOK'
<1> SUFFICES ASSUME TypeOK, [Next]_vars PROVE TypeOK'
  OBVIOUS
<1> USE Coroutines DEF TypeOK, ProcessState, Awaits, Exits, AllKinds, slotVars, Goto, At
<1>1. ASSUME NEW o \in Op, BeginStart(o) PROVE TypeOK'
  BY <1>1 DEF BeginStart, Begin
<1>2. ASSUME NEW o \in Op, BeginStop(o) PROVE TypeOK'
  <2>1. pc' \in [Coroutine -> Awaits]
    BY <1>2, Cancelling DEF BeginStop, StopFrom, Signal
  <2>2. os' \in [Proc -> {"free", "alive", "termed"} \cup Exits]
    BY <1>2, Cancelling DEF BeginStop, StopFrom, Signal
  <2>3. tgt' \in [Coroutine -> Proc \cup {NoProc}]
    BY <1>2, Cancelling DEF BeginStop, StopFrom, Signal
  <2>4. latch' \in Recovery \cup {NoOne}
    BY <1>2, Cancelling DEF BeginStop, Unwound
  <2>5. state' \in ProcessState
    BY <1>2, Cancelling DEF BeginStop, StopFrom
  <2>6. {stopReq', opStop', spawned', inDelay', alarmed', shutdown', wanted'} \subseteq BOOLEAN
    BY <1>2, Cancelling DEF BeginStop, Begin, Unwound
  <2> QED
    BY <1>2, <2>1, <2>2, <2>3, <2>4, <2>5, <2>6 DEF BeginStop, Begin
<1>3. ASSUME NEW o \in Op, BeginRestart(o) PROVE TypeOK'
  BY <1>3 DEF BeginRestart, Begin
<1>4. ASSUME NEW o \in Op, BeginPanic(o) PROVE TypeOK'
  <2>1. pc' \in [Coroutine -> Awaits]
    BY <1>4, Cancelling DEF BeginPanic, CancelAndStop, StopFrom, Signal
  <2>2. os' \in [Proc -> {"free", "alive", "termed"} \cup Exits]
    BY <1>4, Cancelling DEF BeginPanic, CancelAndStop, StopFrom, Signal
  <2>3. tgt' \in [Coroutine -> Proc \cup {NoProc}]
    BY <1>4, Cancelling DEF BeginPanic, CancelAndStop, StopFrom, Signal
  <2>4. latch' \in Recovery \cup {NoOne}
    BY <1>4, Cancelling DEF BeginPanic, CancelAndStop, Unwound
  <2>5. state' \in ProcessState
    BY <1>4, Cancelling DEF BeginPanic, CancelAndStop, StopFrom
  <2>6. {stopReq', opStop', spawned', inDelay', alarmed', shutdown', wanted'} \subseteq BOOLEAN
    BY <1>4, Cancelling DEF BeginPanic, Begin, CancelAndStop, Unwound
  <2> QED
    BY <1>4, <2>1, <2>2, <2>3, <2>4, <2>5, <2>6 DEF BeginPanic, Begin, CancelAndStop
<1>5. ASSUME NEW o \in Op, BeginShutdown(o) PROVE TypeOK'
  <2>1. pc' \in [Coroutine -> Awaits]
    BY <1>5, Cancelling DEF BeginShutdown, CancelAndStop, StopFrom, Signal
  <2>2. os' \in [Proc -> {"free", "alive", "termed"} \cup Exits]
    BY <1>5, Cancelling DEF BeginShutdown, CancelAndStop, StopFrom, Signal
  <2>3. tgt' \in [Coroutine -> Proc \cup {NoProc}]
    BY <1>5, Cancelling DEF BeginShutdown, CancelAndStop, StopFrom, Signal
  <2>4. latch' \in Recovery \cup {NoOne}
    BY <1>5, Cancelling DEF BeginShutdown, CancelAndStop, Unwound
  <2>5. state' \in ProcessState
    BY <1>5, Cancelling DEF BeginShutdown, CancelAndStop, StopFrom
  <2>6. {stopReq', opStop', spawned', inDelay', alarmed', shutdown', wanted'} \subseteq BOOLEAN
    BY <1>5, Cancelling DEF BeginShutdown, Begin, CancelAndStop, Unwound
  <2> QED
    BY <1>5, <2>1, <2>2, <2>3, <2>4, <2>5, <2>6 DEF BeginShutdown, Begin, CancelAndStop
<1>6. ASSUME NEW c \in Coroutine, Unpark(c) PROVE TypeOK'
  BY <1>6 DEF Unpark, Finish, StartSlot, Entered, Refused, Abandoned
<1>7. ASSUME NEW c \in Coroutine, Spawned(c) PROVE TypeOK'
  BY <1>7 DEF Spawned, Fresh
<1>8. ASSUME NEW c \in Coroutine, SpawnFailed(c) PROVE TypeOK'
  BY <1>8 DEF SpawnFailed, Finish
<1>9. ASSUME NEW c \in Coroutine, Killed(c) PROVE TypeOK'
  BY <1>9 DEF Killed, Finish
<1>10. ASSUME NEW c \in Coroutine, StopSpawned(c) PROVE TypeOK'
  <2>1. pc' \in [Coroutine -> Awaits]
    BY <1>10, Cancelling DEF StopSpawned, StopReturns, StopFrom, Signal
  <2>2. os' \in [Proc -> {"free", "alive", "termed"} \cup Exits]
    BY <1>10 DEF StopSpawned, StopFrom, Signal
  <2>3. tgt' \in [Coroutine -> Proc \cup {NoProc}]
    BY <1>10, Cancelling DEF StopSpawned, StopFrom, Signal
  <2>4. state' \in ProcessState
    BY <1>10, Cancelling DEF StopSpawned, StopFrom
  <2> QED
    BY <1>10, <2>1, <2>2, <2>3, <2>4 DEF StopSpawned
<1>11. ASSUME NEW c \in Coroutine, StopGivesUp(c) PROVE TypeOK'
  BY <1>11 DEF StopGivesUp, StopReturns
<1>12. ASSUME NEW c \in Coroutine, StopDone(c) PROVE TypeOK'
  BY <1>12 DEF StopDone, StopReturns, ExitSeen
<1>13. ASSUME NEW c \in Coroutine, Reap(c) PROVE TypeOK'
  <2>1. pc' \in [Coroutine -> Awaits]
    BY <1>13, Cancelling DEF Reap, Signal
  <2>2. os' \in [Proc -> {"free", "alive", "termed"} \cup Exits]
    BY <1>13, Cancelling DEF Reap, Signal
  <2>3. tgt' \in [Coroutine -> Proc \cup {NoProc}]
    BY <1>13, Cancelling DEF Reap, Signal
  <2> QED
    BY <1>13, <2>1, <2>2, <2>3 DEF Reap
<1>14. ASSUME NEW c \in Coroutine, Reaped(c) PROVE TypeOK'
  BY <1>14 DEF Reaped, ExitSeen
<1>15. ASSUME NEW c \in Coroutine, RestartUnpark(c) PROVE TypeOK'
  <2>1. pc' \in [Coroutine -> Awaits]
    BY <1>15, Cancelling DEF RestartUnpark, Signal, Finish, StartSlot,
         Entered, Refused
  <2>2. os' \in [Proc -> {"free", "alive", "termed"} \cup Exits]
    BY <1>15, Cancelling DEF RestartUnpark, Signal
  <2>3. tgt' \in [Coroutine -> Proc \cup {NoProc}]
    BY <1>15, Cancelling DEF RestartUnpark, Signal
  <2>4. latch' \in Recovery \cup {NoOne}
    BY <1>15, Cancelling DEF RestartUnpark, Unwound, Finish, StartSlot,
         Entered, Refused
  <2>5. state' \in ProcessState
    BY <1>15, Cancelling DEF RestartUnpark, StartSlot, Entered, Refused
  <2>6. {stopReq', opStop', spawned', inDelay', alarmed', shutdown', wanted'} \subseteq BOOLEAN
    BY <1>15, Cancelling DEF RestartUnpark, Unwound, StartSlot, Entered,
         Refused
  <2> QED
    BY <1>15, <2>1, <2>2, <2>3, <2>4, <2>5, <2>6 DEF RestartUnpark
<1>16. ASSUME NEW c \in Coroutine, RestartStopped(c) PROVE TypeOK'
  BY <1>16 DEF RestartStopped, ExitSeen
<1>17. ASSUME NEW c \in Coroutine, RestartWaited(c) PROVE TypeOK'
  BY <1>17 DEF RestartWaited, Finish, StartSlot, Entered, Refused
<1>18. ASSUME NEW c \in Coroutine, WatcherFinished(c) PROVE TypeOK'
  BY <1>18 DEF WatcherFinished
<1>19. ASSUME NEW c \in Coroutine, AutoRestartDelay(c) PROVE TypeOK'
  <2>1. pc' \in [Coroutine -> Awaits]
    BY <1>19 DEF AutoRestartDelay, Finish
  <2>2. latch' \in Recovery \cup {NoOne}
    BY <1>19 DEF AutoRestartDelay, Finish
  <2>3. {stopReq', opStop', spawned', inDelay', alarmed', shutdown', wanted'} \subseteq BOOLEAN
    BY <1>19 DEF AutoRestartDelay
  <2> QED
    BY <1>19, <2>1, <2>2, <2>3 DEF AutoRestartDelay
<1>20. ASSUME NEW p \in Proc, Exit(p) PROVE TypeOK'
  BY <1>20 DEF Exit
<1>21. ASSUME NEW p \in Proc, WatchExit(p) PROVE TypeOK'
  BY <1>21 DEF WatchExit
<1>22. ASSUME NEW p \in Proc, WatchTail(p) PROVE TypeOK'
  BY <1>22 DEF WatchTail
<1>23. ASSUME NEW p \in Proc, WatchFlagged(p) PROVE TypeOK'
  BY <1>23 DEF WatchFlagged
<1>24. ASSUME NEW p \in Proc, WatchDetail(p) PROVE TypeOK'
  BY <1>24 DEF WatchDetail
<1>25. ASSUME NEW p \in Proc, WatchCoupled(p) PROVE TypeOK'
  BY <1>25 DEF WatchCoupled
<1>26. ASSUME NEW p \in Proc, WatchEvent(p) PROVE TypeOK'
  BY <1>26 DEF WatchEvent
<1>27. ASSUME NEW p \in Proc, WatchDelay(p) PROVE TypeOK'
  BY <1>27 DEF WatchDelay, StartSlot, Entered, Finish, Refused
<1>28. ASSUME NEW p \in Proc, WatchAfter(p) PROVE TypeOK'
  <2>1. pc' \in [Coroutine -> Awaits]
    BY <1>28 DEF WatchAfter, AutoRestartBegins
  <2>2. tgt' \in [Coroutine -> Proc \cup {NoProc}]
    BY <1>28 DEF WatchAfter, AutoRestartBegins
  <2>3. latch' \in Recovery \cup {NoOne}
    BY <1>28 DEF WatchAfter, AutoRestartBegins
  <2>4. {stopReq', opStop', spawned', inDelay', alarmed', shutdown', wanted'} \subseteq BOOLEAN
    BY <1>28 DEF WatchAfter, AutoRestartBegins
  <2> QED
    BY <1>28, <2>1, <2>2, <2>3, <2>4 DEF WatchAfter
<1>29. ASSUME NEW p \in Proc, RelaunchBegins(p) PROVE TypeOK'
  <2>1. pc' \in [Coroutine -> Awaits]
    BY <1>29 DEF RelaunchBegins, AutoRestartBegins
  <2>2. tgt' \in [Coroutine -> Proc \cup {NoProc}]
    BY <1>29 DEF RelaunchBegins, AutoRestartBegins
  <2>3. latch' \in Recovery \cup {NoOne}
    BY <1>29 DEF RelaunchBegins, AutoRestartBegins
  <2>4. {stopReq', opStop', spawned', inDelay', alarmed', shutdown', wanted'} \subseteq BOOLEAN
    BY <1>29 DEF RelaunchBegins, AutoRestartBegins
  <2> QED
    BY <1>29, <2>1, <2>2, <2>3, <2>4 DEF RelaunchBegins
<1>30. ASSUME DogScans PROVE TypeOK'
  BY <1>30 DEF DogScans
<1>31. ASSUME DogReads PROVE TypeOK'
  BY <1>31 DEF DogReads, ScanStale
<1>32. ASSUME DogFlagged PROVE TypeOK'
  BY <1>32 DEF DogFlagged, ScanStale
<1>33. ASSUME DogStopped PROVE TypeOK'
  BY <1>33 DEF DogStopped, ExitSeen
<1>34. ASSUME DogAfter PROVE TypeOK'
  BY <1>34 DEF DogAfter
<1>35. ASSUME UNCHANGED vars PROVE TypeOK'
  BY <1>35 DEF vars
<1>36. QED
  BY <1>1, <1>2, <1>3, <1>4, <1>5, <1>6, <1>7, <1>8, <1>9, <1>10, <1>11,
     <1>12, <1>13, <1>14, <1>15, <1>16, <1>17, <1>18, <1>19, <1>20, <1>21,
     <1>22, <1>23, <1>24, <1>25, <1>26, <1>27, <1>28, <1>29, <1>30, <1>31,
     <1>32, <1>33, <1>34, <1>35 DEF Next

\* Between two steps of the event loop, when everyone who waits for an exit
\* has been served: a slot that can start is empty, and a slot that runs is
\* neither being launched nor stopped.
LEMMA Served ==
  ASSUME TypeOK, SlotInv, ~WakeRace, Turn
  PROVE  /\ CanStart => /\ \A c \in Coroutine : ~Launching(c) /\ ~Stopping(c)
                        /\ \A p \in Proc : ~Alive(p) /\ pc[W(p)] # "wait"
         /\ state = "RUNNING" =>
              /\ SlotAlive /\ pc[W(proc)] = "wait"
              /\ \A c \in Coroutine : ~Launching(c) /\ ~Stopping(c)
BY Coroutines DEF Turn, Settled, Waiting, SlotInv, LaunchInv, StopInv, WatchInv, Launching,
  Stopping, CanStart, SlotAlive, TypeOK

\* What cancelling coroutines leaves of the slot: nobody is moved into a
\* launch, a stop or a watch, and only a cancelled launch changes the state.
LEMMA Unwinding ==
  ASSUME TypeOK, SlotInv, NEW C \in SUBSET Coroutine
  PROVE  /\ \A c \in Coroutine :
              /\ PcWithout(C)[c] \in {pc[c], "done"}
              /\ pc[c] \notin CancelledAt => PcWithout(C)[c] = pc[c]
              /\ PcWithout(C)[c] = "exec" => StateWithout(C) = state /\ ~AnyAt(C, {"exec"})
         /\ StateWithout(C) # state =>
              /\ StateWithout(C) = "STOPPED" /\ state = "STARTING"
              /\ \E c \in Coroutine : pc[c] = "exec"
         /\ StateWithout(C) = state => ~AnyAt(C, {"exec"})
<1>1. \A c, d \in Coroutine : pc[c] = "exec" /\ pc[d] = "exec" => c = d
  BY DEF SlotInv, LaunchInv, Launching
<1>2. \A c \in Coroutine : pc[c] = "exec" => state = "STARTING"
  BY DEF SlotInv, LaunchInv
<1> QED
  BY <1>1, <1>2 DEF PcWithout, StateWithout, Cancelled, AnyAt, CancelledAt, TypeOK

\* A stop that has nothing to signal keeps the invariant.
LEMMA StopsQuietly ==
  ASSUME TypeOK, SlotInv, NEW o \in Op, NEW C \in SUBSET Coroutine,
         NEW l \in {"spawnwait", "done", "reap"},
         pc[Call(o)] \in {"idle", "spawnwait"},
         pc' = [PcWithout(C) EXCEPT ![Call(o)] = l],
         state' = StateWithout(C) \/ (state' = "STOPPED" /\ state = "CRASHED"),
         spawned' = (spawned \/ AnyAt(C, {"exec"})),
         UNCHANGED <<proc, os, tgt>>
  PROVE  LaunchInv' /\ StopInv' /\ WatchInv'
<1> USE Coroutines, Unwinding
        DEF SlotInv, LaunchInv, StopInv, WatchInv, Launching, Stopping, Alive, SlotAlive,
            TypeOK, CancelledAt
<1>1. pc' \in [Coroutine -> Awaits]
  BY Cancelling DEF Awaits
<1>2. LaunchInv'
  <2>1. \A c, d \in Coroutine : (Launching(c) /\ Launching(d))' => c = d
    BY <1>1
  <2>2. ASSUME NEW c \in Coroutine, pc'[c] = "exec"
        PROVE  state' = "STARTING" /\ ~spawned' /\ ~SlotAlive'
    <3>1. pc[c] = "exec" /\ PcWithout(C)[c] = "exec"
      BY <1>1, <2>2
    <3>2. state' = "STARTING" /\ ~SlotAlive'
      BY <3>1
    <3>3. ~spawned /\ ~AnyAt(C, {"exec"})
      BY <3>1
    <3> QED BY <3>2, <3>3
  <2>3. ASSUME NEW c \in Coroutine, pc'[c] = "kill"
        PROVE  /\ proc' \in Proc /\ tgt'[c] = proc' /\ pc'[W(proc')] = "idle"
               /\ Alive(proc)' => state' = "STARTING"
    <3>1. pc[c] = "kill"
      BY <1>1, <2>3
    <3>2. pc'[W(proc)] = "idle"
      BY <1>1, <3>1
    <3>3. \A d \in Coroutine : pc[d] # "exec"
      BY <3>1
    <3>4. StateWithout(C) = state
      BY <3>3
    <3> QED BY <3>1, <3>2, <3>4
  <2> QED BY <2>1, <2>2, <2>3
<1>3. StopInv'
  BY <1>1
<1>4. WatchInv'
  BY <1>1
<1> QED BY <1>2, <1>3, <1>4

\* A stop that signals the running process keeps it.
LEMMA StopSignals ==
  ASSUME ~WakeRace, TypeOK, SlotInv, Turn, NEW o \in Op, NEW C \in SUBSET Coroutine,
         NEW l \in {"term", "rterm"},
         pc[Call(o)] \in {"idle", "spawnwait", "rparked"},
         state = "RUNNING", state' = "STOPPING",
         Signal(Call(o), l, C),
         UNCHANGED proc
  PROVE  LaunchInv' /\ StopInv' /\ WatchInv'
<1> USE Coroutines, Unwinding, Served
        DEF SlotInv, LaunchInv, StopInv, WatchInv, Launching, Stopping, Alive, SlotAlive,
            TypeOK, CancelledAt, Signal
<1>1. pc' \in [Coroutine -> Awaits]
  BY Cancelling DEF Awaits
<1>2. LaunchInv'
  BY <1>1
<1>3. StopInv'
  BY <1>1
<1>4. WatchInv'
  BY <1>1
<1> QED BY <1>2, <1>3, <1>4

\* Every step keeps SlotInv.
LEMMA SlotStep ==
  ASSUME ~RestartOnCrash, ~SpawnMayStall, ~WakeRace, TypeOK, SlotInv, [Next]_vars
  PROVE  SlotInv'
<1> USE Coroutines DEF SlotInv, Launching, Stopping, Alive, SlotAlive, TypeOK,
                       slotVars, Goto, At
<1>1. ASSUME NEW o \in Op, BeginStart(o) PROVE SlotInv'
  BY <1>1, Served DEF BeginStart, Begin, LaunchInv, StopInv, ReapInv, WatchInv
<1>2. ASSUME NEW o \in Op, BeginStop(o) PROVE SlotInv'
  <2> DEFINE C == PendingRelaunch \cup PendingWatch
  <2>1. C \in SUBSET Coroutine
    BY DEF PendingRelaunch, PendingWatch
  <2>2. LaunchInv' /\ StopInv' /\ WatchInv'
    <3>1. CASE StateWithout(C) = "RUNNING"
      BY <1>2, <2>1, <3>1, Unwinding, StopSignals
      DEF BeginStop, Begin, StopFrom, PendingWatch
    <3>2. CASE StateWithout(C) # "RUNNING"
      BY <1>2, <2>1, <3>2, Unwinding, StopsQuietly
      DEF BeginStop, Begin, StopFrom, Unwound, PendingWatch
    <3> QED BY <3>1, <3>2
  <2>3. \A c \in Coroutine : c # Call(o) => pc'[c] \in {pc[c], "done"} /\ tgt'[c] = tgt[c]
    BY <1>2, <2>1, Unwinding, Cancelling DEF BeginStop, Begin, StopFrom, Signal
  <2>4. pc'[Call(o)] \in {"spawnwait", "term", "done"}
    BY <1>2, <2>1, Cancelling DEF BeginStop, Begin, StopFrom, Signal
  <2>5. ReapInv'
    BY <1>2, <2>3, <2>4 DEF BeginStop, Begin, ReapInv
  <2> QED BY <2>2, <2>5
<1>3. ASSUME NEW o \in Op, BeginRestart(o) PROVE SlotInv'
  BY <1>3, Served DEF BeginRestart, Begin, LaunchInv, StopInv, ReapInv,
     WatchInv
<1>4. ASSUME NEW o \in Op, BeginPanic(o) PROVE SlotInv'
  <2> DEFINE C == PendingRelaunch \cup PendingWatch \cup {}
  <2>1. C \in SUBSET Coroutine
    BY DEF PendingRelaunch, PendingWatch
  <2>2. LaunchInv' /\ StopInv' /\ WatchInv'
    <3>1. CASE StateWithout(C) = "RUNNING"
      BY <1>4, <2>1, <3>1, Unwinding, StopSignals
      DEF BeginPanic, CancelAndStop, Begin, StopFrom, PendingWatch
    <3>2. CASE StateWithout(C) # "RUNNING"
      BY <1>4, <2>1, <3>2, Unwinding, StopsQuietly
      DEF BeginPanic, CancelAndStop, Begin, StopFrom, Unwound, PendingWatch
    <3> QED BY <3>1, <3>2
  <2>3. \A c \in Coroutine : c # Call(o) => pc'[c] \in {pc[c], "done"} /\ tgt'[c] = tgt[c]
    BY <1>4, <2>1, Unwinding, Cancelling DEF BeginPanic, CancelAndStop, Begin, StopFrom, Signal
  <2>4. pc'[Call(o)] \in {"spawnwait", "term", "done"}
    BY <1>4, <2>1, Cancelling DEF BeginPanic, CancelAndStop, Begin, StopFrom, Signal
  <2>5. ReapInv'
    BY <1>4, <2>3, <2>4 DEF BeginPanic, CancelAndStop, Begin, ReapInv
  <2> QED BY <2>2, <2>5
<1>5. ASSUME NEW o \in Op, BeginShutdown(o) PROVE SlotInv'
  <2> DEFINE C == PendingRelaunch \cup PendingWatch \cup ({Call(q) : q \in Op \ {o}}
                       \cup (IF pc[Dog] = "term" THEN {} ELSE {Dog}))
  <2>1. C \in SUBSET Coroutine
    BY DEF PendingRelaunch, PendingWatch
  <2>2. LaunchInv' /\ StopInv' /\ WatchInv'
    <3>1. CASE StateWithout(C) = "RUNNING"
      BY <1>5, <2>1, <3>1, Unwinding, StopSignals
      DEF BeginShutdown, CancelAndStop, Begin, StopFrom, PendingWatch
    <3>2. CASE StateWithout(C) # "RUNNING"
      BY <1>5, <2>1, <3>2, Unwinding, StopsQuietly
      DEF BeginShutdown, CancelAndStop, Begin, StopFrom, Unwound, PendingWatch
    <3> QED BY <3>1, <3>2
  <2>3. \A c \in Coroutine : c # Call(o) => pc'[c] \in {pc[c], "done"} /\ tgt'[c] = tgt[c]
    BY <1>5, <2>1, Unwinding, Cancelling DEF BeginShutdown, CancelAndStop, Begin, StopFrom, Signal
  <2>4. pc'[Call(o)] \in {"spawnwait", "term", "reap"}
    BY <1>5, <2>1, Cancelling DEF BeginShutdown, CancelAndStop, Begin, StopFrom, Signal
  <2>5. ASSUME pc'[Call(o)] = "reap" PROVE \A c \in Coroutine : pc'[c] # "exec"
    <3>1. StateWithout(C) # "STARTING"
      BY <1>5, <2>1, <2>5, Cancelling, Unwinding
      DEF BeginShutdown, CancelAndStop, Begin, StopFrom, PendingWatch, Signal
    <3>2. \A c \in Coroutine : c # Call(o) => pc'[c] = PcWithout(C)[c]
      BY <1>5, <2>1, Cancelling DEF BeginShutdown, CancelAndStop, Begin, StopFrom, Signal
    <3>3. \A c \in Coroutine : pc[c] = "exec" => state = "STARTING"
      BY DEF LaunchInv
    <3> QED BY <2>1, <2>3, <2>5, <3>1, <3>2, <3>3, Unwinding
  <2>6. \A c \in Coroutine : pc[c] \notin {"rparked", "rterm", "rwait"}
    BY <1>5 DEF BeginShutdown, Begin, ReapInv
  <2>7. ~shutdown /\ shutdown' /\ proc' = proc
    BY <1>5 DEF BeginShutdown, CancelAndStop, Begin
  <2>8. ReapInv'
    BY <2>3, <2>4, <2>5, <2>6, <2>7 DEF ReapInv
  <2> QED BY <2>2, <2>8
<1>6. ASSUME NEW c \in Coroutine, Unpark(c) PROVE SlotInv'
  BY <1>6, Served DEF Unpark, Finish, StartSlot, Entered, Refused, Abandoned,
     LaunchInv, StopInv, ReapInv, WatchInv
<1>7. ASSUME NEW c \in Coroutine, Spawned(c) PROVE SlotInv'
  BY <1>7, Served DEF Spawned, Fresh, LaunchInv, StopInv, ReapInv, WatchInv
<1>8. ASSUME NEW c \in Coroutine, SpawnFailed(c) PROVE SlotInv'
  BY <1>8, Served DEF SpawnFailed, Finish, LaunchInv, StopInv, ReapInv,
     WatchInv
<1>9. ASSUME NEW c \in Coroutine, Killed(c) PROVE SlotInv'
  <2>1. LaunchInv'
    BY <1>9, Served DEF Killed, Finish, LaunchInv, StopInv, ReapInv, WatchInv
  <2>2. StopInv'
    BY <1>9, Served DEF Killed, Finish, StopInv, LaunchInv, ReapInv, WatchInv
  <2>3. ReapInv'
    BY <1>9, Served DEF Killed, Finish, ReapInv, LaunchInv, StopInv, WatchInv
  <2>4. WatchInv'
    BY <1>9, Served DEF Killed, Finish, WatchInv, LaunchInv, StopInv, ReapInv
  <2> QED
    BY <2>1, <2>2, <2>3, <2>4
<1>10. ASSUME NEW c \in Coroutine, StopSpawned(c) PROVE SlotInv'
  <2>1. PICK o \in Op : c = Call(o)
    BY <1>10 DEF StopSpawned, ReapInv
  <2>2. CASE state = "RUNNING"
    <3>1. Signal(Call(o), "term", {}) /\ state' = "STOPPING"
      BY <1>10, <2>1, <2>2, Cancelling DEF StopSpawned, StopFrom
    <3>2. LaunchInv' /\ StopInv' /\ WatchInv'
      BY <1>10, <2>1, <2>2, <3>1, StopSignals DEF StopSpawned
    <3>3. pc' = [pc EXCEPT ![c] = "term"]
      BY <2>1, <3>1, Cancelling DEF Signal
    <3>4. ReapInv'
      BY <1>10, <2>1, <3>1, <3>3 DEF StopSpawned, Signal, ReapInv
    <3> QED BY <3>2, <3>4
  <2>3. CASE state # "RUNNING"
    <3>1. /\ pc' = [pc EXCEPT ![c] = StopReturns(c)] /\ StopReturns(c) \in {"done", "reap"}
          /\ StopReturns(c) = "reap" => shutdown
          /\ UNCHANGED <<state, proc, spawned, os, tgt, kind, shutdown>>
      BY <1>10, <2>3 DEF StopSpawned, StopReturns, StopFrom, StateWithout, AnyAt, ReapInv
    <3>2. pc[c] = "spawnwait" /\ spawned
      BY <1>10 DEF StopSpawned
    <3>3. LaunchInv' /\ StopInv'
      BY <3>1, <3>2 DEF LaunchInv, StopInv
    <3>4. ReapInv'
      BY <2>1, <3>1, <3>2 DEF ReapInv, LaunchInv
    <3>5. WatchInv'
      BY <2>1, <3>1, <3>2 DEF WatchInv
    <3> QED BY <3>3, <3>4, <3>5
  <2> QED BY <2>2, <2>3
<1>11. ASSUME NEW c \in Coroutine, StopGivesUp(c) PROVE SlotInv'
  BY <1>11, Served DEF StopGivesUp, StopReturns, LaunchInv, StopInv, ReapInv,
     WatchInv
<1>12. ASSUME NEW c \in Coroutine, StopDone(c) PROVE SlotInv'
  <2>1. \A p \in Proc : pc[W(p)] # "wait" /\ ~Alive(p)
    <3>1. proc \in Proc /\ ~Alive(proc) /\ pc[W(proc)] # "wait"
      BY <1>12, ProcAssumption DEF StopDone, ExitSeen, StopInv
    <3> QED BY <3>1 DEF WatchInv
  <2>2. LaunchInv'
    BY <1>12, <2>1 DEF StopDone, StopReturns, LaunchInv,
         StopInv, ReapInv, WatchInv
  <2>3. StopInv'
    BY <1>12, <2>1 DEF StopDone, StopReturns, StopInv,
         LaunchInv, ReapInv, WatchInv
  <2>4. ReapInv'
    BY <1>12, <2>1 DEF StopDone, StopReturns, ReapInv,
         LaunchInv, StopInv, WatchInv
  <2>5. WatchInv'
    BY <1>12, <2>1 DEF StopDone, StopReturns, WatchInv,
         LaunchInv, StopInv, ReapInv
  <2> QED BY <2>2, <2>3, <2>4, <2>5
<1>13. ASSUME NEW c \in Coroutine, Reap(c) PROVE SlotInv'
  <2>1. PICK o \in Op : c = Call(o)
    BY <1>13 DEF Reap, ReapInv
  <2>2. /\ \/ pc' = [pc EXCEPT ![c] = "reaped"] /\ SlotAlive /\ tgt' = [tgt EXCEPT ![c] = proc]
              /\ os' = [os EXCEPT ![proc] = "termed"]
           \/ pc' = [pc EXCEPT ![c] = "done"] /\ UNCHANGED <<os, tgt>>
        /\ UNCHANGED <<state, proc, spawned, kind, shutdown>>
        /\ pc[c] = "reap"
    BY <1>13, Cancelling DEF Reap, Signal
  <2>3. LaunchInv'
    BY <2>1, <2>2 DEF LaunchInv
  <2>4. StopInv'
    BY <2>1, <2>2 DEF StopInv
  <2>5. ReapInv'
    BY <2>1, <2>2 DEF ReapInv
  <2>6. WatchInv'
    BY <2>1, <2>2 DEF WatchInv
  <2> QED BY <2>3, <2>4, <2>5, <2>6
<1>14. ASSUME NEW c \in Coroutine, Reaped(c) PROVE SlotInv'
  <2>1. \A p \in Proc : pc[W(p)] # "wait" /\ ~Alive(p)
    <3>1. proc \in Proc /\ ~Alive(proc) /\ pc[W(proc)] # "wait"
      BY <1>14, ProcAssumption DEF Reaped, ExitSeen, ReapInv
    <3> QED BY <3>1 DEF WatchInv
  <2>2. LaunchInv'
    BY <1>14, <2>1 DEF Reaped, LaunchInv, StopInv, ReapInv,
         WatchInv
  <2>3. StopInv'
    BY <1>14, <2>1 DEF Reaped, StopInv, LaunchInv, ReapInv,
         WatchInv
  <2>4. ReapInv'
    BY <1>14, <2>1 DEF Reaped, ReapInv, LaunchInv, StopInv,
         WatchInv
  <2>5. WatchInv'
    BY <1>14, <2>1 DEF Reaped, WatchInv, LaunchInv, StopInv,
         ReapInv
  <2> QED BY <2>2, <2>3, <2>4, <2>5
<1>15. ASSUME NEW c \in Coroutine, RestartUnpark(c) PROVE SlotInv'
  <2>1. PICK o \in Op : c = Call(o)
    BY <1>15 DEF RestartUnpark, ReapInv
  <2>2. pc[c] = "rparked" /\ Turn /\ ~shutdown /\ UNCHANGED <<proc, kind, shutdown>>
    BY <1>15 DEF RestartUnpark, ReapInv
  <2>3. CASE /\ state = "RUNNING" /\ state' = "STOPPING"
             /\ Signal(c, "rterm", PendingRelaunch)
    <3>1. PendingRelaunch \in SUBSET Coroutine
      BY DEF PendingRelaunch
    <3>2. LaunchInv' /\ StopInv' /\ WatchInv'
      BY <2>1, <2>2, <2>3, <3>1, StopSignals
    <3>3. \A d \in Coroutine : d # c => pc'[d] \in {pc[d], "done"} /\ tgt'[d] = tgt[d]
      BY <2>3, <3>1, Unwinding, Cancelling DEF Signal
    <3>4. pc'[c] = "rterm"
      BY <2>3, Cancelling DEF Signal
    <3>5. ReapInv'
      BY <2>1, <2>2, <3>3, <3>4 DEF ReapInv
    <3> QED BY <3>2, <3>5
  <2>4. CASE /\ pc' = [pc EXCEPT ![c] = "rwait"] \/ Finish(c)
             /\ UNCHANGED <<state, spawned, os, tgt>>
    <3>1. pc' = [pc EXCEPT ![c] = "rwait"] \/ pc' = [pc EXCEPT ![c] = "done"]
      BY <2>4 DEF Finish
    <3> QED BY <2>1, <2>2, <2>4, <3>1 DEF LaunchInv, StopInv, ReapInv, WatchInv
  <2>5. CASE StartSlot(c) /\ UNCHANGED <<os, tgt>>
    BY <2>1, <2>2, <2>5, Served
    DEF StartSlot, Entered, Refused, Finish, LaunchInv, StopInv, ReapInv, WatchInv
  <2> QED
    BY <1>15, <2>3, <2>4, <2>5 DEF RestartUnpark
<1>16. ASSUME NEW c \in Coroutine, RestartStopped(c) PROVE SlotInv'
  <2>1. \A p \in Proc : pc[W(p)] # "wait" /\ ~Alive(p)
    <3>1. proc \in Proc /\ ~Alive(proc) /\ pc[W(proc)] # "wait"
      BY <1>16, ProcAssumption DEF RestartStopped, ExitSeen, StopInv
    <3> QED BY <3>1 DEF WatchInv
  <2>2. LaunchInv'
    BY <1>16, <2>1 DEF RestartStopped, LaunchInv, StopInv,
         ReapInv, WatchInv
  <2>3. StopInv'
    BY <1>16, <2>1 DEF RestartStopped, StopInv, LaunchInv,
         ReapInv, WatchInv
  <2>4. ReapInv'
    BY <1>16, <2>1 DEF RestartStopped, ReapInv, LaunchInv,
         StopInv, WatchInv
  <2>5. WatchInv'
    BY <1>16, <2>1 DEF RestartStopped, WatchInv, LaunchInv,
         StopInv, ReapInv
  <2> QED BY <2>2, <2>3, <2>4, <2>5
<1>17. ASSUME NEW c \in Coroutine, RestartWaited(c) PROVE SlotInv'
  BY <1>17, Served DEF RestartWaited, Finish, StartSlot, Entered, Refused,
     LaunchInv, StopInv, ReapInv, WatchInv
<1>18. ASSUME NEW c \in Coroutine, WatcherFinished(c) PROVE SlotInv'
  BY <1>18, Served DEF WatcherFinished, LaunchInv, StopInv, ReapInv, WatchInv
<1>19. ASSUME NEW c \in Coroutine, AutoRestartDelay(c) PROVE SlotInv'
  BY <1>19, Served DEF AutoRestartDelay, Finish, LaunchInv, StopInv, ReapInv,
     WatchInv
<1>20. ASSUME NEW p \in Proc, Exit(p) PROVE SlotInv'
  <2>1. \A q \in Proc : (Alive(q)' => Alive(q)) /\ (os'[q] = "free" => os[q] = "free")
    BY <1>20 DEF Exit, Exits
  <2>2. LaunchInv' /\ StopInv' /\ ReapInv'
    BY <1>20, <2>1 DEF Exit, LaunchInv, StopInv, ReapInv
  <2>3. WatchInv'
    BY <1>20, <2>1 DEF Exit, WatchInv
  <2> QED BY <2>2, <2>3
<1>21. ASSUME NEW p \in Proc, WatchExit(p) PROVE SlotInv'
  BY <1>21, Served DEF WatchExit, LaunchInv, StopInv, ReapInv, WatchInv
<1>22. ASSUME NEW p \in Proc, WatchTail(p) PROVE SlotInv'
  BY <1>22, Served DEF WatchTail, LaunchInv, StopInv, ReapInv, WatchInv
<1>23. ASSUME NEW p \in Proc, WatchFlagged(p) PROVE SlotInv'
  BY <1>23, Served DEF WatchFlagged, LaunchInv, StopInv, ReapInv, WatchInv
<1>24. ASSUME NEW p \in Proc, WatchDetail(p) PROVE SlotInv'
  BY <1>24, Served DEF WatchDetail, LaunchInv, StopInv, ReapInv, WatchInv
<1>25. ASSUME NEW p \in Proc, WatchCoupled(p) PROVE SlotInv'
  BY <1>25, Served DEF WatchCoupled, LaunchInv, StopInv, ReapInv, WatchInv
<1>26. ASSUME NEW p \in Proc, WatchEvent(p) PROVE SlotInv'
  BY <1>26, Served DEF WatchEvent, LaunchInv, StopInv, ReapInv, WatchInv
<1>27. ASSUME NEW p \in Proc, WatchDelay(p) PROVE SlotInv'
  BY <1>27, Served DEF WatchDelay, StartSlot, Entered, Finish, Refused,
     LaunchInv, StopInv, ReapInv, WatchInv
<1>28. ASSUME NEW p \in Proc, WatchAfter(p) PROVE SlotInv'
  BY <1>28, Served DEF WatchAfter, AutoRestartBegins, WatcherGone, LaunchInv,
     StopInv, ReapInv, WatchInv
<1>29. ASSUME NEW p \in Proc, RelaunchBegins(p) PROVE SlotInv'
  BY <1>29, Served DEF RelaunchBegins, AutoRestartBegins, WatcherGone,
     LaunchInv, StopInv, ReapInv, WatchInv
<1>30. ASSUME DogScans PROVE SlotInv'
  BY <1>30, Served DEF DogScans, LaunchInv, StopInv, ReapInv, WatchInv
<1>31. ASSUME DogReads PROVE SlotInv'
  BY <1>31, Served DEF DogReads, ScanStale, LaunchInv, StopInv, ReapInv,
     WatchInv
<1>32. ASSUME DogFlagged PROVE SlotInv'
  BY <1>32, Served DEF DogFlagged, ScanStale, LaunchInv, StopInv, ReapInv,
     WatchInv
<1>33. ASSUME DogStopped PROVE SlotInv'
  <2>1. \A p \in Proc : pc[W(p)] # "wait" /\ ~Alive(p)
    <3>1. proc \in Proc /\ ~Alive(proc) /\ pc[W(proc)] # "wait"
      BY <1>33, ProcAssumption DEF DogStopped, ExitSeen, StopInv
    <3> QED BY <3>1 DEF WatchInv
  <2>2. LaunchInv'
    BY <1>33, <2>1 DEF DogStopped, LaunchInv, StopInv,
         ReapInv, WatchInv
  <2>3. StopInv'
    BY <1>33, <2>1 DEF DogStopped, StopInv, LaunchInv,
         ReapInv, WatchInv
  <2>4. ReapInv'
    BY <1>33, <2>1 DEF DogStopped, ReapInv, LaunchInv,
         StopInv, WatchInv
  <2>5. WatchInv'
    BY <1>33, <2>1 DEF DogStopped, WatchInv, LaunchInv,
         StopInv, ReapInv
  <2> QED BY <2>2, <2>3, <2>4, <2>5
<1>34. ASSUME DogAfter PROVE SlotInv'
  BY <1>34, Served DEF DogAfter, LaunchInv, StopInv, ReapInv, WatchInv
<1>35. ASSUME UNCHANGED vars PROVE SlotInv'
  BY <1>35 DEF vars, LaunchInv, StopInv, ReapInv, WatchInv
<1>36. QED
  BY <1>1, <1>2, <1>3, <1>4, <1>5, <1>6, <1>7, <1>8, <1>9, <1>10, <1>11,
     <1>12, <1>13, <1>14, <1>15, <1>16, <1>17, <1>18, <1>19, <1>20, <1>21,
     <1>22, <1>23, <1>24, <1>25, <1>26, <1>27, <1>28, <1>29, <1>30, <1>31,
     <1>32, <1>33, <1>34, <1>35 DEF Next

-----------------------------------------------------------------------------
(* The theorems.                                                           *)

\* The initial state satisfies the invariants.
LEMMA Initially == Init => TypeOK /\ SlotInv /\ IntentInv
<1> SUFFICES ASSUME Init PROVE TypeOK /\ SlotInv /\ IntentInv
  OBVIOUS
<1>1. TypeOK
  BY Coroutines DEF Init, TypeOK, ProcessState, Awaits, Exits, AllKinds
<1>2. \A c \in Coroutine : pc[c] = "idle"
  BY DEF Init
<1>3. \A p \in Proc : ~Alive(p)
  BY DEF Init, Alive
<1>4. state = "STOPPED" /\ (\A o \in Op : kind[o] = "none")
  BY DEF Init
<1>5. SlotInv
  BY <1>2, <1>3, <1>4, Coroutines
  DEF SlotInv, LaunchInv, StopInv, ReapInv, WatchInv, Launching, Stopping
<1> QED BY <1>1, <1>2, <1>5 DEF IntentInv

\* Every variable keeps its type, whatever the switches.
THEOREM TypeCorrect == Spec => []TypeOK
BY Initially, TypeStep, PTL DEF Spec

\* The slot's bookkeeping is sound when nothing stalls or slips in between.
THEOREM SlotInvariant ==
  ASSUME ~RestartOnCrash, ~SpawnMayStall, ~WakeRace
  PROVE  Spec => []SlotInv
<1>1. TypeOK /\ SlotInv /\ [Next]_vars => SlotInv'
  BY SlotStep
<1> QED
  BY <1>1, Initially, TypeCorrect, PTL DEF Spec

\* However many calls, exits, faults and auto-restarts interleave, two
\* processes never hold the TX channel at once.
THEOREM OneTransmitterHolds ==
  ASSUME ~RestartOnCrash, ~SpawnMayStall, ~WakeRace
  PROVE  Spec => []OneTransmitter
<1>1. SlotInv => OneTransmitter
  BY DEF SlotInv, WatchInv, OneTransmitter
<1> QED
  BY <1>1, SlotInvariant, PTL

\* What is alive is the slot's process, and the slot's state says so.
THEOREM NoOrphanHolds ==
  ASSUME ~RestartOnCrash, ~SpawnMayStall, ~WakeRace
  PROVE  Spec => []NoOrphan
<1>1. SlotInv => NoOrphan
  BY Coroutines DEF SlotInv, WatchInv, LaunchInv, NoOrphan
<1> QED
  BY <1>1, SlotInvariant, PTL

\* Every step keeps IntentInv, as long as nobody calls restart().
LEMMA IntentStep ==
  ASSUME ~RestartOnCrash, "restart" \notin Kinds, TypeOK, SlotInv, IntentInv,
         [Next]_vars
  PROVE  IntentInv'
<1> USE Coroutines DEF IntentInv, TypeOK, slotVars, Goto, At
<1>1. ASSUME NEW o \in Op, BeginStart(o) PROVE IntentInv'
  BY <1>1 DEF BeginStart, Begin, SlotInv, LaunchInv, ReapInv
<1>2. ASSUME NEW o \in Op, BeginStop(o) PROVE IntentInv'
  BY <1>2 DEF BeginStop, StopFrom, WatcherGone, PendingWatch, PcWithout,
     Signal, StateWithout, Unwound, PendingRelaunch, Begin, SlotInv,
     LaunchInv, ReapInv
<1>3. ASSUME NEW o \in Op, BeginRestart(o) PROVE IntentInv'
  BY <1>3 DEF BeginRestart, Begin, SlotInv, LaunchInv, ReapInv
<1>4. ASSUME NEW o \in Op, BeginPanic(o) PROVE IntentInv'
  <2> DEFINE C == PendingRelaunch \cup PendingWatch \cup {}
  <2>1. C \in SUBSET Coroutine
    BY DEF PendingRelaunch, PendingWatch
  <2>2. /\ opStop' = TRUE
        /\ pc'[Call(o)] \in {"spawnwait", "term", "done", "reap"}
        /\ \A c \in Coroutine : c # Call(o) => pc'[c] = PcWithout(C)[c]
    BY <1>4, <2>1, Cancelling DEF BeginPanic, CancelAndStop, StopFrom, Signal
  <2>3. ASSUME NEW c \in Coroutine, pc'[c] = "exec" PROVE stopReq'
    <3> HIDE DEF C
    <3>1. PcWithout(C)[c] = "exec"
      BY <2>2, <2>3
    <3>3. pc[c] = "exec"
      BY <2>1, <3>1, Unwinding
    <3>2. state = "STARTING" /\ StateWithout(C) = "STARTING" /\ PendingWatch = {}
      BY <2>1, <3>1, <3>3, Unwinding DEF SlotInv, LaunchInv, PendingWatch
    <3> QED BY <1>4, <3>2 DEF BeginPanic, CancelAndStop, C
  <2>4. ASSUME NEW c \in Coroutine PROVE pc'[c] \notin {"rparked", "rterm", "rwait"}
    BY <2>1, <2>2, Unwinding
  <2> QED BY <2>2, <2>3, <2>4
<1>5. ASSUME NEW o \in Op, BeginShutdown(o) PROVE IntentInv'
  <2> DEFINE C == PendingRelaunch \cup PendingWatch \cup ({Call(q) : q \in Op \ {o}}
                       \cup (IF pc[Dog] = "term" THEN {} ELSE {Dog}))
  <2>1. C \in SUBSET Coroutine
    BY DEF PendingRelaunch, PendingWatch
  <2>2. /\ opStop' = TRUE
        /\ pc'[Call(o)] \in {"spawnwait", "term", "done", "reap"}
        /\ \A c \in Coroutine : c # Call(o) => pc'[c] = PcWithout(C)[c]
    BY <1>5, <2>1, Cancelling DEF BeginShutdown, CancelAndStop, StopFrom, Signal
  <2>3. ASSUME NEW c \in Coroutine, pc'[c] = "exec" PROVE stopReq'
    <3> HIDE DEF C
    <3>1. PcWithout(C)[c] = "exec"
      BY <2>2, <2>3
    <3>3. pc[c] = "exec"
      BY <2>1, <3>1, Unwinding
    <3>2. state = "STARTING" /\ StateWithout(C) = "STARTING" /\ PendingWatch = {}
      BY <2>1, <3>1, <3>3, Unwinding DEF SlotInv, LaunchInv, PendingWatch
    <3> QED BY <1>5, <3>2 DEF BeginShutdown, CancelAndStop, C
  <2>4. ASSUME NEW c \in Coroutine PROVE pc'[c] \notin {"rparked", "rterm", "rwait"}
    BY <2>1, <2>2, Unwinding
  <2> QED BY <2>2, <2>3, <2>4
<1>6. ASSUME NEW c \in Coroutine, Unpark(c) PROVE IntentInv'
  BY <1>6 DEF Unpark, Finish, StartSlot, Entered, Refused, Abandoned, SlotInv,
     LaunchInv, ReapInv
<1>7. ASSUME NEW c \in Coroutine, Spawned(c) PROVE IntentInv'
  BY <1>7 DEF Spawned, Fresh, SlotInv, LaunchInv, ReapInv
<1>8. ASSUME NEW c \in Coroutine, SpawnFailed(c) PROVE IntentInv'
  BY <1>8 DEF SpawnFailed, Finish, SlotInv, LaunchInv, ReapInv
<1>9. ASSUME NEW c \in Coroutine, Killed(c) PROVE IntentInv'
  BY <1>9 DEF Killed, Finish, SlotInv, LaunchInv, ReapInv
<1>10. ASSUME NEW c \in Coroutine, StopSpawned(c) PROVE IntentInv'
  BY <1>10 DEF StopSpawned, StopReturns, StopFrom, WatcherGone, PendingWatch,
     PcWithout, Signal, StateWithout, SlotInv, LaunchInv, ReapInv
<1>11. ASSUME NEW c \in Coroutine, StopGivesUp(c) PROVE IntentInv'
  BY <1>11 DEF StopGivesUp, StopReturns, SlotInv, LaunchInv, ReapInv
<1>12. ASSUME NEW c \in Coroutine, StopDone(c) PROVE IntentInv'
  BY <1>12 DEF StopDone, StopReturns, ExitSeen, SlotInv, LaunchInv, ReapInv
<1>13. ASSUME NEW c \in Coroutine, Reap(c) PROVE IntentInv'
  BY <1>13 DEF Reap, Signal, PcWithout, SlotInv, LaunchInv, ReapInv
<1>14. ASSUME NEW c \in Coroutine, Reaped(c) PROVE IntentInv'
  BY <1>14 DEF Reaped, ExitSeen, SlotInv, LaunchInv, ReapInv
<1>15. ASSUME NEW c \in Coroutine, RestartUnpark(c) PROVE IntentInv'
  BY <1>15 DEF RestartUnpark, Finish, StartSlot, Entered, Refused,
     PendingRelaunch, Signal, PcWithout, Unwound, SlotInv, LaunchInv, ReapInv
<1>16. ASSUME NEW c \in Coroutine, RestartStopped(c) PROVE IntentInv'
  BY <1>16 DEF RestartStopped, ExitSeen, SlotInv, LaunchInv, ReapInv
<1>17. ASSUME NEW c \in Coroutine, RestartWaited(c) PROVE IntentInv'
  BY <1>17 DEF RestartWaited, Finish, StartSlot, Entered, Refused, SlotInv,
     LaunchInv, ReapInv
<1>18. ASSUME NEW c \in Coroutine, WatcherFinished(c) PROVE IntentInv'
  BY <1>18 DEF WatcherFinished, SlotInv, LaunchInv, ReapInv
<1>19. ASSUME NEW c \in Coroutine, AutoRestartDelay(c) PROVE IntentInv'
  BY <1>19 DEF AutoRestartDelay, Finish, SlotInv, LaunchInv, ReapInv
<1>20. ASSUME NEW p \in Proc, Exit(p) PROVE IntentInv'
  BY <1>20 DEF Exit, SlotInv, LaunchInv, ReapInv
<1>21. ASSUME NEW p \in Proc, WatchExit(p) PROVE IntentInv'
  BY <1>21 DEF WatchExit, SlotInv, LaunchInv, ReapInv
<1>22. ASSUME NEW p \in Proc, WatchTail(p) PROVE IntentInv'
  BY <1>22 DEF WatchTail, SlotInv, LaunchInv, ReapInv
<1>23. ASSUME NEW p \in Proc, WatchFlagged(p) PROVE IntentInv'
  BY <1>23 DEF WatchFlagged, SlotInv, LaunchInv, ReapInv
<1>24. ASSUME NEW p \in Proc, WatchDetail(p) PROVE IntentInv'
  BY <1>24 DEF WatchDetail, SlotInv, LaunchInv, ReapInv
<1>25. ASSUME NEW p \in Proc, WatchCoupled(p) PROVE IntentInv'
  BY <1>25 DEF WatchCoupled, SlotInv, LaunchInv, ReapInv
<1>26. ASSUME NEW p \in Proc, WatchEvent(p) PROVE IntentInv'
  BY <1>26 DEF WatchEvent, SlotInv, LaunchInv, ReapInv
<1>27. ASSUME NEW p \in Proc, WatchDelay(p) PROVE IntentInv'
  BY <1>27 DEF WatchDelay, StartSlot, Entered, Finish, Refused, SlotInv,
     LaunchInv, ReapInv
<1>28. ASSUME NEW p \in Proc, WatchAfter(p) PROVE IntentInv'
  BY <1>28 DEF WatchAfter, AutoRestartBegins, WatcherGone, SlotInv, LaunchInv,
     ReapInv
<1>29. ASSUME NEW p \in Proc, RelaunchBegins(p) PROVE IntentInv'
  BY <1>29 DEF RelaunchBegins, AutoRestartBegins, WatcherGone, SlotInv,
     LaunchInv, ReapInv
<1>30. ASSUME DogScans PROVE IntentInv'
  BY <1>30 DEF DogScans, SlotInv, WatchInv
<1>31. ASSUME DogReads PROVE IntentInv'
  BY <1>31 DEF DogReads, ScanStale, SlotInv, LaunchInv, ReapInv
<1>32. ASSUME DogFlagged PROVE IntentInv'
  BY <1>32 DEF DogFlagged, ScanStale, SlotInv, LaunchInv, ReapInv
<1>33. ASSUME DogStopped PROVE IntentInv'
  BY <1>33 DEF DogStopped, ExitSeen, SlotInv, LaunchInv, ReapInv
<1>34. ASSUME DogAfter PROVE IntentInv'
  BY <1>34 DEF DogAfter, SlotInv, LaunchInv, ReapInv
<1>35. ASSUME UNCHANGED vars PROVE IntentInv'
  BY <1>35 DEF vars
<1>36. QED
  BY <1>1, <1>2, <1>3, <1>4, <1>5, <1>6, <1>7, <1>8, <1>9, <1>10, <1>11,
     <1>12, <1>13, <1>14, <1>15, <1>16, <1>17, <1>18, <1>19, <1>20, <1>21,
     <1>22, <1>23, <1>24, <1>25, <1>26, <1>27, <1>28, <1>29, <1>30, <1>31,
     <1>32, <1>33, <1>34, <1>35 DEF Next

\* Signalling the slot's process empties the channel.
LEMMA Dropping ==
  ASSUME TypeOK, SlotInv, proc \in Proc, Alive(proc), os' = [os EXCEPT ![proc] = "termed"]
  PROVE  OnAir' = {} /\ Leaving' = Leaving \cup OnAir
BY DEF TypeOK, SlotInv, WatchInv, OnAir, Leaving, Alive, Exits

\* Every step of the slot is a step of TransmitterSlot, or leaves it alone.
LEMMA PromiseStep ==
  ASSUME ~RestartOnCrash, ~SpawnMayStall, ~WakeRace, "restart" \notin Kinds,
         TypeOK, SlotInv, IntentInv, [Next]_vars
  PROVE  [Slot!Next]_(Slot!slotView)
<1> DEFINE Goal == [Slot!Next]_(Slot!slotView)
<1> USE DEF Slot!Next, Slot!slotView
<1> HIDE DEF Goal
<1>a. ASSUME UNCHANGED <<os, wanted>> PROVE Goal
  BY <1>a DEF Goal, OnAir, Leaving
<1>b. ASSUME UNCHANGED os, wanted' \in BOOLEAN PROVE Goal
  BY <1>b DEF Goal, OnAir, Leaving, Slot!Ask
<1>c. ASSUME SlotAlive, os' = [os EXCEPT ![proc] = "termed"], wanted' \in BOOLEAN
      PROVE  Slot!Ask
  BY <1>c, Dropping DEF Slot!Ask, SlotAlive, TypeOK
<1>d. ASSUME SlotAlive, os' = [os EXCEPT ![proc] = "termed"], UNCHANGED wanted
      PROVE  Goal
  <2>1. OnAir' = {} /\ Leaving' = Leaving \cup OnAir
    BY <1>d, Dropping DEF SlotAlive, TypeOK
  <2> QED BY <1>d, <2>1 DEF Goal, Slot!Drop
<1>1. ASSUME NEW o \in Op, BeginStart(o) PROVE Goal
  BY <1>1, <1>b DEF BeginStart
<1>2. ASSUME NEW o \in Op, BeginStop(o) PROVE Goal
  <2>1. /\ \/ UNCHANGED os
           \/ SlotAlive /\ os' = [os EXCEPT ![proc] = "termed"]
        /\ wanted' = FALSE
    BY <1>2 DEF BeginStop, StopFrom, Signal
  <2> QED BY <1>b, <1>c, <2>1 DEF Goal
<1>3. ASSUME NEW o \in Op, BeginRestart(o) PROVE Goal
  BY <1>3, <1>b DEF BeginRestart
<1>4. ASSUME NEW o \in Op, BeginPanic(o) PROVE Goal
  <2>1. /\ \/ UNCHANGED os
           \/ SlotAlive /\ os' = [os EXCEPT ![proc] = "termed"]
        /\ wanted' = FALSE
    BY <1>4 DEF BeginPanic, CancelAndStop, StopFrom, Signal
  <2> QED BY <1>b, <1>c, <2>1 DEF Goal
<1>5. ASSUME NEW o \in Op, BeginShutdown(o) PROVE Goal
  <2>1. /\ \/ UNCHANGED os
           \/ SlotAlive /\ os' = [os EXCEPT ![proc] = "termed"]
        /\ wanted' = FALSE
    BY <1>5 DEF BeginShutdown, CancelAndStop, StopFrom, Signal
  <2> QED BY <1>b, <1>c, <2>1 DEF Goal
<1>6. ASSUME NEW c \in Coroutine, Unpark(c) PROVE Goal
  BY <1>6, <1>a DEF Unpark, StartSlot, Refused, Entered
<1>7. ASSUME NEW c \in Coroutine, Spawned(c) PROVE Goal
  <2>1. PICK p \in Proc :
          /\ Fresh(p) /\ UNCHANGED wanted
          /\ \/ stopReq /\ os' = [os EXCEPT ![p] = "termed"]
             \/ ~stopReq /\ os' = [os EXCEPT ![p] = "alive"]
    BY <1>7 DEF Spawned
  <2>2. (stopReq \/ wanted) /\ \A q \in Proc : ~Alive(q)
    BY <1>7, ProcAssumption
    DEF Spawned, At, SlotInv, LaunchInv, WatchInv, IntentInv, SlotAlive
  <2>3. OnAir = {} /\ Leaving = {}
    BY <2>2 DEF OnAir, Leaving, Alive
  <2>4. CASE stopReq
    <3>1. Leaving' = {p} /\ OnAir' = {}
      BY <2>1, <2>2, <2>4 DEF Leaving, OnAir, TypeOK, Alive
    <3> QED BY <2>1, <2>3, <3>1 DEF Goal, Slot!StillBorn
  <2>5. CASE ~stopReq
    <3>1. Leaving' = {} /\ OnAir' = {p}
      BY <2>1, <2>2, <2>5 DEF Leaving, OnAir, TypeOK, Alive
    <3> QED BY <2>1, <2>2, <2>3, <2>5, <3>1 DEF Goal, Slot!TakeAir
  <2> QED BY <2>4, <2>5
<1>8. ASSUME NEW c \in Coroutine, SpawnFailed(c) PROVE Goal
  <2>1. ~SlotAlive
    BY <1>8 DEF SpawnFailed, At, SlotInv, LaunchInv
  <2> QED BY <1>8, <1>a, <2>1 DEF SpawnFailed
<1>9. ASSUME NEW c \in Coroutine, Killed(c) PROVE Goal
  BY <1>9, <1>a DEF Killed
<1>10. ASSUME NEW c \in Coroutine, StopSpawned(c) PROVE Goal
  <2>1. /\ \/ UNCHANGED os
           \/ SlotAlive /\ os' = [os EXCEPT ![proc] = "termed"]
        /\ UNCHANGED wanted
    BY <1>10 DEF StopSpawned, StopFrom, Signal
  <2> QED BY <1>a, <1>d, <2>1
<1>11. ASSUME NEW c \in Coroutine, StopGivesUp(c) PROVE Goal
  BY <1>11, <1>a DEF StopGivesUp
<1>12. ASSUME NEW c \in Coroutine, StopDone(c) PROVE Goal
  BY <1>12, <1>a DEF StopDone, slotVars
<1>13. ASSUME NEW c \in Coroutine, Reap(c) PROVE Goal
  <2>1. /\ \/ UNCHANGED os
           \/ SlotAlive /\ os' = [os EXCEPT ![proc] = "termed"]
        /\ UNCHANGED wanted
    BY <1>13 DEF Reap, Signal
  <2> QED BY <1>a, <1>d, <2>1
<1>14. ASSUME NEW c \in Coroutine, Reaped(c) PROVE Goal
  BY <1>14, <1>a DEF Reaped, slotVars
<1>15. ASSUME NEW c \in Coroutine, RestartUnpark(c) PROVE Goal
  BY <1>15 DEF RestartUnpark, At, IntentInv
<1>16. ASSUME NEW c \in Coroutine, RestartStopped(c) PROVE Goal
  BY <1>16, <1>a DEF RestartStopped
<1>17. ASSUME NEW c \in Coroutine, RestartWaited(c) PROVE Goal
  BY <1>17, <1>a DEF RestartWaited, StartSlot, Refused, Entered, slotVars
<1>18. ASSUME NEW c \in Coroutine, WatcherFinished(c) PROVE Goal
  BY <1>18, <1>a DEF WatcherFinished
<1>19. ASSUME NEW c \in Coroutine, AutoRestartDelay(c) PROVE Goal
  BY <1>19, <1>a DEF AutoRestartDelay
<1>20. ASSUME NEW p \in Proc, Exit(p) PROVE Goal
  <2>1. PICK e \in Exits : os' = [os EXCEPT ![p] = e]
    BY <1>20 DEF Exit
  <2>2. p \in OnAir \cup Leaving /\ OnAir' = OnAir \ {p} /\ Leaving' = Leaving \ {p}
    BY <1>20, <2>1 DEF Exit, OnAir, Leaving, Alive, Exits, TypeOK
  <2> QED BY <1>20, <2>2 DEF Exit, Goal, Slot!Gone
<1>21. ASSUME NEW p \in Proc, WatchExit(p) PROVE Goal
  BY <1>21, <1>a DEF WatchExit
<1>22. ASSUME NEW p \in Proc, WatchTail(p) PROVE Goal
  BY <1>22, <1>a DEF WatchTail, slotVars
<1>23. ASSUME NEW p \in Proc, WatchFlagged(p) PROVE Goal
  BY <1>23, <1>a DEF WatchFlagged, slotVars
<1>24. ASSUME NEW p \in Proc, WatchDetail(p) PROVE Goal
  BY <1>24, <1>a DEF WatchDetail, slotVars
<1>25. ASSUME NEW p \in Proc, WatchCoupled(p) PROVE Goal
  BY <1>25, <1>a DEF WatchCoupled, slotVars
<1>26. ASSUME NEW p \in Proc, WatchEvent(p) PROVE Goal
  BY <1>26, <1>a DEF WatchEvent
<1>27. ASSUME NEW p \in Proc, WatchDelay(p) PROVE Goal
  BY <1>27, <1>a DEF WatchDelay, StartSlot, Refused, Entered
<1>28. ASSUME NEW p \in Proc, WatchAfter(p) PROVE Goal
  BY <1>28, <1>a DEF WatchAfter
<1>29. ASSUME NEW p \in Proc, RelaunchBegins(p) PROVE Goal
  BY <1>29, <1>a DEF RelaunchBegins
<1>30. ASSUME DogScans PROVE Goal
  BY <1>30, <1>a DEF DogScans, slotVars
<1>31. ASSUME DogReads PROVE Goal
  BY <1>31, <1>a DEF DogReads
<1>32. ASSUME DogFlagged PROVE Goal
  <2>1. /\ \/ UNCHANGED os
           \/ SlotAlive /\ os' = [os EXCEPT ![proc] = "termed"]
        /\ UNCHANGED wanted
    BY <1>32 DEF DogFlagged
  <2> QED BY <1>a, <1>d, <2>1
<1>33. ASSUME DogStopped PROVE Goal
  BY <1>33, <1>a DEF DogStopped
<1>34. ASSUME DogAfter PROVE Goal
  BY <1>34, <1>a DEF DogAfter
<1>35. ASSUME UNCHANGED vars PROVE Goal
  BY <1>35, <1>a DEF vars
<1>36. Goal
  BY <1>1, <1>2, <1>3, <1>4, <1>5, <1>6, <1>7, <1>8, <1>9, <1>10, <1>11,
     <1>12, <1>13, <1>14, <1>15, <1>16, <1>17, <1>18, <1>19, <1>20, <1>21,
     <1>22, <1>23, <1>24, <1>25, <1>26, <1>27, <1>28, <1>29, <1>30, <1>31,
     <1>32, <1>33, <1>34, <1>35 DEF Next
<1> QED
  BY <1>36 DEF Goal

\* Only a spawn that nobody stopped makes the slot RUNNING.
LEMMA RunsWhenWanted ==
  ASSUME TypeOK, SlotInv, IntentInv, [Next]_vars, state # "RUNNING", state' = "RUNNING"
  PROVE  wanted
<1> USE DEF slotVars
<1>1. \A o \in Op : ~(BeginStart(o) \/ BeginStop(o) \/ BeginRestart(o) \/ BeginPanic(o)
                     \/ BeginShutdown(o))
  BY DEF BeginStart, BeginStop, BeginRestart, BeginPanic, BeginShutdown, CancelAndStop,
     StopFrom, StateWithout
<1>2. \A c \in Coroutine : ~(Unpark(c) \/ SpawnFailed(c) \/ Killed(c) \/ StopSpawned(c)
                            \/ StopGivesUp(c) \/ StopDone(c) \/ Reap(c) \/ Reaped(c))
  BY DEF Unpark, SpawnFailed, Killed, StopSpawned, StopGivesUp, StopDone, Reap, Reaped,
     StopFrom, StateWithout, StartSlot, Refused, Entered
<1>3. \A c \in Coroutine : ~(RestartUnpark(c) \/ RestartStopped(c) \/ RestartWaited(c)
                            \/ WatcherFinished(c) \/ AutoRestartDelay(c))
  BY DEF RestartUnpark, RestartStopped, RestartWaited, WatcherFinished, AutoRestartDelay,
     StartSlot, Refused, Entered
<1>4. \A p \in Proc : ~(\/ Exit(p) \/ WatchExit(p) \/ WatchTail(p) \/ WatchFlagged(p)
                        \/ WatchDetail(p) \/ WatchCoupled(p) \/ WatchEvent(p) \/ WatchDelay(p)
                        \/ WatchAfter(p) \/ RelaunchBegins(p))
  BY DEF Exit, WatchExit, WatchTail, WatchFlagged, WatchDetail, WatchCoupled, WatchEvent,
     WatchDelay, WatchAfter, RelaunchBegins, StartSlot, Refused, Entered
<1>5. ~(DogScans \/ DogReads \/ DogFlagged \/ DogStopped \/ DogAfter)
  BY DEF DogScans, DogReads, DogFlagged, DogStopped, DogAfter
<1>6. PICK c \in Coroutine : Spawned(c)
  BY <1>1, <1>2, <1>3, <1>4, <1>5 DEF Next, vars
<1> QED
  BY <1>6 DEF Spawned, At, IntentInv


\* What was asked for last is what the slot does: a start that was parked at
\* the gates, sleeping or spawning when a stop, PANIC or shutdown came never
\* puts the slot into RUNNING after it.
THEOREM IntentHonouredHolds ==
  ASSUME ~RestartOnCrash, ~SpawnMayStall, ~WakeRace, "restart" \notin Kinds
  PROVE  Spec => IntentHonoured
<1>1. TypeOK /\ SlotInv /\ IntentInv /\ [Next]_vars => IntentInv'
  BY IntentStep
<1>2. Spec => []IntentInv
  BY <1>1, Initially, TypeCorrect, SlotInvariant, PTL DEF Spec
<1>3. TypeOK /\ SlotInv /\ IntentInv /\ [Next]_vars
      => [state # "RUNNING" /\ state' = "RUNNING" => wanted]_vars
  BY RunsWhenWanted
<1> QED
  BY <1>2, <1>3, TypeCorrect, SlotInvariant, PTL DEF Spec, IntentHonoured

\* The slot implements the abstract transmitter slot.
THEOREM KeepsPromiseHolds ==
  ASSUME ~RestartOnCrash, ~SpawnMayStall, ~WakeRace, "restart" \notin Kinds
  PROVE  Spec => KeepsPromise
<1>1. Init => Slot!Init
  BY DEF Init, Slot!Init, OnAir, Leaving
<1>2. TypeOK /\ SlotInv /\ IntentInv /\ [Next]_vars => IntentInv'
  BY IntentStep
<1>3. TypeOK /\ SlotInv /\ IntentInv /\ [Next]_vars => [Slot!Next]_(Slot!slotView)
  BY PromiseStep
<1> QED
  BY <1>1, <1>2, <1>3, Initially, TypeCorrect, SlotInvariant, PTL
  DEF Spec, KeepsPromise, Slot!Spec

\* Every step keeps ShutInv.
LEMMA ShutStep ==
  ASSUME ~RestartOnCrash, TypeOK, SlotInv, ShutInv, [Next]_vars
  PROVE  ShutInv'
<1> USE Coroutines DEF ShutInv, TypeOK, slotVars, Goto, At, Alive, SlotAlive
<1>1. ASSUME NEW o \in Op, BeginStart(o) PROVE ShutInv'
  <2>1. ~shutdown /\ kind' = [kind EXCEPT ![o] = "start"]
    BY <1>1 DEF BeginStart, Begin
  <2> QED BY <2>1 DEF SlotInv, ReapInv
<1>2. ASSUME NEW o \in Op, BeginStop(o) PROVE ShutInv'
  <2>1. ~shutdown /\ kind' = [kind EXCEPT ![o] = "stop"]
    BY <1>2 DEF BeginStop, Begin
  <2> QED BY <2>1 DEF SlotInv, ReapInv
<1>3. ASSUME NEW o \in Op, BeginRestart(o) PROVE ShutInv'
  <2>1. ~shutdown /\ kind' = [kind EXCEPT ![o] = "restart"]
    BY <1>3 DEF BeginRestart, Begin
  <2> QED BY <2>1 DEF SlotInv, ReapInv
<1>4. ASSUME NEW o \in Op, BeginPanic(o) PROVE ShutInv'
  <2>1. ~shutdown /\ kind' = [kind EXCEPT ![o] = "panic"]
    BY <1>4 DEF BeginPanic, Begin
  <2> QED BY <2>1 DEF SlotInv, ReapInv
<1>5. ASSUME NEW o \in Op, BeginShutdown(o) PROVE ShutInv'
  <2>1. ~shutdown /\ kind' = [kind EXCEPT ![o] = "shutdown"]
    BY <1>5 DEF BeginShutdown, Begin
  <2>2. pc'[Call(o)] \in {"spawnwait", "term", "reap"}
    BY <1>5, Cancelling DEF BeginShutdown, CancelAndStop, StopFrom, Signal
  <2> QED BY <2>1, <2>2 DEF SlotInv, ReapInv
<1>6. ASSUME NEW c \in Coroutine, Unpark(c) PROVE ShutInv'
  BY <1>6 DEF Unpark, Finish, StartSlot, Entered, Refused, Abandoned, SlotInv,
     LaunchInv, ReapInv
<1>7. ASSUME NEW c \in Coroutine, Spawned(c) PROVE ShutInv'
  BY <1>7 DEF Spawned, Fresh, SlotInv, LaunchInv, ReapInv
<1>8. ASSUME NEW c \in Coroutine, SpawnFailed(c) PROVE ShutInv'
  BY <1>8 DEF SpawnFailed, Finish, SlotInv, LaunchInv, ReapInv
<1>9. ASSUME NEW c \in Coroutine, Killed(c) PROVE ShutInv'
  BY <1>9 DEF Killed, Finish, SlotInv, LaunchInv, ReapInv
<1>10. ASSUME NEW c \in Coroutine, StopSpawned(c) PROVE ShutInv'
  <2>1. pc' = [pc EXCEPT ![c] = "term"] \/ pc' = [pc EXCEPT ![c] = StopReturns(c)]
    BY <1>10, Cancelling DEF StopSpawned, StopFrom, Signal
  <2>2. SlotAlive' = SlotAlive /\ UNCHANGED kind /\ pc[c] = "spawnwait"
    BY <1>10 DEF StopSpawned, StopFrom, Signal
  <2>3. StopReturns(c) \in {"done", "reap"}
    BY DEF StopReturns
  <2>4. \A o \in Op : c = Call(o) /\ kind[o] = "shutdown" => StopReturns(c) = "reap"
    BY DEF StopReturns
  <2> QED BY <2>1, <2>2, <2>3, <2>4
<1>11. ASSUME NEW c \in Coroutine, StopGivesUp(c) PROVE ShutInv'
  BY <1>11 DEF StopGivesUp, StopReturns, SlotInv, LaunchInv, ReapInv
<1>12. ASSUME NEW c \in Coroutine, StopDone(c) PROVE ShutInv'
  BY <1>12 DEF StopDone, StopReturns, ExitSeen, SlotInv, LaunchInv, ReapInv
<1>13. ASSUME NEW c \in Coroutine, Reap(c) PROVE ShutInv'
  <2>1. /\ \/ SlotAlive /\ pc' = [pc EXCEPT ![c] = "reaped"]
           \/ ~SlotAlive /\ pc' = [pc EXCEPT ![c] = "done"]
        /\ pc[c] = "reap" /\ UNCHANGED kind
    BY <1>13, Cancelling DEF Reap, Signal
  <2>2. SlotAlive' = SlotAlive
    BY <1>13 DEF Reap, Signal
  <2>3. \A d \in Coroutine : pc[d] # "exec"
    BY <2>1 DEF SlotInv, ReapInv
  <2> QED BY <2>1, <2>2, <2>3
<1>14. ASSUME NEW c \in Coroutine, Reaped(c) PROVE ShutInv'
  BY <1>14 DEF Reaped, ExitSeen, SlotInv, LaunchInv, ReapInv
<1>15. ASSUME NEW c \in Coroutine, RestartUnpark(c) PROVE ShutInv'
  BY <1>15 DEF RestartUnpark, Finish, StartSlot, Entered, Refused,
     PendingRelaunch, Signal, PcWithout, Unwound, SlotInv, LaunchInv, ReapInv
<1>16. ASSUME NEW c \in Coroutine, RestartStopped(c) PROVE ShutInv'
  BY <1>16 DEF RestartStopped, ExitSeen, SlotInv, LaunchInv, ReapInv
<1>17. ASSUME NEW c \in Coroutine, RestartWaited(c) PROVE ShutInv'
  BY <1>17 DEF RestartWaited, Finish, StartSlot, Entered, Refused, SlotInv,
     LaunchInv, ReapInv
<1>18. ASSUME NEW c \in Coroutine, WatcherFinished(c) PROVE ShutInv'
  BY <1>18 DEF WatcherFinished, SlotInv, LaunchInv, ReapInv
<1>19. ASSUME NEW c \in Coroutine, AutoRestartDelay(c) PROVE ShutInv'
  BY <1>19 DEF AutoRestartDelay, Finish, SlotInv, LaunchInv, ReapInv
<1>20. ASSUME NEW p \in Proc, Exit(p) PROVE ShutInv'
  BY <1>20 DEF Exit, SlotInv, LaunchInv, ReapInv
<1>21. ASSUME NEW p \in Proc, WatchExit(p) PROVE ShutInv'
  BY <1>21 DEF WatchExit, SlotInv, LaunchInv, ReapInv
<1>22. ASSUME NEW p \in Proc, WatchTail(p) PROVE ShutInv'
  BY <1>22 DEF WatchTail, SlotInv, LaunchInv, ReapInv
<1>23. ASSUME NEW p \in Proc, WatchFlagged(p) PROVE ShutInv'
  BY <1>23 DEF WatchFlagged, SlotInv, LaunchInv, ReapInv
<1>24. ASSUME NEW p \in Proc, WatchDetail(p) PROVE ShutInv'
  BY <1>24 DEF WatchDetail, SlotInv, LaunchInv, ReapInv
<1>25. ASSUME NEW p \in Proc, WatchCoupled(p) PROVE ShutInv'
  BY <1>25 DEF WatchCoupled, SlotInv, LaunchInv, ReapInv
<1>26. ASSUME NEW p \in Proc, WatchEvent(p) PROVE ShutInv'
  BY <1>26 DEF WatchEvent, SlotInv, LaunchInv, ReapInv
<1>27. ASSUME NEW p \in Proc, WatchDelay(p) PROVE ShutInv'
  BY <1>27 DEF WatchDelay, StartSlot, Entered, Finish, Refused, SlotInv,
     LaunchInv, ReapInv
<1>28. ASSUME NEW p \in Proc, WatchAfter(p) PROVE ShutInv'
  BY <1>28 DEF WatchAfter, AutoRestartBegins, WatcherGone, SlotInv, LaunchInv,
     ReapInv
<1>29. ASSUME NEW p \in Proc, RelaunchBegins(p) PROVE ShutInv'
  BY <1>29 DEF RelaunchBegins, AutoRestartBegins, WatcherGone, SlotInv,
     LaunchInv, ReapInv
<1>30. ASSUME DogScans PROVE ShutInv'
  BY <1>30 DEF DogScans, SlotInv, LaunchInv, ReapInv
<1>31. ASSUME DogReads PROVE ShutInv'
  BY <1>31 DEF DogReads, ScanStale, SlotInv, LaunchInv, ReapInv
<1>32. ASSUME DogFlagged PROVE ShutInv'
  BY <1>32 DEF DogFlagged, ScanStale, SlotInv, LaunchInv, ReapInv
<1>33. ASSUME DogStopped PROVE ShutInv'
  BY <1>33 DEF DogStopped, ExitSeen, SlotInv, LaunchInv, ReapInv
<1>34. ASSUME DogAfter PROVE ShutInv'
  BY <1>34 DEF DogAfter, SlotInv, WatchInv
<1>35. ASSUME UNCHANGED vars PROVE ShutInv'
  BY <1>35 DEF vars
<1>36. QED
  BY <1>1, <1>2, <1>3, <1>4, <1>5, <1>6, <1>7, <1>8, <1>9, <1>10, <1>11,
     <1>12, <1>13, <1>14, <1>15, <1>16, <1>17, <1>18, <1>19, <1>20, <1>21,
     <1>22, <1>23, <1>24, <1>25, <1>26, <1>27, <1>28, <1>29, <1>30, <1>31,
     <1>32, <1>33, <1>34, <1>35 DEF Next

\* Once shutdown() has returned, no process is left in the slot, and no launch
\* that was under way can still put one there.
THEOREM ShutdownLeavesNoneHolds ==
  ASSUME ~RestartOnCrash, ~SpawnMayStall, ~WakeRace
  PROVE  Spec => []ShutdownLeavesNone
<1>1. Init => ShutInv
  BY DEF Init, ShutInv
<1>2. TypeOK /\ SlotInv /\ ShutInv /\ [Next]_vars => ShutInv'
  BY ShutStep
<1>3. ShutInv => ShutdownLeavesNone
  BY DEF ShutInv, ShutdownLeavesNone
<1> QED
  BY <1>1, <1>2, <1>3, TypeCorrect, SlotInvariant, PTL DEF Spec

\* The recovery coroutines are neither calls nor the watchdog.
LEMMA Recoveries ==
  /\ \A o \in Op : Call(o) \notin Recovery
  /\ Dog \notin Recovery /\ NoOne \notin Recovery
  /\ Recovery \subseteq Coroutine
BY DEF Recovery, W, R, Call, Dog, NoOne, Coroutine

\* What cancelling coroutines does to those that recover: they return, or are
\* where they were; and the latch is given up only by one that returns.
LEMMA Unlatching ==
  ASSUME TypeOK, OneRecovery, NEW C, Unwound(C), NEW c \in Recovery,
         PcWithout(C)[c] \in {"arwait", "ardelay", "parked"}
  PROVE  latch' = c
BY Recoveries DEF TypeOK, OneRecovery, Unwound, PcWithout, Cancelled, CancelledAt

\* Every step keeps it that an auto-restart holds the latch.
LEMMA RecoveryStep ==
  ASSUME TypeOK, OneRecovery, [Next]_vars
  PROVE  OneRecovery'
<1> USE Coroutines, Recoveries DEF OneRecovery, TypeOK, slotVars, Goto, At
<1>1. ASSUME NEW o \in Op, BeginStart(o) PROVE OneRecovery'
  BY <1>1 DEF BeginStart, Begin
<1>2. ASSUME NEW o \in Op, BeginStop(o) PROVE OneRecovery'
  <2>1. \E C, l : Unwound(C) /\ pc' = [PcWithout(C) EXCEPT ![Call(o)] = l]
    BY <1>2 DEF BeginStop, Begin, StopFrom, Signal, Unwound
  <2>2. PICK C, l : Unwound(C) /\ pc' = [PcWithout(C) EXCEPT ![Call(o)] = l]
    BY <2>1
  <2>3. \A c \in Recovery : pc'[c] = PcWithout(C)[c]
    BY <2>2, Cancelling
  <2> QED
    BY <2>2, <2>3, Unlatching
<1>3. ASSUME NEW o \in Op, BeginRestart(o) PROVE OneRecovery'
  BY <1>3 DEF BeginRestart, Begin
<1>4. ASSUME NEW o \in Op, BeginPanic(o) PROVE OneRecovery'
  <2>1. \E C, l : Unwound(C) /\ pc' = [PcWithout(C) EXCEPT ![Call(o)] = l]
    BY <1>4 DEF BeginPanic, Begin, CancelAndStop, StopFrom, Signal, Unwound
  <2>2. PICK C, l : Unwound(C) /\ pc' = [PcWithout(C) EXCEPT ![Call(o)] = l]
    BY <2>1
  <2>3. \A c \in Recovery : pc'[c] = PcWithout(C)[c]
    BY <2>2, Cancelling
  <2> QED
    BY <2>2, <2>3, Unlatching
<1>5. ASSUME NEW o \in Op, BeginShutdown(o) PROVE OneRecovery'
  <2>1. \E C, l : Unwound(C) /\ pc' = [PcWithout(C) EXCEPT ![Call(o)] = l]
    BY <1>5 DEF BeginShutdown, Begin, CancelAndStop, StopFrom, Signal, Unwound
  <2>2. PICK C, l : Unwound(C) /\ pc' = [PcWithout(C) EXCEPT ![Call(o)] = l]
    BY <2>1
  <2>3. \A c \in Recovery : pc'[c] = PcWithout(C)[c]
    BY <2>2, Cancelling
  <2> QED
    BY <2>2, <2>3, Unlatching
<1>6. ASSUME NEW c \in Coroutine, Unpark(c) PROVE OneRecovery'
  BY <1>6 DEF Unpark, Finish, StartSlot, Entered, Refused, Abandoned
<1>7. ASSUME NEW c \in Coroutine, Spawned(c) PROVE OneRecovery'
  BY <1>7 DEF Spawned, Fresh
<1>8. ASSUME NEW c \in Coroutine, SpawnFailed(c) PROVE OneRecovery'
  BY <1>8 DEF SpawnFailed, Finish
<1>9. ASSUME NEW c \in Coroutine, Killed(c) PROVE OneRecovery'
  BY <1>9 DEF Killed, Finish
<1>10. ASSUME NEW c \in Coroutine, StopSpawned(c) PROVE OneRecovery'
  <2>1. \E l : pc' = [pc EXCEPT ![c] = l] /\ l \in {"term", "done", "reap", "spawnwait"}
    BY <1>10, Cancelling DEF StopSpawned, StopReturns, StopFrom, Signal
  <2>2. UNCHANGED latch
    BY <1>10 DEF StopSpawned
  <2> QED
    BY <2>1, <2>2
<1>11. ASSUME NEW c \in Coroutine, StopGivesUp(c) PROVE OneRecovery'
  BY <1>11 DEF StopGivesUp, StopReturns
<1>12. ASSUME NEW c \in Coroutine, StopDone(c) PROVE OneRecovery'
  BY <1>12 DEF StopDone, StopReturns, ExitSeen
<1>13. ASSUME NEW c \in Coroutine, Reap(c) PROVE OneRecovery'
  <2>1. \E l : pc' = [pc EXCEPT ![c] = l] /\ l \in {"reaped", "done"}
    BY <1>13, Cancelling DEF Reap, Signal
  <2>2. UNCHANGED latch
    BY <1>13 DEF Reap, slotVars
  <2> QED
    BY <2>1, <2>2
<1>14. ASSUME NEW c \in Coroutine, Reaped(c) PROVE OneRecovery'
  BY <1>14 DEF Reaped, ExitSeen
<1>15. ASSUME NEW c \in Coroutine, RestartUnpark(c) PROVE OneRecovery'
  <2>1. CASE Unwound(PendingRelaunch) /\ pc' = [PcWithout(PendingRelaunch) EXCEPT ![c] = "rterm"]
    BY <2>1, Unlatching, Cancelling DEF PcWithout
  <2>2. CASE /\ \E l \in {"rwait", "exec", "done"} : pc' = [pc EXCEPT ![c] = l]
             /\ latch' = latch \/ (latch' = NoOne /\ latch = c /\ pc'[c] = "done")
    BY <2>2
  <2> QED
    BY <1>15, <2>1, <2>2 DEF RestartUnpark, Finish, StartSlot, Entered, Refused, Signal
<1>16. ASSUME NEW c \in Coroutine, RestartStopped(c) PROVE OneRecovery'
  BY <1>16 DEF RestartStopped, ExitSeen
<1>17. ASSUME NEW c \in Coroutine, RestartWaited(c) PROVE OneRecovery'
  BY <1>17 DEF RestartWaited, Finish, StartSlot, Entered, Refused
<1>18. ASSUME NEW c \in Coroutine, WatcherFinished(c) PROVE OneRecovery'
  BY <1>18 DEF WatcherFinished
<1>19. ASSUME NEW c \in Coroutine, AutoRestartDelay(c) PROVE OneRecovery'
  BY <1>19 DEF AutoRestartDelay, Finish
<1>20. ASSUME NEW p \in Proc, Exit(p) PROVE OneRecovery'
  BY <1>20 DEF Exit
<1>21. ASSUME NEW p \in Proc, WatchExit(p) PROVE OneRecovery'
  BY <1>21 DEF WatchExit
<1>22. ASSUME NEW p \in Proc, WatchTail(p) PROVE OneRecovery'
  BY <1>22 DEF WatchTail
<1>23. ASSUME NEW p \in Proc, WatchFlagged(p) PROVE OneRecovery'
  BY <1>23 DEF WatchFlagged
<1>24. ASSUME NEW p \in Proc, WatchDetail(p) PROVE OneRecovery'
  BY <1>24 DEF WatchDetail
<1>25. ASSUME NEW p \in Proc, WatchCoupled(p) PROVE OneRecovery'
  BY <1>25 DEF WatchCoupled
<1>26. ASSUME NEW p \in Proc, WatchEvent(p) PROVE OneRecovery'
  BY <1>26 DEF WatchEvent
<1>27. ASSUME NEW p \in Proc, WatchDelay(p) PROVE OneRecovery'
  BY <1>27 DEF WatchDelay, StartSlot, Entered, Finish, Refused
<1>28. ASSUME NEW p \in Proc, WatchAfter(p) PROVE OneRecovery'
  BY <1>28 DEF WatchAfter, AutoRestartBegins, LatchFree, WatcherGone
<1>29. ASSUME NEW p \in Proc, RelaunchBegins(p) PROVE OneRecovery'
  BY <1>29 DEF RelaunchBegins, AutoRestartBegins, LatchFree, WatcherGone
<1>30. ASSUME DogScans PROVE OneRecovery'
  BY <1>30 DEF DogScans
<1>31. ASSUME DogReads PROVE OneRecovery'
  BY <1>31 DEF DogReads, ScanStale
<1>32. ASSUME DogFlagged PROVE OneRecovery'
  BY <1>32 DEF DogFlagged, ScanStale
<1>33. ASSUME DogStopped PROVE OneRecovery'
  BY <1>33 DEF DogStopped, ExitSeen
<1>34. ASSUME DogAfter PROVE OneRecovery'
  BY <1>34 DEF DogAfter
<1>35. ASSUME UNCHANGED vars PROVE OneRecovery'
  BY <1>35 DEF vars
<1> QED
  BY <1>1, <1>2, <1>3, <1>4, <1>5, <1>6, <1>7, <1>8, <1>9, <1>10, <1>11, <1>12, <1>13,
     <1>14, <1>15, <1>16, <1>17, <1>18, <1>19, <1>20, <1>21, <1>22, <1>23, <1>24, <1>25,
     <1>26, <1>27, <1>28, <1>29, <1>30, <1>31, <1>32, <1>33, <1>34, <1>35 DEF Next

\* A faulted task is never brought back by the exit path and the watchdog path
\* at once: each auto-restart that has begun holds the latch of the slot, for
\* any number of processes and whatever may stall or slip in between.
THEOREM OneRecoveryHolds == Spec => []OneRecovery
<1>1. Init => OneRecovery
  BY Recoveries DEF Init, OneRecovery
<1>2. TypeOK /\ OneRecovery /\ [Next]_vars => OneRecovery'
  BY RecoveryStep
<1> QED
  BY <1>1, <1>2, TypeCorrect, PTL DEF Spec

\* While the watchdog flags a fault, what it read is known to be faulty.
FaultRead == pc[Dog] = "flag" => tgt[Dog] \in sick

\* Every step keeps FaultRead.
LEMMA FaultReadStep ==
  ASSUME TypeOK, FaultRead, [Next]_vars
  PROVE  FaultRead'
<1> USE Coroutines DEF FaultRead, TypeOK, slotVars, Goto, At
<1>1. ASSUME NEW o \in Op, BeginStart(o) PROVE FaultRead'
  BY <1>1 DEF BeginStart, Begin
<1>2. ASSUME NEW o \in Op, BeginStop(o) PROVE FaultRead'
  <2>1. sick' = sick
    BY <1>2 DEF BeginStop, Begin, StopFrom, Signal, Unwound
  <2>2. pc'[Dog] = "flag" => pc[Dog] = "flag" /\ tgt'[Dog] = tgt[Dog]
    BY <1>2 DEF BeginStop, Begin, StopFrom, Signal, Unwound, PcWithout, Cancelled,
       CancelledAt
  <2> QED
    BY <2>1, <2>2
<1>3. ASSUME NEW o \in Op, BeginRestart(o) PROVE FaultRead'
  BY <1>3 DEF BeginRestart, Begin
<1>4. ASSUME NEW o \in Op, BeginPanic(o) PROVE FaultRead'
  <2>1. sick' = sick
    BY <1>4 DEF BeginPanic, Begin, CancelAndStop, StopFrom, Signal, Unwound
  <2>2. pc'[Dog] = "flag" => pc[Dog] = "flag" /\ tgt'[Dog] = tgt[Dog]
    BY <1>4 DEF BeginPanic, Begin, CancelAndStop, StopFrom, Signal, Unwound, PcWithout,
       Cancelled, CancelledAt
  <2> QED
    BY <2>1, <2>2
<1>5. ASSUME NEW o \in Op, BeginShutdown(o) PROVE FaultRead'
  <2>1. sick' = sick
    BY <1>5 DEF BeginShutdown, Begin, CancelAndStop, StopFrom, Signal, Unwound
  <2>2. pc'[Dog] = "flag" => pc[Dog] = "flag" /\ tgt'[Dog] = tgt[Dog]
    BY <1>5 DEF BeginShutdown, Begin, CancelAndStop, StopFrom, Signal, Unwound,
       PcWithout, Cancelled, CancelledAt
  <2> QED
    BY <2>1, <2>2
<1>6. ASSUME NEW c \in Coroutine, Unpark(c) PROVE FaultRead'
  BY <1>6 DEF Unpark, Finish, StartSlot, Entered, Refused, Abandoned
<1>7. ASSUME NEW c \in Coroutine, Spawned(c) PROVE FaultRead'
  BY <1>7 DEF Spawned, Fresh
<1>8. ASSUME NEW c \in Coroutine, SpawnFailed(c) PROVE FaultRead'
  BY <1>8 DEF SpawnFailed, Finish
<1>9. ASSUME NEW c \in Coroutine, Killed(c) PROVE FaultRead'
  BY <1>9 DEF Killed, Finish
<1>10. ASSUME NEW c \in Coroutine, StopSpawned(c) PROVE FaultRead'
  <2>1. sick' = sick
    BY <1>10 DEF StopSpawned, StopReturns, StopFrom, Signal
  <2>2. pc'[Dog] = "flag" => pc[Dog] = "flag" /\ tgt'[Dog] = tgt[Dog]
    BY <1>10 DEF StopSpawned, StopReturns, StopFrom, Signal, PcWithout, Cancelled,
       CancelledAt
  <2> QED
    BY <2>1, <2>2
<1>11. ASSUME NEW c \in Coroutine, StopGivesUp(c) PROVE FaultRead'
  BY <1>11 DEF StopGivesUp, StopReturns
<1>12. ASSUME NEW c \in Coroutine, StopDone(c) PROVE FaultRead'
  BY <1>12 DEF StopDone, StopReturns, ExitSeen
<1>13. ASSUME NEW c \in Coroutine, Reap(c) PROVE FaultRead'
  <2>1. sick' = sick
    BY <1>13 DEF Reap, Signal
  <2>2. pc'[Dog] = "flag" => pc[Dog] = "flag" /\ tgt'[Dog] = tgt[Dog]
    BY <1>13 DEF Reap, Signal, PcWithout, Cancelled, CancelledAt
  <2> QED
    BY <2>1, <2>2
<1>14. ASSUME NEW c \in Coroutine, Reaped(c) PROVE FaultRead'
  BY <1>14 DEF Reaped, ExitSeen
<1>15. ASSUME NEW c \in Coroutine, RestartUnpark(c) PROVE FaultRead'
  <2>1. sick' = sick
    BY <1>15 DEF RestartUnpark, Finish, StartSlot, Entered, Refused, Signal, Unwound
  <2>2. pc'[Dog] = "flag" => pc[Dog] = "flag" /\ tgt'[Dog] = tgt[Dog]
    BY <1>15 DEF RestartUnpark, Finish, StartSlot, Entered, Refused, Signal, Unwound,
       PcWithout, Cancelled, CancelledAt
  <2> QED
    BY <2>1, <2>2
<1>16. ASSUME NEW c \in Coroutine, RestartStopped(c) PROVE FaultRead'
  BY <1>16 DEF RestartStopped, ExitSeen
<1>17. ASSUME NEW c \in Coroutine, RestartWaited(c) PROVE FaultRead'
  BY <1>17 DEF RestartWaited, Finish, StartSlot, Entered, Refused
<1>18. ASSUME NEW c \in Coroutine, WatcherFinished(c) PROVE FaultRead'
  BY <1>18 DEF WatcherFinished
<1>19. ASSUME NEW c \in Coroutine, AutoRestartDelay(c) PROVE FaultRead'
  BY <1>19 DEF AutoRestartDelay, Finish
<1>20. ASSUME NEW p \in Proc, Exit(p) PROVE FaultRead'
  BY <1>20 DEF Exit
<1>21. ASSUME NEW p \in Proc, WatchExit(p) PROVE FaultRead'
  BY <1>21 DEF WatchExit
<1>22. ASSUME NEW p \in Proc, WatchTail(p) PROVE FaultRead'
  BY <1>22 DEF WatchTail
<1>23. ASSUME NEW p \in Proc, WatchFlagged(p) PROVE FaultRead'
  BY <1>23 DEF WatchFlagged
<1>24. ASSUME NEW p \in Proc, WatchDetail(p) PROVE FaultRead'
  BY <1>24 DEF WatchDetail
<1>25. ASSUME NEW p \in Proc, WatchCoupled(p) PROVE FaultRead'
  BY <1>25 DEF WatchCoupled
<1>26. ASSUME NEW p \in Proc, WatchEvent(p) PROVE FaultRead'
  BY <1>26 DEF WatchEvent
<1>27. ASSUME NEW p \in Proc, WatchDelay(p) PROVE FaultRead'
  BY <1>27 DEF WatchDelay, StartSlot, Entered, Finish, Refused
<1>28. ASSUME NEW p \in Proc, WatchAfter(p) PROVE FaultRead'
  BY <1>28 DEF WatchAfter, AutoRestartBegins, LatchFree, WatcherGone
<1>29. ASSUME NEW p \in Proc, RelaunchBegins(p) PROVE FaultRead'
  BY <1>29 DEF RelaunchBegins, AutoRestartBegins, LatchFree, WatcherGone
<1>30. ASSUME DogScans PROVE FaultRead'
  BY <1>30 DEF DogScans
<1>31. ASSUME DogReads PROVE FaultRead'
  BY <1>31 DEF DogReads, ScanStale
<1>32. ASSUME DogFlagged PROVE FaultRead'
  BY <1>32 DEF DogFlagged, ScanStale
<1>33. ASSUME DogStopped PROVE FaultRead'
  BY <1>33 DEF DogStopped, ExitSeen
<1>34. ASSUME DogAfter PROVE FaultRead'
  BY <1>34 DEF DogAfter
<1>35. ASSUME UNCHANGED vars PROVE FaultRead'
  BY <1>35 DEF vars
<1> QED
  BY <1>1, <1>2, <1>3, <1>4, <1>5, <1>6, <1>7, <1>8, <1>9, <1>10, <1>11, <1>12, <1>13,
     <1>14, <1>15, <1>16, <1>17, <1>18, <1>19, <1>20, <1>21, <1>22, <1>23, <1>24, <1>25,
     <1>26, <1>27, <1>28, <1>29, <1>30, <1>31, <1>32, <1>33, <1>34, <1>35 DEF Next

\* Only DogFlagged takes the watchdog from flagging to stopping a process.
LEMMA DogStops ==
  ASSUME TypeOK, [Next]_vars, pc[Dog] = "flag", pc'[Dog] = "term"
  PROVE  DogFlagged
<1> USE Coroutines DEF TypeOK, slotVars, Goto, At
<1>1. \A o \in Op : ~(BeginStart(o) \/ BeginStop(o) \/ BeginRestart(o) \/ BeginPanic(o)
                     \/ BeginShutdown(o))
  BY DEF BeginStart, BeginStop, BeginRestart, BeginPanic, BeginShutdown, Begin,
     CancelAndStop,
     StopFrom, Signal, PcWithout, Cancelled, CancelledAt
<1>2. \A c \in Coroutine : ~(Unpark(c) \/ Spawned(c) \/ SpawnFailed(c) \/ Killed(c)
                            \/ StopGivesUp(c) \/ StopDone(c) \/ Reaped(c)
                            \/ RestartStopped(c) \/ RestartWaited(c)
                            \/ WatcherFinished(c) \/ AutoRestartDelay(c))
  BY DEF Unpark, Spawned, SpawnFailed, Killed, StopGivesUp, StopDone, Reaped,
     RestartStopped,
     RestartWaited, WatcherFinished, AutoRestartDelay, StartSlot, Refused, Entered, Finish
<1>3. \A c \in Coroutine : ~(StopSpawned(c) \/ Reap(c) \/ RestartUnpark(c))
  BY DEF StopSpawned, Reap, RestartUnpark, StopFrom, Signal, PcWithout, Cancelled,
     CancelledAt,
     StartSlot, Refused, Entered, Finish
<1>4. \A p \in Proc : ~(\/ Exit(p) \/ WatchExit(p) \/ WatchTail(p) \/ WatchFlagged(p)
                        \/ WatchDetail(p) \/ WatchCoupled(p) \/ WatchEvent(p) \/ WatchDelay(p)
                        \/ WatchAfter(p) \/ RelaunchBegins(p))
  BY DEF Exit, WatchExit, WatchTail, WatchFlagged, WatchDetail, WatchCoupled,
     WatchEvent,
     WatchDelay, WatchAfter, RelaunchBegins, StartSlot, Refused, Entered, Finish,
     AutoRestartBegins
<1>5. ~(DogScans \/ DogReads \/ DogStopped \/ DogAfter)
  BY DEF DogScans, DogReads, DogStopped, DogAfter
<1> QED
  BY <1>1, <1>2, <1>3, <1>4, <1>5 DEF Next, vars

\* The watchdog stops only a process whose own log showed a fault: not the
\* healthy one that took the slot while the fault was being flagged.
THEOREM WatchdogSparesHealthyHolds == Spec => WatchdogSparesHealthy
<1>1. Init => FaultRead
  BY Coroutines DEF Init, FaultRead
<1>2. TypeOK /\ FaultRead /\ [Next]_vars => FaultRead'
  BY FaultReadStep
<1>3. TypeOK /\ FaultRead /\ [Next]_vars
      => [pc[Dog] = "flag" /\ pc'[Dog] = "term" => proc \in sick]_vars
  <2> SUFFICES ASSUME TypeOK, FaultRead, [Next]_vars, pc[Dog] = "flag", pc'[Dog] = "term"
               PROVE  proc \in sick
    OBVIOUS
  <2> QED
    BY DogStops, Coroutines DEF DogFlagged, ScanStale, Goto, TypeOK, FaultRead
<1> QED
  BY <1>1, <1>2, <1>3, TypeCorrect, PTL DEF Spec, WatchdogSparesHealthy

=============================================================================
