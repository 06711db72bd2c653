--------------------------- MODULE ManagedProcess ---------------------------
(***************************************************************************)
(* One task slot of the agent: class ManagedProcess of                     *)
(* agent/process_manager.py together with the ProcessManager operations    *)
(* that drive the slot (start, stop, restart, relaunch, PANIC, shutdown)   *)
(* and the health watchdog.                                                *)
(*                                                                         *)
(* The agent is one asyncio thread.  A coroutine runs undisturbed from one *)
(* await to the next, so every action below is the code between two awaits *)
(* of one coroutine, and pc[c] names the await coroutine c is parked at.   *)
(* The coroutines are the API and scheduler calls (Op), one exit watcher   *)
(* and one detached relaunch task per OS process, and the watchdog.        *)
(*                                                                         *)
(* OS processes are numbered; Proc bounds how many are ever spawned, and   *)
(* every call of Op is made at most once.                                  *)
(***************************************************************************)
EXTENDS Naturals

CONSTANTS
  Proc,            \* numbers of the OS processes that may be spawned
  NoProc,          \* _proc, _watcher_task, _relaunch_task = None
  Op,              \* calls into the manager
  Kinds,           \* the kinds of call made: subset of AllKinds
  RestartOnCrash,  \* TaskConfig.restart_on_crash
  AutoRestart,     \* auto_restart_on_fault (and the master switch)
  Claims,          \* answers of _run_claim_kind seen: subset of AllClaims
  SpawnMayStall,   \* may a spawn take longer than _STARTING_STOP_WAIT_S?
  WakeRace         \* may another coroutine run between an exit and the
                   \* coroutines that wait for it?

AllKinds == {"start", "stop", "restart", "panic", "shutdown"}
AllClaims == {"none", "driven"}

ASSUME ProcAssumption == Proc \subseteq Nat /\ NoProc \notin Proc
ASSUME KindsAssumption == Kinds \subseteq AllKinds /\ Claims \subseteq AllClaims
ASSUME SwitchAssumption ==
         {RestartOnCrash, AutoRestart, SpawnMayStall, WakeRace} \subseteq BOOLEAN

ProcessState == {"STOPPED", "STARTING", "RUNNING", "STOPPING", "CRASHED"}

\* The coroutines: W(p) awaits the exit of p, R(p) relaunches after p wedged.
W(p) == <<"watch", p>>
R(p) == <<"relaunch", p>>
Call(o) == <<"call", o>>
Dog == <<"dog", NoProc>>
Recovery == {W(p) : p \in Proc} \cup {R(p) : p \in Proc}
Coroutine == Recovery \cup {Call(o) : o \in Op} \cup {Dog}
NoOne == <<"none", NoProc>>

VARIABLES
  state,       \* ManagedProcess.state
  proc,        \* _proc: the last process spawned into the slot
  os,          \* what the operating system knows of each process
  watcher,     \* _watcher_task: whose exit the slot's watcher awaits
  relauncher,  \* _relaunch_task: after whose fault it relaunches
  stopReq,     \* _stop_requested
  opStop,      \* _operator_stop_requested
  spawned,     \* the event _spawned
  inDelay,     \* _in_restart_delay
  latch,       \* who set _fault_restart_inflight
  alarmed,     \* _fault_alarmed
  epoch,       \* _panic_epoch
  shutdown,    \* _shutdown_flag
  pc,          \* the await each coroutine is parked at
  kind,        \* what each call does
  tgt,         \* the process a coroutine bound before it parked
  epoch0       \* the _panic_epoch a launch read before it parked

\* History variables, read by the properties only.
VARIABLES
  wanted,      \* the last thing asked for: TRUE a start, FALSE a stop
  sick         \* processes that faulted or exited with an error

slotVars == <<state, proc, watcher, relauncher, stopReq, opStop, spawned,
              inDelay, latch, alarmed>>
vars == <<slotVars, os, epoch, shutdown, pc, kind, tgt, epoch0, wanted, sick>>

Exits == {"clean", "crash", "halt"}    \* exit 0, exit # 0, exit # 0 with a
                                       \* fault signature in the log
Awaits ==
  {"idle", "done",                     \* not yet called; returned
   "parked", "exec", "kill",           \* launching
   "spawnwait", "term", "reap", "reaped",       \* stopping
   "rparked", "rterm", "rwait",        \* restarting
   "wait", "tail", "flag", "after", "detail", "coupled", "event", "delay", \* watching
   "arbegin", "arwait", "ardelay",     \* auto-restarting
   "scan"}                             \* the watchdog's log read

Alive(p) == os[p] \in {"alive", "termed"}
SlotAlive == proc # NoProc /\ Alive(proc)
\* Mutant: a slot in its SIGTERM grace takes a second launch.
CanStartWhileStopping == state \notin {"RUNNING", "STARTING"}
CanStart == state \in {"STOPPED", "CRASHED"} /\ ~SlotAlive

Init ==
  /\ state = "STOPPED" /\ proc = NoProc
  /\ os = [p \in Proc |-> "free"]
  /\ watcher = NoProc /\ relauncher = NoProc
  /\ stopReq = FALSE /\ opStop = FALSE /\ spawned = FALSE
  /\ inDelay = FALSE /\ latch = NoOne /\ alarmed = FALSE
  /\ epoch = 0 /\ shutdown = FALSE
  /\ pc = [c \in Coroutine |-> "idle"]
  /\ kind = [o \in Op |-> "none"]
  /\ tgt = [c \in Coroutine |-> NoProc]
  /\ epoch0 = [c \in Coroutine |-> 0]
  /\ wanted = FALSE /\ sick = {}

-----------------------------------------------------------------------------
(* Pieces shared by several coroutines.                                    *)

Goto(c, label) == pc' = [pc EXCEPT ![c] = label]

\* Coroutines that wait for an exit wake before any other one runs, unless
\* WakeRace: then others may slip into the loop turns this takes.
Waiting(c) == pc[c] \in {"wait", "term", "rterm", "kill", "reaped"}
Settled == \A c \in Coroutine : Waiting(c) => tgt[c] # NoProc /\ Alive(tgt[c])
Turn == WakeRace \/ Settled
At(c, label) == pc[c] = label /\ Turn

\* Mutant: the latch is released to None.
FinishUntyped(c) ==
  /\ Goto(c, "done")
  /\ latch' = IF latch = c THEN NoProc ELSE latch
\* A coroutine that returns releases the in-flight latch if it holds it.
Finish(c) ==
  /\ Goto(c, "done")
  /\ latch' = IF latch = c THEN NoOne ELSE latch

\* start() refused: the slot is taken.  RuntimeError to the caller.
Refused(c) ==
  /\ ~CanStart
  /\ Finish(c)
  /\ UNCHANGED <<state, stopReq, opStop, spawned, alarmed>>

\* start() up to the spawn.  A calibration error refuses the launch instead.
Entered(c) ==
  /\ CanStart
  /\ stopReq' = FALSE /\ opStop' = FALSE /\ alarmed' = FALSE
  /\ \/ /\ state' = "STARTING" /\ spawned' = FALSE
        /\ Goto(c, "exec")
        /\ UNCHANGED latch
     \/ /\ state' = "STOPPED" /\ spawned' = TRUE
        /\ Finish(c)

StartSlot(c) == Refused(c) \/ Entered(c)

\* Cancelling a coroutine makes it return at these awaits.  A launch that is
\* already killing its child goes on doing so.
CancelledAt == {"arbegin", "arwait", "ardelay", "delay", "parked", "exec",
                "tail", "flag", "after", "detail", "coupled", "event", "scan", "term"}
Cancelled(C) == {c \in C : pc[c] \in CancelledAt}
PcWithout(C) == [c \in Coroutine |-> IF c \in Cancelled(C) THEN "done" ELSE pc[c]]
AnyAt(C, labels) == \E c \in C : pc[c] \in labels

\* The relaunch task an operator's stop cancels, and the watcher it cancels
\* when the slot says that a restart delay is running.
PendingRelaunch == {R(p) : p \in {q \in Proc : q = relauncher}}
PendingWatch ==
  {W(p) : p \in {q \in Proc : /\ q = watcher /\ pc[W(q)] # "done"
                              /\ state = "CRASHED" /\ inDelay}}
WatcherGone == watcher = NoProc \/ pc[W(watcher)] = "done"

\* The `finally` clauses of the cancelled coroutines.
Unwound(C) ==
  /\ inDelay' = (inDelay /\ ~AnyAt(C, {"delay", "ardelay"}))
  /\ latch' = IF latch \in Cancelled(C) THEN NoOne ELSE latch
  /\ spawned' = (spawned \/ AnyAt(C, {"exec"}))
StateWithout(C) == IF AnyAt(C, {"exec"}) THEN "STOPPED" ELSE state

\* SIGTERM, then SIGKILL after the grace: the process will exit.  c waits,
\* for nothing if the process is gone already.
Signal(c, label, C) ==
  /\ os' = IF SlotAlive THEN [os EXCEPT ![proc] = "termed"] ELSE os
  /\ pc' = [PcWithout(C) EXCEPT ![c] = label]
  /\ tgt' = [tgt EXCEPT ![c] = IF SlotAlive THEN proc ELSE NoProc]

\* stop() after its bookkeeping, from the state test on.  C is what it has
\* cancelled, next where the caller goes when there is nothing to wait for.
StopFrom(c, C, next) ==
  LET s == StateWithout(C) IN
  \/ /\ s = "STARTING"
     /\ pc' = [PcWithout(C) EXCEPT ![c] = "spawnwait"]
     /\ state' = s
     /\ UNCHANGED <<os, tgt>>
  \/ /\ s = "RUNNING"
     /\ state' = "STOPPING"
     /\ Signal(c, "term", C)
  \/ /\ s \in {"STOPPED", "STOPPING", "CRASHED"}
     /\ pc' = [PcWithout(C) EXCEPT ![c] = next]
     /\ state' = IF s = "CRASHED" /\ (PendingWatch # {} \/ WatcherGone)
                 THEN "STOPPED" ELSE s
     /\ UNCHANGED <<os, tgt>>

-----------------------------------------------------------------------------
(* ProcessManager.start and the launch.                                    *)

Begin(o, k) ==
  /\ At(Call(o), "idle") /\ k \in Kinds
  /\ ~shutdown
  /\ kind' = [kind EXCEPT ![o] = k]

\* start(): parks at the device gate and the attenuator pre-command.
BeginStart(o) ==
  /\ Begin(o, "start")
  /\ opStop' = FALSE
  /\ epoch0' = [epoch0 EXCEPT ![Call(o)] = epoch]
  /\ wanted' = TRUE
  /\ Goto(Call(o), "parked")
  /\ UNCHANGED <<state, proc, watcher, relauncher, stopReq, spawned, inDelay,
                 latch, alarmed, os, epoch, shutdown, tgt, sick>>

\* Mutant: the gates are followed by no look at the operator's stop.
AbandonedByPanicOnly(c) == epoch # epoch0[c] \/ shutdown
Abandoned(c) == epoch # epoch0[c] \/ shutdown \/ opStop

\* The gates open (or the pre-command refuses the launch).
Unpark(c) ==
  /\ At(c, "parked")
  /\ \/ Abandoned(c) /\ Finish(c)
        /\ UNCHANGED <<state, stopReq, opStop, spawned, alarmed>>
     \/ ~Abandoned(c) /\ StartSlot(c)
     \/ Finish(c) /\ UNCHANGED <<state, stopReq, opStop, spawned, alarmed>>
  /\ UNCHANGED <<proc, watcher, relauncher, inDelay, os, epoch, shutdown, kind,
                 tgt, epoch0, wanted, sick>>

Fresh(p) == os[p] = "free" /\ \A q \in Proc : q < p => os[q] # "free"

\* create_subprocess_exec returns: the slot is RUNNING and watched, unless a
\* stop() landed during the spawn; then the child is killed.
Spawned(c) ==
  /\ At(c, "exec")
  /\ \E p \in Proc :
       /\ Fresh(p)
       /\ proc' = p /\ spawned' = TRUE
       /\ \/ /\ stopReq
             /\ os' = [os EXCEPT ![p] = "termed"]
             /\ tgt' = [tgt EXCEPT ![c] = p]
             /\ Goto(c, "kill")
             /\ UNCHANGED <<state, watcher, latch>>
          \/ /\ ~stopReq
             /\ os' = [os EXCEPT ![p] = "alive"]
             /\ tgt' = [tgt EXCEPT ![W(p)] = p]
             /\ state' = "RUNNING" /\ watcher' = p
             /\ pc' = [pc EXCEPT ![c] = "done", ![W(p)] = "wait"]
             /\ latch' = IF latch = c THEN NoOne ELSE latch
  /\ UNCHANGED <<relauncher, stopReq, opStop, inDelay, alarmed, epoch, shutdown,
                 kind, epoch0, wanted, sick>>

\* Mutant: a failed launch leaves the slot STARTING and its waiters waiting.
SpawnFailedUnsettled(c) ==
  /\ At(c, "exec")
  /\ Finish(c)
  /\ UNCHANGED <<state, proc, watcher, relauncher, stopReq, opStop, spawned, inDelay,
                 alarmed, os, epoch, shutdown, kind, tgt, epoch0, wanted, sick>>
\* The spawn raises: _settle_failed_launch.
SpawnFailed(c) ==
  /\ At(c, "exec")
  /\ state' = "STOPPED" /\ spawned' = TRUE
  /\ os' = IF SlotAlive THEN [os EXCEPT ![proc] = "termed"] ELSE os
  /\ Finish(c)
  /\ UNCHANGED <<proc, watcher, relauncher, stopReq, opStop, inDelay, alarmed,
                 epoch, shutdown, kind, tgt, epoch0, wanted, sick>>

\* The child of a launch that was stopped has exited.
Killed(c) ==
  /\ pc[c] = "kill" /\ ~Alive(tgt[c])
  /\ state' = "STOPPED"
  /\ Finish(c)
  /\ UNCHANGED <<proc, watcher, relauncher, stopReq, opStop, spawned, inDelay,
                 alarmed, os, epoch, shutdown, kind, tgt, epoch0, wanted, sick>>

-----------------------------------------------------------------------------
(* ProcessManager.stop, PANIC and shutdown.                                *)

BeginStop(o) ==
  /\ Begin(o, "stop")
  /\ stopReq' = TRUE /\ opStop' = TRUE
  /\ wanted' = FALSE
  /\ LET C == PendingRelaunch \cup PendingWatch IN
       Unwound(C) /\ StopFrom(Call(o), C, "done")
  /\ UNCHANGED <<proc, watcher, relauncher, alarmed, epoch, shutdown, epoch0, sick>>

\* cancel_pending_relaunches, then stop() of what runs or is launching.
CancelAndStop(o, others, next) ==
  LET C == PendingRelaunch \cup PendingWatch \cup others
      s == IF PendingWatch # {} THEN "STOPPED" ELSE StateWithout(C) IN
  /\ epoch' = epoch + 1
  /\ opStop' = TRUE
  /\ wanted' = FALSE
  /\ Unwound(C)
  /\ stopReq' = (stopReq \/ PendingWatch # {} \/ s \in {"STARTING", "RUNNING"})
  /\ \/ s \in {"STARTING", "RUNNING"} /\ StopFrom(Call(o), C, next)
     \/ /\ s \notin {"STARTING", "RUNNING"}
        /\ state' = s
        /\ pc' = [PcWithout(C) EXCEPT ![Call(o)] = next]
        /\ UNCHANGED <<os, tgt>>
  /\ UNCHANGED <<proc, watcher, relauncher, alarmed, epoch0, sick>>

BeginPanic(o) ==
  /\ Begin(o, "panic")
  /\ CancelAndStop(o, {}, "done")
  /\ UNCHANGED shutdown

\* The server has let the API calls finish; the sequence loop, cancelled just
\* before, may have been inside a stop().  The watchdog's own stop() is
\* shielded.
BeginShutdown(o) ==
  /\ Begin(o, "shutdown")
  /\ \A q \in Op \ {o} : pc[Call(q)] \in {"idle", "done", "term"}
  /\ shutdown' = TRUE
  /\ CancelAndStop(o, {Call(q) : q \in Op \ {o}}
                      \cup (IF pc[Dog] = "term" THEN {} ELSE {Dog}), "reap")

\* What stop() returns to: shutdown goes on to reap.
StopReturns(c) == IF \E o \in Op : c = Call(o) /\ kind[o] = "shutdown"
                  THEN "reap" ELSE "done"

\* stop() wakes from _spawned: a launch that ran to its end is signalled.
StopSpawned(c) ==
  /\ At(c, "spawnwait") /\ spawned
  /\ \/ state = "RUNNING" /\ StopFrom(c, {}, StopReturns(c))
     \/ /\ state # "RUNNING" /\ Goto(c, StopReturns(c))
        /\ UNCHANGED <<state, os, tgt>>
  /\ UNCHANGED <<proc, watcher, relauncher, stopReq, opStop, spawned, inDelay,
                 latch, alarmed, epoch, shutdown, kind, epoch0, wanted, sick>>

\* ... or gives the spawn up after _STARTING_STOP_WAIT_S.
StopGivesUp(c) ==
  /\ SpawnMayStall
  /\ At(c, "spawnwait") /\ ~spawned
  /\ state' = IF state = "STARTING" /\ ~SlotAlive THEN "STOPPED" ELSE state
  /\ Goto(c, StopReturns(c))
  /\ UNCHANGED <<proc, watcher, relauncher, stopReq, opStop, spawned, inDelay,
                 latch, alarmed, os, epoch, shutdown, kind, tgt, epoch0, wanted, sick>>

\* The process stop() waited for has exited: _cleanup().  The watcher was
\* first in the line of those who wait for the exit.
ExitUnseen(c) == tgt[c] \in Proc \cup {NoProc}        \* mutant: no await p.wait()
ExitSeenTooEarly(c) ==                              \* mutant: ahead of the watcher
  tgt[c] # NoProc => ~Alive(tgt[c])
ExitSeen(c) ==
  tgt[c] # NoProc => ~Alive(tgt[c]) /\ pc[W(tgt[c])] # "wait"
StopDone(c) ==
  /\ pc[c] = "term" /\ ExitSeen(c) /\ c # Dog
  /\ state' = "STOPPED"
  /\ Goto(c, StopReturns(c))
  /\ UNCHANGED <<proc, watcher, relauncher, stopReq, opStop, spawned, inDelay,
                 latch, alarmed, os, epoch, shutdown, kind, tgt, epoch0, wanted, sick>>

\* Mutant: shutdown trusts the stops.
ReapNothing(c) ==
  /\ At(c, "reap")
  /\ Goto(c, "done")
  /\ UNCHANGED <<slotVars, os, epoch, shutdown, kind, tgt, epoch0, wanted, sick>>
\* shutdown SIGKILLs what is still alive in the slot and waits for it.
Reap(c) ==
  /\ At(c, "reap")
  /\ \/ SlotAlive /\ Signal(c, "reaped", {})
     \/ ~SlotAlive /\ Goto(c, "done") /\ UNCHANGED <<os, tgt>>
  /\ UNCHANGED <<slotVars, epoch, shutdown, kind, epoch0, wanted, sick>>

Reaped(c) ==
  /\ pc[c] = "reaped" /\ ExitSeen(c)
  /\ state' = "STOPPED"
  /\ Goto(c, "done")
  /\ UNCHANGED <<proc, watcher, relauncher, stopReq, opStop, spawned, inDelay,
                 latch, alarmed, os, epoch, shutdown, kind, tgt, epoch0, wanted, sick>>

-----------------------------------------------------------------------------
(* ProcessManager.restart.                                                 *)

BeginRestart(o) ==
  /\ Begin(o, "restart")
  /\ wanted' = TRUE
  /\ Goto(Call(o), "rparked")
  /\ UNCHANGED <<slotVars, os, epoch, shutdown, tgt, epoch0, sick>>

\* The gates open: stop what runs, wait out a stop in flight, or launch.
RestartUnpark(c) ==
  /\ At(c, "rparked")
  /\ \/ /\ state = "RUNNING"
        /\ stopReq' = TRUE /\ opStop' = TRUE
        /\ Unwound(PendingRelaunch)
        /\ state' = "STOPPING"
        /\ Signal(c, "rterm", PendingRelaunch)
        /\ UNCHANGED alarmed
     \/ /\ state # "RUNNING" /\ (state = "STOPPING" \/ SlotAlive)
        /\ Goto(c, "rwait")
        /\ UNCHANGED <<state, stopReq, opStop, spawned, inDelay, latch, alarmed, os, tgt>>
     \/ /\ state \notin {"RUNNING", "STOPPING"} /\ ~SlotAlive
        /\ StartSlot(c)
        /\ UNCHANGED <<inDelay, os, tgt>>
     \/ Finish(c)                                   \* the pre-command refused
        /\ UNCHANGED <<state, stopReq, opStop, spawned, inDelay, alarmed, os, tgt>>
  /\ UNCHANGED <<proc, watcher, relauncher, epoch, shutdown, kind, epoch0, wanted, sick>>

\* Its stop() is done: _cleanup() and start() in one go.
RestartStopped(c) ==
  /\ pc[c] = "rterm" /\ ExitSeen(c)
  /\ \/ /\ ~SlotAlive
        /\ stopReq' = FALSE /\ opStop' = FALSE /\ alarmed' = FALSE
        /\ \/ state' = "STARTING" /\ spawned' = FALSE /\ Goto(c, "exec")
           \/ state' = "STOPPED" /\ spawned' = TRUE /\ Goto(c, "done")
     \/ /\ SlotAlive
        /\ state' = "STOPPED"
        /\ Goto(c, "done")
        /\ UNCHANGED <<stopReq, opStop, spawned, alarmed>>
  /\ UNCHANGED <<proc, watcher, relauncher, inDelay, latch, os, epoch, shutdown,
                 kind, tgt, epoch0, wanted, sick>>

\* wait_stopped() polls until the slot has settled, at most 20 s.
RestartWaited(c) ==
  /\ At(c, "rwait")
  /\ \/ state \notin {"STOPPING", "STARTING"} /\ ~SlotAlive /\ StartSlot(c)
     \/ Finish(c) /\ UNCHANGED <<state, stopReq, opStop, spawned, alarmed>>
  /\ UNCHANGED <<proc, watcher, relauncher, inDelay, os, epoch, shutdown, kind,
                 tgt, epoch0, wanted, sick>>

-----------------------------------------------------------------------------
(* The exit watcher: _watch.                                               *)

Exit(p) ==
  /\ Alive(p) /\ Turn
  /\ \E e \in Exits : os' = [os EXCEPT ![p] = e]
  /\ UNCHANGED <<slotVars, epoch, shutdown, pc, kind, tgt, epoch0, wanted, sick>>

\* The watcher wakes: an exit it did not expect is a crash.
WatchExit(p) ==
  /\ pc[W(p)] = "wait" /\ ~Alive(p)
  /\ IF state = "STOPPING" \/ os[p] = "clean"
     THEN state' = "STOPPED" /\ Goto(W(p), "done") /\ UNCHANGED sick
     ELSE /\ state' = "CRASHED" /\ sick' = sick \cup {p}
          /\ Goto(W(p), IF alarmed THEN "after" ELSE "tail")
  /\ UNCHANGED <<proc, watcher, relauncher, stopReq, opStop, spawned, inDelay,
                 latch, alarmed, os, epoch, shutdown, kind, tgt, epoch0, wanted>>

\* _is_rf_fault_exit has read the log tail.  A launch meanwhile has rotated
\* the log, so the signature may be missed.
WatchTail(p) ==
  /\ At(W(p), "tail")
  /\ \/ /\ os[p] = "halt"
        /\ alarmed' = TRUE
        /\ Goto(W(p), IF alarmed THEN "after" ELSE "flag")
     \/ /\ os[p] = "halt" => proc # p \/ state # "CRASHED"
        /\ \/ "driven" \in Claims /\ Goto(W(p), "detail")
           \/ "none" \in Claims /\ Goto(W(p), "event")
        /\ UNCHANGED alarmed
  /\ UNCHANGED <<state, proc, watcher, relauncher, stopReq, opStop, spawned,
                 inDelay, latch, os, epoch, shutdown, kind, tgt, epoch0, wanted, sick>>

\* _flag_rf_fault has taken its snapshot and told the run.
WatchFlagged(p) ==
  /\ At(W(p), "flag")
  /\ Goto(W(p), "after")
  /\ UNCHANGED <<slotVars, os, epoch, shutdown, kind, tgt, epoch0, wanted, sick>>

\* A crash of a task that a run drives is flagged as the run's fault ...
WatchDetail(p) ==
  /\ At(W(p), "detail")
  /\ alarmed' = TRUE
  /\ Goto(W(p), "coupled")
  /\ UNCHANGED <<state, proc, watcher, relauncher, stopReq, opStop, spawned,
                 inDelay, latch, os, epoch, shutdown, kind, tgt, epoch0, wanted, sick>>

\* ... whose recovery policy owns it: nothing more to do.
WatchCoupled(p) ==
  /\ At(W(p), "coupled")
  /\ Goto(W(p), "done")
  /\ UNCHANGED <<slotVars, os, epoch, shutdown, kind, tgt, epoch0, wanted, sick>>

\* The crash event is out: give up, or wait restart_delay_s.
WatchEvent(p) ==
  /\ At(W(p), "event")
  /\ \/ Goto(W(p), "done") /\ UNCHANGED inDelay
     \/ RestartOnCrash /\ Goto(W(p), "delay") /\ inDelay' = TRUE
  /\ UNCHANGED <<state, proc, watcher, relauncher, stopReq, opStop, spawned,
                 latch, alarmed, os, epoch, shutdown, kind, tgt, epoch0, wanted, sick>>

\* The delay is over: relaunch, through ManagedProcess.start.
WatchDelay(p) ==
  /\ At(W(p), "delay")
  /\ inDelay' = FALSE
  /\ \/ /\ stopReq \/ shutdown
        /\ state' = "STOPPED"
        /\ Goto(W(p), "done")
        /\ UNCHANGED <<stopReq, opStop, spawned, alarmed, latch>>
     \/ ~(stopReq \/ shutdown) /\ StartSlot(W(p))
  /\ UNCHANGED <<proc, watcher, relauncher, os, epoch, shutdown, kind, tgt,
                 epoch0, wanted, sick>>

-----------------------------------------------------------------------------
(* _maybe_auto_restart_standalone, run by a watcher or by a relaunch task. *)

LatchIgnored == TRUE                                   \* mutant: no latch
LatchFree == latch = NoOne

\* Stand down (not enabled, driven by a run, already in flight, over budget),
\* or take the latch and let the slot's watcher finish first.
AutoRestartBegins(c) ==
  \/ Goto(c, "done") /\ UNCHANGED <<latch, inDelay, tgt>>
  \/ /\ AutoRestart /\ "none" \in Claims /\ LatchFree
     /\ latch' = c
     /\ \/ /\ ~WatcherGone /\ W(watcher) # c
           /\ Goto(c, "arwait")
           /\ tgt' = [tgt EXCEPT ![c] = watcher]
           /\ UNCHANGED inDelay
        \/ /\ WatcherGone \/ W(watcher) = c
           /\ Goto(c, "ardelay")
           /\ inDelay' = TRUE
           /\ UNCHANGED tgt

\* The exit path: the chain is muted.  A stop() takes the relaunch over.
WatchAfter(p) ==
  /\ At(W(p), "after")
  /\ \/ stopReq /\ Goto(W(p), "done") /\ UNCHANGED <<latch, inDelay, tgt>>
     \/ ~stopReq /\ AutoRestartBegins(W(p))
  /\ UNCHANGED <<state, proc, watcher, relauncher, stopReq, opStop, spawned,
                 alarmed, os, epoch, shutdown, kind, epoch0, wanted, sick>>

RelaunchBegins(p) ==
  /\ At(R(p), "arbegin")
  /\ AutoRestartBegins(R(p))
  /\ UNCHANGED <<state, proc, watcher, relauncher, stopReq, opStop, spawned,
                 alarmed, os, epoch, shutdown, kind, epoch0, wanted, sick>>

WatcherFinished(c) ==
  /\ At(c, "arwait") /\ pc[W(tgt[c])] = "done"
  /\ Goto(c, "ardelay")
  /\ inDelay' = TRUE
  /\ UNCHANGED <<state, proc, watcher, relauncher, stopReq, opStop, spawned, latch,
                 alarmed, os, epoch, shutdown, kind, tgt, epoch0, wanted, sick>>

\* The settle delay, and the wait for a pending claim, are over: relaunch
\* through ProcessManager.start unless something else took the task.
AutoRestartDelay(c) ==
  /\ At(c, "ardelay")
  /\ inDelay' = FALSE
  /\ \/ /\ ~opStop /\ ~shutdown /\ "none" \in Claims
        /\ state \notin {"RUNNING", "STARTING"} /\ ~SlotAlive
        /\ Goto(c, "parked")
        /\ epoch0' = [epoch0 EXCEPT ![c] = epoch]
        /\ UNCHANGED latch
     \/ /\ \/ opStop \/ shutdown \/ "driven" \in Claims
           \/ state \in {"RUNNING", "STARTING"} \/ SlotAlive
        /\ Finish(c)
        /\ UNCHANGED epoch0
  /\ UNCHANGED <<state, proc, watcher, relauncher, stopReq, opStop, spawned,
                 alarmed, os, epoch, shutdown, kind, tgt, wanted, sick>>

-----------------------------------------------------------------------------
(* The health watchdog: _health_loop and _scan_task_health.                *)

NeverStale == FALSE                                    \* mutant: no re-check
ScanStale == proc # tgt[Dog] \/ state # "RUNNING"

DogScans ==
  /\ At(Dog, "idle") /\ ~shutdown
  /\ state = "RUNNING" /\ ~alarmed
  /\ Goto(Dog, "scan")
  /\ tgt' = [tgt EXCEPT ![Dog] = proc]
  /\ UNCHANGED <<slotVars, os, epoch, shutdown, kind, epoch0, wanted, sick>>

\* The new log text is in: nothing to see, or a fault of the process read.
DogReads ==
  /\ At(Dog, "scan")
  /\ \/ Goto(Dog, "idle") /\ UNCHANGED <<alarmed, sick>>
     \/ /\ ~ScanStale
        /\ sick' = sick \cup {tgt[Dog]}
        /\ alarmed' = TRUE
        /\ Goto(Dog, "flag")
  /\ UNCHANGED <<state, proc, watcher, relauncher, stopReq, opStop, spawned,
                 inDelay, latch, os, epoch, shutdown, kind, tgt, epoch0, wanted>>

\* The fault is flagged: drop RF, unless the process is no longer the one read.
DogFlagged ==
  /\ At(Dog, "flag")
  /\ \/ /\ ScanStale
        /\ Goto(Dog, "idle")
        /\ UNCHANGED <<state, stopReq, os>>
     \/ /\ ~ScanStale
        /\ stopReq' = TRUE
        /\ \/ /\ SlotAlive
              /\ state' = "STOPPING"
              /\ os' = [os EXCEPT ![proc] = "termed"]
              /\ Goto(Dog, "term")
           \/ /\ ~SlotAlive                          \* gone already
              /\ state' = "STOPPED"
              /\ Goto(Dog, "after")
              /\ UNCHANGED os
  /\ UNCHANGED <<proc, watcher, relauncher, opStop, spawned, inDelay, latch,
                 alarmed, epoch, shutdown, kind, tgt, epoch0, wanted, sick>>

DogStopped ==
  /\ pc[Dog] = "term" /\ ExitSeen(Dog)
  /\ state' = "STOPPED"
  /\ Goto(Dog, IF shutdown THEN "done" ELSE "after")
  /\ UNCHANGED <<proc, watcher, relauncher, stopReq, opStop, spawned, inDelay, latch,
                 alarmed, os, epoch, shutdown, kind, tgt, epoch0, wanted, sick>>

\* The chain is muted: a detached task does the relaunch.
DogAfter ==
  /\ At(Dog, "after")
  /\ relauncher' = tgt[Dog]
  /\ pc' = [pc EXCEPT ![Dog] = "idle", ![R(tgt[Dog])] = "arbegin"]
  /\ UNCHANGED <<state, proc, watcher, stopReq, opStop, spawned, inDelay, latch,
                 alarmed, os, epoch, shutdown, kind, tgt, epoch0, wanted, sick>>

-----------------------------------------------------------------------------

Next ==
  \/ \E o \in Op : \/ BeginStart(o) \/ BeginStop(o) \/ BeginRestart(o)
                   \/ BeginPanic(o) \/ BeginShutdown(o)
  \/ \E c \in Coroutine :
       \/ Unpark(c) \/ Spawned(c) \/ SpawnFailed(c) \/ Killed(c)
       \/ StopSpawned(c) \/ StopGivesUp(c) \/ StopDone(c) \/ Reap(c) \/ Reaped(c)
       \/ RestartUnpark(c) \/ RestartStopped(c) \/ RestartWaited(c)
       \/ WatcherFinished(c) \/ AutoRestartDelay(c)
  \/ \E p \in Proc :
       \/ Exit(p) \/ WatchExit(p) \/ WatchTail(p) \/ WatchFlagged(p)
       \/ WatchDetail(p) \/ WatchCoupled(p) \/ WatchEvent(p) \/ WatchDelay(p)
       \/ WatchAfter(p) \/ RelaunchBegins(p)
  \/ DogScans \/ DogReads \/ DogFlagged \/ DogStopped \/ DogAfter

Spec == Init /\ [][Next]_vars

\* The event loop runs every coroutine that can run, delays end, spawns
\* return, and a process that is sent SIGTERM and then SIGKILL exits.
Fairness ==
  /\ \A c \in Coroutine :
       /\ WF_vars(Unpark(c)) /\ WF_vars(Spawned(c) \/ SpawnFailed(c)) /\ WF_vars(Killed(c))
       /\ WF_vars(StopSpawned(c)) /\ WF_vars(StopDone(c)) /\ WF_vars(Reap(c) \/ Reaped(c))
       /\ WF_vars(RestartUnpark(c)) /\ WF_vars(RestartStopped(c) \/ RestartWaited(c))
       /\ WF_vars(WatcherFinished(c)) /\ WF_vars(AutoRestartDelay(c))
  /\ \A p \in Proc :
       /\ WF_vars(os[p] = "termed" /\ Exit(p)) /\ WF_vars(WatchExit(p))
       /\ WF_vars(WatchTail(p) \/ WatchFlagged(p) \/ WatchDetail(p) \/ WatchCoupled(p)
                  \/ WatchEvent(p) \/ WatchDelay(p) \/ WatchAfter(p))
       /\ WF_vars(RelaunchBegins(p))
  /\ WF_vars(DogReads \/ DogFlagged \/ DogStopped \/ DogAfter)

FairSpec == Spec /\ Fairness

-----------------------------------------------------------------------------
(* Properties.                                                             *)

\* The types of the variables.
TypeOK ==
  /\ state \in ProcessState
  /\ proc \in Proc \cup {NoProc}
  /\ os \in [Proc -> {"free", "alive", "termed"} \cup Exits]
  /\ watcher \in Proc \cup {NoProc} /\ relauncher \in Proc \cup {NoProc}
  /\ {stopReq, opStop, spawned, inDelay, alarmed, shutdown, wanted} \subseteq BOOLEAN
  /\ latch \in Recovery \cup {NoOne}
  /\ epoch \in Nat /\ epoch0 \in [Coroutine -> Nat]
  /\ pc \in [Coroutine -> Awaits]
  /\ kind \in [Op -> AllKinds \cup {"none"}]
  /\ tgt \in [Coroutine -> Proc \cup {NoProc}]
  /\ sick \subseteq Proc \cup {NoProc}

\* The single TX channel (can_start, the stop that waits for the exit): a slot never has two processes alive.
OneTransmitter == \A p, q \in Proc : Alive(p) /\ Alive(q) => p = q

\* No orphan: what is alive is the slot's process, and the slot says so.
NoOrphan ==
  \A p \in Proc : Alive(p) => p = proc /\ state \in {"STARTING", "RUNNING", "STOPPING"}

(* Why these two hold when nothing stalls, nobody slips in between an exit *)
(* and those who wait for it, and no crash is restarted by the supervisor: *)
(* SlotInv is preserved by every step then.                                *)
Launching(c) == pc[c] \in {"exec", "kill"}
Stopping(c) == pc[c] \in {"term", "rterm"}

\* One launch at a time, into an empty slot that reads STARTING.
LaunchInv ==
  /\ \A c, d \in Coroutine : Launching(c) /\ Launching(d) => c = d
  /\ \A c \in Coroutine :
       /\ pc[c] = "exec" => state = "STARTING" /\ ~spawned /\ ~SlotAlive
       /\ pc[c] = "kill" => /\ proc \in Proc /\ tgt[c] = proc /\ pc[W(proc)] = "idle"
                            /\ Alive(proc) => state = "STARTING"

\* One stop at a time, of the slot's own process; no launch before it is over.
StopInv ==
  /\ \A c, d \in Coroutine : Stopping(c) /\ Stopping(d) => c = d
  /\ \A c \in Coroutine :
       Stopping(c) => /\ proc \in Proc /\ tgt[c] = proc /\ pc[W(proc)] # "idle"
                      /\ state \notin {"RUNNING", "STARTING"}

\* Nothing is launched once shutdown has come to its last sweep.
ReapInv ==
  /\ \A c \in Coroutine :
       /\ pc[c] \in {"reap", "reaped"} => shutdown /\ \A d \in Coroutine : pc[d] # "exec"
       /\ pc[c] = "reaped" => proc \in Proc /\ tgt[c] = proc
       /\ pc[c] \in {"rparked", "rterm", "rwait"} => ~shutdown
       /\ pc[c] \in {"spawnwait", "reap", "reaped", "rparked", "rterm", "rwait"}
            => \E o \in Op : c = Call(o)
       /\ pc[c] # "delay"
  /\ \A o \in Op : kind[o] = "shutdown" => shutdown

\* A process that lives is the slot's and is watched, or is being killed by
\* the launch that spawned it.
WatchInv ==
  /\ \A p \in Proc :
       /\ pc[W(p)] = "wait" => p = proc /\ tgt[W(p)] = p /\ state \in {"RUNNING", "STOPPING"}
       /\ Alive(p) => p = proc /\ (pc[W(p)] = "wait" \/ \E c \in Coroutine : pc[c] = "kill")
       /\ os[p] = "free" => pc[W(p)] = "idle"
       /\ pc[R(p)] # "idle" => pc[W(p)] \notin {"idle", "wait"}
  /\ state \in {"RUNNING", "STOPPING"} => proc \in Proc /\ pc[W(proc)] = "wait"
  /\ pc[Dog] \in {"term", "after"} => tgt[Dog] \in Proc /\ pc[R(tgt[Dog])] = "idle"
  /\ pc[Dog] = "after" => pc[W(tgt[Dog])] \notin {"idle", "wait"}

\* The state that start(), stop(), _spawn() and _watch() leave behind at each other's
\* awaits: one launch, one stop, one watcher, all of them about the slot's process.
SlotInv == LaunchInv /\ StopInv /\ ReapInv /\ WatchInv

\* What carries IntentHonoured where nobody calls restart(): an operator's stop
\* is either latched or older than the start that is wanted, and a stop that
\* meets a launch reaches it.
IntentInv ==
  /\ opStop \/ wanted \/ \A c \in Coroutine : pc[c] = "idle"
  /\ \A c \in Coroutine : /\ pc[c] = "exec" => stopReq \/ wanted
                          /\ pc[c] \notin {"rparked", "rterm", "rwait"}

\* The slot goes RUNNING only while the last thing asked for is a start:
\* an operator's stop, PANIC or shutdown is never overridden by a launch that
\* was parked, sleeping or spawning when it came.
IntentHonoured == [][state # "RUNNING" /\ state' = "RUNNING" => wanted]_vars

\* The exit path and the watchdog path never both bring a faulted task back:
\* from the settle delay until its launch has returned, an auto-restart holds
\* the latch of the slot.
OneRecovery ==
  \A c \in Recovery : pc[c] \in {"arwait", "ardelay", "parked"} => latch = c

\* The watchdog takes only a process off the air whose own log showed a fault,
\* never the healthy one that replaced it while the fault was being flagged.
WatchdogSparesHealthy ==
  [][pc[Dog] = "flag" /\ pc'[Dog] = "term" => proc \in sick]_vars

\* shutdown() leaves no process behind.
ShutdownLeavesNone ==
  \A o \in Op : kind[o] = "shutdown" /\ pc[Call(o)] = "done" => ~SlotAlive

\* What carries it: shutdown's last sweep is behind every launch.
ShutInv ==
  \A o \in Op : kind[o] = "shutdown" =>
    /\ pc[Call(o)] \in {"spawnwait", "term", "reap", "reaped", "done"}
    /\ pc[Call(o)] = "done" => ~SlotAlive /\ \A c \in Coroutine : pc[c] # "exec"

OnAir == {p \in Proc : os[p] = "alive"}
Leaving == {p \in Proc : os[p] = "termed"}
Slot == INSTANCE TransmitterSlot WITH onAir <- OnAir, leaving <- Leaving

\* The slot keeps the promise of TransmitterSlot: what OneTransmitter and
\* IntentHonoured say, step by step and for the processes on their way out too.
KeepsPromise == Slot!Spec

\* A stop, PANIC or shutdown silences the slot, unless a start follows.
StopSilences == (~wanted) ~> (wanted \/ ~SlotAlive)

\* Every call returns.
CallsReturn == \A o \in Op : (pc[Call(o)] # "idle") ~> (pc[Call(o)] = "done")
=============================================================================
