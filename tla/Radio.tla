------------------------------- MODULE Radio -------------------------------
(***************************************************************************)
(* The radio device and the attenuator chain in front of it, as the manager*)
(* of agent/process_manager.py shares them between its task slots, its     *)
(* one-shot transmissions, the boot pre-image and the post-fault reset.    *)
(*                                                                         *)
(* The device gate keeps launches waiting while a probe has the device     *)
(* open.  Before a launch or a live tune the manager moves the chain's     *)
(* attenuator with a separate process, a "set", and awaits it; after a stop*)
(* or a fault it mutes the chain.  An action is the code between two awaits*)
(* of one coroutine; how a slot starts and stops is in ManagedProcess and  *)
(* is reduced here to off, starting, on and stopping.                      *)
(***************************************************************************)
EXTENDS Integers, FiniteSets

CONSTANTS
  Task,           \* the registered tasks
  NoTask,
  Calibrated,     \* those whose calibrated chain has an attenuator
  Power,          \* the levels asked for; each has a position of its own
  Call,           \* API calls, each made at most once
  Boot, Reset,    \* the two probes: _preimage_when_idle and _reset_radio
  Kinds,          \* the calls that are made
  Launches,       \* the settings a launch may ask for
  Tunes,          \* the changes a tune may ask for
  MaxFaults,      \* bound: faults
  MaxSlips        \* bound: sets that fail or outlast _ACTIVE_SET_TIMEOUT_S

None == -1                  \* no value: unknown, not given
Mute == 0                   \* the position of most attenuation
Position == Power \cup {Mute}
Setting == [power : Power, on : {0, 1}]            \* --power and the RF gate
Change == [power : Power \cup {None}, on : {0, 1, None}]
Watch == {"watch"} \X Task                         \* the exit watchers
W(t) == <<"watch", t>>
Coroutine == Call \cup {Boot, Reset} \cup Watch

ASSUME RadioAssumption ==
  /\ Power \subseteq Nat \ {Mute}
  /\ Calibrated \subseteq Task
  /\ {NoTask, "muted"} \cap Task = {} /\ NoTask # "muted"
  /\ Launches \subseteq Setting
  /\ Tunes \subseteq Change
  /\ MaxFaults \in Nat /\ MaxSlips \in Nat
ASSUME CoroutineAssumption ==
  /\ Boot # Reset /\ {Boot, Reset} \cap (Call \cup Watch) = {}
  /\ Call \cap Watch = {}

VARIABLES
  gate,        \* device_free is set
  pc,          \* where each coroutine awaits
  job,         \* what it does: kind, task, ask
  cmd,         \* the position its set drives the attenuator to
  epoch0,      \* _panic_epoch when its launch began
  left,        \* the tasks a PANIC has still to stop
  slot,        \* off, starting, on, stopping
  opStop,      \* _operator_stop_requested
  epoch,       \* _panic_epoch
  req,         \* _last_request
  live,        \* _live_applied
  emits,       \* what its newest process is set to
  shot,        \* the one-shot transmission a call started
  gateState,   \* _gate_state
  last,        \* _active_last: the position last set with success
  chain,       \* where the attenuator is
  late,        \* positions that sets which timed out may still drive it to
  known,       \* the tasks in _procs
  faults, slips,
  under,       \* history: the probes that hold the device since it came to the gate
  asked,       \* history: the PANICs there had been when it was asked for
  owner,       \* history: whose level the chain was last moved for, in peace
  strayed      \* history: the last set had others in flight, or landed before one given up

vars == <<gate, pc, job, cmd, epoch0, left, slot, opStop, epoch, req, live,
          emits, shot, gateState, last, chain, late, known, faults, slips,
          under, asked, owner, strayed>>
chainVars == <<gateState, last, chain, late, cmd, owner, strayed>>
slotVars == <<slot, opStop, epoch, req, live, emits, shot, known, left>>
callVars == <<job, epoch0, asked, under>>
bounds == <<faults, slips>>

\* What a coroutine does, without a setting of its own.
NoAsk == [power |-> None, on |-> None]
Doing(k, t) == [kind |-> k, task |-> t, ask |-> NoAsk]
Idle == Doing("none", NoTask)

-----------------------------------------------------------------------------
(* Helpers *)

\* A setting after a change: what is not given stays.
Merge(s, ch) == [f \in DOMAIN s |-> IF ch[f] = None THEN s[f] ELSE ch[f]]

\* ProcessManager.is_live: of one-shots it knows nothing.
IsLive(t) == t \in known /\ slot[t] # "off"
Probing == {p \in {Boot, Reset} : pc[p] = "probe"}

\* Coroutines that go on in the same turn of the loop: no await lies between.
Hot == {"through", "ready", "next"}
At(c, label) ==
  /\ pc[c] = label
  /\ label \notin Hot => \A d \in Coroutine : pc[d] \notin Hot
To(c, label) == pc' = [pc EXCEPT ![c] = label]
Ends(c) == To(c, "done")

Working == {c \in Coroutine : pc[c] \in {"through", "set", "ready", "spawn", "rpc"}}
InPeace(c) == Working \subseteq {c}
InFlight == {c \in Coroutine : pc[c] = "set"}

\* active_settings and _mute_settings: where the chain belongs for a setting.
Target(t, s) ==
  IF t \notin Calibrated THEN None ELSE IF s.on = 0 THEN Mute ELSE s.power

\* Mutant: a tune forgets what it does not change.
GateStateFresh(c) == job[c].ask
\* _gate_state after a launch, which seeds it, or a tune, which updates it.
GateStateFor(c) ==
  LET t == job[c].task
  IN IF job[c].kind = "tune" THEN Merge(gateState[t], job[c].ask) ELSE job[c].ask

\* Whom the chain serves once c has sent a set: a launch makes it its own, a
\* tune keeps it, a mute frees it, and a set amid others leaves it in doubt.
OwnerAfter(c, v) ==
  LET t == job[c].task
  IN IF ~InPeace(c) THEN NoTask
     ELSE CASE job[c].kind \in {"start", "relaunch"} -> t
            [] job[c].kind = "tune" /\ owner = t -> t
            [] job[c].kind \in {"stop", "panic", "after"} /\ v = Mute -> "muted"
            [] OTHER -> NoTask

\* Mutant: what is known of the position is kept until the set has succeeded.
NotForgotten == last
\* _apply_active_settings up to its await: what is known of the position is
\* forgotten before the set is sent.
Forgotten == None
Send(c, v) ==
  /\ last' = Forgotten
  /\ cmd' = [cmd EXCEPT ![c] = v]
  /\ owner' = OwnerAfter(c, v)
  /\ strayed' = (InFlight # {})
  /\ To(c, "set")
  /\ UNCHANGED <<chain, late>>
NoSend(c, o) ==
  /\ owner' = IF InPeace(c) THEN o ELSE NoTask
  /\ To(c, "ready")
  /\ UNCHANGED <<last, cmd, chain, late, strayed>>

\* A live tune does not send the position that was sent last.
MaySkip(c, v) == job[c].kind = "tune" /\ last = v

\* Mutant: another task that is there counts as live.
OtherThere(t) == known \ {t} # {}
\* mute_chain: unless another task is live, to which the chain is then left.
OtherLive(t) == \E o \in Task \ {t} : IsLive(o)
LeftTo(t) ==
  IF owner = t /\ (\E o \in Task \ {t} : slot[o] # "off") THEN NoTask ELSE owner
MuteChain(c, t) ==
  /\ CASE t \notin Calibrated -> NoSend(c, owner)
       [] t \in Calibrated /\ OtherLive(t) -> NoSend(c, LeftTo(t))
       [] OTHER -> Send(c, Mute)
  /\ UNCHANGED gateState

\* Whether a failed set refuses what it was sent for (ACTIVE_SET_STRICT): an
\* open gate does, a mute does not.
Strict(c) == cmd[c] # Mute

-----------------------------------------------------------------------------
(* Calls *)

\* Mutant: a launch goes past a closed gate.
Pass(c) ==
  /\ To(c, "through")
  /\ under' = [under EXCEPT ![c] = Probing]
\* A launch arrives at the gate.
Arrive(c) ==
  /\ To(c, IF gate THEN "through" ELSE "gate")
  /\ under' = [under EXCEPT ![c] = Probing]

\* start: a launch supersedes older stops.  run_oneshot: it does not.
BeginLaunch(c, k, t, s) ==
  /\ c \in Call /\ At(c, "idle") /\ k \in Kinds \cap {"start", "oneshot"}
  /\ t \in known /\ s \in Launches
  /\ job' = [job EXCEPT ![c] = [kind |-> k, task |-> t, ask |-> s]]
  /\ opStop' = IF k = "start" THEN [opStop EXCEPT ![t] = FALSE] ELSE opStop
  /\ epoch0' = [epoch0 EXCEPT ![c] = epoch]
  /\ asked' = [asked EXCEPT ![c] = epoch]
  /\ Arrive(c)
  /\ UNCHANGED <<gate, slot, epoch, req, live, emits, shot, known, left,
                 chainVars, bounds>>

\* set_params does not wait at the gate.
BeginTune(c, t, ch) ==
  /\ c \in Call /\ At(c, "idle") /\ "tune" \in Kinds
  /\ t \in known /\ ch \in Tunes
  /\ job' = [job EXCEPT ![c] = [kind |-> "tune", task |-> t, ask |-> ch]]
  /\ To(c, "through")
  /\ UNCHANGED <<gate, epoch0, asked, under, slotVars, chainVars, bounds>>

\* stop: the intent is latched whatever the slot is doing.
BeginStop(c, t) ==
  /\ c \in Call /\ At(c, "idle") /\ "stop" \in Kinds /\ t \in known
  /\ job' = [job EXCEPT ![c] = Doing("stop", t)]
  /\ opStop' = [opStop EXCEPT ![t] = TRUE]
  /\ To(c, "stopping")
  /\ UNCHANGED <<gate, epoch0, asked, under, slot, epoch, req, live, emits,
                 shot, known, left, chainVars, bounds>>

\* panic_stop from cancel_pending_relaunches on.
BeginPanic(c) ==
  /\ c \in Call /\ At(c, "idle") /\ "panic" \in Kinds
  /\ job' = [job EXCEPT ![c] = Doing("panic", NoTask)]
  /\ epoch' = epoch + 1
  /\ opStop' = [t \in Task |-> opStop[t] \/ t \in known]
  /\ left' = [left EXCEPT ![c] = {t \in known : slot[t] \in {"starting", "on"}}]
  /\ To(c, "next")
  /\ UNCHANGED <<gate, epoch0, asked, under, slot, req, live, emits, shot,
                 known, chainVars, bounds>>

\* Its next task, and when there is none left the one-shots.
PanicNext(c) ==
  /\ At(c, "next")
  /\ \/ \E t \in left[c] :
          /\ left' = [left EXCEPT ![c] = @ \ {t}]
          /\ job' = [job EXCEPT ![c] = Doing("panic", t)]
          /\ opStop' = [opStop EXCEPT ![t] = TRUE]
          /\ To(c, "stopping")
          /\ UNCHANGED shot
     \/ /\ left[c] = {}
        /\ shot' = [d \in Call |-> IF shot[d] = "on" THEN "termed" ELSE shot[d]]
        /\ Ends(c)
        /\ UNCHANGED <<left, job, opStop>>
  /\ UNCHANGED <<gate, epoch0, asked, under, slot, epoch, req, live, emits,
                 known, chainVars, bounds>>

\* reload: what is not RUNNING may be dropped, a known task stays.
Reload(c, keep) ==
  /\ c \in Call /\ At(c, "idle") /\ "reload" \in Kinds
  /\ \A t \in Task : slot[t] \in {"off", "on"}
  /\ known' = keep \cup {t \in known : slot[t] = "on"}
  /\ job' = [job EXCEPT ![c] = Doing("reload", NoTask)]
  /\ Ends(c)
  /\ UNCHANGED <<gate, epoch0, asked, under, slot, opStop, epoch, req, live,
                 emits, shot, left, chainVars, bounds>>

-----------------------------------------------------------------------------
(* The chain *)

\* _gate_precommand up to its set, for a launch past the gate or a tune.
PreCommand(c) ==
  /\ At(c, "through")
  /\ LET t == job[c].task
         s == GateStateFor(c)
         v == Target(t, s)
     IN IF t \notin known THEN UNCHANGED chainVars /\ Ends(c)
        ELSE /\ gateState' = [gateState EXCEPT ![t] = s]
             /\ IF v = None \/ MaySkip(c, v) THEN NoSend(c, owner) ELSE Send(c, v)
  /\ UNCHANGED <<gate, callVars, slotVars, bounds>>

\* The set exits with 0.  Of sets that overlap any may have moved it last.
SetDone(c) ==
  /\ At(c, "set")
  /\ chain' \in {cmd[c]} \cup IF strayed THEN {chain} ELSE {}
  /\ last' = cmd[c]
  /\ To(c, "ready")
  /\ UNCHANGED <<gate, callVars, slotVars, gateState, late, cmd, owner, strayed, bounds>>

\* It fails, with the attenuator moved or not, or is given up and may yet move it.
SetFails(c) ==
  /\ At(c, "set") /\ slips < MaxSlips
  /\ slips' = slips + 1
  /\ \/ chain' \in {chain, cmd[c]} /\ UNCHANGED late
     \/ late' = late \cup {cmd[c]} /\ UNCHANGED chain
  /\ owner' = NoTask
  /\ IF Strict(c) THEN Ends(c) ELSE To(c, "ready")
  /\ UNCHANGED <<gate, callVars, slotVars, gateState, last, cmd, strayed, faults>>

\* A set that was given up reaches the attenuator after all.
LateSet ==
  /\ \A c \in Coroutine : pc[c] \notin Hot
  /\ \E v \in late : chain' = v /\ late' = late \ {v}
  /\ strayed' = TRUE
  /\ owner' = NoTask
  /\ UNCHANGED <<gate, pc, callVars, slotVars, gateState, last, cmd, bounds>>

-----------------------------------------------------------------------------
(* What the chain was moved for *)

\* start after the gates: the epoch and the latched stop are read again.
Abandoned(c) ==
  \/ epoch0[c] # epoch \/ opStop[job[c].task]
  \/ job[c].task \notin known
Launch(c) ==
  /\ At(c, "ready") /\ job[c].kind \in {"start", "relaunch"}
  /\ LET t == job[c].task
     IN IF Abandoned(c) \/ slot[t] # "off"
        THEN Ends(c) /\ owner' = NoTask /\ UNCHANGED slotVars
        ELSE /\ slot' = [slot EXCEPT ![t] = "starting"]
             /\ opStop' = [opStop EXCEPT ![t] = FALSE]
             /\ req' = [req EXCEPT ![t] = job[c].ask]
             /\ live' = [live EXCEPT ![t] = NoAsk]
             /\ emits' = [emits EXCEPT ![t] = job[c].ask]
             /\ To(c, "spawn")
             /\ UNCHANGED <<epoch, shot, known, left, owner>>
  /\ UNCHANGED <<gate, callVars, gateState, last, chain, late, cmd, strayed, bounds>>

\* ManagedProcess._spawn: it comes up as it was asked to, or not at all.
Spawned(c) ==
  /\ At(c, "spawn") /\ job[c].kind \in {"start", "relaunch"}
  /\ LET t == job[c].task
     IN \/ slot' = [slot EXCEPT ![t] = "on"] /\ UNCHANGED owner
        \/ slot' = [slot EXCEPT ![t] = "off"] /\ owner' = NoTask
  /\ Ends(c)
  /\ UNCHANGED <<gate, callVars, opStop, epoch, req, live, emits, shot, known, left,
                 gateState, last, chain, late, cmd, strayed, bounds>>

\* run_oneshot after the gates: nothing is read again.
LaunchShot(c) ==
  /\ At(c, "ready") /\ job[c].kind = "oneshot"
  /\ To(c, "spawn")
  /\ UNCHANGED <<gate, callVars, slotVars, chainVars, bounds>>
ShotSpawned(c) ==
  /\ At(c, "spawn") /\ job[c].kind = "oneshot"
  /\ shot' = [shot EXCEPT ![c] = "on"]
  /\ Ends(c)
  /\ UNCHANGED <<gate, callVars, slot, opStop, epoch, req, live, emits, known,
                 left, chainVars, bounds>>
ShotExits(c) ==
  /\ \A d \in Coroutine : pc[d] \notin Hot
  /\ shot[c] \in {"on", "termed"}
  /\ shot' = [shot EXCEPT ![c] = "none"]
  /\ UNCHANGED <<gate, pc, callVars, slot, opStop, epoch, req, live, emits,
                 known, left, chainVars, bounds>>

\* ManagedProcess.set_params: refused unless the task runs.
Tune(c) ==
  /\ At(c, "ready") /\ job[c].kind = "tune"
  /\ LET t == job[c].task
     IN IF t \in known /\ slot[t] = "on"
        THEN To(c, "rpc") /\ UNCHANGED owner
        ELSE Ends(c) /\ owner' = NoTask
  /\ UNCHANGED <<gate, callVars, slotVars, gateState, last, chain, late, cmd, strayed, bounds>>

\* What is applied of a change of which the script rejects some.
Applied(ch, rejected) == [f \in DOMAIN ch |-> IF f \in rejected THEN None ELSE ch[f]]

\* The script answers, having rejected some of the values, or is gone.
Tuned(c) ==
  /\ At(c, "rpc")
  /\ LET t == job[c].task
         ch == job[c].ask
     IN \/ \E rejected \in SUBSET {f \in DOMAIN ch : ch[f] # None} :
             /\ slot[t] = "on"
             /\ emits' = [emits EXCEPT ![t] = Merge(@, Applied(ch, rejected))]
             /\ live' = [live EXCEPT ![t] = Merge(@, Applied(ch, rejected))]
             /\ owner' = IF rejected = {} THEN owner ELSE NoTask
        \/ slot[t] # "on" /\ owner' = NoTask /\ UNCHANGED <<emits, live>>
  /\ Ends(c)
  /\ UNCHANGED <<gate, callVars, slot, opStop, epoch, req, shot, known, left,
                 gateState, last, chain, late, cmd, strayed, bounds>>

-----------------------------------------------------------------------------
(* Stops *)

\* A running process is sent SIGTERM; one being launched is waited for.
StopSignals(c) ==
  /\ At(c, "stopping")
  /\ slot[job[c].task] = "on"
  /\ slot' = [slot EXCEPT ![job[c].task] = "stopping"]
  /\ UNCHANGED <<gate, pc, callVars, opStop, epoch, req, live, emits, shot,
                 known, left, chainVars, bounds>>

\* It is gone: the chain is muted.
StopMutes(c) ==
  /\ At(c, "stopping")
  /\ slot[job[c].task] = "off"
  /\ MuteChain(c, job[c].task)
  /\ UNCHANGED <<gate, callVars, slotVars, bounds>>

Stopped(c) ==
  /\ At(c, "ready") /\ job[c].kind \in {"stop", "panic"}
  /\ To(c, IF job[c].kind = "stop" THEN "done" ELSE "next")
  /\ UNCHANGED <<gate, callVars, slotVars, chainVars, bounds>>

Exit(t) ==
  /\ \A c \in Coroutine : pc[c] \notin Hot
  /\ slot[t] = "stopping"
  /\ slot' = [slot EXCEPT ![t] = "off"]
  /\ UNCHANGED <<gate, pc, callVars, opStop, epoch, req, live, emits, shot,
                 known, left, chainVars, bounds>>

-----------------------------------------------------------------------------
(* Faults and probes *)

\* A process faults and is gone; its watcher flags the fault.
Fault(t) ==
  /\ slot[t] = "on" /\ At(W(t), "idle") /\ faults < MaxFaults
  /\ slot' = [slot EXCEPT ![t] = "off"]
  /\ faults' = faults + 1
  /\ job' = [job EXCEPT ![W(t)] = Doing("after", t)]
  /\ asked' = [asked EXCEPT ![W(t)] = epoch]
  /\ To(W(t), "flag")
  /\ UNCHANGED <<gate, epoch0, under, opStop, epoch, req, live, emits, shot,
                 known, left, chainVars, slips>>

\* _after_fault: the chain is muted, ...
AfterFault(c) ==
  /\ At(c, "flag")
  /\ MuteChain(c, job[c].task)
  /\ UNCHANGED <<gate, callVars, slotVars, bounds>>

\* ... then the radio is reset by a task of its own, one at a time.
StartReset(c) ==
  /\ At(c, "ready") /\ job[c].kind = "after"
  /\ pc' = [pc EXCEPT ![c] = "delay",
                      ![Reset] = IF @ = "idle" THEN "check" ELSE @]
  /\ UNCHANGED <<gate, callVars, slotVars, chainVars, bounds>>

\* _reset_radio, _preimage_when_idle: never under a live task, with the gate closed.
ProbeBegins ==
  /\ At(Reset, "check")
  /\ IF \E t \in Task : IsLive(t)
     THEN To(Reset, "idle") /\ UNCHANGED gate
     ELSE To(Reset, "probe") /\ gate' = FALSE
  /\ UNCHANGED <<callVars, slotVars, chainVars, bounds>>

\* Mutant: a probe that fails leaves the gate closed.
ProbeFails(p) ==
  /\ p \in {Boot, Reset} /\ At(p, "probe")
  /\ To(p, "idle")
  /\ UNCHANGED <<gate, callVars, slotVars, chainVars, bounds>>
\* However it ends, within its bound, the gate opens and all that wait go on.
ProbeEnds(p) ==
  /\ p \in {Boot, Reset} /\ At(p, "probe")
  /\ gate' = TRUE
  /\ pc' = [c \in Coroutine |-> CASE c = p -> "idle"
                               [] pc[c] = "gate" -> "through"
                               [] OTHER -> pc[c]]
  /\ under' = [c \in Coroutine |-> under[c] \ {p}]
  /\ UNCHANGED <<job, epoch0, asked, slotVars, chainVars, bounds>>

\* Mutant: the launch request alone.
AsLaunched(t) == req[t]
\* relaunch: the launch that faulted with what was tuned since.
Overlay(t) == Merge(req[t], live[t])

\* _maybe_auto_restart_standalone after its delay: unless it gives up, was
\* stopped meanwhile or finds the slot taken, it launches again.
Relaunch(c) ==
  /\ At(c, "delay")
  /\ LET t == job[c].task
     IN \/ Ends(c) /\ UNCHANGED <<job, epoch0, under>>
        \/ /\ ~opStop[t] /\ slot[t] = "off" /\ t \in known
           /\ job' = [job EXCEPT ![c] = [kind |-> "relaunch", task |-> t, ask |-> Overlay(t)]]
           /\ epoch0' = [epoch0 EXCEPT ![c] = epoch]
           /\ Arrive(c)
  /\ UNCHANGED <<gate, asked, slotVars, chainVars, bounds>>

-----------------------------------------------------------------------------
(* The specification *)

Init ==
  /\ \E booting \in BOOLEAN :
       /\ gate = ~booting
       /\ pc = [c \in Coroutine |-> IF c = Boot /\ booting THEN "probe" ELSE "idle"]
  /\ job = [c \in Coroutine |-> Idle]
  /\ cmd = [c \in Coroutine |-> None]
  /\ epoch0 = [c \in Coroutine |-> 0]
  /\ asked = [c \in Coroutine |-> 0]
  /\ under = [c \in Coroutine |-> {}]
  /\ left = [c \in Call |-> {}]
  /\ slot = [t \in Task |-> "off"]
  /\ opStop = [t \in Task |-> FALSE]
  /\ epoch = 0
  /\ req = [t \in Task |-> NoAsk]
  /\ live = [t \in Task |-> NoAsk]
  /\ emits = [t \in Task |-> NoAsk]
  /\ shot = [c \in Call |-> "none"]
  /\ gateState = [t \in Task |-> [power |-> None, on |-> 1]]
  /\ last = None
  /\ chain \in Position
  /\ late = {}
  /\ known = Task
  /\ faults = 0 /\ slips = 0
  /\ owner = NoTask /\ strayed = FALSE

Step(c) ==
  \/ PreCommand(c) \/ SetDone(c) \/ SetFails(c)
  \/ Launch(c) \/ Spawned(c) \/ LaunchShot(c) \/ ShotSpawned(c)
  \/ Tune(c) \/ Tuned(c)
  \/ StopSignals(c) \/ StopMutes(c) \/ Stopped(c)
  \/ AfterFault(c) \/ StartReset(c) \/ Relaunch(c)

Next ==
  \/ \E c \in Call :
       \/ \E k \in Kinds, t \in Task, s \in Launches : BeginLaunch(c, k, t, s)
       \/ \E t \in Task, ch \in Tunes : BeginTune(c, t, ch)
       \/ \E t \in Task : BeginStop(c, t)
       \/ BeginPanic(c) \/ PanicNext(c)
       \/ \E keep \in SUBSET Task : Reload(c, keep)
       \/ ShotExits(c)
  \/ \E c \in Call \cup Watch : Step(c)
  \/ \E t \in Task : Exit(t) \/ Fault(t)
  \/ LateSet \/ ProbeBegins \/ ProbeEnds(Boot) \/ ProbeEnds(Reset)

Spec == Init /\ [][Next]_vars

\* Coroutines go on, sets and probes end within their bounds, processes that
\* were told to stop exit.
FairSpec ==
  /\ Spec
  /\ \A c \in Call \cup Watch : WF_vars(Step(c))
  /\ \A c \in Call : WF_vars(PanicNext(c))
  /\ \A t \in Task : WF_vars(Exit(t))
  /\ \A p \in {Boot, Reset} : WF_vars(ProbeEnds(p))
  /\ WF_vars(ProbeBegins)

-----------------------------------------------------------------------------
(* Properties *)

TypeOK ==
  /\ gate \in BOOLEAN
  /\ pc \in [Coroutine -> {"idle", "gate", "through", "set", "ready", "spawn", "rpc",
                           "stopping", "next", "flag", "delay", "check", "probe", "done"}]
  /\ job \in [Coroutine -> [kind : {"none", "start", "oneshot", "tune", "stop", "panic",
                                    "reload", "after", "relaunch"},
                            task : Task \cup {NoTask}, ask : Change]]
  /\ cmd \in [Coroutine -> Position \cup {None}]
  /\ epoch \in Nat /\ epoch0 \in [Coroutine -> Nat] /\ asked \in [Coroutine -> Nat]
  /\ under \in [Coroutine -> SUBSET {Boot, Reset}]
  /\ left \in [Call -> SUBSET Task]
  /\ slot \in [Task -> {"off", "starting", "on", "stopping"}]
  /\ opStop \in [Task -> BOOLEAN]
  /\ req \in [Task -> Change] /\ live \in [Task -> Change] /\ emits \in [Task -> Change]
  /\ shot \in [Call -> {"none", "on", "termed"}]
  /\ gateState \in [Task -> [power : Power \cup {None}, on : {0, 1}]]
  /\ last \in Position \cup {None} /\ chain \in Position /\ late \subseteq Position
  /\ known \subseteq Task
  /\ faults \in 0..MaxFaults /\ slips \in 0..MaxSlips
  /\ owner \in Task \cup {NoTask, "muted"}
  /\ strayed \in BOOLEAN

\* What _active_last remembers is where the attenuator is: whenever a tune may
\* skip its set, the position is the right one.  The exceptions are sets that
\* overlap and a set that was given up and lands late; the next set that is
\* sent alone ends them.
CacheTrue == ~strayed => last \in {None, chain}

\* Whoever transmits with the RF gate open, through a chain that nobody else
\* has moved, does so behind the attenuation its own level calls for, however
\* many tunes changed only the level or only the gate.
LevelHeld ==
  \A t \in Task :
    slot[t] = "on" /\ emits[t].on = 1 /\ t \in Calibrated /\ owner = t /\ Working = {}
      => chain = emits[t].power

\* Once everything is over, stopped or faulted, the chain is muted, unless
\* somebody else has moved it since, a set has failed, or its mute was left out
\* because another task was live: that one, if it has no chain, leaves it as it is.
SafeAtRest ==
  (\A t \in Task : slot[t] = "off") /\ (\A c \in Coroutine : pc[c] \in {"idle", "done", "gate", "delay", "check", "probe"})
    /\ owner \in Calibrated \cup {"muted"}
    => chain = Mute

\* What came to the gate while a probe had the device does not open it before
\* that probe has ended.
Spawns(c) == pc[c] = "ready" /\ pc'[c] = "spawn"
GateHonoured == [][\A c \in Coroutine : Spawns(c) => under[c] = {}]_vars

\* An unattended relaunch asks for what the task's newest process was set to,
\* its live tunes included and its rejected ones not.
Relaunches(t) == pc[W(t)] = "delay" /\ pc'[W(t)] \in {"gate", "through"}
LevelRestored ==
  [][\A t \in Task : Relaunches(t) => job'[W(t)].ask = emits[t]]_vars

\* Whatever transmits was asked for after the last PANIC.
PanicHolds == [][\A c \in Coroutine : Spawns(c) => asked[c] = epoch]_vars

\* Every call returns: no probe, set or stop holds it for ever.
CallsReturn == \A c \in Call : pc[c] # "idle" ~> pc[c] = "done"
=============================================================================
