# Verification of the SDR agent

TLA+ models of the agent that runs on each transmitter unit (`src/agent`), the
TLC runs that check them on small instances, and TLAPS proofs of what matters
most for every instance. Paths below are relative to the repository.

The agent is one asyncio process on a Raspberry Pi class unit. It starts and
stops transmitter scripts as operating system processes on a single TX channel,
at an operator's request, at scheduled times or along a sequence; it watches
their logs for RF faults, recovers them unattended, and survives reboots and
updates. The questions the models ask are the ones a field team has: can two
processes transmit at once, can something transmit after it was told to stop,
can a fault go unnoticed or a healthy task be taken down for an old fault, can
a reboot repeat a broadcast, is the power on the air the one that was asked for.

## Contents

| file | what it is |
| --- | --- |
| `TransmitterSlot.tla` | abstract specification: what a task slot promises |
| `ManagedProcess.tla` | one task slot with every coroutine that touches it |
| `ManagedProcessProofs.tla` | theorems about it |
| `MCManagedProcess.tla`, `ManagedProcess_*.cfg` | its TLC runs |
| `Scheduler.tla` | the scheduler of timed events, with crash and restart |
| `SchedulerProofs.tla` | theorems about it |
| `MCScheduler.tla`, `Scheduler*.cfg` | its TLC runs |
| `Updater.tla` | over-the-air updates: requests, confirmation, confirm script |
| `UpdaterProofs.tla` | theorems about it |
| `MCUpdater.tla`, `Updater*.cfg` | its TLC runs |
| `SequenceRunner.tla` | timed sequences: runs, the tick, holds, faults, restarts |
| `SequenceRunnerProofs.tla`, `SequenceStopProofs.tla` | theorems about it |
| `MCSequenceRunner.tla`, `SequenceRunner*.cfg` | its TLC runs |
| `Ramps.tla`, `Relaunch.tla` | one run down to its levels: ramps, steps, fires, the rebuilt launch |
| `RelaunchProofs.tla` | the theorem about its schedule |
| `MCRelaunch.tla`, `Relaunch*.cfg` | their TLC runs |
| `Radio.tla` | the device gate, the probes, the attenuator and who moves it |
| `RadioProofs.tla` | theorems about it |
| `MCRadio.tla`, `Radio*.cfg` | its TLC runs |
| `Curves.tla`, `AchievableGrid.tla` | tables and the levels a chain can produce |
| `Calibration.tla`, `Calkit.tla` | the calibration as the agent and as the script read it |
| `CalibratedChain.tla` | agent, components and script together |
| `CalibrationProofs.tla` | the theorem about it |
| `MCCalibratedChain.tla`, `CalibratedChain.cfg` | its TLC run |
| `PROJECT.json` | components, runs, mutants, source map, findings, hazards, theorems |

`tlc -config ManagedProcess_calls.cfg MCManagedProcess.tla` checks a run,
`tlapm ManagedProcessProofs.tla` the proofs. The longest run (`hold`, with
liveness) needs about two and a half minutes with two workers.

## Inventory of the system

**Task slot and supervision** (`agent/process_manager.py`, class
`ManagedProcess` and `ProcessManager`). State per task: the process state, the
`Process` handle, the exit watcher and relaunch task, the flags
`_stop_requested`, `_operator_stop_requested`, `_in_restart_delay`,
`_fault_restart_inflight`, `_fault_alarmed`, the event `_spawned`; per manager
`_panic_epoch`, `_shutdown_flag`, the device gate. Operations: start, stop,
restart, relaunch, PANIC, shutdown, reload; the exit watcher, the health
watchdog, the restart breakers. Hard: every operation awaits several times and
the others run in between. Correct when: one process per slot, none without an
owner, the last wish wins, a fault is flagged on the process that had it, at
most one recovery runs, every call returns, shutdown leaves nothing behind.

**Event scheduler** (`agent/scheduler.py`). State: the events (state, start,
stop), `events.json`, the loop's snapshots. Operations: create, patch_stop,
cancel, cancel_all_active, the tick, reconciliation at start-up. Calls the
manager's start and stop. Hard: snapshots used across awaits, a kill between a
transition and its save. Correct when: nothing fires twice, everything that
fired ends, nothing stays on the air for an event that is over.

**PANIC** (`agent/recovery.py`). Aborts runs, cancels events, cancels pending
relaunches, stops tasks and one-shots, in this order, awaiting in between.

**Sequence runner** (`agent/sequence_runner.py`). State: stored sequences, runs
(ARMED, RUNNING, HOLDING, COMPLETED, CANCELLED, ABORTED), their fires, holds,
fault and restart counters, markers, `runs.json`. Operations: arm, apply,
patch_on_air_end, proceed, hold_now, restart_run, cancel_or_abort, on_task_fault,
the tick (collapse, fire, mark, hold, auto-restart), reconciliation. Hard: the
tick awaits between collecting and firing; restarts release the lock in the
middle; overlap guards over open-ended and shifted windows; breakers.
Correct when: at most one run holds the channel, a cancelled run leaves nothing
on the air, a held run ends by proceed, abort or deadman, a breaker trips.

**Radio device and active chain** (`process_manager.py`, `main.py`,
`system.py`). State: the device gate, the reset in hand, `_gate_state`,
`_active_last`, `_live_applied`, the one-shots. Operations: the attenuator
pre-command of a launch or tune, the mute after a stop or fault, the boot
pre-image, the post-fault reset, one-shots, live tunes, reload. Hard: the gate is
not counted, checks precede awaits, a set may outlast its bound. Correct when: no
launch opens a device that is being probed, what transmits is behind the
attenuation of its own level, the chain ends muted.

**Updater** (`agent/updater.py`, `main.py`, `deploy/sdr-agent-confirm.sh`).
Releases, the `current` link, `pending` and `previous`, the `.ok` mark, the
confirm timer. Hard: crashes between any two file operations, a timer that races
the agent's own confirmation. Correct when: only a release that ran is
confirmed, an unconfirmed one is reverted.

**Logs and events** (`log_manager.py`, `sequence_log.py`, `run_table.py`,
`tune_log.py`, `EventDispatcher`). Rotating log with an inode cursor, bounded
queues, reconstructed tables.

**Calibration and achievable grid** (`calibration.py`, `paramkit/calkit.py`,
`paramkit/achievable.py`). Pure computation at two ends: planes, hops, limits and
readings of a document, the level the components are to apply, the SDR gain of
the script. Correct when: no limit is exceeded, both ends split a level the same
way, the level is the nearest there is.

**Ramps and step resolution** (`ramp.py`, `cmdargs.py`, the restart in
`sequence_runner.py`). A sequence becomes fires; after a fault the launch is
rebuilt from the fires, what was tuned and what a reset undid. Correct when: a
restarted task is where one that never failed would be.

**Parameters, introspection** (`paramkit/params.py`, `live.py`, `argspec.py`).
Parsing, and a control socket that lives in the scripts.

**HTTP layer and the rest** (`main.py`, `config.py`, `models.py`,
`client_state.py`, `mdns.py`, `system.py`). Routes and I/O.

How they interact: the HTTP layer, the scheduler and the sequence runner call
the manager's start, stop and restart as coroutines of one event loop; the
manager calls the runner back through the fault hook and asks it which run
claims a task; everybody fires events into the dispatcher; PANIC calls all of
them. There is no thread but the executor's for blocking reads, so all races are
between awaits.

## ManagedProcess

One slot. An action is the code between two awaits of one coroutine and `pc`
names the await it is parked at. Coroutines: the calls (`Op`), one exit watcher
`W(p)` and one detached relaunch `R(p)` per process, and the watchdog `Dog`.

| state in the code | in the model |
| --- | --- |
| `state`, `_proc`, `_watcher_task`, `_relaunch_task` | `state`, `proc`, `watcher`, `relauncher` |
| `_stop_requested`, `_operator_stop_requested` | `stopReq`, `opStop` |
| `_spawned`, `_in_restart_delay`, `_fault_alarmed` | `spawned`, `inDelay`, `alarmed` |
| `_fault_restart_inflight` | `latch`, which also remembers who set it |
| `_panic_epoch`, `epoch0`, `_shutdown_flag` | `epoch`, `epoch0`, `shutdown` |
| what the OS knows of the process | `os` |
| locals bound before an await (`p`, `p0`, the watcher) | `tgt` |

`wanted` and `sick` are history variables: the last thing asked for, and the
processes that did fault. No action reads them.

Abstractions, all in the direction of more behaviour unless said otherwise:

- The device gate and the attenuator pre-command are one await, "parked", that
  may also refuse the launch.
- Budgets and breakers of the restarts are a free choice to give up; SIGTERM,
  grace and SIGKILL are "termed"; a pending run claim is a longer delay.
- Cancelling a coroutine takes effect at once: `Unwound` does the `finally`
  clauses in the step that cancels.
- The log tail of an exit may miss a fault signature once a new launch has
  rotated the log; it never gains one.
- PANIC starts at `cancel_pending_relaunches`; what comes before it belongs to
  the runner and the scheduler. Autostart is left out; `reload()` and one-shots
  are in Radio.
- `WakeRace`: on Python 3.11 the coroutines awaiting an exit run in the turns
  right after it, the watcher first; FALSE assumes that nobody else runs between
  an exit and them. `SpawnMayStall` allows a spawn to outlast
  `_STARTING_STOP_WAIT_S`.

### Runs

| run | question | instance | result |
| --- | --- | --- | --- |
| calls | one process, none orphaned, clean shutdown; does the last wish win, does the slot keep the promise of `TransmitterSlot`? | 3 calls of every kind but restart, 2 processes, claims, auto-restart; 503 thousand states | holds |
| rough | do recoveries overlap, does the watchdog stop a healthy process, does every call return? | 2 calls, restart() included, 2 processes, stalls, races and crash restarts; 350 thousand | holds |

Two processes are what it takes for one to replace another; with three calls a
start, a stop and a third party meet.

`calls` leaves `restart()` out: it checks nothing again after its gates
(`process_manager.py:2392-2401`), so that a PANIC while it is parked there is
followed by a launch, which IntentHonoured forbids. Two more that no run keeps:
`_watch` awaits the log tail and then flags the fault on whatever run is current
(`:902`, `:1078`, against what `:600` says of a fresh run); with three calls and
three processes a stop can cancel a watcher that is no longer in its restart
delay but raising the alarm of the exit it saw (`:776-786`).

OneTransmitter and NoOrphan are checked with `RestartOnCrash`, `SpawnMayStall`
and `WakeRace` off: with any of them on, TLC finds a violation (a stalled spawn
that comes up after stop() has given it up next to a newer launch; a start that
slips in before the watcher sees the exit; a supervisor restart whose delay ends
under a new launch). `restart_on_crash` and `auto_restart_on_fault` are off by
default (`agent/models.py:38,55`).

Fairness (`FairSpec`): the event loop runs every coroutine that can run, delays
and bounded waits end, a spawn returns or raises, a process that was sent SIGTERM
and then SIGKILL exits. No fairness for calls being made, for a process exiting
on its own, for the watchdog's scans, or for stop() giving a spawn up. Deadlock
checking is off because calls and processes run out.

### Proofs (`ManagedProcessProofs`)

For any `Proc` and `Op`, with no bound on either:

- `TypeCorrect`: TypeOK under every setting of the switches.
- `SlotInvariant`: SlotInv, assuming ~RestartOnCrash, ~SpawnMayStall, ~WakeRace.
  OneTransmitter and NoOrphan are not inductive: a second process could appear
  if a launch found the slot empty while another coroutine was about to fill it,
  or if a stop waited for something other than the slot's process. SlotInv says
  that neither is so: LaunchInv (one launch, into an empty STARTING slot),
  StopInv (one stop, of the slot's own process, and nothing RUNNING or STARTING
  until it is over), WatchInv (what lives is watched or is being killed by its
  own launch), ReapInv (no launch after shutdown's sweep).
- `OneTransmitterHolds`, `NoOrphanHolds`: from SlotInv.
- `ShutdownLeavesNoneHolds`: from SlotInv and ShutInv, that a launch is never
  under way once shutdown is past its stops.
- `IntentHonouredHolds`, `KeepsPromiseHolds`: assuming moreover that nobody calls
  restart(). IntentInv says that an operator's stop is latched or older than the
  start that is wanted, and that a stop that met a launch has reached it.
  `PromiseStep` maps every step to one of `TransmitterSlot` or to a stutter.
- `OneRecoveryHolds`, `WatchdogSparesHealthyHolds`: with every switch on or off,
  `restart()` included. OneRecovery is inductive: what cancels a coroutine takes the
  latch from it only together with its place (Unlatching). The watchdog needs
  FaultRead, that the process it is about to flag is one whose log showed a fault;
  ScanStale compares that one with the slot's when it goes on.

Model-checked only: the liveness properties StopSilences and CallsReturn
(liveness is out of the prover's reach).

## Scheduler

The loop, the API calls and the part of the manager they reach. `_lock` is never
held across an await, so what it guards is one step; the labels "next" and
"launched" have no await before what follows and `Turn` makes whoever is there go
on first. `disk` is events.json, written by `Persist` where the code writes it.
Of a task only `air` is kept (off, starting, doomed, on, leaving), the operator's
stop and who launched it.

`CrashAndRestart` may happen at every step: the tasks die with the agent, the
file is read back and reconciled against a later clock.

Abstractions: the clock never steps back; every write of the file succeeds; the
order of events within a snapshot is free; PANIC's sweep of the tasks is one
step; a refused launch is a free choice; tasks autostarted after the reboot and
the graceful shutdown of the loop are left out.

| run | question | instance | result |
| --- | --- | --- | --- |
| scheduler | nothing fires twice, everything that fired ends, no launch outlives its event | 2 events on one task whose windows meet, 2 calls, clock to 3, 1 crash; 267 thousand states | holds |
| cancelled | is a cancelled event ever fired? | 2 events on 2 tasks, 1 call | CancelledNeverFires violated |

Windows `<<1,2>>` and `<<2,3>>` let one late tick find an event to stop and one
to start; the clock may pass any of these instants while the loop awaits.
Fairness: the clock goes on, the loop runs, spawns return, a process told to
stop exits. Deadlock checking is off because the clock ends.

Proofs (`SchedulerProofs`), for any events, tasks, calls, windows and crashes:
`SchedulerTypes`; `SpentHolds`, that whatever fires or fired is past its start
time and whatever is over is over on the disk or past its start; and from it
`NeverRearmedHolds`. The argument is the reboot's: reconciliation arms only what
the file calls live and whose start is in the future, and SpentInv says that no
such event has fired or been cancelled. The proof needs that the clock does not
step back. EventEnds and NoLateLaunch are liveness and stay with TLC.

Known and not checked by a run: an event in the stop snapshot whose stop time was
just moved out is stopped all the same; a failed write is only logged; a clock
that steps back re-arms an event that fired; an unexpected exception ends the
loop (`scheduler.py:238`).

## Updater

The releases directory, the `current` link and the markers on the disk, the
agent with its confirmation task, the requests, each in a thread, and the
confirm script. An action is one file operation, so that a restart or a loss of
power falls between any two.

| state in the code | in the model |
| --- | --- |
| `root/<version>`, the `current` symlink | `tree`, `link` |
| `.markers/previous`, `pending`, `<version>.ok` | `previous`, `pending`, `ok` |
| the age of `pending` against `SDR_UPDATE_HEALTH_GRACE_S` | `aged` |
| the process systemd runs, its `ota-confirm` task, `pending` in it | `agent`, `confirm`, `atBoot` |
| the timer of `systemd-run --on-active=2` | `restartDue` |
| `bundle`, `version`, `prev` of a request | `build`, `goal`, `prior` |
| the script and its `$PREV` | `script`, `back` |

`Boot` is every start of the agent: it runs whatever the link leads to, and the
requests of the agent before it are gone. A build is good or bad; a bad one
neither serves nor confirms itself. The removal of a directory takes two steps,
with what is left of it (`Partial`) between them: that is a directory, so
`is_dir` takes it for a release, but nothing that runs. `torn` is a history variable: an update died
between its flip and the write of `pending`.

Abstractions: a restart takes effect at once; the contents of a bundle are its
build and version, and a malformed one, which changes nothing, is left out; the
grace period and the confirm delay end at any time, in either order, so a good
release may also be taken back; file operations do not fail; the script reads
the markers in one step; the confirmation task reads `pending` before the new
agent serves requests (`main.py:126-131`); `prune()` is called by nothing in the
agent.

| run | question | instance | result |
| --- | --- | --- | --- |
| updates | is only what runs marked healthy, is a bad release on trial and taken back? | 3 builds, 1 of them bad, 4 requests, 1 power loss; 1.4 million states | holds |

`updates` assumes `Careful`: a request is made only when the last one is over and
its trial is, and never for the installed version. Without it a
bad update that is pushed again before the restart records itself as the release
to go back to (`updater.py:225`), which NotStranded forbids, and pushing the
installed version removes the live directory (`updater.py:203`), which LiveKept
forbids. Four requests are an update, a second that re-installs the release
before it and dies in its removal, a rollback to what is left, and, when its
restart failed, a bad update with nothing sound behind it. Fairness: requests, the
confirmation task and the script go on, the scheduled restart and the end of the
grace period come. None for systemd restarting a release that crashes, so that
`bad` covers hanging as well. NotStranded and OnTrial exempt `torn`, and a trial with `Partial` behind it: both
windows are real, TLC finds them when the exemption is dropped, and the code has
nothing against them. Nor do the properties speak of a unit that a client rolled
back to `Partial`: it does not run, and nothing takes it back.

Proofs (`UpdaterProofs`), for any builds, versions, requests and power losses:
`UpdaterTypes` for every use; `OkIsEarnedHolds`, `LiveKeptHolds`, `OnTrialHolds`
assuming `Trusted`, that requests are made with care and no version is given to a
build that runs and to one that does not. None of the three is inductive.
ReleaseInv adds what they rest on: a request at work is alone and started from a
good release (OneJob, RequestInv), `previous` is always the version of a good build (MarkerInv), a bad
link is stranded by a torn update, about to be marked, or on trial (TrialInv),
the script goes back to something good (ScriptInv), and the agent waits to
confirm a good release or one that the script is about to take back (ConfirmInv).
NotStranded is liveness and stays with TLC.

## SequenceRunner

The runner's loop, its API calls, the part of the manager it drives, and the
tasks. An action is the code between two awaits, as in ManagedProcess; the labels
"fire", "launched", "after", "sweep", "collect", "redo" and "recheck" have no
await that yields before what follows (`_lock` is never held across one, so
taking it never waits), and `At` makes whoever is there go on first.

| state in the code | in the model |
| --- | --- |
| `SequenceRun.state`, `on_air_end`, `held_actual` | `st`, `end`, `held` (`Never` for None) |
| `run.steps`: `fire_at`, `fired_actual` | `at`, `mark`, by the position of the step in the plan |
| which list of StepFires a collected fire belongs to | `gen` |
| `fault_task` first, then `_extra_faulted`; `fault_at` | `fault`, `faultAt` |
| `auto_restart_count`, `auto_restart_task`, `_auto_gaveup`, `_restart_inflight` | `tries`, `mended`, `gaveUp`, `restarting` |
| the START a restart adds | slot `N`, `again` |
| `due`, `to_restart`, the runs and tasks an abort has to go through | `batch`, `redo`, `doom`, `left` |
| locals: `now` of a tick or restart, its mode, `fault0` | `since`, `mode`, `was` |
| the task's slot, `_operator_stop_requested`, its control socket | `air`, `opStop`, `bound` |
| started after the fault (`_started_after`) | `newer` |
| the order in which starts and stops fired (`_fire_instant`) | `log` |

`owner` is a history variable.

A plan is a sequence of start, tune and stop steps, each anchored to the on-air,
the off-air, the pause, the resume or another step. The clock is discrete, `end`
and `at` are its values, and Horizon bounds it.

Abstractions:

- A ramp is the tunes it resolves to; one-shot steps, stored sequences, the level
  and clock a relaunch is given, on-air markers and run logs are left out. An
  anchor to a step that is itself anchored to a step is left out.
- The order of power and RF-on tunes at one instant is free, and so is whether a
  task that has not bound its socket is still in its grace.
- The manager's launch is: parked at the gates, spawning, on the air; either wait
  may end in a refusal, at most MaxFaults in all. ManagedProcess has the details.
- A restart whose relaunch cannot be reconstructed (`_RestartDeferred`) is left
  out; unattended restarts are resyncs, the default of the mode.
- SlowAlarm FALSE: the alarm of a task that faulted reaches the runner before
  anything else happens; Patience bounds how long the stop before a restart
  takes. Both are restrictions, see below.

| run | question | instance | result |
| --- | --- | --- | --- |
| sequences | does anything stay on the air for a run that is over, or with no STOP to come; does a tune reach another run's process? | 2 runs on one task (1-3 with a tune, 4-5), 1 call, resync restarts by hand and unattended, 1 fault, 1 crash, clock to 6; 1.3 million states | holds |
| hold | is the channel exclusive, do runs end, does the deadman trip, is a fault attended to? | a run with a Hold and a window of the same task (2-3), 1 move of the end, 1 fault, clock to 6; 167 thousand | holds |

Two windows with one instant between them let the first one's stop, its fault or
its restart last into the second; a tune in the first is what may be deferred
past its end. One fault is enough for a restart to fail or the budget (1) to be
spent, because a refused launch is a fault as well. In `hold` a run with a Hold is
open-ended until it proceeds, so the window can be armed only then, from the
span that the proceed has just fixed. Its end is moved when no other window
follows: the guard of arm is not repeated by `patch_on_air_end`, and a move that
meets a window armed later would break ChannelFree.

Fairness (`FairSpec`): the loop and every coroutine that can go on does, spawns
return, a process told to stop exits, one that is up binds its socket, alarms
arrive and the clock goes on. None for API calls: nobody needs to proceed, and no
fault needs to happen. Deadlock checking is off because the clock ends.

Known violations of WillStop that no run keeps:

- A run that starts two tasks at once and whose end is moved between the two
  (Ends, MaxPatches): `patch_on_air_end` builds new StepFires while the loop still
  holds the old ones, so that "Mark first to avoid double-firing"
  (`sequence_runner.py:2581`) marks an object the run no longer has.
- SlowAlarm TRUE: the fault of a process that is already gone reaches
  `on_task_fault` after the next run has started the task, whose STOP it skips.
- Modes {"replay"}: a replay re-instates, at a later time, a STOP that the loop
  holds in its batch; it fires at once, before the relaunch.
- Patience above the length of a window: `restart_run` commits with the instant
  it took before its stop. `_service_auto_restart` says of the caller's own
  instant that "a stale cut-off re-instates fires in the past".
- A plan of two tasks and one cancel: the loop, behind time, holds the next run's
  START of one of them in its batch while the sweep of the cancelled run still
  awaits the stop of the other. The START waits at the gates, the old process fails
  in between, and its alarm couples the next run, whose START is marked fired and
  whose STOP is skipped; then the launch goes through.
- Windows that touch, as guard A allows, and a restart by hand in the last moment of
  the first: while it awaits its stop the next run starts; it then commits by the
  instant it took before, which the window's end does not precede, so that the
  relaunch and the STOP after it are due at once. The relaunch finds the process
  of the next run, its refusal is a fault that couples both runs, and the STOP of
  the next one is skipped with its process on the air. The attempt to prove
  WillStop brought this up; TLC finds it with Two's second window from 3.

A known violation of ChannelFree, which the attempt to prove it brought up and TLC
confirms: `_lead_offset` (`sequence_runner.py:452-462`)
reads the offsets of start and enter anchors alone. A step anchored to another step
may come earlier (its offset "may be NEGATIVE", `:298`), and so may one that
is counted back from off-air; guard A then goes by a time later than the first
fire, against its comment that "the span runs from the earliest fire" (`:1069`),
and two runs can have the channel at once. LeadFirst, below, leaves such plans out.

The deadman aborts the runs it has collected without looking at them again, and
`abort_all_active` marks a run ABORTED that has completed meanwhile: both are in
the model, no property speaks of them.

### Proofs (`SequenceRunnerProofs`, `SequenceStopProofs`)

For any runs, plans, tasks, callers and bounds. In `SequenceRunnerProofs`:

- `TypeCorrect`. TypeOK is not inductive. Sound adds what a coroutine has in hand
  (HandInv: while it restarts there is a run and a task, while it sweeps there is
  the run), that only known slots have a StepFire and only those are collected
  (SlotsInv), that no fault or instant taken lies ahead (TimeInv), and that a
  restart waiting for its process to be gone holds its run's `_restart_inflight`
  and finds the run's fault still there (RestartInv).
- `OneRestartHolds`: no two restarts of a run are under way, part of Sound.
- `OwnersHold`: what is on the air belongs to a run that has begun, and what a run
  launches, loses and mends is a task of its plan (OwnInv).
- `SilentOnceAbortedHolds`: nothing stays on the air for a run that was cancelled
  or aborted, under every setting, alarms that come late included. The run's second
  sweep and the check after a launch divide the work: whatever is on the air is in
  one of the two or ahead of the loop (Pending).
- `SilentHolds`: the same for a run that completed, assuming that alarms are not
  slow and as long as WillStop holds. Both are needed. `_maybe_complete` looks at
  the marks of the fires, not at the task: only because a task on the air has a
  STOP that is still to fire is it off when no fire is left; and with a slow alarm
  the task that halted on a fault is still alive when its run completes.

There too, `ChannelFreeHolds`, assuming that no end is moved
(Ends = {}, see above; the run `hold` complements it with Ends = {4}) and that no
step precedes its plan's lead-in (LeadFirst, a fact about the plans alone, which
those of both instances satisfy). ChannelFree speaks of what is yet to come, so it
is not inductive: Shared says that of two active runs with a task in common one
leaves the channel before the other takes it or has left it already (AllApart),
and what this rests on: a run has exactly the fires of its plan (Armed), one that
has begun fired a step it was armed with (Started), what is collected is due
(Collected), a Hold is entered once and is without an end until it is over
(HeldOnce), relaunches and mends are of tasks that the plan launches
(FaultsLaunched, MendsLaunched).

In `SequenceStopProofs`, WillStop, Silent without its two conditions, and
NoForeignTune, each under `Orderly`:

- no slow alarms, no moved ends, no replays, which three of the known violations
  need; faults, crashes, cancels, aborts and restarts by hand and unattended are
  all in;
- every plan is plain: one task, no Hold, a START at most with a STOP later on, no
  step ahead of the plan's lead-in. One known violation has a plan of two tasks;
- of two runs that start the same task the earlier one's STOPs precede the later
  one's START by Patience at least. The code asks for less, and the violation with
  windows that touch is the price.

There may be any number of runs, tasks, callers, faults and crashes, and any
Patience and Budget. The run `sequences`, with Plan Two, Patience 1, Ends {} and
Modes {"resync"}, is an instance of Orderly and checks all three properties.

The inductive invariant is StopInv:

- what the loop holds is older than the runs (MarksInv): fires are when the plan
  says (Laid, Timed); a faulted run has nothing open (Lost); an open START has its
  run's last STOP open after it, and goes before it in the batch (Ahead, InOrder);
  of two rivals one is the earlier (Disjoint), its STOPs go before the START of the
  later one (InTurn) and are over once that has begun (Gone);
- a restart that waits has not let its clock fall behind by more than Patience, and
  nothing of its run is fired or collected that is later than what it will
  re-instate (Mends);
- a task on the air, or being launched, is of a run that has begun, has no relaunch
  pending and has its last STOP to come or the alarm (AirInv). That a START finds its
  task off the air (Vacant) is where the parts meet: the rival's last STOP is
  collected with the START and goes first;
- Silent itself, without which the task of an aborted run could be launched over.

From it follow:

- `WillStopHolds` is Stops, a part of AirInv. `OrderlySilent` is SilentHolds with
  its condition discharged.
- `NoForeignTuneHolds`: the last START in a task's log is of the run it serves
  (LastInv), so that `_tune_target_stale` finds every later START of a rival.

Model-checked only: RunEnds, DeadmanTrips and FaultAttended, which are liveness.
Plans with a Hold or of several tasks are outside Orderly: no theorem speaks of
these three properties there, only SilentOnceAbortedHolds and SilentHolds.

## Ramps and Relaunch

SequenceRunner has the runs beside each other and abstracts from what a tune
sets. Relaunch is the other half: one run of one task, with the values.

`Ramps` is `ramp.py`: the levels of a ramp, its dwell, its placement from on-air,
off-air, in the whole window or after another step. `Relaunch` resolves a
sequence into fires (`_resolve_steps`, `_resolve_ramp`), fires them in
the order of the tick (power before RF on, STOP first), collapses what is overdue
to the last level of a ramp, and after a fault rebuilds the launch: which fires a
resync leaves behind and a replay shifts, what the arguments of the new START are
from the fires, the tunes by hand and the resets, and where the script's own
timeline begins (`_relaunch_start_fire`, `overlay_live_params`, elapsed and origin
of `cmdargs.py`).

| state in the code | in the model |
| --- | --- |
| `run.steps`, `fire_at`, `fired_actual` | `fire`, `mark` and `when` |
| `on_air_end`, `fault_at` | `end`, `faultAt` |
| the values the process runs with, where its timeline began | `live`, `origin` |
| `_live_applied`, `_live_applied_at` | `record`, `recordAt` |

`Peer` is the reference: the same sequence on a task that never fails, read off
the schedule as it was armed. `missed` (what a resync left behind), `shift` (how
far replays have moved the schedule), `hands` and `adrift` are history.

| run | question | instance | result |
| --- | --- | --- | --- |
| resume | is a restarted task set and timed like its peer? | 5 sequences (a staircase of ramps with a pre-roll, two epochs, a ramp that fills the window, a START of what is running, one refused for its circle of anchors), 2 windows, 2 faults, 1 tune by hand; 751 thousand states | holds |
| missed | do missed points stay missed? | a resync, then a replay | MissedStayMissed violated |

Two faults are what a second restart on top of a rebuilt launch takes, and the
tune by hand may come before, between or after. The clock has a unit fine enough
to divide the ramps exactly; faults happen at the unit's multiples and with the
fires (`Unit`), and `Outage` bounds how long a run stays faulted.

A START of what is running fails and faults the run with its process alive, so that
the restart stops it first (PreStop). A restart is refused when that process is
newer than the fault (StartedAfter), which takes a launch by hand and so does not
happen here.

ClockOfPeer allows `Tolerance`, the second by which a reported origin may be older
than the last reset that the fault skipped (`:1804`), and no more. It exempts a run
that is `adrift`, whose timeline the code loses: a launch or a reset trigger that
came late (waiting for the script's socket, or moved behind a replay's START), a
relaunch that failed before it reported its origin, a schema that could not be
read, so that no elapsed time is passed on, or tunes less than a tenth of a second
apart, which the record does not tell apart. `Wait < Unit` keeps the stop before a restart shorter than the time between
two fires; without it a tune that was put off past its epoch's STOP and the next
START is fired into the next epoch's process. Further known and not kept as runs:

- a relaunch that comes at or after the instant of a later START is taken for the
  launch of that START, if a second fault skips it, and what the first process was
  tuned to is laid over its arguments (`_live_record_is_this_launch`); the sequence
  with two STARTs tunes only the clock before the second;
- the collapse re-times by the rank among fires of one instant, so that a re-run
  may follow an older level;
- a ramp trimmed to a single level without a dwell (`ramp.py`'s caller, 775-779);
- `patch_on_air_end` forgets step anchors and re-times the START of a restart;
- a failed relaunch is rebuilt from its launch time less its elapsed time.

Not in the model: storage and validation of sequences, steps that run one-shots,
on-air markers, the logs of a run. Levels and times are whole numbers, so that the
float tolerances of `ramp.py` (1e-9) have nothing to absorb.

### Proofs (`RelaunchProofs`)

`RampsTileHolds`, for any sequences, windows and ramps: no level of an armed run is
overtaken by a ramp that runs back from off-air or by what follows its own ramp, and
a ramp that runs back is over in time. It assumes Anchorable, a fact about the
sequences: a step that others are anchored to has a point, and a ramp whose end is
an anchor has two levels at least. `_record_edges` (`:763-774`) takes the dwell of
the last level from the distance of two fires and has none for a single level, whose
end is its own tune: what follows it comes at once. The instance satisfies it.

ArmedPlan says what arm has checked of the run that is armed: a valid sequence,
in a window its minimum fits in, resolved into its fires. Everything else is about
the operators. `Rooted`, `Bases` and `Depth` are recursions along the anchors, and
whether one has a value is shown by the round in which Rooted reaches a step (Walk,
by the least counterexample); `Sorted` numbers a finite set in a strict order
(RankMember); a ramp's points are equally spaced from its anchor (PointsOf), and so
are the fires made of them (Placed); `min_on_air_duration` bounds how far either
edge's ramps reach (Reach).

Model-checked only: LevelsOfPeer and ClockOfPeer. Both compare a launch with a fold
over the fires of a schedule that restarts have shifted; what the fold computes for
every schedule is induction over data. MissedStayMissed is violated.

## Radio

The device and the attenuator, which all slots share. An action is again the code
between two awaits; what a slot does by itself is ManagedProcess's and is reduced
to off, starting, on and stopping.

| state in the code | in the model |
| --- | --- |
| `device_free` | `gate` |
| `_gate_state`, `_active_last` | `gateState`, `last` |
| `_last_request`, `_live_applied` | `req`, `live` |
| `_panic_epoch`, `epoch0`, `_operator_stop_requested` | `epoch`, `epoch0`, `opStop` |
| the processes of `_oneshots` | `shot` |
| `_preimage_when_idle`, `_reset_radio`, a watcher's `_after_fault` | coroutines `Boot`, `Reset`, `W(t)` |
| the process that moves the attenuator, and one that was given up | a coroutine at "set", `late` |

`emits` is what the newest process of a task is set to. History variables: `under`
(the probes a launch has waited for), `asked` (the PANICs before it was asked
for), `owner` (whose level the chain was last moved for while nobody else was at
it) and `strayed` (sets overlapped, or one landed late). No action reads them.

Abstractions: a chain has one attenuator and a level one position of it; a set
fails before or after it has moved it, or is given up and lands at any later
time; sets that overlap may land in either order; a reload finds every slot off
or on; an unattended relaunch gives up whenever it likes.

| run | question | instance | result |
| --- | --- | --- | --- |
| radio | the gate, the cache, the level on the air, the level of a relaunch, the mute, does every call return? | 2 tasks, one of them with a chain, 2 levels, 2 calls of any kind, the boot pre-image, 1 fault, 1 failed set; 194 thousand states | holds |
| oneshot | does a PANIC stop a one-shot that is about to launch? | 2 calls, 1 failed set | PanicHolds violated |

Two calls and a watcher are three parties on the chain. With three calls and no
failing set, starts mixed with stops, PANICs, tunes or one-shots hold too. Fairness (`FairSpec`): coroutines go on, probes and sets end (each has a
bound in the code: the probe's and `_ACTIVE_SET_TIMEOUT_S`), a process that was
told to stop exits. Deadlock checking is off because calls and faults run out.

The properties say what the code promises while one party at a time works on the
chain; `owner` and `strayed` are what they need to say so. What lies outside:

- `start()` moves the chain before it refuses a task that is already running
  (`process_manager.py:1959-1975`), and a tune that is refused or partly rejected
  leaves `_gate_state` and the attenuator at the new level.
- Sets that overlap, or one that lands late, leave `_active_last` wrong.
- A mute that was left out for a live task is never made up for: if that one has
  no chain, nothing mutes it any more. A mute after a fault also mutes the task
  if it was started again meanwhile.
- A launch past the gate that awaits its set is not seen by `_reset_radio`, which
  then probes the device under it; a one-shot is not seen at all (`:1463-1480`).
  GateHonoured therefore speaks of the probes a launch found at the gate.
- The gate is an event, not a count: of two probes the first to end would open it
  for both. For a reset to run next to the boot pre-image a task must have been on
  the air before it, that is, autostarted, which the model leaves out.

### Proofs (`RadioProofs`)

For any number of tasks, calls and levels; every invariant that the run checks and
both action properties are proved, CallsReturn stays with TLC. The assumptions are
those of the module: levels differ from the muted position and the coroutines from
each other.

- RadioTypes rests on what each phase knows (PhaseInv: a set has a position, past
  the gate there is a task, what faulted had been launched) and on who does what
  (ClassInv).
- GateHonouredHolds: the gate is open exactly while nobody probes (GateOpen), which
  holds because the two probes never overlap: the boot pre-image runs before
  anything was launched (BootAlone), so nothing can have faulted. What is past the
  gate waits for no probe (PastGate), what is at it only for those that go on
  (AtGate).
- LevelRestoredHolds: the launch request with the live changes on it is what the
  process is set to (EmitInv). That a tune keeps this is the associativity of
  merging (MergeAssociates).
- CacheTrueHolds: as long as sets do not overlap there is one at most, and while it
  is under way nothing is remembered (CacheInv).
- LevelHeldHolds. While it is known whom the chain serves, one coroutine at most is
  at it (SoleInv). LevelInv says what that owner's level is at every stage: the set
  under way drives the chain to it; with no set the chain is there; the gate
  remembers what a pending launch asks for, what a pending tune makes of the
  process's setting, and otherwise that setting. A tune that skips its set is
  right by CacheInv.
- SafeAtRestHolds needs, in addition, that a muted chain stays muted (MutedInv) and
  that an owner that is off is attended to: a stop or a fault handler is about to
  mute its chain, or a launch or tune is under way (OffInv), which for a process
  that exits is the call that stopped it (StopInv).

## Calibration stack

The agent and the script each compute from the same calibration, and the radiated
level is the sum of both results.

| module | code | what it is |
| --- | --- | --- |
| Curves | `_interp`, `_interp_ex`, tables and grids of both files | clamped, extrapolated and inverted piecewise linear functions |
| AchievableGrid | `paramkit/achievable.py` | the levels there are, snapping, steps, and how a level is realized |
| Calibration | `agent/calibration.py` | planes, hops, limits, readings, ceilings, `to_public` |
| Calkit | `paramkit/calkit.py` | `PowerMap`, from the artifact |
| CalibratedChain | `_gate_precommand`, `_resolve_active`, `_inject_calibration` of the manager, with a script | launches, tunes, frequency moves of the script, stops, in every order |

Numbers are integers and quotients are rounded down, where the code has floats:
the modules keep both ends' formulas and their order, not the last digit. A level
or frequency is a small integer; a power law is its additive constant.

The run `chain` (32 thousand states) takes 33 calibrations: a source measured at
two slopes, a step attenuator, a cable whose loss grows with frequency, limits on
either side of a stage, bias, declared readings, de-embedding, bypassed
and re-measured planes, an amplifier as operating plane, extrapolation. Every
sequence of two launches or tunes with frequency moves and stops between them,
and with sets that fail. Two calls are a launch and a tune, or a launch after one
that was refused.

LimitsHeld exempts gains up to `LeastGain`: the agent does not go below its least
gain, and a limit below the lowest measured level inverts to the lowest gain. The
instance's documents leave out what agent and script are known to read
differently; each of these makes LimitsHeld or ScriptAgrees fail:

- the script gauges a cap on the anchor, without the hops to the operating plane;
- the script knows no limiting or reported curve of its own;
- with the operating plane at a second measured plane, the bias is not the same;
- a limit through an own limiting curve is inverted without the bias;
- a bias without `center_freq_hz` is taken as 0 at a live carrier;
- a reported law keyed by a parameter is taken at its representative value.

A ceiling behind a programmable gain block ignores what the block applies
(`calibration.py:349-382`), against `docs/calibration.md:121-123`: the instance
has components that only attenuate. With two components whose steps differ the
greedy rounding of `_snap_reduction` misses levels, and with a span that is no
multiple of the step it applies an off-grid value; the instance has one component
and whole steps.

### Proofs (`CalibrationProofs`)

`LimitsAlwaysHeld`: LimitsHeld for any set of documents, powers, frequencies and
calls, provided that every document is Gaugeable (last section of
`CalibratedChain`). A document that the agent refuses need only have whole numbers
and proper tables (Whole); what is demanded of one that it accepts:

- components only attenuate (IsComponent): see the ceiling behind a gain block above;
- a limit and the operating plane come from the same measured plane whether the
  planes that re-measure another are passed or not (OneBase): where they are
  passed, agent and script gauge a limit on another curve than the one that is
  radiated. `Remeasured` in the instance is such a document;
- a bias has its `center_freq_hz` and belongs to the operating plane's curve
  (BiasAtBase): two of the differences listed above;
- the limiting reading has no curve of its own, and a cap on it is ahead of hops
  that only lose power (CapAhead): three more of them;
- at the carriers, the summed losses that are published interpolate to the sum of
  the losses (ExactLoss). The code has floats and no such error but the last
  digit; here a quotient is rounded.

`AllButOne` in `MCCalibratedChain`, which TLC evaluates, says that all the
instance's documents but `Remeasured` are Agreeable, hence Gaugeable, so the theorem
is about documents of every kind the run has.

The argument. (1) `InverseSafe`: at a gain above the lowest measured one and at
most the one that a level inverts to, the curve gives at most that level, whether
it is clamped, extrapolated or between two points, and with quotients rounded
down both ways. (2) `OnGridCapped`, `GridIs`, `RealizeIs`: what is snapped, realized
or split exceeds the ceiling only where the least gain does, and leaves every
component at most where it is at rest. (3) `FixedSafe`, `MovingSafe`, `CapSafe`: below
the fixed ceiling the fixed limits hold at every frequency, because what their
ceiling depends on does not move with it; below the script's ceiling the
moving ones and the cap hold where the script transmits, because both ends have the
same curve, bias and losses for them (`ArtifactIs`, `PublicLimitIs`). (4) The inductive
invariant Inv: for one and the same document, everything that is resolved is its
resolution, the components only take away, the running script's artifact was
written from it, and the script's gain is capped by the ceiling where it transmits
now. LimitsHeld alone is not inductive: it does not say where the artifact came
from, so a drift could break it. TLC has checked Inv over the instance's Gaugeable
documents.

Walks, sums and curves are recursive functions or choices. That such a definition
has a value is proved by showing that its recursion has a solution (`Iterates` for
the first numbers, `SumsExist` for the subsets of a finite set), so no induction
over operators is needed.

`ScriptAlwaysAgrees`: ScriptAgrees, for documents that are Agreeable. That is
Gaugeable and, where the agent accepts the document,

- the reported reading has no curve of its own, which the script does not know;
- a cap is ahead of hops that add up to 0 dB at the carriers, since the script
  gauges it on the anchor. With a gap it would be safe but snap to other gains;
- it is not refused for some carriers only. At such a carrier `_gate_precommand`
  leaves the components alone, while a script tuned there takes them to have moved.

Here the inductive invariant is AgreeInv: Inv, and, of the same document, that the
script's gain is on its grid and its split is the one worked out for the level and
carrier it was given (Pinned), and that components known to be set are where the
level and carrier held for the task put them (Placed). Pinned and Placed speak of
two computations, one at each end; that they give the same settings is
`SameSplit`. It rests on these lemmas: a table whose points are moved along inverts
to what the moved level does (`MovedLevel`), so the agent's curve with the losses in
it and the script's with the losses apart have the same inverse; the hops that are
published add up to those of the plane (`SumMap`, `ExactIs`); two chains that look
different but give the same level to a gain, the same gain to a level and the
same place on the grid have the same grid and realize every level alike
(`AlikeGrids`, `AlikeRealize`). That a gain on the grid stays when it is snapped
again, at the launch as after a drift, is `GainStays`: multiples of a step that are
less than a step apart are the same. AgreeInv is proved inductive from the theorem's
hypothesis alone, and TLC checks that hypothesis: `AllButOne` says that all the
instance's documents but `Remeasured` are Agreeable.

NearestLevel and StepsToNeighbour are model-checked only: they compare a level with
all others that can be had, which needs that a curve and its inverse undo each
other. With quotients rounded down they do for the instance's slopes, not for
every curve.

Not modelled: validation of a document's text, merging of the defaults and the
component catalog, the documents of the old format, argument parsing.

## Not modelled

- Logs and events: the log cursor and the underflow streak (`process_manager.py:
  1048`, `log_manager.py:149`) decide when a fault is seen. The slot models leave
  that moment free, so that every outcome of theirs is covered; whether they see
  a given log text rightly is a question of text.
- Script introspection: a walk over a syntax tree, without state.
- HTTP layer, configuration, records: thin routes over the components above. What
  a route adds (a refusal, a 409) is where the components' guards are.
- Client replica, discovery, probes of the system: input and output.
- Autostart (`process_manager.py:1626-1634`), which uses `start()` of the slot
  without the manager's gates, before any request is served.

## Plan

1. (done) ManagedProcess with TransmitterSlot, Scheduler, Updater; their proofs.
2. (done) SequenceRunner; Ramps and Relaunch; Radio; the calibration stack.
3. Left: an abstract channel that one run holds at a time, implemented by
   SequenceRunner; PANIC across runner, scheduler and manager in one module; the
   underflow streak and the log cursor against a reference.
4. (done) The proofs of Radio.
5. (done) The proofs of OneRecovery and WatchdogSparesHealthy; of SequenceRunner
   types, Silent, ChannelFree, and for plain plans WillStop and NoForeignTune; of
   Relaunch RampsTile; of CalibratedChain LimitsHeld.
6. Left to prove: WillStop for plans of several tasks that start one after another,
   each apart from the others' sweeps; of Relaunch LevelsOfPeer and ClockOfPeer.
