------------------------------- MODULE Updater -------------------------------
(***************************************************************************)
(* Over-the-air updates: class Updater of agent/updater.py, the requests   *)
(* of agent/main.py that call it, the agent's confirmation of the release  *)
(* it booted, and deploy/sdr-agent-confirm.sh, which a timer runs to bring *)
(* a release back that never confirmed itself.                             *)
(*                                                                         *)
(* A request runs in a thread of the agent, so requests interleave at      *)
(* every file operation with each other, with the confirmation and with    *)
(* the script, and die with the agent.  A build that is bad crashes or     *)
(* hangs: it neither serves requests nor confirms itself.                  *)
(***************************************************************************)
EXTENDS Naturals

CONSTANTS
  Build,           \* what a bundle may contain
  Version,         \* its VERSION
  VersionOf,
  Bad,             \* the builds that do not run
  Pushed,          \* the builds that clients push
  First,           \* the build the unit was provisioned with
  None,            \* no file, no release, no process
  Partial,         \* what is left of a release whose removal was cut off:
                   \* a directory, and nothing that runs
  Request,         \* calls of /admin/update and /admin/rollback
  Kinds,           \* those made: subset of {"update", "rollback"}
  Careful,         \* nobody asks before the unit has settled, nor for an
                   \* update to the version that is installed
  MaxCrashes       \* bounds the power losses

ASSUME BuildAssumption ==
         /\ VersionOf \in [Build -> Version] /\ None \notin Build \cup Version
         /\ Partial \notin Build \cup Version \cup {None}
         /\ Bad \subseteq Build /\ Pushed \subseteq Build /\ First \in Build \ Bad
ASSUME RequestAssumption == Kinds \subseteq {"update", "rollback"}
                            /\ Careful \in BOOLEAN /\ MaxCrashes \in Nat

VARIABLES
  tree,        \* root/<version>
  link,        \* the `current` symlink
  previous, pending, ok,       \* .markers
  aged,        \* pending is older than the grace period
  agent,       \* the build the agent runs
  confirm,     \* what _confirm_release_after_grace waits for
  atBoot,      \* the pending version it read
  restartDue,  \* a restart is scheduled
  pc, job, build, goal, prior,   \* the requests
  script, back,                  \* the script, and its $PREV
  crashes

\* History: a request died between its flip and its pending mark.
VARIABLE torn

markers == <<previous, pending, ok, aged>>
process == <<agent, confirm, atBoot, restartDue>>
requests == <<pc, job, build, goal, prior>>
timer == <<script, back>>
vars == <<tree, link, markers, process, requests, timer, crashes, torn>>

Init ==
  /\ tree = [v \in Version |-> IF v = VersionOf[First] THEN First ELSE None]
  /\ link = VersionOf[First]
  /\ previous = None /\ pending = None /\ ok = {} /\ aged = FALSE
  /\ agent = First /\ confirm = "off" /\ atBoot = None /\ restartDue = FALSE
  /\ pc = [r \in Request |-> "idle"] /\ job = [r \in Request |-> "update"]
  /\ build = [r \in Request |-> None] /\ goal = [r \in Request |-> None]
  /\ prior = [r \in Request |-> None]
  /\ script = "idle" /\ back = None
  /\ crashes = 0 /\ torn = FALSE

\* Mutant: rollback does not look for the directory.
UsableUnseen(v) == v # None
Usable(v) == v # None /\ tree[v] # None

\* current_version(), None when the link dangles.
Current == IF Usable(link) THEN link ELSE None

Serving == agent \in Build \ Bad
Listening == Serving /\ confirm # "boot"
Busy(r) == pc[r] \notin {"idle", "done"}
Settled == /\ \A r \in Request : ~Busy(r)
           /\ pending = None /\ script = "idle" /\ ~restartDue

-----------------------------------------------------------------------------
(* The requests.                                                           *)

Goto(r, label) == pc' = [pc EXCEPT ![r] = label]

\* stage(): the bundle is unpacked, and the removal of a release of that
\* version begins ...
Update(r, b) ==
  LET v == VersionOf[b] IN
  /\ pc[r] = "idle" /\ Listening /\ "update" \in Kinds
  /\ Careful => Settled /\ v # link
  /\ job' = [job EXCEPT ![r] = "update"]
  /\ build' = [build EXCEPT ![r] = b]
  /\ goal' = [goal EXCEPT ![r] = v]
  /\ tree' = [tree EXCEPT ![v] = IF @ = None THEN None ELSE Partial]
  /\ Goto(r, "remove")
  /\ UNCHANGED <<link, markers, process, prior, timer, crashes, torn>>

\* ... and ends, ...
Remove(r) ==
  /\ pc[r] = "remove"
  /\ tree' = [tree EXCEPT ![goal[r]] = None]
  /\ Goto(r, "place")
  /\ UNCHANGED <<link, markers, process, job, build, goal, prior, timer, crashes, torn>>

\* ... and the new one takes its place.
Place(r) ==
  /\ pc[r] = "place"
  /\ tree' = [tree EXCEPT ![goal[r]] = build[r]]
  /\ Goto(r, "deps")
  /\ UNCHANGED <<link, markers, process, job, build, goal, prior, timer, crashes, torn>>

\* The dependencies install, or the release is removed again.
Deps(r) ==
  /\ pc[r] = "deps"
  /\ \/ Goto(r, "activate") /\ UNCHANGED tree
     \/ Goto(r, "discard") /\ tree' = [tree EXCEPT ![goal[r]] = Partial]
  /\ UNCHANGED <<link, markers, process, job, build, goal, prior, timer, crashes, torn>>

Discard(r) ==
  /\ pc[r] = "discard"
  /\ tree' = [tree EXCEPT ![goal[r]] = None]
  /\ Goto(r, "done")
  /\ UNCHANGED <<link, markers, process, job, build, goal, prior, timer, crashes, torn>>

Rollback(r) ==
  /\ pc[r] = "idle" /\ Listening /\ "rollback" \in Kinds
  /\ Careful => Settled
  /\ job' = [job EXCEPT ![r] = "rollback"]
  /\ \/ /\ Usable(previous)
        /\ goal' = [goal EXCEPT ![r] = previous]
        /\ Goto(r, "activate")
     \/ ~Usable(previous) /\ Goto(r, "done") /\ UNCHANGED goal
  /\ UNCHANGED <<tree, link, markers, process, build, prior, timer, crashes, torn>>

\* Mutant: remember what the link leads to.
ActivateTree(r) ==
  /\ pc[r] = "activate"
  /\ \/ /\ Usable(goal[r])
        /\ prior' = [prior EXCEPT ![r] = tree[link]]
        /\ Goto(r, "flip")
     \/ ~Usable(goal[r]) /\ Goto(r, "done") /\ UNCHANGED prior
  /\ UNCHANGED <<tree, link, markers, process, job, build, goal, timer, crashes, torn>>
\* activate(): refuse what is not staged, remember the current version ...
Activate(r) ==
  /\ pc[r] = "activate"
  /\ \/ /\ Usable(goal[r])
        /\ prior' = [prior EXCEPT ![r] = Current]
        /\ Goto(r, "flip")
     \/ ~Usable(goal[r]) /\ Goto(r, "done") /\ UNCHANGED prior
  /\ UNCHANGED <<tree, link, markers, process, job, build, goal, timer, crashes, torn>>

\* ... flip the link ...
Flip(r) ==
  /\ pc[r] = "flip"
  /\ link' = goal[r]
  /\ Goto(r, "record")
  /\ UNCHANGED <<tree, markers, process, job, build, goal, prior, timer, crashes, torn>>

\* Mutant: the version that is current by now.
RecordCurrent(r) ==
  /\ pc[r] = "record"
  /\ previous' = link
  /\ Goto(r, "mark")
  /\ UNCHANGED <<tree, link, pending, ok, aged, process, job, build, goal, prior,
                 timer, crashes, torn>>
\* ... record what it replaced ...
Record(r) ==
  /\ pc[r] = "record"
  /\ previous' = IF prior[r] = None THEN previous ELSE prior[r]
  /\ Goto(r, "mark")
  /\ UNCHANGED <<tree, link, pending, ok, aged, process, job, build, goal, prior,
                 timer, crashes, torn>>

\* ... and mark it pending; a rollback is not on trial.
Mark(r) ==
  /\ pc[r] = "mark"
  /\ pending' = IF job[r] = "update" THEN goal[r] ELSE None
  /\ aged' = FALSE
  /\ Goto(r, "restart")
  /\ UNCHANGED <<tree, link, previous, ok, process, job, build, goal, prior, timer,
                 crashes, torn>>

\* The restart is scheduled, or systemd-run fails and the client is told so.
Restart(r) ==
  /\ pc[r] = "restart"
  /\ restartDue' \in {restartDue, TRUE}
  /\ Goto(r, "done")
  /\ UNCHANGED <<tree, link, markers, agent, confirm, atBoot, job, build, goal, prior,
                 timer, crashes, torn>>

-----------------------------------------------------------------------------
(* The agent.                                                              *)

\* Mutant: the release is confirmed before it has served for the delay.
BootConfirms ==
  /\ agent' = tree[link]
  /\ confirm' = "boot" /\ atBoot' = None
  /\ restartDue' = FALSE
  /\ pc' = [r \in Request |-> IF Busy(r) THEN "done" ELSE pc[r]]
  /\ torn' = (torn \/ \E r \in Request : job[r] = "update" /\ pc[r] \in {"record", "mark"})
  /\ UNCHANGED <<tree, link, markers, job, build, goal, prior>>
\* The agent starts from the link.  The requests of the last one are dead.
Boot ==
  /\ agent' = tree[link]
  /\ confirm' = IF tree[link] \in Build \ Bad THEN "boot" ELSE "off"
  /\ atBoot' = None
  /\ restartDue' = FALSE
  /\ pc' = [r \in Request |-> IF Busy(r) THEN "done" ELSE pc[r]]
  /\ torn' = (torn \/ \E r \in Request : /\ job[r] = "update"
                                         /\ pc[r] \in {"record", "mark"})
  /\ UNCHANGED <<tree, link, markers, job, build, goal, prior>>

ScheduledRestart == restartDue /\ Boot /\ UNCHANGED <<timer, crashes>>

\* systemd restarts a release that crashes.
CrashLoop == ~Serving /\ Boot /\ UNCHANGED <<timer, crashes>>

PowerLoss ==
  /\ crashes < MaxCrashes /\ crashes' = crashes + 1
  /\ Boot
  /\ script' = "idle" /\ UNCHANGED back

ConfirmStarts ==
  /\ confirm = "boot"
  /\ atBoot' = pending
  /\ confirm' = IF pending = None THEN "off" ELSE "grace"
  /\ UNCHANGED <<tree, link, markers, agent, restartDue, requests, timer, crashes, torn>>

\* It has served for the confirm delay.
Confirms ==
  /\ confirm = "grace"
  /\ \/ Current = atBoot /\ ok' = ok \cup {atBoot} /\ confirm' = "clear"
     \/ Current # atBoot /\ UNCHANGED ok /\ confirm' = "off"
  /\ UNCHANGED <<tree, link, previous, pending, aged, agent, atBoot, restartDue,
                 requests, timer, crashes, torn>>

ConfirmClears ==
  /\ confirm = "clear"
  /\ pending' = IF pending = atBoot THEN None ELSE pending
  /\ confirm' = "off"
  /\ UNCHANGED <<tree, link, previous, ok, aged, agent, atBoot, restartDue, requests,
                 timer, crashes, torn>>

-----------------------------------------------------------------------------
(* The confirm script.                                                     *)

GraceEnds ==
  /\ pending # None /\ ~aged /\ aged' = TRUE
  /\ UNCHANGED <<tree, link, previous, pending, ok, process, requests, timer, crashes, torn>>

ScriptChecks ==
  /\ script = "idle"
  /\ pending # None /\ pending \notin ok /\ aged
  /\ Usable(previous)
  /\ back' = previous
  /\ script' = "flip"
  /\ UNCHANGED <<tree, link, markers, process, requests, crashes, torn>>

ScriptFlips ==
  /\ script = "flip"
  /\ link' = back
  /\ script' = "unmark"
  /\ UNCHANGED <<tree, markers, process, requests, back, crashes, torn>>

ScriptUnmarks ==
  /\ script = "unmark"
  /\ pending' = None
  /\ script' = "restart"
  /\ UNCHANGED <<tree, link, previous, ok, aged, process, requests, back, crashes, torn>>

\* Mutant: the new link is enough.
ScriptEnds ==
  /\ script = "restart"
  /\ script' = "idle"
  /\ UNCHANGED <<tree, link, markers, process, requests, back, crashes, torn>>
ScriptRestarts ==
  /\ script = "restart"
  /\ Boot
  /\ script' = "idle" /\ UNCHANGED <<back, crashes>>

Next ==
  \/ \E r \in Request : \/ \E b \in Pushed : Update(r, b)
                        \/ Rollback(r)
                        \/ Remove(r) \/ Place(r) \/ Deps(r) \/ Discard(r)
                        \/ Activate(r) \/ Flip(r)
                        \/ Record(r) \/ Mark(r) \/ Restart(r)
  \/ ScheduledRestart \/ CrashLoop \/ PowerLoss
  \/ ConfirmStarts \/ Confirms \/ ConfirmClears
  \/ GraceEnds \/ ScriptChecks \/ ScriptFlips \/ ScriptUnmarks \/ ScriptRestarts

Spec == Init /\ [][Next]_vars

\* Requests, the confirmation, the timer and the scheduled restart get on with
\* their work.
Fairness ==
  /\ \A r \in Request :
       WF_vars(Remove(r) \/ Place(r) \/ Deps(r) \/ Discard(r) \/ Activate(r)
               \/ Flip(r) \/ Record(r) \/ Mark(r) \/ Restart(r))
  /\ WF_vars(ScheduledRestart)
  /\ WF_vars(ConfirmStarts \/ Confirms \/ ConfirmClears)
  /\ WF_vars(GraceEnds)
  /\ WF_vars(ScriptChecks \/ ScriptFlips \/ ScriptUnmarks \/ ScriptRestarts)

FairSpec == Spec /\ Fairness

-----------------------------------------------------------------------------
(* Properties.                                                             *)

\* The types of the variables.
TypeOK ==
  /\ tree \in [Version -> Build \cup {None, Partial}] /\ link \in Version
  /\ previous \in Version \cup {None} /\ pending \in Version \cup {None}
  /\ ok \subseteq Version
  /\ aged \in BOOLEAN /\ restartDue \in BOOLEAN /\ torn \in BOOLEAN
  /\ agent \in Build \cup {None, Partial} /\ atBoot \in Version \cup {None}
  /\ confirm \in {"off", "boot", "grace", "clear"}
  /\ pc \in [Request -> {"idle", "remove", "place", "deps", "discard", "activate", "flip",
                         "record", "mark", "restart", "done"}]
  /\ job \in [Request -> {"update", "rollback"}]
  /\ build \in [Request -> Build \cup {None}]
  /\ goal \in [Request -> Version \cup {None}] /\ prior \in [Request -> Version \cup {None}]
  /\ script \in {"idle", "flip", "unmark", "restart"} /\ back \in Version \cup {None}
  /\ crashes \in Nat

\* A release that does not run is never marked healthy.
OkIsEarned == \A v \in ok : tree[v] \notin Bad

\* The directory the agent is started from is never removed, nor about to be.
LiveKept ==
  /\ tree[link] # None
  /\ \A r \in Request : pc[r] \in {"remove", "discard"} => goal[r] # link

\* A release that does not run is on trial as long as it is linked, and the one
\* before it is there to go back to, unless the agent died before it could write
\* that down, or in the removal of what a client rolled back to since.
OnTrial ==
  tree[link] \in Bad =>
    \/ torn
    \/ \E r \in Request : job[r] = "update" /\ pc[r] \in {"record", "mark"} /\ goal[r] = link
    \/ /\ pending = link /\ link \notin ok
       /\ previous # None /\ tree[previous] \in (Build \ Bad) \cup {Partial}

\* A bad push does not strand the unit: it comes back on a release that runs,
\* unless the agent died before it could write the trial down, or goes back to
\* what is left of a removal in which it died.
NotStranded == agent \in Bad ~> (Serving \/ torn \/ agent = Partial)
=============================================================================
