--------------------------- MODULE UpdaterProofs ---------------------------
(***************************************************************************)
(* Theorems about Updater, for any builds, versions, requests and power    *)
(* losses.                                                                 *)
(***************************************************************************)
EXTENDS Updater, TLAPS

\* What the unit may rely on: requests are made with care, and the version of
\* a build that runs is never given to one that does not.
Trusted == /\ Careful
           /\ \A a \in Build \ Bad : \A b \in Bad : VersionOf[a] # VersionOf[b]

Good(v) == v \in Version /\ \A b \in Bad : VersionOf[b] # v

\* A request that changes the release, before its trial begins.
Working(r) == pc[r] \in {"remove", "place", "deps", "discard", "activate", "flip",
                         "record", "mark"}

\* ... and while it may still touch the directory of its version.
Staging(r) == pc[r] \in {"remove", "place", "deps", "discard"}

-----------------------------------------------------------------------------
(* The inductive invariant.                                                *)

TreeInv == /\ \A v \in Version : tree[v] \in Build => VersionOf[tree[v]] = v
           /\ tree[link] # None

MarkerInv == /\ \A v \in ok : Good(v)
             /\ previous # None => Good(previous)

OneJob == \A r, s \in Request : Busy(r) /\ Busy(s) => r = s

\* A request works alone, from a release that runs, towards one that is there.
RequestInv ==
  \A r \in Request :
    /\ Working(r) => /\ pending = None /\ script = "idle" /\ confirm # "boot"
                     /\ confirm = "grace" => Good(atBoot)
    /\ pc[r] \in {"remove", "place"} => build[r] \in Build /\ goal[r] = VersionOf[build[r]]
    /\ Staging(r) => goal[r] # link
    /\ Staging(r) \/ pc[r] \in {"activate", "flip"} => Good(link)
    /\ pc[r] = "flip" => Usable(goal[r])
    /\ Working(r) /\ job[r] = "rollback" => Good(goal[r])
    /\ pc[r] \in {"record", "mark"} => link = goal[r]
    /\ pc[r] \in {"flip", "record", "mark"} => Usable(prior[r]) /\ Good(prior[r])
    /\ pc[r] = "mark" => previous = prior[r]

\* Nothing happens any more on a unit that a torn update left on a release that
\* does not run.
Stranded == /\ torn /\ ~Serving /\ confirm = "off"
            /\ pending = None /\ script = "idle"
            /\ \A r \in Request : ~Busy(r)

TrialInv ==
  ~Good(link) =>
    \/ Stranded
    \/ \E r \in Request : job[r] = "update" /\ pc[r] \in {"record", "mark"} /\ goal[r] = link
    \/ pending = link /\ Usable(previous)

ScriptInv == /\ script = "flip" => Usable(back) /\ Good(back)
             /\ script \in {"unmark", "restart"} => Good(link)

\* The agent waits to confirm the release it runs, or one that the script is
\* about to take back and restart it for.
ConfirmInv ==
  /\ confirm = "boot" => Good(link)
  /\ confirm = "grace" => \/ Good(atBoot)
                          \/ Good(link) /\ (pending # None \/ script = "restart")
  /\ confirm = "clear" => Good(atBoot)

ReleaseInv == /\ TreeInv /\ MarkerInv /\ OneJob /\ RequestInv /\ TrialInv
              /\ ScriptInv /\ ConfirmInv

-----------------------------------------------------------------------------
(* Types.                                                                  *)

\* The link is only ever flipped to a version, and only one is confirmed.
Targets == /\ \A r \in Request : pc[r] = "flip" => goal[r] \in Version
           /\ script = "flip" => back \in Version
           /\ confirm = "grace" => atBoot \in Version

LEMMA TypeInit == Init => TypeOK /\ Targets
<1> SUFFICES ASSUME Init PROVE TypeOK /\ Targets OBVIOUS
<1>1. First \in Build /\ VersionOf[First] \in Version BY BuildAssumption
<1>2. tree \in [Version -> Build \cup {None, Partial}] BY <1>1 DEF Init
<1>3. /\ link \in Version /\ ok \subseteq Version /\ agent \in Build \cup {None, Partial}
      /\ crashes \in Nat
  BY <1>1 DEF Init
<1>4. /\ pc \in [Request -> {"idle"}] /\ job \in [Request -> {"update"}]
      /\ build \in [Request -> {None}] /\ goal \in [Request -> {None}]
      /\ prior \in [Request -> {None}]
  BY DEF Init
<1>5. Targets BY DEF Init, Targets
<1>6. TypeOK BY <1>2, <1>3, <1>4 DEF Init, TypeOK
<1> QED BY <1>5, <1>6

\* Whatever restarts the agent keeps the types.
LEMMA BootType == ASSUME TypeOK, Targets, Boot,
                         script' \in {script, "idle"}, back' = back, crashes' \in Nat
                  PROVE  TypeOK' /\ Targets'
BY BuildAssumption DEF TypeOK, Targets, Boot, markers, Busy

\* Every step keeps the types.
LEMMA TypeStep == TypeOK /\ Targets /\ [Next]_vars => TypeOK' /\ Targets'
<1> SUFFICES ASSUME TypeOK, Targets, [Next]_vars PROVE TypeOK' /\ Targets' OBVIOUS
<1>1. ASSUME NEW r \in Request, NEW b \in Pushed, Update(r, b) PROVE TypeOK' /\ Targets'
  BY <1>1, BuildAssumption DEF Update, TypeOK, Targets, Goto, markers, process, timer
<1>2. ASSUME NEW r \in Request, Rollback(r) PROVE TypeOK' /\ Targets'
  BY <1>2 DEF Rollback, Usable, TypeOK, Targets, Goto, markers, process, requests, timer
<1>3. ASSUME NEW r \in Request, Place(r) PROVE TypeOK' /\ Targets'
  <2>1. tree' \in [Version -> Build \cup {None, Partial}]
    BY <1>3 DEF Place, TypeOK
  <2>2. Targets' BY <1>3 DEF Place, TypeOK, Targets, Goto, process, timer
  <2> QED BY <1>3, <2>1, <2>2 DEF Place, TypeOK, Goto, markers, process, timer
<1>4. ASSUME NEW r \in Request, Deps(r) PROVE TypeOK' /\ Targets'
  BY <1>4 DEF Deps, TypeOK, Targets, Goto, markers, process, requests, timer
<1>22. ASSUME NEW r \in Request, Remove(r) PROVE TypeOK' /\ Targets'
  <2>1. tree' \in [Version -> Build \cup {None, Partial}]
    BY <1>22 DEF Remove, TypeOK
  <2>2. Targets' BY <1>22 DEF Remove, TypeOK, Targets, Goto, process, timer
  <2> QED BY <1>22, <2>1, <2>2 DEF Remove, TypeOK, Goto, markers, process, timer
<1>23. ASSUME NEW r \in Request, Discard(r) PROVE TypeOK' /\ Targets'
  <2>1. tree' \in [Version -> Build \cup {None, Partial}]
    BY <1>23 DEF Discard, TypeOK
  <2>2. Targets' BY <1>23 DEF Discard, TypeOK, Targets, Goto, process, timer
  <2> QED BY <1>23, <2>1, <2>2 DEF Discard, TypeOK, Goto, markers, process, timer
<1>5. ASSUME NEW r \in Request, Activate(r) PROVE TypeOK' /\ Targets'
  BY <1>5 DEF Activate, Current, Usable, TypeOK, Targets, Goto, markers, process, requests, timer
<1>6. ASSUME NEW r \in Request, Flip(r) PROVE TypeOK' /\ Targets'
  BY <1>6 DEF Flip, TypeOK, Targets, Goto, markers, process, requests, timer
<1>7. ASSUME NEW r \in Request, Record(r) PROVE TypeOK' /\ Targets'
  BY <1>7 DEF Record, TypeOK, Targets, Goto, markers, process, requests, timer
<1>8. ASSUME NEW r \in Request, Mark(r) PROVE TypeOK' /\ Targets'
  BY <1>8 DEF Mark, TypeOK, Targets, Goto, markers, process, requests, timer
<1>9. ASSUME NEW r \in Request, Restart(r) PROVE TypeOK' /\ Targets'
  <2>1. restartDue' \in BOOLEAN BY <1>9 DEF Restart, TypeOK
  <2> QED BY <1>9, <2>1 DEF Restart, TypeOK, Targets, Goto, markers, timer
<1>10. ASSUME ScheduledRestart PROVE TypeOK' /\ Targets'
  BY <1>10, BootType DEF ScheduledRestart, TypeOK, timer
<1>11. ASSUME CrashLoop PROVE TypeOK' /\ Targets'
  BY <1>11, BootType DEF CrashLoop, TypeOK, timer
<1>12. ASSUME PowerLoss PROVE TypeOK' /\ Targets'
  BY <1>12, BootType DEF PowerLoss, TypeOK, timer
<1>13. ASSUME ScriptRestarts PROVE TypeOK' /\ Targets'
  BY <1>13, BootType DEF ScriptRestarts, TypeOK, timer
<1>14. ASSUME ConfirmStarts PROVE TypeOK' /\ Targets'
  BY <1>14 DEF ConfirmStarts, TypeOK, Targets, Goto, markers, process, requests, timer
<1>15. ASSUME Confirms PROVE TypeOK' /\ Targets'
  <2>1. ok' \subseteq Version BY <1>15 DEF Confirms, TypeOK, Targets
  <2> QED BY <1>15, <2>1 DEF Confirms, TypeOK, Targets, requests, timer
<1>16. ASSUME ConfirmClears PROVE TypeOK' /\ Targets'
  BY <1>16 DEF ConfirmClears, TypeOK, Targets, Goto, markers, process, requests, timer
<1>17. ASSUME GraceEnds PROVE TypeOK' /\ Targets'
  BY <1>17 DEF GraceEnds, TypeOK, Targets, Goto, markers, process, requests, timer
<1>18. ASSUME ScriptChecks PROVE TypeOK' /\ Targets'
  BY <1>18 DEF ScriptChecks, Usable, TypeOK, Targets, Goto, markers, process, requests, timer
<1>19. ASSUME ScriptFlips PROVE TypeOK' /\ Targets'
  BY <1>19 DEF ScriptFlips, TypeOK, Targets, Goto, markers, process, requests, timer
<1>20. ASSUME ScriptUnmarks PROVE TypeOK' /\ Targets'
  BY <1>20 DEF ScriptUnmarks, TypeOK, Targets, Goto, markers, process, requests, timer
<1>21. CASE UNCHANGED vars
  BY <1>21 DEF vars, TypeOK, Targets, Goto, markers, process, requests, timer
<1> QED BY <1>1, <1>2, <1>3, <1>4, <1>5, <1>6, <1>7, <1>8, <1>9, <1>10, <1>11, <1>12, <1>13, <1>14, <1>15, <1>16, <1>17, <1>18, <1>19, <1>20, <1>21, <1>22, <1>23 DEF Next

\* The variables keep their types, however the unit is used.
THEOREM UpdaterTypes == Spec => []TypeOK
<1>1. TypeOK /\ Targets /\ [Next]_vars => (TypeOK /\ Targets)' BY TypeStep
<1> QED BY <1>1, TypeInit, PTL DEF Spec

-----------------------------------------------------------------------------
(* The invariant holds.                                                    *)

\* A staged release runs exactly when its version is a good one.
LEMMA GoodTree == ASSUME TypeOK, TreeInv, Trusted, NEW v \in Version,
                         tree[v] \notin {None, Partial}
                  PROVE  Good(v) <=> tree[v] \in Build \ Bad
<1>1. tree[v] \in Build /\ VersionOf[tree[v]] = v BY DEF TypeOK, TreeInv
<1>2. CASE tree[v] \in Bad BY <1>1, <1>2 DEF Good
<1>3. CASE tree[v] \notin Bad BY <1>1, <1>3 DEF Good, Trusted
<1> QED BY <1>1, <1>2, <1>3

\* Whoever asks with care finds a release that runs and nothing on trial.
LEMMA SettledIsGood ==
  ASSUME TypeOK, ReleaseInv, Listening, Settled
  PROVE  /\ Good(link) /\ pending = None /\ script = "idle" /\ confirm # "boot"
         /\ confirm = "grace" => Good(atBoot)
<1>1. pending = None /\ script = "idle" /\ confirm # "boot" /\ Serving
      /\ \A r \in Request : ~Busy(r)
  BY DEF Listening, Settled
<1>2. link # None BY BuildAssumption DEF TypeOK
<1>3. Good(link) BY <1>1, <1>2 DEF ReleaseInv, TrialInv, Stranded, Busy
<1> QED BY <1>1, <1>3 DEF ReleaseInv, ConfirmInv

\* The initial states satisfy the invariant.
LEMMA ReleaseInit == Init /\ Trusted => ReleaseInv
<1> SUFFICES ASSUME Init, Trusted PROVE ReleaseInv OBVIOUS
<1>1. First \in Build \ Bad /\ VersionOf[First] \in Version /\ None \notin Build
  BY BuildAssumption
<1>2. TreeInv BY <1>1 DEF Init, TreeInv
<1>3. Good(link) BY <1>1 DEF Init, Good, Trusted
<1>4. MarkerInv /\ OneJob /\ ScriptInv /\ ConfirmInv
  BY DEF Init, MarkerInv, OneJob, Busy, ScriptInv, ConfirmInv
<1>5. RequestInv BY DEF Init, RequestInv, Working, Staging
<1> QED BY <1>2, <1>3, <1>4, <1>5 DEF ReleaseInv, TrialInv

\* Whatever restarts the agent keeps the invariant.
LEMMA BootKeeps ==
  ASSUME TypeOK, ReleaseInv, Trusted, Boot, script' \in {script, "idle"}, back' = back
  PROVE  ReleaseInv'
<1> USE DEF ReleaseInv
<1>1. UNCHANGED <<tree, link, previous, pending, ok, aged, job, build, goal, prior>>
  BY DEF Boot, markers
<1>2. \A r \in Request : pc'[r] \in {"idle", "done"} BY DEF Boot, Busy
<1>3. \A v \in Version : tree[v] \notin {None, Partial} => (Good(v) <=> tree[v] \in Build \ Bad)
  BY GoodTree
<1>11. \A v \in Version : tree[v] = Partial => tree[v] \notin Build BY BuildAssumption
<1>4. TreeInv' BY <1>1 DEF TreeInv
<1>5. MarkerInv' BY <1>1 DEF MarkerInv, Good
<1>6. OneJob' BY <1>2 DEF OneJob, Busy
<1>7. RequestInv' BY <1>2 DEF RequestInv, Working, Staging
<1>8. TrialInv'
  <2>1. SUFFICES ASSUME ~Good(link) PROVE Stranded' \/ (pending = link /\ Usable(previous))
    BY <1>1 DEF TrialInv, Good, Usable
  <2>2. agent' = tree[link] /\ agent' \notin Build \ Bad /\ confirm' = "off"
    BY <1>3, <1>11, <2>1 DEF Boot, TypeOK, TreeInv
  <2>3. CASE Stranded
    BY <1>1, <1>2, <2>2, <2>3 DEF Stranded, Boot, Serving, Busy
  <2>4. CASE \E r \in Request : job[r] = "update" /\ pc[r] \in {"record", "mark"}
    <3>1. torn' BY <2>4 DEF Boot
    <3>2. pending = None /\ script = "idle" BY <2>4 DEF RequestInv, Working
    <3> QED BY <1>1, <1>2, <2>2, <3>1, <3>2 DEF Stranded, Serving, Busy
  <2> QED BY <2>1, <2>3, <2>4 DEF TrialInv
<1>9. ScriptInv' BY <1>1 DEF ScriptInv, Usable, Good
<1>10. ConfirmInv' BY <1>1, <1>3, <1>11 DEF ConfirmInv, Boot, TypeOK, TreeInv, Good
<1> QED BY <1>4, <1>5, <1>6, <1>7, <1>8, <1>9, <1>10

\* Every step keeps the invariant.
LEMMA ReleaseStep ==
  ASSUME TypeOK, TypeOK', ReleaseInv, Trusted, [Next]_vars
  PROVE  ReleaseInv'
<1> USE DEF ReleaseInv, Working, Staging, Busy
<1>1. ASSUME NEW r \in Request, NEW b \in Pushed, Update(r, b) PROVE ReleaseInv'
  <2>1. Good(link) /\ pending = None /\ script = "idle" /\ confirm # "boot"
        /\ (confirm = "grace" => Good(atBoot))
    BY <1>1, SettledIsGood DEF Update, Trusted
  <2>2. \A s \in Request : pc[s] \in {"idle", "done"}
    BY <1>1 DEF Update, Settled, Trusted, TypeOK
  <2>3. b \in Build /\ VersionOf[b] \in Version /\ VersionOf[b] # link
        /\ None \notin Build /\ Partial \notin Build
    BY <1>1, BuildAssumption DEF Update, Trusted
  <2>4. TreeInv'
    BY <1>1, <2>1, <2>2, <2>3 DEF Update, Goto, TypeOK, markers, process, timer,
          TreeInv, Usable
  <2>5. OneJob'
    BY <1>1, <2>1, <2>2, <2>3 DEF Update, Goto, TypeOK, markers, process, timer,
          OneJob
  <2>6. RequestInv'
    BY <1>1, <2>1, <2>2, <2>3 DEF Update, Goto, TypeOK, markers, process, timer,
          RequestInv, Usable, Good
  <2>7. TrialInv'
    BY <1>1, <2>1, <2>2, <2>3 DEF Update, Goto, TypeOK, markers, process, timer,
          TrialInv, Stranded, Serving, Usable, Good
  <2>8. ScriptInv'
    BY <1>1, <2>1, <2>2, <2>3 DEF Update, Goto, TypeOK, markers, process, timer,
          ScriptInv, Usable, Good
  <2>9. MarkerInv' /\ ConfirmInv'
    BY <1>1 DEF Update, Goto, TypeOK, markers, process, timer, MarkerInv, Good,
          ConfirmInv
  <2> QED BY <2>4, <2>5, <2>6, <2>7, <2>8, <2>9
<1>2. ASSUME NEW r \in Request, Place(r) PROVE ReleaseInv'
  <2>1. goal[r] # link /\ Good(link) /\ build[r] \in Build /\ goal[r] = VersionOf[build[r]]
        /\ script = "idle"
    BY <1>2 DEF Place, RequestInv
  <2>2. \A s \in Request : s # r => pc[s] \in {"idle", "done"}
    BY <1>2 DEF Place, OneJob, TypeOK
  <2>3. None \notin Build BY BuildAssumption
  <2>4. TreeInv'
    BY <1>2, <2>1, <2>2, <2>3 DEF Place, Goto, TypeOK, markers, process, timer,
          TreeInv, Usable
  <2>5. OneJob'
    BY <1>2, <2>1, <2>2, <2>3 DEF Place, Goto, TypeOK, markers, process, timer, OneJob
  <2>6. RequestInv'
    BY <1>2, <2>1, <2>2, <2>3 DEF Place, Goto, TypeOK, markers, process, timer,
          RequestInv, Usable, Good
  <2>7. TrialInv'
    BY <1>2, <2>1, <2>2, <2>3 DEF Place, Goto, TypeOK, markers, process, timer,
          TrialInv, Stranded, Serving, Usable, Good
  <2>8. ScriptInv'
    BY <1>2, <2>1, <2>2, <2>3 DEF Place, Goto, TypeOK, markers, process, timer,
          ScriptInv, Usable, Good
  <2>9. MarkerInv' /\ ConfirmInv'
    BY <1>2 DEF Place, Goto, TypeOK, markers, process, timer, MarkerInv, Good,
          ConfirmInv
  <2> QED BY <2>4, <2>5, <2>6, <2>7, <2>8, <2>9
<1>3. ASSUME NEW r \in Request, Deps(r) PROVE ReleaseInv'
  <2>1. goal[r] # link /\ Good(link) /\ script = "idle"
    BY <1>3 DEF Deps, RequestInv
  <2>2. \A s \in Request : s # r => pc[s] \in {"idle", "done"}
    BY <1>3 DEF Deps, OneJob, TypeOK
  <2>3. TreeInv'
    BY <1>3, <2>1, <2>2, BuildAssumption DEF Deps, Goto, TypeOK, markers, process, timer, TreeInv,
          Usable
  <2>4. OneJob'
    BY <1>3, <2>1, <2>2 DEF Deps, Goto, TypeOK, markers, process, timer, OneJob
  <2>5. RequestInv'
    BY <1>3, <2>1, <2>2 DEF Deps, Goto, TypeOK, markers, process, timer, RequestInv,
          Usable, Good
  <2>6. TrialInv'
    BY <1>3, <2>1, <2>2 DEF Deps, Goto, TypeOK, markers, process, timer, TrialInv,
          Stranded, Serving, Usable, Good
  <2>7. ScriptInv'
    BY <1>3, <2>1, <2>2 DEF Deps, Goto, TypeOK, markers, process, timer, ScriptInv,
          Usable, Good
  <2>8. MarkerInv' /\ ConfirmInv'
    BY <1>3 DEF Deps, Goto, TypeOK, markers, process, timer, MarkerInv, Good,
          ConfirmInv
  <2> QED BY <2>3, <2>4, <2>5, <2>6, <2>7, <2>8
<1>22. ASSUME NEW r \in Request, Remove(r) PROVE ReleaseInv'
  <2>1. goal[r] # link /\ Good(link) /\ script = "idle" BY <1>22 DEF Remove, RequestInv
  <2>2. \A s \in Request : s # r => pc[s] \in {"idle", "done"}
    BY <1>22 DEF Remove, OneJob, TypeOK
  <2>3. None \notin Build BY BuildAssumption
  <2>4. TreeInv'
    BY <1>22, <2>1, <2>3 DEF Remove, Goto, TypeOK, TreeInv
  <2>5. OneJob'
    BY <1>22, <2>2 DEF Remove, Goto, TypeOK, OneJob
  <2>6. RequestInv'
    BY <1>22, <2>1, <2>2 DEF Remove, Goto, TypeOK, markers, process, timer, RequestInv,
          Usable, Good
  <2>7. TrialInv'
    BY <1>22, <2>1 DEF Remove, Goto, TypeOK, markers, process, timer, TrialInv, Good
  <2>8. ScriptInv' /\ MarkerInv' /\ ConfirmInv'
    BY <1>22, <2>1 DEF Remove, Goto, markers, process, timer, ScriptInv, MarkerInv,
          ConfirmInv, Good
  <2> QED BY <2>4, <2>5, <2>6, <2>7, <2>8
<1>23. ASSUME NEW r \in Request, Discard(r) PROVE ReleaseInv'
  <2>1. goal[r] # link /\ Good(link) /\ script = "idle" BY <1>23 DEF Discard, RequestInv
  <2>2. \A s \in Request : s # r => pc[s] \in {"idle", "done"}
    BY <1>23 DEF Discard, OneJob, TypeOK
  <2>3. None \notin Build BY BuildAssumption
  <2>4. TreeInv'
    BY <1>23, <2>1, <2>3 DEF Discard, Goto, TypeOK, TreeInv
  <2>5. OneJob'
    BY <1>23, <2>2 DEF Discard, Goto, TypeOK, OneJob
  <2>6. RequestInv'
    BY <1>23, <2>1, <2>2 DEF Discard, Goto, TypeOK, markers, process, timer, RequestInv,
          Usable, Good
  <2>7. TrialInv'
    BY <1>23, <2>1 DEF Discard, Goto, TypeOK, markers, process, timer, TrialInv, Good
  <2>8. ScriptInv' /\ MarkerInv' /\ ConfirmInv'
    BY <1>23, <2>1 DEF Discard, Goto, markers, process, timer, ScriptInv, MarkerInv,
          ConfirmInv, Good
  <2> QED BY <2>4, <2>5, <2>6, <2>7, <2>8
<1>4. ASSUME NEW r \in Request, Rollback(r) PROVE ReleaseInv'
  <2>1. Good(link) /\ pending = None /\ script = "idle" /\ confirm # "boot"
        /\ (confirm = "grace" => Good(atBoot))
    BY <1>4, SettledIsGood DEF Rollback, Trusted
  <2>2. \A s \in Request : pc[s] \in {"idle", "done"}
    BY <1>4 DEF Rollback, Settled, Trusted, TypeOK
  <2>3. Usable(previous) => Good(previous)
    BY DEF MarkerInv, Usable
  <2>4. OneJob'
    BY <1>4, <2>1, <2>2, <2>3 DEF Rollback, Goto, TypeOK, markers, process, timer,
          OneJob
  <2>5. RequestInv'
    BY <1>4, <2>1, <2>2, <2>3 DEF Rollback, Goto, TypeOK, markers, process, timer,
          RequestInv, Usable, Good
  <2>6. TrialInv'
    BY <1>4, <2>1, <2>2, <2>3 DEF Rollback, Goto, TypeOK, markers, process, timer,
          TrialInv, Stranded, Serving, Usable, Good
  <2>7. TreeInv' /\ MarkerInv' /\ ScriptInv' /\ ConfirmInv'
    BY <1>4 DEF Rollback, Goto, TypeOK, markers, process, timer, TreeInv, Usable,
          MarkerInv, Good, ScriptInv, ConfirmInv
  <2> QED BY <2>4, <2>5, <2>6, <2>7
<1>5. ASSUME NEW r \in Request, Activate(r) PROVE ReleaseInv'
  <2>1. Good(link) /\ Current = link /\ Usable(link)
    BY <1>5, BuildAssumption DEF Activate, RequestInv, TreeInv, Current, Usable, TypeOK
  <2>2. \A s \in Request : s # r => pc[s] \in {"idle", "done"}
    BY <1>5 DEF Activate, OneJob, TypeOK
  <2>3. OneJob'
    BY <1>5, <2>1, <2>2 DEF Activate, Goto, TypeOK, markers, process, timer, OneJob
  <2>4. RequestInv'
    BY <1>5, <2>1, <2>2 DEF Activate, Goto, TypeOK, markers, process, timer,
          RequestInv, Usable, Good
  <2>5. TrialInv'
    BY <1>5, <2>1, <2>2 DEF Activate, Goto, TypeOK, markers, process, timer, TrialInv,
          Stranded, Serving, Usable, Good
  <2>6. TreeInv' /\ MarkerInv' /\ ScriptInv' /\ ConfirmInv'
    BY <1>5 DEF Activate, Goto, TypeOK, markers, process, timer, TreeInv, Usable,
          MarkerInv, Good, ScriptInv, ConfirmInv
  <2> QED BY <2>3, <2>4, <2>5, <2>6
<1>6. ASSUME NEW r \in Request, Flip(r) PROVE ReleaseInv'
  <2>1. Usable(goal[r]) /\ script = "idle" /\ confirm # "boot"
        /\ (confirm = "grace" => Good(atBoot)) /\ (job[r] = "rollback" => Good(goal[r]))
    BY <1>6 DEF Flip, RequestInv
  <2>2. \A s \in Request : s # r => pc[s] \in {"idle", "done"}
    BY <1>6 DEF Flip, OneJob, TypeOK
  <2>3. TreeInv'
    BY <1>6, <2>1, <2>2 DEF Flip, Goto, TypeOK, markers, process, timer, TreeInv,
          Usable
  <2>4. OneJob'
    BY <1>6, <2>1, <2>2 DEF Flip, Goto, TypeOK, markers, process, timer, OneJob
  <2>5. RequestInv'
    BY <1>6, <2>1, <2>2 DEF Flip, Goto, TypeOK, markers, process, timer, RequestInv,
          Usable, Good
  <2>6. TrialInv'
    BY <1>6, <2>1, <2>2 DEF Flip, Goto, TypeOK, markers, process, timer, TrialInv,
          Stranded, Serving, Usable, Good
  <2>7. ScriptInv'
    BY <1>6, <2>1, <2>2 DEF Flip, Goto, TypeOK, markers, process, timer, ScriptInv,
          Usable, Good
  <2>8. ConfirmInv'
    BY <1>6, <2>1, <2>2 DEF Flip, Goto, TypeOK, markers, process, timer, ConfirmInv,
          Good
  <2>9. MarkerInv'
    BY <1>6 DEF Flip, Goto, TypeOK, markers, process, timer, MarkerInv, Good
  <2> QED BY <2>3, <2>4, <2>5, <2>6, <2>7, <2>8, <2>9
<1>7. ASSUME NEW r \in Request, Record(r) PROVE ReleaseInv'
  <2>1. Usable(prior[r]) /\ Good(prior[r]) /\ pending = None /\ goal[r] = link
        /\ (job[r] = "rollback" => Good(goal[r]))
    BY <1>7 DEF Record, RequestInv
  <2>2. \A s \in Request : s # r => pc[s] \in {"idle", "done"}
    BY <1>7 DEF Record, OneJob, TypeOK
  <2>3. prior[r] # None /\ link # None BY <2>1, BuildAssumption DEF Usable, TypeOK
  <2>4. MarkerInv'
    BY <1>7, <2>1, <2>2, <2>3 DEF Record, Goto, TypeOK, process, timer, MarkerInv,
          Good
  <2>5. OneJob'
    BY <1>7, <2>1, <2>2, <2>3 DEF Record, Goto, TypeOK, process, timer, OneJob
  <2>6. RequestInv'
    BY <1>7, <2>1, <2>2, <2>3 DEF Record, Goto, TypeOK, process, timer, RequestInv,
          Usable, Good
  <2>7. TrialInv'
    BY <1>7, <2>1, <2>2, <2>3 DEF Record, Goto, TypeOK, process, timer, TrialInv,
          Stranded, Serving, Usable, Good
  <2>8. TreeInv' /\ ScriptInv' /\ ConfirmInv'
    BY <1>7 DEF Record, Goto, TypeOK, process, timer, TreeInv, Usable, ScriptInv,
          Good, ConfirmInv
  <2> QED BY <2>4, <2>5, <2>6, <2>7, <2>8
<1>8. ASSUME NEW r \in Request, Mark(r) PROVE ReleaseInv'
  <2>1. Usable(previous) /\ Good(previous) /\ goal[r] = link /\ script = "idle"
        /\ (job[r] = "rollback" => Good(goal[r])) /\ (confirm = "grace" => Good(atBoot))
    BY <1>8 DEF Mark, RequestInv
  <2>2. \A s \in Request : s # r => pc[s] \in {"idle", "done"}
    BY <1>8 DEF Mark, OneJob, TypeOK
  <2>3. OneJob'
    BY <1>8, <2>1, <2>2 DEF Mark, Goto, TypeOK, process, timer, OneJob
  <2>4. RequestInv'
    BY <1>8, <2>1, <2>2 DEF Mark, Goto, TypeOK, process, timer, RequestInv, Usable,
          Good
  <2>5. TrialInv'
    BY <1>8, <2>1, <2>2 DEF Mark, Goto, TypeOK, process, timer, TrialInv, Stranded,
          Serving, Usable, Good
  <2>6. ConfirmInv'
    BY <1>8, <2>1, <2>2 DEF Mark, Goto, TypeOK, process, timer, ConfirmInv, Good
  <2>7. TreeInv' /\ MarkerInv' /\ ScriptInv'
    BY <1>8 DEF Mark, Goto, TypeOK, process, timer, TreeInv, Usable, MarkerInv, Good,
          ScriptInv
  <2> QED BY <2>3, <2>4, <2>5, <2>6, <2>7
<1>9. ASSUME NEW r \in Request, Restart(r) PROVE ReleaseInv'
  <2>1. OneJob'
    BY <1>9 DEF Restart, Goto, TypeOK, markers, timer, OneJob
  <2>2. RequestInv'
    BY <1>9 DEF Restart, Goto, TypeOK, markers, timer, RequestInv, Usable, Good
  <2>3. TrialInv'
    BY <1>9 DEF Restart, Goto, TypeOK, markers, timer, TrialInv, Stranded, Serving,
          Usable, Good
  <2>4. TreeInv' /\ MarkerInv' /\ ScriptInv' /\ ConfirmInv'
    BY <1>9 DEF Restart, Goto, TypeOK, markers, timer, TreeInv, Usable, MarkerInv,
          Good, ScriptInv, ConfirmInv
  <2> QED BY <2>1, <2>2, <2>3, <2>4
<1>10. ASSUME ScheduledRestart PROVE ReleaseInv'
  BY <1>10, BootKeeps DEF ScheduledRestart, timer
<1>11. ASSUME CrashLoop PROVE ReleaseInv'
  BY <1>11, BootKeeps DEF CrashLoop, timer
<1>12. ASSUME PowerLoss PROVE ReleaseInv'
  BY <1>12, BootKeeps DEF PowerLoss, timer
<1>13. ASSUME ScriptRestarts PROVE ReleaseInv'
  BY <1>13, BootKeeps DEF ScriptRestarts, timer
<1>14. ASSUME ConfirmStarts PROVE ReleaseInv'
  <2>1. RequestInv'
    BY <1>14 DEF ConfirmStarts, TypeOK, markers, requests, timer, RequestInv, Usable,
          Good
  <2>2. TrialInv'
    BY <1>14 DEF ConfirmStarts, TypeOK, markers, requests, timer, TrialInv, Stranded,
          Serving, Usable, Good
  <2>3. ConfirmInv'
    BY <1>14 DEF ConfirmStarts, TypeOK, markers, requests, timer, ConfirmInv, Good
  <2>4. TreeInv' /\ MarkerInv' /\ OneJob' /\ ScriptInv'
    BY <1>14 DEF ConfirmStarts, TypeOK, markers, requests, timer, TreeInv, Usable,
          MarkerInv, Good, OneJob, ScriptInv
  <2> QED BY <2>1, <2>2, <2>3, <2>4
<1>15. ASSUME Confirms PROVE ReleaseInv'
  <2>1. confirm' = "clear" => Good(atBoot)
    BY <1>15, BuildAssumption DEF Confirms, ConfirmInv, Current, TypeOK
  <2>2. MarkerInv'
    BY <1>15, <2>1 DEF Confirms, TypeOK, markers, requests, timer, MarkerInv, Good
  <2>3. RequestInv'
    BY <1>15, <2>1 DEF Confirms, TypeOK, markers, requests, timer, RequestInv, Usable,
          Good
  <2>4. TrialInv'
    BY <1>15, <2>1 DEF Confirms, TypeOK, markers, requests, timer, TrialInv, Stranded,
          Serving, Usable, Good
  <2>5. ConfirmInv'
    BY <1>15, <2>1 DEF Confirms, TypeOK, markers, requests, timer, ConfirmInv, Good
  <2>6. TreeInv' /\ OneJob' /\ ScriptInv'
    BY <1>15 DEF Confirms, TypeOK, markers, requests, timer, TreeInv, Usable, OneJob,
          ScriptInv, Good
  <2> QED BY <2>2, <2>3, <2>4, <2>5, <2>6
<1>16. ASSUME ConfirmClears PROVE ReleaseInv'
  <2>1. Good(atBoot) BY <1>16 DEF ConfirmClears, ConfirmInv
  <2>2. RequestInv'
    BY <1>16, <2>1 DEF ConfirmClears, TypeOK, requests, timer, RequestInv, Usable,
          Good
  <2>3. TrialInv'
    BY <1>16, <2>1 DEF ConfirmClears, TypeOK, requests, timer, TrialInv, Stranded,
          Serving, Usable, Good
  <2>4. ConfirmInv'
    BY <1>16, <2>1 DEF ConfirmClears, TypeOK, requests, timer, ConfirmInv, Good
  <2>5. TreeInv' /\ MarkerInv' /\ OneJob' /\ ScriptInv'
    BY <1>16 DEF ConfirmClears, TypeOK, requests, timer, TreeInv, Usable, MarkerInv,
          Good, OneJob, ScriptInv
  <2> QED BY <2>2, <2>3, <2>4, <2>5
<1>17. ASSUME GraceEnds PROVE ReleaseInv'
  <2>1. TreeInv' /\ MarkerInv' /\ OneJob' /\ RequestInv' /\ TrialInv' /\ ScriptInv' /\ ConfirmInv'
    BY <1>17 DEF GraceEnds, TypeOK, process, requests, timer, TreeInv, Usable,
          MarkerInv, Good, OneJob, RequestInv, TrialInv, Stranded, Serving, ScriptInv,
          ConfirmInv
  <2> QED BY <2>1
<1>18. ASSUME ScriptChecks PROVE ReleaseInv'
  <2>1. Good(previous) BY <1>18 DEF ScriptChecks, MarkerInv, Usable
  <2>2. RequestInv'
    BY <1>18, <2>1 DEF ScriptChecks, TypeOK, markers, process, requests, RequestInv,
          Usable, Good
  <2>3. TrialInv'
    BY <1>18, <2>1 DEF ScriptChecks, TypeOK, markers, process, requests, TrialInv,
          Stranded, Serving, Usable, Good
  <2>4. ScriptInv'
    BY <1>18, <2>1 DEF ScriptChecks, TypeOK, markers, process, requests, ScriptInv,
          Usable, Good
  <2>5. ConfirmInv'
    BY <1>18, <2>1 DEF ScriptChecks, TypeOK, markers, process, requests, ConfirmInv,
          Good
  <2>6. TreeInv' /\ MarkerInv' /\ OneJob'
    BY <1>18 DEF ScriptChecks, TypeOK, markers, process, requests, TreeInv, Usable,
          MarkerInv, Good, OneJob
  <2> QED BY <2>2, <2>3, <2>4, <2>5, <2>6
<1>19. ASSUME ScriptFlips PROVE ReleaseInv'
  <2>1. Usable(back) /\ Good(back) BY <1>19 DEF ScriptFlips, ScriptInv
  <2>2. \A r \in Request : ~Working(r) BY <1>19 DEF ScriptFlips, RequestInv
  <2>3. TreeInv'
    BY <1>19, <2>1, <2>2 DEF ScriptFlips, TypeOK, markers, process, requests, TreeInv,
          Usable
  <2>4. RequestInv'
    BY <1>19, <2>1, <2>2 DEF ScriptFlips, TypeOK, markers, process, requests,
          RequestInv, Usable, Good
  <2>5. TrialInv'
    BY <1>19, <2>1, <2>2 DEF ScriptFlips, TypeOK, markers, process, requests,
          TrialInv, Stranded, Serving, Usable, Good
  <2>6. ScriptInv'
    BY <1>19, <2>1, <2>2 DEF ScriptFlips, TypeOK, markers, process, requests,
          ScriptInv, Usable, Good
  <2>7. ConfirmInv'
    BY <1>19, <2>1, <2>2 DEF ScriptFlips, TypeOK, markers, process, requests,
          ConfirmInv, Good
  <2>8. MarkerInv' /\ OneJob'
    BY <1>19 DEF ScriptFlips, TypeOK, markers, process, requests, MarkerInv, Good,
          OneJob
  <2> QED BY <2>3, <2>4, <2>5, <2>6, <2>7, <2>8
<1>20. ASSUME ScriptUnmarks PROVE ReleaseInv'
  <2>1. Good(link) BY <1>20 DEF ScriptUnmarks, ScriptInv
  <2>2. \A r \in Request : ~Working(r) BY <1>20 DEF ScriptUnmarks, RequestInv
  <2>3. RequestInv'
    BY <1>20, <2>1, <2>2 DEF ScriptUnmarks, TypeOK, process, requests, RequestInv,
          Usable, Good
  <2>4. TrialInv'
    BY <1>20, <2>1, <2>2 DEF ScriptUnmarks, TypeOK, process, requests, TrialInv,
          Stranded, Serving, Usable, Good
  <2>5. ScriptInv'
    BY <1>20, <2>1, <2>2 DEF ScriptUnmarks, TypeOK, process, requests, ScriptInv,
          Usable, Good
  <2>6. ConfirmInv'
    BY <1>20, <2>1, <2>2 DEF ScriptUnmarks, TypeOK, process, requests, ConfirmInv,
          Good
  <2>7. TreeInv' /\ MarkerInv' /\ OneJob'
    BY <1>20 DEF ScriptUnmarks, TypeOK, process, requests, TreeInv, Usable, MarkerInv,
          Good, OneJob
  <2> QED BY <2>3, <2>4, <2>5, <2>6, <2>7
<1>21. CASE UNCHANGED vars
  BY <1>21 DEF vars, markers, process, requests, timer, TreeInv, MarkerInv, OneJob, RequestInv,
     TrialInv, Stranded, Serving, ScriptInv, ConfirmInv, Usable, Good
<1> QED
  BY <1>1, <1>2, <1>3, <1>4, <1>5, <1>6, <1>7, <1>8, <1>9, <1>10, <1>11, <1>12, <1>13,
        <1>14, <1>15, <1>16, <1>17, <1>18, <1>19, <1>20, <1>21, <1>22, <1>23 DEF Next

\* The invariant holds, and the types with it, on a unit used with care.
LEMMA ReleaseInvariant == Trusted /\ Spec => [](TypeOK /\ ReleaseInv)
<1> SUFFICES ASSUME Trusted PROVE Spec => [](TypeOK /\ ReleaseInv) OBVIOUS
<1> DEFINE All == TypeOK /\ Targets /\ ReleaseInv
<1>1. Init => All BY TypeInit, ReleaseInit
<1>2. All /\ [Next]_vars => All' BY TypeStep, ReleaseStep
<1>3. All => TypeOK /\ ReleaseInv OBVIOUS
<1> HIDE DEF All
<1> QED BY <1>1, <1>2, <1>3, PTL DEF Spec

\* Only a release that runs is ever marked healthy.
THEOREM OkIsEarnedHolds == Trusted /\ Spec => []OkIsEarned
<1> SUFFICES ASSUME Trusted PROVE Spec => []OkIsEarned OBVIOUS
<1>1. ASSUME TypeOK, ReleaseInv PROVE OkIsEarned
  BY <1>1, GoodTree, BuildAssumption DEF OkIsEarned, ReleaseInv, MarkerInv, TypeOK
<1>2. TypeOK /\ ReleaseInv => OkIsEarned BY <1>1
<1> QED BY <1>2, ReleaseInvariant, PTL

\* The directory the agent is started from is always there, and nobody is about
\* to remove it.
THEOREM LiveKeptHolds == Trusted /\ Spec => []LiveKept
<1>1. ReleaseInv => LiveKept
  BY DEF ReleaseInv, TreeInv, RequestInv, Staging, LiveKept
<1> QED BY <1>1, ReleaseInvariant, PTL

\* A linked release that does not run is on trial, with one that does behind it
\* or what is left of one.
THEOREM OnTrialHolds == Trusted /\ Spec => []OnTrial
<1> SUFFICES ASSUME Trusted PROVE Spec => []OnTrial OBVIOUS
<1>1. ASSUME TypeOK, ReleaseInv, tree[link] \in Bad PROVE OnTrial
  <2>1. ~Good(link) /\ link \in Version /\ tree[link] \notin {None, Partial}
    BY <1>1, GoodTree, BuildAssumption DEF ReleaseInv, TypeOK
  <2>2. CASE pending = link /\ Usable(previous)
    <3>1. previous # None /\ tree[previous] # None /\ previous \in Version
      BY <1>1, <2>2 DEF Usable, TypeOK
    <3>2. Good(previous) BY <1>1, <3>1 DEF ReleaseInv, MarkerInv
    <3>3. tree[previous] \in (Build \ Bad) \cup {Partial}
      BY <1>1, <3>1, <3>2, GoodTree DEF ReleaseInv
    <3>4. link \notin ok BY <1>1, <2>1 DEF ReleaseInv, MarkerInv
    <3> QED BY <2>2, <3>1, <3>3, <3>4 DEF OnTrial
  <2> QED BY <1>1, <2>1, <2>2 DEF ReleaseInv, TrialInv, Stranded, OnTrial
<1>2. TypeOK /\ ReleaseInv => OnTrial BY <1>1 DEF OnTrial
<1> QED BY <1>2, ReleaseInvariant, PTL
=============================================================================
