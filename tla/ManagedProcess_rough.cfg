\* The roughest scheduling: spawns that outlast stop()'s patience, coroutines
\* that slip in between an exit and its watcher, crash restarts, every call.
SPECIFICATION FairSpec
CONSTANTS
  Proc = {1, 2}
  NoProc = NoProc
  Op = {o1, o2}
  Kinds = {"start", "stop", "restart", "panic", "shutdown"}
  RestartOnCrash = TRUE
  AutoRestart = TRUE
  Claims = {"none", "driven"}
  SpawnMayStall = TRUE
  WakeRace = TRUE
INVARIANT OneRecovery
PROPERTIES CallsReturn WatchdogSparesHealthy
\* All calls made, all processes spawned and gone: nothing is left to do.
CHECK_DEADLOCK FALSE
