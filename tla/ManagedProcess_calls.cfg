\* Every call but restart(), three of them at once, with fairness: what was
\* asked for last is what the slot does.
SPECIFICATION FairSpec
CONSTANTS
  Proc = {1, 2}
  NoProc = NoProc
  Op = {o1, o2, o3}
  Kinds = {"start", "stop", "panic", "shutdown"}
  RestartOnCrash = FALSE
  AutoRestart = TRUE
  Claims = {"none", "driven"}
  SpawnMayStall = FALSE
  WakeRace = FALSE
INVARIANTS TypeOK OneTransmitter NoOrphan ShutdownLeavesNone
PROPERTIES IntentHonoured KeepsPromise StopSilences
\* All calls made, all processes spawned and gone: nothing is left to do.
CHECK_DEADLOCK FALSE
