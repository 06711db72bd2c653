\* Two calls of any kind, the boot pre-image, a fault and a set that fails.
SPECIFICATION FairSpec
CONSTANTS
  t1 = t1
  t2 = t2
  Task = {t1, t2}
  NoTask = NoTask
  Calibrated = {t1}
  Power = {1, 2}
  Call = {c1, c2}
  Boot = Boot
  Reset = Reset
  Kinds = {"start", "oneshot", "tune", "stop", "panic", "reload"}
  Launches <- TwoLaunches
  Tunes <- SomeTunes
  MaxFaults = 1
  MaxSlips = 1
INVARIANTS CacheTrue LevelHeld SafeAtRest
PROPERTIES GateHonoured LevelRestored CallsReturn
CHECK_DEADLOCK FALSE
