\* A one-shot waits at the gate, or for its set, while a PANIC comes.
SPECIFICATION Spec
CONSTANTS
  t1 = t1
  t2 = t2
  Task = {t1, t2}
  NoTask = NoTask
  Calibrated = {t1}
  Power = {1, 2}
  Call = {c1, c2}
  Boot = Boot
  Reset = Reset
  Kinds = {"oneshot", "panic"}
  Launches <- TwoLaunches
  Tunes <- SomeTunes
  MaxFaults = 0
  MaxSlips = 1
PROPERTIES PanicHolds
CHECK_DEADLOCK FALSE
