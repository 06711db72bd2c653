SPECIFICATION Spec
CONSTANTS
  r1 = r1
  r2 = r2
  t1 = t1
  Run = {r1, r2}
  Task = {t1}
  NoRun = NoRun
  NoTask = NoTask
  Caller = {c1}
  Loop = Loop
  Plan <- Two
  N = 4
  Never = 99
  MaxHold = 0
  Unattended = {r1, r2}
  Budget = 1
  Margin = 1
  Horizon = 6
  SlowAlarm = FALSE
  Patience = 1
  Modes = {"resync"}
  Ends = {}
  MaxPatches = 0
  MaxFaults = 1
  MaxCrashes = 1
INVARIANTS TypeOK Silent WillStop NoForeignTune
CHECK_DEADLOCK FALSE
