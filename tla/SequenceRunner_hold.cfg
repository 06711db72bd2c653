SPECIFICATION FairSpec
CONSTANTS
  r1 = r1
  r2 = r2
  t1 = t1
  Run = {r1, r2}
  Task = {t1}
  NoRun = NoRun
  NoTask = NoTask
  Caller = {}
  Loop = Loop
  Plan <- Held
  N = 4
  Never = 99
  MaxHold = 1
  Unattended = {r1, r2}
  Budget = 1
  Margin = 1
  Horizon = 6
  SlowAlarm = FALSE
  Patience = 1
  Modes = {}
  Ends = {4}
  MaxPatches = 1
  MaxFaults = 1
  MaxCrashes = 0
INVARIANTS ChannelFree
PROPERTIES RunEnds DeadmanTrips FaultAttended
CHECK_DEADLOCK FALSE
