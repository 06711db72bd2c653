\* A cancel that comes while the loop launches the event before.
SPECIFICATION Spec
CONSTANTS
  e1 = e1
  e2 = e2
  t1 = t1
  t2 = t2
  Event = {e1, e2}
  Task = {t1, t2}
  TaskOf <- OwnTask
  Caller = {c1}
  NoEvent = NoEvent
  Loop = Loop
  Windows <- Meeting
  Horizon = 2
  MaxCrashes = 0
PROPERTY CancelledNeverFires
CHECK_DEADLOCK FALSE
