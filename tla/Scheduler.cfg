\* Two events on one task, two calls and a crash.
SPECIFICATION FairSpec
CONSTANTS
  e1 = e1
  e2 = e2
  t1 = t1
  t2 = t2
  Event = {e1, e2}
  Task = {t1}
  TaskOf <- OneTask
  Caller = {c1, c2}
  NoEvent = NoEvent
  Loop = Loop
  Windows <- Meeting
  Horizon = 3
  MaxCrashes = 1
INVARIANT TypeOK
PROPERTIES NeverRearmed EventEnds NoLateLaunch
\* The clock has stopped and every event is over.
CHECK_DEADLOCK FALSE
