\* A resync, then a replay.
SPECIFICATION Spec
CONSTANTS
  Sequence <- SomeSequences
  Window <- SomeWindows
  Base <- Command
  Gate = "rf"
  Level = {"power"}
  Resets = {"restart"}
  HandTune <- SomeHandTunes
  Recovery <- ResyncThenReplay
  Readable = {TRUE}
  Bind = 4
  Wait = 1
  Tolerance = 1
  Outage = 4
  Horizon = 28
  Unit = 4
  MaxFaults = 2
  MaxHands = 0
INVARIANT MissedStayMissed
CHECK_DEADLOCK FALSE
