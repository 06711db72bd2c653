\* Five sequences in two windows, a fault, two restarts, one tune by hand.
SPECIFICATION Spec
CONSTANTS
  Sequence <- SomeSequences
  Window <- SomeWindows
  Base <- Command
  Gate = "rf"
  Level = {"power"}
  Resets = {"restart"}
  HandTune <- SomeHandTunes
  Recovery <- SomeRecoveries
  Readable = {TRUE, FALSE}
  Bind = 4
  Wait = 1
  Tolerance = 1
  Outage = 4
  Horizon = 28
  Unit = 4
  MaxFaults = 2
  MaxHands = 1
INVARIANTS LevelsOfPeer ClockOfPeer RampsTile
CHECK_DEADLOCK FALSE
