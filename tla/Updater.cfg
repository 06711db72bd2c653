\* Good and bad updates, re-installations and rollbacks, four at most and one at a
\* time, with a power loss at any step.
SPECIFICATION FairSpec
CONSTANTS
  b1 = b1
  b2 = b2
  b3 = b3
  v1 = v1
  v2 = v2
  v3 = v3
  Build = {b1, b2, b3}
  Version = {v1, v2, v3}
  VersionOf <- OwnVersion
  Bad = {b3}
  Pushed = {b1, b2, b3}
  First = b1
  None = None
  Partial = Partial
  Request = {r1, r2, r3, r4}
  Kinds = {"update", "rollback"}
  Careful = TRUE
  MaxCrashes = 1
INVARIANTS TypeOK OkIsEarned LiveKept OnTrial
PROPERTY NotStranded
\* All requests are made and answered.
CHECK_DEADLOCK FALSE
