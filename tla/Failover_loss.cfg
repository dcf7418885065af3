\* Two tasks store at once while the primary fails and is repaired.
SPECIFICATION FailoverSpec
CONSTANTS
  Keys = {k1, k2}
  Users = {u1, u2}
  MaxStores = 3
  Threshold = 2
INVARIANTS
  FailoverNotLost
CHECK_DEADLOCK FALSE
