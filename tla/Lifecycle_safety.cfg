CONSTANTS
  i1 = i1
  i2 = i2
  Conns = {i1, i2}
  Reasons = {"normal", "shutdown", "killed"}
  MaxStarts = 3
SPECIFICATION FairSpec
INVARIANT ServingHasDatabase
PROPERTY StartsReturn
CHECK_DEADLOCK FALSE
