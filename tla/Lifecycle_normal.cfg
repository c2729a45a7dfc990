CONSTANTS
  i1 = i1
  i2 = i2
  Conns = {i1, i2}
  Reasons = {"normal", "shutdown", "killed"}
  MaxStarts = 2
SPECIFICATION Spec
INVARIANT ServingHasDatabaseAlways
CHECK_DEADLOCK FALSE
