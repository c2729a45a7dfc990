\* TLC stops at the first violation: keep one invariant to see another.
CONSTANTS
  c1 = c1
  c2 = c2
  Clients = {c1, c2}
  CallKinds = {"stream", "pointer", "command", "option"}
  Runtime = Runtime
  MaxRequests = 2
  MaxRestarts = 1
SPECIFICATION Spec
INVARIANTS
  OptionsAreSerialized
  PointerValidInCallback
  ReleasesAreSerialized
CHECK_DEADLOCK FALSE
