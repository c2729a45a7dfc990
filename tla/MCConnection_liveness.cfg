CONSTANTS
  c1 = c1
  c2 = c2
  Clients = {c1, c2}
  CallKinds = {"stream", "command", "option"}
  Runtime = Runtime
  MaxRequests = 3
  MaxRestarts = 0
SPECIFICATION FairSpec
PROPERTY EveryCallReturns
CHECK_DEADLOCK FALSE
