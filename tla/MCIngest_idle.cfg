CONSTANTS
  c1 = c1
  c2 = c2
  Clients = {c1, c2}
  Server = Server
  MaxCalls = 2
  MaxRestarts = 1
SPECIFICATION FairSpec
PROPERTY UnusedTablesGoAway
CHECK_DEADLOCK FALSE
