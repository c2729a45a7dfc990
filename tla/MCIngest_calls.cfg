CONSTANTS
  c1 = c1
  c2 = c2
  Clients = {c1, c2}
  Server = Server
  MaxCalls = 3
  MaxRestarts = 1
SPECIFICATION Spec
SYMMETRY ClientSymmetry
INVARIANTS
  TypeOK
  ResultKeepsTable
  ReadTablesExist
  FreshNames
  NoLeak
CHECK_DEADLOCK FALSE
