CONSTANTS
  c1 = c1
  c2 = c2
  A = A
  B = B
  Clients = {c1, c2}
  Conns = {A, B}
  Nestings <- OneWay
  Prepared <- NoPairs
  MaxRequests = 4
SPECIFICATION FairSpec
INVARIANTS
  TypeOK
  TransferKeepsSource
  DriverSerialized
  NoDeadlock
PROPERTIES
  ServesInOrder
  EveryCallReturns
CHECK_DEADLOCK FALSE
