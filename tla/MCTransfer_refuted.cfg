\* TLC stops at the first violation: keep one invariant to see another.
CONSTANTS
  c1 = c1
  c2 = c2
  A = A
  B = B
  Clients = {c1, c2}
  Conns = {A, B}
  Nestings <- OneWay
  Prepared <- NoPairs
  MaxRequests = 3
SPECIFICATION Spec
INVARIANTS
  DriverSerializedAlways
  StreamsGoWithLock
  BindsOpenStreams
CHECK_DEADLOCK FALSE
