CONSTANTS
  c1 = c1
  c2 = c2
  A = A
  B = B
  Clients = {c1, c2}
  Conns = {A, B}
  Nestings <- OneWay
  Prepared <- Mixed
  MaxRequests = 3
SPECIFICATION Spec
INVARIANT DriverSerialized
CHECK_DEADLOCK FALSE
