CONSTANTS
  c1 = c1
  c2 = c2
  A = A
  B = B
  Clients = {c1, c2}
  Conns = {A, B}
  Nestings <- BothWays
  Prepared <- NoPairs
  MaxRequests = 4
SPECIFICATION Spec
INVARIANT NoDeadlock
CHECK_DEADLOCK FALSE
