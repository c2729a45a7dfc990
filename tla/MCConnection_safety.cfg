CONSTANTS
  c1 = c1
  c2 = c2
  Clients = {c1, c2}
  CallKinds = {"stream", "pointer", "command", "option"}
  Runtime = Runtime
  MaxRequests = 3
  MaxRestarts = 1
SPECIFICATION Spec
SYMMETRY ClientSymmetry
INVARIANTS
  TypeOK
  NoStaleSignal
  StreamValidInCallback
  ExclusiveCallback
  OneOpenStream
  LockWillBeReleased
  NoLostRequest
  NoIdleQueue
PROPERTY ServesInOrder
CHECK_DEADLOCK FALSE
