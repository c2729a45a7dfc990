CONSTANTS
  p1 = p1
  p2 = p2
  Processes = {p1, p2}
  d1 = d1
  Databases = {d1}
  c1 = c1
  c2 = c2
  Connections = {c1, c2}
  s1 = s1
  s2 = s2
  Statements = {s1, s2}
  t1 = t1
  Streams = {t1}
  None = None
SPECIFICATION Spec
SYMMETRY BoxSymmetry
INVARIANTS
  ParentsOutlive
  HeldStreamsAreUsable
  BoundStreamsAreLive
CHECK_DEADLOCK FALSE
