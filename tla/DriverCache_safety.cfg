CONSTANTS
  p1 = p1
  p2 = p2
  u1 = u1
  u2 = u2
  u3 = u3
  Procs = {p1, p2}
  Urls = {u1, u2, u3}
  Tarballs = {u2}
  Libraries = {u1, u2}
SPECIFICATION FairSpec
INVARIANTS
  TypeOK
  QuietFilesAreWhole
  OkMeansAvailable
PROPERTY Converges
