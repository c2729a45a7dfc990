CONSTANTS
  p1 = p1
  p2 = p2
  u1 = u1
  u2 = u2
  Procs = {p1, p2}
  Urls = {u1, u2}
  Tarballs = {}
  Libraries = {u1}
SPECIFICATION FairSpec
PROPERTY ConvergesAlways
