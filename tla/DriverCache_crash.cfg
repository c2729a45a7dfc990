CONSTANTS
  p1 = p1
  p2 = p2
  u1 = u1
  Procs = {p1, p2}
  Urls = {u1}
  Tarballs = {}
  Libraries = {u1}
SPECIFICATION FairSpec
PROPERTY ConvergesAlways
