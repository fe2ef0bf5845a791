SPECIFICATION Spec
CONSTANTS
  Threads = {t1, t2}
  Containers = {c1}
  Null = Null
  Kinds = {"dir"}
  MaxVersion = 1
  MaxOpens = 3
  MaxFailed = 0
  MaxGrabs = 1
  Env = {}
SYMMETRY Symmetry
INVARIANT ClosedIsReleased
