SPECIFICATION Spec
CONSTANTS
  Threads = {t1, t2, t3}
  Containers = {c1, c2}
  Null = Null
  Kinds = {"reg", "dir"}
  MaxVersion = 2
  MaxOpens = 3
  MaxFailed = 1
  MaxGrabs = 1
  Env = {"failing", "interrupt", "replaced", "unmount"}
SYMMETRY Symmetry
INVARIANTS
  RefsRight
  CountsRight
  UsedIsHeld
  ReadsRight
  AttrRight
