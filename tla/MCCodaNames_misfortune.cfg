SPECIFICATION Spec
CONSTANTS
  r = r
  a = a
  b = b
  e = e
  f = f
  g = g
  n1 = n1
  n2 = n2
  Threads = {t1, t2}
  Dirs = {r, a, b}
  Root = r
  Files = {f, g}
  Ctl = Ctl
  Names = {n1, n2}
  CtlName = CtlName
  Dot = Dot
  DotDot = DotDot
  None = None
  Tree <- McTree
  CacheSize = 1
  MaxOps = 2
  Ops = {"mkdirup", "create", "remove", "rmdir", "from"}
  Env = {"late", "across", "overlap", "failing", "interrupted"}
SYMMETRY Symmetry
CHECK_DEADLOCK FALSE
INVARIANTS GivenBack NoWaitCycle
