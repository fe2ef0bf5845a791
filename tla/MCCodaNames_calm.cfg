SPECIFICATION Spec
CONSTANTS
  r = r
  a = a
  b = b
  e = e
  f = f
  g = g
  n1 = n1
  n2 = n2
  Threads = {t1, t2}
  Dirs = {r, a, b, e}
  Root = r
  Files = {f, g}
  Ctl = Ctl
  Names = {n1, n2}
  CtlName = CtlName
  Dot = Dot
  DotDot = DotDot
  None = None
  Tree <- McTree
  CacheSize = 2
  MaxOps = 2
  Ops = {"walk", "up", "mkdirup", "create", "mkdir", "symlink", "link", "remove", "rmdir", "from"}
  Env = {}
SYMMETRY Symmetry
CHECK_DEADLOCK FALSE
INVARIANTS Coherent AttrRight AssureRight NewIsNew
