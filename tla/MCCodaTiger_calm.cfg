SPECIFICATION Spec
CONSTANTS
  t1 = t1  t2 = t2  c1 = c1  c2 = c2  u1 = u1  u2 = u2
  root = root  d1 = d1  d2 = d2  f1 = f1  f2 = f2  n1 = n1  n2 = n2
  Threads <- TwoThreads  Creds <- TwoCreds  Users <- TwoUsers
  Dirs <- ThreeDirs  Root = root  Files <- TwoFiles  Names <- TwoNames
  Dot = Dot  DotDot = DotDot  None = None
  Tree <- SmallTree  CacheSize = 2  MaxOps = 2
  Ops <- AllOps
SYMMETRY Alike
INVARIANTS NamesRight AttrRight GrantedRight NewIsNew OnePath OpensRight
CHECK_DEADLOCK FALSE
