SPECIFICATION Spec
CONSTANTS
  d1 = d1
  d2 = d2
  d3 = d3
  d4 = d4
  f1 = f1
  f2 = f2
  f3 = f3
  u1 = u1
  u2 = u2
  Cnodes = {d1, d2, d3, d4}
  Nil = Nil
  Files = {f1, f2}
  RootFid = RootFid
  CtlFid = CtlFid
  HashOf <- McHashOf
  Users = {u1, u2}
  Mounter = Mounter
  Sleeps = {}
  MaxMounts = 2
  Env = {}
INVARIANTS ListsRight UseRight
PROPERTIES ImplementsFiles
