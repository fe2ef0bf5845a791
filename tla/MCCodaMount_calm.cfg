SPECIFICATION Spec
CONSTANTS
  d1 = d1
  d2 = d2
  m1 = m1
  m2 = m2
  m3 = m3
  Devs = {d1}
  Mounts = {m1, m2, m3}
  None = None
  Env = {"nomem", "load"}
SYMMETRY Symmetry
INVARIANTS InstancesRight NobodyInside NoPanic ClosedUnmounts
