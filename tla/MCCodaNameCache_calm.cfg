SPECIFICATION Spec
CONSTANTS
  c1 = c1
  c2 = c2
  n1 = n1
  n2 = n2
  u1 = u1
  u2 = u2
  Cnodes = {c1, c2}
  NoCnode = NoCnode
  Names = {n1, n2}
  LongNames = {long}
  Creds = {u1, u2}
  FidOf <- McFidOf
  UidOf <- McUidOf
  HashOf <- McHashOf
  StartSize <- McStart
  Sizes <- McSizes
  Garbage = {0}
  MaxLost = 2
INVARIANTS ListsRight RefsBalance
PROPERTIES ImplementsLru
