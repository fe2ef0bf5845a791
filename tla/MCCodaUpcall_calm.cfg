CONSTANTS
  Devs = {d1}
  Callers = {c1, c2, c3}
  Results = {r1, r2}
  d1 = d1
  c1 = c1
  c2 = c2
  c3 = c3
  r1 = r1
  r2 = r2
  MaxCalls = 3
  Env = {}
SPECIFICATION Spec
INVARIANT NoLostCaller
INVARIANT RequestsInOrder
PROPERTY CloseFinishes
PROPERTY CallersGetOut
PROPERTY ImplementsRpc
