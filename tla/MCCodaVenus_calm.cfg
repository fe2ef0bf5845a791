CONSTANTS
  c1 = c1  c2 = c2
  Callers = {c1, c2}  None = None
  Word = 4  Align = 8  Vattr = 88  Quad = 8
  InputArgs = 144  OutputArgs = 120  SizeT = 1073741824
  Names = {1, 255}  Paths = {1024}
  DataSizes <- McDataSizes  OutSizes <- McOutSizes
  MaxPath = 1024  MaxData = 4096
  MaxQueue = 3
  Env = {"nomem", "toomuch"}
SPECIFICATION Spec
SYMMETRY Same
INVARIANTS BuffersFit ReadsReply Released VenusWoken
