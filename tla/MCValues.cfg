CONSTANTS
  s = s
  empty = empty
  f = f
  t = t
  int = int
  num = num
  nothing = nothing
  e = e
  utf8 = utf8
  null = null
  p = p
  q = q
  b1 = b1
  b2 = b2
  b3 = b3
  b4 = b4
  b5 = b5
  NoBox = NoBox
  NoDatum = NoDatum
  NoList = NoList
  KindOf <- KindOfDatum
  EmptyString <- Empties
  Pointee <- PointsAt
  Lossy <- ToUtf8
  AsLua <- ToLua
  Hollow = {nothing}
  Box = {b1, b2, b3, b4}
  Datum = {s, f, e, utf8, null, int, num}
  Op = {"one", "many", "chunk", "each"}
  Callee = {"lua", "go"}
  MaxArgs = 2
SPECIFICATION Spec
INVARIANTS TypeOK NothingLost OwnedOnce EchoFaithful MultiReleased
SYMMETRY Symmetry
CHECK_DEADLOCK FALSE
