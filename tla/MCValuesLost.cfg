CONSTANTS
  s = s
  empty = empty
  f = f
  t = t
  int = int
  num = num
  nothing = nothing
  e = e
  utf8 = utf8
  null = null
  p = p
  q = q
  b1 = b1
  b2 = b2
  b3 = b3
  b4 = b4
  b5 = b5
  NoBox = NoBox
  NoDatum = NoDatum
  NoList = NoList
  KindOf <- KindOfDatum
  EmptyString <- Empties
  Pointee <- PointsAt
  Lossy <- ToUtf8
  AsLua <- ToLua
  Hollow = {nothing}
  Box = {b1, b2, b3, b4}
  Datum = {s, empty}
  Op = {"two", "chunk", "many"}
  Callee = {"go"}
  MaxArgs = 1
SPECIFICATION Spec
INVARIANTS NothingLeftBehind
SYMMETRY Symmetry
CHECK_DEADLOCK FALSE
