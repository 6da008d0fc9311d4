CONSTANTS
  Function = {f1}
  UserData = {u1}
  Loop = {}
  Main = Main
  CallbackVm = {v1}
  LuaString = {s1}
  None = None
  MaxDepth = 1
  MaxItems = 1
SPECIFICATION Spec
INVARIANTS ReadersSafe
CHECK_DEADLOCK FALSE
