CONSTANTS
  Function = {f1}
  UserData = {}
  Loop = {}
  Main = Main
  CallbackVm = {v1}
  LuaString = {}
  None = None
  MaxDepth = 1
  MaxItems = 1
SPECIFICATION FairSpec
PROPERTIES ClosedOnCollection
CHECK_DEADLOCK FALSE
