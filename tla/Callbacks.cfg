CONSTANTS
  Function = {f1, f2}
  UserData = {u1}
  Loop = {l1}
  Main = Main
  CallbackVm = {v1}
  LuaString = {s1}
  None = None
  MaxDepth = 2
  MaxItems = 2
SPECIFICATION FairSpec
INVARIANTS TypeOK TrampolinesSafe CallbackDataFreed LoopStopsAtFirstFailure NothingOutlivesState
PROPERTIES ReleasedInTheEnd
CHECK_DEADLOCK FALSE
