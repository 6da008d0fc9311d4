CONSTANTS
  g1 = g1
  g2 = g2
  h1 = h1
  h2 = h2
  h3 = h3
  v1 = v1
  Goroutine = {g1, g2}
  Finalizer = Finalizer
  NoActor = NoActor
  Handle = {h1, h2, v1}
  ErrorHandle = {h2}
  Kinds = {"call", "bare", "close"}
  Passes <- Ordered
  FunctionVm = {v1}
  Shared = {}
  Returns = {}
  NestedCalls = FALSE
  MaxDepth = 2
  MaxArgs = 1
SPECIFICATION FairSpec
INVARIANTS TypeOK LockedCallsNeverStale NoDeadlock
PROPERTIES EveryCallReturns FunctionVmCloses DroppedIsFreed
CHECK_DEADLOCK FALSE
