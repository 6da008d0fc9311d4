CONSTANTS
  g1 = g1
  g2 = g2
  h1 = h1
  h2 = h2
  h3 = h3
  v1 = v1
  Goroutine = {g1, g2}
  Finalizer = Finalizer
  NoActor = NoActor
  Handle = {h1, v1}
  ErrorHandle = {}
  Kinds = {"method", "callback", "call", "env", "meta"}
  Passes <- AnyToAny
  FunctionVm = {v1}
  Shared = {}
  Returns = {h1}
  NestedCalls = TRUE
  MaxDepth = 3
  MaxArgs = 1
SPECIFICATION Spec
INVARIANTS NoLockLeak FinalizerNeverWaitsForReaders NoDeadlock
PROPERTIES ImplementsManagedHandle
SYMMETRY Symmetry
CHECK_DEADLOCK FALSE
