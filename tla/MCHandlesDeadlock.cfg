CONSTANTS
  g1 = g1
  g2 = g2
  h1 = h1
  h2 = h2
  h3 = h3
  v1 = v1
  Goroutine = {g1, g2}
  Finalizer = Finalizer
  NoActor = NoActor
  Handle = {h1, h2, v1}
  ErrorHandle = {}
  Kinds = {"method", "callback", "call", "close"}
  Passes <- Itself
  FunctionVm = {v1}
  Shared = {v1}
  Returns = {h2}
  NestedCalls = TRUE
  MaxDepth = 2
  MaxArgs = 1
SPECIFICATION Spec
INVARIANTS OnlyDocumentedDeadlock
SYMMETRY Symmetry
CHECK_DEADLOCK FALSE
