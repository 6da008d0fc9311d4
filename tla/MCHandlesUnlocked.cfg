CONSTANTS
  g1 = g1
  g2 = g2
  h1 = h1
  h2 = h2
  h3 = h3
  v1 = v1
  Goroutine = {g1, g2}
  Finalizer = Finalizer
  NoActor = NoActor
  Handle = {h1, h2, h3}
  ErrorHandle = {h3}
  Kinds = {"peer", "bare", "close"}
  Passes <- Ordered
  FunctionVm = {}
  Shared = {}
  Returns = {}
  NestedCalls = FALSE
  MaxDepth = 1
  MaxArgs = 1
SPECIFICATION Spec
INVARIANTS NoStalePointer
SYMMETRY Symmetry
CHECK_DEADLOCK FALSE
