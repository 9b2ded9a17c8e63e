CONSTANTS
  c1 = c1
  c2 = c2
  g1 = g1
  None = None
  Goroutine = {g1}
  Context = {c1}
  LockOrder <- Reentrant
  Escaping = {}
  MaxDepth = 2
  MaxWork = 2
SPECIFICATION FairSpec
PROPERTY BoundCallReturns
\* The only goroutine may end up waiting for itself: the run is about that.
CHECK_DEADLOCK FALSE
