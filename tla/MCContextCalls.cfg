CONSTANTS
  c1 = c1
  c2 = c2
  g1 = g1
  g2 = g2
  None = None
  Goroutine = {g1, g2}
  Context = {c1, c2}
  LockOrder <- Ordered
  Escaping = {c2}
  MaxDepth = 3
  MaxWork = 2
SPECIFICATION FairSpec
PROPERTY CallsReturn
INVARIANTS TypeOK EngineExclusive NoOrphanLock NoWaitCycle OverlapOnlyByClosure
