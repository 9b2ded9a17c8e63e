CONSTANTS
  g1 = g1
  g2 = g2
  p1 = p1
  x1 = x1
  x2 = x2
  x3 = x3
  x4 = x4
  None = None
  Goroutine = {g1, g2}
  Path = {p1}
  Ctx = {x1, x2, x3, x4}
  MaxVersion = 3
SPECIFICATION FairSpec
INVARIANTS TypeOK StaleOnlyIfRaced CachedContextGood OneLoader
PROPERTY LoadsEnd
\* A load from inside a load blocks everybody, and overlapping first calls of
\* InitCache end the model.
CHECK_DEADLOCK FALSE
