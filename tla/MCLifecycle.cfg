CONSTANTS
  j1 = j1
  j2 = j2
  j3 = j3
  a1 = a1
  a2 = a2
  o1 = o1
  o2 = o2
  f1 = f1
  p1 = p1
  p2 = p2
  p3 = p3
  None = None
  Jc = {j1, j2, j3}
  Addr = {a1, a2}
  Obj = {o1, o2, f1}
  Func = {f1}
  Ptr = {p1, p2, p3}
  IdMod = 4
  KeepsAlive = TRUE
  EarlyReuse = FALSE
SYMMETRY Symmetry
SPECIFICATION Spec
INVARIANTS ValuesReleased ProxyResolves
\* Every JsContext has been freed in the end.
CHECK_DEADLOCK FALSE
