CONSTANTS
  j1 = j1
  a1 = a1
  a2 = a2
  o1 = o1
  o2 = o2
  f1 = f1
  p1 = p1
  p2 = p2
  p3 = p3
  None = None
  Jc = {j1}
  Addr = {a1, a2}
  Obj = {o1, o2, f1}
  Func = {f1}
  Ptr = {p1, p2, p3}
  IdMod = 4
  KeepsAlive = FALSE
  EarlyReuse = FALSE
SYMMETRY Symmetry
SPECIFICATION Spec
INVARIANT CallOnLiveContext
\* Every JsContext has been freed in the end.
CHECK_DEADLOCK FALSE
