CONSTANTS
  h1 = h1
  h2 = h2
  h3 = h3
  h4 = h4
  h5 = h5
  p1 = p1
  p2 = p2
  p3 = p3
  p4 = p4
  p5 = p5
  p6 = p6
  Holder = {h1, h2, h3, h4, h5}
  Func = {h5}
  Ptr = {p1, p2, p3, p4, p5, p6}
  IdMod = 6
  NoHandle = NoHandle
SYMMETRY Symmetry
SPECIFICATION Spec
INVARIANTS TypeOK HandleResolves CompactIds RegisterEnds
PROPERTY ImplementsRegistry

