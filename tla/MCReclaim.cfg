SPECIFICATION Spec
CONSTANTS
  b = b
  Objects = {o1, o2}
  Fields = {f}
  Locals = {x, y}
  Null = Null
  Blocks = {b}
  BlockOf <- OneBlock
  RcMax = 2
SYMMETRY Symmetry
INVARIANTS
  ListsAreSafe
  CountsCover
  TraceReclaims
PROPERTY
  KeepsPromise
