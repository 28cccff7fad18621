SPECIFICATION Spec
CONSTANTS
  a = a
  b = b
  c = c
  d = d
  Objects = {a, b, c, d}
  Fields = {f}
  Locals = {x, y}
  Null = Null
  Cset = {a}
  Fresh = {d}
  Loose = {b}
  State = c
  MaxStores = 2
SYMMETRY Symmetry
CONSTRAINT NobodyElseMoves
CHECK_DEADLOCK FALSE
INVARIANTS
  ProgramHoldsTheMoved
  NoStaleReferences
PROPERTY
  ImplementsHeap
