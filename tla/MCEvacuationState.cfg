SPECIFICATION Spec
CONSTANTS
  a = a
  b = b
  c = c
  d = d
  Objects = {a, c, d}
  Fields = {f}
  Locals = {x, y}
  Null = Null
  Cset = {a, c}
  Fresh = {d}
  Loose = {}
  State = c
  MaxStores = 2
SYMMETRY Symmetry
CHECK_DEADLOCK FALSE
INVARIANT MethodsGetTheState
