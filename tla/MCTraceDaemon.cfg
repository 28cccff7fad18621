SPECIFICATION Spec
CONSTANTS
  Blocks = {b1}
  StatePinned = FALSE
INVARIANT
  NeverHalfMoved
