CONSTANTS
  Kinds = {"mono"}
  Rough = TRUE
SPECIFICATION Spec
PROPERTY CopiesFitTheirUses
CHECK_DEADLOCK FALSE
