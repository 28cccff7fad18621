CONSTANTS
  Kinds = {"tree", "dispatch", "object", "tables", "types", "mono", "equality",
    "order", "project", "names", "file", "source", "files",
    "coerce", "constraints", "errors", "body", "nested"}
  Rough = FALSE
SPECIFICATION Spec
PROPERTY
  TreesAreSound
  TheMostSpecificRuns
  ObjectsAreTraceable
  TypesAreSolved
  CopiesFitTheirUses
  StructsCompareByValue
  FunctionsAreOrdered
  ProjectsAreRead
  NamesMeanOneThing
  TextsAreRead
  ValuesFit
  WhatHoldsIsAccepted
  BodiesRunAsWritten
  FunctionsSeeWhatWasThere
CHECK_DEADLOCK FALSE
