SPECIFICATION Spec
CONSTANTS
  Inputs <- MCInputs
  force = FALSE
INVARIANTS
  TypeOK
  IdsApart
  LinksKept
  AvatarsDistinct
  InDateOrder
PROPERTIES
  ImplementsImport
  ImportEnds
CHECK_DEADLOCK FALSE
