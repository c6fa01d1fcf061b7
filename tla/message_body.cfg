SPECIFICATION Spec
CONSTANTS
  Messages <- MCMessages
INVARIANTS
  Renders
PROPERTIES
  PrepEnds
CHECK_DEADLOCK FALSE
