SPECIFICATION Spec
CONSTANTS
  Messages <- MCMessages
INVARIANTS
  TagsNest
CHECK_DEADLOCK FALSE
