SPECIFICATION Spec
CONSTANTS
  Inputs <- SmallTargetInputs
  force = FALSE
INVARIANT
  LinksKept
CHECK_DEADLOCK FALSE
