SPECIFICATION Spec
CONSTANTS
  Openings <- MCOpenings
  Pieces <- MCPieces
  Second = 2
INVARIANT NoNewViolations
CHECK_DEADLOCK FALSE
