SPECIFICATION Spec
CONSTANTS
  Openings <- NumberOpenings
  Pieces <- MCPieces
  Second = 2
PROPERTY MergeDone
CHECK_DEADLOCK FALSE
