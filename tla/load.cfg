SPECIFICATION Spec
CONSTANTS
  IvSpace = 40
  FirstCounter = 36
  Files <- MCFiles
  Ids = {1, 2}
  NameAvatars = {2}
  MisfitSizes = TRUE
  Commands <- MCCommands
INVARIANTS
  TypeOK
  DeliversPrefix
  DeliversInOrder
  ReadsOwnData
  EndMeansComplete
  DeliversUntouched
  Recovers
PROPERTIES
  Terminates
CHECK_DEADLOCK FALSE
