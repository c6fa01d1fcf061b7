SPECIFICATION Spec
CONSTANTS
  Openings <- MCOpenings
  Pieces <- MCPieces
  Second = 2
INVARIANTS
  EditTypeOK
  ReferencesHold
  NothingElseLost
  CountsRight
  AttachmentsMatch
  FixedExactly
PROPERTIES
  KeptIsWhole
  OneCopyStays
  MentionsInPlace
  MergeByIdDone
  AutofixEnds
CHECK_DEADLOCK FALSE
