SPECIFICATION SessionSpec
CONSTANTS
  IvSpace = 40
  FirstCounter = 36
  Files <- MCFiles
  Ids = {1, 2, 3}
  NameAvatars = {}
  PartRows = {1, 2}
  StickerRows = {3}
  Commands <- MCCommands
INVARIANTS
  SessionTypeOK
  OutputWellFormed
  DumpKeepsVerified
  WrongKeyWritesNothing
  RoundTrip
  OutputReadable
PROPERTIES
  ImplementsCopy
  SessionEnds
CHECK_DEADLOCK FALSE
