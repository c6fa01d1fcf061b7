SPECIFICATION Spec
CONSTANTS
  Base = 2
  Backups <- MCBackups
  OldBackups <- MCOldBackups
  Commands <- MCCommands
INVARIANTS
  NotOpenedHalfway
  UnpackedIsWhole
  ReplacedAlike
PROPERTIES
  ImplementsOffer
CHECK_DEADLOCK FALSE
