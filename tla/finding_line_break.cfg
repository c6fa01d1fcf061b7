SPECIFICATION Spec
CONSTANTS
  Base = 2
  Backups <- TwoLines
  OldBackups <- MCOldBackups
  Commands <- MCCommands
INVARIANTS
  UnpackedIsWhole
CHECK_DEADLOCK FALSE
