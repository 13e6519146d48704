SPECIFICATION Spec
CONSTANTS
  FileCount = 2
  MaxTexts = 2
  MaxMoves = 2
  MaxEvents = 1
  StartDisks <- Disks
  Recoverable <- Snapshots
  Leader = "space"
  Esc = "escape"
  ControlKeys = {"ctrl", "f2"}
  Bindings <- MCBindings
INVARIANT AnswersItsQuestion
PROPERTY NothingLostUnasked
CHECK_DEADLOCK FALSE
