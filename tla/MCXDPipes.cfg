SPECIFICATION Spec
CONSTANTS
  Commands <- MCCommands
  Blocks = 2
  Stream = {0, 1, 2}
  Capacity = 1
  MaxWrites = 2
INVARIANTS DoneIsWhole
PROPERTIES AllEnd
CHECK_DEADLOCK FALSE
