SPECIFICATION Spec
CONSTANTS
  LoadWords = 2
  MsgWords = 4
  BufWords = 2
  MaxWrites = 1
  Signals = FALSE
PROPERTIES
  CallsComplete
CHECK_DEADLOCK FALSE
