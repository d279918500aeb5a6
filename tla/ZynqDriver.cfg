SPECIFICATION SpecProbe
CONSTANTS
  LoadWords = 2
  MsgWords = 3
  BufWords = 2
  MaxWrites = 2
  Signals = TRUE
  MaxProbes = 2
  Faults = {"mem", "drv_data", "chan", "chrdev", "cdev", "class", "node", "region", "unit"}
INVARIANTS
  TransferUndisturbed
  ReadIsDigest
  ReportedReachedCore
  HeldWhileUsed
PROPERTIES
  CallsReturn
CHECK_DEADLOCK FALSE
