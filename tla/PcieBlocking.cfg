SPECIFICATION SpecTimeout
CONSTANTS
  DescMax = 3
  Width = 8
  Reqs = {"r1", "r2"}
  Faults = {"error", "offline"}
  Procs = {"p1", "p2"}
  Nonblock = FALSE
  Signals = TRUE
  WritePages = {1, 2}
  MaxPages = 3
INVARIANTS
  ListIsLive
  AckedDelivered
PROPERTIES
  CallsReturn
