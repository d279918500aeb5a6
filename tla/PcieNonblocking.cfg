SPECIFICATION Spec
CONSTANTS
  DescMax = 5
  Width = 8
  Reqs = {"r1", "r2", "r3"}
  Faults = {}
  Procs = {"p1"}
  Nonblock = TRUE
  Signals = FALSE
  WritePages = {1, 2}
  MaxPages = 5
INVARIANTS
  ListIsLive
  RingIntact
  CountFits
  ReadyMeansDelivered
PROPERTIES
  CallsReturn
