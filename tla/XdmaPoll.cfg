SPECIFICATION Spec
CONSTANTS
  NumThreads = 2
  NumEngines = 3
  Writers = {2, 3}
  DescNums = {2}
  Faults = {"late_error", "timeout"}
  MaxWrites = 2
  MaxLoads = 1
INVARIANTS
  ThreadOnLiveEngine
  CompletedArrived
  WorkBalanced
PROPERTIES
  WritesReturn
CHECK_DEADLOCK FALSE
