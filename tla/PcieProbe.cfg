SPECIFICATION ProbeSpec
CONSTANTS
  Channels = 2
  UserMax = 1
  MaxProbes = 2
  ProbeFaults = {"xpdev", "xdev", "threads", "enable", "regions", "map", "config", "mask", "engine", "vectors", "shared_irq", "chrdev", "node"}
INVARIANTS
  ResourcesBalanced
  HandlerHasDevice
  NodeHasDevice
PROPERTIES
  TransfersEnd
CHECK_DEADLOCK FALSE
