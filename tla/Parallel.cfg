SPECIFICATION FairSpec
CONSTANTS
  WorkerCounts = {1, 2}
  Lengths = {0, 3}
  Widths = {1, 2}
  Halos = {0, 1}
  MaxFaults = 2
  MaxPools = 2
  MaxCalls = 2
  MaxCancels = 1
INVARIANTS
  KernelsAreSafe
  CallsAreFunctions
PROPERTIES
  CallsReturn
CHECK_DEADLOCK FALSE
