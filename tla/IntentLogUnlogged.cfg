\* No faults: a power loss may come at any time
CONSTANTS
  Names = {a}
  Inodes = {1, 2}
  None = None
  Batch = 2
  Depth = 2
  MaxGeneration = 4
  MaxEntries = 4
  MaxFaults = 0
SPECIFICATION Spec
INVARIANT RecoveryAccepts
CHECK_DEADLOCK FALSE
