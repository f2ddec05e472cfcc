\* One directory entry name, two inodes, three mutations, a crash and a fault
CONSTANTS
  Names = {a}
  Inodes = {1, 2}
  None = None
  Batch = 2
  Depth = 2
  MaxGeneration = 4
  MaxEntries = 4
  MaxFaults = 2
SPECIFICATION Spec
INVARIANTS TypeOK AckedRebuilt
PROPERTIES NotBehindRoot FencedUntilReopen
CHECK_DEADLOCK FALSE
