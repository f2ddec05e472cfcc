\* The namespace: nested paths and one with an "@", no open handles.
\* A Pool whose namespace open refuses may stop.
CONSTANTS
  Slash = 47
  At = 64
  a = 97
  b = 98
  CreatePaths <- MarkedPaths
  RenameTargets <- MarkedPaths
  SnapshotNames = {97}
  Types = {"filesystem", "volume"}
  Handles = {}
  Values = {Zero}
  Zero = Zero
  Size = 1
  None = None
  MaxIds = 4
  MaxGeneration = 3
  MaxDirty = 1
SPECIFICATION Spec
INVARIANTS TypeOK ReopenAccepts DerivedIdsUnique
PROPERTY SnapshotsFrozen
CHECK_DEADLOCK FALSE
