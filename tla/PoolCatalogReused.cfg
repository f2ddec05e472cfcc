\* A name given again after a rename
CONSTANTS
  Slash = 47
  At = 64
  a = 97
  b = 98
  CreatePaths <- OnePath
  RenameTargets <- FlatPaths
  SnapshotNames = {97}
  Types = {"filesystem", "volume"}
  Handles = {}
  Values = {Zero}
  Zero = Zero
  Size = 1
  None = None
  MaxIds = 2
  MaxGeneration = 3
  MaxDirty = 1
SPECIFICATION Spec
INVARIANT IdentityUnique
