\* Two handles on one volume, which may be renamed, with its snapshot.  Four
\* generations hold create, snapshot, a change and the restore.  A handle holds
\* one unflushed block.
CONSTANTS
  Slash = 47
  At = 64
  a = 97
  b = 98
  CreatePaths <- OnePath
  RenameTargets <- FlatPaths
  SnapshotNames = {97}
  Types = {"volume"}
  Handles = {h1, h2}
  Values = {Zero, x}
  Zero = Zero
  Size = 2
  None = None
  MaxIds = 2
  MaxGeneration = 4
  MaxDirty = 1
SYMMETRY HandleSymmetry
SPECIFICATION Spec
INVARIANT TailIsZero
PROPERTIES FlushAddsOnly ExportExclusive
