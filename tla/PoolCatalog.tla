---------------------------- MODULE PoolCatalog ----------------------------
(***************************************************************************)
(* The namespace of a PoolRuntime: the dataset catalog, the typed root of  *)
(* every dataset, and the volume handles and export pins of the process.   *)
(* Every operation is one canonical publication (PoolPublication models    *)
(* how it reaches storage and how the objects it releases are reclaimed);  *)
(* one that fails validation changes nothing.                              *)
(*                                                                         *)
(* A path is the sequence of its bytes.  An immutable object is            *)
(* the value its digest names, so a typed root reference is a record of    *)
(* what it refers to, and a BLAKE3 summary is the sequence it hashes.  The *)
(* content of a volume is a function from blocks; a filesystem's root is   *)
(* opaque.  Properties, flags other than CLONE, lifecycle states and       *)
(* capacity accounting are left out.                                       *)
(***************************************************************************)
EXTENDS Integers, FiniteSets, SequencesExt

CONSTANTS Slash, At,       \* the separators of a path
          CreatePaths,     \* paths given to create, and clone targets
          RenameTargets,   \* new paths given to rename
          SnapshotNames,   \* what follows the '@'
          Types,           \* dataset types given to create
          Handles,         \* PoolVolume values of the process
          Values, Zero,    \* block contents
          Size,            \* blocks of the largest volume
          None,
          MaxIds,          \* bound on datasets, snapshots and clones
          MaxGeneration,   \* bound on volume generations
          MaxDirty         \* bound on the unflushed blocks of a handle

ASSUME CatalogAssumption ==
  /\ {Slash, At} \cup SnapshotNames \subseteq Nat
  /\ Slash # At
  /\ \A p \in CreatePaths \cup RenameTargets : p \in Seq(Nat) /\ p # <<>>
  /\ Types \subseteq {"filesystem", "volume"}
  /\ Zero \in Values
  /\ Size \in Nat \ {0}
  /\ MaxIds \in Nat
  /\ {MaxGeneration, MaxDirty} \subseteq Nat \ {0}

Blocks == 1..Size
Empty == [b \in Blocks |-> Zero]

VARIABLES
  catalog,   \* path -> CatalogEntry
  roots,     \* dataset id -> DatasetRootRef: dataset_roots
  handles,   \* open PoolVolume values
  created    \* number of datasets, snapshots and clones made so far

vars == <<catalog, roots, handles, created>>

Paths == DOMAIN catalog

\* A handle: the root it was opened at, its dirty_chunks, its export pin
Closed == [id |-> None, root |-> None, dirty |-> <<>>, pin |-> "none"]

Init ==
  /\ catalog = <<>>
  /\ roots = <<>>
  /\ handles = [h \in Handles |-> Closed]
  /\ created = 0

----------------------------------------------------------------------------
(* Paths *)

ParentPath(p) ==
  SubSeq(p, 1, SelectLastInSeq(p, LAMBDA w : w = Slash) - 1)

\* snapshot_base_path, or the empty path
SnapshotBase(p) ==
  SubSeq(p, 1, SelectLastInSeq(p, LAMBDA w : w = At) - 1)

\* snapshot_source_path admits one '@' only
IsSnapshotPath(p) ==
  /\ SnapshotBase(p) # <<>>
  /\ At \notin Range(SnapshotBase(p))

Below(ancestor, p) == IsPrefix(Append(ancestor, Slash), p)

ReplacePrefix(p, old, new) == new \o SubSeq(p, Len(old) + 1, Len(p))

----------------------------------------------------------------------------
(* DatasetCatalog *)

With(f, x, y) == [z \in DOMAIN f \cup {x} |-> IF z = x THEN y ELSE f[z]]
Without(f, x) == [z \in DOMAIN f \ {x} |-> f[z]]

\* The order of the keys of the tree: that of their bytes
Precedes(p, q) ==
  \/ IsStrictPrefix(p, q)
  \/ \E i \in DOMAIN p \cap DOMAIN q :
       SubSeq(p, 1, i - 1) = SubSeq(q, 1, i - 1) /\ p[i] < q[i]

\* get_by_id takes the first of the entries that have the id.
Named(c, id) == {p \in DOMAIN c : c[p].id = id}
PathOf(c, id) ==
  CHOOSE p \in Named(c, id) : \A q \in Named(c, id) \ {p} : Precedes(p, q)
TypeOf(c, id) == c[PathOf(c, id)].type

\* The paths from an entry along lineage_parent_id: every entry once if the
\* lineage is acyclic.
Walk(c, p) ==
  LET walk[k \in 0..Cardinality(DOMAIN c)] ==
        IF k = 0 THEN <<p>>
        ELSE LET w == walk[k - 1]
                 up == c[Last(w)].lineage
             IN IF Len(w) < k \/ Named(c, up) = {}
                  THEN w ELSE Append(w, PathOf(c, up))
  IN walk[Cardinality(DOMAIN c)]

\* lineage_parent_matches_dataset_authority
ParentAllowed(c, child, parent) ==
  c[child].type = "snapshot" =>
    /\ SnapshotBase(child) # <<>>
    /\ SnapshotBase(child) \in {parent, SnapshotBase(parent)}

\* validate_lineage succeeds
LineageValid(c, p) ==
  LET w == Walk(c, p)
  IN /\ c[Last(w)].lineage = None
     /\ \A i \in 1..Len(w) - 1 : ParentAllowed(c, w[i], w[i + 1])

Summary(c, p) == [i \in DOMAIN Walk(c, p) |-> c[Walk(c, p)[i]].id]

\* published_lineage_references answers false
Unreferenced(c, id) ==
  \A p \in DOMAIN c :
    c[p].summary # None => LineageValid(c, p) /\ id \notin Range(Tail(Summary(c, p)))

CreateAllowed(p) ==
  /\ p \notin Paths
  /\ ParentPath(p) # <<>> => ParentPath(p) \in Paths

\* create; set_lineage_parent and publish_root for snapshots and clones
Created(p, id, type, lineage) ==
  LET unpublished == With(catalog, p, [id |-> id, type |-> type,
                                      lineage |-> lineage, summary |-> None])
  IN IF lineage = None THEN unpublished
     ELSE [unpublished EXCEPT ![p].summary = Summary(unpublished, p)]

DestroyAllowed(p) ==
  /\ Unreferenced(catalog, catalog[p].id)
  /\ ~\E q \in Paths : Below(p, q)

\* Mutant: only the dataset and its descendants move.
AffectedBelow(old) == {p \in Paths : p = old \/ Below(old, p)}

\* What a rename moves: the dataset, its descendants and its own snapshots
Affected(old) ==
  {p \in Paths :
     \/ p = old
     \/ Below(old, p)
     \/ /\ catalog[old].type # "snapshot"
        /\ catalog[p].type = "snapshot"
        /\ SnapshotBase(p) = old}

Renamed(old, new) ==
  LET moved == {ReplacePrefix(p, old, new) : p \in Affected(old)}
  IN [p \in (Paths \ Affected(old)) \cup moved |->
        IF p \in moved THEN catalog[ReplacePrefix(p, new, old)] ELSE catalog[p]]

----------------------------------------------------------------------------
(* Typed roots *)

VolumeRoot(id, generation, size, snapshots, map) ==
  [kind |-> "volume", id |-> id, generation |-> generation, size |-> size,
   snapshots |-> snapshots, map |-> map]

SnapshotRoot(id, generation, source) ==
  [kind |-> "snapshot", id |-> id, generation |-> generation, source |-> source]

\* Mutant: a shrink changes the geometry only.
TruncatedNot(map, size) == map

\* Blocks beyond the end are dropped, or zeroed in the last chunk.
Truncated(map, size) == [b \in Blocks |-> IF b <= size THEN map[b] ELSE Zero]

Overlaid(map, dirty) ==
  [b \in Blocks |-> IF b \in DOMAIN dirty THEN dirty[b] ELSE map[b]]

\* validate_catalog_root_types, by publish_root and by open
RootsTyped(c, r) ==
  /\ \A id \in DOMAIN r :
       Named(c, id) # {} /\ TypeOf(c, id) = r[id].kind
  /\ \A p \in DOMAIN c : c[p].id \in DOMAIN r

\* The type is that of the first entry with the id of the path.
VolumeAt(p) == p \in Paths /\ TypeOf(catalog, catalog[p].id) = "volume"

\* The CLONE flag goes with the lineage parent of a volume.
CloneAt(p) == VolumeAt(p) /\ catalog[p].lineage # None

\* open_volume_snapshot and validate_volume_snapshot
SnapshotAt(p) ==
  /\ p \in Paths
  /\ catalog[p].type = "snapshot"
  /\ IsSnapshotPath(p)
  /\ VolumeAt(SnapshotBase(p))
  /\ catalog[SnapshotBase(p)].id = roots[catalog[p].id].source.id

Exported(id) == \E h \in Handles : handles[h].id = id /\ handles[h].pin = "live"

----------------------------------------------------------------------------
(* Operations on the namespace *)

\* publish_root checks the composition it is about to write.
Publishable == RootsTyped(catalog', roots')

\* dataset_id_from_name: nobody asks whether a renamed dataset has the id.
NewId(p) == <<"name", p>>

\* create_dataset_with_root, create_volume
Create(p, type, size) ==
  LET id == NewId(p)
  IN /\ created < MaxIds
     /\ CreateAllowed(p)
     /\ type # "volume" => size = Size
     /\ catalog' = Created(p, id, type, None)
     /\ roots' = With(roots, id,
                   IF type = "volume" THEN VolumeRoot(id, 1, size, 0, Empty)
                   ELSE [kind |-> "filesystem", id |-> id, generation |-> 1])
     /\ created' = created + 1
     /\ Publishable
     /\ UNCHANGED handles

\* The commands name a filesystem or a volume (require_catalog_object_type).
Rename(old, new) ==
  /\ old \in Paths
  /\ TypeOf(catalog, catalog[old].id) # "snapshot"
  /\ VolumeAt(old) => ~Exported(catalog[old].id)
  /\ CreateAllowed(new)
  /\ ~Below(old, new)
  /\ \A p \in Affected(old) :
       ReplacePrefix(p, old, new) \notin Paths \ Affected(old)
  /\ catalog' = Renamed(old, new)
  /\ UNCHANGED <<roots, handles, created>>
  /\ Publishable

\* Mutant: an existing snapshot is taken again.
CreateSnapshotAgain(p, name) ==
  LET snapshot == p \o <<At, name>>
      volume == roots[catalog[p].id]
      id == <<"snapshot", snapshot, volume.id>>
  IN /\ created < MaxIds
     /\ VolumeAt(p)
     /\ IsSnapshotPath(snapshot)
     /\ ~Exported(volume.id)
     /\ volume.generation < MaxGeneration
     /\ catalog' = Created(snapshot, id, "snapshot", volume.id)
     /\ LineageValid(catalog', snapshot)
     /\ roots' = With([roots EXCEPT ![volume.id].generation = @ + 1,
                                   ![volume.id].snapshots = @ + 1],
                     id, SnapshotRoot(id, volume.snapshots + 1, volume))
     /\ created' = created + 1
     /\ Publishable
     /\ UNCHANGED handles

CreateSnapshot(p, name) ==
  LET snapshot == p \o <<At, name>>
      volume == roots[catalog[p].id]
      id == <<"snapshot", snapshot, volume.id>>
  IN /\ created < MaxIds
     /\ VolumeAt(p)
     /\ IsSnapshotPath(snapshot)
     /\ ~Exported(volume.id)
     /\ CreateAllowed(snapshot)
     /\ Named(catalog, id) = {}
     /\ volume.generation < MaxGeneration
     /\ catalog' = Created(snapshot, id, "snapshot", volume.id)
     /\ LineageValid(catalog', snapshot)
     /\ roots' = With([roots EXCEPT ![volume.id].generation = @ + 1,
                                   ![volume.id].snapshots = @ + 1],
                     id, SnapshotRoot(id, volume.snapshots + 1, volume))
     /\ created' = created + 1
     /\ Publishable
     /\ UNCHANGED handles

\* Mutant: the derived identity is not looked up.
CreateCloneUnchecked(p, snapshot) ==
  LET parent == catalog[snapshot].id
      id == <<"clone", p, parent>>
  IN /\ created < MaxIds
     /\ SnapshotAt(snapshot)
     /\ At \notin Range(p)
     /\ CreateAllowed(p)
     /\ catalog' = Created(p, id, "volume", parent)
     /\ LineageValid(catalog', p)
     /\ roots' = With(roots, id, [roots[parent].source EXCEPT !.id = id])
     /\ created' = created + 1
     /\ Publishable
     /\ UNCHANGED handles

\* Mutant: the clone is given the reference of its source.
CreateCloneAliased(p, snapshot) ==
  LET parent == catalog[snapshot].id
      id == <<"clone", p, parent>>
  IN /\ created < MaxIds
     /\ SnapshotAt(snapshot)
     /\ At \notin Range(p)
     /\ CreateAllowed(p)
     /\ Named(catalog, id) = {}
     /\ catalog' = Created(p, id, "volume", parent)
     /\ LineageValid(catalog', p)
     /\ roots' = With(roots, id, roots[parent].source)
     /\ created' = created + 1
     /\ Publishable
     /\ UNCHANGED handles

CreateClone(p, snapshot) ==
  LET parent == catalog[snapshot].id
      id == <<"clone", p, parent>>
  IN /\ created < MaxIds
     /\ SnapshotAt(snapshot)
     /\ At \notin Range(p)
     /\ CreateAllowed(p)
     /\ Named(catalog, id) = {}
     /\ catalog' = Created(p, id, "volume", parent)
     /\ LineageValid(catalog', p)
     /\ roots' = With(roots, id, [roots[parent].source EXCEPT !.id = id])
     /\ created' = created + 1
     /\ Publishable
     /\ UNCHANGED handles

\* promote_clone severs the lineage and publishes the entry anew.
PromoteClone(p) ==
  LET id == catalog[p].id
  IN /\ CloneAt(p)
     /\ SnapshotAt(PathOf(catalog, catalog[p].lineage))
     /\ ~Exported(id)
     /\ Unreferenced(catalog, id)
     /\ catalog' = [catalog EXCEPT ![p].lineage = None, ![p].summary = <<id>>]
     /\ UNCHANGED <<roots, handles, created>>
     /\ Publishable

\* The catalog entry and the typed root go together.
Destroyed(p) ==
  /\ DestroyAllowed(p)
  /\ catalog' = Without(catalog, p)
  /\ roots' = Without(roots, catalog[p].id)
  /\ Publishable
  /\ UNCHANGED <<handles, created>>

DestroySnapshot(p) == SnapshotAt(p) /\ Destroyed(p)

\* destroy_volume_clone
DestroyClone(p) ==
  /\ CloneAt(p)
  /\ SnapshotAt(PathOf(catalog, catalog[p].lineage))
  /\ ~Exported(catalog[p].id)
  /\ Destroyed(p)

DestroyVolume(p) ==
  /\ VolumeAt(p)
  /\ ~Exported(catalog[p].id)
  /\ \A q \in Paths : catalog[q].type = "snapshot" =>
       SnapshotAt(q) /\ roots[catalog[q].id].source.id # catalog[p].id
  /\ Destroyed(p)

DestroyFilesystem(p) ==
  /\ p \in Paths
  /\ TypeOf(catalog, catalog[p].id) = "filesystem"
  /\ Destroyed(p)

----------------------------------------------------------------------------
(* Operations on the content of a volume *)

Publish(root) == roots' = [roots EXCEPT ![root.id] = root]

Resize(p, size) ==
  LET volume == roots[catalog[p].id]
  IN /\ VolumeAt(p)
     /\ ~Exported(volume.id)
     /\ size # volume.size
     /\ volume.generation < MaxGeneration
     /\ Publish([volume EXCEPT !.size = size, !.generation = @ + 1,
                               !.map = Truncated(@, size)])
     /\ UNCHANGED <<catalog, handles, created>>

Larger(m, n) == IF m > n THEN m ELSE n

\* restore_volume_snapshot
Restore(p) ==
  LET captured == roots[catalog[p].id].source
      current == roots[captured.id]
      generation == Larger(current.generation, captured.generation) + 1
  IN /\ SnapshotAt(p)
     /\ ~Exported(current.id)
     /\ <<current.size, current.map>> # <<captured.size, captured.map>>
     /\ generation <= MaxGeneration
     /\ Publish(VolumeRoot(current.id, generation, captured.size,
                           Larger(current.snapshots, roots[catalog[p].id].generation),
                           captured.map))
     /\ UNCHANGED <<catalog, handles, created>>

\* open_volume, or open_volume_export with a pin
OpenVolume(h, p, pin) ==
  /\ handles[h] = Closed
  /\ VolumeAt(p)
  /\ pin = "live" => ~Exported(catalog[p].id)
  /\ handles' = [handles EXCEPT ![h] =
       [id |-> catalog[p].id, root |-> roots[catalog[p].id],
        dirty |-> <<>>, pin |-> pin]]
  /\ UNCHANGED <<catalog, roots, created>>

\* write_blocks and zero_blocks of one block within the handle's geometry
WriteBlock(h, b, v) ==
  /\ handles[h] # Closed
  /\ b <= handles[h].root.size
  /\ Cardinality(DOMAIN handles[h].dirty \cup {b}) <= MaxDirty
  /\ handles' = [handles EXCEPT ![h].dirty = With(@, b, v)]
  /\ UNCHANGED <<catalog, roots, created>>

\* Mutant: flush looks at the pins and not at the reference.
FlushAdmittedStale(h) ==
  LET handle == handles[h]
  IN /\ handle # Closed
     /\ handle.dirty # <<>>
     /\ handle.pin # "orphaned"
     /\ handle.pin = "none" => ~Exported(handle.id)
     /\ handle.id \in DOMAIN roots

\* Mutant: a handle without a pin flushes under an export.
FlushAdmittedUnpinned(h) ==
  LET handle == handles[h]
  IN /\ handle # Closed
     /\ handle.dirty # <<>>
     /\ handle.pin # "orphaned"
     /\ handle.id \in DOMAIN roots
     /\ roots[handle.id] = handle.root

FlushAdmitted(h) ==
  LET handle == handles[h]
  IN /\ handle # Closed
     /\ handle.dirty # <<>>
     /\ handle.pin # "orphaned"
     /\ handle.pin = "none" => ~Exported(handle.id)
     /\ handle.id \in DOMAIN roots
     /\ roots[handle.id] = handle.root

Flushed(h) ==
  [handles[h].root EXCEPT !.generation = @ + 1,
                          !.map = Overlaid(@, handles[h].dirty)]

Flush(h) ==
  /\ FlushAdmitted(h)
  /\ handles[h].root.generation < MaxGeneration
  /\ Publish(Flushed(h))
  /\ handles' = [handles EXCEPT ![h].root = Flushed(h), ![h].dirty = <<>>]
  /\ UNCHANGED <<catalog, created>>

\* PoolRuntime::open accepts the composition: the types agree, every published
\* lineage has its summary, every snapshot names its source and every clone its
\* snapshot.
Openable ==
  /\ RootsTyped(catalog, roots)
  /\ \A p \in Paths :
       /\ catalog[p].summary # None =>
            LineageValid(catalog, p) /\ Summary(catalog, p) = catalog[p].summary
       /\ catalog[p].type = "snapshot" => SnapshotAt(p)
       /\ CloneAt(p) => SnapshotAt(PathOf(catalog, catalog[p].lineage))

\* The pins of a runtime that is gone are of no use to its successor.
Orphaned ==
  [h \in Handles |-> IF handles[h].pin = "live"
                       THEN [handles[h] EXCEPT !.pin = "orphaned"] ELSE handles[h]]

\* The root is published and the handle never learns: the outcome is
\* uncertain, and the Pool is opened again before anything else is published.
FlushUncertain(h) ==
  /\ FlushAdmitted(h)
  /\ Openable
  /\ handles[h].root.generation < MaxGeneration
  /\ Publish(Flushed(h))
  /\ handles' = Orphaned
  /\ UNCHANGED <<catalog, created>>

CloseVolume(h) ==
  /\ handles[h] # Closed
  /\ handles' = [handles EXCEPT ![h] = Closed]
  /\ UNCHANGED <<catalog, roots, created>>

Reopen ==
  /\ Openable
  /\ handles' = Orphaned
  /\ UNCHANGED <<catalog, roots, created>>

Namespace ==
  \/ \E p \in CreatePaths, type \in Types, size \in Blocks : Create(p, type, size)
  \/ \E old \in Paths, new \in RenameTargets : Rename(old, new)
  \/ \E p \in Paths, name \in SnapshotNames : CreateSnapshot(p, name)
  \/ \E p \in CreatePaths, snapshot \in Paths : CreateClone(p, snapshot)
  \/ \E p \in Paths : PromoteClone(p)
  \/ \E p \in Paths : DestroySnapshot(p)
  \/ \E p \in Paths : DestroyClone(p)
  \/ \E p \in Paths : DestroyVolume(p)
  \/ \E p \in Paths : DestroyFilesystem(p)
  \/ \E p \in Paths, size \in Blocks : Resize(p, size)
  \/ \E p \in Paths : Restore(p)

Volume ==
  \E h \in Handles :
    \/ \E p \in Paths, pin \in {"none", "live"} : OpenVolume(h, p, pin)
    \/ \E b \in Blocks, v \in Values : WriteBlock(h, b, v)
    \/ Flush(h)
    \/ FlushUncertain(h)
    \/ CloseVolume(h)

Next == Namespace \/ Volume \/ Reopen

Spec == Init /\ [][Next]_vars

----------------------------------------------------------------------------
(* Properties *)

IsVolumeRoot(root) ==
  /\ root.generation \in 1..MaxGeneration
  /\ root.size \in Blocks
  /\ root.snapshots \in 0..MaxGeneration
  /\ root.map \in [Blocks -> Values]

\* Every entry and every root is well formed, and a root is stored under its
\* own id.
TypeOK ==
  /\ \A p \in Paths :
       /\ p # <<>>
       /\ catalog[p].type \in {"filesystem", "volume", "snapshot"}
       /\ catalog[p].type = "snapshot" => catalog[p].lineage # None
  /\ \A id \in DOMAIN roots :
       /\ roots[id].id = id
       /\ roots[id].kind = "volume" => IsVolumeRoot(roots[id])
       /\ roots[id].kind = "snapshot" =>
            roots[id].generation # 0 /\ IsVolumeRoot(roots[id].source)
  /\ \A h \in Handles :
       handles[h] # Closed =>
         /\ IsVolumeRoot(handles[h].root)
         /\ DOMAIN handles[h].dirty \subseteq 1..handles[h].root.size
  /\ created \in 0..MaxIds

\* Every dataset has a DatasetId of its own: a rename keeps it, so a name may be
\* given again while the id derived from it is in use (create, rename).
IdentityUnique == \A p, q \in Paths : catalog[p].id = catalog[q].id => p = q

\* An id that create_volume_snapshot or create_volume_clone derives belongs to
\* one entry, whatever was renamed, promoted or destroyed since: both look it up
\* before they use it.  An id that is shared is one of create's.
DerivedIdsUnique ==
  \A p, q \in Paths :
    catalog[p].id = catalog[q].id /\ p # q =>
      \E name \in CreatePaths : catalog[p].id = NewId(name)

\* Whatever was published can be opened again (PoolRuntime::open).  The code has
\* two exceptions, and no third: an id that is shared, and a snapshot that went
\* with its volume to a name with an "@", which rename admits (validate_path)
\* and snapshot_source_path does not.
ReopenAccepts ==
  /\ IdentityUnique
  /\ \A p \in Paths : catalog[p].type = "snapshot" => IsSnapshotPath(p)
  => Openable

\* Nothing lies beyond the end of a volume, a captured volume or an open
\* handle, so a later grow exposes no discarded data (resize_volume, flush).
TailIsZero ==
  LET clean(root) == \A b \in Blocks : b > root.size => root.map[b] = Zero
  IN /\ \A id \in DOMAIN roots :
          /\ roots[id].kind = "volume" => clean(roots[id])
          /\ roots[id].kind = "snapshot" => clean(roots[id].source)
     /\ \A h \in Handles : handles[h] # Closed => clean(handles[h].root)

\* A flush adds the handle's own writes to what the volume holds and undoes
\* nothing another handle, a resize or a restore has published meanwhile.
FlushAddsOnly ==
  [][\A h \in Handles :
       /\ handles[h].dirty # <<>>
       /\ handles'[h] # Closed
       /\ handles'[h].dirty = <<>>
       => /\ handles[h].id \in DOMAIN roots
          /\ roots'[handles[h].id].size = roots[handles[h].id].size
          /\ roots'[handles[h].id].map =
               Overlaid(roots[handles[h].id].map, handles[h].dirty)]_vars

\* While a volume is exported nobody but the holder of the pin changes or
\* destroys it (ensure_volume_not_exported, flush).  A create that is given the
\* id of the volume is outside: it replaces the root of another dataset
\* (IdentityUnique).
ExportExclusive ==
  [][\A h \in Handles :
       /\ handles[h].pin = "live"
       /\ handles'[h].pin = "live"
       /\ handles[h].root = roots[handles[h].id]
       /\ Cardinality(Named(catalog', handles[h].id)) <= 1
       => /\ handles[h].id \in DOMAIN roots'
          /\ roots'[handles[h].id] = handles'[h].root]_vars

\* A snapshot keeps the volume it captured, through renames, restores, clones,
\* promotions and resizes of its source, for as long as it is in the catalog
\* (create_volume_snapshot, rename, restore_volume_snapshot).
SnapshotsFrozen ==
  [][\A id \in DOMAIN roots \cap DOMAIN roots' :
       roots[id].kind = "snapshot" => roots'[id] = roots[id]]_vars

=============================================================================
