----------------------------- MODULE IntentLog -----------------------------
(***************************************************************************)
(* The intent log of one mounted filesystem and the commit it shortens:    *)
(* what a namespace operation appends, when the log is flushed, how the    *)
(* committed root takes over and retires it, what a failed operation rolls *)
(* back, and what recovery rebuilds after a crash between any two steps.   *)
(*                                                                         *)
(* Creates and attribute changes are logged; mkdir and unlink are not, and *)
(* wait for the root.  Only one operation runs at a time, so what          *)
(* interleaves with its steps are crashes and failing store calls.  File   *)
(* data, the size and times of a parent directory, rename, hard links and  *)
(* the optional log device are left out.                                   *)
(***************************************************************************)
EXTENDS Integers, Sequences

CONSTANTS Names,          \* names of directory entries
          Inodes,         \* inode numbers the allocator hands out, from 1
          None,           \* absent
          Batch,          \* max_batch_entries
          Depth,          \* pressure_depth_threshold
          MaxGeneration,  \* bound on the filesystem generation
          MaxEntries,     \* bound on the entries of the log
          MaxFaults       \* bound on crashes and failing store calls

ASSUME InodesAssumption == Inodes \subseteq Nat \ {0}
ASSUME LimitsAssumption == Batch \in Nat \ {0} /\ Depth \in Nat
ASSUME BoundsAssumption == MaxGeneration \in Nat /\ MaxEntries \in Nat /\ MaxFaults \in Nat

VARIABLES
  up,       \* the filesystem is mounted
  fenced,   \* mutation_requires_reopen
  live,     \* the mounted state
  root,     \* the committed root in the Pool
  log,      \* IntentLog::entries; an entry's id is its place
  flushed,  \* flushed_entry_count
  disk,     \* the log's head and entries in the object store
  media,    \* what a power loss may leave of them: the store replays a prefix
  undo,     \* mutation_delta
  op,       \* the operation under way
  hist,     \* history: the states of live since the root
  sure,     \* history: the first of them a crash may go back to
  plain,    \* history: one of them came from an operation that is not logged
  stale,    \* history: a rollback failed to retire the log
  unread,   \* history: the root could not be read back after it was published
  faults

vars == <<up, fenced, live, root, log, flushed, disk, media, undo, op,
          hist, sure, plain, stale, unread, faults>>

Root == 0  \* the inode of the root directory

Nodes == [kind: {"file", "dir"}, parent: Inodes \cup {Root}, name: Names,
          born: Nat, meta: Nat]

States == [node: [Inodes -> Nodes \cup {None}], gen: Nat, next: Nat]

Entries == [kind: {"create", "setattr"}, ino: Inodes, node: Nodes, anchor: Nat]
             \cup [kind: {"pressure"}, anchor: Nat]

Deltas == [fs: States, seq: Nat, at: Nat]

ASSUME NoneAssumption == None \notin States \cup Nodes \cup Entries \cup Deltas

Images == [head: Nat, entry: [1..MaxEntries -> Entries \cup {None}]]

Operations == [pc: {"idle", "put", "sync", "commit", "post", "rollback"},
               then: {"none", "install", "refused", "tick", "fsync", "forced", "recover"},
               new: States \cup {None}]

TypeOK ==
  /\ up \in BOOLEAN /\ fenced \in BOOLEAN /\ plain \in BOOLEAN /\ stale \in BOOLEAN
  /\ unread \in BOOLEAN
  /\ live \in States
  /\ root \in [tx: Nat, fs: States]
  /\ log \in Seq(Entries) /\ Len(log) <= MaxEntries
  /\ flushed \in 0..Len(log)
  /\ disk \in Images /\ media \in SUBSET Images /\ disk \in media
  /\ undo \in Deltas \cup {None}
  /\ op \in Operations
  /\ hist \in Seq(States) /\ sure \in 1..Len(hist)
  /\ faults \in 0..MaxFaults

Larger(a, b) == IF a > b THEN a ELSE b

Smaller(a, b) == IF a < b THEN a ELSE b

-----------------------------------------------------------------------------
(* The filesystem state *)

EmptyState == [node |-> [i \in Inodes |-> None], gen |-> 1, next |-> 1]

IsDir(fs, p) == p = Root \/ (p \in Inodes /\ fs.node[p] # None /\ fs.node[p].kind = "dir")

\* The inode that a name in a directory is bound to.
Bound(fs, p, n) ==
  {i \in Inodes: fs.node[i] # None /\ fs.node[i].parent = p /\ fs.node[i].name = n}

Born(fs, kind, p, n) == [kind |-> kind, parent |-> p, name |-> n,
                         born |-> fs.gen + 1, meta |-> fs.gen + 1]

\* A new inode under a new name, in the next generation.
WithNew(fs, node) ==
  [node |-> [fs.node EXCEPT ![fs.next] = node], gen |-> fs.gen + 1, next |-> fs.next + 1]

WithNode(fs, i, node) == [fs EXCEPT !.node[i] = node, !.gen = @ + 1]

-----------------------------------------------------------------------------
(* Replay *)

\* The entry is not covered by the committed root r.  A pressure entry carries
\* no change, and its anchor is never newer than the root.
Selected(r, e) ==
  IF e.kind = "pressure" THEN e.anchor > r.tx ELSE e.node.meta > r.fs.gen

ReplayCreate(fs, e) ==
  LET bound == Bound(fs, e.node.parent, e.node.name)
      present == fs.node[e.ino] # None
  IN IF \/ ~IsDir(fs, e.node.parent)
        \/ present /\ (fs.node[e.ino].born # e.node.born \/ fs.node[e.ino].kind # e.node.kind)
        \/ bound \notin {{}, {e.ino}}
     THEN None
     ELSE [fs EXCEPT !.node[e.ino] = IF present THEN @ ELSE e.node,
                     !.gen = Larger(@, e.node.meta),
                     !.next = Larger(@, e.ino + 1)]

ReplaySetattr(fs, e) ==
  LET node == fs.node[e.ino]
  IN IF \/ node = None
        \/ node.born # e.node.born \/ node.kind # e.node.kind
        \/ node.meta = e.node.meta /\ node # e.node
     THEN None
     ELSE [fs EXCEPT !.node[e.ino] = IF node.meta < e.node.meta THEN e.node ELSE @,
                     !.gen = Larger(@, e.node.meta),
                     !.next = Larger(@, e.ino + 1)]

\* An entry that is covered changes nothing; a create or setattr that is not
\* must be bound to the root it is replayed on.
ReplayEntry(r, fs, e) ==
  IF fs = None \/ e.kind = "pressure" \/ ~Selected(r, e) THEN fs
  ELSE IF e.anchor # r.tx THEN None
  ELSE IF e.kind = "create" THEN ReplayCreate(fs, e) ELSE ReplaySetattr(fs, e)

\* load_with_config_for_dataset: a gap before the durable head is refused.
Loadable(d) == \A i \in 1..d.head: d.entry[i] # None

Loaded(d) == [i \in 1..d.head |-> d.entry[i]]

\* What recovery makes of a root and a log image; None if it refuses them.
Rebuild(r, d) ==
  LET replay[k \in 0..d.head] ==
        IF k = 0 THEN r.fs ELSE ReplayEntry(r, replay[k - 1], d.entry[k])
  IN IF Loadable(d) THEN replay[d.head] ELSE None

-----------------------------------------------------------------------------
(* Store calls of the log *)

IdleOp == [pc |-> "idle", then |-> "none", new |-> None]

Step(pc) == [op EXCEPT !.pc = pc]

\* The image after the first k puts of a flush: the entries, then the head.
Written(k) ==
  [entry |-> [i \in 1..MaxEntries |->
                IF flushed < i /\ i <= Smaller(flushed + k, Len(log)) THEN log[i]
                ELSE disk.entry[i]],
   head |-> IF k > Len(log) - flushed THEN Len(log) ELSE disk.head]

\* The error ends the operation: a mutation rolls back, a sync only reports.
Failed ==
  /\ faults < MaxFaults
  /\ faults' = faults + 1
  /\ op' = IF op.then \in {"install", "refused", "forced"} THEN Step("rollback") ELSE IdleOp

\* flush: the puts.
FlushPut ==
  LET puts == Len(log) - flushed + 1 IN
  /\ op.pc = "put"
  /\ \E done \in 0..puts:
       /\ disk' = Written(done)
       /\ media' = media \cup {Written(k): k \in 0..done}
       /\ \/ done = puts /\ op' = Step("sync") /\ UNCHANGED faults
          \/ Failed
  /\ UNCHANGED <<up, fenced, live, root, log, flushed, undo, hist, sure, plain, stale, unread>>

\* flush: sync_all, and what the caller does next.
FlushSync ==
  /\ op.pc = "sync"
  /\ media' = {disk}
  /\ flushed' = Len(log)
  /\ \/ /\ op.then \in {"install", "refused"}
        /\ live' = op.new /\ hist' = Append(hist, op.new)
        /\ sure' = IF op.then = "install" THEN Len(hist') ELSE Len(hist)
        /\ \/ op.then = "install" /\ op' = IdleOp
           \/ op' = [IdleOp EXCEPT !.pc = "commit", !.then = "forced"]
     \/ /\ op.then \in {"tick", "fsync"}
        /\ sure' = Len(hist)
        /\ op' = IF op.then = "fsync" THEN Step("commit") ELSE IdleOp
        /\ UNCHANGED <<live, hist>>
  /\ UNCHANGED <<up, fenced, root, log, disk, undo, plain, stale, unread, faults>>

FlushSyncFails ==
  /\ op.pc = "sync"
  /\ Failed
  /\ UNCHANGED <<up, fenced, live, root, log, flushed, disk, media, undo, hist, sure, plain, stale, unread>>

Headless(d) == [d EXCEPT !.head = 0]

Without(d, k) == [d EXCEPT !.entry = [i \in DOMAIN @ |-> IF i <= k THEN None ELSE @[i]]]

\* Mutant: the entries go before the head that names them.
ClearedEntriesFirst ==
  /\ disk' = Headless(Without(disk, Len(log)))
  /\ media' = media \cup {Without(disk, k): k \in 0..Len(log)} \cup {disk'}
  /\ log' = <<>> /\ flushed' = 0
  /\ stale' = FALSE
  /\ UNCHANGED faults

\* Mutant: the count of flushed entries is not reset.
ClearedKeepsCount ==
  /\ disk' = Headless(Without(disk, Len(log)))
  /\ media' = {Headless(Without(disk, k)): k \in 0..Len(log)}
  /\ log' = <<>> /\ UNCHANGED flushed
  /\ stale' = FALSE
  /\ UNCHANGED faults

\* clear: the head is gone for good; the entries go as far as they go, and the
\* next log starts over in their places.
Cleared ==
  /\ \/ /\ disk' = Headless(Without(disk, Len(log)))
        /\ media' = {Headless(Without(disk, k)): k \in 0..Len(log)}
        /\ UNCHANGED faults
     \/ /\ faults < MaxFaults /\ faults' = faults + 1
        /\ disk' = Headless(disk)
        /\ media' = {disk'}
  /\ log' = <<>> /\ flushed' = 0
  /\ stale' = FALSE

\* clear fails to delete the head, or to sync the deletion: memory keeps all.
ClearFailed ==
  /\ faults < MaxFaults /\ faults' = faults + 1
  /\ \/ UNCHANGED <<disk, media>>
     \/ disk' = Headless(disk) /\ media' = media \cup {disk'}
  /\ UNCHANGED <<log, flushed>>

-----------------------------------------------------------------------------
(* Mutations *)

\* Mutant: the fence does not hold.
AllowedFenced == up /\ op.pc = "idle"

\* ensure_mutation_allowed, with no other operation under way.
Allowed == up /\ ~fenced /\ op.pc = "idle"

\* The delta of the first mutation since the root serves all of them.
BeginMutation ==
  undo' = IF undo = None THEN [fs |-> live, seq |-> Len(log), at |-> Len(hist)] ELSE undo

\* commit_mutation: deferred, or the window is full and the commit forced.
Install(new) ==
  /\ live' = new
  /\ hist' = Append(hist, new)
  /\ op' \in {IdleOp, [IdleOp EXCEPT !.pc = "commit", !.then = "forced"]}

\* append, from the mutation that logs the entry.
Logged(entry, new) ==
  /\ Allowed
  /\ live.gen < MaxGeneration /\ Len(log) < MaxEntries
  /\ BeginMutation
  /\ IF Len(log) >= Depth
     THEN /\ log' = Append(log, [kind |-> "pressure", anchor |-> root.tx])
          /\ op' = [pc |-> "put", then |-> "refused", new |-> new]
          /\ UNCHANGED <<live, hist>>
     ELSE /\ log' = Append(log, entry)
          /\ IF Len(log') - flushed >= Batch
             THEN /\ op' = [pc |-> "put", then |-> "install", new |-> new]
                  /\ UNCHANGED <<live, hist>>
             ELSE Install(new)
  /\ UNCHANGED <<up, fenced, root, flushed, disk, media, sure, plain, stale, unread, faults>>

Unlogged(new) ==
  /\ Allowed
  /\ live.gen < MaxGeneration
  /\ BeginMutation
  /\ Install(new)
  /\ plain' = TRUE
  /\ UNCHANGED <<up, fenced, root, log, flushed, disk, media, sure, stale, unread, faults>>

Create(p, n) ==
  LET node == Born(live, "file", p, n) IN
  /\ IsDir(live, p) /\ Bound(live, p, n) = {} /\ live.next \in Inodes
  /\ Logged([kind |-> "create", ino |-> live.next, node |-> node, anchor |-> root.tx],
            WithNew(live, node))

Setattr(i) ==
  LET node == [live.node[i] EXCEPT !.meta = live.gen + 1] IN
  /\ live.node[i] # None
  /\ Logged([kind |-> "setattr", ino |-> i, node |-> node, anchor |-> root.tx],
            WithNode(live, i, node))

Mkdir(p, n) ==
  /\ IsDir(live, p) /\ Bound(live, p, n) = {} /\ live.next \in Inodes
  /\ Unlogged(WithNew(live, Born(live, "dir", p, n)))

Unlink(i) ==
  /\ live.node[i] # None /\ live.node[i].kind = "file"
  /\ Unlogged(WithNode(live, i, None))

\* allocate of a range the dataset has no room for.
AllocateRefused ==
  /\ Allowed
  /\ BeginMutation
  /\ op' = [IdleOp EXCEPT !.pc = "rollback", !.then = "forced"]
  /\ UNCHANGED <<up, fenced, live, root, log, flushed, disk, media, hist, sure, plain, stale, unread, faults>>

\* rollback_mutation_delta: back to where the delta began, and if anything was
\* logged since then, the whole log with it.  That the log stays is ignored.
Rollback ==
  /\ op.pc = "rollback"
  /\ op' = IdleOp
  /\ undo' = None
  /\ IF undo = None
     THEN UNCHANGED <<live, hist, sure, plain, log, flushed, disk, media, stale, faults>>
     ELSE /\ live' = undo.fs
          /\ hist' = SubSeq(hist, 1, undo.at)
          /\ sure' = Smaller(sure, undo.at)
          /\ plain' = (plain /\ undo.at > 1)
          /\ \/ Len(log) <= undo.seq /\ UNCHANGED <<log, flushed, disk, media, stale, faults>>
             \/ Len(log) > undo.seq /\ Cleared
             \/ Len(log) > undo.seq /\ ClearFailed /\ stale' = TRUE
  /\ UNCHANGED <<up, fenced, root, unread>>

-----------------------------------------------------------------------------
(* Syncs and the commit *)

\* flush_intent_log_if_needed, on a tick.
FlushIfNeeded ==
  /\ Allowed
  /\ Len(log) > flushed
  /\ op' = [IdleOp EXCEPT !.pc = "put", !.then = "tick"]
  /\ UNCHANGED <<up, fenced, live, root, log, flushed, disk, media, undo, hist, sure, plain, stale, unread, faults>>

\* An unflushed create in the directory.
PendingNamespace(p) ==
  \E i \in flushed + 1..Len(log): log[i].kind = "create" /\ log[i].node.parent = p

\* What the dirty sets were last cleared at: a mutation marks what it changes,
\* a confirmed root or a rollback clears the marks.
Clean == IF undo = None THEN live ELSE undo.fs

\* An entry of the directory, or the directory itself, is dirty.
DirtyDir(p) ==
  \E i \in Inodes: /\ live.node[i] # Clean.node[i]
                   /\ \/ i = p
                      \/ \E node \in {live.node[i], Clean.node[i]} \ {None}: node.parent = p

FsyncDirectory(p) ==
  /\ Allowed
  /\ IsDir(live, p)
  /\ DirtyDir(p) \/ PendingNamespace(p)
  /\ op' = [IdleOp EXCEPT !.pc = IF PendingNamespace(p) THEN "put" ELSE "commit",
                          !.then = "fsync"]
  /\ UNCHANGED <<up, fenced, live, root, log, flushed, disk, media, undo, hist, sure, plain, stale, unread, faults>>

\* sync, the maintenance tick and unmount go straight to the commit.
Sync ==
  /\ Allowed
  /\ live # Clean \/ log # <<>>
  /\ op' = [IdleOp EXCEPT !.pc = "commit", !.then = "fsync"]
  /\ UNCHANGED <<up, fenced, live, root, log, flushed, disk, media, undo, hist, sure, plain, stale, unread, faults>>

MustPersist == live # Clean \/ \E i \in DOMAIN log: Selected(root, log[i])

\* next_mounted_commit_transaction_id, for a ring of one slot.
NextTransaction(fs) == Larger(fs.gen, root.tx + 1)

Committed(fs) == root' = [tx |-> NextTransaction(fs), fs |-> fs]

\* Mutant: the delta outlives the root.
PublishKeepsDelta ==
  /\ op.pc = "commit" /\ MustPersist
  /\ Committed(live)
  /\ hist' = <<live>> /\ sure' = 1 /\ plain' = FALSE /\ unread' = FALSE
  /\ media' = {disk}
  /\ op' = Step("post")
  /\ UNCHANGED <<up, fenced, live, log, flushed, disk, undo, stale, faults>>

\* do_commit up to discard_mutation_delta: the root is durable.
Publish ==
  /\ op.pc = "commit" /\ MustPersist
  /\ Committed(live)
  /\ undo' = None
  /\ hist' = <<live>> /\ sure' = 1 /\ plain' = FALSE /\ unread' = FALSE
  /\ media' = {disk}
  /\ op' = Step("post")
  /\ UNCHANGED <<up, fenced, live, log, flushed, disk, stale, faults>>

\* The root is durable, but reading it back fails before discard_mutation_delta:
\* a forced commit rolls back what has been published.
ReadBackFails ==
  /\ op.pc = "commit" /\ MustPersist
  /\ Committed(live)
  /\ media' = {disk}
  /\ unread' = TRUE
  /\ Failed
  /\ UNCHANGED <<up, fenced, live, log, flushed, disk, undo, hist, sure, plain, stale>>

\* Nothing to publish: the root already covers what is logged.
PublishNothing ==
  /\ op.pc = "commit" /\ ~MustPersist
  /\ op' = Step("post")
  /\ UNCHANGED <<up, fenced, live, root, log, flushed, disk, media, undo, hist, sure, plain, stale, unread, faults>>

\* An error before the root was written.
PublishFails ==
  /\ op.pc = "commit" /\ MustPersist
  /\ Failed
  /\ UNCHANGED <<up, fenced, live, root, log, flushed, disk, media, undo, hist, sure, plain, stale, unread>>

\* PublishOutcomeUncertain: the root was written, perhaps.  The mounted state
\* is kept, and every later mutation refused.
PublishUncertain ==
  /\ op.pc = "commit" /\ MustPersist
  /\ faults < MaxFaults /\ faults' = faults + 1
  /\ fenced' = TRUE
  /\ \/ Committed(live) /\ hist' = <<live>> /\ sure' = 1 /\ plain' = FALSE /\ unread' = FALSE
     \/ UNCHANGED <<root, hist, sure, plain, unread>>
  /\ op' = IdleOp
  /\ UNCHANGED <<up, live, log, flushed, disk, media, undo, stale>>

\* The quota table, the space delta or the orphan index fails after the root.
MaintainFails ==
  /\ op.pc = "post" /\ op.then # "recover"
  /\ Failed
  /\ UNCHANGED <<up, fenced, live, root, log, flushed, disk, media, undo, hist, sure, plain, stale, unread>>

\* The end of do_commit, and of recovery: the covered log is retired.
Retire ==
  /\ op.pc = "post"
  /\ op' = IdleOp
  /\ IF log = <<>> THEN UNCHANGED <<log, flushed, disk, media, stale, faults>> ELSE Cleared
  /\ UNCHANGED <<up, fenced, live, root, undo, hist, sure, plain, unread>>

RetireFails ==
  /\ op.pc = "post" /\ op.then # "recover" /\ log # <<>>
  /\ ClearFailed
  /\ op' = IF op.then = "forced" THEN Step("rollback") ELSE IdleOp
  /\ UNCHANGED <<up, fenced, live, root, undo, hist, sure, plain, stale, unread>>

-----------------------------------------------------------------------------
(* Crash and recovery *)

\* The process dies, or the power fails, or a recovery gives up.
Crash ==
  /\ up
  /\ faults < MaxFaults \/ fenced
  /\ faults' = IF fenced THEN faults ELSE faults + 1
  /\ up' = FALSE /\ fenced' = FALSE
  /\ disk' \in media /\ media' = {disk'}
  /\ live' = root.fs /\ log' = <<>> /\ flushed' = 0 /\ undo' = None
  /\ op' = IdleOp
  /\ hist' = IF op.new = None THEN hist ELSE Append(hist, op.new)
  /\ UNCHANGED <<root, sure, plain, stale, unread>>

\* recover_canonical_committed_state: replay, publish what was replayed, and
\* then retire the log.
Recover ==
  LET fs == Rebuild(root, disk) IN
  /\ ~up
  /\ fs # None
  /\ up' = TRUE
  /\ live' = fs
  /\ IF fs = root.fs THEN UNCHANGED root ELSE Committed(fs)
  /\ log' = Loaded(disk) /\ flushed' = disk.head
  /\ op' = IF disk.head = 0 THEN IdleOp ELSE [IdleOp EXCEPT !.pc = "post", !.then = "recover"]
  /\ hist' = <<fs>> /\ sure' = 1 /\ plain' = FALSE /\ stale' = FALSE /\ unread' = FALSE
  /\ UNCHANGED <<fenced, disk, media, undo, faults>>

-----------------------------------------------------------------------------

Init ==
  /\ up = TRUE /\ fenced = FALSE
  /\ live = EmptyState /\ root = [tx |-> 1, fs |-> EmptyState]
  /\ log = <<>> /\ flushed = 0
  /\ disk = [head |-> 0, entry |-> [i \in 1..MaxEntries |-> None]] /\ media = {disk}
  /\ undo = None /\ op = IdleOp
  /\ hist = <<EmptyState>> /\ sure = 1 /\ plain = FALSE /\ stale = FALSE
  /\ unread = FALSE
  /\ faults = 0

Next ==
  \/ \E p \in Inodes \cup {Root}:
       \/ \E n \in Names: Create(p, n) \/ Mkdir(p, n)
       \/ FsyncDirectory(p)
  \/ \E i \in Inodes: Setattr(i) \/ Unlink(i)
  \/ AllocateRefused \/ Rollback
  \/ FlushIfNeeded \/ FlushPut \/ FlushSync \/ FlushSyncFails
  \/ Sync \/ Publish \/ ReadBackFails \/ PublishNothing \/ PublishFails \/ PublishUncertain
  \/ MaintainFails \/ Retire \/ RetireFails
  \/ Crash \/ Recover

Spec == Init /\ [][Next]_vars

-----------------------------------------------------------------------------
(* Properties *)

\* The states a crash may leave: those since the last one that was promised,
\* and the one an operation under way would install.
Expected == {hist[k]: k \in sure..Len(hist)} \cup ({op.new} \ {None})

\* Whatever a power loss leaves of the log, recovery accepts it and rebuilds a
\* state the filesystem had, no older than the last one a flush or a commit
\* made durable, and never one that was rolled back.  This holds where every
\* mutation since the root was logged, no rollback left the log behind and the
\* root was read back.
AckedRebuilt == ~plain /\ ~stale /\ ~unread => \A d \in media: Rebuild(root, d) \in Expected

\* A failure after the root was published does not take the mounted state
\* behind it ("must not restore live state behind this root").  Only a delta
\* that a failing read-back left in place can: rolling it back takes the mounted
\* state behind a root that is durable.
NotBehindRoot ==
  [][up /\ up' /\ live.gen >= root.fs.gen
       => live'.gen >= root'.fs.gen \/ (unread /\ undo # None /\ live' = undo.fs)]_vars

\* After an uncertain publication nothing the mount does reaches the store
\* before it is reopened.
FencedUntilReopen == [][fenced /\ up' => UNCHANGED <<root, disk, media, log>>]_vars

\* "They remain replayable until do_commit() publishes the already-applied
\* namespace state": recovery accepts the log at every instant.
RecoveryAccepts == \A d \in media: Rebuild(root, d) # None

=============================================================================
