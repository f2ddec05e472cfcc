# TideFS in TLA+

Models, model-checking runs and proofs for the storage core of TideFS: the Pool
object protocol, the publication of a Pool's composition, its namespace and
volumes, the intent log and commit of a filesystem, the lease that gives one
node at a time the right to mutate a Pool, and the mutation deadline that the
lease imposes on all of them. `PROJECT.json` lists the components, the runs, the source lines behind
each definition, the hazards, the findings and the theorems.

## 1. The system

TideFS is a local-first storage stack in Rust. `tidefsctl` and the daemons open
a Pool and serve its datasets as filesystems (FUSE) or block volumes (ublk):

    tidefsctl, storage-node, FUSE daemon, ublk daemon
        |              |
        |         membership, leases, locks, quorum writes, transport
        v              v (a grant becomes an ExternalMutationDeadline)
    PoolRuntime: catalog + typed dataset roots, one canonical publication
        |                 \
    filesystem engine      Pool volumes (handles, flush, exports)
        |                 /
    Pool: put / get / delete of an object on several devices
        |
    Device: an append-only segment log, replayed on open

| part | state | operations | interacts with |
|---|---|---|---|
| mutation deadline | one atomic word | new, renew, fence, is_live | lease holder threads, every mutating operation |
| PoolRuntime publication | canonical root, reopen flag, reclaim cursors and plans | open, stage, publish, reclaim | Pool |
| namespace and volumes | catalog, dataset roots, handles, export pins | create, rename, snapshot, clone, promote, destroy, resize, restore, open, write, flush | publication |
| Pool object protocol | payloads, receipts and deletion handoffs per device; pending deletions | put, get, delete, reconcile, open | devices |
| segment log | segments, index, torn tail | append, sync, replay, compact | devices |
| filesystem engine | inodes, extents, dirty data, quota, orphans | VFS operations, do_commit, recovery | publication, intent log |
| intent log | entries, head, payloads | append, flush, replay, clear | Pool, do_commit |
| commit group | group phases | open, quiesce, sync, commit | filesystem engine |
| membership, witness, partition | epochs, votes, views | propose, commit, suspect, heal | transport |
| Pool owner lease | active token, write fence, handoff fence, checkpoint; carriers' grants | acquire, renew, release, expire, advance epoch, recover | membership, deadline, carriers |
| lock table, lease manager | grants, terms, fences | grant, renew, break, release, failover | membership |
| quorum write, replication | tickets, acks, receipts | transfer, commit, retry, repair | transport, placement |
| placement, rebuild, relocation, node join and drain | plans, cursors | plan, move, verify, resume | replication |
| reclaim, cleaner, pins, orphans | queues, horizons, pins | enqueue, advance, free | commit group, snapshots |
| space, quota, reservations | ledgers | reserve, commit, release | engine |
| pool labels, scan, import | labels, ownership | scan, import, export | devices |
| streams | tokens, applied records | send, receive, resume | snapshots |
| caches | entries, invalidations | fill, invalidate | leases |

What makes it hard: a put is several device writes and syncs, any of which may
fail after it happened; the process may die between any two; power loss takes
the unsynced tail of each device separately; a publication's outcome may be
unknown; deletes run generations after the decision to delete; handles outlive
the roots they were opened at; a lease runs out while a mutation is under way;
requests to the lease authority are delayed and overtake each other, and its
clock starts again with every restart; an operation is answered from a log that
the next root replaces, and a failure in between rolls the mount back.

The properties that make it correct: a reopen finds a complete composition, the
acknowledged one or its successor; nothing reachable is deleted and nothing
released is forgotten; an acknowledged put is read and an acknowledged delete
stays; what was published can be opened; a stale handle publishes nothing; no
mutation happens without a grant; a grant is held by one node at a time, and
every owner has a newer write fence than the one before; what the intent log
made durable is rebuilt after a crash.

## 2. Modules

**MutationDeadline** (`tidefs-pool-runtime/src/lib.rs`, `ExternalMutationDeadline`).
`deadline` is the atomic word in milliseconds, `now` the clock in finer ticks,
`renewer[r]` and `gate[g]` the program counter and locals of a thread. Each
load, clock read and compare-exchange is an action; `Fence` and `Tick` happen at
any time. Truncation by `as_millis` and saturating subtraction are modelled.
The history variables `latestGrant` and `lapsed` serve the properties. Rust's
acquire/release orderings on one word are taken as sequentially consistent,
which for a single location they are.

**PoolPublication** (`PoolRuntime::open`, `publish_root`, `stage_volume_reclaim`,
`resume_volume_reclaim`). `stored` is the set of keys a read finds, `disk` the
composition under the canonical key, `root` the one in memory,
`requires_reopen` the flag of the same meaning, `job` the operation in progress.
A composition is its generation, the set of objects it reaches, and its reclaim
cursors. Each store call is an action and has a failing twin that may or may not
have happened. A volume flush puts its chunks and map nodes before anybody asks
whether the runtime may publish (`BeginFlush`, `PutChunk`); every other operation
asks first (`MayBegin`). `TornPutRoot` is the put of the root that stops half way.
`AtomicPutSpec` is the specification without that action.

**PoolObject** (`pool/mod.rs`: `put`, `get`, `delete`, rollback, pending
deletions, `open`). One key, the replicated policy. `now[d]` is what device `d`
answers, `may[d]` the set of states it may have after a power loss: every state
since its last sync. `op` holds the phase of the call in progress and its
locals. A crash of the process keeps `now`; a power loss picks from `may`.

**PoolCatalog**, instantiated by **MCPoolCatalog** (`PoolRuntime`'s namespace
operations, `tidefs-dataset-catalog`, `PoolVolume`). `catalog` maps paths to
entries, `roots` ids to typed roots, `handles` are the open volumes with their
dirty blocks and export pins. Each operation is one publication. Paths are
sequences of bytes, so prefix, parent and snapshot rules are the code's, and so is
the order of the catalog: `get_by_id` answers the first entry with an id, and the
type of a dataset is asked of it (`PathOf`, `TypeOf`). That matters because the
id of a created dataset is a digest of its path, and a rename keeps it. A digest
is the value it digests. `Reopen` is possible when `open` accepts the namespace
(`Openable`).

**PoolLease**, instantiated by **MCPoolLease** (`tidefs-cluster`:
`pool_owner_lease.rs`, `pool_lease_session.rs`; the storage node's lease service
in `server.rs`; the carriers in `tidefsctl` and the two adapter daemons). Both
ends of the protocol and what is between them. `mem` is the authority's
committed state and `disk` the set of checkpoints a restart may find; it has two
elements after a persist that failed late, of a lease request or of an
observation. `carrier[c]` is a process that
acquires, imports, renews, loses and releases. `requests` and `grants` are the
messages under way: sets, so they arrive in any order or never. A handler reads
epoch and clock before it takes the lock; `Handle(r, epoch, at)` therefore takes
any reading between the request and the commit, at most `MaxLag` old. A renewal
moves the deadline by at least a millisecond; the history variable `ahead` counts
the renewals beyond one a millisecond. A refusal
and a lost answer look the same to a carrier, so refusals send nothing. The
authority's operators (`Acquire`, `Renew`, `Release`, `AdvanceEpoch`,
`RecoverCheckpoint`, ...) are functions from state to state, as the Rust methods
are on the clone that `commit_pool_owner_lease_transition` works on.

**FencedOwner** is the abstract specification of what PoolLease gives to the
Pool: an owner is taken and dropped, never two at once, and each `Take` carries
a newer fence or continues the last owner under its own. PoolLease maps `owners`
to the nodes of the carriers that hold an unexpired grant.

**IntentLog** (`tidefs-local-filesystem`: `intent_log.rs`, and `do_commit`,
`begin_mutation`, `rollback_mutation_delta`, `fsync_directory` of `lib.rs`).
`live` is the mounted state, `root` the committed one, `log`/`flushed` the log in
memory, `disk` the log in the store and `media` every image of it a power loss
may leave; the store under it replays a prefix of what was written, so `media`
holds the prefixes since the last sync. `undo` is the mutation delta. `op` is
the operation under way between two of its store calls. A node of the tree keeps
its kind, parent, name, and the generations it was created and last changed in:
what replay compares. `ReadBackFails` is the commit whose root is durable and
cannot be read back: the delta is still there, and a forced commit rolls it back.
The engine runs one operation at a time, so only crashes
and failures come between its steps. `hist`, `sure`, `plain` and `stale` are
history for the properties: the states since the root, the first one a crash may
go back to, whether a mutation that is not logged is among them, and whether a
rollback left the log behind. `unread` says that the last root was not read back.

The theorems about a module are in the module of its name with *Proofs*. PoolLease
has two: **PoolLeaseBaseProofs** has what one operation does and what holds for any
carriers, **PoolLeaseProofs** what holds with one carrier per node. PoolCatalog has
no theorems.

The modules meet at their assumptions: PoolPublication assumes of the store what
PoolObject models (durable when Ok, unknown when Err, possibly torn on a crash),
PoolCatalog and IntentLog assume of a publication what PoolPublication models
(all or nothing, possibly with an unknown outcome), and MutationDeadline enforces
within a process the `until` of a PoolLease carrier. PoolLease composes the
authority with its clients; no other composition is checked yet (section 7).

## 3. Runs

| run | shows | result |
|---|---|---|
| MutationDeadline | two renewers, one gate, a fencer: WithinGrant, AdmittedWithinGrant, FenceIsFinal | 276,548 states |
| PoolPublication | GraphStored, PlansStored, ReopenOldOrNew, UncertainKeepsStore, DiskAdvances, NothingForgotten, OperationsEnd over an atomic put, volume flushes included | 338,701 states |
| PoolObject | AckedIsRead, one copy that may move between two devices, three faults | 3,296,580 states |
| PoolObjectTorn | a crash between payload and receipt leaves neither value | violated |
| PoolObjectUndeleted | a power loss undoes an acknowledged deletion | violated |
| PoolCatalog | ReopenAccepts, DerivedIdsUnique, SnapshotsFrozen over nested paths and one with an `@` | 180,145 states |
| PoolCatalogReused | create, rename, create: two datasets with one id | violated |
| PoolVolume | TailIsZero, FlushAddsOnly, ExportExclusive: two handles, rename, resize, snapshot and restore | 695,908 states |
| PoolLease | HolderIsKept, RestartAccepts, BlockedOneTerm, RestartRetiresTokens, and OwnersInFenceOrder: the refinement of FencedOwner | 1,094,548 states |
| PoolLeaseShared | two carriers of one node: the release of one ends the lease of the other | violated |
| IntentLog | AckedRebuilt, NotBehindRoot, FencedUntilReopen with two faults | 1,192,989 states |
| IntentLogUnlogged | a flushed log that the root under it cannot take | violated |

Deadlock is checked except in PoolCatalog and the lease and intent log runs. The
last two have clocks, requests, generations and faults that are bounded, and stop when
they have used them up; a Pool that `open` refuses stops, and so does a mount that
recovery refuses.

### Bounds

- MutationDeadline: two ticks to a millisecond make truncation visible; the
  clock passes the last grant, so expiry, renewal after expiry and late
  exchanges all happen. Two renewers race with each other and with the fence.
- PoolPublication: two objects, so a plan can be half done; four
  generations cover create, release, hand-off and removal of the cursor, and
  the exhausted generation; with two hand-offs in a pass the second one may fail.
  TornPutRoot is left out of the run because of finding 1; the proofs have it.
- PoolObject: two devices, two values, three receipt generations and three
  faults (a fault is a failed call or a process death): a crash in a call, a
  failure while it is cleaned up, a power loss after that. AckedIsRead is about
  puts, and its proof has no bounds. Of deletion less holds: DeletionIsFinal has
  no counterexample with two faults and has one with three, which is the run.
- PoolCatalog: two names and four paths give a parent, a child, a sibling and a
  name with an `@` that is also that of a snapshot; four creations hold a volume,
  a snapshot, its clone and one more, or an id that is given twice. PoolVolume
  has one volume, a second name to move it to, and two handles; four generations
  hold create, snapshot, a change and the restore, and a handle has one unflushed
  block at a time (`MaxDirty`).
- PoolLease: two nodes compete. A term of four milliseconds and a clock of four
  let a lease granted at the start expire and pass on; three requests are an
  acquire, a renewal or a release of it, and the acquire of the other node; two
  faults are a failed checkpoint and a crash, or a crash and an epoch change.
  Sub-millisecond effects are left to the proofs, which have no bounds. The
  carriers are symmetric.
- IntentLog: one name and two inodes give a name that is used again, and a
  directory with a file in it; three mutations between roots, with a batch of two
  and a depth limit of two, reach the automatic flush and the fallback entry;
  two faults are a failing call and a crash after it.

### Fairness

Only PoolPublication assumes any: weak fairness of `Step`, that is, a store
call in progress returns, with a result or an error. The code calls the store
synchronously and adds no lock or wait of its own. Crashes and new operations
are not fair.

## 4. Findings

Five runs end in a violation; each states what a comment or document of the
repository says.

1. *PoolObjectTorn.* A replacing put writes the payload before the receipt.
   After a crash in between, `get` answers None. For the canonical root, `open`
   then starts an empty Pool at generation 0: this is `TornPutRoot`, and under
   `Spec`, which has that action, ReopenOldOrNew does not hold.
2. *PoolObjectUndeleted.* A committed deletion whose payload sync failed is
   retried; the retry sees no payload, skips the sync and forgets the deletion;
   a power loss restores the payload.
3. *PoolCatalogReused.* A dataset's id is a digest of the path it was created
   under, and `rename` keeps it. Creating the old name again publishes a second
   dataset with that id, whose root replaces the first one's.
4. *PoolLeaseShared.* The authority answers an acquire from the node that holds
   the Pool with the lease it holds. A mount first looks for an owner it can reach
   and routes to it (`mount.rs:772`); two mounts on one node may both look before
   either owns the Pool. The slower one then gets the live token, finds the Pool
   imported, and releases the token before it hands over to the other
   (`mount.rs:1059`). The other goes on writing under a lease that is free for
   another node to take.
5. *IntentLogUnlogged.* Creates and attribute changes are logged, mkdir and
   unlink are not. A flushed entry may depend on one that is not in the log: a
   create in a new directory, or of a name that was removed. A power loss
   before the root leaves a log that recovery refuses, and with it the mount.

Six more behaviours have no run of their own. The first can be seen with one more
configuration.

- `renew_until` checks for expiry and then exchanges the word; a deadline that
  expires in between is revived. MutationDeadline with INVARIANT `LapseIsFinal`.
- `rename_dataset` accepts a path with `@`; the volume's snapshots then have two,
  and `open` refuses the Pool. ReopenAccepts names this and a shared id as the
  exceptions to what can be opened again, and the run PoolCatalog reaches both.
- After a process death, `open` acts on a Committed handoff that was never
  synced. A power loss then leaves Prepared copies over a half-purged object.
  With five faults in all, PoolObject reaches a state with two handoffs of one
  generation that name different carriers, which `open` refuses.
- What finding 2 leaves behind can be an older value than the acknowledged one.
  An object moved from one device to the other keeps its old payload on the
  first. Its deletion, a put that is cut short and the deletion of that can
  end with no receipt anywhere and a purge of that payload that was never synced;
  a power loss then restores it, and a read without a receipt finds it. This
  takes seven faults. AckedIsRead therefore says of a key that may have been
  deleted what a read finds only while there is a receipt.
- A `fallocate` that is refused for space (`lib.rs:11428`), or an append that
  fails, rolls back every mutation since the last root and clears the log, those
  included that were answered as durable. Other reservations take care not to:
  "Preserve any earlier accepted mutations in the open commit group instead of
  rolling the whole group back" (`lib.rs:10697`). IntentLog has the rollback as
  the code has it, and AckedRebuilt counts the rolled-back states as gone. If
  clearing the log fails as well, the error is dropped and the entries stay
  replayable; AckedRebuilt excludes that case with `stale`.
- A commit whose root is durable and cannot be read back returns before it clears
  the mutation delta. The next `force_commit` that fails rolls the delta back, and
  the mount is behind its root. NotBehindRoot names this as its exception.

The run PoolPublication leaves `TornPutRoot` out because of finding 1. It says
what holds once a put replaces an object in one step; GraphStored, PlansStored
and UncertainKeepsStore hold without that, and are proved of `Spec`, which has
the action.

## 5. Proofs

Proved by TLAPS for all constants that satisfy the named assumptions of the
modules (a positive number of ticks per millisecond, natural-number bounds,
separate key domains, a lease term of at least three milliseconds and two longer
than the longest renewal lead).

- `DeadlineTyped`, `DeadlineWithinGrant`, `AdmissionWithinGrant`, `FenceFinal`. The inductive
  invariant adds to TypeOK and WithinGrant what each program counter of a
  renewer knows: its elapsed reading is not ahead of the clock, and the deadline
  it computed lies within its grant, which `latestGrant` already covers; and
  that a word a gate has loaded lies within `latestGrant`. It is needed because
  the exchange publishes a value computed several steps earlier.
- `PublicationTyped`, `PendingPlansStored`, `CompositionStored`,
  `UncertainKeeps` of `Spec`. The invariant is
  `IInv == TypeOK /\ StoredInv /\ OrderedInv /\ SettledInv`. What storage and
  memory hold, and what is being published, has its objects and needed plans
  stored or still to be put (StoredInv). Two cursors never share a plan key,
  because the key carries the generation that published it (OrderedInv). While
  no outcome is unknown, memory and the canonical key agree (SettledInv).
  GraphStored alone is not inductive: the put of the root installs a composition
  about which it says nothing, a hand-off deletes what only the in-memory root
  protects, and finishing a plan could delete one that is still needed.
- `ReopenSelects`, `AdvancesByOne`, `ReclaimForgetsNothing` of `AtomicPutSpec`,
  from the same invariant and `ForgetInv`, which relates the keys handled in the
  current pass to what is stored.
- `LeaseTyped`, `RestartAlwaysAccepts`, `BlockedForOneTerm`, `RestartRetires` of PoolLease,
  wherever the carriers run. They follow from `Base`: types; that requests belong
  to exchanges of the current process of the authority (`Exchanges`); that every
  checkpoint on disk is valid, with the active token the last one granted
  (`Authority`); and that every token anywhere lies behind the counters of every
  checkpoint (`AllKnown`), which is what makes ids and fences of a recovered
  authority new. BlockedOneTerm counts renewals with `ahead`, because `renew` moves
  the deadline by at least a millisecond whatever the clock says, and nothing in
  the code bounds how often it is called: each renewal adds one to both sides,
  and each millisecond of the clock takes one from `ahead`.
- `WritersAreAlone`, `HoldersAreKept`, `ImplementsFenceOrder` of PoolLease, under
  `OneCarrierPerNode`, without which finding 4 refutes them. The invariant is
  `Backed` on top of Base: everything a carrier holds, or will hold when a grant
  under way reaches it, is kept by memory and by every checkpoint for at least as
  long; no release under way can end it, because its token is older; two carriers
  never have such a claim at once; and fences follow the latest owner's.
  SingleWriter alone is not inductive: it says nothing of grants, releases and
  checkpoints that are still to take effect. The carrier's deadline counts from
  the sending of its request and the authority's from a later reading of its
  clock; the one-millisecond margin covers the truncation. Recovery grants one term
  from its own start, so a holder whose renewals were `ahead` is kept only if the
  new process takes that much longer to start: `Restarts` assumes it, and the code
  does not wait for it. The carriers renew seconds apart, which keeps `ahead` small.
  SingleWriter is
  checked by TLC only in the run that refutes it, so WritersAreAlone names no
  run; OwnersInFenceOrder, which implies it for one carrier per node, is checked.
- `ObjectTyped`, `AckedPutsAreRead` of PoolObject, for any devices, values, copies
  and faults. AckedIsRead speaks of what a read finds now; a power loss
  may bring back older states of the devices. The invariant says
  of every state a device may come back with: the generations on it were handed
  out (`Numbers`); while a put is in progress, and after it, every deletion on a
  device or in memory is older than its receipt, so that no cleanup takes the put
  for the object it deletes (`PutFormed`); after an acknowledged put that nothing
  followed, every device keeps its receipt and the targets its payload
  (`AckedSettled`); when only puts followed, every device keeps a receipt that is
  not older (`AckedFloor`); and every receipt carries the acknowledged value or one
  that was asked for since (`AckedKnown`).
- `LogTyped`, `NeverBehindRoot`, `AckedStatesRebuilt`, `FenceHolds` of IntentLog, for
  any names, inodes, sizes and faults. FencedUntilReopen needs only that a fenced
  mount has no operation under way. AckedRebuilt is about what replaying an image
  of the log yields, and appends, flushes, commits and rollbacks change root, log
  and images one at a time. `Tracks` gives for every length of the log the
  state of the history that replaying so much of it yields, never going back,
  and at least the promised one for every image a power loss may leave. With it
  go: every image is a prefix of the log (`Imaged`); entries carry transactions
  and generations that the selection rule tells apart (`Anchored`, `Metas`); and
  the mutation delta leads back to the root (`Delta`), unless that root was not
  read back. NotBehindRoot is a statement about steps for the same reason.

The theorems of IntentLog need induction over the log. It is done with the least
counterexample of a set of numbers; a recursive function is shown to exist first,
for every length. The lemmas of IntentLog and PoolObject take what they use of
numbers and finite sets as hypotheses (`Leasts`, `SetFacts`), and the last section
of each proof module proves these from the library before the theorems: no theorem
assumes them.

Only model-checked: OperationsEnd, because liveness is out of the prover's reach;
the properties of PoolCatalog; and every violation.

## 6. What is not modelled

The repository has about 1.8 million lines; the modules stand for the core of
five crates and the lease path of the daemons, and `PROJECT.json` names every
other part with its reason. In PoolLease: several Pools, checkpoint encoding,
signatures, Pool labels (so neither the label a block carrier writes after its
release nor the time an import takes), and clocks that drift apart or stop. In
IntentLog: data intents, file contents and write buffers, rename and links,
the parent's size and times, byte limits of the log, the log device, and the ring of
older roots. In PoolCatalog: writes of a part of a chunk. Inside the other
modelled parts: encodings and digests (a digest is taken as injective),
erasure-coded placement, device removal, several keys in one Pool operation,
immutable-key puts, property sets and capacity accounting, the filesystem
engine's own roots (opaque to the namespace), and bit rot: reads of a device
succeed.

## 7. Plan

Order, most important behaviour first.

1. Data intents and write buffers in IntentLog, with truncation; the quota table
   and orphan index that are written after the root.
2. An abstract register with crash semantics; PoolObject shown to implement it
   where finding 1 allows; PoolPublication over PoolObject, including a delete
   that answers Ok(false).
3. PoolLease composed with MutationDeadline and with Pool labels and import.
4. Commit group; reclaim queue with pins and the orphan index.
5. Quorum write, membership epoch with witnesses, partition runtime, the lock
   table of `tidefs-lease`: lost, duplicated and reordered messages.
6. Device removal, node drain, rebuild; receive stream; ublk queue.
7. Pure algorithms against reference definitions: extent map, allocators,
   placement planner.

Theorems, in order: the refinement of step 2, the composition of step 3.
