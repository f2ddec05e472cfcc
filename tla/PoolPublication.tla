------------------------- MODULE PoolPublication --------------------------
(***************************************************************************)
(* How PoolRuntime moves a Pool from one composition to the next, at the   *)
(* granularity of its calls on the object store.  Immutable objects are    *)
(* put first, the canonical root is put last, and objects that a destroy   *)
(* released are deleted afterwards through a reclaim plan that is itself   *)
(* published in the root.  Calls fail, and the process may die, between    *)
(* any two of them.                                                        *)
(*                                                                         *)
(* What a composition holds is abstracted to what publication can get      *)
(* wrong: its generation, the set `live` of every object its typed roots   *)
(* reach (roots, captured roots, map nodes, chunks), and its reclaim       *)
(* cursors.  A cursor's index into the sorted plan becomes the set of keys *)
(* at and after it.  Any store key that is handed out in plan order is     *)
(* here any key of that set.                                               *)
(*                                                                         *)
(* Pool::put is durable when it returns Ok (it syncs every receipt         *)
(* carrier), so is Pool::delete; one that returns Err may have happened.   *)
(* PoolObject models that layer.                                           *)
(***************************************************************************)
EXTENDS Integers, Sequences

CONSTANTS Objects,        \* keys of semantic objects
          MaxGeneration,  \* the last generation: u64::MAX in the code
          MaxPlans,       \* MAX_PENDING_VOLUME_RECLAIM_PLANS
          HandoffLimit    \* VOLUME_RECLAIM_HANDOFF_LIMIT

Generations == 0..MaxGeneration

\* volume_reclaim_plan_key hashes the publishing generation and the plan.
Plans == [generation: Generations, keys: SUBSET Objects]

ASSUME BoundsAssumption ==
  /\ MaxGeneration \in Nat
  /\ MaxPlans \in Nat
  /\ HandoffLimit \in Nat

\* Object and plan keys come from separate key domains.
ASSUME KeysAssumption == Objects \cap Plans = {}

Keys == Objects \cup Plans

Cursors == [plan: Plans, todo: SUBSET Objects]

Compositions == [generation: Generations, live: SUBSET Objects,
                 cursors: Seq(Cursors)]

\* What open installs when the canonical key reads as absent.
EmptyComposition == [generation |-> 0, live |-> {}, cursors |-> <<>>]

VARIABLES
  stored,          \* the keys a read finds
  disk,            \* the composition the canonical key holds
  open,            \* a PoolRuntime exists
  root,            \* its in-memory composition
  requires_reopen, \* publication_requires_reopen
  job,             \* the operation in progress
  acked,           \* history: the last composition publication or open returned
  attempt          \* history: the last composition whose put was tried

vars == <<stored, disk, open, root, requires_reopen, job, acked, attempt>>
storage == <<stored, disk>>

\* pc: "flush" puts the chunks of a volume, "stage" other immutable objects,
\* "root" is about to put `next` under the canonical key, "sync" about to sync
\* it, "reclaim" is in the reclaim loop.
Jobs == [pc: {"idle", "flush", "stage", "root", "sync", "reclaim"},
         next: Compositions,    \* the composition being published
         puts: SUBSET Keys,     \* objects still to put
         finish: BOOLEAN,       \* the reclaim loop runs after the publication
         remaining: 0..HandoffLimit,
         done: SUBSET Objects]  \* chunks put so far by a flush, or keys of the
                                \* first cursor handled this round

Idle == [pc |-> "idle", next |-> EmptyComposition, puts |-> {},
         finish |-> FALSE, remaining |-> 0, done |-> {}]

ResumeReclaim(limit) ==
  [Idle EXCEPT !.pc = "reclaim", !.remaining = limit]

Staging(next, puts, finish) ==
  [pc |-> IF puts = {} THEN "root" ELSE "stage", next |-> next, puts |-> puts,
   finish |-> finish, remaining |-> HandoffLimit, done |-> {}]

\* Publications made by the reclaim loop itself stage nothing.
Advancing(next, finish, remaining) ==
  [pc |-> "root", next |-> next, puts |-> {},
   finish |-> finish, remaining |-> remaining, done |-> {}]

TypeOK ==
  /\ stored \in SUBSET Keys
  /\ disk \in Compositions
  /\ root \in Compositions
  /\ acked \in Compositions
  /\ attempt \in Compositions
  /\ open \in BOOLEAN
  /\ requires_reopen \in BOOLEAN
  /\ job \in Jobs

Init ==
  /\ stored = {}
  /\ disk = EmptyComposition /\ root = EmptyComposition
  /\ acked = EmptyComposition /\ attempt = EmptyComposition
  /\ open = FALSE
  /\ requires_reopen = FALSE
  /\ job = Idle

----------------------------------------------------------------------------
(* Operations up to the canonical root *)

\* Mutant: next_generation does not check for exhaustion.
MayBeginExhausted ==
  /\ open
  /\ job.pc = "idle"
  /\ ~requires_reopen

\* ensure_publishable and next_generation, before anything is put; one
\* operation at a time (&mut self)
MayBegin ==
  /\ open
  /\ job.pc = "idle"
  /\ ~requires_reopen
  /\ root.generation < MaxGeneration

\* Create, resize, restore, snapshot, clone, promote, rename, metadata: the
\* successor keeps objects of the root and adds the ones it puts.
BeginUpdate(live, puts) ==
  /\ MayBegin
  /\ puts \subseteq live
  /\ live \ puts \subseteq root.live
  /\ job' = Staging([root EXCEPT !.generation = @ + 1, !.live = live],
                    puts, FALSE)
  /\ UNCHANGED <<storage, open, root, requires_reopen, acked, attempt>>

\* PoolVolume::flush puts chunks and map nodes without asking whether the
\* runtime may publish.
BeginFlush(chunks) ==
  /\ open
  /\ job.pc = "idle"
  /\ job' = [Idle EXCEPT !.pc = "flush", !.puts = chunks]
  /\ UNCHANGED <<storage, open, root, requires_reopen, acked, attempt>>

PutChunk(k) ==
  /\ job.pc = "flush"
  /\ k \in job.puts
  /\ stored' = stored \cup {k}
  /\ job' = [job EXCEPT !.puts = @ \ {k}, !.done = @ \cup {k}]
  /\ UNCHANGED <<disk, open, root, requires_reopen, acked, attempt>>

\* publish_dataset_root asks, then puts the volume's root like any update.
FlushRoot(live, puts) ==
  /\ job.pc = "flush"
  /\ job.puts = {}
  /\ ~requires_reopen
  /\ root.generation < MaxGeneration
  /\ puts \subseteq live
  /\ live \ puts \subseteq root.live \cup job.done
  /\ job' = Staging([root EXCEPT !.generation = @ + 1, !.live = live],
                    puts, FALSE)
  /\ UNCHANGED <<storage, open, root, requires_reopen, acked, attempt>>

\* The sync of the chunks fails, or publish_dataset_root refuses.
RefuseFlush ==
  /\ job.pc = "flush"
  /\ job.puts = {}
  /\ job' = Idle
  /\ UNCHANGED <<storage, open, root, requires_reopen, acked, attempt>>

\* Mutant: the cursor is published without its plan being put.
BeginReleaseUnstaged(live) ==
  LET released == root.live \ live
      plan == [generation |-> root.generation + 1, keys |-> released]
  IN /\ MayBegin
     /\ live \subseteq root.live
     /\ Len(root.cursors) < MaxPlans
     /\ job' = Staging([root EXCEPT !.generation = @ + 1, !.live = live,
                          !.cursors = Append(@, [plan |-> plan, todo |-> released])],
                       {}, TRUE)
     /\ UNCHANGED <<storage, open, root, requires_reopen, acked, attempt>>

\* destroy_volume, destroy_volume_clone, destroy_volume_snapshot: everything
\* only the released root reached goes into one plan.
BeginRelease(live) ==
  LET released == root.live \ live
      plan == [generation |-> root.generation + 1, keys |-> released]
      bumped == [root EXCEPT !.generation = @ + 1, !.live = live]
  IN /\ MayBegin
     /\ live \subseteq root.live
     /\ Len(root.cursors) < MaxPlans
     /\ job' = IF released = {}
                 THEN Staging(bumped, {}, TRUE)
                 ELSE Staging([bumped EXCEPT !.cursors =
                                 Append(@, [plan |-> plan, todo |-> released])],
                              {plan}, TRUE)
     /\ UNCHANGED <<storage, open, root, requires_reopen, acked, attempt>>

\* One immutable object or plan is put; the last put is followed by sync_all.
PutObject(k) ==
  /\ job.pc = "stage"
  /\ k \in job.puts
  /\ stored' = stored \cup {k}
  /\ job' = [job EXCEPT !.puts = @ \ {k},
                        !.pc = IF job.puts = {k} THEN "root" ELSE "stage"]
  /\ UNCHANGED <<disk, open, root, requires_reopen, acked, attempt>>

\* A failed put may have reached the store; the operation returns its error.
PutObjectFails(k) ==
  /\ job.pc \in {"flush", "stage"}
  /\ k \in job.puts
  /\ stored' \in {stored, stored \cup {k}}
  /\ job' = Idle
  /\ UNCHANGED <<disk, open, root, requires_reopen, acked, attempt>>

\* Any refusal before the canonical root is touched: sync_all after the puts,
\* a capacity or type check, or an expired external mutation deadline.
Refuse ==
  /\ job.pc = "root"
  /\ job' = Idle
  /\ UNCHANGED <<storage, open, root, requires_reopen, acked, attempt>>

----------------------------------------------------------------------------
(* publish_root *)

PutRoot ==
  /\ job.pc = "root"
  /\ ~requires_reopen
  /\ disk' = job.next
  /\ attempt' = job.next
  /\ job' = [job EXCEPT !.pc = "sync"]
  /\ UNCHANGED <<stored, open, root, requires_reopen, acked>>

\* Mutant: a failed put of the root is taken for a refusal.
PutRootFailsQuietly ==
  /\ job.pc = "root"
  /\ ~requires_reopen
  /\ disk' \in {disk, job.next}
  /\ attempt' = job.next
  /\ job' = Idle
  /\ UNCHANGED <<stored, open, root, requires_reopen, acked>>

\* Mutant: the in-memory root is replaced although the put failed.
PutRootFailsInstalled ==
  /\ job.pc = "root"
  /\ ~requires_reopen
  /\ disk' \in {disk, job.next}
  /\ attempt' = job.next
  /\ root' = job.next
  /\ acked' = job.next
  /\ job' = Idle
  /\ UNCHANGED <<stored, open, requires_reopen>>

\* Mutant: a destroy goes on to reclaim although its root is uncertain.
PutRootFailsReclaims ==
  /\ job.pc = "root"
  /\ ~requires_reopen
  /\ disk' \in {disk, job.next}
  /\ attempt' = job.next
  /\ requires_reopen' = TRUE
  /\ job' = IF job.finish THEN ResumeReclaim(job.remaining) ELSE Idle
  /\ UNCHANGED <<stored, open, root, acked>>

PutRootFails ==
  /\ job.pc = "root"
  /\ ~requires_reopen
  /\ disk' \in {disk, job.next}
  /\ attempt' = job.next
  /\ requires_reopen' = TRUE
  /\ job' = Idle
  /\ UNCHANGED <<stored, open, root, acked>>

SyncRoot ==
  /\ job.pc = "sync"
  /\ root' = job.next
  /\ acked' = job.next
  /\ job' = IF job.finish THEN ResumeReclaim(job.remaining) ELSE Idle
  /\ UNCHANGED <<storage, open, requires_reopen, attempt>>

SyncRootFails ==
  /\ job.pc = "sync"
  /\ requires_reopen' = TRUE
  /\ job' = Idle
  /\ UNCHANGED <<storage, open, root, acked, attempt>>

----------------------------------------------------------------------------
(* resume_volume_reclaim: the first cursor, key by key *)

First == Head(root.cursors)

InReclaim ==
  /\ job.pc = "reclaim"
  /\ root.cursors # <<>>

\* The keys of this round: the plan loads and the limit is not used up.
Handing(k) ==
  /\ InReclaim
  /\ First.plan \in stored
  /\ job.remaining > 0
  /\ k \in First.todo \ job.done

\* Mutant: the protected set is ignored.
HandOffUnprotected(k) ==
  /\ Handing(k)
  /\ stored' = stored \ {k}
  /\ job' = [job EXCEPT !.done = @ \cup {k}, !.remaining = @ - 1]
  /\ UNCHANGED <<disk, open, root, requires_reopen, acked, attempt>>

\* A key the root reaches again is passed over, any other one is deleted.
HandOff(k) ==
  /\ Handing(k)
  /\ stored' = IF k \in root.live THEN stored ELSE stored \ {k}
  /\ job' = [job EXCEPT !.done = @ \cup {k}, !.remaining = @ - 1]
  /\ UNCHANGED <<disk, open, root, requires_reopen, acked, attempt>>

AdvancedRoot ==
  [root EXCEPT !.generation = @ + 1,
               !.cursors[1].todo = @ \ job.done]

\* Mutant: an exhausted generation starts the pass again.
PublishFromReclaimAgain(next, continue) ==
  job' = IF root.generation < MaxGeneration
           THEN Advancing(next, continue, job.remaining)
           ELSE ResumeReclaim(HandoffLimit)

\* publish_root, or the generation is exhausted and the loop breaks.
PublishFromReclaim(next, continue) ==
  job' = IF root.generation < MaxGeneration
           THEN Advancing(next, continue, job.remaining)
           ELSE Idle

\* Mutant: the key whose delete failed is counted as advanced.
HandOffFailsCounted(k) ==
  /\ Handing(k)
  /\ k \notin root.live
  /\ stored' \in {stored, stored \ {k}}
  /\ PublishFromReclaim(
       [AdvancedRoot EXCEPT !.cursors[1].todo = @ \ {k}], FALSE)
  /\ UNCHANGED <<disk, open, root, requires_reopen, acked, attempt>>

\* A failed delete ends the loop; what was handed off before it is published.
HandOffFails(k) ==
  /\ Handing(k)
  /\ k \notin root.live
  /\ stored' \in {stored, stored \ {k}}
  /\ IF job.done = {} THEN job' = Idle
                      ELSE PublishFromReclaim(AdvancedRoot, FALSE)
  /\ UNCHANGED <<disk, open, root, requires_reopen, acked, attempt>>

AdvanceCursor ==
  /\ InReclaim
  /\ job.done # {}
  /\ job.done = First.todo \/ job.remaining = 0
  /\ PublishFromReclaim(AdvancedRoot, TRUE)
  /\ UNCHANGED <<storage, open, root, requires_reopen, acked, attempt>>

\* A completed cursor: its plan goes first, then the cursor.
FinishPlan ==
  /\ InReclaim
  /\ First.todo = {}
  /\ stored' = stored \ {First.plan}
  /\ PublishFromReclaim([root EXCEPT !.generation = @ + 1, !.cursors = Tail(@)],
                        TRUE)
  /\ UNCHANGED <<disk, open, root, requires_reopen, acked, attempt>>

FinishPlanFails ==
  /\ InReclaim
  /\ First.todo = {}
  /\ stored' \in {stored, stored \ {First.plan}}
  /\ job' = Idle
  /\ UNCHANGED <<disk, open, root, requires_reopen, acked, attempt>>

\* Nothing pending, the limit reached, or a plan that does not load.
ReclaimStops ==
  /\ job.pc = "reclaim"
  /\ \/ root.cursors = <<>>
     \/ /\ root.cursors # <<>>
        /\ First.todo # {}
        /\ job.done = {}
        /\ job.remaining = 0 \/ First.plan \notin stored
  /\ job' = Idle
  /\ UNCHANGED <<storage, open, root, requires_reopen, acked, attempt>>

----------------------------------------------------------------------------
(* Process death and PoolRuntime::open *)

Crash ==
  /\ open
  /\ open' = FALSE
  /\ root' = EmptyComposition
  /\ requires_reopen' = FALSE
  /\ job' = Idle
  /\ UNCHANGED <<storage, acked, attempt>>

\* open loads what the typed roots name and fails if an object is missing.
Open ==
  /\ ~open
  /\ disk.live \subseteq stored
  /\ open' = TRUE
  /\ root' = disk
  /\ acked' = disk
  /\ attempt' = disk
  /\ job' = ResumeReclaim(HandoffLimit)
  /\ UNCHANGED <<storage, requires_reopen>>

\* Pool::put of the canonical root stops after the new bytes replaced the old
\* ones and before the new receipt replaced the old one: the process dies
\* there, or the receipt write fails and so does its rollback.  The old receipt
\* does not accept the new bytes, Pool::get answers None, and open takes the
\* Pool for a fresh one.  PoolObject derives this from the steps of the put.
TornPutRoot ==
  /\ job.pc = "root"
  /\ ~requires_reopen
  /\ disk' = EmptyComposition
  /\ attempt' = job.next
  /\ job' = Idle
  /\ \/ open' = FALSE /\ root' = EmptyComposition /\ UNCHANGED requires_reopen
     \/ requires_reopen' = TRUE /\ UNCHANGED <<open, root>>
  /\ UNCHANGED <<stored, acked>>

----------------------------------------------------------------------------

Begin ==
  \/ \E live \in SUBSET Objects : \E puts \in SUBSET live : BeginUpdate(live, puts)
  \/ \E chunks \in SUBSET Objects \ {{}} : BeginFlush(chunks)
  \/ \E live \in SUBSET root.live : BeginRelease(live)

Step ==
  \/ \E k \in Objects : PutChunk(k)
  \/ \E live \in SUBSET Objects : \E puts \in SUBSET live : FlushRoot(live, puts)
  \/ RefuseFlush
  \/ \E k \in Keys : PutObject(k) \/ PutObjectFails(k)
  \/ Refuse
  \/ PutRoot \/ PutRootFails
  \/ SyncRoot \/ SyncRootFails
  \/ \E k \in Objects : HandOff(k) \/ HandOffFails(k)
  \/ AdvanceCursor
  \/ FinishPlan \/ FinishPlanFails
  \/ ReclaimStops

AtomicPutNext == Begin \/ Step \/ Crash \/ Open

Next == AtomicPutNext \/ TornPutRoot

Spec == Init /\ [][Next]_vars

\* The same Pool over a store whose put replaces an object in one step.
AtomicPutSpec == Init /\ [][AtomicPutNext]_vars

\* A call on the store returns, with a result or an error.
FairSpec == AtomicPutSpec /\ WF_vars(Step)

----------------------------------------------------------------------------

\* Everything a reopen would select is there: the composition the canonical
\* key holds, and the one in memory, reach only objects a read finds, whatever
\* puts, reclaim deletes, failures and crashes came before (open, publish_root,
\* resume_volume_reclaim).
GraphStored ==
  /\ disk.live \subseteq stored
  /\ open => root.live \subseteq stored

\* A published cursor that still has keys to hand off can load its plan, so
\* reclaim survives a crash at any point (resume_volume_reclaim).
PlansStored ==
  \A i \in 1..Len(disk.cursors) :
    disk.cursors[i].todo # {} => disk.cursors[i].plan \in stored

\* A reopen selects the last acknowledged composition or the one whose
\* publication was in flight, never a third (the promise of lib.rs:6-10).
ReopenOldOrNew == disk \in {acked, attempt}

\* The canonical key moves one generation at a time: no publication overwrites
\* a composition it was not built from, also after an uncertain outcome.
DiskAdvances ==
  [][disk' = disk \/ disk'.generation = disk.generation + 1]_vars

\* After PublicationOutcomeUncertain nothing is published and nothing is
\* reclaimed until a reopen: the root in memory may not be the durable one.
\* What a volume flush still puts, before publish_dataset_root refuses it, only
\* adds to the store.
UncertainKeepsStore ==
  [][requires_reopen => disk' = disk /\ stored \subseteq stored']_vars

PendingKeys(c) == UNION {c.cursors[i].todo : i \in 1..Len(c.cursors)}

\* A key leaves the published cursors only when its object is gone or is
\* reachable again: reclaim does not forget an object it failed to delete.
NothingForgotten ==
  [][\A k \in PendingKeys(disk) \ PendingKeys(disk') :
       k \notin stored' \/ k \in disk'.live]_vars

\* Every operation ends, the reclaim loop with its failing deletes included.
OperationsEnd == job.pc # "idle" ~> job.pc = "idle"

============================================================================
