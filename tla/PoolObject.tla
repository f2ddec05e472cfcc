---------------------------- MODULE PoolObject ----------------------------
(***************************************************************************)
(* Pool::put, Pool::get and Pool::delete of one key, device call by device *)
(* call, for the replicated policy.  A device is an append-only log: what  *)
(* it answers is its latest state, what it has after a power loss is any   *)
(* state it went through since its last sync.                              *)
(*                                                                         *)
(* A payload is its value, and a receipt carries the value instead of its  *)
(* digest.  Devices are always present and reads of them succeed; a write  *)
(* or a sync may fail, and a failed write may still have happened.  The    *)
(* devices of a phase are visited in any order.  Receipt generations come  *)
(* from a durable reservation and are never reused; the sync of every      *)
(* device that a new reservation brings is left out, so the model may lose *)
(* more than the code.                                                     *)
(***************************************************************************)
EXTENDS Integers, FiniteSets, FiniteSetsExt

CONSTANTS Devices,        \* the devices of the I/O class
          Values,         \* payloads
          None,           \* no payload, no receipt
          Copies,         \* replicas of PoolRedundancyPolicy::Replicated
          MaxGeneration,  \* bound on puts
          MaxFaults       \* bound on failed calls and process deaths

Receipts == [generation: 1..MaxGeneration, value: Values,
             targets: kSubset(Copies, Devices)]

\* PoolPendingDeletion
Pendings == [receipt: Receipts, carriers: SUBSET Devices,
             phase: {"prepared", "committed"}]

ASSUME ObjectAssumption ==
  /\ None \notin Values \cup Receipts \cup Pendings
  /\ Copies \in 1..Cardinality(Devices)
  /\ MaxGeneration \in Nat
  /\ MaxFaults \in Nat

DeviceStates == [payload: Values \cup {None},
                 receipt: Receipts \cup {None},
                 handoff: SUBSET Pendings]

VARIABLES
  now,         \* what each device answers
  may,         \* the states each device may have after a power loss
  generation,  \* the last receipt generation handed out
  open,        \* a Pool exists
  pendings,    \* its pending_deletions
  op,          \* the call in progress
  acked,       \* history: the value the last successful call left
  maybe,       \* history: the outcomes of calls that did not succeed since
  faults       \* failures and process deaths so far

vars == <<now, may, generation, open, pendings, op, acked, maybe, faults>>
storage == <<now, may>>
history == <<acked, maybe>>

EmptyDevice == [payload |-> None, receipt |-> None, handoff |-> {}]

Idle == [pc |-> "idle", receipt |-> None, todo |-> {}, span |-> {},
         field |-> "payload", prev |-> [d \in Devices |-> EmptyDevice],
         ok |-> TRUE, pend |-> None, newer |-> None, queue |-> {},
         then |-> "idle"]

Ops == [pc: {"idle", "payload", "receipt", "sync", "stale",
             "undo", "undosync",
             "preflight", "handoff", "handoffsync", "finish",
             "reconcile", "purge", "purgereceipt", "clear"},
        receipt: Receipts \cup {None},   \* the receipt a put publishes
        todo: SUBSET Devices,            \* devices this phase has to visit
        span: SUBSET Devices,            \* devices a rollback covers
        field: {"payload", "receipt", "handoff"},  \* what it rolls back
        prev: [Devices -> DeviceStates], \* `previous`, read before the writes
        ok: BOOLEAN,                     \* rollback complete, or durable_copy
        pend: Pendings \cup {None},      \* the deletion being worked on
        newer: Receipts \cup {None},     \* the receipt that superseded it
        queue: SUBSET Pendings,          \* deletions still to reconcile
        then: {"idle", "put", "delete", "redelete"}]

TypeOK ==
  /\ now \in [Devices -> DeviceStates]
  /\ may \in [Devices -> SUBSET DeviceStates]
  /\ \A d \in Devices : now[d] \in may[d]
  /\ generation \in 0..MaxGeneration
  /\ open \in BOOLEAN
  /\ pendings \in SUBSET Pendings
  /\ op \in Ops
  /\ acked \in Values \cup {None}
  /\ maybe \in SUBSET (Values \cup {None})
  /\ faults \in 0..MaxFaults

Init ==
  /\ now = [d \in Devices |-> EmptyDevice]
  /\ may = [d \in Devices |-> {EmptyDevice}]
  /\ generation = 0
  /\ open = TRUE
  /\ pendings = {}
  /\ op = Idle
  /\ acked = None /\ maybe = {}
  /\ faults = 0

----------------------------------------------------------------------------
(* Devices *)

Write(d, state) ==
  /\ now' = [now EXCEPT ![d] = state]
  /\ may' = [may EXCEPT ![d] = @ \cup {state}]

\* sync_strict_pool_authority
Sync(d) ==
  /\ may' = [may EXCEPT ![d] = {now[d]}]
  /\ UNCHANGED now

\* A write and its sync; a failure between the two is WriteFails.
WriteSync(d, state) ==
  /\ now' = [now EXCEPT ![d] = state]
  /\ may' = [may EXCEPT ![d] = {state}]

Fault == faults < MaxFaults /\ faults' = faults + 1

\* "A device write may report an error after the record reached media."
WriteFails(d, state) ==
  /\ Fault
  /\ Write(d, state) \/ UNCHANGED storage

SyncFails == Fault /\ UNCHANGED storage

----------------------------------------------------------------------------
(* Reading *)

ReceiptsFound == {now[d].receipt : d \in Devices} \ {None}

\* load_placement_receipt: the newest receipt on any device
Best == IF ReceiptsFound = {}
          THEN None
          ELSE CHOOSE r \in ReceiptsFound :
                 \A s \in ReceiptsFound : s.generation <= r.generation

RawVisible == \E d \in Devices : now[d].payload # None

\* load_current_placement_receipt_strict and logical_raw_payload_visible refuse:
\* receipts of two generations, or there is none but a payload is visible.
NoAuthority ==
  \/ Cardinality(ReceiptsFound) > 1
  \/ ReceiptsFound = {} /\ RawVisible

\* pending_deletion_hides_generation
Hidden(r) ==
  \E p \in pendings :
    /\ p.phase = "committed"
    /\ r = None \/ p.receipt.generation >= r.generation

\* What get may return.  Only the order of the devices is left open.
Get ==
  IF Hidden(Best) THEN {None}
  ELSE IF Best # None
    THEN IF \E d \in Best.targets : now[d].payload = Best.value
           THEN {Best.value} ELSE {None}
    ELSE IF RawVisible
           THEN {now[d].payload : d \in Devices} \ {None} ELSE {None}

----------------------------------------------------------------------------
(* put: payloads, receipts, sync *)

\* The old receipt must be unambiguous, and without one no payload may be
\* visible; otherwise put returns its error having changed nothing.
BeginPut(v, targets) ==
  /\ open /\ op.pc = "idle"
  /\ ~NoAuthority
  /\ generation < MaxGeneration
  /\ generation' = generation + 1
  /\ op' = [Idle EXCEPT !.pc = "payload", !.todo = targets, !.prev = now,
                        !.receipt = [generation |-> generation + 1,
                                     value |-> v, targets |-> targets]]
  /\ maybe' = maybe \cup {v}
  /\ UNCHANGED <<storage, open, pendings, acked, faults>>

\* restore_and_sync_device_objects over the devices of `span`
Undo(o, field, span) ==
  [o EXCEPT !.pc = "undo", !.field = field, !.span = span, !.todo = span,
            !.ok = TRUE]

\* The phase goes on with the other devices, or the next one starts.
After(d, next) ==
  IF op.todo = {d} THEN next ELSE [op EXCEPT !.todo = @ \ {d}]

Visiting(pc, d) == op.pc = pc /\ d \in op.todo

PutPayload(d) ==
  LET state == [now[d] EXCEPT !.payload = op.receipt.value]
  IN /\ Visiting("payload", d)
     /\ \/ /\ Write(d, state)
           /\ op' = After(d, [op EXCEPT !.pc = "receipt", !.todo = Devices])
           /\ UNCHANGED faults
        \/ /\ WriteFails(d, state)
           /\ op' = Undo(op, "payload", op.receipt.targets)
     /\ UNCHANGED <<generation, open, pendings, history>>

\* A failed receipt write rolls back the prefix and the failing device.
PutReceipt(d) ==
  LET state == [now[d] EXCEPT !.receipt = op.receipt]
  IN /\ Visiting("receipt", d)
     /\ \/ /\ Write(d, state)
           /\ op' = After(d, [op EXCEPT !.pc = "sync", !.todo = Devices])
           /\ UNCHANGED faults
        \/ /\ WriteFails(d, state)
           /\ op' = Undo(op, "receipt", (Devices \ op.todo) \cup {d})
     /\ UNCHANGED <<generation, open, pendings, history>>

\* The verification that follows reads back what was just written.
SyncReceipt(d) ==
  /\ Visiting("sync", d)
  /\ \/ /\ Sync(d)
        /\ op' = After(d, [op EXCEPT !.pc = "stale",
                                     !.todo = Devices \ op.receipt.targets])
        /\ UNCHANGED faults
     \/ /\ SyncFails
        /\ op' = Undo(op, "receipt", Devices)
  /\ UNCHANGED <<generation, open, pendings, history>>

\* cleanup_stale_replicated_copies: errors are ignored, nothing is synced
DropStale(d) ==
  LET state == [now[d] EXCEPT !.payload = None]
  IN /\ Visiting("stale", d)
     /\ \/ Write(d, state) /\ UNCHANGED faults
        \/ WriteFails(d, state)
     /\ op' = [op EXCEPT !.todo = @ \ {d}]
     /\ UNCHANGED <<generation, open, pendings, history>>

\* Deletions of earlier generations are reconciled before put returns.
StaleDropped ==
  /\ op.pc = "stale" /\ op.todo = {}
  /\ op' = [op EXCEPT !.pc = "reconcile", !.then = "put",
              !.queue = {p \in pendings :
                           p.receipt.generation < op.receipt.generation}]
  /\ UNCHANGED <<storage, generation, open, pendings, history, faults>>

----------------------------------------------------------------------------
(* Rollback: all restores, then, if none failed, all syncs *)

\* Receipts first, then payloads; the call returns its error.  A committed
\* deletion that cannot be rolled back is finished instead.
UndoDone(o) ==
  CASE o.field = "receipt" -> Undo(o, "payload", o.receipt.targets)
    [] o.field = "payload" -> Idle
    [] o.field = "handoff" ->
         IF o.ok \/ o.pend.phase = "prepared" THEN Idle
         ELSE [o EXCEPT !.pc = "finish", !.todo = o.pend.carriers, !.ok = FALSE]

Undone(d, ok) ==
  LET o == [op EXCEPT !.todo = @ \ {d}, !.ok = ok]
  IN IF o.todo # {} THEN o
     ELSE IF o.pc = "undo" /\ ok
       THEN [o EXCEPT !.pc = "undosync", !.todo = op.span]
       ELSE UndoDone(o)

UndoWrite(d) ==
  LET state == [now[d] EXCEPT ![op.field] = op.prev[d][op.field]]
  IN /\ Visiting("undo", d)
     /\ \/ Write(d, state) /\ op' = Undone(d, op.ok) /\ UNCHANGED faults
        \/ WriteFails(d, state) /\ op' = Undone(d, FALSE)
     /\ UNCHANGED <<generation, open, pendings, history>>

UndoSync(d) ==
  /\ Visiting("undosync", d)
  /\ \/ Sync(d) /\ op' = Undone(d, op.ok) /\ UNCHANGED faults
     \/ SyncFails /\ op' = Undone(d, FALSE)
  /\ UNCHANGED <<generation, open, pendings, history>>

----------------------------------------------------------------------------
(* delete: a Prepared handoff on every carrier, a Committed one, cleanup *)

Generation(p) == p.receipt.generation

\* pending_deletion_for_subject, or None
Subject ==
  IF pendings = {} THEN None
  ELSE CHOOSE p \in pendings :
         \A q \in pendings : Generation(q) <= Generation(p)

\* Mutant: delete does not ask whether a deletion is pending.
BeginDeleteUnasked ==
  /\ open /\ op.pc = "idle"
  /\ op' = [Idle EXCEPT !.pc = "reconcile", !.queue = {Subject},
                        !.pend = Subject, !.then = "redelete"]
  /\ maybe' = maybe \cup {None}
  /\ UNCHANGED <<storage, generation, open, pendings, acked, faults>>

\* A deletion that is already pending is worked on first.
BeginDelete ==
  /\ open /\ op.pc = "idle"
  /\ op' = [Idle EXCEPT
              !.pc = IF Subject = None THEN "preflight" ELSE "reconcile",
              !.queue = IF Subject = None THEN {} ELSE {Subject},
              !.pend = Subject, !.then = "redelete"]
  /\ maybe' = maybe \cup {None}
  /\ UNCHANGED <<storage, generation, open, pendings, acked, faults>>

\* The pending deletion covers every receipt left: Ok(false).
AlreadyDeleted ==
  /\ op.pend # None
  /\ op.pend.phase = "committed"
  /\ Cardinality(ReceiptsFound) <= 1
  /\ \A r \in ReceiptsFound : r.generation <= Generation(op.pend)

Carriers(r) == {d \in Devices : now[d].receipt = r}

Preflight ==
  /\ op.pc = "preflight"
  /\ \/ /\ AlreadyDeleted
        /\ op' = Idle
        /\ acked' = None /\ maybe' = {}
     \/ /\ ~AlreadyDeleted
        /\ NoAuthority \/ ReceiptsFound = {}  \* an error, or nothing to delete
        /\ op' = Idle
        /\ UNCHANGED history
     \/ /\ ~AlreadyDeleted
        /\ Cardinality(ReceiptsFound) = 1
        /\ op' = [op EXCEPT !.pc = "handoff", !.prev = now,
                    !.todo = Carriers(Best),
                    !.pend = [receipt |-> Best, carriers |-> Carriers(Best),
                              phase |-> "prepared"]]
        /\ UNCHANGED history
  /\ UNCHANGED <<storage, generation, open, pendings, faults>>

\* The handoff key holds the pending deletion of its generation.
WithHandoff(state, p) ==
  [state EXCEPT !.handoff =
     {q \in @ : Generation(q) # Generation(p)} \cup {p}]

WithoutHandoff(state, p) ==
  [state EXCEPT !.handoff = {q \in @ : Generation(q) # Generation(p)}]

PutHandoff(d) ==
  LET state == WithHandoff(now[d], op.pend)
  IN /\ Visiting("handoff", d)
     /\ \/ /\ Write(d, state)
           /\ op' = After(d, [op EXCEPT !.pc = "handoffsync",
                                        !.todo = op.pend.carriers])
           /\ UNCHANGED faults
        \/ /\ WriteFails(d, state)
           /\ op' = Undo(op, "handoff", (op.pend.carriers \ op.todo) \cup {d})
     /\ UNCHANGED <<generation, open, pendings, history>>

Insert(p) == {q \in pendings : Generation(q) # Generation(p)} \cup {p}

\* Cleanup of a committed deletion, before delete returns Ok(true).
Purging(o, newer) ==
  [o EXCEPT !.pc = "purge", !.newer = newer,
     !.todo = o.pend.receipt.targets
                \ (IF newer = None THEN {} ELSE newer.targets)]

SyncHandoff(d) ==
  /\ Visiting("handoffsync", d)
  /\ \/ /\ Sync(d)
        /\ op' = After(d,
             IF op.pend.phase = "prepared"
               THEN [op EXCEPT !.pc = "handoff", !.todo = op.pend.carriers,
                               !.prev = now, !.pend.phase = "committed"]
               ELSE Purging([op EXCEPT !.then = "delete"], None))
        /\ pendings' = IF op.todo = {d} THEN Insert(op.pend) ELSE pendings
        /\ UNCHANGED faults
     \/ /\ SyncFails
        /\ op' = Undo(op, "handoff", op.pend.carriers)
        /\ UNCHANGED pendings
  /\ UNCHANGED <<generation, open, history>>

\* finish_committed_pending_deletion_after_rollback_failure: one durable copy
\* of Committed is the decision.
FinishCommitted(d) ==
  LET state == WithHandoff(now[d], op.pend)
  IN \E durable \in BOOLEAN :
       /\ Visiting("finish", d)
       /\ IF durable
            THEN WriteSync(d, state) /\ UNCHANGED faults
            ELSE WriteFails(d, state)
       /\ LET o == [op EXCEPT !.todo = @ \ {d}, !.ok = op.ok \/ durable]
          IN /\ op' = IF o.todo # {} THEN o
                      ELSE IF o.ok THEN Purging([o EXCEPT !.then = "delete"], None)
                      ELSE Idle
             /\ pendings' = IF o.todo = {} /\ o.ok THEN Insert(op.pend)
                                                   ELSE pendings
       /\ UNCHANGED <<generation, open, history>>

----------------------------------------------------------------------------
(* reconcile_one_pending_deletion *)

\* Whatever stays unresolved stays pending; a Prepared handoff that cannot be
\* cleared makes delete fail.
GiveUp(o) ==
  IF o.then = "redelete" /\ o.pend.phase = "prepared"
    THEN Idle ELSE [o EXCEPT !.pc = "reconcile", !.todo = {}]

\* Mutant: the receipt of a newer put is not looked for.
ReconcileBlind(p) ==
  LET o == [op EXCEPT !.queue = @ \ {p}, !.pend = p]
  IN /\ op.pc = "reconcile"
     /\ p \in op.queue
     /\ op' = IF p.phase = "prepared"
                THEN [o EXCEPT !.pc = "clear", !.todo = p.carriers]
                ELSE Purging(o, None)
     /\ UNCHANGED <<storage, generation, open, pendings, history, faults>>

Reconcile(p) ==
  LET newer == IF Best # None /\ Best.generation > Generation(p)
                 THEN Best ELSE None
      o == [op EXCEPT !.queue = @ \ {p}, !.pend = p]
  IN /\ op.pc = "reconcile"
     /\ p \in op.queue
     /\ op' = IF p.phase = "prepared"
                THEN [o EXCEPT !.pc = "clear", !.todo = p.carriers]
              ELSE IF newer # None /\ Carriers(newer) # Devices
                THEN GiveUp(o)
              ELSE Purging(o, newer)
     /\ UNCHANGED <<storage, generation, open, pendings, history, faults>>

\* delete_exact_logical_object of a payload that is there
Purge(d) ==
  LET state == [now[d] EXCEPT !.payload = None]
  IN /\ Visiting("purge", d)
     /\ \/ /\ IF now[d].payload = None THEN UNCHANGED storage
                                       ELSE WriteSync(d, state)
           /\ op' = [op EXCEPT !.todo = @ \ {d}]
           /\ UNCHANGED faults
        \/ /\ now[d].payload # None
           /\ WriteFails(d, state)
           /\ op' = GiveUp(op)
     /\ UNCHANGED <<generation, open, pendings, history>>

Purged ==
  /\ op.pc = "purge" /\ op.todo = {}
  /\ op' = [op EXCEPT !.pc = "purgereceipt", !.todo = op.pend.carriers]
  /\ UNCHANGED <<storage, generation, open, pendings, history, faults>>

\* A newer receipt is left alone, one that conflicts stops the cleanup.
PurgeReceipt(d) ==
  LET state == [now[d] EXCEPT !.receipt = None]
      found == now[d].receipt
  IN /\ Visiting("purgereceipt", d)
     /\ IF found = op.pend.receipt
          THEN \/ /\ WriteSync(d, state)
                  /\ op' = [op EXCEPT !.todo = @ \ {d}]
                  /\ UNCHANGED faults
               \/ WriteFails(d, state) /\ op' = GiveUp(op)
          ELSE /\ op' = IF found = None \/ found.generation > Generation(op.pend)
                          THEN [op EXCEPT !.todo = @ \ {d}] ELSE GiveUp(op)
               /\ UNCHANGED <<storage, faults>>
     /\ UNCHANGED <<generation, open, pendings, history>>

ReceiptsPurged ==
  /\ op.pc = "purgereceipt" /\ op.todo = {}
  /\ op' = IF op.newer = None /\ RawVisible
             THEN GiveUp(op)
             ELSE [op EXCEPT !.pc = "clear", !.todo = op.pend.carriers]
  /\ UNCHANGED <<storage, generation, open, pendings, history, faults>>

\* clear_pending_deletion_handoff: delete and sync, carrier by carrier
ClearHandoff(d) ==
  LET state == WithoutHandoff(now[d], op.pend)
  IN /\ Visiting("clear", d)
     /\ \/ /\ WriteSync(d, state)
           /\ op' = After(d, [op EXCEPT !.pc = "reconcile", !.todo = {}])
           /\ pendings' = IF op.todo = {d}
                            THEN {q \in pendings : Generation(q) # Generation(op.pend)}
                            ELSE pendings
           /\ UNCHANGED faults
        \/ /\ WriteFails(d, state)
           /\ op' = GiveUp(op)
           /\ UNCHANGED pendings
     /\ UNCHANGED <<generation, open, history>>

\* The queue is empty: open or the call returns, or delete looks again.
Reconciled ==
  /\ op.pc = "reconcile" /\ op.queue = {}
  /\ op' = IF op.then = "redelete" THEN [op EXCEPT !.pc = "preflight"] ELSE Idle
  /\ \/ /\ op.then \in {"put", "delete"}
        /\ acked' = IF op.then = "put" THEN op.receipt.value ELSE None
        /\ maybe' = {}
     \/ op.then \in {"idle", "redelete"} /\ UNCHANGED history
  /\ UNCHANGED <<storage, generation, open, pendings, faults>>

----------------------------------------------------------------------------
(* Process death and Pool open *)

\* The process dies; with the power, unsynced records may go too.
Crash ==
  /\ open
  /\ Fault
  /\ open' = FALSE
  /\ pendings' = {}
  /\ op' = Idle
  /\ \/ UNCHANGED storage
     \/ \E kept \in [Devices -> UNION {may[d] : d \in Devices}] :
          /\ \A d \in Devices : kept[d] \in may[d]
          /\ now' = kept
          /\ may' = [d \in Devices |-> {kept[d]}]
  /\ UNCHANGED <<generation, history>>

Handoffs == UNION {now[d].handoff : d \in Devices}

\* discover_pending_deletions refuses the Pool otherwise.
HandoffsAgree ==
  /\ \A d \in Devices : \A p \in now[d].handoff : d \in p.carriers
  /\ \A p, q \in Handoffs : Generation(p) = Generation(q) =>
       p.receipt = q.receipt /\ p.carriers = q.carriers

\* The highest phase of every generation found
Discovered ==
  {p \in Handoffs :
     p.phase = "committed" \/ [p EXCEPT !.phase = "committed"] \notin Handoffs}

Open ==
  /\ ~open
  /\ HandoffsAgree
  /\ open' = TRUE
  /\ pendings' = Discovered
  /\ op' = [Idle EXCEPT !.pc = "reconcile", !.queue = Discovered]
  /\ UNCHANGED <<storage, generation, history, faults>>

----------------------------------------------------------------------------

Next ==
  \/ \E v \in Values, targets \in kSubset(Copies, Devices) : BeginPut(v, targets)
  \/ BeginDelete
  \/ \E d \in Devices :
       \/ PutPayload(d) \/ PutReceipt(d) \/ SyncReceipt(d) \/ DropStale(d)
       \/ UndoWrite(d) \/ UndoSync(d)
       \/ PutHandoff(d) \/ SyncHandoff(d) \/ FinishCommitted(d)
       \/ Purge(d) \/ PurgeReceipt(d) \/ ClearHandoff(d)
  \/ StaleDropped \/ Preflight \/ Purged \/ ReceiptsPurged \/ Reconciled
  \/ \E p \in op.queue : Reconcile(p)
  \/ Crash \/ Open

Spec == Init /\ [][Next]_vars

----------------------------------------------------------------------------

Readable == open /\ op.pc = "idle"

\* After a put that returned Ok a read returns what it wrote, across crashes and
\* the cleanup left over from earlier deletions of the key.  Once a later call
\* has failed or was cut short, a read may also find what that call tried to
\* leave, or nothing, but never an older value, as long as the key has a receipt;
\* and it has one until a deletion begins (put, get,
\* reconcile_pending_deletions_on_open).
AckedIsRead ==
  Readable /\ acked # None =>
    /\ maybe = {} => Get = {acked}
    /\ None \notin maybe => Best # None
    /\ Best # None => Get \subseteq {acked, None} \cup maybe

\* A read returns what the last successful call left or what a later one tried
\* to write: an interrupted replacement exposes the old or the new object.
OldOrNew == Readable => Get \subseteq {acked} \cup maybe

\* Once a deletion has returned Ok, and until another put begins, a read finds
\* nothing: a Committed handoff is the irreversible decision (delete,
\* finish_committed_pending_deletion_after_rollback_failure).
DeletionIsFinal ==
  Readable /\ acked = None /\ maybe \subseteq {None} => Get = {None}

============================================================================
