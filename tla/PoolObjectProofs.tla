------------------------- MODULE PoolObjectProofs -------------------------
(***************************************************************************)
(* What a put that returned Ok promises, for any number of devices, values, *)
(* calls, failures and crashes: PoolObject's types and AckedIsRead.         *)
(***************************************************************************)
EXTENDS PoolObject, TLAPS

Cleaning == op.pc \in {"reconcile", "purge", "purgereceipt", "clear"}

Undoing == op.pc \in {"undo", "undosync"}

\* A put is in progress, its rollback and the reconciliation at its end included.
Putting ==
  \/ op.pc \in {"payload", "receipt", "sync", "stale"}
  \/ Undoing /\ op.field # "handoff"
  \/ Cleaning /\ op.then = "put"

\* A deletion is in progress.
Deleting ==
  \/ op.pc \in {"preflight", "handoff", "handoffsync", "finish"}
  \/ Undoing /\ op.field = "handoff"
  \/ Cleaning /\ op.then \in {"delete", "redelete"}

\* A deletion has been chosen: its Pendings record is known.
Pending ==
  \/ op.pc \in {"handoff", "handoffsync", "finish",
                "purge", "purgereceipt", "clear"}
  \/ Undoing /\ op.field = "handoff"

\* The locals of a call are the ones its phase uses.
OpFormed ==
  /\ op.pc = "idle" => op = Idle
  /\ Putting => op.receipt # None /\ op.receipt.generation = generation
  /\ Pending => op.pend # None
  /\ op.pc = "payload" => op.todo \subseteq op.receipt.targets

\* What a device has is of a generation that was handed out.
Numbered(s, n) ==
  /\ s.receipt # None => s.receipt.generation <= n
  /\ \A p \in s.handoff : Generation(p) <= n

Numbers ==
  /\ \A d \in Devices : \A s \in may[d] : Numbered(s, generation)
  /\ \A d \in Devices : Numbered(op.prev[d], generation)
  /\ \A p \in pendings \cup op.queue : Generation(p) <= generation
  /\ op.pend # None => Generation(op.pend) <= generation

\* Every deletion on a device, in memory or being cleaned up is older than g.
Older(g) ==
  /\ \A d \in Devices : \A s \in may[d] : \A p \in s.handoff : Generation(p) < g
  /\ \A p \in pendings \cup op.queue : Generation(p) < g
  /\ Cleaning /\ op.pc # "reconcile" => Generation(op.pend) < g

\* Whatever a device comes back with, it has receipt r, and a target the payload.
Keeps(d, s, r) ==
  /\ s.receipt = r
  /\ d \in r.targets => s.payload = r.value

Firm(r) ==
  /\ \A d \in Devices : \A s \in may[d] : Keeps(d, s, r)
  /\ op.pc = "purge" => op.todo \cap r.targets = {}

\* What a put has done so far.
PutFormed ==
  /\ Putting => Older(op.receipt.generation)
  /\ op.pc = "payload" =>
       \A d \in op.receipt.targets \ op.todo : now[d].payload = op.receipt.value
  /\ op.pc = "receipt" =>
       /\ \A d \in op.receipt.targets : now[d].payload = op.receipt.value
       /\ \A d \in Devices \ op.todo : now[d].receipt = op.receipt
  /\ op.pc = "sync" =>
       /\ \A d \in Devices : Keeps(d, now[d], op.receipt)
       /\ \A d \in Devices \ op.todo : may[d] = {now[d]}
  /\ op.pc = "stale" => op.todo \cap op.receipt.targets = {}
  /\ op.pc = "stale" \/ (Cleaning /\ op.then = "put") => Firm(op.receipt)

\* Nothing has been asked of the key since the put of r was acknowledged.
Settled(r) ==
  /\ r.value = acked
  /\ Firm(r)
  /\ Older(r.generation)
  /\ op.pc = "idle" \/ (Cleaning /\ op.then = "idle")

\* Every device keeps a receipt, and none is older than g.
Bottom(g) ==
  \A d \in Devices : \A s \in may[d] :
    s.receipt # None /\ s.receipt.generation >= g

\* No receipt is lost unless a deletion is asked for.
Floor(g) ==
  /\ Bottom(g)
  /\ Older(g)
  /\ ~Deleting
  /\ Putting => /\ op.receipt.generation >= g
                /\ \A d \in Devices : /\ op.prev[d].receipt # None
                                      /\ op.prev[d].receipt.generation >= g

\* Every receipt is that of the acknowledged put or of a later one.
Known ==
  /\ \A d \in Devices : \A s \in may[d] \cup {op.prev[d]} :
       s.receipt # None => s.receipt.value \in {acked} \cup maybe
  /\ op.receipt # None => op.receipt.value \in maybe

AckedSettled == acked # None /\ maybe = {} => \E r \in Receipts : Settled(r)

AckedFloor == acked # None /\ None \notin maybe => \E g \in Nat : Floor(g)

AckedKnown == acked # None => Known

IInv ==
  /\ TypeOK
  /\ OpFormed
  /\ Numbers
  /\ PutFormed
  /\ AckedSettled
  /\ AckedFloor
  /\ AckedKnown

----------------------------------------------------------------------------
(* Constants, and the newest of a set *)

\* What is used of sets: one of natural numbers has a least element, so that the
\* newest of some receipts exists, and the empty set has no element to count.
SetFacts ==
  /\ \A T \in SUBSET Nat : T # {} => \E x \in T : \A y \in T : x <= y
  /\ Cardinality({}) = 0

\* There is a device, and every put has a target (PoolRedundancyPolicy).
LEMMA TargetsExist ==
  ASSUME SetFacts
  PROVE  /\ Devices # {}
         /\ \A t \in kSubset(Copies, Devices) : t # {} /\ t \subseteq Devices
<1>1. Cardinality({}) = 0
  BY Zenon DEF SetFacts
<1>2. Copies \in Nat /\ Copies >= 1 /\ Devices # {}
  BY <1>1, ObjectAssumption
<1> QED
  BY <1>1, <1>2 DEF kSubset

\* A device without the key has no receipt of it.
LEMMA EmptyIs == EmptyDevice.receipt = None /\ EmptyDevice.handoff = {}
  BY DEF EmptyDevice

\* A call that has ended holds nothing.
LEMMA IdleIs ==
  ASSUME op' = Idle
  PROVE  /\ op'.pc = "idle" /\ op'.receipt = None /\ op'.pend = None /\ op'.queue = {}
         /\ \A d \in Devices : op'.prev[d] = EmptyDevice
         /\ EmptyDevice.receipt = None /\ EmptyDevice.handoff = {}
         /\ ~Cleaning' /\ ~Undoing' /\ ~Putting' /\ ~Deleting'
<1>1. /\ op'.pc = "idle" /\ op'.receipt = None /\ op'.pend = None /\ op'.queue = {}
      /\ \A d \in Devices : op'.prev[d] = EmptyDevice
  BY DEF Idle
<1> QED
  BY <1>1, EmptyIs DEF Cleaning, Undoing, Putting, Deleting

\* Among receipts there is one that none is newer than.
LEMMA Newest ==
  ASSUME SetFacts, NEW S \in SUBSET Receipts, S # {}
  PROVE  \E r \in S : \A s \in S : s.generation <= r.generation
<1> DEFINE L == {MaxGeneration - r.generation : r \in S}
<1>1. \A r \in Receipts : r.generation \in 1..MaxGeneration
  BY DEF Receipts
<1>2. L \in SUBSET Nat /\ L # {}
  BY <1>1, ObjectAssumption
<1>3. PICK m \in L : \A n \in L : m <= n
  <2> HIDE DEF L
  <2> QED BY <1>2, Zenon DEF SetFacts
<1>4. PICK r \in S : m = MaxGeneration - r.generation
  OBVIOUS
<1>5. \A s \in S : MaxGeneration - s.generation \in L
  OBVIOUS
<1>6. \A s \in S : s.generation <= r.generation
  <2> HIDE DEF L
  <2> QED BY <1>1, <1>3, <1>4, <1>5, ObjectAssumption
<1> QED
  BY <1>6

\* load_placement_receipt returns a receipt that is there, the newest one.
LEMMA BestIs ==
  ASSUME SetFacts, TypeOK
  PROVE  /\ ReceiptsFound \subseteq Receipts
         /\ ReceiptsFound = {} => Best = None
         /\ ReceiptsFound # {} =>
              /\ Best \in ReceiptsFound
              /\ \A s \in ReceiptsFound : s.generation <= Best.generation
<1>1. ReceiptsFound \in SUBSET Receipts
  BY DEF TypeOK, DeviceStates, ReceiptsFound
<1>2. ReceiptsFound # {} => \E r \in ReceiptsFound :
        \A s \in ReceiptsFound : s.generation <= r.generation
  BY <1>1, Newest
<1> QED
  BY <1>1, <1>2, Zenon DEF Best

\* pending_deletion_for_subject returns a deletion that is pending, if any is.
LEMMA SubjectIs ==
  ASSUME SetFacts, TypeOK
  PROVE  Subject \in pendings \cup {None} /\ (Subject = None => pendings = {})
<1> DEFINE S == {p.receipt : p \in pendings}
<1>0. \A p \in pendings : p \in Pendings /\ p.receipt \in Receipts
  BY DEF TypeOK, Pendings
<1>1. S \in SUBSET Receipts
  BY <1>0
<1>2. ASSUME pendings # {}
      PROVE  \E p \in pendings : \A q \in pendings : Generation(q) <= Generation(p)
  <2>1. S # {}
    BY <1>2, Zenon
  <2>2. PICK r \in S : \A s \in S : s.generation <= r.generation
    <3> HIDE DEF S
    <3> QED BY <1>1, <2>1, Newest
  <2>3. PICK p \in pendings : r = p.receipt
    OBVIOUS
  <2>4. \A q \in pendings : q.receipt \in S
    OBVIOUS
  <2> HIDE DEF S
  <2> QED
    BY <2>2, <2>3, <2>4 DEF Generation
<1>3. None \notin pendings
  BY <1>0, ObjectAssumption
<1>4. pendings # {} => Subject \in pendings
  BY <1>2, Zenon DEF Subject
<1>5. pendings = {} => Subject = None
  BY DEF Subject
<1> QED
  BY <1>3, <1>4, <1>5

----------------------------------------------------------------------------
(* What a call does to one device *)

\* Device d keeps its states or has `state` besides or instead of them.
Moves(d, state) ==
  /\ now' \in [Devices -> DeviceStates]
  /\ may' \in [Devices -> SUBSET DeviceStates]
  /\ \A e \in Devices : now'[e] \in may'[e]
  /\ \A e \in Devices \ {d} : now'[e] = now[e] /\ may'[e] = may[e]
  /\ may'[d] \subseteq may[d] \cup {state}
  /\ now'[d] \in {now[d], state}

\* Every device call is such a move, whatever it answers.
LEMMA DeviceMoves ==
  ASSUME TypeOK, NEW d \in Devices, NEW state \in DeviceStates,
         \/ Write(d, state) \/ WriteSync(d, state) \/ WriteFails(d, state)
         \/ Sync(d) \/ UNCHANGED storage
  PROVE  Moves(d, state)
<1>1. CASE Write(d, state)
  BY <1>1 DEF TypeOK, Write, Moves
<1>2. CASE WriteSync(d, state)
  BY <1>2 DEF TypeOK, WriteSync, Moves
<1>3. CASE Sync(d)
  BY <1>3 DEF TypeOK, Sync, Moves
<1>4. CASE UNCHANGED storage
  BY <1>4 DEF TypeOK, storage, Moves
<1> QED
  BY <1>1, <1>2, <1>3, <1>4 DEF WriteFails

\* A fault stays within its bound.
LEMMA FaultTyped ==
  ASSUME TypeOK, Fault
  PROVE  faults' \in 0..MaxFaults
BY ObjectAssumption DEF TypeOK, Fault

\* The initial Pool is empty.
LEMMA InitIInv == Init => IInv
<1> SUFFICES ASSUME Init PROVE IInv
  OBVIOUS
<1>1. EmptyDevice \in DeviceStates
  BY DEF EmptyDevice, DeviceStates
<1>2. Idle \in Ops
  BY <1>1 DEF Idle, Ops
<1>3. TypeOK
  BY <1>1, <1>2, ObjectAssumption DEF Init, TypeOK
<1>4. OpFormed /\ PutFormed
  BY DEF Init, OpFormed, PutFormed, Putting, Pending, Undoing, Cleaning, Idle
<1>5. Numbers
  BY DEF Init, Numbers, Numbered, EmptyDevice, Idle
<1> QED
  BY <1>3, <1>4, <1>5 DEF IInv, Init, AckedSettled, AckedFloor, AckedKnown

----------------------------------------------------------------------------
(* put *)

\* A put begins with a generation above everything the devices have.
LEMMA BeginPutIInv ==
  ASSUME SetFacts, IInv, NEW v \in Values, NEW targets \in kSubset(Copies, Devices),
         BeginPut(v, targets)
  PROVE  IInv'
<1> DEFINE r == [generation |-> generation + 1, value |-> v, targets |-> targets]
<1>0. /\ UNCHANGED <<now, may, open, pendings, acked, faults>>
      /\ generation' = generation + 1 /\ generation < MaxGeneration
      /\ maybe' = maybe \cup {v}
  BY DEF BeginPut, storage
<1>1. r \in Receipts /\ r # None /\ targets \subseteq Devices
  BY <1>0, TargetsExist, ObjectAssumption DEF IInv, TypeOK, Receipts
<1>2. op' = [pc |-> "payload", receipt |-> r, todo |-> targets, span |-> {},
             field |-> "payload", prev |-> now, ok |-> TRUE, pend |-> None,
             newer |-> None, queue |-> {}, then |-> "idle"]
  BY Zenon DEF BeginPut, Idle
<1>3. TypeOK'
  <2>1. op' \in Ops
    BY <1>1, <1>2, Zenon DEF IInv, TypeOK, Ops
  <2>2. generation' \in 0..MaxGeneration /\ maybe' \in SUBSET (Values \cup {None})
    BY <1>0, ObjectAssumption DEF IInv, TypeOK
  <2> QED
    BY <1>0, <2>1, <2>2, Zenon DEF IInv, TypeOK
<1>4. OpFormed'
  BY <1>0, <1>1, <1>2, Zenon DEF OpFormed, Putting, Pending, Undoing, Cleaning
<1>5. Numbers'
  BY <1>0, <1>2 DEF IInv, TypeOK, Numbers, Numbered, Generation, Pendings, Receipts,
       DeviceStates
<1>6. PutFormed'
  BY <1>0, <1>1, <1>2 DEF IInv, TypeOK, PutFormed, Numbers, Numbered, Older,
       Generation, Cleaning, Putting, Undoing, Pendings, Receipts, DeviceStates
<1>7. AckedSettled'
  BY <1>0, Zenon DEF AckedSettled
<1>8. ASSUME NEW g \in Nat, Floor(g) PROVE Floor(g)'
  <2>1. generation + 1 >= g
    BY <1>8, TargetsExist DEF IInv, TypeOK, Floor, Bottom, Numbers, Numbered,
         Receipts, DeviceStates
  <2> QED
    BY <1>0, <1>2, <1>8, <2>1, Zenon DEF IInv, TypeOK, Floor, Bottom, Older, Cleaning,
         Deleting, Undoing
<1>9. AckedFloor'
  BY <1>0, <1>8, Zenon DEF IInv, AckedFloor
<1>10. AckedKnown'
  BY <1>0, <1>2, Zenon DEF IInv, TypeOK, AckedKnown, Known
<1> QED
  BY <1>3, <1>4, <1>5, <1>6, <1>7, <1>9, <1>10 DEF IInv

\* A step of a put, or of its rollback, on one device: it changes no handoff, and
\* its receipts are the ones it found and its own.
PutStep(d, state) ==
  /\ Moves(d, state)
  /\ state.handoff = now[d].handoff
  /\ state.receipt \in {now[d].receipt, op.receipt, op.prev[d].receipt}
  /\ UNCHANGED <<generation, pendings, acked, maybe>>
  /\ \/ op' = Idle
     \/ /\ op'.receipt = op.receipt /\ op'.prev = op.prev /\ op'.pend = op.pend
        /\ op'.queue \subseteq op.queue \cup pendings
        /\ op'.pc \notin {"purge", "purgereceipt", "clear"}
        /\ Putting'

\* A put, or its rollback, on one device loses nothing of an acknowledged put:
\* its own generation is above every deletion that was asked for.
LEMMA PutStepKeeps ==
  ASSUME IInv, Putting, ~Cleaning, NEW d \in Devices, NEW state \in DeviceStates,
         PutStep(d, state)
  PROVE  /\ Numbers'
         /\ Putting' => Older(op.receipt.generation)'
         /\ AckedSettled' /\ AckedFloor' /\ AckedKnown'
<1>0. op.receipt \in Receipts /\ op.receipt.generation = generation /\ op.receipt # None
  BY DEF IInv, TypeOK, OpFormed, Ops
<1>1. /\ now[d] \in may[d] /\ now[d] \in DeviceStates
      /\ \A e \in Devices : op.prev[e] \in DeviceStates
  BY Zenon DEF IInv, TypeOK, Ops
<1>2. Putting' => op' # Idle /\ op'.receipt = op.receipt
  BY DEF PutStep, Putting, Cleaning, Undoing, Idle
<1>3. Numbered(state, generation)
  <2>1. Numbered(now[d], generation) /\ Numbered(op.prev[d], generation)
    BY <1>1 DEF IInv, Numbers
  <2>2. generation <= generation
    BY DEF IInv, TypeOK
  <2> QED
    BY <1>0, <2>1, <2>2 DEF Numbered, PutStep
<1>4. \A e \in Devices : Numbered(EmptyDevice, generation)
  BY DEF Numbered, EmptyDevice
<1>5. Numbers'
  <2>1. \A e \in Devices : \A s \in may'[e] : Numbered(s, generation')
    BY <1>3, Zenon DEF IInv, Numbers, PutStep, Moves
  <2>2. CASE op' = Idle
    BY <1>4, <2>1, <2>2 DEF IInv, Numbers, PutStep, Idle
  <2>3. CASE op' # Idle
    BY <2>1, <2>3 DEF IInv, Numbers, PutStep
  <2> QED
    BY <2>2, <2>3, Zenon
<1>6. ASSUME NEW g, Older(g) PROVE Older(g)'
  <2>1. \A e \in Devices : \A s \in may'[e] : \A p \in s.handoff : Generation(p) < g
    BY <1>1, <1>6, ZenonT(60) DEF Older, PutStep, Moves
  <2>2. \A p \in pendings' \cup op'.queue : Generation(p) < g
    BY <1>6 DEF Older, PutStep, Idle
  <2>3. Cleaning' => op'.pc = "reconcile"
    BY DEF Cleaning, PutStep, Idle
  <2> QED
    BY <2>1, <2>2, <2>3, Zenon DEF Older
<1>7. Putting' => Older(op.receipt.generation)'
  <2>1. Older(generation)
    BY <1>0 DEF IInv, PutFormed
  <2>2. Older(generation)'
    <3> DEFINE g == generation
    <3>1. Older(g)
      BY <2>1
    <3> QED
      BY <2>1, <1>6 DEF PutStep
  <2> QED
    BY <1>0, <1>2, <2>2 DEF PutStep
<1>8. AckedSettled'
  BY DEF IInv, AckedSettled, Settled, PutStep, Putting, Undoing
<1>9. ASSUME NEW g \in Nat, Floor(g) PROVE Floor(g)'
  <2>1. state.receipt # None /\ state.receipt.generation >= g
    BY <1>0, <1>1, <1>9 DEF Floor, Bottom, PutStep
  <2>2. Bottom(g)'
    BY <1>9, <2>1, Zenon DEF Floor, Bottom, PutStep, Moves
  <2>3. ~Deleting'
    BY DEF PutStep, Deleting, Putting, Cleaning, Undoing, Idle
  <2>4. Putting' => /\ op'.receipt.generation >= g
                    /\ \A e \in Devices : /\ op'.prev[e].receipt # None
                                          /\ op'.prev[e].receipt.generation >= g
    BY <1>2, <1>9 DEF PutStep, Floor
  <2> QED
    BY <1>6, <1>9, <2>2, <2>3, <2>4 DEF Floor
<1>10. AckedFloor'
  BY <1>9 DEF IInv, AckedFloor, PutStep
<1>11. ASSUME acked # None PROVE Known'
  <2>1. Known
    BY <1>11 DEF IInv, AckedKnown
  <2>2. state.receipt # None => state.receipt.value \in {acked} \cup maybe
    BY <1>0, <1>1, <2>1, Zenon DEF Known, PutStep
  <2>3. \A e \in Devices : \A s \in may'[e] :
          s.receipt # None => s.receipt.value \in {acked} \cup maybe
    BY <2>1, <2>2, Zenon DEF Known, PutStep, Moves
  <2>4. CASE op' = Idle
    <3>1. op'.receipt = None /\ \A e \in Devices : op'.prev[e].receipt = None
      BY <2>4, IdleIs, Zenon
    <3> QED
      BY <2>3, <3>1, Zenon DEF Known, PutStep
  <2>5. CASE op' # Idle
    BY <2>1, <2>3, <2>5, Zenon DEF Known, PutStep
  <2> QED
    BY <2>4, <2>5, Zenon
<1>12. AckedKnown'
  BY <1>11 DEF AckedKnown, PutStep
<1> QED
  BY <1>5, <1>7, <1>8, <1>10, <1>12

\* Step PutPayload keeps the invariant: every target visited has the payload.
LEMMA PutPayloadIInv ==
  ASSUME SetFacts, IInv, NEW d \in Devices, PutPayload(d)
  PROVE  IInv'
<1> DEFINE state == [now[d] EXCEPT !.payload = op.receipt.value]
<1>0. /\ op.pc = "payload" /\ d \in op.todo
      /\ UNCHANGED <<generation, open, pendings, acked, maybe>>
      /\ Putting /\ ~Cleaning
  BY Zenon DEF PutPayload, Visiting, history, Putting, Cleaning
<1>1. /\ op \in Ops /\ op.receipt \in Receipts /\ op.receipt # None
      /\ op.receipt.generation = generation
      /\ op.receipt.targets \subseteq Devices /\ op.receipt.value \in Values
      /\ op.todo \subseteq op.receipt.targets
  BY <1>0, TargetsExist DEF IInv, TypeOK, OpFormed, Ops, Receipts
<1>2. /\ state \in DeviceStates /\ state.handoff = now[d].handoff
      /\ state.receipt = now[d].receipt /\ state.payload = op.receipt.value
  BY <1>1 DEF IInv, TypeOK, DeviceStates
<1>3. \/ /\ Write(d, state) /\ UNCHANGED faults
         /\ op' = After(d, [op EXCEPT !.pc = "receipt", !.todo = Devices])
      \/ /\ WriteFails(d, state)
         /\ op' = Undo(op, "payload", op.receipt.targets)
  BY DEF PutPayload
<1> HIDE DEF state
<1>4. Moves(d, state) /\ faults' \in 0..MaxFaults
  BY <1>2, <1>3, DeviceMoves, FaultTyped DEF IInv, TypeOK, WriteFails
<1>5. \/ /\ op.todo = {d} /\ Write(d, state)
         /\ op' = [op EXCEPT !.pc = "receipt", !.todo = Devices]
      \/ op.todo # {d} /\ Write(d, state) /\ op' = [op EXCEPT !.todo = @ \ {d}]
      \/ op' = Undo(op, "payload", op.receipt.targets)
  BY <1>3 DEF After
<1>6. /\ op' \in Ops /\ op'.pc \in {"receipt", "payload", "undo"}
      /\ op'.receipt = op.receipt /\ op'.prev = op.prev /\ op'.pend = op.pend
      /\ op'.queue = op.queue
      /\ op'.pc = "payload" => op'.todo = op.todo \ {d} /\ Write(d, state)
      /\ op'.pc = "receipt" =>
           op'.todo = Devices /\ op.todo = {d} /\ Write(d, state)
      /\ op'.pc = "undo" => op'.field = "payload"
  <2>1. CASE /\ op.todo = {d} /\ Write(d, state)
             /\ op' = [op EXCEPT !.pc = "receipt", !.todo = Devices]
    BY <1>1, <2>1, Zenon DEF Ops
  <2>2. CASE Write(d, state) /\ op' = [op EXCEPT !.todo = @ \ {d}]
    BY <1>0, <1>1, <2>2 DEF Ops
  <2>3. CASE op' = Undo(op, "payload", op.receipt.targets)
    BY <1>1, <2>3, ZenonT(60) DEF Ops, Undo
  <2> QED
    BY <1>5, <2>1, <2>2, <2>3
<1>7. TypeOK'
  BY <1>0, <1>4, <1>6, Zenon DEF IInv, TypeOK, Moves
<1>8. OpFormed'
  BY <1>0, <1>1, <1>6 DEF OpFormed, Putting, Pending, Cleaning, Undoing
<1>9. PutStep(d, state)
  BY <1>0, <1>2, <1>4, <1>6, Zenon DEF PutStep, Putting, Undoing, Idle
<1>10. /\ Numbers' /\ (Putting' => Older(op.receipt.generation)')
       /\ AckedSettled' /\ AckedFloor' /\ AckedKnown'
  BY <1>0, <1>2, <1>9, PutStepKeeps, Zenon
<1>11. Write(d, state) =>
         \A e \in op.receipt.targets \ (op.todo \ {d}) :
           now'[e].payload = op.receipt.value
  BY <1>0, <1>1, <1>2, Zenon DEF IInv, TypeOK, PutFormed, Write
<1>12. PutFormed'
  BY <1>6, <1>10, <1>11, Zenon DEF PutFormed, Putting, Cleaning
<1> QED
  BY <1>7, <1>8, <1>10, <1>12 DEF IInv

\* Step PutReceipt keeps the invariant: every device visited has the receipt, and
\* the payloads stay.
LEMMA PutReceiptIInv ==
  ASSUME SetFacts, IInv, NEW d \in Devices, PutReceipt(d)
  PROVE  IInv'
<1> DEFINE state == [now[d] EXCEPT !.receipt = op.receipt]
<1> DEFINE span == (Devices \ op.todo) \cup {d}
<1>0. /\ op.pc = "receipt" /\ d \in op.todo
      /\ UNCHANGED <<generation, open, pendings, acked, maybe>>
      /\ Putting /\ ~Cleaning
  BY Zenon DEF PutReceipt, Visiting, history, Putting, Cleaning
<1>1. /\ op \in Ops /\ op.receipt \in Receipts /\ op.receipt # None
      /\ op.receipt.generation = generation /\ op.receipt.targets \subseteq Devices
  BY <1>0, TargetsExist DEF IInv, TypeOK, OpFormed, Ops, Receipts
<1>2. /\ state \in DeviceStates /\ state.handoff = now[d].handoff
      /\ state.receipt = op.receipt /\ state.payload = now[d].payload
  BY <1>1 DEF IInv, TypeOK, DeviceStates
<1>3. \/ /\ Write(d, state) /\ UNCHANGED faults
         /\ op' = After(d, [op EXCEPT !.pc = "sync", !.todo = Devices])
      \/ WriteFails(d, state) /\ op' = Undo(op, "receipt", span)
  BY DEF PutReceipt
<1> HIDE DEF state
<1>4. Moves(d, state) /\ faults' \in 0..MaxFaults
  BY <1>2, <1>3, DeviceMoves, FaultTyped DEF IInv, TypeOK, WriteFails
<1>5. /\ op' \in Ops /\ op'.pc \in {"receipt", "sync", "undo"}
      /\ op'.receipt = op.receipt /\ op'.prev = op.prev /\ op'.pend = op.pend
      /\ op'.queue = op.queue
      /\ op'.pc = "receipt" => op'.todo = op.todo \ {d} /\ Write(d, state)
      /\ op'.pc = "sync" => op'.todo = Devices /\ op.todo = {d} /\ Write(d, state)
      /\ op'.pc = "undo" => op'.field = "receipt"
  <2>0. span \subseteq Devices
    OBVIOUS
  <2> HIDE DEF span
  <2>1. CASE /\ op.todo = {d} /\ Write(d, state)
             /\ op' = [op EXCEPT !.pc = "sync", !.todo = Devices]
    BY <1>1, <2>1, Zenon DEF Ops
  <2>2. CASE Write(d, state) /\ op' = [op EXCEPT !.todo = @ \ {d}]
    BY <1>0, <1>1, <2>2 DEF Ops
  <2>3. CASE op' = Undo(op, "receipt", span)
    BY <1>1, <2>0, <2>3, ZenonT(60) DEF Ops, Undo
  <2> QED
    BY <1>3, <2>1, <2>2, <2>3 DEF After
<1>6. TypeOK'
  BY <1>0, <1>4, <1>5, Zenon DEF IInv, TypeOK, Moves
<1>7. OpFormed'
  BY <1>0, <1>1, <1>5 DEF OpFormed, Putting, Pending, Cleaning, Undoing
<1>8. PutStep(d, state)
  BY <1>0, <1>2, <1>4, <1>5, Zenon DEF PutStep, Putting, Undoing, Idle
<1>9. /\ Numbers' /\ (Putting' => Older(op.receipt.generation)')
      /\ AckedSettled' /\ AckedFloor' /\ AckedKnown'
  BY <1>0, <1>2, <1>8, PutStepKeeps, Zenon
<1>10. ASSUME Write(d, state)
       PROVE  /\ \A e \in op.receipt.targets : now'[e].payload = op.receipt.value
              /\ \A e \in Devices \ (op.todo \ {d}) : now'[e].receipt = op.receipt
  BY <1>0, <1>1, <1>2, <1>10, Zenon DEF IInv, TypeOK, PutFormed, Write
<1>11. PutFormed'
  BY <1>5, <1>9, <1>10, Zenon DEF PutFormed, Putting, Cleaning, Keeps
<1> QED
  BY <1>6, <1>7, <1>9, <1>11 DEF IInv

\* Step SyncReceipt keeps the invariant: what is synced cannot be lost.
LEMMA SyncReceiptIInv ==
  ASSUME SetFacts, IInv, NEW d \in Devices, SyncReceipt(d)
  PROVE  IInv'
<1> DEFINE stale == [op EXCEPT !.pc = "stale", !.todo = Devices \ op.receipt.targets]
<1>0. /\ op.pc = "sync" /\ d \in op.todo
      /\ UNCHANGED <<generation, open, pendings, acked, maybe>>
      /\ Putting /\ ~Cleaning
  BY Zenon DEF SyncReceipt, Visiting, history, Putting, Cleaning
<1>1. /\ op \in Ops /\ op.receipt \in Receipts /\ op.receipt # None
      /\ op.receipt.generation = generation /\ op.receipt.targets \subseteq Devices
      /\ now[d] \in DeviceStates
  BY <1>0, TargetsExist DEF IInv, TypeOK, OpFormed, Ops, Receipts
<1>2. \/ Sync(d) /\ UNCHANGED faults /\ op' = After(d, stale)
      \/ SyncFails /\ op' = Undo(op, "receipt", Devices)
  BY DEF SyncReceipt
<1>3. Moves(d, now[d]) /\ faults' \in 0..MaxFaults
  BY <1>1, <1>2, DeviceMoves, FaultTyped DEF IInv, TypeOK, SyncFails
<1>4. /\ op' \in Ops /\ op'.pc \in {"sync", "stale", "undo"}
      /\ op'.receipt = op.receipt /\ op'.prev = op.prev /\ op'.pend = op.pend
      /\ op'.queue = op.queue
      /\ op'.pc = "sync" => op'.todo = op.todo \ {d} /\ Sync(d)
      /\ op'.pc = "stale" => /\ op'.todo = Devices \ op.receipt.targets
                             /\ op.todo = {d} /\ Sync(d)
      /\ op'.pc = "undo" => op'.field = "receipt"
  <2>1. CASE op.todo = {d} /\ Sync(d) /\ op' = stale
    BY <1>1, <2>1, Zenon DEF Ops
  <2>2. CASE Sync(d) /\ op' = [op EXCEPT !.todo = @ \ {d}]
    BY <1>0, <1>1, <2>2 DEF Ops
  <2>3. CASE op' = Undo(op, "receipt", Devices)
    BY <1>1, <2>3, ZenonT(60) DEF Ops, Undo
  <2> QED
    BY <1>2, <2>1, <2>2, <2>3 DEF After
<1> HIDE DEF stale
<1>5. TypeOK'
  BY <1>0, <1>3, <1>4, Zenon DEF IInv, TypeOK, Moves
<1>6. OpFormed'
  BY <1>0, <1>1, <1>4, Zenon DEF OpFormed, Putting, Pending, Cleaning, Undoing
<1>7. PutStep(d, now[d])
  BY <1>0, <1>3, <1>4, Zenon DEF PutStep, Putting, Undoing, Idle
<1>8. /\ Numbers' /\ (Putting' => Older(op.receipt.generation)')
      /\ AckedSettled' /\ AckedFloor' /\ AckedKnown'
  BY <1>0, <1>1, <1>7, PutStepKeeps, Zenon
<1>9. ASSUME Sync(d)
      PROVE  /\ \A e \in Devices : Keeps(e, now'[e], op.receipt)
             /\ \A e \in Devices \ (op.todo \ {d}) : may'[e] = {now'[e]}
  BY <1>0, <1>9, Zenon DEF IInv, TypeOK, PutFormed, Sync
<1>10. op'.pc = "stale" => Firm(op.receipt)'
  BY <1>4, <1>9 DEF Firm
<1>11. PutFormed'
  BY <1>4, <1>8, <1>9, <1>10, Zenon DEF PutFormed, Putting, Cleaning, Keeps
<1> QED
  BY <1>5, <1>6, <1>8, <1>11 DEF IInv

\* Step DropStale keeps the invariant: a stale copy is on no target.
LEMMA DropStaleIInv ==
  ASSUME IInv, NEW d \in Devices, DropStale(d)
  PROVE  IInv'
<1> DEFINE state == [now[d] EXCEPT !.payload = None]
<1>0. /\ op.pc = "stale" /\ d \in op.todo
      /\ UNCHANGED <<generation, open, pendings, acked, maybe>>
      /\ Putting /\ ~Cleaning
  BY Zenon DEF DropStale, Visiting, history, Putting, Cleaning
<1>1. /\ op \in Ops /\ op.receipt \in Receipts /\ op.receipt # None
      /\ op.receipt.generation = generation
      /\ now[d] \in may[d] /\ now[d] \in DeviceStates
  BY <1>0 DEF IInv, TypeOK, OpFormed, Ops
<1>2. /\ state \in DeviceStates /\ state.handoff = now[d].handoff
      /\ state.receipt = now[d].receipt
  BY <1>1 DEF DeviceStates
<1>3. (Write(d, state) /\ UNCHANGED faults) \/ WriteFails(d, state)
  BY Zenon DEF DropStale
<1> HIDE DEF state
<1>4. Moves(d, state) /\ faults' \in 0..MaxFaults
  BY <1>2, <1>3, DeviceMoves, FaultTyped DEF IInv, TypeOK, WriteFails
<1>5. /\ op' \in Ops /\ op'.pc = "stale" /\ op'.todo = op.todo \ {d}
      /\ op'.receipt = op.receipt /\ op'.prev = op.prev /\ op'.pend = op.pend
      /\ op'.queue = op.queue
  BY <1>0, <1>1, Zenon DEF DropStale, Ops
<1>6. TypeOK'
  BY <1>0, <1>4, <1>5, Zenon DEF IInv, TypeOK, Moves
<1>7. OpFormed'
  BY <1>0, <1>1, <1>5 DEF OpFormed, Putting, Pending, Cleaning, Undoing
<1>8. PutStep(d, state)
  BY <1>0, <1>2, <1>4, <1>5, Zenon DEF PutStep, Putting, Undoing, Idle
<1>9. /\ Numbers' /\ (Putting' => Older(op.receipt.generation)')
      /\ AckedSettled' /\ AckedFloor' /\ AckedKnown'
  BY <1>0, <1>2, <1>8, PutStepKeeps, Zenon
<1>10. Firm(op.receipt) /\ d \notin op.receipt.targets
  BY <1>0 DEF IInv, PutFormed
<1>11. Keeps(d, state, op.receipt)
  BY <1>1, <1>2, <1>10 DEF Firm, Keeps
<1>12. \A e \in Devices : \A s \in may'[e] : Keeps(e, s, op.receipt)
  BY <1>4, <1>10, <1>11, Zenon DEF Firm, Moves
<1>13. PutFormed'
  BY <1>0, <1>5, <1>9, <1>12 DEF IInv, PutFormed, Putting, Cleaning, Firm
<1> QED
  BY <1>6, <1>7, <1>9, <1>13 DEF IInv

\* Step StaleDropped keeps the invariant: only older deletions are reconciled.
LEMMA StaleDroppedIInv ==
  ASSUME SetFacts, IInv, StaleDropped
  PROVE  IInv'
<1>0. /\ op.pc = "stale" /\ Putting /\ ~Cleaning
      /\ UNCHANGED <<now, may, generation, open, pendings, acked, maybe, faults>>
  BY DEF StaleDropped, storage, history, Putting, Cleaning
<1>1. PICK d \in Devices : TRUE
  BY TargetsExist, Zenon
<1>2. /\ op \in Ops /\ op.receipt \in Receipts /\ op.receipt # None
      /\ op.receipt.generation = generation /\ now[d] \in DeviceStates
  BY <1>0 DEF IInv, TypeOK, OpFormed, Ops
<1>3. Moves(d, now[d])
  BY <1>0, <1>2, DeviceMoves DEF IInv, storage
<1>4. /\ op' \in Ops /\ op'.pc = "reconcile" /\ op'.then = "put"
      /\ op'.receipt = op.receipt /\ op'.prev = op.prev /\ op'.pend = op.pend
      /\ op'.queue \subseteq pendings
  <2> DEFINE q == {p \in pendings : p.receipt.generation < op.receipt.generation}
  <2>1. q \subseteq pendings /\ q \in SUBSET Pendings
    BY DEF IInv, TypeOK
  <2>2. op' = [op EXCEPT !.pc = "reconcile", !.then = "put", !.queue = q]
    BY DEF StaleDropped
  <2> HIDE DEF q
  <2> QED
    BY <1>2, <2>1, <2>2, Zenon DEF Ops
<1>5. TypeOK'
  BY <1>0, <1>4, Zenon DEF IInv, TypeOK
<1>6. OpFormed'
  BY <1>0, <1>2, <1>4 DEF OpFormed, Putting, Pending, Cleaning, Undoing
<1>7. PutStep(d, now[d])
  BY <1>0, <1>3, <1>4, Zenon DEF PutStep, Putting, Cleaning, Undoing, Idle
<1>8. /\ Numbers' /\ (Putting' => Older(op.receipt.generation)')
      /\ AckedSettled' /\ AckedFloor' /\ AckedKnown'
  BY <1>0, <1>2, <1>7, PutStepKeeps, Zenon
<1>9. Firm(op.receipt)'
  BY <1>0, <1>4, Zenon DEF IInv, PutFormed, Firm
<1>10. PutFormed'
  BY <1>4, <1>8, <1>9 DEF PutFormed
<1> QED
  BY <1>5, <1>6, <1>8, <1>10 DEF IInv

----------------------------------------------------------------------------
(* delete, and rollback *)

\* A step of a deletion, or of its rollback, on one device: it writes no receipt,
\* and its handoffs are of generations that were handed out.
DeleteStep(d, state) ==
  /\ Moves(d, state)
  /\ state.receipt = now[d].receipt
  /\ Numbered(state, generation)
  /\ UNCHANGED <<generation, acked, maybe>>
  /\ pendings' \subseteq pendings \cup {op.pend}
  /\ \/ op' = Idle
     \/ /\ op'.receipt = op.receipt /\ op'.prev \in {op.prev, now}
        /\ op'.pend # None => op'.pend.receipt.generation <= generation
        /\ op'.queue = op.queue
        /\ ~Putting'

\* delete_transition before its cleanup touches no receipt and no payload of a
\* device: an acknowledged put is still what every device keeps.
LEMMA DeleteStepKeeps ==
  ASSUME IInv, Deleting, NEW d \in Devices, NEW state \in DeviceStates,
         pendings' # pendings => op.pend # None, DeleteStep(d, state)
  PROVE  /\ Numbers' /\ PutFormed'
         /\ AckedSettled' /\ AckedFloor' /\ AckedKnown'
<1>1. \A e \in Devices : now[e] \in may[e]
  BY DEF IInv, TypeOK
<1>2. Numbers'
  <2>1. \A e \in Devices : \A s \in may'[e] : Numbered(s, generation')
    BY Zenon DEF IInv, Numbers, DeleteStep, Moves
  <2>2. \A p \in pendings' : Generation(p) <= generation'
    BY Zenon DEF IInv, Numbers, DeleteStep
  <2>3. Numbered(EmptyDevice, generation)
    BY DEF Numbered, EmptyDevice
  <2>4. CASE op' = Idle
    BY <2>1, <2>2, <2>3, <2>4, IdleIs, Zenon DEF Numbers, DeleteStep
  <2>5. CASE op' # Idle
    <3>1. \A e \in Devices : Numbered(op'.prev[e], generation')
      BY <1>1, <2>5, Zenon DEF IInv, Numbers, DeleteStep
    <3> QED
      BY <2>1, <2>2, <2>5, <3>1, Zenon DEF IInv, Numbers, DeleteStep, Generation
  <2> QED
    BY <2>4, <2>5, Zenon
<1>3. ~Putting'
  BY IdleIs, Zenon DEF DeleteStep
<1>4. PutFormed'
  BY <1>3 DEF PutFormed, Putting
<1>5. AckedSettled'
  BY Zenon DEF IInv, AckedSettled, Settled, DeleteStep, Deleting, Undoing, Cleaning
<1>6. AckedFloor'
  BY DEF IInv, AckedFloor, Floor, DeleteStep
<1>7. ASSUME acked # None PROVE Known'
  <2>1. Known
    BY <1>7, Zenon DEF IInv, AckedKnown
  <2>2. \A e \in Devices : \A s \in may'[e] :
          s.receipt # None => s.receipt.value \in {acked} \cup maybe
    BY <1>1, <2>1 DEF Known, DeleteStep, Moves
  <2>3. CASE op' = Idle
    BY <2>2, <2>3, IdleIs, Zenon DEF Known, DeleteStep
  <2>4. CASE op' # Idle
    BY <1>1, <2>1, <2>2, <2>4, Zenon DEF Known, DeleteStep
  <2> QED
    BY <2>3, <2>4
<1>8. AckedKnown'
  BY <1>7 DEF AckedKnown, DeleteStep
<1> QED
  BY <1>2, <1>4, <1>5, <1>6, <1>8

\* After one device of a rollback: the next one, the syncs, the payloads after
\* the receipts, the end, or the decision that cannot be rolled back.
LEMMA UndoneIs ==
  ASSUME SetFacts, IInv, Undoing, NEW d \in Devices, NEW ok \in BOOLEAN, op' = Undone(d, ok)
  PROVE  /\ op' \in Ops
         /\ \/ op' = Idle
            \/ /\ op'.receipt = op.receipt /\ op'.prev = op.prev
               /\ op'.pend = op.pend /\ op'.queue = op.queue
               /\ \/ /\ op'.pc \in {"undo", "undosync"}
                     /\ op'.field = op.field
                  \/ /\ op.field = "receipt"
                     /\ op'.pc = "undo" /\ op'.field = "payload"
                  \/ op.field = "handoff" /\ op'.pc = "finish"
<1> DEFINE o == [op EXCEPT !.todo = @ \ {d}, !.ok = ok]
<1>0. op \in Ops /\ op.pc \in {"undo", "undosync"}
  BY DEF IInv, TypeOK, Undoing
<1>1. /\ o \in Ops /\ o.pc = op.pc /\ o.field = op.field /\ o.receipt = op.receipt
      /\ o.prev = op.prev /\ o.pend = op.pend /\ o.queue = op.queue /\ o.then = op.then
      /\ op.field \in {"payload", "receipt", "handoff"} /\ op.span \subseteq Devices
  BY <1>0, Zenon DEF Ops
<1>2. /\ op.field = "receipt" => op.receipt.targets \subseteq Devices
      /\ op.field = "handoff" => op.pend.carriers \subseteq Devices
  BY TargetsExist, Zenon DEF IInv, TypeOK, OpFormed, Ops, Receipts, Pendings, Putting,
       Pending, Undoing
<1>3. \/ op' = o
      \/ op' = [o EXCEPT !.pc = "undosync", !.todo = op.span]
      \/ op' = UndoDone(o)
  BY DEF Undone
<1> HIDE DEF o
<1>4. CASE op' = o
  BY <1>0, <1>1, <1>4
<1>5. CASE op' = [o EXCEPT !.pc = "undosync", !.todo = op.span]
  BY <1>1, <1>5, ZenonT(60) DEF Ops
<1>6. CASE op' = UndoDone(o)
  <2>1. Idle \in Ops
    BY Zenon DEF Idle, Ops, EmptyDevice, DeviceStates
  <2>2. CASE op.field = "receipt"
    <3> DEFINE t == op.receipt.targets
    <3>1. op' = Undo(o, "payload", t) /\ t \in SUBSET Devices
      BY <1>1, <1>2, <1>6, <2>2 DEF UndoDone
    <3> HIDE DEF t
    <3>2. op' = [o EXCEPT !.pc = "undo", !.field = "payload", !.span = t,
                          !.todo = t, !.ok = TRUE]
      BY <3>1 DEF Undo
    <3>3. /\ op' \in Ops /\ op'.receipt = o.receipt /\ op'.prev = o.prev
          /\ op'.pend = o.pend /\ op'.queue = o.queue
          /\ op'.pc = "undo" /\ op'.field = "payload"
      BY <1>1, <3>1, <3>2, ZenonT(60) DEF Ops
    <3> QED
      BY <1>1, <2>2, <3>3
  <2>3. CASE op.field = "payload"
    BY <1>1, <1>6, <2>1, <2>3 DEF UndoDone
  <2>4. CASE op.field = "handoff"
    <3>1. \/ op' = Idle
          \/ op' = [o EXCEPT !.pc = "finish", !.todo = o.pend.carriers, !.ok = FALSE]
      BY <1>1, <1>6, <2>4 DEF UndoDone
    <3>2. CASE op' = [o EXCEPT !.pc = "finish", !.todo = o.pend.carriers, !.ok = FALSE]
      BY <1>1, <1>2, <2>4, <3>2, ZenonT(60) DEF Ops
    <3> QED
      BY <2>1, <3>1, <3>2
  <2> QED
    BY <1>1, <2>2, <2>3, <2>4, Zenon
<1> QED
  BY <1>3, <1>4, <1>5, <1>6, Zenon

\* Steps UndoWrite and UndoSync keep the invariant: a rollback restores what the
\* call found.
LEMMA UndoIInv ==
  ASSUME SetFacts, IInv, NEW d \in Devices, UndoWrite(d) \/ UndoSync(d)
  PROVE  IInv'
<1> DEFINE state == IF UndoWrite(d)
                      THEN [now[d] EXCEPT ![op.field] = op.prev[d][op.field]]
                      ELSE now[d]
<1>0. /\ Undoing /\ ~Cleaning
      /\ UNCHANGED <<generation, open, pendings, acked, maybe>>
      /\ \E ok \in BOOLEAN : op' = Undone(d, ok)
  BY Zenon DEF UndoWrite, UndoSync, Visiting, Undoing, Cleaning, history, IInv, TypeOK, Ops
<1>1. /\ op \in Ops /\ op.field \in {"payload", "receipt", "handoff"}
      /\ now[d] \in DeviceStates /\ op.prev[d] \in DeviceStates /\ now[d] \in may[d]
  BY DEF IInv, TypeOK, Ops
<1>2. /\ state \in DeviceStates
      /\ op.field # "handoff" => /\ state.handoff = now[d].handoff
                                 /\ state.receipt \in {now[d].receipt, op.prev[d].receipt}
      /\ op.field = "handoff" => /\ state.receipt = now[d].receipt
                                 /\ state.handoff \in {now[d].handoff, op.prev[d].handoff}
  <2>1. CASE op.field = "payload"
    BY <1>1, <2>1, Zenon DEF DeviceStates
  <2>2. CASE op.field = "receipt"
    BY <1>1, <2>2, Zenon DEF DeviceStates
  <2>3. CASE op.field = "handoff"
    BY <1>1, <2>3 DEF DeviceStates
  <2> QED
    BY <1>1, <2>1, <2>2, <2>3, Zenon
<1>3. \/ Write(d, state) /\ UNCHANGED faults
      \/ WriteFails(d, state)
      \/ Sync(d) /\ UNCHANGED faults
      \/ SyncFails
  BY Zenon DEF UndoWrite, UndoSync
<1> HIDE DEF state
<1>4. Moves(d, state) /\ faults' \in 0..MaxFaults
  BY <1>2, <1>3, DeviceMoves, FaultTyped, Zenon DEF IInv, TypeOK, WriteFails, SyncFails
<1>5. /\ op' \in Ops
      /\ \/ op' = Idle
         \/ /\ op'.receipt = op.receipt /\ op'.prev = op.prev
            /\ op'.pend = op.pend /\ op'.queue = op.queue
            /\ \/ /\ op'.pc \in {"undo", "undosync"}
                  /\ op'.field = op.field
               \/ /\ op.field = "receipt"
                  /\ op'.pc = "undo" /\ op'.field = "payload"
               \/ op.field = "handoff" /\ op'.pc = "finish"
  BY <1>0, UndoneIs, Zenon
<1>6. TypeOK'
  BY <1>0, <1>4, <1>5 DEF IInv, TypeOK, Moves
<1>7. OpFormed'
  <2>1. CASE op' = Idle
    BY <2>1, Zenon DEF OpFormed, Putting, Pending, Cleaning, Undoing, Idle
  <2>2. CASE op' # Idle
    BY <1>0, <1>5, <2>2, Zenon DEF IInv, OpFormed, Putting, Pending, Cleaning, Undoing
  <2> QED
    BY <2>1, <2>2
<1>8. CASE op.field # "handoff"
  <2>1. PutStep(d, state) /\ Putting
    BY <1>0, <1>2, <1>4, <1>5, <1>8 DEF PutStep, Putting, Undoing
  <2>2. /\ Numbers' /\ (Putting' => Older(op.receipt.generation)')
        /\ AckedSettled' /\ AckedFloor' /\ AckedKnown'
    BY <1>0, <1>2, <2>1, PutStepKeeps, Zenon
  <2>3. op'.pc \in {"idle", "undo", "undosync"}
    BY <1>5, <1>8, IdleIs, Zenon
  <2>4. PutFormed'
    BY <2>2, <2>3, Zenon DEF PutFormed, Cleaning
  <2> QED
    BY <1>6, <1>7, <2>2, <2>4, Zenon DEF IInv
<1>9. CASE op.field = "handoff"
  <2>1. Numbered(state, generation)
    BY <1>1, <1>2, <1>9, Zenon DEF IInv, Numbers, Numbered
  <2>2. op' # Idle => /\ op'.pend # None => op'.pend.receipt.generation <= generation
                      /\ ~Putting'
    BY <1>5, <1>9 DEF IInv, Numbers, Putting, Cleaning, Undoing, Generation
  <2>3. DeleteStep(d, state) /\ Deleting
    BY <1>0, <1>2, <1>4, <1>5, <1>9, <2>1, <2>2, Zenon DEF DeleteStep, Deleting, Undoing
  <2> QED
    BY <1>0, <1>2, <1>6, <1>7, <2>3, DeleteStepKeeps, Zenon DEF IInv
<1> QED
  BY <1>8, <1>9

\* Nothing is asked of an Idle call.
LEMMA IdleFormed ==
  ASSUME op' = Idle
  PROVE  OpFormed' /\ PutFormed' /\ op' \in Ops
<1>1. OpFormed' /\ PutFormed'
  BY Zenon DEF OpFormed, PutFormed, Putting, Pending, Cleaning, Undoing, Idle
<1>2. op' \in Ops
  BY Zenon DEF Idle, Ops, EmptyDevice, DeviceStates
<1> QED
  BY <1>1, <1>2

\* Step BeginDelete keeps the invariant: from here on the object may be gone.
LEMMA BeginDeleteIInv ==
  ASSUME SetFacts, IInv, BeginDelete
  PROVE  IInv'
<1> DEFINE pc == IF Subject = None THEN "preflight" ELSE "reconcile"
<1> DEFINE queue == IF Subject = None THEN {} ELSE {Subject}
<1>0. /\ UNCHANGED <<now, may, generation, open, pendings, acked, faults>>
      /\ maybe' = maybe \cup {None}
  BY Zenon DEF BeginDelete, storage
<1>1. /\ Subject \in Pendings \cup {None} /\ queue \subseteq pendings
      /\ queue \in SUBSET Pendings /\ pc \in {"preflight", "reconcile"}
      /\ Subject # None => Subject \in pendings
  BY SubjectIs DEF IInv, TypeOK
<1>2. op' = [pc |-> pc, receipt |-> None, todo |-> {}, span |-> {},
             field |-> "payload", prev |-> [d \in Devices |-> EmptyDevice],
             ok |-> TRUE, pend |-> Subject, newer |-> None, queue |-> queue,
             then |-> "redelete"]
  BY Zenon DEF BeginDelete, Idle
<1> HIDE DEF pc, queue
<1>3. EmptyDevice \in DeviceStates /\ Numbered(EmptyDevice, generation)
  BY DEF EmptyDevice, DeviceStates, Numbered
<1>4. op' \in Ops
  BY <1>1, <1>2, <1>3, Zenon DEF Ops
<1>5. TypeOK'
  BY <1>0, <1>4, Zenon DEF IInv, TypeOK
<1>6. /\ op'.pc = pc /\ op'.then = "redelete" /\ op'.receipt = None
      /\ op'.pend = Subject /\ op'.queue = queue
      /\ op'.prev = [d \in Devices |-> EmptyDevice]
  BY <1>2, Zenon
<1>7. OpFormed' /\ PutFormed'
  BY <1>1, <1>6, Zenon DEF OpFormed, PutFormed, Putting, Pending, Cleaning, Undoing
<1>8. Numbers'
  BY <1>0, <1>1, <1>3, <1>6 DEF IInv, Numbers
<1>9. AckedSettled' /\ AckedFloor'
  BY <1>0, Zenon DEF AckedSettled, AckedFloor
<1>10. AckedKnown'
  <2>1. \A d \in Devices : op'.prev[d].receipt = None
    BY <1>6, EmptyIs, Zenon
  <2> QED
    BY <1>0, <1>6, <2>1, Zenon DEF IInv, AckedKnown, Known
<1> QED
  BY <1>5, <1>7, <1>8, <1>9, <1>10 DEF IInv

\* Step Preflight keeps the invariant: the receipt to delete is the one found.
LEMMA PreflightIInv ==
  ASSUME SetFacts, IInv, Preflight
  PROVE  IInv'
<1>0. /\ UNCHANGED <<now, may, generation, open, pendings, faults>>
      /\ op.pc = "preflight" /\ op \in Ops
  BY DEF Preflight, storage, IInv, TypeOK
<1>1. PICK d \in Devices : TRUE
  BY TargetsExist
<1>2. /\ Moves(d, now[d]) /\ now[d] \in DeviceStates
      /\ Numbered(now[d], generation) /\ Deleting
  BY <1>0, DeviceMoves, Zenon DEF IInv, TypeOK, Numbers, storage, Deleting
<1>3. CASE op' = Idle /\ acked' = None /\ maybe' = {}
  <2>1. Numbers'
    BY <1>0, <1>3, Zenon DEF IInv, Numbers, Numbered, Idle, EmptyDevice
  <2> QED
    BY <1>0, <1>3, <2>1, IdleFormed
       DEF IInv, TypeOK, AckedSettled, AckedFloor, AckedKnown
<1>4. CASE op' = Idle /\ UNCHANGED history
  <2>1. DeleteStep(d, now[d])
    BY <1>0, <1>2, <1>4, Zenon DEF DeleteStep, history
  <2> QED
    BY <1>0, <1>2, <1>4, <2>1, IdleFormed, DeleteStepKeeps, Zenon DEF IInv, TypeOK, history
<1>5. CASE /\ Cardinality(ReceiptsFound) = 1 /\ UNCHANGED history
           /\ op' = [op EXCEPT !.pc = "handoff", !.prev = now,
                       !.todo = Carriers(Best),
                       !.pend = [receipt |-> Best, carriers |-> Carriers(Best),
                                 phase |-> "prepared"]]
  <2> DEFINE p == [receipt |-> Best, carriers |-> Carriers(Best), phase |-> "prepared"]
  <2>1. Best \in ReceiptsFound /\ Best \in Receipts
    BY <1>5, BestIs DEF IInv, SetFacts
  <2>2. Best.generation <= generation
    BY <2>1, Zenon DEF IInv, TypeOK, Numbers, Numbered, ReceiptsFound
  <2>3. /\ p \in Pendings /\ p.receipt.generation <= generation /\ p # None
        /\ Carriers(Best) \in SUBSET Devices
    BY <2>1, <2>2, ObjectAssumption DEF Pendings, Carriers
  <2> DEFINE c == Carriers(Best)
  <2>4. op' = [op EXCEPT !.pc = "handoff", !.prev = now, !.todo = c, !.pend = p]
    BY <1>5, Zenon
  <2> HIDE DEF p, c
  <2>5. now \in [Devices -> DeviceStates] /\ c \in SUBSET Devices
    BY <2>3 DEF IInv, TypeOK, c
  <2>6. /\ op' \in Ops /\ op'.pc = "handoff" /\ op'.pend = p
        /\ op'.receipt = op.receipt /\ op'.prev = now /\ op'.queue = op.queue
    BY <1>0, <2>3, <2>4, <2>5, Zenon DEF Ops
  <2>7. TypeOK' /\ OpFormed'
    BY <1>0, <1>5, <2>3, <2>6
       DEF IInv, TypeOK, history, OpFormed, Putting, Pending, Cleaning, Undoing
  <2>8. DeleteStep(d, now[d])
    BY <1>0, <1>2, <1>5, <2>3, <2>6, Zenon
       DEF DeleteStep, history, Putting, Cleaning, Undoing
  <2> QED
    BY <1>0, <1>2, <2>7, <2>8, DeleteStepKeeps DEF IInv
<1> QED
  BY <1>3, <1>4, <1>5 DEF Preflight

\* WithHandoff puts the pending deletion in the place of one of its generation.
LEMMA WithHandoffIs ==
  ASSUME NEW s \in DeviceStates, NEW p \in Pendings, NEW n \in Nat,
         Numbered(s, n), Generation(p) <= n
  PROVE  /\ WithHandoff(s, p) \in DeviceStates
         /\ WithHandoff(s, p).receipt = s.receipt
         /\ Numbered(WithHandoff(s, p), n)
<1> DEFINE h == {q \in s.handoff : Generation(q) # Generation(p)} \cup {p}
<1>1. h \in SUBSET Pendings /\ \A q \in h : Generation(q) <= n
  BY DEF DeviceStates, Numbered
<1>2. WithHandoff(s, p) = [s EXCEPT !.handoff = h]
  BY DEF WithHandoff
<1> HIDE DEF h
<1>3. /\ WithHandoff(s, p) \in DeviceStates /\ WithHandoff(s, p).handoff = h
      /\ WithHandoff(s, p).receipt = s.receipt
  BY <1>1, <1>2, Zenon DEF DeviceStates
<1> QED
  BY <1>1, <1>3 DEF Numbered

\* Step PutHandoff keeps the invariant.
LEMMA PutHandoffIInv ==
  ASSUME IInv, NEW d \in Devices, PutHandoff(d)
  PROVE  IInv'
<1> DEFINE state == WithHandoff(now[d], op.pend)
<1> DEFINE span == (op.pend.carriers \ op.todo) \cup {d}
<1>0. /\ op.pc = "handoff" /\ Deleting
      /\ UNCHANGED <<generation, open, pendings, acked, maybe>>
  BY Zenon DEF PutHandoff, Visiting, history, Deleting
<1>1. /\ op \in Ops /\ op.pend \in Pendings /\ op.pend # None
      /\ op.pend.carriers \subseteq Devices
      /\ now[d] \in DeviceStates /\ Numbered(now[d], generation)
      /\ Generation(op.pend) <= generation /\ generation \in Nat
  BY <1>0 DEF IInv, TypeOK, OpFormed, Ops, Pending, Pendings, Numbers
<1>2. state \in DeviceStates /\ state.receipt = now[d].receipt
      /\ Numbered(state, generation)
  BY <1>1, WithHandoffIs, Zenon
<1>3. \/ /\ Write(d, state) /\ UNCHANGED faults
         /\ op' = After(d, [op EXCEPT !.pc = "handoffsync",
                                      !.todo = op.pend.carriers])
      \/ WriteFails(d, state) /\ op' = Undo(op, "handoff", span)
  BY DEF PutHandoff
<1> HIDE DEF state
<1>4. Moves(d, state) /\ faults' \in 0..MaxFaults
  BY <1>2, <1>3, DeviceMoves, FaultTyped DEF IInv, TypeOK, WriteFails
<1>5. /\ op' \in Ops /\ op'.pc \in {"handoff", "handoffsync", "undo"}
      /\ op'.receipt = op.receipt /\ op'.prev = op.prev /\ op'.pend = op.pend
      /\ op'.queue = op.queue
      /\ op'.pc = "undo" => op'.field = "handoff"
  <2>0. span \in SUBSET Devices
    BY <1>1
  <2> HIDE DEF span
  <2>1. CASE op' = [op EXCEPT !.pc = "handoffsync", !.todo = op.pend.carriers]
    BY <1>1, <2>1, Zenon DEF Ops
  <2>2. CASE op' = [op EXCEPT !.todo = @ \ {d}]
    BY <1>0, <1>1, <2>2 DEF Ops
  <2>3. CASE op' = Undo(op, "handoff", span)
    BY <1>1, <2>0, <2>3, Zenon DEF Ops, Undo
  <2> QED
    BY <1>3, <2>1, <2>2, <2>3, Zenon DEF After
<1>6. TypeOK'
  BY <1>0, <1>4, <1>5, Zenon DEF IInv, TypeOK, Moves
<1>7. OpFormed'
  BY <1>1, <1>5 DEF OpFormed, Putting, Pending, Cleaning, Undoing
<1>8. DeleteStep(d, state)
  BY <1>0, <1>1, <1>2, <1>4, <1>5, Zenon
     DEF DeleteStep, Putting, Cleaning, Undoing, Generation
<1> QED
  BY <1>0, <1>2, <1>6, <1>7, <1>8, DeleteStepKeeps DEF IInv

\* Insert replaces the pending deletion of the same generation.
LEMMA InsertIs ==
  ASSUME TypeOK, NEW p \in Pendings
  PROVE  Insert(p) \in SUBSET Pendings /\ Insert(p) \subseteq pendings \cup {p}
BY DEF TypeOK, Insert

\* Cleanup begins with the payloads that no newer receipt needs.
LEMMA PurgingIs ==
  ASSUME SetFacts, NEW o \in Ops, o.pend # None, NEW n \in Receipts \cup {None}
  PROVE  /\ Purging(o, n) \in Ops /\ Purging(o, n).pc = "purge"
         /\ Purging(o, n).receipt = o.receipt /\ Purging(o, n).prev = o.prev
         /\ Purging(o, n).pend = o.pend /\ Purging(o, n).queue = o.queue
         /\ Purging(o, n).then = o.then
         /\ n # None => Purging(o, n).todo \cap n.targets = {}
<1> DEFINE t == o.pend.receipt.targets \ (IF n = None THEN {} ELSE n.targets)
<1>1. t \in SUBSET Devices /\ (n # None => t \cap n.targets = {})
  BY TargetsExist, Zenon DEF Ops, Pendings, Receipts
<1>2. Purging(o, n) = [o EXCEPT !.pc = "purge", !.newer = n, !.todo = t]
  BY DEF Purging
<1> HIDE DEF t
<1> QED
  BY <1>1, <1>2, ZenonT(60) DEF Ops

\* Step SyncHandoff keeps the invariant.
LEMMA SyncHandoffIInv ==
  ASSUME SetFacts, IInv, NEW d \in Devices, SyncHandoff(d)
  PROVE  IInv'
<1> DEFINE p == [op.pend EXCEPT !.phase = "committed"]
<1> DEFINE o == [op EXCEPT !.then = "delete"]
<1>0. /\ op.pc = "handoffsync" /\ Deleting
      /\ UNCHANGED <<generation, open, acked, maybe>>
  BY DEF SyncHandoff, Visiting, history, Deleting
<1>1. /\ op \in Ops /\ op.pend \in Pendings /\ op.pend # None
      /\ op.pend.carriers \in SUBSET Devices
      /\ now[d] \in DeviceStates /\ Numbered(now[d], generation)
      /\ Generation(op.pend) <= generation /\ now \in [Devices -> DeviceStates]
  BY <1>0, Zenon DEF IInv, TypeOK, OpFormed, Ops, Pending, Pendings, Numbers
<1>2. p \in Pendings /\ p # None /\ p.receipt = op.pend.receipt
  BY <1>1, ObjectAssumption DEF Pendings
<1>3. \/ /\ Sync(d) /\ UNCHANGED faults
         /\ \/ op' = [op EXCEPT !.pc = "handoff", !.todo = op.pend.carriers,
                                !.prev = now, !.pend = p]
            \/ op' = Purging(o, None)
            \/ op' = [op EXCEPT !.todo = @ \ {d}]
      \/ SyncFails /\ op' = Undo(op, "handoff", op.pend.carriers)
  <2>1. [op EXCEPT !.pc = "handoff", !.todo = op.pend.carriers, !.prev = now,
                   !.pend.phase = "committed"] =
        [op EXCEPT !.pc = "handoff", !.todo = op.pend.carriers, !.prev = now,
                   !.pend = p]
    BY <1>1 DEF Ops
  <2> QED
    BY <2>1, Zenon DEF SyncHandoff, After
<1>4. pendings' \in {pendings, Insert(op.pend)}
  BY DEF SyncHandoff
<1>5. Moves(d, now[d]) /\ faults' \in 0..MaxFaults
  BY <1>1, <1>3, DeviceMoves, FaultTyped DEF IInv, TypeOK, SyncFails
<1>6. /\ op' \in Ops /\ op'.pc \in {"handoff", "handoffsync", "purge", "undo"}
      /\ op'.receipt = op.receipt /\ op'.prev \in {op.prev, now}
      /\ op'.pend # None /\ op'.pend.receipt = op.pend.receipt
      /\ op'.queue = op.queue
      /\ op'.pc = "undo" => op'.field = "handoff"
      /\ op'.pc = "purge" => op'.then = "delete"
  <2>1. CASE op' = [op EXCEPT !.pc = "handoff", !.todo = op.pend.carriers,
                              !.prev = now, !.pend = p]
    <3> HIDE DEF p
    <3> QED
      BY <1>1, <1>2, <2>1, Zenon DEF Ops
  <2>2. CASE op' = Purging(o, None)
    <3>1. /\ o \in Ops /\ o.pend = op.pend /\ o.receipt = op.receipt
          /\ o.prev = op.prev /\ o.queue = op.queue /\ o.then = "delete"
      BY <1>1 DEF Ops
    <3> HIDE DEF o
    <3> QED
      BY <1>1, <2>2, <3>1, PurgingIs, Zenon
  <2>3. CASE op' = [op EXCEPT !.todo = @ \ {d}]
    BY <1>0, <1>1, <2>3 DEF Ops
  <2>4. CASE op' = Undo(op, "handoff", op.pend.carriers)
    BY <1>1, <2>4, ZenonT(60) DEF Ops, Undo
  <2> QED
    BY <1>3, <2>1, <2>2, <2>3, <2>4
<1> HIDE DEF p, o
<1>7. TypeOK'
  BY <1>0, <1>1, <1>4, <1>5, <1>6, InsertIs, Zenon DEF IInv, TypeOK, Moves
<1>8. OpFormed'
  BY <1>6, Zenon DEF OpFormed, Putting, Pending, Cleaning, Undoing
<1>9. pendings' \subseteq pendings \cup {op.pend}
  BY <1>1, <1>4, InsertIs, Zenon DEF IInv
<1>10. ~Putting'
  BY <1>6, Zenon DEF Putting, Cleaning, Undoing
<1>11. DeleteStep(d, now[d])
  BY <1>0, <1>1, <1>5, <1>6, <1>9, <1>10, Zenon DEF DeleteStep, Generation
<1> QED
  BY <1>0, <1>1, <1>7, <1>8, <1>11, DeleteStepKeeps DEF IInv

\* Step FinishCommitted keeps the invariant.
LEMMA FinishCommittedIInv ==
  ASSUME SetFacts, IInv, NEW d \in Devices, FinishCommitted(d)
  PROVE  IInv'
<1> DEFINE state == WithHandoff(now[d], op.pend)
<1>0. /\ op.pc = "finish" /\ Deleting
      /\ UNCHANGED <<generation, open, acked, maybe>>
  BY Zenon DEF FinishCommitted, Visiting, history, Deleting
<1>1. /\ op \in Ops /\ op.pend \in Pendings /\ op.pend # None
      /\ now[d] \in DeviceStates /\ Numbered(now[d], generation)
      /\ Generation(op.pend) <= generation /\ generation \in Nat
  <2>1. op \in Ops /\ op.pend # None
    BY <1>0 DEF IInv, TypeOK, OpFormed, Pending
  <2>2. op.pend \in Pendings
    BY <2>1, Zenon DEF Ops
  <2>3. Generation(op.pend) <= generation
    BY <2>1 DEF IInv, Numbers
  <2>4. /\ now[d] \in DeviceStates /\ now[d] \in may[d] /\ generation \in Nat
    BY DEF IInv, TypeOK
  <2>5. Numbered(now[d], generation)
    BY <2>4 DEF IInv, Numbers
  <2> QED
    BY <2>1, <2>2, <2>3, <2>4, <2>5, Zenon
<1>2. /\ state \in DeviceStates /\ state.receipt = now[d].receipt
      /\ Numbered(state, generation)
  BY <1>1, WithHandoffIs
<1>3. PICK durable \in BOOLEAN :
        LET o == [op EXCEPT !.todo = @ \ {d}, !.ok = op.ok \/ durable]
        IN /\ IF durable THEN WriteSync(d, state) /\ UNCHANGED faults
                         ELSE WriteFails(d, state)
           /\ op' \in {o, Purging([o EXCEPT !.then = "delete"], None), Idle}
           /\ pendings' \in {pendings, Insert(op.pend)}
  BY Zenon DEF FinishCommitted
<1> DEFINE o == [op EXCEPT !.todo = @ \ {d}, !.ok = op.ok \/ durable]
<1> DEFINE p == [o EXCEPT !.then = "delete"]
<1>4. op' \in {o, Purging(p, None), Idle}
  BY <1>3
<1> HIDE DEF state
<1>5. Moves(d, state) /\ faults' \in 0..MaxFaults
  BY <1>2, <1>3, DeviceMoves, FaultTyped DEF IInv, TypeOK, WriteFails
<1>6. /\ o \in Ops /\ o.pc = "finish" /\ o.receipt = op.receipt /\ o.prev = op.prev
      /\ o.pend = op.pend /\ o.queue = op.queue
  <2> DEFINE ok == op.ok \/ durable
  <2>1. ok \in BOOLEAN
    BY <1>1, Zenon DEF Ops
  <2> HIDE DEF ok
  <2>2. [op EXCEPT !.todo = @ \ {d}, !.ok = ok] \in Ops
    BY <1>1, <2>1, Zenon DEF Ops
  <2> QED
    BY <1>0, <1>1, <2>2 DEF Ops, ok
<1> HIDE DEF o
<1>7. /\ p \in Ops /\ p.receipt = op.receipt /\ p.prev = op.prev
      /\ p.pend = op.pend /\ p.queue = op.queue /\ p.then = "delete"
  BY <1>6, Zenon DEF Ops
<1> HIDE DEF p
<1>8. \/ op' = Idle
      \/ /\ op' \in Ops /\ op'.pc \in {"finish", "purge"}
         /\ op'.receipt = op.receipt /\ op'.prev = op.prev /\ op'.pend = op.pend
         /\ op'.queue = op.queue /\ (op'.pc = "purge" => op'.then = "delete")
  BY <1>1, <1>4, <1>6, <1>7, PurgingIs
<1>9. TypeOK'
  BY <1>0, <1>1, <1>3, <1>5, <1>8, InsertIs, IdleFormed DEF IInv, TypeOK, Moves
<1>10. OpFormed'
  BY <1>1, <1>8, IdleFormed, Zenon DEF OpFormed, Putting, Pending, Cleaning, Undoing
<1>11. pendings' \subseteq pendings \cup {op.pend}
  BY <1>1, <1>3, InsertIs, Zenon DEF IInv
<1>12. op' # Idle => ~Putting'
  BY <1>8, Zenon DEF Putting, Cleaning, Undoing
<1>13. DeleteStep(d, state)
  BY <1>0, <1>1, <1>2, <1>5, <1>8, <1>11, <1>12, Zenon DEF DeleteStep, Generation
<1> QED
  BY <1>0, <1>1, <1>2, <1>9, <1>10, <1>13, DeleteStepKeeps DEF IInv

----------------------------------------------------------------------------
(* reconcile_one_pending_deletion *)

\* Cleanup after `newer`: no payload of a receipt that every device has and that
\* is newer than the deletion.
Spared(todo) ==
  \A r \in Receipts : Firm(r) /\ Older(r.generation) => todo \cap r.targets = {}

\* The cleanup goes on, with the same deletion or the next of the queue.
GoesOn ==
  /\ Cleaning'
  /\ op'.receipt = op.receipt /\ op'.prev = op.prev /\ op'.then = op.then
  /\ op'.queue \subseteq op.queue
  /\ op'.pend \in op.queue \/ op'.pend = op.pend
  /\ op'.pc # "reconcile" => op'.pend \in op.queue \/ op.pc # "reconcile"
  /\ op'.pc = "purge" =>
       \/ op.pc = "purge" /\ op'.todo \subseteq op.todo
       \/ Spared(op'.todo)

\* A step of the cleanup on one device: it takes away handoffs, the payload of a
\* device it has to visit, or exactly the deleted receipt.
CleanStep(d, state) ==
  /\ Moves(d, state)
  /\ state.handoff \subseteq now[d].handoff
  /\ \/ state.receipt = now[d].receipt
     \/ /\ op.pc = "purgereceipt" /\ now[d].receipt = op.pend.receipt
        /\ state.receipt = None
  /\ state.payload = now[d].payload \/ (op.pc = "purge" /\ d \in op.todo)
  /\ UNCHANGED <<generation, acked, maybe>>
  /\ pendings' \subseteq pendings
  /\ op' = Idle \/ GoesOn

\* reconcile_pending_deletions removes only what a deletion older than the
\* acknowledged put left behind.
LEMMA CleanStepKeeps ==
  ASSUME IInv, Cleaning, NEW d \in Devices, NEW state \in DeviceStates,
         CleanStep(d, state)
  PROVE  /\ Numbers' /\ PutFormed'
         /\ AckedSettled' /\ AckedFloor' /\ AckedKnown'
<1>0. /\ \A e \in Devices : now[e] \in may[e] /\ now[e] \in DeviceStates
      /\ op \in Ops /\ generation \in Nat
      /\ OpFormed /\ Numbers /\ PutFormed /\ AckedSettled /\ AckedFloor /\ AckedKnown
  <2>1. generation \in Nat
    BY DEF IInv, TypeOK
  <2> QED
    BY <2>1, Zenon DEF IInv, TypeOK
<1>1. op.pc # "reconcile" => op.pend # None /\ op.pend \in Pendings
  BY <1>0 DEF OpFormed, Pending, Cleaning, Ops
<1>S. /\ Moves(d, state) /\ state.handoff \subseteq now[d].handoff
      /\ \/ state.receipt = now[d].receipt
         \/ /\ op.pc = "purgereceipt" /\ now[d].receipt = op.pend.receipt
            /\ state.receipt = None
      /\ state.payload = now[d].payload \/ (op.pc = "purge" /\ d \in op.todo)
  BY Zenon DEF CleanStep
<1>U. UNCHANGED <<generation, acked, maybe>> /\ pendings' \subseteq pendings
  BY Zenon DEF CleanStep
<1>O. op' = Idle \/ (op' # Idle /\ GoesOn)
  BY Zenon DEF CleanStep
<1>2. Numbers'
  <2>1. Numbered(state, generation)
    BY <1>0, <1>S, Zenon DEF Numbers, Numbered
  <2>2. \A e \in Devices : \A s \in may'[e] : Numbered(s, generation')
    BY <1>0, <1>S, <1>U, <2>1, Zenon DEF Numbers, Moves
  <2>3. Numbered(EmptyDevice, generation)
    BY DEF Numbered, EmptyDevice
  <2>4. CASE op' = Idle
    BY <1>0, <1>U, <2>2, <2>3, <2>4, IdleIs, Zenon DEF Numbers
  <2>5. CASE GoesOn
    <3>1. op'.pend # None => Generation(op'.pend) <= generation
      BY <1>0, <2>5, Zenon DEF Numbers, GoesOn
    <3> QED
      BY <1>0, <1>U, <2>2, <2>5, <3>1, Zenon DEF Numbers, GoesOn
  <2> QED
    BY <1>O, <2>4, <2>5
<1>3. ASSUME NEW g \in Nat, Older(g) PROVE Older(g)'
  <2>1. \A e \in Devices : \A s \in may'[e] : \A p \in s.handoff : Generation(p) < g
    BY <1>0, <1>3, <1>S, Zenon DEF Older, Moves
  <2>2. CASE op' = Idle
    BY <1>3, <1>U, <2>1, <2>2, IdleIs, Zenon DEF Older
  <2>3. CASE GoesOn
    <3>1. \A p \in pendings' \cup op'.queue : Generation(p) < g
      BY <1>3, <1>U, <2>3, Zenon DEF Older, GoesOn
    <3>2. op'.pc # "reconcile" => Generation(op'.pend) < g
      BY <1>3, <2>3, Zenon DEF Older, GoesOn
    <3> QED
      BY <2>1, <3>1, <3>2, Zenon DEF Older
  <2> QED
    BY <1>O, <2>2, <2>3
<1>4. ASSUME NEW r \in Receipts, NEW s \in DeviceStates, s.receipt = r,
             Older(r.generation)
      PROVE  ~(op.pc = "purgereceipt" /\ s.receipt = op.pend.receipt)
  BY <1>1, <1>4 DEF Older, Cleaning, Generation, Receipts
<1>5. ASSUME NEW r \in Receipts, Firm(r), Older(r.generation) PROVE Firm(r)'
  <2>1. Keeps(d, now[d], r)
    BY <1>0, <1>5 DEF Firm
  <2>2. state.receipt = r
    BY <1>0, <1>4, <1>5, <1>S, <2>1, Zenon DEF Keeps
  <2>3. d \in r.targets => state.payload = r.value
    BY <1>5, <1>S, <2>1 DEF Firm, Keeps
  <2>4. \A e \in Devices : \A s \in may'[e] : Keeps(e, s, r)
    BY <1>5, <1>S, <2>2, <2>3, ZenonT(60) DEF Firm, Keeps, Moves
  <2>5. op'.pc = "purge" => op'.todo \cap r.targets = {}
    <3>1. CASE op' = Idle
      BY <3>1, IdleIs, Zenon
    <3>2. CASE GoesOn
      BY <1>5, <3>2 DEF Firm, GoesOn, Spared
    <3> QED
      BY <1>O, <3>1, <3>2, Zenon
  <2> QED
    BY <2>4, <2>5, Zenon DEF Firm
<1>6. ASSUME NEW g \in Nat, Bottom(g), Older(g) PROVE Bottom(g)'
  <2>1. now[d].receipt \in Receipts /\ now[d].receipt.generation >= g
    BY <1>0, <1>6, Zenon DEF Bottom, DeviceStates
  <2>2. ~(op.pc = "purgereceipt" /\ now[d].receipt = op.pend.receipt)
    BY <1>1, <1>6, <2>1 DEF Older, Cleaning, Generation, Receipts
  <2>3. state.receipt # None /\ state.receipt.generation >= g
    BY <1>0, <1>6, <1>S, <2>2, Zenon DEF Bottom
  <2> QED
    BY <1>6, <1>S, <2>3, Zenon DEF Bottom, Moves
<1>7. PutFormed'
  <2>1. CASE ~Putting'
    BY <2>1, Zenon DEF PutFormed, Putting
  <2>2. CASE Putting'
    <3>1. GoesOn
      BY <1>O, <2>2, IdleIs, Zenon
    <3>2. Cleaning' /\ op'.then = "put" /\ op.then = "put" /\ op'.receipt = op.receipt
      BY <2>2, <3>1 DEF Putting, Cleaning, Undoing, GoesOn
    <3>3. op.receipt \in Receipts /\ Firm(op.receipt) /\ Older(op.receipt.generation)
      BY <1>0, <3>2, Zenon DEF OpFormed, PutFormed, Putting, Ops
    <3>4. PICK r \in Receipts : r = op.receipt
      BY <3>3
    <3>5. r.generation \in Nat
      BY DEF Receipts
    <3>6. Firm(r)' /\ Older(r.generation)'
      BY <1>3, <1>5, <3>3, <3>4, <3>5, Zenon
    <3>7. Firm(op.receipt)' /\ Older(op.receipt.generation)'
      BY <3>2, <3>4, <3>6, Zenon
    <3> QED
      BY <3>2, <3>7, Zenon DEF PutFormed, Cleaning
  <2> QED
    BY <2>1, <2>2, Zenon
<1>8. AckedSettled'
  <2> SUFFICES ASSUME acked' # None, maybe' = {} PROVE (\E r \in Receipts : Settled(r))'
    BY DEF AckedSettled
  <2>1. PICK r \in Receipts : Settled(r)
    BY <1>0, <1>U DEF AckedSettled
  <2>2. r.generation \in Nat
    BY DEF Receipts
  <2>3. Firm(r)' /\ Older(r.generation)' /\ r.value = acked'
    BY <1>3, <1>5, <1>U, <2>1, <2>2, Zenon DEF Settled
  <2>4. op'.pc = "idle" \/ (Cleaning' /\ op'.then = "idle")
    <3>1. op.then = "idle"
      BY <2>1 DEF Settled, Cleaning
    <3> QED
      BY <1>O, <3>1, IdleIs, Zenon DEF GoesOn
  <2> QED
    BY <2>3, <2>4 DEF Settled
<1>9. AckedFloor'
  <2> SUFFICES ASSUME acked' # None, None \notin maybe' PROVE (\E g \in Nat : Floor(g))'
    BY Zenon DEF AckedFloor
  <2>1. PICK g \in Nat : Floor(g)
    BY <1>0, <1>U, Zenon DEF AckedFloor
  <2>2. Bottom(g)' /\ Older(g)'
    BY <1>3, <1>6, <2>1, Zenon DEF Floor
  <2>3. CASE op' = Idle
    BY <2>2, <2>3, IdleIs DEF Floor
  <2>4. CASE GoesOn
    <3>1. op.then \notin {"delete", "redelete"}
      BY <2>1, Zenon DEF Floor, Deleting
    <3>2. ~Deleting' /\ (Putting' => Putting)
      BY <2>4, <3>1 DEF GoesOn, Deleting, Putting, Cleaning, Undoing
    <3> QED
      BY <2>1, <2>2, <2>4, <3>2, Zenon DEF Floor, GoesOn
  <2> QED
    BY <1>O, <2>3, <2>4
<1>10. AckedKnown'
  <2> SUFFICES ASSUME acked # None PROVE Known'
    BY <1>U DEF AckedKnown
  <2>1. Known
    BY <1>0 DEF AckedKnown
  <2>2. \A e \in Devices : \A s \in may'[e] :
          s.receipt # None => s.receipt.value \in {acked} \cup maybe
    BY <1>0, <1>S, <2>1, Zenon DEF Known, Moves
  <2>3. CASE op' = Idle
    <3>1. EmptyDevice.receipt = None
      BY DEF EmptyDevice
    <3> QED
      BY <1>U, <2>2, <2>3, <3>1, IdleIs, Zenon DEF Known
  <2>4. CASE GoesOn
    BY <1>U, <2>1, <2>2, <2>4, Zenon DEF Known, GoesOn
  <2> QED
    BY <1>O, <2>3, <2>4
<1> QED
  BY <1>2, <1>7, <1>8, <1>9, <1>10, Zenon

\* What stays unresolved ends the call or leaves the rest of the queue.
LEMMA GiveUpIs ==
  ASSUME NEW o \in Ops
  PROVE  \/ GiveUp(o) = Idle
         \/ /\ GiveUp(o) \in Ops /\ GiveUp(o).pc = "reconcile"
            /\ GiveUp(o).receipt = o.receipt /\ GiveUp(o).prev = o.prev
            /\ GiveUp(o).then = o.then /\ GiveUp(o).queue = o.queue
            /\ GiveUp(o).pend = o.pend
<1>1. CASE GiveUp(o) = [o EXCEPT !.pc = "reconcile", !.todo = {}]
  BY <1>1, ZenonT(60) DEF Ops
<1> QED
  BY <1>1 DEF GiveUp

\* A receipt that every device has is the one a read finds.
LEMMA FirmIsBest ==
  ASSUME SetFacts, TypeOK, NEW r \in Receipts, Firm(r)
  PROVE  ReceiptsFound = {r} /\ Best = r
<1>1. \A d \in Devices : now[d].receipt = r
  BY DEF TypeOK, Firm, Keeps
<1>2. r # None
  BY ObjectAssumption
<1>3. ReceiptsFound = {r}
  BY <1>1, <1>2, TargetsExist, Zenon DEF ReceiptsFound
<1> QED
  BY <1>3, BestIs, Zenon

\* Step Reconcile keeps the invariant: a newer receipt is looked for first.
LEMMA ReconcileIInv ==
  ASSUME SetFacts, IInv, NEW p \in op.queue, Reconcile(p)
  PROVE  IInv'
<1> DEFINE newer == IF Best # None /\ Best.generation > Generation(p)
                      THEN Best ELSE None
<1> DEFINE o == [op EXCEPT !.queue = @ \ {p}, !.pend = p]
<1> DEFINE c == [o EXCEPT !.pc = "clear", !.todo = p.carriers]
<1>0. /\ op.pc = "reconcile" /\ Cleaning /\ op \in Ops
      /\ UNCHANGED <<now, may, generation, open, pendings, acked, maybe, faults>>
  BY DEF Reconcile, storage, history, Cleaning, IInv, TypeOK
<1>1. PICK d \in Devices : TRUE
  BY TargetsExist
<1>2. /\ Moves(d, now[d]) /\ now[d] \in DeviceStates
      /\ p \in Pendings /\ p # None /\ p.carriers \in SUBSET Devices
  BY <1>0, DeviceMoves, ObjectAssumption, ZenonT(60) DEF IInv, TypeOK, storage, Ops, Pendings
<1>3. newer \in Receipts \cup {None}
  BY BestIs DEF IInv
<1>4. op' \in {c, GiveUp(o), Purging(o, newer)}
  BY DEF Reconcile
<1>5. ASSUME NEW r \in Receipts, Firm(r), Older(r.generation)
      PROVE  newer = r
  <2>1. Best = r /\ r # None
    BY <1>5, FirmIsBest, ObjectAssumption, Zenon DEF IInv
  <2>2. Generation(p) < r.generation
    BY <1>5, Zenon DEF Older
  <2>3. r.generation > Generation(p)
    BY <1>2, <1>5, <2>2 DEF Receipts, Pendings, Generation
  <2> QED
    BY <2>1, <2>3, Zenon
<1>6. /\ o \in Ops /\ o.pc = "reconcile" /\ o.receipt = op.receipt /\ o.prev = op.prev
      /\ o.pend = p /\ o.queue = op.queue \ {p} /\ o.then = op.then
  BY <1>0, <1>2, Zenon DEF Ops
<1> HIDE DEF o, newer
<1>7. /\ c \in Ops /\ c.pc = "clear" /\ c.receipt = o.receipt /\ c.prev = o.prev
      /\ c.pend = p /\ c.queue = o.queue /\ c.then = o.then
  BY <1>2, <1>6, Zenon DEF Ops
<1> HIDE DEF c
<1>8. \/ op' = Idle
      \/ /\ op' \in Ops /\ op'.pc \in {"reconcile", "clear", "purge"}
         /\ op'.receipt = op.receipt /\ op'.prev = op.prev /\ op'.then = op.then
         /\ op'.queue = op.queue \ {p} /\ op'.pend = p
         /\ op'.pc = "purge" /\ newer # None => op'.todo \cap newer.targets = {}
  <2>1. CASE op' = c
    BY <1>6, <1>7, <2>1, Zenon
  <2>2. CASE op' = GiveUp(o)
    BY <1>6, <2>2, GiveUpIs
  <2>3. CASE op' = Purging(o, newer)
    BY <1>2, <1>3, <1>6, <2>3, PurgingIs, ZenonT(60)
  <2> QED
    BY <1>4, <2>1, <2>2, <2>3, Zenon
<1>9. op' # Idle /\ op'.pc = "purge" => Spared(op'.todo)
  BY <1>5, <1>8, ObjectAssumption, ZenonT(60) DEF Spared
<1>10. TypeOK'
  BY <1>0, <1>8, IdleFormed, Zenon DEF IInv, TypeOK
<1>11. OpFormed'
  BY <1>0, <1>2, <1>8, IdleFormed, Zenon DEF IInv, OpFormed, Putting, Pending, Cleaning, Undoing
<1>12. CleanStep(d, now[d])
  BY <1>0, <1>2, <1>8, <1>9, Zenon DEF CleanStep, GoesOn, Cleaning
<1> QED
  BY <1>0, <1>2, <1>10, <1>11, <1>12, CleanStepKeeps DEF IInv

\* What Purge, PurgeReceipt and ReceiptsPurged leave of the call.
CleanOp ==
  \/ op' = Idle
  \/ /\ op' \in Ops
     /\ op'.receipt = op.receipt /\ op'.prev = op.prev /\ op'.then = op.then
     /\ op'.queue = op.queue /\ op'.pend = op.pend
     /\ \/ op'.pc = "reconcile"
        \/ op'.pc = op.pc /\ op'.todo \subseteq op.todo
        \/ op'.pc \in {"purgereceipt", "clear"}

\* A purge or a cleared handoff of one device keeps the invariant.
LEMMA CleanOpIInv ==
  ASSUME IInv, Cleaning, op.pc # "reconcile", CleanOp,
         UNCHANGED <<generation, acked, maybe, open>>,
         NEW d \in Devices, NEW state \in DeviceStates, Moves(d, state),
         state.handoff \subseteq now[d].handoff,
         \/ state.receipt = now[d].receipt
         \/ /\ op.pc = "purgereceipt" /\ now[d].receipt = op.pend.receipt
            /\ state.receipt = None,
         state.payload = now[d].payload \/ (op.pc = "purge" /\ d \in op.todo),
         pendings' \subseteq pendings, faults' \in 0..MaxFaults
  PROVE  IInv'
<1>1. TypeOK'
  BY IdleFormed, Zenon DEF IInv, TypeOK, CleanOp, Moves
<1>2. OpFormed'
  <2>1. CASE op' = Idle
    BY <2>1, IdleFormed
  <2>2. CASE op' # Idle
    BY <2>2, ZenonT(60) DEF IInv, CleanOp, OpFormed, Putting, Pending, Cleaning, Undoing
  <2> QED
    BY <2>1, <2>2, Zenon
<1>3. CleanStep(d, state)
  <2>1. CASE op' = Idle
    BY <2>1, Zenon DEF CleanStep
  <2>2. CASE op' # Idle
    BY <2>2, Zenon DEF CleanStep, GoesOn, CleanOp, Cleaning
  <2> QED
    BY <2>1, <2>2, ZenonT(60)
<1> QED
  BY <1>1, <1>2, <1>3, CleanStepKeeps, Zenon DEF IInv

\* Step Purge keeps the invariant: only a device on the list loses its payload.
LEMMA PurgeIInv ==
  ASSUME IInv, NEW d \in Devices, Purge(d)
  PROVE  IInv'
<1> DEFINE state == [now[d] EXCEPT !.payload = None]
<1>0. /\ op.pc = "purge" /\ d \in op.todo /\ Cleaning /\ op \in Ops
      /\ UNCHANGED <<generation, open, pendings, acked, maybe>>
      /\ now[d] \in DeviceStates
  BY DEF Purge, Visiting, history, Cleaning, IInv, TypeOK
<1>1. /\ state \in DeviceStates /\ state.receipt = now[d].receipt
      /\ state.handoff = now[d].handoff
  BY <1>0 DEF DeviceStates
<1>2. \/ /\ UNCHANGED storage \/ WriteSync(d, state)
         /\ UNCHANGED faults /\ op' = [op EXCEPT !.todo = @ \ {d}]
      \/ WriteFails(d, state) /\ op' = GiveUp(op)
  BY DEF Purge
<1> HIDE DEF state
<1>3. Moves(d, state) /\ faults' \in 0..MaxFaults
  BY <1>1, <1>2, DeviceMoves, FaultTyped DEF IInv, TypeOK, WriteFails
<1>4. CleanOp
  <2>1. CASE op' = [op EXCEPT !.todo = @ \ {d}]
    BY <1>0, <2>1, Zenon DEF CleanOp, Ops
  <2>2. CASE op' = GiveUp(op)
    BY <1>0, <2>2, GiveUpIs, Zenon DEF CleanOp
  <2> QED
    BY <1>2, <2>1, <2>2, Zenon
<1> QED
  BY <1>0, <1>1, <1>3, <1>4, CleanOpIInv, Zenon

\* Steps Purged and ReceiptsPurged keep the invariant: they change no device.
LEMMA PurgedIInv ==
  ASSUME SetFacts, IInv, Purged \/ ReceiptsPurged
  PROVE  IInv'
<1>0. /\ op.pc \in {"purge", "purgereceipt"} /\ Cleaning /\ op \in Ops
      /\ UNCHANGED <<now, may, generation, open, pendings, acked, maybe, faults>>
  BY DEF Purged, ReceiptsPurged, storage, history, Cleaning, IInv, TypeOK
<1>1. PICK d \in Devices : TRUE
  BY TargetsExist
<1>2. /\ Moves(d, now[d]) /\ now[d] \in DeviceStates /\ faults' \in 0..MaxFaults
      /\ op.pend.carriers \in SUBSET Devices
  BY <1>0, DeviceMoves, Zenon DEF IInv, TypeOK, storage, OpFormed, Pending, Pendings, Ops
<1>3. \/ op' = [op EXCEPT !.pc = "purgereceipt", !.todo = op.pend.carriers]
      \/ op' = [op EXCEPT !.pc = "clear", !.todo = op.pend.carriers]
      \/ op' = GiveUp(op)
  BY DEF Purged, ReceiptsPurged
<1>4. CleanOp
  <2> DEFINE c == op.pend.carriers
  <2>0. c \in SUBSET Devices
    BY <1>2
  <2> HIDE DEF c
  <2>1. CASE op' = [op EXCEPT !.pc = "purgereceipt", !.todo = c]
    BY <1>0, <2>0, <2>1, Zenon DEF CleanOp, Ops
  <2>2. CASE op' = [op EXCEPT !.pc = "clear", !.todo = c]
    BY <1>0, <2>0, <2>2, Zenon DEF CleanOp, Ops
  <2>3. CASE op' = GiveUp(op)
    BY <1>0, <2>3, GiveUpIs DEF CleanOp
  <2> QED
    BY <1>3, <2>1, <2>2, <2>3, Zenon DEF c
<1> QED
  BY <1>0, <1>2, <1>4, CleanOpIInv, Zenon

\* Step PurgeReceipt keeps the invariant: only the deleted receipt goes.
LEMMA PurgeReceiptIInv ==
  ASSUME IInv, NEW d \in Devices, PurgeReceipt(d)
  PROVE  IInv'
<1> DEFINE state == [now[d] EXCEPT !.receipt = None]
<1>0. /\ op.pc = "purgereceipt" /\ Cleaning /\ op \in Ops
      /\ UNCHANGED <<generation, open, pendings, acked, maybe>>
      /\ now[d] \in DeviceStates
  BY DEF PurgeReceipt, Visiting, history, Cleaning, IInv, TypeOK
<1>1. /\ state \in DeviceStates /\ state.receipt = None
      /\ state.handoff = now[d].handoff /\ state.payload = now[d].payload
  BY <1>0 DEF DeviceStates
<1>2. /\ \/ /\ now[d].receipt = op.pend.receipt
            /\ \/ WriteSync(d, state) /\ UNCHANGED faults
               \/ WriteFails(d, state)
         \/ UNCHANGED <<storage, faults>>
      /\ op' = [op EXCEPT !.todo = @ \ {d}] \/ op' = GiveUp(op)
  BY DEF PurgeReceipt
<1> HIDE DEF state
<1>3. faults' \in 0..MaxFaults
  BY <1>2, FaultTyped DEF IInv, TypeOK, WriteFails
<1>4. CleanOp
  <2>1. CASE op' = [op EXCEPT !.todo = @ \ {d}]
    BY <1>0, <2>1, Zenon DEF CleanOp, Ops
  <2>2. CASE op' = GiveUp(op)
    BY <1>0, <2>2, GiveUpIs, Zenon DEF CleanOp
  <2> QED
    BY <1>2, <2>1, <2>2
<1>5. CASE UNCHANGED storage
  <2>1. Moves(d, now[d])
    BY <1>0, <1>5, DeviceMoves DEF IInv
  <2> QED
    BY <1>0, <1>3, <1>4, <2>1, CleanOpIInv, Zenon
<1>6. CASE /\ now[d].receipt = op.pend.receipt
           /\ WriteSync(d, state) \/ WriteFails(d, state)
  <2>1. Moves(d, state)
    BY <1>1, <1>6, DeviceMoves, Zenon DEF IInv
  <2> QED
    BY <1>0, <1>1, <1>3, <1>4, <1>6, <2>1, CleanOpIInv, Zenon
<1> QED
  BY <1>2, <1>5, <1>6

\* Step ClearHandoff keeps the invariant.
LEMMA ClearHandoffIInv ==
  ASSUME IInv, NEW d \in Devices, ClearHandoff(d)
  PROVE  IInv'
<1> DEFINE h == {q \in now[d].handoff : Generation(q) # Generation(op.pend)}
<1> DEFINE state == [now[d] EXCEPT !.handoff = h]
<1>0. /\ op.pc = "clear" /\ Cleaning /\ op \in Ops
      /\ UNCHANGED <<generation, open, acked, maybe>> /\ pendings' \subseteq pendings
      /\ now[d] \in DeviceStates
  BY Zenon DEF ClearHandoff, Visiting, history, Cleaning, IInv, TypeOK
<1>1. h \subseteq now[d].handoff /\ h \in SUBSET Pendings
  BY <1>0 DEF DeviceStates
<1>2. \/ /\ WriteSync(d, state) /\ UNCHANGED faults
         /\ op' = After(d, [op EXCEPT !.pc = "reconcile", !.todo = {}])
      \/ WriteFails(d, state) /\ op' = GiveUp(op)
  BY DEF ClearHandoff, WithoutHandoff
<1> HIDE DEF h
<1>3. /\ state \in DeviceStates /\ state.receipt = now[d].receipt
      /\ state.handoff = h /\ state.payload = now[d].payload
  BY <1>0, <1>1 DEF DeviceStates
<1> HIDE DEF state
<1>4. Moves(d, state) /\ faults' \in 0..MaxFaults
  BY <1>2, <1>3, DeviceMoves, FaultTyped DEF IInv, TypeOK, WriteFails
<1>5. CleanOp
  <2>1. CASE op' = [op EXCEPT !.pc = "reconcile", !.todo = {}]
    BY <1>0, <2>1, Zenon DEF CleanOp, Ops
  <2>2. CASE op' = [op EXCEPT !.todo = @ \ {d}]
    BY <1>0, <2>2, Zenon DEF CleanOp, Ops
  <2>3. CASE op' = GiveUp(op)
    BY <1>0, <2>3, GiveUpIs, Zenon DEF CleanOp
  <2> QED
    BY <1>2, <2>1, <2>2, <2>3 DEF After
<1> QED
  BY <1>0, <1>1, <1>3, <1>4, <1>5, CleanOpIInv, Zenon

\* Step Reconciled keeps the invariant: a put that returns has made its receipt
\* and its payload durable on every device that needs them.
LEMMA ReconciledIInv ==
  ASSUME SetFacts, IInv, Reconciled
  PROVE  IInv'
<1>0. /\ op.pc = "reconcile" /\ Cleaning /\ op \in Ops
      /\ UNCHANGED <<now, may, generation, open, pendings, faults>>
      /\ op.then \in {"idle", "put", "delete", "redelete"}
  BY Zenon DEF Reconciled, storage, Cleaning, IInv, TypeOK, Ops
<1>1. PICK d \in Devices : TRUE
  BY TargetsExist
<1>2. Moves(d, now[d]) /\ now[d] \in DeviceStates
  BY <1>0, DeviceMoves DEF IInv, TypeOK, storage
<1>3. op' = Idle => Numbers'
  <2>1. Numbered(EmptyDevice, generation)
    BY DEF Numbered, EmptyDevice
  <2> QED
    BY <1>0, <2>1, IdleIs, Zenon DEF IInv, Numbers
<1>4. CASE op.then = "idle"
  <2>1. op' = Idle /\ UNCHANGED <<acked, maybe>>
    BY <1>4 DEF Reconciled, history
  <2>2. CleanStep(d, now[d])
    BY <1>0, <1>2, <2>1, Zenon DEF CleanStep
  <2> QED
    <3>1. TypeOK'
      BY <1>0, <2>1, IdleFormed, Zenon DEF IInv, TypeOK
    <3> QED
      BY <1>0, <1>2, <2>1, <2>2, <3>1, CleanStepKeeps, IdleFormed, Zenon DEF IInv
<1>5. CASE op.then = "redelete"
  <2>1. op' = [op EXCEPT !.pc = "preflight"] /\ UNCHANGED <<acked, maybe>>
    BY <1>5 DEF Reconciled, history
  <2>2. /\ op' \in Ops /\ op'.pc = "preflight" /\ op'.receipt = op.receipt
        /\ op'.prev = op.prev /\ op'.pend = op.pend /\ op'.queue = op.queue
    BY <1>0, <2>1 DEF Ops
  <2>3. /\ Numbered(now[d], generation) /\ Deleting /\ ~Putting'
        /\ op.pend # None => op.pend.receipt.generation <= generation
    BY <1>0, <1>5, <2>2, Zenon DEF IInv, TypeOK, Numbers, Deleting, Putting, Cleaning,
         Undoing, Generation
  <2>4. DeleteStep(d, now[d])
    BY <1>0, <1>2, <2>1, <2>2, <2>3 DEF DeleteStep
  <2>5. TypeOK' /\ OpFormed'
    BY <1>0, <2>1, <2>2, Zenon DEF IInv, TypeOK, OpFormed, Putting, Pending, Cleaning, Undoing
  <2> QED
    BY <1>0, <1>2, <2>3, <2>4, <2>5, DeleteStepKeeps, Zenon DEF IInv
<1>6. CASE op.then = "delete"
  <2>1. op' = Idle /\ acked' = None /\ maybe' = {}
    BY <1>6, Zenon DEF Reconciled
  <2> QED
    BY <1>0, <1>3, <2>1, IdleFormed
       DEF IInv, TypeOK, AckedSettled, AckedFloor, AckedKnown
<1>7. CASE op.then = "put"
  <2>1. op' = Idle /\ acked' = op.receipt.value /\ maybe' = {}
    BY <1>7, Zenon DEF Reconciled
  <2>2. PICK r \in Receipts : r = op.receipt
    BY <1>0, <1>7, Zenon DEF IInv, OpFormed, Putting, Ops
  <2>3. Firm(r) /\ Older(r.generation) /\ r.generation \in Nat /\ r # None
    BY <1>0, <1>7, <2>2, ObjectAssumption DEF IInv, PutFormed, Putting, Receipts
  <2>4. /\ r.value \in Values /\ acked' = r.value
    BY <2>1, <2>2 DEF Receipts
  <2>5. TypeOK'
    BY <1>0, <2>1, <2>4, IdleFormed, Zenon DEF IInv, TypeOK
  <2>6. op'.pc = "idle" /\ op'.queue = {} /\ ~Deleting' /\ ~Putting'
    BY <2>1, IdleIs
  <2>7. Firm(r)' /\ Older(r.generation)'
    BY <1>0, <2>3, <2>6, Zenon DEF Firm, Older, Cleaning
  <2>8. Settled(r)'
    BY <2>4, <2>6, <2>7 DEF Settled
  <2>9. Floor(r.generation)'
    <3>1. Bottom(r.generation)'
      BY <2>3, <2>7 DEF Firm, Keeps, Bottom
    <3> QED
      BY <2>6, <2>7, <3>1, Zenon DEF Floor
  <2>10. Known'
    BY <2>1, <2>4, <2>7, IdleIs, Zenon DEF Known, Firm, Keeps
  <2>11. AckedSettled' /\ AckedFloor' /\ AckedKnown'
    BY <2>3, <2>8, <2>9, <2>10, Zenon DEF AckedSettled, AckedFloor, AckedKnown
  <2> QED
    BY <1>3, <2>1, <2>5, <2>11, IdleFormed DEF IInv
<1> QED
  BY <1>0, <1>4, <1>5, <1>6, <1>7, Zenon

----------------------------------------------------------------------------
(* Process death and open *)

\* Step Crash keeps the invariant: a device comes back with a state it may have.
LEMMA CrashIInv ==
  ASSUME IInv, Crash
  PROVE  IInv'
<1>0. /\ op' = Idle /\ open' = FALSE /\ pendings' = {} /\ Fault
      /\ UNCHANGED <<generation, acked, maybe>>
  BY DEF Crash, history
<1>1. /\ now' \in [Devices -> DeviceStates]
      /\ may' \in [Devices -> SUBSET DeviceStates]
      /\ \A d \in Devices : now'[d] \in may'[d] /\ may'[d] \subseteq may[d]
  <2>1. CASE UNCHANGED storage
    BY <2>1, Zenon DEF IInv, TypeOK, storage
  <2>2. ASSUME NEW kept \in [Devices -> UNION {may[d] : d \in Devices}],
               \A d \in Devices : kept[d] \in may[d], now' = kept,
               may' = [d \in Devices |-> {kept[d]}]
        PROVE  /\ now' \in [Devices -> DeviceStates]
               /\ may' \in [Devices -> SUBSET DeviceStates]
               /\ \A d \in Devices : now'[d] \in may'[d] /\ may'[d] \subseteq may[d]
    BY <2>2 DEF IInv, TypeOK
  <2> QED
    BY <2>1, <2>2, Zenon DEF Crash
<1>2. TypeOK'
  BY <1>0, <1>1, FaultTyped, IdleFormed, Zenon DEF IInv, TypeOK
<1>3. Numbers'
  <2>1. Numbered(EmptyDevice, generation)
    BY DEF Numbered, EmptyDevice
  <2> QED
    BY <1>0, <1>1, <2>1, IdleIs, Zenon DEF IInv, Numbers
<1>4. ASSUME NEW g, Older(g) PROVE Older(g)'
  BY <1>0, <1>1, <1>4, IdleIs, Zenon DEF Older
<1>5. ASSUME NEW r, Firm(r) PROVE Firm(r)'
  BY <1>0, <1>1, <1>5, IdleIs, Zenon DEF Firm
<1>6. AckedSettled'
  BY <1>0, <1>4, <1>5, IdleIs, Zenon DEF IInv, AckedSettled, Settled
<1>7. AckedFloor'
  BY <1>0, <1>1, <1>4, IdleIs, Zenon DEF IInv, AckedFloor, Floor, Bottom
<1>8. AckedKnown'
  BY <1>0, <1>1, IdleIs, Zenon DEF IInv, AckedKnown, Known
<1> QED
  BY <1>0, <1>2, <1>3, <1>6, <1>7, <1>8, IdleFormed, ZenonT(60) DEF IInv

\* Step Open keeps the invariant: what it discovers is on some device.
LEMMA OpenIInv ==
  ASSUME IInv, Open
  PROVE  IInv'
<1>0. /\ UNCHANGED <<now, may, generation, acked, maybe, faults>>
      /\ open' = TRUE /\ pendings' = Discovered
  BY DEF Open, storage, history
<1>1. \A p \in Discovered : \E d \in Devices : \E s \in may[d] : p \in s.handoff
  BY DEF IInv, TypeOK, Discovered, Handoffs
<1>2. Discovered \in SUBSET Pendings
  BY <1>1 DEF IInv, TypeOK, DeviceStates
<1>3. op' = [pc |-> "reconcile", receipt |-> None, todo |-> {}, span |-> {},
             field |-> "payload", prev |-> [d \in Devices |-> EmptyDevice],
             ok |-> TRUE, pend |-> None, newer |-> None, queue |-> Discovered,
             then |-> "idle"]
  BY Zenon DEF Open, Idle
<1>4. EmptyDevice \in DeviceStates /\ Numbered(EmptyDevice, generation)
  BY DEF EmptyDevice, DeviceStates, Numbered
<1>5. op' \in Ops
  BY <1>2, <1>3, <1>4, Zenon DEF Ops
<1>6. /\ op'.pc = "reconcile" /\ op'.then = "idle" /\ op'.receipt = None
      /\ op'.queue = Discovered /\ op'.pend = None
      /\ op'.prev = [d \in Devices |-> EmptyDevice]
  BY <1>3, Zenon
<1>7. TypeOK'
  BY <1>0, <1>2, <1>5 DEF IInv, TypeOK
<1>8. OpFormed' /\ PutFormed'
  BY <1>6, Zenon DEF OpFormed, PutFormed, Putting, Pending, Cleaning, Undoing
<1>9. Numbers'
  BY <1>0, <1>1, <1>4, <1>6, Zenon DEF IInv, Numbers, Numbered
<1>10. ASSUME NEW g, Older(g) PROVE Older(g)'
  BY <1>0, <1>1, <1>6, <1>10, Zenon DEF Older, Cleaning
<1>11. AckedSettled'
  BY <1>0, <1>6, <1>10, Zenon DEF IInv, AckedSettled, Settled, Firm, Cleaning
<1>12. AckedFloor'
  BY <1>0, <1>6, <1>10, Zenon
     DEF IInv, AckedFloor, Floor, Bottom, Deleting, Putting, Cleaning, Undoing
<1>13. AckedKnown'
  <2>1. \A d \in Devices : op'.prev[d].receipt = None
    BY <1>6, EmptyIs, Zenon
  <2> QED
    BY <1>0, <1>6, <2>1, Zenon DEF IInv, AckedKnown, Known
<1> QED
  BY <1>7, <1>8, <1>9, <1>11, <1>12, <1>13 DEF IInv

----------------------------------------------------------------------------

\* Every step of a put, a deletion, a reconciliation, a failure or a restart
\* keeps the invariant.
LEMMA NextIInv ==
  ASSUME SetFacts, IInv, [Next]_vars
  PROVE  IInv'
<1>1. CASE UNCHANGED vars
  <2>1. TypeOK' /\ OpFormed' /\ Numbers'
    BY <1>1, Zenon DEF IInv, vars, TypeOK, OpFormed, Numbers, Putting, Pending, Cleaning,
         Undoing
  <2>2. PutFormed'
    BY <1>1, Zenon DEF IInv, vars, PutFormed, Putting, Cleaning, Undoing, Older, Firm
  <2>3. AckedSettled' /\ AckedFloor' /\ AckedKnown'
    BY <1>1, ZenonT(60) DEF IInv, vars, AckedSettled, Settled, AckedFloor, Floor, Bottom,
         AckedKnown, Known, Putting, Deleting, Cleaning, Undoing, Older, Firm
  <2> QED
    BY <2>1, <2>2, <2>3 DEF IInv
<1>2. CASE Next
  <2>1. ASSUME NEW v \in Values, NEW t \in kSubset(Copies, Devices), BeginPut(v, t)
        PROVE  IInv'
    BY <2>1, BeginPutIInv, Zenon
  <2>2. ASSUME NEW d \in Devices,
               \/ PutPayload(d) \/ PutReceipt(d) \/ SyncReceipt(d) \/ DropStale(d)
               \/ UndoWrite(d) \/ UndoSync(d)
               \/ PutHandoff(d) \/ SyncHandoff(d) \/ FinishCommitted(d)
               \/ Purge(d) \/ PurgeReceipt(d) \/ ClearHandoff(d)
        PROVE  IInv'
    BY <2>2, PutPayloadIInv, PutReceiptIInv, SyncReceiptIInv, DropStaleIInv, UndoIInv,
       PutHandoffIInv, SyncHandoffIInv, FinishCommittedIInv, PurgeIInv,
       PurgeReceiptIInv, ClearHandoffIInv, Zenon
  <2>3. ASSUME NEW p \in op.queue, Reconcile(p) PROVE IInv'
    BY <2>3, ReconcileIInv
  <2>4. CASE \/ BeginDelete \/ StaleDropped \/ Preflight \/ Purged \/ ReceiptsPurged
             \/ Reconciled \/ Crash \/ Open
    BY <2>4, BeginDeleteIInv, StaleDroppedIInv, PreflightIInv, PurgedIInv,
       ReconciledIInv, CrashIInv, OpenIInv
  <2> QED
    BY <1>2, <2>1, <2>2, <2>3, <2>4, Zenon DEF Next
<1> QED
  BY <1>1, <1>2

\* The invariant makes a read return what the last acknowledged put wrote (get).
LEMMA AckedRead ==
  ASSUME SetFacts, IInv
  PROVE  AckedIsRead
<1> SUFFICES ASSUME Readable, acked # None
             PROVE  /\ maybe = {} => Get = {acked}
                    /\ None \notin maybe => Best # None
                    /\ Best # None => Get \subseteq {acked, None} \cup maybe
  BY Zenon DEF AckedIsRead
<1>0. TypeOK /\ \A d \in Devices : now[d] \in may[d]
  BY DEF IInv, TypeOK
<1>1. ASSUME maybe = {} PROVE Get = {acked}
  <2>1. PICK r \in Receipts : Settled(r)
    BY <1>1 DEF IInv, AckedSettled
  <2>2. Best = r /\ r # None
    BY <1>0, <2>1, FirmIsBest, ObjectAssumption, Zenon DEF Settled
  <2>3. \A p \in pendings : Generation(p) < r.generation
    BY <2>1, Zenon DEF Settled, Older
  <2>4. ~Hidden(r)
    BY <1>0, <2>2, <2>3
       DEF Hidden, Generation, TypeOK, Pendings, Receipts
  <2>5. \E d \in r.targets : now[d].payload = r.value
    BY <1>0, <2>1, TargetsExist, ZenonT(60) DEF Settled, Firm, Keeps, Receipts
  <2> QED
    BY <2>1, <2>2, <2>4, <2>5 DEF Get, Settled
<1>2. ASSUME None \notin maybe PROVE Best # None
  <2>1. PICK g \in Nat : Bottom(g)
    BY <1>2, Zenon DEF IInv, AckedFloor, Floor
  <2>2. ReceiptsFound # {}
    BY <1>0, <2>1, TargetsExist DEF Bottom, ReceiptsFound
  <2> QED
    BY <1>0, <2>2, BestIs, Zenon DEF ReceiptsFound
<1>3. ASSUME Best # None PROVE Get \subseteq {acked, None} \cup maybe
  <2>1. Best \in ReceiptsFound
    BY <1>0, <1>3, BestIs, Zenon
  <2>2. Best.value \in {acked} \cup maybe
    BY <1>0, <2>1 DEF IInv, AckedKnown, Known, ReceiptsFound
  <2> QED
    BY <1>3, <2>2 DEF Get
<1> QED
  BY <1>1, <1>2, <1>3, Zenon

----------------------------------------------------------------------------
(* What holds in every behaviour *)

INSTANCE FiniteSetTheorems

\* The natural numbers are well founded, and the empty set is counted as 0.
LEMMA SetFactsHold == SetFacts
<1>1. \A T \in SUBSET Nat : T # {} => \E x \in T : \A y \in T : x <= y
  <2> SUFFICES ASSUME NEW T \in SUBSET Nat, T # {}
               PROVE  \E x \in T : \A y \in T : x <= y
    BY Zenon
  <2>1. PICK x \in T : \A y \in T : <<y, x>> \notin OpToRel(<, Nat)
    BY NatLessThanWellFounded, WFMin, Zenon
  <2>2. \A y \in T : ~(y < x)
    BY <2>1, Zenon DEF OpToRel
  <2> QED
    BY <2>2
<1>2. Cardinality({}) = 0
  BY FS_EmptySet, Zenon
<1> QED
  BY <1>1, <1>2, Zenon DEF SetFacts

\* Every state of the devices, of the Pool and of the call in progress has its
\* type, and a device always may come back with what it last answered (Pool).
THEOREM ObjectTyped == Spec => []TypeOK
<1>1. IInv => TypeOK
  BY Zenon DEF IInv
<1>2. IInv /\ [Next]_vars => IInv'
  BY SetFactsHold, NextIInv, Zenon
<1> QED
  BY <1>1, <1>2, InitIInv, PTL DEF Spec

\* AckedIsRead: a put that returned Ok is read back until another call on the key
\* begins, across any failures and power losses; until a deletion begins the key
\* has a receipt; and while it has one, no older value is read (put, get).
THEOREM AckedPutsAreRead == Spec => []AckedIsRead
<1>1. IInv => AckedIsRead
  BY SetFactsHold, AckedRead, Zenon
<1>2. IInv /\ [Next]_vars => IInv'
  BY SetFactsHold, NextIInv, Zenon
<1> QED
  BY <1>1, <1>2, InitIInv, PTL DEF Spec

============================================================================
