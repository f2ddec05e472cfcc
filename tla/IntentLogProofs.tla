-------------------------- MODULE IntentLogProofs --------------------------
(***************************************************************************)
(* What IntentLog promises for any names, inodes, log sizes and number of  *)
(* faults: an uncertain publication is fenced until the filesystem is      *)
(* opened again, the mounted state is never behind the published root, and *)
(* whatever a power loss leaves of the log rebuilds a state no older than  *)
(* the last one a flush or a commit made durable.  Replay is a recursive   *)
(* function over the entries: what it computes is proved through the first *)
(* entry that would break the claim.                                       *)
(***************************************************************************)
EXTENDS IntentLog, TLAPS

\* A fenced mount has no operation under way: the step that fences it ends the
\* commit, and ensure_mutation_allowed admits no other.  A filesystem that is
\* not mounted has neither.
Quiet ==
  /\ fenced => up /\ op.pc = "idle"
  /\ ~up => op.pc = "idle"

\* The mount starts without a fence (open).
LEMMA QuietInit == Init => Quiet
  BY DEF Init, Quiet, IdleOp

\* An operation that begins needs ensure_mutation_allowed, which the fence
\* refuses; an operation that goes on is not there.
LEMMA QuietWhileFenced ==
  ASSUME Quiet, fenced, [Next]_vars
  PROVE  UNCHANGED vars \/ (Crash /\ ~up')
<1>1. ~Allowed /\ op.pc = "idle" /\ up
  BY DEF Quiet, Allowed
<1>2. ASSUME NEW p \in Inodes \cup {Root}, NEW n \in Names, Create(p, n) \/ Mkdir(p, n)
      PROVE  FALSE
  BY <1>1, <1>2, Zenon DEF Create, Mkdir, Logged, Unlogged
<1>3. ASSUME NEW p \in Inodes \cup {Root}, FsyncDirectory(p)
      PROVE  FALSE
  BY <1>1, <1>3 DEF FsyncDirectory
<1>4. ASSUME NEW i \in Inodes, Setattr(i) \/ Unlink(i)
      PROVE  FALSE
  BY <1>1, <1>4, Zenon DEF Setattr, Unlink, Logged, Unlogged
<1>5. ~(AllocateRefused \/ FlushIfNeeded \/ Sync)
  BY <1>1, Zenon DEF AllocateRefused, FlushIfNeeded, Sync
<1>6. ~(Rollback \/ FlushPut \/ FlushSync \/ FlushSyncFails)
  BY <1>1 DEF Rollback, FlushPut, FlushSync, FlushSyncFails
<1>7. ~(Publish \/ ReadBackFails \/ PublishNothing \/ PublishFails \/ PublishUncertain)
  BY <1>1 DEF Publish, ReadBackFails, PublishNothing, PublishFails, PublishUncertain
<1>8. ~(MaintainFails \/ Retire \/ RetireFails \/ Recover)
  BY <1>1 DEF MaintainFails, Retire, RetireFails, Recover
<1>9. Crash => ~up'
  BY DEF Crash
<1> QED
  BY <1>2, <1>3, <1>4, <1>5, <1>6, <1>7, <1>8, <1>9 DEF Next

\* Only an uncertain publication raises the fence, and it leaves the mount idle.
LEMMA QuietNext == Quiet /\ [Next]_vars => Quiet'
<1> SUFFICES ASSUME Quiet, [Next]_vars PROVE Quiet'
  OBVIOUS
<1>1. CASE fenced
  <2>1. CASE UNCHANGED vars
    BY <2>1 DEF Quiet, vars
  <2>2. CASE Crash
    BY <2>2 DEF Crash, IdleOp, Quiet
  <2> QED
    BY <1>1, <2>1, <2>2, QuietWhileFenced
<1>2. CASE ~fenced
  <2>1. ASSUME Allowed, UNCHANGED <<up, fenced>>
        PROVE  Quiet'
    BY <2>1 DEF Allowed, Quiet
  <2>2. ASSUME op.pc # "idle", UNCHANGED <<up, fenced>>
        PROVE  Quiet'
    BY <1>2, <2>2 DEF Quiet
  <2>3. ASSUME NEW p \in Inodes \cup {Root}, NEW n \in Names, Create(p, n) \/ Mkdir(p, n)
        PROVE  Quiet'
    BY <2>1, <2>3 DEF Create, Mkdir, Logged, Unlogged
  <2>4. ASSUME NEW p \in Inodes \cup {Root}, FsyncDirectory(p)
        PROVE  Quiet'
    BY <2>1, <2>4 DEF FsyncDirectory
  <2>5. ASSUME NEW i \in Inodes, Setattr(i) \/ Unlink(i)
        PROVE  Quiet'
    BY <2>1, <2>5 DEF Setattr, Unlink, Logged, Unlogged
  <2>6. CASE AllocateRefused \/ FlushIfNeeded \/ Sync
    BY <2>1, <2>6 DEF AllocateRefused, FlushIfNeeded, Sync
  <2>7. CASE Rollback \/ FlushPut \/ FlushSync \/ FlushSyncFails
    BY <2>2, <2>7 DEF Rollback, FlushPut, FlushSync, FlushSyncFails
  <2>8. CASE Publish \/ ReadBackFails \/ PublishNothing \/ PublishFails
    BY <2>2, <2>8 DEF Publish, ReadBackFails, PublishNothing, PublishFails
  <2>9. CASE MaintainFails \/ Retire \/ RetireFails
    BY <2>2, <2>9 DEF MaintainFails, Retire, RetireFails
  <2>10. CASE PublishUncertain
    BY <2>10 DEF PublishUncertain, IdleOp, Quiet
  <2>11. CASE Crash
    BY <2>11 DEF Crash, IdleOp, Quiet
  <2>12. CASE Recover
    BY <1>2, <2>12 DEF Recover, Quiet
  <2>13. CASE UNCHANGED vars
    BY <2>13 DEF vars, Quiet
  <2> QED
    BY <2>3, <2>4, <2>5, <2>6, <2>7, <2>8, <2>9, <2>10, <2>11, <2>12, <2>13 DEF Next
<1> QED
  BY <1>1, <1>2

\* FencedUntilReopen: after a publication whose outcome is uncertain
\* (arm_mutation_reopen_fence), no step of the mount reaches the root or the
\* log before the filesystem is opened again.
THEOREM FenceHolds == Spec => FencedUntilReopen
<1>1. Quiet /\ [Next]_vars
        => [fenced /\ up' => UNCHANGED <<root, disk, media, log>>]_vars
  BY QuietWhileFenced DEF vars
<1> QED
  BY <1>1, QuietInit, QuietNext, PTL DEF Spec, FencedUntilReopen

-----------------------------------------------------------------------------
(* Replay *)

\* Arithmetic of the log and of the states since the root.
LEMMA Lengths ==
  /\ \A m \in Nat: m <= m + 1 /\ m + 1 \in Nat
  /\ \A m \in Nat: \A k \in 1..(m + 1): k # m + 1 => k \in 1..m
  /\ \A m \in Nat \ {0}: m \in Nat /\ m \in 1..m
  /\ \A g, m \in Nat: (g + m - 1) + 1 <= g + (m + 1) - 1
  /\ \A S: \A s \in Seq(S): Len(s) \in Nat
  OBVIOUS

\* A bound that grows by one still holds, and the new one is below it.
LEMMA Grown ==
  \A x, y \in Nat: (x < y => x < y + 1) /\ (x <= y => x <= y + 1) /\ x < x + 1 /\ x <= x
  OBVIOUS

\* The generation that the next state of a history has.
LEMMA NextGeneration == \A g, m \in Nat: (g + m - 1) + 1 = g + (m + 1) - 1
  OBVIOUS

\* A generation of m states is one of z states, if there are as many.
LEMMA MoreStates == \A x, g, m, z \in Nat: x <= g + m - 1 /\ m <= z => x <= g + z - 1
  OBVIOUS

\* A pressure entry of the root's own transaction is not replayed.
LEMMA PressureSkipped ==
  ASSUME NEW r, NEW e, e.kind = "pressure", e.anchor = r.tx, r.tx \in Nat
  PROVE  ~Selected(r, e)
  BY DEF Selected

\* The last index of a sequence, counted from 0.
LEMMA LastIndex == \A S: \A s \in Seq(S): Len(s) \in 0..Len(s)
  OBVIOUS

\* The generation of the only state of a history.
LEMMA Single ==
  \A g \in Nat: \A j \in 1..1: j = 1 /\ g + j - 1 = g
  OBVIOUS

\* An element of a sequence, and its last one.
LEMMA Element ==
  ASSUME NEW S, NEW s \in Seq(S), NEW k \in 1..Len(s)
  PROVE  s[k] \in S /\ Len(s) \in 1..Len(s)
  OBVIOUS

\* The order of natural numbers is total.
LEMMA Order == \A x, y \in Nat: ~(y < x) => x <= y
  OBVIOUS

\* append adds one element at the end.
LEMMA AppendIs ==
  ASSUME NEW S, NEW s \in Seq(S), NEW x \in S
  PROVE  /\ Append(s, x) \in Seq(S) /\ Len(Append(s, x)) = Len(s) + 1
         /\ Append(s, x)[Len(s) + 1] = x
         /\ \A k \in 1..Len(s): Append(s, x)[k] = s[k]
  OBVIOUS

\* A set of natural numbers has a least element: induction over the entries of
\* a log goes through the first one that breaks the claim.
Leasts == \A T \in SUBSET Nat: T # {} => \E x \in T: \A y \in T: x <= y

\* The states that a replay goes through, one for every entry read.
Replays(r, d, f) ==
  /\ f[0] = r.fs
  /\ \A k \in 1..d.head: f[k] = ReplayEntry(r, f[k - 1], d.entry[k])

\* Recovery replays the entries of a log image one after the other.
LEMMA ReplayIs ==
  ASSUME Leasts, NEW r, NEW d, d.head \in Nat
  PROVE  \E f: Replays(r, d, f) /\ Rebuild(r, d) = IF Loadable(d) THEN f[d.head] ELSE None
<1> DEFINE E(f, k) == IF k = 0 THEN r.fs ELSE ReplayEntry(r, f[k - 1], d.entry[k])
           Bad == {n \in Nat: ~\E f: f = [k \in 0..n |-> E(f, k)]}
           replay == CHOOSE f: f = [k \in 0..d.head |-> E(f, k)]
<1>1. Bad = {}
  <2> SUFFICES ASSUME Bad # {} PROVE FALSE
    OBVIOUS
  <2>1. PICK n \in Bad: \A y \in Bad: n <= y
    <3>1. Bad \in SUBSET Nat
      OBVIOUS
    <3> HIDE DEF Bad
    <3> QED
      BY <3>1, Zenon DEF Leasts
  <2>2. CASE n = 0
    <3> DEFINE f == [k \in 0..0 |-> r.fs]
    <3>1. f = [k \in 0..n |-> E(f, k)]
      BY <2>2
    <3> QED
      BY <2>1, <3>1, Zenon
  <2>3. CASE n # 0
    <3>1. n - 1 \in Nat /\ n - 1 \notin Bad
      <4>1. n \in Nat
        BY <2>1, Zenon
      <4> HIDE DEF Bad
      <4> QED
        BY <2>1, <2>3, <4>1
    <3>2. PICK g: g = [k \in 0..n - 1 |-> E(g, k)]
      BY <3>1
    <3> DEFINE f == [k \in 0..n |-> IF k = n THEN ReplayEntry(r, g[n - 1], d.entry[n]) ELSE g[k]]
    <3>3. \A k \in 0..n - 1: g[k] = E(g, k)
      BY <3>2
    <3>4. ASSUME NEW k \in 0..n PROVE f[k] = E(f, k)
      <4>1. CASE k = 0
        BY <2>3, <3>1, <3>3, <4>1
      <4>2. CASE k = n
        BY <2>3, <3>1, <4>2
      <4>3. CASE k # 0 /\ k # n
        <5>1. k \in 0..n - 1 /\ k - 1 \in 0..n - 1 /\ k - 1 # n
          BY <3>1, <4>3
        <5> QED
          BY <3>3, <4>3, <5>1
      <4> QED
        BY <4>1, <4>2, <4>3
    <3>5. f = [k \in 0..n |-> E(f, k)]
      BY <3>4
    <3> QED
      BY <2>1, <3>5, Zenon
  <2> QED
    BY <2>2, <2>3
<1>2. \E f: f = [k \in 0..d.head |-> E(f, k)]
  BY <1>1
<1>3. replay = [k \in 0..d.head |-> E(replay, k)]
  BY <1>2, Zenon
<1>4. Rebuild(r, d) = IF Loadable(d) THEN replay[d.head] ELSE None
  BY DEF Rebuild
<1> HIDE DEF replay
<1>5. \A k \in 0..d.head: replay[k] = E(replay, k)
  BY <1>3
<1>6. Replays(r, d, replay)
  BY <1>5 DEF Replays
<1> QED
  BY <1>4, <1>6

\* Every inode of a state lies below its allocator, and none is newer than the
\* state's generation.
Formed(fs) ==
  \A i \in Inodes: fs.node[i] # None => i < fs.next /\ fs.node[i].meta <= fs.gen

\* An entry that was read is covered by the state.
Covers(fs, e) == e.kind # "pressure" => e.node.meta <= fs.gen

\* A change that is replayed leaves a state as well formed as the one before,
\* no older, and covering the entry (replay_create, replay_setattr).
LEMMA EntryTyped ==
  ASSUME NEW r \in [tx: Nat, fs: States], NEW fs \in States, NEW e \in Entries,
         Formed(fs), r.fs.gen <= fs.gen, ReplayEntry(r, fs, e) # None
  PROVE  LET new == ReplayEntry(r, fs, e)
         IN new \in States /\ Formed(new) /\ fs.gen <= new.gen /\ Covers(new, e)
<1> DEFINE new == ReplayEntry(r, fs, e)
<1>1. CASE e.kind = "pressure"
  <2>1. new = fs /\ fs.gen \in Nat
    BY <1>1 DEF ReplayEntry, States
  <2> HIDE DEF new
  <2>2. new \in States /\ Formed(new) /\ fs.gen <= new.gen /\ Covers(new, e)
    BY <1>1, <2>1 DEF Covers
  <2> QED
    BY <2>2 DEF new
<1>2. CASE e.kind # "pressure"
  <2>1. e \in [kind: {"create", "setattr"}, ino: Inodes, node: Nodes, anchor: Nat]
    BY <1>2 DEF Entries
  <2>2. e.ino \in Inodes /\ e.node \in Nodes /\ e.node.meta \in Nat /\ e.ino \in Nat /\ e.node # None
    BY <2>1, InodesAssumption, NoneAssumption, Zenon DEF Nodes
  <2>3. CASE ~Selected(r, e)
    BY <1>2, <2>2, <2>3 DEF ReplayEntry, Covers, Selected, States
  <2>4. CASE Selected(r, e)
    <3>0. fs # None
      BY NoneAssumption
    <3>1. PICK x \in Nodes: new = [fs EXCEPT !.node[e.ino] = x,
                                             !.gen = Larger(@, e.node.meta),
                                             !.next = Larger(@, e.ino + 1)]
                            /\ (x = e.node \/ x = fs.node[e.ino])
      <4>1. CASE e.kind = "create"
        <5>1. new = ReplayCreate(fs, e)
          BY <1>2, <2>4, <3>0, <4>1 DEF ReplayEntry
        <5> DEFINE x == IF fs.node[e.ino] # None THEN fs.node[e.ino] ELSE e.node
        <5>2. x \in Nodes
          BY <2>2 DEF States
        <5>3. new = [fs EXCEPT !.node[e.ino] = x,
                               !.gen = Larger(@, e.node.meta),
                               !.next = Larger(@, e.ino + 1)]
          BY <2>2, <5>1 DEF ReplayCreate, States
        <5> QED
          BY <5>2, <5>3, Zenon
      <4>2. CASE e.kind # "create"
        <5>1. new = ReplaySetattr(fs, e)
          BY <1>2, <2>4, <3>0, <4>2 DEF ReplayEntry
        <5> DEFINE x == IF fs.node[e.ino].meta < e.node.meta THEN e.node ELSE fs.node[e.ino]
        <5>2. x \in Nodes
          BY <2>2, <5>1 DEF States, ReplaySetattr
        <5>3. new = [fs EXCEPT !.node[e.ino] = x,
                               !.gen = Larger(@, e.node.meta),
                               !.next = Larger(@, e.ino + 1)]
          BY <2>2, <5>1 DEF ReplaySetattr, States
        <5> QED
          BY <5>2, <5>3, Zenon
      <4> QED
        BY <4>1, <4>2, Zenon
    <3> HIDE DEF new
    <3>2. fs.gen \in Nat /\ fs.next \in Nat /\ fs.node \in [Inodes -> Nodes \cup {None}]
      BY DEF States
    <3>3. new.gen = Larger(fs.gen, e.node.meta) /\ new.next = Larger(fs.next, e.ino + 1)
          /\ new.node = [fs.node EXCEPT ![e.ino] = x] /\ new \in States
      <4> DEFINE g == Larger(fs.gen, e.node.meta)
                 h == Larger(fs.next, e.ino + 1)
                 t == [fs.node EXCEPT ![e.ino] = x]
      <4>1. g \in Nat /\ h \in Nat /\ t \in [Inodes -> Nodes \cup {None}]
        BY <2>2, <3>2 DEF Larger
      <4>2. new = [fs EXCEPT !.node = t, !.gen = g, !.next = h]
        BY <3>1
      <4> HIDE DEF g, h, t
      <4>3. new = [node |-> t, gen |-> g, next |-> h]
        BY <4>2, Zenon DEF States
      <4>4. new \in States /\ new.gen = g /\ new.next = h /\ new.node = t
        BY <4>1, <4>3 DEF States
      <4> QED
        BY <4>4 DEF g, h, t
    <3>4. new.gen \in Nat /\ fs.gen <= new.gen /\ e.node.meta <= new.gen /\ fs.next <= new.next /\ e.ino < new.next
          /\ new.next \in Nat
      BY <2>2, <3>2, <3>3 DEF Larger
    <3>5. Formed(new)
      <4> SUFFICES ASSUME NEW i \in Inodes, new.node[i] # None
                   PROVE  i < new.next /\ new.node[i].meta <= new.gen
        BY DEF Formed
      <4>0. i \in Nat
        BY InodesAssumption
      <4>1. CASE i = e.ino /\ x = e.node
        BY <2>2, <3>2, <3>3, <3>4, <4>1
      <4>2. CASE ~(i = e.ino /\ x = e.node)
        <5>1. new.node[i] = fs.node[i] /\ fs.node[i] \in Nodes
          BY <3>1, <3>2, <3>3, <4>2
        <5>2. i < fs.next /\ fs.node[i].meta <= fs.gen /\ fs.node[i].meta \in Nat
          BY <5>1 DEF Formed, Nodes
        <5> QED
          BY <3>2, <3>4, <4>0, <5>1, <5>2
      <4> QED
        BY <4>1, <4>2
    <3> QED
      BY <3>3, <3>4, <3>5 DEF Covers, new
  <2> QED
    BY <2>3, <2>4
<1> QED
  BY <1>1, <1>2

\* What recovery accepts is a well formed state, no older than the root, and it
\* covers every entry of the log image (recover_canonical_committed_state).
LEMMA RebuildTyped ==
  ASSUME Leasts, NEW r \in [tx: Nat, fs: States], NEW d \in Images, d.head <= MaxEntries,
         Formed(r.fs), Rebuild(r, d) # None
  PROVE  /\ Loadable(d)
         /\ Rebuild(r, d) \in States /\ Formed(Rebuild(r, d))
         /\ r.fs.gen <= Rebuild(r, d).gen
         /\ \A i \in 1..d.head: d.entry[i] \in Entries /\ Covers(Rebuild(r, d), d.entry[i])
<1>0. d.head \in Nat /\ d.entry \in [1..MaxEntries -> Entries \cup {None}] /\ MaxEntries \in Nat
  BY BoundsAssumption DEF Images
<1>1. PICK f: Replays(r, d, f) /\ Rebuild(r, d) = IF Loadable(d) THEN f[d.head] ELSE None
  BY <1>0, ReplayIs
<1>2. Loadable(d) /\ Rebuild(r, d) = f[d.head] /\ f[d.head] # None
  BY <1>1
<1>3. \A i \in 1..d.head: d.entry[i] \in Entries
  BY <1>0, <1>2 DEF Loadable
<1> DEFINE Good(k) == /\ f[k] \in States /\ Formed(f[k]) /\ r.fs.gen <= f[k].gen
                      /\ \A i \in 1..k: Covers(f[k], d.entry[i])
           Bad == {k \in 0..d.head: f[k] # None /\ ~Good(k)}
<1>4. Good(0)
  BY <1>1 DEF Replays, States
<1>5. ASSUME NEW k \in 1..d.head, f[k] # None, f[k - 1] # None => Good(k - 1)
      PROVE  Good(k)
  <2>1. f[k] = ReplayEntry(r, f[k - 1], d.entry[k])
    BY <1>1 DEF Replays
  <2>2. f[k - 1] # None
    BY <1>5, <2>1 DEF ReplayEntry
  <2>3. f[k - 1] \in States /\ Formed(f[k - 1]) /\ r.fs.gen <= f[k - 1].gen
        /\ \A i \in 1..k - 1: Covers(f[k - 1], d.entry[i])
    BY <1>5, <2>2, Zenon
  <2>4. f[k] \in States /\ Formed(f[k]) /\ f[k - 1].gen <= f[k].gen /\ Covers(f[k], d.entry[k])
    BY <1>3, <1>5, <2>1, <2>3, EntryTyped, Zenon
  <2>5. r.fs.gen \in Nat /\ f[k - 1].gen \in Nat /\ f[k].gen \in Nat
    BY <2>3, <2>4 DEF States
  <2>6. ASSUME NEW i \in 1..k PROVE Covers(f[k], d.entry[i])
    <3>1. CASE i = k
      BY <2>4, <3>1
    <3>2. CASE i # k
      <4>1. i \in 1..k - 1 /\ i \in 1..d.head
        BY <1>0, <3>2
      <4>2. d.entry[i].kind # "pressure" => d.entry[i].node.meta \in Nat
        BY <1>3, <4>1 DEF Entries, Nodes
      <4> QED
        BY <2>3, <2>4, <2>5, <4>1, <4>2 DEF Covers
    <3> QED
      BY <3>1, <3>2
  <2> QED
    BY <2>3, <2>4, <2>5, <2>6
<1>6. Bad = {}
  <2> SUFFICES ASSUME Bad # {} PROVE FALSE
    OBVIOUS
  <2>1. Bad \in SUBSET Nat
    BY <1>0
  <2>2. PICK k \in Bad: \A y \in Bad: k <= y
    <3> HIDE DEF Bad
    <3> QED
      BY <2>1, Zenon DEF Leasts
  <2> HIDE DEF Good
  <2>3. k # 0 /\ k \in 1..d.head /\ k - 1 \in 0..d.head /\ k - 1 \notin Bad /\ f[k] # None /\ ~Good(k)
    BY <1>0, <1>4, <2>2
  <2> QED
    BY <1>5, <2>3
<1>7. Good(d.head)
  <2> HIDE DEF Good
  <2> QED
    BY <1>0, <1>2, <1>6
<1> QED
  BY <1>2, <1>3, <1>7

\* m[k] is the place, among the states since the root, that the first k entries
\* of the log lead to: every entry that is not covered leads to the next one.
Track(m, r, l, a) ==
  /\ m \in [0..Len(l) -> 1..Len(a)] /\ m[0] = 1
  /\ \A k \in 1..Len(l): /\ m[k] = IF Selected(r, l[k]) THEN m[k - 1] + 1 ELSE m[k - 1]
                         /\ ReplayEntry(r, a[m[k - 1]], l[k]) = a[m[k]]

\* The image holds the first entries of the log.
Holds(d, l) == d.head <= Len(l) /\ \A i \in 1..d.head: d.entry[i] = l[i]

\* Replaying the first entries of a log leads to the state they track.
LEMMA RebuildTracked ==
  ASSUME Leasts, NEW r, NEW l \in Seq(Entries), NEW a \in Seq(States), NEW m, Track(m, r, l, a),
         NEW d \in Images, Holds(d, l), a[1] = r.fs
  PROVE  Rebuild(r, d) = a[m[d.head]]
<1>0. d.head \in Nat /\ Len(l) \in Nat /\ d.head <= Len(l)
  BY DEF Images, Holds
<1>1. Loadable(d)
  <2>1. \A i \in 1..d.head: d.entry[i] \in Entries
    BY <1>0 DEF Holds
  <2> QED
    BY <2>1, NoneAssumption DEF Loadable
<1>2. PICK f: Replays(r, d, f) /\ Rebuild(r, d) = f[d.head]
  BY <1>0, <1>1, ReplayIs
<1> DEFINE Bad == {k \in 0..d.head: f[k] # a[m[k]]}
<1>3. Bad = {}
  <2> SUFFICES ASSUME Bad # {} PROVE FALSE
    OBVIOUS
  <2>1. Bad \in SUBSET Nat
    BY <1>0
  <2>2. PICK k \in Bad: \A y \in Bad: k <= y
    <3> HIDE DEF Bad
    <3> QED
      BY <2>1, Zenon DEF Leasts
  <2>3. k # 0
    BY <1>2, <2>2 DEF Replays, Track
  <2>4. k \in 1..d.head /\ k - 1 \in 0..d.head /\ k - 1 \notin Bad
    <3>1. k \in 0..d.head
      OBVIOUS
    <3> HIDE DEF Bad
    <3> QED
      BY <1>0, <2>2, <2>3, <3>1
  <2>5. f[k - 1] = a[m[k - 1]] /\ k \in 1..Len(l) /\ d.entry[k] = l[k]
    BY <1>0, <2>4 DEF Holds
  <2>6. f[k] = ReplayEntry(r, a[m[k - 1]], l[k])
    BY <1>2, <2>4, <2>5 DEF Replays
  <2>7. ReplayEntry(r, a[m[k - 1]], l[k]) = a[m[k]]
    BY <2>5, Zenon DEF Track
  <2> QED
    BY <2>2, <2>6, <2>7
<1> QED
  BY <1>0, <1>2, <1>3

\* No entry of the log is left to replay on the root.
Covered(r, l) == \A k \in 1..Len(l): ~Selected(r, l[k])

\* The log tracks the states since the root, and every image reaches the states
\* that were promised.  With slack, the last state is not in the log yet.
Tracked(r, l, a, images, low, slack) ==
  \E m: /\ Track(m, r, l, a)
        /\ \A d \in images: low <= m[d.head]
        /\ low <= m[Len(l)]
        /\ m[Len(l)] = Len(a) \/ (slack /\ m[Len(l)] = Len(a) - 1)

\* A log that the root covers tracks the root alone (publish, retire, recover).
LEMMA CoveredTracked ==
  ASSUME NEW r, NEW l \in Seq(Entries), Covered(r, l), NEW images \in SUBSET Images,
         \A d \in images: d.head <= Len(l), NEW slack
  PROVE  Tracked(r, l, <<r.fs>>, images, 1, slack)
<1> DEFINE a == <<r.fs>>
           m == [k \in 0..Len(l) |-> 1]
<1>0. Len(l) \in Nat /\ Len(a) = 1 /\ a[1] = r.fs
  OBVIOUS
<1> HIDE DEF a
<1>1. m \in [0..Len(l) -> 1..Len(a)] /\ m[0] = 1 /\ m[Len(l)] = 1
  BY <1>0
<1>2. ASSUME NEW k \in 1..Len(l)
      PROVE  /\ m[k] = IF Selected(r, l[k]) THEN m[k - 1] + 1 ELSE m[k - 1]
             /\ ReplayEntry(r, a[m[k - 1]], l[k]) = a[m[k]]
  <2>1. m[k] = 1 /\ m[k - 1] = 1
    BY <1>0
  <2>2. ~Selected(r, l[k])
    BY DEF Covered
  <2> HIDE DEF m
  <2> QED
    BY <2>1, <2>2 DEF ReplayEntry
<1>3. \A d \in images: d.head \in 0..Len(l)
  BY <1>0 DEF Images
<1>4. \A d \in images: 1 <= m[d.head]
  BY <1>3
<1> HIDE DEF m
<1>5. Track(m, r, l, a)
  BY <1>1, <1>2 DEF Track
<1>6. Tracked(r, l, a, images, 1, slack)
  BY <1>0, <1>1, <1>4, <1>5 DEF Tracked
<1> QED
  BY <1>6 DEF a

\* A pressure entry, which carries no change, keeps what the log tracks.
LEMMA PressureTracked ==
  ASSUME NEW r, NEW l \in Seq(Entries), NEW a \in Seq(States), NEW images \in SUBSET Images,
         \A d \in images: d.head <= Len(l), NEW low \in Nat, NEW e \in Entries,
         Tracked(r, l, a, images, low, FALSE), e.kind = "pressure", ~Selected(r, e)
  PROVE  Tracked(r, Append(l, e), a, images, low, FALSE)
<1>1. PICK m: /\ Track(m, r, l, a)
              /\ \A d \in images: low <= m[d.head]
              /\ low <= m[Len(l)]
              /\ m[Len(l)] = Len(a)
  BY DEF Tracked
<1> DEFINE n == Len(l)
           b == Append(l, e)
           q == [k \in 0..n + 1 |-> IF k = n + 1 THEN m[n] ELSE m[k]]
<1>2. n \in Nat /\ Len(b) = n + 1 /\ b[n + 1] = e /\ \A k \in 1..n: b[k] = l[k]
  OBVIOUS
<1>3. m \in [0..n -> 1..Len(a)] /\ m[0] = 1
  BY <1>1 DEF Track
<1> HIDE DEF n, b
<1>4. q \in [0..n + 1 -> 1..Len(a)] /\ q[0] = 1 /\ q[n + 1] = m[n] /\ \A k \in 0..n: q[k] = m[k]
  BY <1>2, <1>3
<1> HIDE DEF q
<1>5. ASSUME NEW k \in 1..n + 1
      PROVE  /\ q[k] = IF Selected(r, b[k]) THEN q[k - 1] + 1 ELSE q[k - 1]
             /\ ReplayEntry(r, a[q[k - 1]], b[k]) = a[q[k]]
  <2>1. CASE k = n + 1
    BY <1>2, <1>4, <2>1 DEF ReplayEntry
  <2>2. CASE k # n + 1
    <3>1. k \in 1..n /\ k \in 0..n /\ k - 1 \in 0..n
      BY <1>2, <2>2
    <3>2. q[k] = m[k] /\ q[k - 1] = m[k - 1] /\ b[k] = l[k]
      BY <1>2, <1>4, <3>1
    <3> QED
      BY <1>1, <3>1, <3>2, Zenon DEF Track, n
  <2> QED
    BY <2>1, <2>2
<1>6. Track(q, r, b, a)
  BY <1>2, <1>4, <1>5 DEF Track
<1>7. \A d \in images: low <= q[d.head]
  <2>1. \A d \in images: d.head \in 0..n
    BY <1>2 DEF n, Images
  <2> QED
    BY <1>1, <1>4, <2>1, Zenon
<1>8. low <= q[Len(b)] /\ q[Len(b)] = Len(a)
  BY <1>1, <1>2, <1>4 DEF n
<1> QED
  BY <1>6, <1>7, <1>8 DEF Tracked, b

\* An entry whose replay on the last state gives the new one leads to it.
LEMMA ChangeTracked ==
  ASSUME NEW r, NEW l \in Seq(Entries), NEW a \in Seq(States), NEW images \in SUBSET Images,
         \A d \in images: d.head <= Len(l), NEW low \in Nat, NEW e \in Entries, NEW new \in States,
         Tracked(r, l, a, images, low, FALSE), Selected(r, e),
         ReplayEntry(r, a[Len(a)], e) = new
  PROVE  Tracked(r, Append(l, e), Append(a, new), images, low, FALSE)
<1>1. PICK m: /\ Track(m, r, l, a)
              /\ \A d \in images: low <= m[d.head]
              /\ low <= m[Len(l)]
              /\ m[Len(l)] = Len(a)
  BY DEF Tracked
<1> DEFINE n == Len(l)
           z == Len(a)
           b == Append(l, e)
           c == Append(a, new)
           q == [k \in 0..n + 1 |-> IF k = n + 1 THEN z + 1 ELSE m[k]]
<1>2. n \in Nat /\ Len(b) = n + 1 /\ b[n + 1] = e /\ \A k \in 1..n: b[k] = l[k]
  OBVIOUS
<1>3. z \in Nat /\ Len(c) = z + 1 /\ c[z + 1] = new /\ \A k \in 1..z: c[k] = a[k]
  OBVIOUS
<1>4. m \in [0..n -> 1..z] /\ m[0] = 1 /\ m[n] = z
  BY <1>1, Zenon DEF Track
<1> HIDE DEF n, b, z, c
<1>5. q \in [0..n + 1 -> 1..z + 1] /\ q[0] = 1 /\ q[n + 1] = z + 1 /\ \A k \in 0..n: q[k] = m[k]
  <2>1. ASSUME NEW k \in 0..n + 1 PROVE q[k] \in 1..z + 1
    <3>1. CASE k = n + 1
      BY <1>3, <3>1
    <3>2. CASE k # n + 1
      <4>1. k \in 0..n /\ q[k] = m[k]
        BY <1>2, <3>2
      <4>2. m[k] \in 1..z
        BY <1>4, <4>1
      <4> QED
        BY <1>3, <4>1, <4>2
    <3> QED
      BY <3>1, <3>2, Zenon
  <2> QED
    BY <1>2, <1>3, <1>4, <2>1
<1> HIDE DEF q
<1>6. ASSUME NEW k \in 1..n + 1
      PROVE  /\ q[k] = IF Selected(r, b[k]) THEN q[k - 1] + 1 ELSE q[k - 1]
             /\ ReplayEntry(r, c[q[k - 1]], b[k]) = c[q[k]]
  <2>1. CASE k = n + 1
    <3>1. q[k] = z + 1 /\ q[k - 1] = z /\ b[k] = e /\ z \in 1..z
      BY <1>2, <1>3, <1>4, <1>5, <2>1
    <3>2. c[z] = a[Len(a)]
      BY <1>3, <3>1 DEF z
    <3> QED
      BY <1>3, <3>1, <3>2, Zenon
  <2>2. CASE k # n + 1
    <3>1. k \in 1..n /\ k \in 0..n /\ k - 1 \in 0..n
      BY <1>2, <2>2
    <3>2. q[k] = m[k] /\ q[k - 1] = m[k - 1] /\ b[k] = l[k]
      BY <1>2, <1>5, <3>1, Zenon
    <3>3. c[m[k]] = a[m[k]] /\ c[m[k - 1]] = a[m[k - 1]]
      BY <1>3, <1>4, <3>1, Zenon
    <3> QED
      BY <1>1, <3>1, <3>2, <3>3, ZenonT(60) DEF Track, n
  <2> QED
    BY <2>1, <2>2, Zenon
<1>7. Track(q, r, b, c)
  BY <1>2, <1>3, <1>5, <1>6 DEF Track
<1>8. \A d \in images: low <= q[d.head]
  <2>1. \A d \in images: d.head \in 0..n
    BY <1>2 DEF n, Images
  <2> QED
    BY <1>1, <1>5, <2>1, Zenon
<1>9. low <= q[Len(b)] /\ q[Len(b)] = Len(c)
  BY <1>1, <1>2, <1>3, <1>4, <1>5 DEF n
<1> QED
  BY <1>7, <1>8, <1>9 DEF Tracked, b, c

\* Installing a state that the log does not hold keeps what it tracks, one
\* state behind (the refused append, whose commit is forced).
LEMMA BehindTracked ==
  ASSUME NEW r, NEW l \in Seq(Entries), NEW a \in Seq(States), NEW images \in SUBSET Images,
         NEW low \in Nat, NEW new \in States, Tracked(r, l, a, images, low, FALSE)
  PROVE  Tracked(r, l, Append(a, new), images, low, TRUE)
<1>1. PICK m: /\ Track(m, r, l, a)
              /\ \A d \in images: low <= m[d.head]
              /\ low <= m[Len(l)]
              /\ m[Len(l)] = Len(a)
  BY DEF Tracked
<1> DEFINE z == Len(a)
           c == Append(a, new)
<1>2. z \in Nat /\ Len(l) \in Nat /\ Len(c) = z + 1 /\ \A k \in 1..z: c[k] = a[k]
  OBVIOUS
<1>3. m \in [0..Len(l) -> 1..z] /\ m[0] = 1 /\ m[Len(l)] = z
  BY <1>1 DEF Track
<1> HIDE DEF z, c
<1>4. m \in [0..Len(l) -> 1..z + 1]
  <2>1. \A k \in 0..Len(l): m[k] \in 1..z + 1
    BY <1>2, <1>3
  <2> QED
    BY <1>3, <2>1
<1>5. ASSUME NEW k \in 1..Len(l)
      PROVE  /\ m[k] = IF Selected(r, l[k]) THEN m[k - 1] + 1 ELSE m[k - 1]
             /\ ReplayEntry(r, c[m[k - 1]], l[k]) = c[m[k]]
  <2>1. k \in 0..Len(l) /\ k - 1 \in 0..Len(l)
    BY <1>2
  <2>2. c[m[k]] = a[m[k]] /\ c[m[k - 1]] = a[m[k - 1]]
    BY <1>2, <1>3, <2>1, Zenon
  <2> QED
    BY <1>1, <2>2 DEF Track
<1>6. Track(m, r, l, c)
  BY <1>2, <1>3, <1>4, <1>5 DEF Track
<1>7. m[Len(l)] = Len(c) - 1
  BY <1>2, <1>3
<1> QED
  BY <1>1, <1>6, <1>7, Zenon DEF Tracked, c

\* The images of a flush hold no more than the log, and the last one all of it.
LEMMA ImagesTracked ==
  ASSUME NEW r, NEW l, NEW a, NEW images, NEW others, NEW low, NEW slack,
         Tracked(r, l, a, images, low, slack),
         \A d \in others: d.head = Len(l) \/ \E x \in images: d.head = x.head
  PROVE  Tracked(r, l, a, others, low, slack)
<1>1. PICK m: /\ Track(m, r, l, a)
              /\ \A d \in images: low <= m[d.head]
              /\ low <= m[Len(l)]
              /\ m[Len(l)] = Len(a) \/ (slack /\ m[Len(l)] = Len(a) - 1)
  BY Zenon DEF Tracked
<1>2. \A d \in others: low <= m[d.head]
  BY <1>1, Zenon
<1> QED
  BY <1>1, <1>2, Zenon DEF Tracked

\* A synced log promises the last state it tracks.
LEMMA SyncedTracked ==
  ASSUME NEW r, NEW l \in Seq(Entries), NEW a \in Seq(States), NEW images, NEW low, NEW d,
         Tracked(r, l, a, images, low, FALSE), d.head = Len(l)
  PROVE  Tracked(r, l, a, {d}, Len(a), FALSE)
<1>1. PICK m: Track(m, r, l, a) /\ m[Len(l)] = Len(a)
  BY DEF Tracked
<1>2. Len(a) <= m[Len(l)] /\ \A x \in {d}: Len(a) <= m[x.head]
  BY <1>1
<1> QED
  BY <1>1, <1>2 DEF Tracked

\* Recovery leads from an image to one of the states, none older than `low`.
Rebuilds(r, d, a, low) == \E k \in low..Len(a): Rebuild(r, d) = a[k]

\* What is tracked, with the types of the states, the log and its images.
Tracking(r, l, a, images, low, slack) ==
  /\ l \in Seq(Entries) /\ a \in Seq(States) /\ a[1] = r.fs
  /\ images \in SUBSET Images /\ low \in Nat
  /\ Tracked(r, l, a, images, low, slack)

\* What is tracked bounds what a crash leaves.
LEMMA TrackedRebuilt ==
  ASSUME Leasts, NEW r, NEW l, NEW a, NEW images, NEW low, NEW slack,
         Tracking(r, l, a, images, low, slack), NEW d \in images, Holds(d, l)
  PROVE  Rebuilds(r, d, a, low)
<1>0. /\ l \in Seq(Entries) /\ a \in Seq(States) /\ a[1] = r.fs
      /\ d \in Images /\ low \in Nat
  BY Zenon DEF Tracking
<1>1. PICK m: Track(m, r, l, a) /\ \A x \in images: low <= m[x.head]
  BY Zenon DEF Tracking, Tracked
<1>2. Rebuild(r, d) = a[m[d.head]]
  BY <1>0, <1>1, RebuildTracked
<1>3. d.head \in 0..Len(l)
  BY <1>0 DEF Images, Holds
<1>4. m[d.head] \in 1..Len(a) /\ low <= m[d.head]
  BY <1>1, <1>3 DEF Track
<1> QED
  BY <1>0, <1>2, <1>4 DEF Rebuilds

\* A create that is replayed on the state it was logged in gives the state it
\* installed (create_file, replay_create).
LEMMA CreateReplays ==
  ASSUME NEW r \in [tx: Nat, fs: States], NEW fs \in States, Formed(fs), r.fs.gen <= fs.gen,
         NEW p \in Inodes \cup {Root}, NEW n \in Names,
         IsDir(fs, p), Bound(fs, p, n) = {}, fs.next \in Inodes
  PROVE  LET node == Born(fs, "file", p, n)
             e == [kind |-> "create", ino |-> fs.next, node |-> node, anchor |-> r.tx]
         IN /\ e \in Entries /\ Selected(r, e) /\ e.node.meta = fs.gen + 1
            /\ WithNew(fs, node) \in States /\ Formed(WithNew(fs, node)) /\ WithNew(fs, node).gen = fs.gen + 1
            /\ ReplayEntry(r, fs, e) = WithNew(fs, node)
<1> DEFINE node == Born(fs, "file", p, n)
           e == [kind |-> "create", ino |-> fs.next, node |-> node, anchor |-> r.tx]
           new == WithNew(fs, node)
<1>1. fs.gen \in Nat /\ fs.next \in Nat /\ fs.node \in [Inodes -> Nodes \cup {None}] /\ r.fs.gen \in Nat
  BY Zenon DEF States
<1>2. node \in Nodes /\ node.meta = fs.gen + 1 /\ node.parent = p /\ node.name = n
      /\ node.born = fs.gen + 1 /\ node.kind = "file"
  BY <1>1 DEF Born, Nodes
<1> HIDE DEF node
<1>3. e \in Entries /\ e.kind = "create" /\ e.ino = fs.next /\ e.node = node /\ e.anchor = r.tx
  BY <1>2, Zenon DEF Entries
<1> HIDE DEF e
<1>4. Selected(r, e)
  BY <1>1, <1>2, <1>3 DEF Selected
<1>5. fs.node[fs.next] = None
  BY <1>1 DEF Formed
<1>6. new \in States /\ new.gen = fs.gen + 1 /\ new.next = fs.next + 1
      /\ new.node = [fs.node EXCEPT ![fs.next] = node]
  BY <1>1, <1>2 DEF WithNew, States
<1>7. ReplayEntry(r, fs, e) = new
  <2>1. ReplayEntry(r, fs, e) = ReplayCreate(fs, e)
    BY <1>3, <1>4, NoneAssumption DEF ReplayEntry
  <2>2. ReplayCreate(fs, e) = [fs EXCEPT !.node[fs.next] = node, !.gen = Larger(@, node.meta),
                                         !.next = Larger(@, fs.next + 1)]
    BY <1>2, <1>3, <1>5, Zenon DEF ReplayCreate
  <2>3. Larger(fs.gen, node.meta) = fs.gen + 1 /\ Larger(fs.next, fs.next + 1) = fs.next + 1
    BY <1>1, <1>2 DEF Larger
  <2> QED
    BY <1>1, <2>1, <2>2, <2>3, Zenon DEF WithNew, States
<1>8. Formed(new)
  <2> SUFFICES ASSUME NEW i \in Inodes, new.node[i] # None
               PROVE  i < new.next /\ new.node[i].meta <= new.gen
    BY Zenon DEF Formed
  <2>1. CASE i = fs.next
    BY <1>1, <1>2, <1>6, <2>1
  <2>2. CASE i # fs.next
    <3>1. new.node[i] = fs.node[i] /\ fs.node[i] \in Nodes
      BY <1>1, <1>6, <2>2, Zenon
    <3>2. i \in Nat /\ i < fs.next /\ fs.node[i].meta <= fs.gen /\ fs.node[i].meta \in Nat
      BY <3>1, InodesAssumption, Zenon DEF Formed, Nodes
    <3>3. i < fs.next + 1 /\ fs.node[i].meta <= fs.gen + 1
      BY <1>1, <3>2, Grown, Zenon
    <3>4. new.next = fs.next + 1 /\ new.gen = fs.gen + 1
      BY <1>6, Zenon
    <3> QED
      BY <3>1, <3>3, <3>4, Zenon
  <2> QED
    BY <2>1, <2>2, Zenon
<1> QED
  BY <1>2, <1>3, <1>4, <1>6, <1>7, <1>8, Zenon DEF e, node

\* A directory that is made leaves a well formed state, one generation on.
LEMMA MkdirFormed ==
  ASSUME NEW fs \in States, Formed(fs), NEW p \in Inodes \cup {Root}, NEW n \in Names,
         fs.next \in Inodes
  PROVE  LET new == WithNew(fs, Born(fs, "dir", p, n))
         IN new \in States /\ Formed(new) /\ new.gen = fs.gen + 1
<1> DEFINE node == Born(fs, "dir", p, n)
           new == WithNew(fs, node)
<1>1. fs.gen \in Nat /\ fs.next \in Nat /\ fs.node \in [Inodes -> Nodes \cup {None}]
  BY Zenon DEF States
<1>2. node \in Nodes /\ node.meta = fs.gen + 1
  BY <1>1 DEF Born, Nodes
<1> HIDE DEF node
<1>3. new \in States /\ new.gen = fs.gen + 1 /\ new.next = fs.next + 1
      /\ new.node = [fs.node EXCEPT ![fs.next] = node]
  BY <1>1, <1>2 DEF WithNew, States
<1>4. Formed(new)
  <2> SUFFICES ASSUME NEW i \in Inodes, new.node[i] # None
               PROVE  i < new.next /\ new.node[i].meta <= new.gen
    BY DEF Formed
  <2>1. CASE i = fs.next
    BY <1>1, <1>2, <1>3, <2>1
  <2>2. CASE i # fs.next
    <3>1. new.node[i] = fs.node[i] /\ fs.node[i] \in Nodes
      BY <1>1, <1>3, <2>2, Zenon
    <3>2. i \in Nat /\ i < fs.next /\ fs.node[i].meta <= fs.gen /\ fs.node[i].meta \in Nat
      BY <3>1, InodesAssumption, Zenon DEF Formed, Nodes
    <3> QED
      BY <1>1, <1>3, <3>1, <3>2
  <2> QED
    BY <2>1, <2>2, Zenon
<1> QED
  BY <1>3, <1>4 DEF node

\* Replacing or removing an inode leaves a well formed state, one generation on.
LEMMA NodeFormed ==
  ASSUME NEW fs \in States, Formed(fs), NEW i \in Inodes, fs.node[i] # None,
         NEW node \in Nodes \cup {None}, node # None => node.meta = fs.gen + 1
  PROVE  LET new == WithNode(fs, i, node)
         IN /\ new = [node |-> [fs.node EXCEPT ![i] = node], gen |-> fs.gen + 1, next |-> fs.next]
            /\ new \in States /\ Formed(new) /\ new.gen = fs.gen + 1
<1> DEFINE new == WithNode(fs, i, node)
<1>1. fs.gen \in Nat /\ fs.next \in Nat /\ fs.node \in [Inodes -> Nodes \cup {None}]
  BY Zenon DEF States
<1>2. new = [node |-> [fs.node EXCEPT ![i] = node], gen |-> fs.gen + 1, next |-> fs.next]
  <2> DEFINE t == [fs.node EXCEPT ![i] = node]
             g == fs.gen + 1
  <2>1. new = [fs EXCEPT !.node = t, !.gen = g]
    BY DEF WithNode
  <2> HIDE DEF t, g
  <2>2. new = [node |-> t, gen |-> g, next |-> fs.next]
    BY <2>1, Zenon DEF States
  <2> QED
    BY <2>2 DEF t, g
<1> HIDE DEF new
<1>3. new \in States /\ new.gen = fs.gen + 1 /\ new.next = fs.next
      /\ new.node = [fs.node EXCEPT ![i] = node]
  BY <1>1, <1>2 DEF States
<1>4. Formed(new)
  <2> SUFFICES ASSUME NEW j \in Inodes, new.node[j] # None
               PROVE  j < new.next /\ new.node[j].meta <= new.gen
    BY DEF Formed
  <2>1. CASE i = j
    BY <1>1, <1>3, <2>1 DEF Formed
  <2>2. CASE i # j
    <3>1. new.node[j] = fs.node[j] /\ fs.node[j] \in Nodes
      BY <1>1, <1>3, <2>2
    <3>2. j < fs.next /\ fs.node[j].meta <= fs.gen /\ fs.node[j].meta \in Nat
      BY <3>1 DEF Formed, Nodes
    <3> QED
      BY <1>1, <1>3, <3>1, <3>2
  <2> QED
    BY <2>1, <2>2
<1> QED
  BY <1>2, <1>3, <1>4 DEF new

\* An attribute change that is replayed on the state it was logged in gives the
\* state it installed (setattr, replay_setattr).
LEMMA SetattrReplays ==
  ASSUME NEW r \in [tx: Nat, fs: States], NEW fs \in States, Formed(fs), r.fs.gen <= fs.gen,
         NEW i \in Inodes, fs.node[i] # None
  PROVE  LET node == [fs.node[i] EXCEPT !.meta = fs.gen + 1]
             e == [kind |-> "setattr", ino |-> i, node |-> node, anchor |-> r.tx]
         IN /\ e \in Entries /\ Selected(r, e) /\ e.node.meta = fs.gen + 1
            /\ WithNode(fs, i, node) \in States /\ Formed(WithNode(fs, i, node))
            /\ WithNode(fs, i, node).gen = fs.gen + 1
            /\ ReplayEntry(r, fs, e) = WithNode(fs, i, node)
<1> DEFINE old == fs.node[i]
           node == [fs.node[i] EXCEPT !.meta = fs.gen + 1]
           e == [kind |-> "setattr", ino |-> i, node |-> node, anchor |-> r.tx]
           new == WithNode(fs, i, node)
<1>1. fs.gen \in Nat /\ fs.next \in Nat /\ fs.node \in [Inodes -> Nodes \cup {None}] /\ r.fs.gen \in Nat
      /\ i \in Nat
  BY InodesAssumption DEF States
<1>2. old \in Nodes /\ i < fs.next /\ old.meta <= fs.gen /\ old.meta \in Nat
  BY <1>1 DEF Formed, Nodes
<1>3. node \in Nodes /\ node.meta = fs.gen + 1 /\ node.born = old.born /\ node.kind = old.kind /\ node # None
  BY <1>1, <1>2, NoneAssumption DEF Nodes
<1> HIDE DEF node
<1>4. e \in Entries /\ e.kind = "setattr" /\ e.ino = i /\ e.node = node /\ e.anchor = r.tx
  BY <1>3 DEF Entries
<1> HIDE DEF e
<1>5. Selected(r, e)
  BY <1>1, <1>3, <1>4 DEF Selected
<1>6. /\ new = [node |-> [fs.node EXCEPT ![i] = node], gen |-> fs.gen + 1, next |-> fs.next]
      /\ new \in States /\ Formed(new) /\ new.gen = fs.gen + 1
  BY <1>3, NodeFormed
<1>7. ReplayEntry(r, fs, e) = new
  <2>1. ReplayEntry(r, fs, e) = ReplaySetattr(fs, e)
    BY <1>4, <1>5, NoneAssumption, Zenon DEF ReplayEntry
  <2>2. old.meta < node.meta /\ old.meta # node.meta
    BY <1>1, <1>2, <1>3
  <2>3. ReplaySetattr(fs, e) = [fs EXCEPT !.node[i] = node, !.gen = Larger(@, node.meta),
                                         !.next = Larger(@, i + 1)]
    BY <1>3, <1>4, <2>2, Zenon DEF ReplaySetattr
  <2>4. Larger(fs.gen, node.meta) = fs.gen + 1 /\ Larger(fs.next, i + 1) = fs.next
    BY <1>1, <1>2, <1>3 DEF Larger
  <2> QED
    BY <1>1, <1>6, <2>1, <2>3, <2>4, Zenon DEF States
<1> QED
  BY <1>3, <1>4, <1>5, <1>6, <1>7, Zenon DEF e, node

-----------------------------------------------------------------------------
(* The inductive invariant *)

\* The states since the root, with the one an append has logged and not yet
\* installed.
Ahead == IF op.then = "install" THEN Append(hist, op.new) ELSE hist

\* The last state is not in the log: its commit is forced, or was uncertain.
Slack == fenced \/ (op.pc \in {"commit", "rollback"} /\ op.then = "forced")

\* An operation under way needs a mount without a fence, and has a state to
\* install while its append is flushed or undone.
OpFormed ==
  /\ op.then \in {"install", "refused"} <=> op.new # None
  /\ op.new # None => /\ op.pc \in {"put", "sync", "rollback"}
                      /\ Formed(op.new) /\ op.new.gen = live.gen + 1
  /\ op.pc = "idle" => op = IdleOp
  /\ op.pc \in {"put", "sync"} => op.then \in {"install", "refused", "tick", "fsync"}
  /\ op.pc # "idle" => up /\ ~fenced

\* A filesystem that is not mounted has only what the store kept.
Down == ~up => media = {disk} /\ undo = None /\ ~fenced

\* Every image of the log holds its first entries, and the flushed ones are
\* where the next flush expects them.
Imaged ==
  /\ \A d \in media: d.head <= MaxEntries
  /\ up => /\ \A d \in media: Holds(d, log)
           /\ \A i \in 1..flushed: disk.entry[i] = log[i]
           /\ op.pc = "sync" => disk.head = Len(log)

\* The entry was logged on this root or an earlier one.
Bounded(e, tx) == e # None => e.anchor <= tx

Anchored ==
  /\ \A k \in 1..Len(log): Bounded(log[k], root.tx)
  /\ \A d \in media: \A i \in 1..MaxEntries: Bounded(d.entry[i], root.tx)

\* The states since the root that was last read back: the first is that root's,
\* the last the mounted one, and every one a generation after the one before.
History ==
  /\ ~unread => hist[1] = root.fs
  /\ up => live = hist[Len(hist)]
  /\ \A j \in 1..Len(hist): Formed(hist[j]) /\ hist[j].gen = hist[1].gen + j - 1
  /\ Formed(root.fs)
  /\ plain => Len(hist) > 1

\* The delta goes back to the root, and what the log held when it began is
\* covered by it.
Delta ==
  /\ up /\ undo = None => Len(hist) = 1 /\ op.new = None
  /\ undo # None /\ ~fenced =>
       /\ undo.at = 1 /\ undo.fs = hist[1] /\ undo.seq <= Len(log)
       /\ ~stale => \A k \in 1..undo.seq: Covers(hist[1], log[k])
       /\ op.new = None /\ op.pc # "rollback" => Len(hist) > 1
  /\ op.pc = "post" => undo = None

\* No entry is newer than the last state it could lead to.
Metas ==
  ~stale => \A k \in 1..Len(log):
              log[k].kind # "pressure" => log[k].node.meta <= hist[1].gen + Len(Ahead) - 1

\* A mounted log tracks the states since the root.
Tracks == up /\ ~plain /\ ~stale /\ ~unread => Tracked(root, log, Ahead, media, sure, Slack)

\* What a crash left leads to one of the states that were promised.
Rests == ~up /\ ~plain /\ ~stale /\ ~unread => \E k \in sure..Len(hist): Rebuild(root, disk) = hist[k]

IInv ==
  /\ TypeOK /\ OpFormed /\ Down /\ Imaged /\ Anchored
  /\ History /\ Delta /\ Metas /\ Tracks /\ Rests

\* A new filesystem has an empty log and an empty history.
LEMMA InitIInv == Init => IInv
<1> SUFFICES ASSUME Init PROVE IInv
  OBVIOUS
<1> USE DEF Init
<1>0. EmptyState \in States /\ Formed(EmptyState) /\ EmptyState.gen = 1
  BY DEF EmptyState, States, Formed
<1>1. root = [tx |-> 1, fs |-> EmptyState] /\ root.tx = 1 /\ root.fs = EmptyState
      /\ hist = <<EmptyState>> /\ Len(hist) = 1 /\ hist[1] = EmptyState
      /\ log = <<>> /\ Len(log) = 0 /\ IdleOp.new = None /\ IdleOp.pc = "idle" /\ IdleOp.then = "none"
  BY DEF IdleOp
<1>2. disk \in Images /\ disk.head = 0
  BY BoundsAssumption DEF Images
<1>3. TypeOK
  <2>1. IdleOp \in Operations /\ 1 \in 1..Len(hist) /\ 0 \in 0..MaxFaults
    BY <1>1, BoundsAssumption DEF IdleOp, Operations
  <2>2. hist \in Seq(States) /\ log \in Seq(Entries) /\ Len(log) <= MaxEntries /\ 0 \in 0..Len(log)
    BY <1>0, <1>1, BoundsAssumption
  <2>3. root \in [tx: Nat, fs: States]
    BY <1>0, Zenon
  <2> QED
    BY <1>0, <1>2, <2>1, <2>2, <2>3, Zenon DEF TypeOK
<1>4. OpFormed /\ Down
  BY <1>1, Zenon DEF OpFormed, Down
<1>5. Imaged /\ Anchored
  BY <1>1, <1>2, BoundsAssumption DEF Imaged, Anchored, Holds, Bounded
<1>6. History /\ Delta
  BY <1>0, <1>1 DEF History, Delta
<1>7. Ahead = <<root.fs>> /\ Metas /\ Rests
  BY <1>1 DEF Ahead, Metas, Rests
<1>8. Tracks
  <2>1. Covered(root, log) /\ log \in Seq(Entries)
    BY <1>1 DEF Covered
  <2>2. media \in SUBSET Images /\ \A d \in media: d.head <= Len(log)
    BY <1>1, <1>2
  <2>3. Tracked(root, log, <<root.fs>>, media, 1, Slack)
    BY <2>1, <2>2, CoveredTracked, Zenon
  <2> QED
    BY <1>7, <2>3, Zenon DEF Tracks
<1> QED
  BY <1>3, <1>4, <1>5, <1>6, <1>7, <1>8 DEF IInv

\* The steps that only move an operation on.
Moves ==
  /\ op' \in Operations /\ faults' \in 0..MaxFaults
  /\ UNCHANGED <<up, fenced, live, root, log, flushed, disk, media, undo, hist, sure, plain, stale, unread>>

\* Such a step keeps the invariant if the operation stays well formed, ends in
\* post only without a delta, and keeps the slack it needs.
LEMMA MovesStep ==
  ASSUME IInv, Moves, OpFormed', op'.pc # "sync",
         op'.new = op.new, op'.then = "install" <=> op.then = "install",
         op'.pc = "post" => undo = None,
         undo # None /\ op.new = None => op'.pc = "rollback" \/ Len(hist) > 1,
         Slack => Slack' \/ Len(hist) = 1
  PROVE  IInv'
<1> USE DEF Moves
<1>1. TypeOK'
  BY DEF IInv, TypeOK
<1>2. Down' /\ Imaged' /\ Anchored'
  BY Zenon DEF IInv, Down, Imaged, Anchored, Holds
<1>3. History'
  BY Zenon DEF IInv, History
<1>4. Delta'
  BY DEF IInv, Delta
<1>5. Ahead' = Ahead
  BY Zenon DEF Ahead
<1>6. Metas'
  BY <1>5, Zenon DEF IInv, Metas
<1>7. Rests'
  BY DEF IInv, Rests
<1>8. Tracks'
  <2> SUFFICES ASSUME up, ~plain, ~stale, ~unread
               PROVE  Tracked(root, log, Ahead, media, sure, Slack')
    BY <1>5, Zenon DEF Tracks
  <2>1. PICK m: /\ Track(m, root, log, Ahead)
                /\ \A d \in media: sure <= m[d.head]
                /\ sure <= m[Len(log)]
                /\ m[Len(log)] = Len(Ahead) \/ (Slack /\ m[Len(log)] = Len(Ahead) - 1)
    BY Zenon DEF IInv, Tracks, Tracked
  <2>2. m[Len(log)] \in 1..Len(Ahead) /\ Len(hist) \in Nat
    BY <2>1, Lengths, LastIndex, Zenon DEF Track, IInv, TypeOK
  <2>3. Slack => Ahead = hist
    BY Zenon DEF Slack, Ahead, IInv, OpFormed, IdleOp
  <2>4. m[Len(log)] = Len(Ahead) \/ (Slack' /\ m[Len(log)] = Len(Ahead) - 1)
    <3>1. CASE m[Len(log)] = Len(Ahead)
      BY <3>1, Zenon
    <3>2. CASE m[Len(log)] # Len(Ahead)
      <4>1. Slack /\ m[Len(log)] = Len(Ahead) - 1
        BY <2>1, <3>2, Zenon
      <4>2. Len(Ahead) = Len(hist)
        BY <2>3, <4>1, Zenon
      <4>3. Len(hist) # 1
        BY <2>2, <4>1, <4>2
      <4>4. Slack'
        BY <4>1, <4>3, Zenon
      <4> QED
        BY <4>1, <4>4, Zenon
    <3> QED
      BY <3>1, <3>2, Zenon
  <2> QED
    BY <2>1, <2>4, Zenon DEF Tracked
<1> QED
  BY <1>1, <1>2, <1>3, <1>4, <1>6, <1>7, <1>8, Zenon DEF IInv

\* A commit is under way on a mount without a fence and installs nothing.
LEMMA CommitOp ==
  ASSUME IInv, op.pc = "commit"
  PROVE  up /\ ~fenced /\ op.new = None /\ op.then \notin {"install", "refused"}
  BY DEF IInv, OpFormed

\* An operation with nothing to do but its end.
LEMMA Idle ==
  /\ IdleOp \in Operations
  /\ IdleOp.pc = "idle" /\ IdleOp.then = "none" /\ IdleOp.new = None
  BY Zenon DEF IdleOp, Operations

\* An error takes a mutation to its rollback and ends any other operation.
LEMMA FailedOp ==
  ASSUME IInv, op.pc \notin {"idle", "rollback"}, Failed, UNCHANGED <<up, fenced, live>>
  PROVE  /\ op' \in Operations /\ faults' \in 0..MaxFaults
         /\ OpFormed' /\ op'.pc \in {"idle", "rollback"}
         /\ op'.new = op.new /\ (op'.then = "install" <=> op.then = "install")
         /\ Slack => Slack'
         /\ undo # None /\ op.new = None => op'.pc = "rollback" \/ Len(hist) > 1
<1>1. op \in Operations /\ faults \in 0..MaxFaults
  BY DEF IInv, TypeOK
<1>2. faults' \in 0..MaxFaults
  BY <1>1, BoundsAssumption DEF Failed
<1>3. op.pc # "idle" /\ up /\ ~fenced
  BY DEF IInv, OpFormed
<1>4. undo # None /\ op.new = None => Len(hist) > 1
  BY <1>3, Zenon DEF IInv, Delta
<1>5. CASE op.then \in {"install", "refused", "forced"}
  <2>1. op' = [op EXCEPT !.pc = "rollback"]
    BY <1>5 DEF Failed, Step
  <2>2. op' \in Operations /\ op'.pc = "rollback" /\ op'.then = op.then /\ op'.new = op.new
    BY <1>1, <2>1, Zenon DEF Operations
  <2>3. OpFormed'
    BY <1>3, <2>2, Zenon DEF IInv, OpFormed
  <2>4. Slack => Slack'
    BY <1>3, <2>2, Zenon DEF Slack
  <2> QED
    BY <1>2, <2>2, <2>3, <2>4
<1>6. CASE op.then \notin {"install", "refused", "forced"}
  <2>1. op' = IdleOp
    BY <1>6, Zenon DEF Failed
  <2>2. op.new = None
    BY <1>6 DEF IInv, OpFormed
  <2>3. OpFormed'
    BY <2>1, Idle DEF OpFormed
  <2>4. ~Slack
    BY <1>3, <1>6, Zenon DEF Slack
  <2> QED
    BY <1>2, <1>4, <1>6, <2>1, <2>2, <2>3, <2>4, Idle, Zenon
<1> QED
  BY <1>5, <1>6

\* The failing sync of a flush, a commit that fails before its root is written,
\* and the maintenance that fails after it.
LEMMA FailsIInv ==
  ASSUME IInv, FlushSyncFails \/ PublishFails \/ MaintainFails
  PROVE  IInv'
<1>1. op.pc \notin {"idle", "rollback"} /\ Failed
  BY Zenon DEF FlushSyncFails, PublishFails, MaintainFails
<1>2. UNCHANGED <<up, fenced, live, root, log, flushed, disk, media, undo, hist, sure, plain, stale, unread>>
  BY Zenon DEF FlushSyncFails, PublishFails, MaintainFails
<1>3. /\ op' \in Operations /\ faults' \in 0..MaxFaults
      /\ OpFormed' /\ op'.pc \in {"idle", "rollback"}
      /\ op'.new = op.new /\ (op'.then = "install" <=> op.then = "install")
      /\ Slack => Slack'
      /\ undo # None /\ op.new = None => op'.pc = "rollback" \/ Len(hist) > 1
  BY <1>1, <1>2, FailedOp, Zenon
<1>4. Moves
  BY <1>2, <1>3, Zenon DEF Moves
<1> QED
  BY <1>3, <1>4, MovesStep, Zenon

\* What an operation that begins may assume.
LEMMA AllowedFacts ==
  ASSUME IInv, Allowed
  PROVE  /\ up /\ ~fenced /\ op = IdleOp /\ ~Slack /\ Ahead = hist
         /\ undo # None => Len(hist) > 1
         /\ undo = None => Len(hist) = 1
<1>1. up /\ ~fenced /\ op.pc = "idle" /\ op = IdleOp
  BY DEF Allowed, IInv, OpFormed
<1>2. ~Slack /\ Ahead = hist
  BY <1>1, Idle DEF Slack, Ahead
<1> QED
  BY <1>1, <1>2, Idle DEF IInv, Delta

\* A flush, an fsync or a sync begins.
LEMMA BeginsIInv ==
  ASSUME IInv, FlushIfNeeded \/ Sync \/ \E p \in Inodes \cup {Root}: FsyncDirectory(p)
  PROVE  IInv'
<1>1. Allowed
      /\ UNCHANGED <<up, fenced, live, root, log, flushed, disk, media, undo, hist, sure, plain, stale, unread, faults>>
  BY Zenon DEF FlushIfNeeded, Sync, FsyncDirectory
<1>2. PICK pc \in {"put", "commit"}, then \in {"tick", "fsync"}:
        op' = [IdleOp EXCEPT !.pc = pc, !.then = then]
  BY Zenon DEF FlushIfNeeded, Sync, FsyncDirectory
<1>3. op' \in Operations /\ op'.pc = pc /\ op'.then = then /\ op'.new = None
  BY <1>2, Zenon DEF IdleOp, Operations
<1>4. up /\ ~fenced /\ op = IdleOp /\ ~Slack /\ (undo # None => Len(hist) > 1)
  BY <1>1, AllowedFacts, Zenon
<1>5. OpFormed'
  BY <1>1, <1>3, <1>4, Zenon DEF OpFormed
<1>6. Moves
  BY <1>1, <1>3 DEF Moves, IInv, TypeOK
<1> QED
  BY <1>3, <1>4, <1>5, <1>6, Idle, MovesStep

\* A commit with nothing to persist: nothing is dirty, so no mutation is
\* pending.
LEMMA PublishNothingIInv ==
  ASSUME IInv, PublishNothing
  PROVE  IInv'
<1>1. op.pc = "commit" /\ live = Clean /\ op' = [op EXCEPT !.pc = "post"]
      /\ UNCHANGED <<up, fenced, live, root, log, flushed, disk, media, undo, hist, sure, plain, stale, unread, faults>>
  BY Zenon DEF PublishNothing, MustPersist, Step
<1>2. op \in Operations /\ up /\ ~fenced
  BY <1>1 DEF IInv, TypeOK, OpFormed
<1>3. op' \in Operations /\ op'.pc = "post" /\ op'.then = op.then /\ op'.new = op.new /\ op.new = None
  BY <1>1, <1>2 DEF Operations, IInv, OpFormed
<1>4. OpFormed'
  BY <1>1, <1>2, <1>3 DEF OpFormed, IInv
<1>6. undo = None
  <2> SUFFICES ASSUME undo # None PROVE FALSE
    OBVIOUS
  <2>1. live = hist[1] /\ Len(hist) > 1
    BY <1>1, <1>2, <1>3, Zenon DEF Clean, IInv, Delta
  <2>2. live = hist[Len(hist)] /\ hist \in Seq(States) /\ Len(hist) \in Nat \ {0}
    BY <1>2 DEF IInv, History, TypeOK
  <2> DEFINE g == hist[1].gen
             n == Len(hist)
  <2>3. n \in Nat /\ n > 1 /\ n \in 1..Len(hist) /\ hist[1] \in States
    BY <2>1, <2>2
  <2>4. g \in Nat
    BY <2>3, Zenon DEF States
  <2>5. g = g + n - 1
    BY <2>1, <2>2, <2>3, Zenon DEF IInv, History
  <2> HIDE DEF g, n
  <2> QED
    BY <2>3, <2>4, <2>5
<1>5. Len(hist) = 1
  BY <1>2, <1>6, Zenon DEF IInv, Delta
<1>7. Moves
  BY <1>1, <1>3 DEF Moves, IInv, TypeOK
<1> QED
  BY <1>3, <1>4, <1>5, <1>6, <1>7, MovesStep

\* An entry logged before the root, and no newer than it, is not replayed.
LEMMA EntryCovered ==
  ASSUME NEW r \in [tx: Nat, fs: States], NEW e \in Entries, Bounded(e, r.tx), Covers(r.fs, e)
  PROVE  ~Selected(r, e)
<1>1. e # None /\ r.fs.gen \in Nat /\ r.tx \in Nat
  BY NoneAssumption, Zenon DEF States
<1>2. CASE e.kind = "pressure"
  <2>1. e.anchor \in Nat /\ e.anchor <= r.tx
    BY <1>1, Zenon DEF Entries, Bounded
  <2> QED
    BY <1>1, <1>2, <2>1 DEF Selected
<1>3. CASE e.kind # "pressure"
  <2>1. e.node.meta \in Nat /\ e.node.meta <= r.fs.gen
    BY <1>3 DEF Entries, Nodes, Covers
  <2> QED
    BY <1>1, <1>3, <2>1 DEF Selected
<1> QED
  BY <1>2, <1>3

\* The first state of the history is a state.
LEMMA FirstTyped ==
  ASSUME IInv
  PROVE  hist[1] \in States /\ hist[1].gen \in Nat /\ 1 \in 1..Len(hist)
<1>1. hist \in Seq(States) /\ 1 \in 1..Len(hist)
  BY DEF IInv, TypeOK
<1>2. hist[1] \in States
  BY <1>1, Element, Zenon
<1> QED
  BY <1>1, <1>2, Zenon DEF States

\* While the history is its first state alone, that state covers the log.
LEMMA FirstCovers ==
  ASSUME IInv, ~stale, Len(Ahead) = 1, NEW k \in 1..Len(log)
  PROVE  Covers(hist[1], log[k])
<1>1. hist[1].gen \in Nat
  BY FirstTyped, Zenon
<1>2. log[k].kind # "pressure" => log[k].node.meta <= hist[1].gen + 1 - 1
  BY Zenon DEF IInv, Metas
<1> QED
  BY <1>1, <1>2 DEF Covers

\* What the first state covers, the root that was read back does not replay.
LEMMA FirstSkips ==
  ASSUME IInv, ~unread, NEW k \in 1..Len(log), Covers(hist[1], log[k])
  PROVE  ~Selected(root, log[k])
<1>1. log[k] \in Entries /\ root \in [tx: Nat, fs: States]
  BY DEF IInv, TypeOK
<1>2. Bounded(log[k], root.tx) /\ hist[1] = root.fs
  BY Zenon DEF IInv, Anchored, History
<1> QED
  BY <1>1, <1>2, EntryCovered, Zenon

\* While the root is the last state, it covers the log.
LEMMA LogCovered ==
  ASSUME IInv, ~stale, ~unread, Len(Ahead) = 1
  PROVE  Covered(root, log)
<1> SUFFICES ASSUME NEW k \in 1..Len(log) PROVE ~Selected(root, log[k])
  BY Zenon DEF Covered
<1>1. Covers(hist[1], log[k])
  BY FirstCovers, Zenon
<1> QED
  BY <1>1, FirstSkips, Zenon

\* The delta of a mutation: the one that stands, or a new one at the root.
DeltaFormed(u) ==
  /\ u \in Deltas
  /\ u.at = 1 /\ u.fs = hist[1] /\ u.seq <= Len(log)
  /\ ~stale => \A k \in 1..u.seq: Covers(hist[1], log[k])

\* begin_mutation leaves a delta that goes back to the root.
LEMMA BeginDelta ==
  ASSUME IInv, Allowed, BeginMutation
  PROVE  DeltaFormed(undo')
<1>1. op = IdleOp /\ up /\ ~fenced /\ Ahead = hist
  BY AllowedFacts, Zenon
<1>2. CASE undo = None
  <2>1. undo' = [fs |-> live, seq |-> Len(log), at |-> Len(hist)] /\ Len(hist) = 1
    BY <1>2, AllowedFacts, Zenon DEF BeginMutation
  <2>2. live = hist[1] /\ live \in States /\ Len(log) \in Nat
    <3>1. live = hist[1]
      BY <1>1, <2>1, Zenon DEF IInv, History
    <3>2. live \in States /\ Len(log) \in Nat
      BY Lengths, Zenon DEF IInv, TypeOK
    <3> QED
      BY <3>1, <3>2, Zenon
  <2>3. ~stale => \A k \in 1..Len(log): Covers(hist[1], log[k])
    BY <1>1, <2>1, FirstCovers, Zenon
  <2>4. undo' \in Deltas /\ undo'.at = 1 /\ undo'.fs = live /\ undo'.seq = Len(log)
    BY <2>1, <2>2 DEF Deltas
  <2> QED
    BY <2>2, <2>3, <2>4 DEF DeltaFormed
<1>3. CASE undo # None
  BY <1>1, <1>3, Zenon DEF BeginMutation, DeltaFormed, IInv, Delta, TypeOK
<1> QED
  BY <1>2, <1>3

\* An entry that is appended leaves the images and their entries as they were.
LEMMA AppendedLog ==
  ASSUME IInv, Allowed, NEW e \in Entries, e.anchor = root.tx, Len(log) < MaxEntries,
         log' = Append(log, e), op'.pc # "sync",
         UNCHANGED <<up, root, flushed, disk, media>>
  PROVE  /\ log' \in Seq(Entries) /\ Len(log') <= MaxEntries /\ flushed' \in 0..Len(log')
         /\ Len(log') = Len(log) + 1 /\ log'[Len(log) + 1] = e
         /\ \A k \in 1..Len(log): log'[k] = log[k]
         /\ Imaged' /\ Anchored'
<1>1. log \in Seq(Entries) /\ Len(log) \in Nat /\ flushed \in 0..Len(log) /\ MaxEntries \in Nat
      /\ media \in SUBSET Images
  BY BoundsAssumption DEF IInv, TypeOK
<1>2. log' \in Seq(Entries) /\ Len(log') = Len(log) + 1 /\ log'[Len(log) + 1] = e
      /\ \A k \in 1..Len(log): log'[k] = log[k]
  BY <1>1
<1>3. Len(log') <= MaxEntries /\ flushed' \in 0..Len(log')
  BY <1>1, <1>2
<1>4. Imaged'
  <2>1. ASSUME NEW d \in media, up PROVE Holds(d, log')
    <3>1. d.head \in Nat /\ d.head <= Len(log) /\ \A i \in 1..d.head: d.entry[i] = log[i]
      BY <1>1, <2>1, Zenon DEF IInv, Imaged, Holds, Images
    <3>2. d.head <= Len(log') /\ \A i \in 1..d.head: d.entry[i] = log'[i]
      BY <1>1, <1>2, <3>1
    <3> QED
      BY <3>2, Zenon DEF Holds
  <2>2. ASSUME NEW i \in 1..flushed, up PROVE disk.entry[i] = log'[i]
    BY <1>1, <1>2, <2>2 DEF IInv, Imaged
  <2>3. \A d \in media: d.head <= MaxEntries
    BY Zenon DEF IInv, Imaged
  <2> QED
    BY <2>1, <2>2, <2>3, Zenon DEF Imaged
<1>5. Anchored'
  <2>1. ASSUME NEW k \in 1..Len(log') PROVE Bounded(log'[k], root.tx)
    <3>1. CASE k = Len(log) + 1
      <4>1. root.tx \in Nat
        BY Zenon DEF IInv, TypeOK
      <4> QED
        BY <1>2, <3>1, <4>1 DEF Bounded
    <3>2. CASE k # Len(log) + 1
      <4>1. k \in 1..Len(log)
        BY <1>1, <1>2, <3>2
      <4> QED
        BY <1>2, <4>1, Zenon DEF IInv, Anchored
    <3> QED
      BY <3>1, <3>2
  <2> QED
    BY <2>1 DEF IInv, Anchored
<1> QED
  BY <1>2, <1>3, <1>4, <1>5

\* A state that is installed is the next one of the history.
LEMMA InstalledHistory ==
  ASSUME IInv, up, NEW new \in States, Formed(new), new.gen = live.gen + 1,
         hist' = Append(hist, new), up' => live' = new, UNCHANGED <<root, unread>>
  PROVE  /\ hist' \in Seq(States) /\ Len(hist') = Len(hist) + 1 /\ Len(hist') > 1
         /\ Len(hist) \in Nat \ {0} /\ sure \in 1..Len(hist') /\ Len(hist) \in 1..Len(hist')
         /\ History' /\ hist'[1] = hist[1]
<1>1. hist \in Seq(States) /\ Len(hist) \in Nat /\ sure \in 1..Len(hist)
  BY DEF IInv, TypeOK
<1>2. hist' \in Seq(States) /\ Len(hist') = Len(hist) + 1 /\ hist'[Len(hist) + 1] = new
      /\ \A k \in 1..Len(hist): hist'[k] = hist[k]
  BY <1>1
<1>3. Len(hist) \in Nat \ {0} /\ sure \in 1..Len(hist') /\ Len(hist) \in 1..Len(hist') /\ Len(hist') > 1
  BY <1>1, <1>2
<1>4. hist[1].gen \in Nat /\ new.gen = hist[1].gen + (Len(hist) + 1) - 1
  <2>1. live = hist[Len(hist)] /\ Len(hist) \in 1..Len(hist) /\ hist[1] \in States
    BY <1>1, <1>3 DEF IInv, History
  <2>2. live.gen = hist[1].gen + Len(hist) - 1
    BY <2>1, Zenon DEF IInv, History
  <2>3. hist[1].gen \in Nat
    BY <2>1, Zenon DEF States
  <2> QED
    BY <1>1, <2>2, <2>3, NextGeneration, Zenon
<1>5. ASSUME NEW j \in 1..Len(hist')
      PROVE  Formed(hist'[j]) /\ hist'[j].gen = hist[1].gen + j - 1
  <2>1. CASE j = Len(hist) + 1
    BY <1>2, <1>4, <2>1, Zenon
  <2>2. CASE j # Len(hist) + 1
    <3>1. j \in 1..Len(hist)
      BY <1>1, <1>2, <2>2
    <3> QED
      BY <1>2, <3>1, Zenon DEF IInv, History
  <2> QED
    BY <2>1, <2>2, Zenon
<1>6. hist'[1] = hist[1] /\ (~unread => hist[1] = root.fs) /\ Formed(root.fs)
  BY <1>2, <1>3 DEF IInv, History
<1>7. History'
  BY <1>2, <1>3, <1>5, <1>6, Zenon DEF History
<1> QED
  BY <1>2, <1>3, <1>6, <1>7

\* The states ahead begin with the first of the history.
LEMMA AheadTyped ==
  ASSUME IInv
  PROVE  /\ Ahead \in Seq(States) /\ Len(Ahead) \in Nat \ {0}
         /\ Ahead[1] = hist[1]
<1>1. hist \in Seq(States) /\ Len(hist) \in Nat \ {0}
  BY DEF IInv, TypeOK
<1>2. CASE op.then = "install"
  <2>1. op.new \in States
    BY <1>2 DEF IInv, TypeOK, OpFormed, Operations
  <2>2. Ahead = Append(hist, op.new)
    BY <1>2, Zenon DEF Ahead
  <2> QED
    BY <1>1, <2>1, <2>2
<1>3. CASE op.then # "install"
  BY <1>1, <1>3, Zenon DEF Ahead
<1> QED
  BY <1>2, <1>3, Zenon

\* Whatever image a power loss picks leads to one of the states ahead, and to
\* none older than the last one that was made durable.
LEMMA ImageRebuilt ==
  ASSUME Leasts, IInv, up, ~plain, ~stale, ~unread, NEW d \in media
  PROVE  \E k \in sure..Len(Ahead): Rebuild(root, d) = Ahead[k]
<1>1. Holds(d, log) /\ log \in Seq(Entries) /\ media \in SUBSET Images
  BY Zenon DEF IInv, Imaged, TypeOK
<1>2. sure \in Nat
  BY DEF IInv, TypeOK
<1>3. Ahead \in Seq(States) /\ Ahead[1] = root.fs /\ Tracked(root, log, Ahead, media, sure, Slack)
  BY AheadTyped, Zenon DEF IInv, Tracks, History
<1>4. Tracking(root, log, Ahead, media, sure, Slack)
  BY <1>1, <1>2, <1>3, Zenon DEF Tracking
<1> QED
  <2>1. Rebuilds(root, d, Ahead, sure)
    BY <1>1, <1>4, TrackedRebuilt, Zenon
  <2> QED
    BY <2>1, Zenon DEF Rebuilds

\* No entry of the log is newer than the last of z states, if the states ahead
\* are no more than that.
LEMMA MetasGrow ==
  ASSUME IInv, NEW z \in Nat, Len(Ahead) <= z, ~stale, NEW k \in 1..Len(log),
         log[k].kind # "pressure"
  PROVE  log[k].node.meta <= hist[1].gen + z - 1
<1>1. log[k] \in Entries /\ hist[1].gen \in Nat /\ Len(Ahead) \in Nat
  <2>1. log[k] \in Entries /\ hist[1] \in States
    BY DEF IInv, TypeOK
  <2> QED
    BY <2>1, AheadTyped, Zenon DEF States
<1>2. log[k].node.meta \in Nat
  BY <1>1 DEF Entries, Nodes
<1>3. log[k].node.meta <= hist[1].gen + Len(Ahead) - 1
  BY Zenon DEF IInv, Metas
<1> QED
  BY <1>1, <1>2, <1>3, MoreStates, Zenon

\* Slack that is not there can be dropped, and slack can be granted.
LEMMA TrackedFirm ==
  ASSUME NEW r, NEW l, NEW a, NEW images, NEW low, NEW s, NEW t,
         Tracked(r, l, a, images, low, s), s => t
  PROVE  Tracked(r, l, a, images, low, t)
  BY Zenon DEF Tracked

\* Between operations the log tracks the last state.
LEMMA TrackedNow ==
  ASSUME IInv, up, ~plain, ~stale, ~unread, ~Slack
  PROVE  Tracked(root, log, Ahead, media, sure, FALSE)
<1>1. Tracked(root, log, Ahead, media, sure, Slack)
  BY Zenon DEF IInv, Tracks
<1> QED
  BY <1>1 DEF Tracked

\* A mutation keeps its delta while it appends and installs.
LEMMA MutationDelta ==
  ASSUME IInv, Allowed, BeginMutation, UNCHANGED <<root, stale, fenced, unread>>,
         Len(log) <= Len(log'), \A k \in 1..Len(log): log'[k] = log[k], hist'[1] = hist[1],
         op'.pc # "post", op'.new # None \/ op'.pc = "rollback" \/ Len(hist') > 1
  PROVE  Delta' /\ undo' \in Deltas
<1>1. DeltaFormed(undo')
  BY BeginDelta
<1>2. undo' \in Deltas /\ undo' # None /\ undo'.at = 1 /\ undo'.fs = hist'[1]
      /\ undo'.seq \in Nat /\ undo'.seq <= Len(log)
  BY <1>1, NoneAssumption, Zenon DEF DeltaFormed, Deltas
<1>3. Len(log) \in Nat
  BY DEF IInv, TypeOK
<1>4. ASSUME ~stale, NEW k \in 1..undo'.seq PROVE Covers(hist'[1], log'[k])
  <2>1. k \in 1..Len(log)
    BY <1>2, <1>3
  <2> QED
    BY <1>1, <1>4, <2>1, Zenon DEF DeltaFormed
<1>5. undo'.seq <= Len(log')
  BY <1>2, <1>3
<1> QED
  BY <1>2, <1>4, <1>5 DEF Delta

\* An append that the log is too deep for logs a pressure entry instead.
LEMMA RefusedIInv ==
  ASSUME IInv, Allowed, NEW new \in States, Formed(new), new.gen = live.gen + 1,
         Len(log) < MaxEntries, BeginMutation,
         log' = Append(log, [kind |-> "pressure", anchor |-> root.tx]),
         op' = [pc |-> "put", then |-> "refused", new |-> new],
         UNCHANGED <<live, hist, up, fenced, root, flushed, disk, media, sure, plain, stale, unread, faults>>
  PROVE  IInv'
<1> DEFINE e == [kind |-> "pressure", anchor |-> root.tx]
<1>1. e \in Entries /\ e.kind = "pressure" /\ e.anchor = root.tx /\ root.tx \in Nat
  BY Zenon DEF IInv, TypeOK, Entries
<1>2. ~Selected(root, e)
  BY <1>1, PressureSkipped, Zenon
<1> HIDE DEF e
<1>3. op' \in Operations /\ op'.pc = "put" /\ op'.then = "refused" /\ op'.new = new /\ new # None
  BY NoneAssumption DEF Operations
<1>4. log' = Append(log, e)
  BY Zenon DEF e
<1>5. /\ log' \in Seq(Entries) /\ Len(log') <= MaxEntries /\ flushed' \in 0..Len(log')
      /\ Len(log') = Len(log) + 1 /\ log'[Len(log) + 1] = e
      /\ \A k \in 1..Len(log): log'[k] = log[k]
      /\ Imaged' /\ Anchored'
  BY <1>1, <1>3, <1>4, AppendedLog, Zenon
<1>6. up /\ ~fenced /\ op = IdleOp /\ ~Slack /\ Ahead = hist
  BY AllowedFacts, Zenon
<1>7. Len(log) \in Nat /\ Len(log) <= Len(log')
  BY <1>5, Lengths, Zenon DEF IInv, TypeOK
<1>8. Delta' /\ undo' \in Deltas
  <2>1. op'.pc # "post"
    BY <1>3
  <2> QED
    BY <1>3, <1>5, <1>7, <2>1, MutationDelta, Zenon
<1>9. TypeOK'
  BY <1>3, <1>5, <1>8, Zenon DEF IInv, TypeOK
<1>10. OpFormed' /\ Down' /\ History' /\ Rests'
  BY <1>3, <1>6, Zenon DEF OpFormed, Down, History, Rests, IInv
<1>11. Ahead' = hist
  BY <1>3 DEF Ahead
<1>12. Metas'
  <2> SUFFICES ASSUME ~stale, NEW k \in 1..Len(log'), log'[k].kind # "pressure"
               PROVE  log'[k].node.meta <= hist[1].gen + Len(hist) - 1
    BY <1>11, Zenon DEF Metas
  <2>1. k # Len(log) + 1
    BY <1>1, <1>5, Zenon
  <2>2. k \in 1..Len(log)
    BY <1>5, <1>7, <2>1, Lengths, Zenon
  <2> QED
    BY <1>5, <1>6, <2>2, Zenon DEF IInv, Metas
<1>13. Tracks'
  <2> SUFFICES ASSUME ~plain, ~stale, ~unread
               PROVE  Tracked(root, log', hist, media, sure, Slack')
    BY <1>11 DEF Tracks
  <2>1. Tracked(root, log, hist, media, sure, FALSE)
    BY <1>6, TrackedNow, Zenon
  <2>2. log \in Seq(Entries) /\ hist \in Seq(States) /\ media \in SUBSET Images /\ sure \in Nat
    BY DEF IInv, TypeOK
  <2>3. \A d \in media: d.head <= Len(log)
    BY <1>6, Zenon DEF IInv, Imaged, Holds
  <2>4. Tracked(root, log', hist, media, sure, FALSE)
    BY <1>1, <1>2, <1>4, <2>1, <2>2, <2>3, PressureTracked, Zenon
  <2> QED
    BY <2>4, TrackedFirm, Zenon
<1> QED
  BY <1>5, <1>8, <1>9, <1>10, <1>12, <1>13, Zenon DEF IInv

\* An entry that is appended leads to the state it is logged for, whether the
\* append is flushed before that state is installed or not.
LEMMA ChangedLog ==
  ASSUME IInv, Allowed, NEW e \in Entries, NEW new \in States,
         e.kind # "pressure", e.node.meta = live.gen + 1,
         ~unread => Selected(root, e) /\ ReplayEntry(root, live, e) = new,
         log' = Append(log, e), hist'[1] = hist[1], Ahead' = Append(hist, new),
         UNCHANGED <<root, media, sure, up, plain, stale, unread>>
  PROVE  Metas' /\ Tracks'
<1>1. up /\ ~Slack /\ Ahead = hist
  BY AllowedFacts, Zenon
<1>2. log \in Seq(Entries) /\ hist \in Seq(States) /\ media \in SUBSET Images /\ sure \in Nat
      /\ Len(log) \in Nat /\ Len(hist) \in Nat \ {0}
  BY DEF IInv, TypeOK
<1>3. Len(log') = Len(log) + 1 /\ log'[Len(log) + 1] = e /\ \A k \in 1..Len(log): log'[k] = log[k]
  BY <1>2
<1>4. live = hist[Len(hist)] /\ live.gen = hist[1].gen + Len(hist) - 1 /\ hist[1].gen \in Nat
  <2>1. live = hist[Len(hist)] /\ Len(hist) \in 1..Len(hist) /\ hist[1] \in States
    BY <1>1, <1>2, Lengths, FirstTyped, Zenon DEF IInv, History
  <2> QED
    BY <2>1, Zenon DEF IInv, History, States
<1>5. Len(Ahead') = Len(hist) + 1 /\ Len(hist) \in Nat
  BY <1>2, AppendIs, ZenonT(60)
<1>6. Metas'
  <2> SUFFICES ASSUME ~stale, NEW k \in 1..Len(log'), log'[k].kind # "pressure"
               PROVE  log'[k].node.meta <= hist[1].gen + Len(Ahead') - 1
    BY Zenon DEF Metas
  <2>1. CASE k = Len(log) + 1
    BY <1>3, <1>4, <1>5, <2>1, Lengths, Zenon
  <2>2. CASE k # Len(log) + 1
    <3>1. k \in 1..Len(log) /\ Len(Ahead) <= Len(Ahead') /\ Len(Ahead') \in Nat
      BY <1>1, <1>2, <1>3, <1>5, <2>2, Lengths, Zenon
    <3>2. log'[k] = log[k]
      BY <1>3, <3>1, Zenon
    <3> DEFINE z == Len(Ahead')
    <3> HIDE DEF z
    <3>3. z \in Nat /\ Len(Ahead) <= z /\ log[k].kind # "pressure"
      BY <3>1, <3>2, Zenon DEF z
    <3>4. log[k].node.meta <= hist[1].gen + z - 1
      BY <3>1, <3>3, MetasGrow
    <3> QED
      BY <3>2, <3>4, Zenon DEF z
  <2> QED
    BY <2>1, <2>2, Zenon
<1>7. Tracks'
  <2> SUFFICES ASSUME ~plain, ~stale, ~unread
               PROVE  Tracked(root, log', Append(hist, new), media, sure, Slack')
    BY Zenon DEF Tracks
  <2>1. Tracked(root, log, hist, media, sure, FALSE)
    BY <1>1, TrackedNow, Zenon
  <2>2. \A d \in media: d.head <= Len(log)
    BY <1>1 DEF IInv, Imaged, Holds
  <2>3. Tracked(root, log', Append(hist, new), media, sure, FALSE)
    BY <1>2, <1>4, <2>1, <2>2, ChangeTracked, Zenon
  <2> QED
    BY <2>3, TrackedFirm, Zenon
<1> QED
  BY <1>6, <1>7, Zenon

\* The operation of a mutation that ends in a forced commit or a rollback.
LEMMA Forced ==
  ASSUME NEW pc \in {"commit", "rollback"}
  PROVE  LET o == [IdleOp EXCEPT !.pc = pc, !.then = "forced"]
         IN o \in Operations /\ o.pc = pc /\ o.then = "forced" /\ o.new = None
  BY Idle, Zenon DEF Operations

\* commit_mutation ends the operation or forces the commit.
LEMMA InstalledOp ==
  ASSUME NEW new, Install(new)
  PROVE  /\ op' \in Operations /\ op'.pc \in {"idle", "commit"} /\ op'.then \in {"none", "forced"}
         /\ op'.new = None /\ (op'.pc = "idle" => op' = IdleOp)
<1>1. CASE op' = IdleOp
  BY <1>1, Idle
<1>2. CASE op' = [IdleOp EXCEPT !.pc = "commit", !.then = "forced"]
  BY <1>2, Forced, Zenon
<1> QED
  BY <1>1, <1>2, Zenon DEF Install

\* A mutation that logs its entry keeps the invariant.
LEMMA LoggedIInv ==
  ASSUME IInv, NEW e \in Entries, NEW new \in States, Formed(new), new.gen = live.gen + 1,
         e.kind # "pressure", e.node.meta = live.gen + 1, e.anchor = root.tx,
         ~unread => Selected(root, e) /\ ReplayEntry(root, live, e) = new, Logged(e, new)
  PROVE  IInv'
<1>1. Allowed /\ Len(log) < MaxEntries /\ BeginMutation
      /\ UNCHANGED <<up, fenced, root, flushed, disk, media, sure, plain, stale, unread, faults>>
  BY Zenon DEF Logged
<1>2. up /\ ~fenced /\ op = IdleOp /\ ~Slack /\ Ahead = hist
  BY <1>1, AllowedFacts, Zenon
<1>3. CASE Len(log) >= Depth
  <2>1. /\ log' = Append(log, [kind |-> "pressure", anchor |-> root.tx])
        /\ op' = [pc |-> "put", then |-> "refused", new |-> new]
        /\ UNCHANGED <<live, hist>>
    BY <1>3, Zenon DEF Logged
  <2> QED
    BY <1>1, <2>1, RefusedIInv, Zenon
<1>4. CASE ~(Len(log) >= Depth)
  <2>1. log' = Append(log, e)
    BY <1>4, Zenon DEF Logged
  <2>2. Len(log) \in Nat /\ new # None
    <3>1. Len(log) \in Nat
      BY DEF IInv, TypeOK
    <3>2. new # None
      BY NoneAssumption, Zenon
    <3> QED
      BY <3>1, <3>2, Zenon
  <2>3. CASE op' = [pc |-> "put", then |-> "install", new |-> new] /\ UNCHANGED <<live, hist>>
    <3>1. op' \in Operations /\ op'.pc = "put" /\ op'.then = "install" /\ op'.new = new
      BY <2>3, Zenon DEF Operations
    <3>2. /\ log' \in Seq(Entries) /\ Len(log') <= MaxEntries /\ flushed' \in 0..Len(log')
          /\ Len(log') = Len(log) + 1 /\ log'[Len(log) + 1] = e
          /\ \A k \in 1..Len(log): log'[k] = log[k]
          /\ Imaged' /\ Anchored'
      BY <1>1, <2>1, <3>1, AppendedLog, ZenonT(60)
    <3>3. Delta' /\ undo' \in Deltas
      <4>1. Len(log) <= Len(log')
        BY <2>2, <3>2, Lengths, Zenon
      <4>2. op'.pc # "post" /\ op'.new # None /\ hist' = hist
        BY <2>2, <2>3, <3>1, Zenon
      <4> QED
        BY <1>1, <3>2, <4>1, <4>2, MutationDelta, Zenon
    <3>4. TypeOK'
      BY <1>1, <2>3, <3>1, <3>2, <3>3, Zenon DEF IInv, TypeOK
    <3>5. OpFormed' /\ Down' /\ History' /\ Rests'
      BY <1>1, <1>2, <2>2, <2>3, <3>1, Zenon DEF OpFormed, Down, History, Rests, IInv
    <3>6. Ahead' = Append(hist, new)
      BY <2>3, <3>1, Zenon DEF Ahead
    <3>7. Metas' /\ Tracks'
      BY <1>1, <2>1, <2>3, <3>6, ChangedLog, Zenon
    <3> QED
      BY <3>2, <3>3, <3>4, <3>5, <3>7, Zenon DEF IInv
  <2>4. CASE Install(new)
    <3>1. live' = new /\ hist' = Append(hist, new)
      BY <2>4, Zenon DEF Install
    <3>2. op' \in Operations /\ op'.pc \in {"idle", "commit"} /\ op'.then \in {"none", "forced"}
          /\ op'.new = None /\ (op'.pc = "idle" => op' = IdleOp)
      BY <2>4, InstalledOp, Zenon
    <3>3. /\ log' \in Seq(Entries) /\ Len(log') <= MaxEntries /\ flushed' \in 0..Len(log')
          /\ Len(log') = Len(log) + 1 /\ log'[Len(log) + 1] = e
          /\ \A k \in 1..Len(log): log'[k] = log[k]
          /\ Imaged' /\ Anchored'
      BY <1>1, <2>1, <3>2, AppendedLog, Zenon
    <3>4. /\ hist' \in Seq(States) /\ Len(hist') = Len(hist) + 1 /\ Len(hist') > 1
          /\ Len(hist) \in Nat \ {0} /\ sure \in 1..Len(hist') /\ Len(hist) \in 1..Len(hist')
          /\ History' /\ hist'[1] = hist[1]
      BY <1>1, <1>2, <3>1, InstalledHistory, Zenon
    <3>5. Delta' /\ undo' \in Deltas
      <4>1. Len(log) <= Len(log')
        BY <2>2, <3>3, Lengths, Zenon
      <4>2. op'.pc # "post"
        BY <3>2
      <4> QED
        BY <1>1, <3>3, <3>4, <4>1, <4>2, MutationDelta, Zenon
    <3>6. TypeOK'
      BY <1>1, <3>1, <3>2, <3>3, <3>4, <3>5, Zenon DEF IInv, TypeOK
    <3>7. OpFormed' /\ Down' /\ Rests'
      BY <1>1, <1>2, <3>2, Zenon DEF OpFormed, Down, Rests
    <3>8. Ahead' = Append(hist, new)
      BY <3>1, <3>2, Zenon DEF Ahead
    <3>9. Metas' /\ Tracks'
      BY <1>1, <2>1, <3>4, <3>8, ChangedLog, Zenon
    <3> QED
      BY <3>3, <3>4, <3>5, <3>6, <3>7, <3>9, Zenon DEF IInv
  <2> QED
    BY <1>4, <2>3, <2>4, Zenon DEF Logged
<1> QED
  BY <1>3, <1>4

\* A file is created, or its attributes change: the entry replays the mutation.
LEMMA MutationIInv ==
  ASSUME IInv, NEW p \in Inodes \cup {Root}, NEW n \in Names, NEW i \in Inodes,
         Create(p, n) \/ Setattr(i)
  PROVE  IInv'
<1>1. Allowed
  BY DEF Create, Setattr, Logged
<1> DEFINE base == IF unread THEN [tx |-> root.tx, fs |-> live] ELSE root
<1>2. /\ base \in [tx: Nat, fs: States] /\ live \in States /\ Formed(live) /\ base.fs.gen <= live.gen
      /\ base.tx = root.tx /\ (~unread => base = root)
  <2>1. up /\ root \in [tx: Nat, fs: States] /\ live \in States /\ Len(hist) \in Nat \ {0}
    BY <1>1 DEF IInv, TypeOK, Allowed
  <2>2. live = hist[Len(hist)] /\ Len(hist) \in 1..Len(hist)
    <3>1. Len(hist) \in 1..Len(hist)
      BY <2>1, Lengths, Zenon
    <3> QED
      BY <2>1, <3>1, Zenon DEF IInv, History
  <2>3. Formed(live) /\ live.gen = hist[1].gen + Len(hist) - 1 /\ live.gen \in Nat
        /\ (~unread => hist[1] = root.fs) /\ root.fs.gen \in Nat
    BY <2>1, <2>2, Zenon DEF IInv, History, States
  <2>4. CASE unread
    BY <2>1, <2>3, <2>4
  <2>5. CASE ~unread
    <3>1. root.fs.gen <= live.gen
      BY <2>1, <2>3, <2>5
    <3> QED
      BY <2>1, <2>3, <2>5, <3>1, Zenon
  <2> QED
    BY <2>4, <2>5
<1> HIDE DEF base
<1>3. CASE Create(p, n)
  <2> DEFINE node == Born(live, "file", p, n)
             e == [kind |-> "create", ino |-> live.next, node |-> node, anchor |-> root.tx]
             new == WithNew(live, node)
  <2>1. IsDir(live, p) /\ Bound(live, p, n) = {} /\ live.next \in Inodes /\ Logged(e, new)
    BY <1>3 DEF Create
  <2> DEFINE e0 == [kind |-> "create", ino |-> live.next, node |-> node, anchor |-> base.tx]
  <2>4. /\ e0 \in Entries /\ Selected(base, e0) /\ e0.node.meta = live.gen + 1
        /\ new \in States /\ Formed(new) /\ new.gen = live.gen + 1
        /\ ReplayEntry(base, live, e0) = new
    BY <1>2, <2>1, CreateReplays, Zenon
  <2>5. e0 = e
    BY <1>2, Zenon
  <2> HIDE DEF e0, e, new
  <2>2. /\ e \in Entries /\ Selected(base, e) /\ e.node.meta = live.gen + 1
        /\ new \in States /\ Formed(new) /\ new.gen = live.gen + 1
        /\ ReplayEntry(base, live, e) = new
    BY <2>4, <2>5, Zenon
  <2>3. e.kind # "pressure" /\ e.anchor = root.tx
    BY DEF e
  <2> QED
    BY <1>2, <2>1, <2>2, <2>3, LoggedIInv, Zenon
<1>4. CASE Setattr(i)
  <2> DEFINE node == [live.node[i] EXCEPT !.meta = live.gen + 1]
             e == [kind |-> "setattr", ino |-> i, node |-> node, anchor |-> root.tx]
             new == WithNode(live, i, node)
  <2>1. live.node[i] # None /\ Logged(e, new)
    BY <1>4 DEF Setattr
  <2> DEFINE e0 == [kind |-> "setattr", ino |-> i, node |-> node, anchor |-> base.tx]
  <2>4. /\ e0 \in Entries /\ Selected(base, e0) /\ e0.node.meta = live.gen + 1
        /\ new \in States /\ Formed(new) /\ new.gen = live.gen + 1
        /\ ReplayEntry(base, live, e0) = new
    BY <1>2, <2>1, SetattrReplays
  <2>5. e0 = e
    BY <1>2, Zenon
  <2> HIDE DEF e0, e, new
  <2>2. /\ e \in Entries /\ Selected(base, e) /\ e.node.meta = live.gen + 1
        /\ new \in States /\ Formed(new) /\ new.gen = live.gen + 1
        /\ ReplayEntry(base, live, e) = new
    BY <2>4, <2>5, Zenon
  <2>3. e.kind # "pressure" /\ e.anchor = root.tx
    BY Zenon DEF e
  <2> QED
    BY <1>2, <2>1, <2>2, <2>3, LoggedIInv, Zenon
<1> QED
  BY <1>3, <1>4

\* A mutation that is not logged installs its state and marks the history.
LEMMA UnloggedIInv ==
  ASSUME IInv, NEW new \in States, Formed(new), new.gen = live.gen + 1, Unlogged(new)
  PROVE  IInv'
<1>1. Allowed /\ BeginMutation /\ Install(new) /\ plain' = TRUE
      /\ UNCHANGED <<up, fenced, root, log, flushed, disk, media, sure, stale, unread, faults>>
  BY DEF Unlogged
<1>2. up /\ ~fenced /\ op = IdleOp /\ ~Slack /\ Ahead = hist
  BY <1>1, AllowedFacts
<1>3. live' = new /\ hist' = Append(hist, new)
  BY <1>1 DEF Install
<1>4. op' \in Operations /\ op'.pc \in {"idle", "commit"} /\ op'.then \in {"none", "forced"}
      /\ op'.new = None /\ (op'.pc = "idle" => op' = IdleOp)
  BY <1>1, InstalledOp, Zenon
<1>5. /\ hist' \in Seq(States) /\ Len(hist') = Len(hist) + 1 /\ Len(hist') > 1
      /\ Len(hist) \in Nat \ {0} /\ sure \in 1..Len(hist') /\ Len(hist) \in 1..Len(hist')
      /\ History' /\ hist'[1] = hist[1]
  BY <1>1, <1>2, <1>3, InstalledHistory, Zenon
<1>6. Len(log) \in Nat
  BY DEF IInv, TypeOK
<1>7. Delta' /\ undo' \in Deltas
  BY <1>1, <1>4, <1>5, <1>6, MutationDelta
<1>8. TypeOK'
  BY <1>1, <1>3, <1>4, <1>5, <1>7, Zenon DEF IInv, TypeOK
<1>9. OpFormed' /\ Down' /\ Rests' /\ Tracks'
  BY <1>1, <1>2, <1>4, Zenon DEF OpFormed, Down, Rests, Tracks
<1>10. Imaged' /\ Anchored'
  BY <1>1, <1>4, Zenon DEF IInv, Imaged, Anchored, Holds
<1>11. Metas'
  <2>1. Ahead' = hist'
    BY <1>4, Zenon DEF Ahead
  <2> DEFINE z == Len(hist')
  <2>2. z \in Nat /\ Len(Ahead) <= z
    BY <1>2, <1>5
  <2> HIDE DEF z
  <2>3. \A k \in 1..Len(log): ~stale /\ log[k].kind # "pressure"
                                => log[k].node.meta <= hist[1].gen + z - 1
    BY <2>2, MetasGrow
  <2> QED
    BY <1>1, <1>5, <2>1, <2>3, Zenon DEF Metas, z
<1> QED
  BY <1>5, <1>7, <1>8, <1>9, <1>10, <1>11, Zenon DEF IInv

\* mkdir and unlink are not logged.
LEMMA NamespaceIInv ==
  ASSUME IInv, NEW p \in Inodes \cup {Root}, NEW n \in Names, NEW i \in Inodes,
         Mkdir(p, n) \/ Unlink(i)
  PROVE  IInv'
<1>1. up
  BY Zenon DEF Mkdir, Unlink, Unlogged, Allowed
<1>2. live \in States /\ Formed(live)
  <2>1. live = hist[Len(hist)] /\ Len(hist) \in 1..Len(hist)
    BY <1>1, Element, Zenon DEF IInv, History, TypeOK
  <2> QED
    BY <2>1, Zenon DEF IInv, History, TypeOK
<1>3. CASE Mkdir(p, n)
  <2> DEFINE new == WithNew(live, Born(live, "dir", p, n))
  <2>1. live.next \in Inodes /\ Unlogged(new)
    BY <1>3, Zenon DEF Mkdir
  <2>2. new \in States /\ Formed(new) /\ new.gen = live.gen + 1
    BY <1>2, <2>1, MkdirFormed, Zenon
  <2> HIDE DEF new
  <2> QED
    BY <2>1, <2>2, UnloggedIInv, Zenon
<1>4. CASE Unlink(i)
  <2> DEFINE new == WithNode(live, i, None)
  <2>1. live.node[i] # None /\ Unlogged(new)
    BY <1>4, Zenon DEF Unlink
  <2>2. new \in States /\ Formed(new) /\ new.gen = live.gen + 1
    BY <1>2, <2>1, NodeFormed, Zenon
  <2> HIDE DEF new
  <2> QED
    BY <2>1, <2>2, UnloggedIInv
<1> QED
  BY <1>3, <1>4

\* An allocation that is refused begins a mutation only to roll it back.
LEMMA AllocateRefusedIInv ==
  ASSUME IInv, AllocateRefused
  PROVE  IInv'
<1>1. Allowed /\ BeginMutation /\ op' = [IdleOp EXCEPT !.pc = "rollback", !.then = "forced"]
      /\ UNCHANGED <<up, fenced, live, root, log, flushed, disk, media, hist, sure, plain, stale, unread, faults>>
  BY DEF AllocateRefused
<1>2. up /\ ~fenced /\ op = IdleOp /\ ~Slack /\ Ahead = hist
  BY <1>1, AllowedFacts
<1>3. op' \in Operations /\ op'.pc = "rollback" /\ op'.then = "forced" /\ op'.new = None
  BY <1>1, Forced
<1>4. Len(log) \in Nat
  BY DEF IInv, TypeOK
<1>5. Delta' /\ undo' \in Deltas
  BY <1>1, <1>3, <1>4, MutationDelta
<1>6. TypeOK'
  BY <1>1, <1>3, <1>5 DEF IInv, TypeOK
<1>7. OpFormed' /\ Down' /\ History' /\ Rests'
  BY <1>1, <1>2, <1>3 DEF OpFormed, Down, History, Rests, IInv
<1>8. Imaged' /\ Anchored'
  BY <1>1, <1>3 DEF IInv, Imaged, Anchored, Holds
<1>9. Ahead' = hist
  BY <1>1, <1>3 DEF Ahead
<1>10. Metas'
  BY <1>1, <1>2, <1>9 DEF IInv, Metas
<1>11. Tracks'
  <2> SUFFICES ASSUME ~plain, ~stale, ~unread
               PROVE  Tracked(root, log, hist, media, sure, Slack')
    BY <1>1, <1>9 DEF Tracks
  <2>1. Tracked(root, log, hist, media, sure, FALSE)
    BY <1>2, TrackedNow, Zenon
  <2> QED
    BY <2>1, TrackedFirm, Zenon
<1> QED
  BY <1>5, <1>6, <1>7, <1>8, <1>10, <1>11 DEF IInv

\* What deleting the head, and entries, makes of an image.
LEMMA HeadlessIs ==
  ASSUME NEW d \in Images, NEW k \in Nat
  PROVE  /\ Headless(d) \in Images /\ Headless(d).head = 0 /\ Headless(d).entry = d.entry
         /\ Headless(Without(d, k)) \in Images /\ Headless(Without(d, k)).head = 0
         /\ \A i \in 1..MaxEntries: Headless(Without(d, k)).entry[i] \in {None, d.entry[i]}
<1>1. d.entry \in [1..MaxEntries -> Entries \cup {None}] /\ DOMAIN d.entry = 1..MaxEntries
  BY DEF Images
<1>2. Headless(d) \in Images /\ Headless(d).head = 0 /\ Headless(d).entry = d.entry
  BY DEF Headless, Images
<1> DEFINE t == [i \in DOMAIN d.entry |-> IF i <= k THEN None ELSE d.entry[i]]
           w == Without(d, k)
<1>3. t \in [1..MaxEntries -> Entries \cup {None}] /\ \A i \in 1..MaxEntries: t[i] \in {None, d.entry[i]}
  BY <1>1, Zenon
<1>4. w = [d EXCEPT !.entry = t]
  BY DEF Without
<1> HIDE DEF t, w
<1>5. w \in Images /\ w.entry = t
  BY <1>3, <1>4 DEF Images
<1>6. Headless(w) \in Images /\ Headless(w).head = 0 /\ Headless(w).entry = t
  BY <1>5 DEF Headless, Images
<1> QED
  BY <1>2, <1>3, <1>6, Zenon DEF w

\* An image without a head, with no entry that the store did not hold.
Blank(d) == d.head = 0 /\ \A i \in 1..MaxEntries: d.entry[i] \in {None, disk.entry[i]}

\* A log that is cleared leaves images without a head (clear).
LEMMA ClearedIs ==
  ASSUME TypeOK, Cleared
  PROVE  /\ disk' \in Images /\ media' \in SUBSET Images /\ disk' \in media'
         /\ faults' \in 0..MaxFaults /\ \A d \in media': Blank(d)
         /\ log' = <<>> /\ flushed' = 0 /\ stale' = FALSE
<1>1. disk \in Images /\ media \in SUBSET Images /\ disk \in media /\ faults \in 0..MaxFaults
      /\ Len(log) \in Nat /\ MaxFaults \in Nat
  BY BoundsAssumption DEF TypeOK
<1>2. CASE /\ disk' = Headless(Without(disk, Len(log)))
           /\ media' = {Headless(Without(disk, k)): k \in 0..Len(log)}
           /\ UNCHANGED faults
  <2>1. \A k \in 0..Len(log): Headless(Without(disk, k)) \in Images /\ Blank(Headless(Without(disk, k)))
    BY <1>1, HeadlessIs DEF Blank
  <2>2. disk' \in media' /\ media' \in SUBSET Images /\ \A d \in media': Blank(d)
    BY <1>1, <1>2, <2>1
  <2> QED
    BY <1>1, <1>2, <2>2, Zenon DEF Cleared
<1>3. CASE /\ faults < MaxFaults /\ faults' = faults + 1
           /\ disk' = Headless(disk)
           /\ media' = {disk'}
  <2>1. Headless(disk) \in Images /\ Blank(Headless(disk))
    BY <1>1, HeadlessIs DEF Blank
  <2>2. faults' \in 0..MaxFaults
    BY <1>1, <1>3
  <2> QED
    BY <1>3, <2>1, <2>2, Zenon DEF Cleared
<1> QED
  BY <1>2, <1>3, Zenon DEF Cleared

\* A log that fails to be cleared leaves at most one such image more.
LEMMA ClearFailedIs ==
  ASSUME TypeOK, ClearFailed
  PROVE  /\ disk' \in Images /\ media' \in SUBSET Images /\ disk' \in media'
         /\ faults' \in 0..MaxFaults /\ \A d \in media': d \in media \/ Blank(d)
         /\ disk'.entry = disk.entry /\ UNCHANGED <<log, flushed>>
<1>1. disk \in Images /\ media \in SUBSET Images /\ disk \in media /\ faults \in 0..MaxFaults
      /\ MaxFaults \in Nat
  BY BoundsAssumption, Zenon DEF TypeOK
<1>2. Headless(disk) \in Images /\ Blank(Headless(disk)) /\ Headless(disk).entry = disk.entry
  BY <1>1, HeadlessIs, Zenon DEF Blank
<1>3. faults' \in 0..MaxFaults
  BY <1>1 DEF ClearFailed
<1> QED
  BY <1>1, <1>2, <1>3, Zenon DEF ClearFailed

\* The images of a cleared log hold its first entries: none.
LEMMA ClearedImages ==
  ASSUME IInv, Cleared, root' = root, op'.pc # "sync"
  PROVE  Imaged' /\ Anchored' /\ Metas' /\ Tracked(root, log', <<root.fs>>, media', 1, FALSE)
<1>1. /\ disk' \in Images /\ media' \in SUBSET Images /\ disk' \in media'
      /\ faults' \in 0..MaxFaults /\ \A d \in media': Blank(d)
      /\ log' = <<>> /\ flushed' = 0 /\ stale' = FALSE
  BY ClearedIs, Zenon DEF IInv
<1>2. Len(log') = 0 /\ log' \in Seq(Entries) /\ MaxEntries \in Nat /\ disk \in media
  BY <1>1, BoundsAssumption DEF IInv, TypeOK
<1>3. Imaged'
  BY <1>1, <1>2 DEF Imaged, Holds, Blank
<1>4. ASSUME NEW d \in media', NEW i \in 1..MaxEntries
      PROVE  Bounded(d.entry[i], root.tx)
  <2>1. d.entry[i] \in {None, disk.entry[i]} /\ Bounded(disk.entry[i], root.tx)
    BY <1>1, <1>2, Zenon DEF Blank, IInv, Anchored
  <2> QED
    BY <2>1, Zenon DEF Bounded
<1>5. Anchored'
  BY <1>2, <1>4 DEF Anchored
<1>6. Metas'
  BY <1>2 DEF Metas
<1>7. Covered(root, log') /\ \A d \in media': d.head <= Len(log')
  BY <1>1, <1>2 DEF Covered, Blank
<1>8. Tracked(root, log', <<root.fs>>, media', 1, FALSE)
  BY <1>1, <1>2, <1>7, CoveredTracked, Zenon
<1> QED
  BY <1>3, <1>5, <1>6, <1>8, Zenon

\* The image that a failed clear adds holds no entry of the log.
LEMMA ClearFailedImages ==
  ASSUME IInv, ClearFailed, UNCHANGED <<up, root>>, op'.pc # "sync"
  PROVE  Imaged' /\ Anchored'
<1>1. /\ disk' \in Images /\ media' \in SUBSET Images /\ disk' \in media'
      /\ faults' \in 0..MaxFaults /\ \A d \in media': d \in media \/ Blank(d)
      /\ disk'.entry = disk.entry /\ UNCHANGED <<log, flushed>>
  BY ClearFailedIs DEF IInv
<1>2. Len(log) \in Nat /\ MaxEntries \in Nat /\ disk \in media
  BY BoundsAssumption DEF IInv, TypeOK
<1>3. ASSUME NEW d \in media' PROVE d.head <= MaxEntries /\ (up => Holds(d, log))
  <2>1. CASE d \in media
    BY <2>1 DEF IInv, Imaged
  <2>2. CASE Blank(d)
    BY <1>2, <2>2 DEF Blank, Holds
  <2> QED
    BY <1>1, <2>1, <2>2, Zenon
<1>4. up => \A i \in 1..flushed: disk'.entry[i] = log[i]
  BY <1>1 DEF IInv, Imaged
<1>5. Imaged'
  BY <1>1, <1>3, <1>4, Zenon DEF Imaged
<1>6. ASSUME NEW d \in media', NEW i \in 1..MaxEntries
      PROVE  Bounded(d.entry[i], root.tx)
  <2>1. CASE d \in media
    BY <2>1, Zenon DEF IInv, Anchored
  <2>2. CASE Blank(d)
    <3>1. d.entry[i] \in {None, disk.entry[i]} /\ Bounded(disk.entry[i], root.tx)
      BY <1>2, <2>2, Zenon DEF Blank, IInv, Anchored
    <3> QED
      BY <3>1 DEF Bounded
  <2> QED
    BY <1>1, <2>1, <2>2, Zenon
<1>7. Anchored'
  BY <1>1, <1>6, Zenon DEF IInv, Anchored
<1> QED
  BY <1>5, <1>7, Zenon

\* A rollback goes back to the root, and retires a log that has grown since.
LEMMA RollbackIInv ==
  ASSUME IInv, Rollback
  PROVE  IInv'
<1>1. op.pc = "rollback" /\ op' = IdleOp /\ undo' = None /\ UNCHANGED <<up, fenced, root, unread>>
  BY Zenon DEF Rollback
<1>2. up /\ ~fenced
  BY <1>1 DEF IInv, OpFormed
<1>3. OpFormed' /\ Down'
  BY <1>1, <1>2, Idle, Zenon DEF OpFormed, Down
<1>4. CASE undo = None
  <2>1. UNCHANGED <<live, hist, sure, plain, log, flushed, disk, media, stale, faults>>
    BY <1>4, Zenon DEF Rollback
  <2>2. Len(hist) = 1 /\ op.new = None /\ op.then # "install"
    BY <1>2, <1>4, Zenon DEF IInv, Delta, OpFormed
  <2>3. Moves
    BY <1>1, <1>4, <2>1, Idle DEF Moves, IInv, TypeOK
  <2> QED
    BY <1>1, <1>3, <1>4, <2>2, <2>3, Idle, MovesStep, Zenon
<1>5. CASE undo # None
  <2> DEFINE first == hist[1]
  <2>1. undo.at = 1 /\ undo.fs = first /\ (~unread => first = root.fs) /\ undo \in Deltas
        /\ hist \in Seq(States) /\ Len(hist) \in Nat \ {0} /\ sure \in 1..Len(hist)
        /\ root \in [tx: Nat, fs: States] /\ first \in States /\ Formed(root.fs)
    BY <1>2, <1>5 DEF IInv, Delta, History, TypeOK
  <2>0. Formed(first) /\ first.gen \in Nat
    <3>1. 1 \in 1..Len(hist) /\ first.gen \in Nat
      BY FirstTyped, Zenon
    <3> QED
      BY <3>1, Zenon DEF IInv, History
  <2>2. live' = first /\ hist' = SubSeq(hist, 1, 1) /\ sure' = Smaller(sure, 1)
        /\ plain' = (plain /\ 1 > 1)
    BY <1>5, <2>1, Zenon DEF Rollback
  <2>3. hist' = <<first>> /\ sure' = 1 /\ plain' = FALSE
    <3>1. 1 \in 1..Len(hist) /\ sure' = 1
      BY <2>1, <2>2 DEF Smaller
    <3>2. hist' \in Seq(States) /\ Len(hist') = 1 /\ hist'[1] = first
      BY <2>1, <2>2, <3>1
    <3>3. ~(1 > 1)
      OBVIOUS
    <3>4. plain' = FALSE
      BY <2>2, <3>3, Zenon
    <3> QED
      BY <2>1, <3>1, <3>2, <3>4
  <2>4. hist' \in Seq(States) /\ Len(hist') = 1 /\ hist'[1] = first /\ sure' \in 1..Len(hist')
    BY <2>1, <2>3
  <2> HIDE DEF first
  <2>5. History'
    <3>1. \A j \in 1..Len(hist'): Formed(hist'[j]) /\ hist'[j].gen = first.gen + j - 1
      BY <2>4, <2>0
    <3> QED
      BY <1>1, <2>1, <2>2, <2>3, <2>4, <3>1, Zenon DEF History
  <2>6. Delta' /\ Rests'
    BY <1>1, <1>2, <2>4, Idle, Zenon DEF Delta, Rests
  <2>7. Ahead' = <<first>>
    BY <1>1, <2>3, Idle DEF Ahead
  <2>8. CASE Len(log) <= undo.seq /\ UNCHANGED <<log, flushed, disk, media, stale, faults>>
    <3>1. TypeOK'
      BY <1>1, <2>1, <2>2, <2>3, <2>4, <2>8, Idle, Zenon DEF IInv, TypeOK
    <3>2. Imaged' /\ Anchored'
      BY <1>1, <2>8, Idle, Zenon DEF IInv, Imaged, Anchored, Holds
    <3>3. ASSUME ~stale, NEW k \in 1..Len(log) PROVE Covers(first, log[k])
      <4>1. Len(log) \in Nat /\ undo.seq \in Nat
        BY <2>1 DEF IInv, TypeOK, Deltas
      <4>2. k \in 1..undo.seq
        BY <2>8, <4>1
      <4> QED
        BY <1>2, <1>5, <3>3, <4>2, Zenon DEF IInv, Delta, first
    <3>4. Metas'
      <4> SUFFICES ASSUME ~stale, NEW k \in 1..Len(log), log[k].kind # "pressure"
                   PROVE  log[k].node.meta <= first.gen + Len(Ahead') - 1
        BY <1>1, <2>4, <2>8, Zenon DEF Metas
      <4>1. Len(Ahead') = 1
        BY <2>1, <2>7
      <4>2. log[k].node.meta <= first.gen
        BY <3>3, Zenon DEF Covers
      <4> QED
        BY <2>0, <4>1, <4>2
    <3>5. Tracks'
      <4> SUFFICES ASSUME ~stale, ~unread PROVE Tracked(root, log, <<root.fs>>, media, 1, Slack')
        BY <1>1, <2>1, <2>3, <2>7, <2>8, Zenon DEF Tracks
      <4>0. Covered(root, log)
        BY <2>1, <3>3, FirstSkips, Zenon DEF Covered, first
      <4>1. log \in Seq(Entries) /\ media \in SUBSET Images /\ \A d \in media: d.head <= Len(log)
        BY <1>2 DEF IInv, TypeOK, Imaged, Holds
      <4>2. Tracked(root, log, <<root.fs>>, media, 1, FALSE)
        BY <4>0, <4>1, CoveredTracked, Zenon
      <4> QED
        BY <4>2, TrackedFirm, Zenon
    <3> QED
      BY <1>3, <2>5, <2>6, <3>1, <3>2, <3>4, <3>5, Zenon DEF IInv
  <2>9. CASE Cleared
    <3>1. /\ disk' \in Images /\ media' \in SUBSET Images /\ disk' \in media'
          /\ faults' \in 0..MaxFaults /\ \A d \in media': Blank(d)
          /\ log' = <<>> /\ flushed' = 0 /\ stale' = FALSE
      BY <2>9, ClearedIs, Zenon DEF IInv
    <3>2. log' \in Seq(Entries) /\ Len(log') <= MaxEntries /\ flushed' \in 0..Len(log')
      BY <3>1, BoundsAssumption
    <3>3. TypeOK'
      BY <1>1, <2>1, <2>2, <2>3, <2>4, <3>1, <3>2, Idle, Zenon DEF IInv, TypeOK
    <3>4. Imaged' /\ Anchored' /\ Metas' /\ Tracked(root, log', <<root.fs>>, media', 1, FALSE)
      BY <1>1, <2>9, Idle, ClearedImages, Zenon
    <3>5. Tracked(root, log', <<root.fs>>, media', 1, Slack')
      BY <3>4, TrackedFirm, Zenon
    <3>6. Tracks'
      BY <1>1, <2>1, <2>3, <2>7, <3>5, Zenon DEF Tracks
    <3> QED
      BY <1>3, <2>5, <2>6, <3>3, <3>4, <3>6, Zenon DEF IInv
  <2>10. CASE ClearFailed /\ stale' = TRUE
    <3>1. /\ disk' \in Images /\ media' \in SUBSET Images /\ disk' \in media'
          /\ faults' \in 0..MaxFaults /\ UNCHANGED <<log, flushed>>
      BY <2>10, ClearFailedIs DEF IInv
    <3>2. TypeOK'
      BY <1>1, <2>1, <2>2, <2>3, <2>4, <2>10, <3>1, Idle, Zenon DEF IInv, TypeOK
    <3>3. Imaged' /\ Anchored'
      BY <1>1, <2>10, Idle, ClearFailedImages, Zenon
    <3>4. Metas' /\ Tracks'
      BY <2>10 DEF Metas, Tracks
    <3> QED
      BY <1>3, <2>5, <2>6, <3>2, <3>3, <3>4, Zenon DEF IInv
  <2> QED
    BY <1>5, <2>8, <2>9, <2>10, Zenon DEF Rollback
<1> QED
  BY <1>4, <1>5, Zenon

\* After any number of its puts, a flush leaves an image that holds the first
\* entries of the log, under the old head or the new one (flush).
LEMMA WrittenIs ==
  ASSUME IInv, up, NEW n \in 0..Len(log) - flushed + 1
  PROVE  LET d == Written(n)
         IN /\ d \in Images /\ Holds(d, log) /\ d.head <= MaxEntries
            /\ d.head \in {Len(log), disk.head}
            /\ n = Len(log) - flushed + 1 => d.head = Len(log)
            /\ \A i \in 1..flushed: d.entry[i] = log[i]
            /\ \A i \in 1..MaxEntries: Bounded(d.entry[i], root.tx)
<1> DEFINE d == Written(n)
           last == Smaller(flushed + n, Len(log))
<1>1. log \in Seq(Entries) /\ Len(log) \in Nat /\ Len(log) <= MaxEntries /\ flushed \in 0..Len(log)
      /\ disk \in Images /\ disk \in media /\ MaxEntries \in Nat
  BY BoundsAssumption DEF IInv, TypeOK
<1>2. disk.head \in Nat /\ disk.head <= Len(log) /\ disk.entry \in [1..MaxEntries -> Entries \cup {None}]
      /\ \A i \in 1..disk.head: disk.entry[i] = log[i]
  BY <1>1, Zenon DEF IInv, Imaged, Holds, Images
<1>3. \A i \in 1..flushed: disk.entry[i] = log[i]
  BY DEF IInv, Imaged
<1>4. last \in Nat /\ last <= Len(log) /\ (n > Len(log) - flushed => last = Len(log))
  BY <1>1 DEF Smaller
<1>5. /\ d.entry = [i \in 1..MaxEntries |-> IF flushed < i /\ i <= last THEN log[i] ELSE disk.entry[i]]
      /\ d.head = IF n > Len(log) - flushed THEN Len(log) ELSE disk.head
      /\ d = [entry |-> d.entry, head |-> d.head]
  BY Zenon DEF Written
<1> HIDE DEF d, last
<1>6. \A i \in 1..MaxEntries: /\ flushed < i /\ i <= last => d.entry[i] = log[i] /\ i \in 1..Len(log)
                              /\ ~(flushed < i /\ i <= last) => d.entry[i] = disk.entry[i]
  BY <1>1, <1>4, <1>5
<1>7. d.entry \in [1..MaxEntries -> Entries \cup {None}]
  <2>1. ASSUME NEW i \in 1..MaxEntries PROVE d.entry[i] \in Entries \cup {None}
    <3>1. i \in 1..Len(log) => log[i] \in Entries
      BY <1>1
    <3> QED
      BY <1>2, <1>6, <3>1, Zenon
  <2>2. DOMAIN d.entry = 1..MaxEntries /\ d.entry = [i \in 1..MaxEntries |-> d.entry[i]]
    BY <1>5, Zenon
  <2> QED
    BY <2>1, <2>2, Zenon
<1>8. d.head \in {Len(log), disk.head} /\ d.head \in Nat /\ d.head <= Len(log) /\ d.head <= MaxEntries
  BY <1>1, <1>2, <1>5
<1>9. n = Len(log) - flushed + 1 => d.head = Len(log)
  BY <1>1, <1>5
<1>10. d \in Images
  BY <1>5, <1>7, <1>8, Zenon DEF Images
<1>11. \A i \in 1..flushed: d.entry[i] = log[i]
  BY <1>1, <1>3, <1>6
<1>12. ASSUME NEW i \in 1..d.head PROVE d.entry[i] = log[i]
  <2>1. i \in 1..MaxEntries /\ i \in 1..Len(log)
    BY <1>1, <1>8
  <2>2. CASE n > Len(log) - flushed
    BY <1>1, <1>3, <1>4, <1>6, <2>1, <2>2
  <2>3. CASE ~(n > Len(log) - flushed)
    <3>1. i \in 1..disk.head
      BY <1>5, <2>3, Zenon
    <3> QED
      BY <1>2, <1>6, <2>1, <3>1, Zenon
  <2> QED
    BY <2>2, <2>3
<1>13. ASSUME NEW i \in 1..MaxEntries PROVE Bounded(d.entry[i], root.tx)
  <2>1. CASE flushed < i /\ i <= last
    BY <1>6, <2>1, Zenon DEF IInv, Anchored
  <2>2. CASE ~(flushed < i /\ i <= last)
    BY <1>1, <1>6, <2>2, Zenon DEF IInv, Anchored
  <2> QED
    BY <2>1, <2>2
<1> QED
  BY <1>8, <1>9, <1>10, <1>11, <1>12, <1>13, Zenon DEF Holds, d

\* The puts of a flush, whether all of them succeed or not.
LEMMA FlushPutIInv ==
  ASSUME IInv, FlushPut
  PROVE  IInv'
<1>1. op.pc = "put"
      /\ UNCHANGED <<up, fenced, live, root, log, flushed, undo, hist, sure, plain, stale, unread>>
  BY Zenon DEF FlushPut
<1>2. up /\ ~fenced /\ op \in Operations /\ op.then \in {"install", "refused", "tick", "fsync"}
      /\ faults \in 0..MaxFaults /\ disk \in media /\ media \in SUBSET Images
  BY <1>1, Zenon DEF IInv, OpFormed, TypeOK
<1> DEFINE puts == Len(log) - flushed + 1
<1>3. PICK done \in 0..puts:
        /\ disk' = Written(done)
        /\ media' = media \cup {Written(k): k \in 0..done}
        /\ \/ done = puts /\ op' = Step("sync") /\ UNCHANGED faults
           \/ Failed
  BY Zenon DEF FlushPut
<1>4. puts \in Nat /\ done \in Nat /\ done \in 0..done /\ \A k \in 0..done: k \in 0..puts
  BY DEF IInv, TypeOK
<1>5. /\ op' \in Operations /\ faults' \in 0..MaxFaults /\ OpFormed' /\ op'.new = op.new
      /\ op'.then = "install" <=> op.then = "install"
      /\ op'.pc = "sync" => done = puts
      /\ op'.pc \in {"idle", "rollback", "sync"}
      /\ undo # None /\ op.new = None => op'.pc = "rollback" \/ Len(hist) > 1
  <2>1. CASE done = puts /\ op' = Step("sync") /\ UNCHANGED faults
    <3>1. op' \in Operations /\ op'.pc = "sync" /\ op'.then = op.then /\ op'.new = op.new
      BY <1>2, <2>1, Zenon DEF Step, Operations
    <3>2. OpFormed'
      BY <1>1, <1>2, <3>1, Zenon DEF OpFormed, IInv
    <3>3. undo # None /\ op.new = None => Len(hist) > 1
      BY <1>1, <1>2, Zenon DEF IInv, Delta
    <3> QED
      BY <1>2, <2>1, <3>1, <3>2, <3>3
  <2>2. CASE Failed
    BY <1>1, <2>2, FailedOp
  <2> QED
    BY <1>3, <2>1, <2>2, Zenon
<1> HIDE DEF puts
<1>6. \A d \in media': /\ d \in Images /\ Holds(d, log) /\ d.head <= MaxEntries
                       /\ d.head = Len(log) \/ \E x \in media: d.head = x.head
                       /\ \A i \in 1..MaxEntries: Bounded(d.entry[i], root.tx)
  <2> SUFFICES ASSUME NEW d \in media'
               PROVE  /\ d \in Images /\ Holds(d, log) /\ d.head <= MaxEntries
                      /\ d.head = Len(log) \/ \E x \in media: d.head = x.head
                      /\ \A i \in 1..MaxEntries: Bounded(d.entry[i], root.tx)
    BY Zenon
  <2>1. CASE d \in media
    BY <1>2, <2>1, Zenon DEF IInv, Imaged, Anchored
  <2>2. CASE d \notin media
    <3>1. PICK k \in 0..done: d = Written(k)
      BY <1>3, <2>2
    <3>2. k \in 0..Len(log) - flushed + 1
      BY <1>4 DEF puts
    <3>3. /\ d \in Images /\ Holds(d, log) /\ d.head <= MaxEntries
          /\ d.head \in {Len(log), disk.head}
          /\ \A i \in 1..MaxEntries: Bounded(d.entry[i], root.tx)
      BY <1>2, <3>1, <3>2, WrittenIs, Zenon
    <3> QED
      BY <1>2, <3>3
  <2> QED
    BY <2>1, <2>2, Zenon
<1>7. /\ disk' \in media' /\ media' \in SUBSET Images /\ disk' \in Images
      /\ op'.pc = "sync" => disk'.head = Len(log)
      /\ \A i \in 1..flushed: disk'.entry[i] = log[i]
  <2>1. disk' \in media'
    BY <1>3, <1>4
  <2>2. done \in 0..Len(log) - flushed + 1
    BY DEF puts
  <2>3. /\ done = puts => disk'.head = Len(log)
        /\ \A i \in 1..flushed: disk'.entry[i] = log[i]
    BY <1>2, <1>3, <2>2, WrittenIs, Zenon DEF puts
  <2> QED
    BY <1>5, <1>6, <2>1, <2>3, Zenon
<1>8. TypeOK'
  BY <1>1, <1>5, <1>7 DEF IInv, TypeOK
<1>9. Imaged' /\ Anchored'
  BY <1>1, <1>6, <1>7, Zenon DEF Imaged, Anchored, IInv
<1>10. Down' /\ History' /\ Rests'
  BY <1>1, <1>2, Zenon DEF IInv, Down, History, Rests
<1>11. Delta'
  BY <1>1, <1>5, Zenon DEF IInv, Delta
<1>12. Ahead' = Ahead
  BY <1>1, <1>5, Zenon DEF Ahead
<1>13. Metas'
  BY <1>1, <1>12 DEF IInv, Metas
<1>14. Tracks'
  <2> SUFFICES ASSUME ~plain, ~stale, ~unread PROVE Tracked(root, log, Ahead, media', sure, Slack')
    BY <1>1, <1>12 DEF Tracks
  <2>1. ~Slack
    BY <1>1, <1>2 DEF Slack
  <2>2. Tracked(root, log, Ahead, media, sure, FALSE)
    BY <1>2, <2>1, TrackedNow, Zenon
  <2>3. Tracked(root, log, Ahead, media', sure, FALSE)
    BY <1>6, <2>2, ImagesTracked, Zenon
  <2> QED
    BY <2>3, TrackedFirm, Zenon
<1> QED
  BY <1>5, <1>8, <1>9, <1>10, <1>11, <1>13, <1>14, Zenon DEF IInv

\* The sync of a flush makes the log durable, and the caller goes on.
LEMMA FlushSyncIInv ==
  ASSUME IInv, FlushSync
  PROVE  IInv'
<1>1. op.pc = "sync" /\ media' = {disk} /\ flushed' = Len(log)
      /\ UNCHANGED <<up, fenced, root, log, disk, undo, plain, stale, unread, faults>>
  BY Zenon DEF FlushSync
<1>2. up /\ ~fenced /\ op \in Operations /\ disk \in media /\ media \in SUBSET Images
      /\ log \in Seq(Entries) /\ hist \in Seq(States) /\ Len(log) \in Nat /\ Len(hist) \in Nat \ {0}
      /\ sure \in Nat
  BY <1>1 DEF IInv, OpFormed, TypeOK
<1>3. disk.head = Len(log) /\ Holds(disk, log) /\ disk.head <= MaxEntries
  BY <1>1, <1>2, ZenonT(60) DEF IInv, Imaged
<1>4. \A i \in 1..Len(log): disk.entry[i] = log[i]
  BY <1>3 DEF Holds
<1>5. Down' /\ Rests' /\ Anchored'
  BY <1>1, <1>2, ZenonT(60) DEF IInv, Down, Rests, Anchored
<1>6. ~Slack /\ (undo = None => op.new = None) /\ (undo # None /\ op.new = None => Len(hist) > 1)
  BY <1>1, <1>2, Zenon DEF Slack, IInv, Delta
<1>7. CASE op.then \in {"install", "refused"}
  <2>1. /\ live' = op.new /\ hist' = Append(hist, op.new)
        /\ sure' = IF op.then = "install" THEN Len(hist') ELSE Len(hist)
        /\ \/ op.then = "install" /\ op' = IdleOp
           \/ op' = [IdleOp EXCEPT !.pc = "commit", !.then = "forced"]
    BY <1>7, Zenon DEF FlushSync
  <2>2. op.new \in States /\ op.new # None /\ Formed(op.new) /\ op.new.gen = live.gen + 1
    BY <1>2, <1>7 DEF IInv, OpFormed, Operations
  <2>3. /\ hist' \in Seq(States) /\ Len(hist') = Len(hist) + 1 /\ Len(hist') > 1
        /\ Len(hist) \in Nat \ {0} /\ sure \in 1..Len(hist') /\ Len(hist) \in 1..Len(hist')
        /\ History' /\ hist'[1] = hist[1]
    BY <1>1, <1>2, <2>1, <2>2, InstalledHistory
  <2>4. op' \in Operations /\ op'.pc \in {"idle", "commit"} /\ op'.then \in {"none", "forced"}
        /\ op'.new = None /\ (op'.pc = "idle" => op' = IdleOp)
    <3>1. CASE op' = IdleOp
      BY <3>1, Idle
    <3>2. CASE op' = [IdleOp EXCEPT !.pc = "commit", !.then = "forced"]
      BY <3>2, Forced, Zenon
    <3> QED
      BY <2>1, <3>1, <3>2, Zenon
  <2>5. OpFormed'
    BY <1>1, <1>2, <2>4 DEF OpFormed
  <2>6. sure' \in 1..Len(hist') /\ flushed' \in 0..Len(log')
    BY <1>1, <1>2, <2>1, <2>3
  <2>7. TypeOK'
    BY <1>1, <1>2, <2>1, <2>2, <2>3, <2>4, <2>6, Zenon DEF IInv, TypeOK
  <2>8. Imaged'
    BY <1>1, <1>3, <1>4, <2>4 DEF Imaged
  <2>9. Delta'
    BY <1>1, <1>2, <1>6, <2>2, <2>3, <2>4, Zenon DEF IInv, Delta
  <2>10. Ahead' = Append(hist, op.new)
    BY <2>1, <2>4, Zenon DEF Ahead
  <2>11. Metas'
    <3> DEFINE z == Len(hist')
    <3>1. (Ahead = hist \/ Ahead = Append(hist, op.new)) /\ Len(Append(hist, op.new)) = Len(hist) + 1
      <4>1. hist \in Seq(States)
        BY <1>2, Zenon
      <4>2. Len(Append(hist, op.new)) = Len(hist) + 1
        BY <2>2, <4>1
      <4> QED
        BY <4>2, Zenon DEF Ahead
    <3>2. z \in Nat /\ Len(Ahead) <= z /\ Len(Ahead') = z
      BY <2>3, <2>10, <3>1
    <3> HIDE DEF z
    <3>3. \A k \in 1..Len(log): ~stale /\ log[k].kind # "pressure"
                                  => log[k].node.meta <= hist[1].gen + z - 1
      BY <3>2, MetasGrow
    <3> QED
      BY <1>1, <2>3, <3>2, <3>3 DEF Metas
  <2>12. Tracks'
    <3> SUFFICES ASSUME ~plain, ~stale, ~unread
                 PROVE  Tracked(root, log, Append(hist, op.new), {disk}, sure', Slack')
      BY <1>1, <2>10 DEF Tracks
    <3>1. Tracked(root, log, Ahead, media, sure, FALSE) /\ Ahead \in Seq(States)
      BY <1>2, <1>6, TrackedNow, AheadTyped, Zenon
    <3>2. Tracked(root, log, Ahead, {disk}, Len(Ahead), FALSE)
      BY <1>2, <1>3, <3>1, SyncedTracked, Zenon
    <3>3. CASE op.then = "install"
      <4>1. Ahead = Append(hist, op.new) /\ sure' = Len(Ahead)
        BY <2>1, <3>3 DEF Ahead
      <4> QED
        BY <3>2, <4>1, TrackedFirm, Zenon
    <3>4. CASE op.then # "install"
      <4>1. Ahead = hist /\ sure' = Len(hist) /\ op' = [IdleOp EXCEPT !.pc = "commit", !.then = "forced"]
        BY <2>1, <3>4 DEF Ahead
      <4>2. Slack'
        BY <4>1, Forced DEF Slack
      <4>3. Tracked(root, log, Append(hist, op.new), {disk}, Len(hist), TRUE)
        BY <1>2, <2>2, <3>2, <4>1, BehindTracked, Zenon
      <4> QED
        BY <4>1, <4>2, <4>3, TrackedFirm, Zenon
    <3> QED
      BY <3>3, <3>4, Zenon
  <2> QED
    BY <1>5, <2>3, <2>5, <2>7, <2>8, <2>9, <2>11, <2>12, Zenon DEF IInv
<1>8. CASE op.then \in {"tick", "fsync"}
  <2>1. sure' = Len(hist) /\ op' = (IF op.then = "fsync" THEN Step("commit") ELSE IdleOp)
        /\ UNCHANGED <<live, hist>>
    BY <1>8, Zenon DEF FlushSync
  <2>2. op.new = None
    BY <1>8 DEF IInv, OpFormed
  <2>3. op' \in Operations /\ op'.pc \in {"idle", "commit"} /\ op'.then \in {"none", "fsync"}
        /\ op'.new = None /\ (op'.pc = "idle" => op' = IdleOp)
    BY <1>2, <2>1, <2>2, Idle, Zenon DEF Step, Operations
  <2>4. OpFormed'
    BY <1>1, <1>2, <2>3, Zenon DEF OpFormed
  <2>5. sure' \in 1..Len(hist) /\ flushed' \in 0..Len(log')
    BY <1>1, <1>2, <2>1
  <2>6. TypeOK'
    BY <1>1, <1>2, <2>1, <2>3, <2>5, Zenon DEF IInv, TypeOK
  <2>7. Imaged'
    BY <1>1, <1>3, <1>4, <2>3, Zenon DEF Imaged
  <2>8. Delta'
    BY <1>1, <1>6, <2>1, <2>2, <2>3, Zenon DEF IInv, Delta
  <2>9. Ahead' = hist /\ Ahead = hist
    BY <1>8, <2>1, <2>3 DEF Ahead
  <2>10. History' /\ Metas'
    BY <1>1, <2>1, <2>9, Zenon DEF IInv, History, Metas
  <2>11. Tracks'
    <3> SUFFICES ASSUME ~plain, ~stale, ~unread PROVE Tracked(root, log, hist, {disk}, Len(hist), Slack')
      BY <1>1, <2>1, <2>9 DEF Tracks
    <3>1. Tracked(root, log, hist, media, sure, FALSE)
      BY <1>2, <1>6, <2>9, TrackedNow, Zenon
    <3>2. Tracked(root, log, hist, {disk}, Len(hist), FALSE)
      BY <1>2, <1>3, <3>1, SyncedTracked, Zenon
    <3> QED
      BY <3>2, TrackedFirm, Zenon
  <2> QED
    BY <1>5, <2>4, <2>6, <2>7, <2>8, <2>10, <2>11, Zenon DEF IInv
<1> QED
  BY <1>7, <1>8 DEF FlushSync

\* The root that is published has a later transaction and the published state.
LEMMA CommittedIs ==
  ASSUME NEW fs \in States, root \in [tx: Nat, fs: States], Committed(fs)
  PROVE  /\ root' \in [tx: Nat, fs: States] /\ root'.fs = fs
         /\ root.tx \in Nat /\ root'.tx \in Nat /\ root.tx <= root'.tx
<1>1. fs.gen \in Nat /\ root.tx \in Nat
  BY DEF States
<1>2. NextTransaction(fs) \in Nat /\ root.tx <= NextTransaction(fs)
  BY <1>1 DEF NextTransaction, Larger
<1>3. root' = [tx |-> NextTransaction(fs), fs |-> fs]
  BY DEF Committed
<1> QED
  BY <1>1, <1>2, <1>3

\* An entry stays bounded by the roots that follow.
LEMMA BoundedOn ==
  ASSUME NEW e \in Entries \cup {None}, NEW s \in Nat, NEW t \in Nat, s <= t, Bounded(e, s)
  PROVE  Bounded(e, t)
<1>1. CASE e = None
  BY <1>1 DEF Bounded
<1>2. CASE e # None
  <2>1. e.anchor \in Nat /\ e.anchor <= s
    BY <1>2 DEF Entries, Bounded
  <2> QED
    BY <2>1 DEF Bounded
<1> QED
  BY <1>1, <1>2

\* A root with the mounted state bounds what is logged.
LEMMA CommittedAnchors ==
  ASSUME IInv, up, Committed(live), media' \in SUBSET media, UNCHANGED log
  PROVE  /\ root' \in [tx: Nat, fs: States] /\ root'.fs = live
         /\ live \in States /\ Formed(live) /\ live.gen = hist[1].gen + Len(hist) - 1 /\ live.gen \in Nat
         /\ Anchored'
<1>1. live \in States /\ root \in [tx: Nat, fs: States] /\ log \in Seq(Entries)
      /\ media \in SUBSET Images /\ hist \in Seq(States) /\ Len(hist) \in Nat \ {0}
  BY DEF IInv, TypeOK
<1>2. /\ root' \in [tx: Nat, fs: States] /\ root'.fs = live
      /\ root.tx \in Nat /\ root'.tx \in Nat /\ root.tx <= root'.tx
  BY <1>1, CommittedIs, Zenon
<1>3. Formed(live) /\ live.gen = hist[1].gen + Len(hist) - 1 /\ live.gen \in Nat
  <2>1. live = hist[Len(hist)] /\ Len(hist) \in 1..Len(hist)
    BY <1>1 DEF IInv, History
  <2> QED
    BY <1>1, <2>1, Zenon DEF IInv, History, States
<1>4. Anchored'
  <2>1. ASSUME NEW k \in 1..Len(log) PROVE Bounded(log[k], root'.tx)
    <3>1. log[k] \in Entries /\ Bounded(log[k], root.tx)
      BY <1>1, Element, Zenon DEF IInv, Anchored
    <3> QED
      BY <1>2, <3>1, BoundedOn, Zenon
  <2>2. ASSUME NEW d \in media', NEW i \in 1..MaxEntries PROVE Bounded(d.entry[i], root'.tx)
    <3>1. d \in media /\ d \in Images
      BY <1>1
    <3>2. d.entry[i] \in Entries \cup {None} /\ Bounded(d.entry[i], root.tx)
      BY <3>1, Zenon DEF IInv, Anchored, Images
    <3> QED
      BY <1>2, <3>2, BoundedOn, Zenon
  <2> QED
    BY <2>1, <2>2, Zenon DEF Anchored
<1> QED
  BY <1>1, <1>2, <1>3, <1>4, Zenon

\* A root with the mounted state covers the log and is the whole history.
LEMMA CommittedIInv ==
  ASSUME IInv, up, op.new = None, Committed(live), hist' = <<live>>, sure' = 1, plain' = FALSE,
         media' \in SUBSET media, op'.pc # "sync", op'.new = None, op'.then # "install",
         UNCHANGED <<up, live, log, flushed, disk, stale>>
  PROVE  /\ root' \in [tx: Nat, fs: States] /\ hist' \in Seq(States) /\ Len(hist') = 1
         /\ Imaged' /\ Anchored' /\ History' /\ Metas' /\ Tracks'
<1>1. log \in Seq(Entries) /\ Len(log) \in Nat /\ media \in SUBSET Images
  BY DEF IInv, TypeOK
<1>2. root' \in [tx: Nat, fs: States] /\ root'.fs = live /\ live \in States
  BY CommittedAnchors, Zenon
<1>3. hist' \in Seq(States) /\ Len(hist') = 1 /\ hist'[1] = live
  BY <1>2
<1>4. Formed(live) /\ live.gen = hist[1].gen + Len(hist) - 1 /\ live.gen \in Nat
  BY CommittedAnchors, Zenon
<1>5. Imaged'
  BY Zenon DEF IInv, Imaged
<1>6. Anchored'
  BY CommittedAnchors, Zenon
<1>7. History'
  <2>1. \A j \in 1..1: Formed(hist'[j]) /\ hist'[j].gen = live.gen + j - 1
    BY <1>3, <1>4, Single, Zenon
  <2> QED
    BY <1>2, <1>3, <1>4, <2>1, Zenon DEF History
<1>8. Ahead = hist /\ Ahead' = <<live>> /\ Ahead' = hist' /\ Len(Ahead') = 1
  BY <1>3, Zenon DEF Ahead, IInv, OpFormed
<1>9. ASSUME ~stale, NEW k \in 1..Len(log) PROVE Covers(live, log[k])
  BY <1>4, <1>8, <1>9, Zenon DEF IInv, Metas, Covers
<1>10. Metas'
  <2>1. live.gen = live.gen + 1 - 1 /\ 1 \in 1..1
    BY <1>4, Single
  <2> QED
    BY <1>2, <1>3, <1>8, <1>9, <2>1, Zenon DEF Metas, Covers
<1>11. ~stale => Covered(root', log)
  <2> SUFFICES ASSUME ~stale, NEW k \in 1..Len(log) PROVE ~Selected(root', log[k])
    BY Zenon DEF Covered
  <2>1. log[k] \in Entries /\ Bounded(log[k], root'.tx) /\ Covers(root'.fs, log[k])
    <3>1. log[k] \in Entries
      BY <1>1, Element, Zenon
    <3> QED
      BY <1>2, <1>6, <1>9, <3>1, Zenon DEF Anchored
  <2> DEFINE r == root'
  <2>2. r \in [tx: Nat, fs: States] /\ Bounded(log[k], r.tx) /\ Covers(r.fs, log[k])
    BY <1>2, <2>1, Zenon
  <2> HIDE DEF r
  <2>3. ~Selected(r, log[k])
    BY <2>1, <2>2, EntryCovered, Zenon
  <2> QED
    BY <2>3, Zenon DEF r
<1>12. Tracks'
  <2> SUFFICES ASSUME ~stale PROVE Tracked(root', log, <<live>>, media', 1, Slack')
    BY <1>8, Zenon DEF Tracks
  <2>1. \A d \in media': d.head <= Len(log)
    BY Zenon DEF IInv, Imaged, Holds
  <2> DEFINE r == root'
             images == media'
  <2>2. Covered(r, log) /\ r.fs = live /\ images \in SUBSET Images /\ \A d \in images: d.head <= Len(log)
    BY <1>1, <1>2, <1>11, <2>1, Zenon
  <2> HIDE DEF r, images
  <2>3. Tracked(r, log, <<live>>, images, 1, FALSE)
    BY <1>1, <1>2, <2>2, CoveredTracked, Zenon
  <2> QED
    BY <2>3, TrackedFirm, Zenon DEF r, images
<1> QED
  BY <1>2, <1>3, <1>5, <1>6, <1>7, <1>10, <1>12, Zenon

\* The root is published.
LEMMA PublishIInv ==
  ASSUME IInv, Publish
  PROVE  IInv'
<1>1. op.pc = "commit" /\ Committed(live) /\ undo' = None
      /\ hist' = <<live>> /\ sure' = 1 /\ plain' = FALSE /\ unread' = FALSE /\ media' = {disk}
      /\ op' = [op EXCEPT !.pc = "post"]
      /\ UNCHANGED <<up, fenced, live, log, flushed, disk, stale, faults>>
  BY DEF Publish, Step
<1>2. up /\ ~fenced /\ op.new = None /\ op \in Operations /\ disk \in media /\ media \in SUBSET Images
  BY <1>1 DEF IInv, OpFormed, TypeOK
<1>3. op' \in Operations /\ op'.pc = "post" /\ op'.then = op.then /\ op'.new = None
      /\ op.then \notin {"install", "refused"}
  BY <1>1, <1>2 DEF Operations, IInv, OpFormed
<1>4. /\ root' \in [tx: Nat, fs: States] /\ hist' \in Seq(States) /\ Len(hist') = 1
      /\ Imaged' /\ Anchored' /\ History' /\ Metas' /\ Tracks'
  BY <1>1, <1>2, <1>3, CommittedIInv, Zenon
<1>5. sure' \in 1..Len(hist')
  BY <1>1, <1>4
<1>6. TypeOK'
  BY <1>1, <1>2, <1>3, <1>4, <1>5, Zenon DEF IInv, TypeOK
<1>7. OpFormed' /\ Down' /\ Rests'
  BY <1>1, <1>2, <1>3 DEF OpFormed, Down, Rests
<1>8. Delta'
  BY <1>1, <1>3, <1>4 DEF Delta
<1> QED
  BY <1>4, <1>6, <1>7, <1>8 DEF IInv

\* The root is published and cannot be read back: the delta stays.
LEMMA ReadBackFailsIInv ==
  ASSUME IInv, ReadBackFails
  PROVE  IInv'
<1>1. op.pc = "commit" /\ Committed(live) /\ media' = {disk} /\ unread' = TRUE /\ Failed
      /\ UNCHANGED <<up, fenced, live, log, flushed, disk, undo, hist, sure, plain, stale>>
  BY Zenon DEF ReadBackFails
<1>2. up /\ ~fenced /\ op.new = None /\ op \in Operations /\ disk \in media /\ media \in SUBSET Images
  BY <1>1 DEF IInv, OpFormed, TypeOK
<1>3. /\ op' \in Operations /\ faults' \in 0..MaxFaults
      /\ OpFormed' /\ op'.pc \in {"idle", "rollback"}
      /\ op'.new = op.new /\ (op'.then = "install" <=> op.then = "install")
      /\ undo # None /\ op.new = None => op'.pc = "rollback" \/ Len(hist) > 1
  BY <1>1, <1>2, FailedOp, Zenon
<1>4. media' \in SUBSET media
  BY <1>1, <1>2, Zenon
<1>5. /\ root' \in [tx: Nat, fs: States] /\ root'.fs = live /\ Formed(live) /\ Anchored'
  BY <1>1, <1>2, <1>4, CommittedAnchors, Zenon
<1>6. TypeOK'
  BY <1>1, <1>2, <1>3, <1>5, Zenon DEF IInv, TypeOK
<1>7. Down' /\ Rests' /\ Tracks'
  BY <1>1, <1>2, Zenon DEF Down, Rests, Tracks
<1>8. Imaged'
  BY <1>1, <1>2, <1>3, Zenon DEF IInv, Imaged
<1>9. History'
  BY <1>1, <1>5, Zenon DEF IInv, History
<1>10. Delta'
  BY <1>1, <1>2, <1>3, Zenon DEF IInv, Delta
<1>11. Metas'
  <2>1. Ahead' = hist /\ Ahead = hist
    BY <1>1, <1>2, <1>3, Zenon DEF Ahead, IInv, OpFormed
  <2> QED
    BY <1>1, <2>1, Zenon DEF IInv, Metas
<1> QED
  BY <1>3, <1>5, <1>6, <1>7, <1>8, <1>9, <1>10, <1>11, Zenon DEF IInv

\* The outcome of the publication is uncertain: the root is there or not, and
\* the mount is fenced.
LEMMA PublishUncertainIInv ==
  ASSUME IInv, PublishUncertain
  PROVE  IInv'
<1>1. op.pc = "commit" /\ faults < MaxFaults /\ faults' = faults + 1 /\ fenced' = TRUE /\ op' = IdleOp
      /\ UNCHANGED <<up, live, log, flushed, disk, media, undo, stale>>
  BY Zenon DEF PublishUncertain
<1>2. up /\ ~fenced /\ op.new = None /\ op \in Operations /\ op.then \notin {"install", "refused"}
  BY <1>1, CommitOp, Zenon DEF IInv, TypeOK
<1>3. faults' \in 0..MaxFaults
  BY <1>1, BoundsAssumption DEF IInv, TypeOK
<1>4. OpFormed' /\ Down' /\ Rests'
  BY <1>1, <1>2, Idle, Zenon DEF OpFormed, Down, Rests
<1>5. CASE Committed(live) /\ hist' = <<live>> /\ sure' = 1 /\ plain' = FALSE /\ unread' = FALSE
  <2>1. /\ root' \in [tx: Nat, fs: States] /\ hist' \in Seq(States) /\ Len(hist') = 1
        /\ Imaged' /\ Anchored' /\ History' /\ Metas' /\ Tracks'
    BY <1>1, <1>2, <1>5, Idle, CommittedIInv, Zenon
  <2>2. sure' \in 1..Len(hist')
    BY <1>5, <2>1
  <2>3. TypeOK'
    BY <1>1, <1>3, <1>5, <2>1, <2>2, Idle, Zenon DEF IInv, TypeOK
  <2>4. Delta'
    BY <1>1, <2>1, Idle, Zenon DEF Delta
  <2> QED
    BY <1>4, <2>1, <2>3, <2>4 DEF IInv
<1>6. CASE UNCHANGED <<root, hist, sure, plain, unread>>
  <2>1. TypeOK'
    BY <1>1, <1>3, <1>6, Idle DEF IInv, TypeOK
  <2>2. Imaged' /\ Anchored' /\ History'
    BY <1>1, <1>6, Idle, Zenon DEF IInv, Imaged, Anchored, History, Holds
  <2>3. Delta'
    BY <1>1, <1>2, <1>6, Idle, Zenon DEF IInv, Delta
  <2>4. Ahead = hist /\ Ahead' = hist /\ Slack'
    BY <1>1, <1>2, <1>6, Idle DEF Ahead, Slack
  <2>5. Metas'
    BY <1>1, <1>6, <2>4, Zenon DEF IInv, Metas
  <2>6. Tracks'
    <3> SUFFICES ASSUME ~plain, ~stale, ~unread PROVE Tracked(root, log, hist, media, sure, Slack')
      BY <1>1, <1>6, <2>4, ZenonT(60) DEF Tracks
    <3>1. Tracked(root, log, hist, media, sure, Slack)
      BY <1>2, <2>4 DEF IInv, Tracks
    <3> QED
      BY <2>4, <3>1, Zenon DEF Tracked
  <2> QED
    BY <1>4, <2>1, <2>2, <2>3, <2>5, <2>6, Zenon DEF IInv
<1> QED
  BY <1>5, <1>6, Zenon DEF PublishUncertain

\* After the root, nothing but one state is left to keep.
LEMMA PostFacts ==
  ASSUME IInv, op.pc = "post"
  PROVE  /\ up /\ ~fenced /\ undo = None /\ op.new = None /\ op.then \notin {"install", "refused"}
         /\ hist = <<hist[1]>> /\ (~unread => hist = <<root.fs>>) /\ Len(hist) = 1 /\ sure = 1 /\ ~plain /\ Ahead = hist
<1>1. up /\ ~fenced /\ undo = None
  BY Zenon DEF IInv, OpFormed, Delta
<1>2. Len(hist) = 1 /\ op.new = None /\ (~unread => hist[1] = root.fs) /\ hist \in Seq(States) /\ sure \in 1..Len(hist)
  BY <1>1, Zenon DEF IInv, Delta, History, TypeOK
<1>3. op.then \notin {"install", "refused"}
  BY <1>2, Zenon DEF IInv, OpFormed
<1>4. sure = 1 /\ hist = <<hist[1]>>
  BY <1>2
<1>6. ~unread => hist = <<root.fs>>
  BY <1>2, <1>4, Zenon
<1>5. ~plain
  <2>1. ~(Len(hist) > 1)
    BY <1>2
  <2> QED
    BY <2>1, Zenon DEF IInv, History
<1> QED
  BY <1>1, <1>2, <1>3, <1>4, <1>5, <1>6, Zenon DEF Ahead

\* The covered log is retired.
LEMMA RetireIInv ==
  ASSUME IInv, Retire
  PROVE  IInv'
<1>1. op.pc = "post" /\ op' = IdleOp /\ UNCHANGED <<up, fenced, live, root, undo, hist, sure, plain, unread>>
  BY DEF Retire
<1>2. /\ up /\ ~fenced /\ undo = None /\ op.new = None /\ op.then \notin {"install", "refused"}
      /\ hist = <<hist[1]>> /\ (~unread => hist = <<root.fs>>) /\ Len(hist) = 1 /\ sure = 1 /\ ~plain /\ Ahead = hist
  BY <1>1, PostFacts
<1>3. OpFormed'
  BY <1>1, Idle, Zenon DEF OpFormed
<1>4. CASE log = <<>>
  <2>1. Moves
    BY <1>1, <1>4, Idle DEF Retire, Moves, IInv, TypeOK
  <2> QED
    BY <1>1, <1>2, <1>3, <2>1, Idle, MovesStep, Zenon
<1>5. CASE Cleared
  <2>1. /\ disk' \in Images /\ media' \in SUBSET Images /\ disk' \in media'
        /\ faults' \in 0..MaxFaults /\ \A d \in media': Blank(d)
        /\ log' = <<>> /\ flushed' = 0 /\ stale' = FALSE
    BY <1>5, ClearedIs DEF IInv
  <2>2. log' \in Seq(Entries) /\ Len(log') <= MaxEntries /\ flushed' \in 0..Len(log')
    BY <2>1, BoundsAssumption
  <2>3. TypeOK'
    BY <1>1, <2>1, <2>2, Idle, Zenon DEF IInv, TypeOK
  <2>4. Imaged' /\ Anchored' /\ Metas' /\ Tracked(root, log', <<root.fs>>, media', 1, FALSE)
    BY <1>1, <1>5, Idle, ClearedImages, Zenon
  <2>5. Tracked(root, log', <<root.fs>>, media', 1, Slack')
    BY <2>4, TrackedFirm, Zenon
  <2>6. Ahead' = hist
    BY <1>1, <1>2, Idle DEF Ahead
  <2>7. Tracks'
    BY <1>1, <1>2, <2>5, <2>6, Zenon DEF Tracks
  <2>8. Down' /\ Rests' /\ History' /\ Delta'
    BY <1>1, <1>2, Idle, Zenon DEF Down, Rests, History, Delta, IInv
  <2> QED
    BY <1>3, <2>3, <2>4, <2>7, <2>8 DEF IInv
<1> QED
  BY <1>4, <1>5 DEF Retire

\* The covered log fails to be retired.
LEMMA RetireFailsIInv ==
  ASSUME IInv, RetireFails
  PROVE  IInv'
<1>1. op.pc = "post" /\ ClearFailed /\ op' = (IF op.then = "forced" THEN Step("rollback") ELSE IdleOp)
      /\ UNCHANGED <<up, fenced, live, root, undo, hist, sure, plain, stale, unread>>
  BY DEF RetireFails
<1>2. /\ up /\ ~fenced /\ undo = None /\ op.new = None /\ op.then \notin {"install", "refused"}
      /\ hist = <<hist[1]>> /\ (~unread => hist = <<root.fs>>) /\ Len(hist) = 1 /\ sure = 1 /\ ~plain /\ Ahead = hist
  BY <1>1, PostFacts
<1>3. op' \in Operations /\ op'.pc \in {"idle", "rollback"} /\ op'.then \in {"none", "forced"}
      /\ op'.new = None /\ (op'.pc = "idle" => op' = IdleOp)
  <2>1. op \in Operations
    BY DEF IInv, TypeOK
  <2> QED
    BY <1>1, <1>2, <2>1, Idle DEF Step, Operations
<1>4. /\ disk' \in Images /\ media' \in SUBSET Images /\ disk' \in media'
      /\ faults' \in 0..MaxFaults /\ UNCHANGED <<log, flushed>>
  BY <1>1, ClearFailedIs, Zenon DEF IInv
<1>5. TypeOK'
  BY <1>1, <1>3, <1>4 DEF IInv, TypeOK
<1>6. OpFormed' /\ Down' /\ Rests' /\ History' /\ Delta'
  BY <1>1, <1>2, <1>3, Zenon DEF OpFormed, Down, Rests, History, Delta, IInv
<1>7. Imaged' /\ Anchored'
  BY <1>1, <1>3, ClearFailedImages
<1>8. Ahead' = hist
  BY <1>1, <1>3, Zenon DEF Ahead
<1>9. Metas'
  BY <1>1, <1>2, <1>4, <1>8 DEF IInv, Metas
<1>10. Tracks'
  <2> SUFFICES ASSUME ~stale, ~unread PROVE Tracked(root, log, <<root.fs>>, media', 1, Slack')
    BY <1>1, <1>2, <1>4, <1>8, Zenon DEF Tracks
  <2>1. Covered(root, log) /\ log \in Seq(Entries)
    BY <1>2, LogCovered, Zenon DEF IInv, TypeOK
  <2>2. \A d \in media': d.head <= Len(log)
    BY <1>1, <1>2, <1>4, <1>7, Zenon DEF Imaged, Holds
  <2> DEFINE images == media'
  <2>3. images \in SUBSET Images /\ \A d \in images: d.head <= Len(log)
    BY <1>4, <2>2
  <2> HIDE DEF images
  <2>4. Tracked(root, log, <<root.fs>>, images, 1, FALSE)
    BY <2>1, <2>3, CoveredTracked, Zenon
  <2> QED
    BY <2>4, TrackedFirm, ZenonT(60) DEF images
<1> QED
  BY <1>5, <1>6, <1>7, <1>9, <1>10 DEF IInv

\* A crash leaves one of the images, and with it a state that was promised.
LEMMA CrashIInv ==
  ASSUME Leasts, IInv, Crash
  PROVE  IInv'
<1>1. up /\ ~up' /\ ~fenced' /\ disk' \in media /\ media' = {disk'} /\ live' = root.fs
      /\ log' = <<>> /\ flushed' = 0 /\ undo' = None /\ op' = IdleOp
      /\ hist' = (IF op.new = None THEN hist ELSE Append(hist, op.new))
      /\ UNCHANGED <<root, sure, plain, stale, unread>> /\ up' = FALSE /\ fenced' = FALSE
  BY Zenon DEF Crash
<1>2. faults' \in 0..MaxFaults
  BY BoundsAssumption DEF Crash, IInv, TypeOK
<1>3. log' \in Seq(Entries) /\ Len(log') <= MaxEntries /\ flushed' \in 0..Len(log') /\ Len(log') = 0
  BY <1>1, BoundsAssumption
<1>4. media \in SUBSET Images /\ root \in [tx: Nat, fs: States] /\ hist \in Seq(States)
      /\ sure \in 1..Len(hist) /\ log \in Seq(Entries) /\ op \in Operations
  BY DEF IInv, TypeOK
<1>5. hist' \in Seq(States) /\ sure \in 1..Len(hist') /\ History'
  <2>1. CASE op.new = None
    BY <1>1, <1>4, <2>1, Zenon DEF IInv, History
  <2>2. CASE op.new # None
    <3>1. op.new \in States /\ Formed(op.new) /\ op.new.gen = live.gen + 1
      BY <1>4, <2>2 DEF IInv, OpFormed, Operations
    <3> QED
      BY <1>1, <2>2, <3>1, InstalledHistory, Zenon
  <2> QED
    BY <2>1, <2>2
<1>6. TypeOK'
  BY <1>1, <1>2, <1>3, <1>4, <1>5, Idle, Zenon DEF IInv, TypeOK
<1>7. OpFormed' /\ Down' /\ Delta' /\ Tracks'
  BY <1>1, Idle, Zenon DEF OpFormed, Down, Delta, Tracks
<1>8. Imaged' /\ Anchored' /\ Metas'
  <2>1. Imaged'
    BY <1>1, Zenon DEF IInv, Imaged
  <2>2. \A k \in 1..Len(log'): FALSE
    BY <1>3
  <2>3. Anchored' /\ Metas'
    BY <1>1, <2>2, Zenon DEF IInv, Anchored, Metas
  <2> QED
    BY <2>1, <2>3
<1>9. Rests'
  <2> SUFFICES ASSUME ~plain, ~stale, ~unread
               PROVE  \E k \in sure..Len(hist'): Rebuild(root, disk') = hist'[k]
    BY <1>1, Zenon DEF Rests
  <2> DEFINE d == disk'
  <2>1. d \in media
    BY <1>1, Zenon
  <2> HIDE DEF d
  <2>2. PICK k \in sure..Len(Ahead): Rebuild(root, d) = Ahead[k]
    BY <1>1, <2>1, ImageRebuilt, Zenon
  <2>3. k \in sure..Len(hist') /\ Ahead[k] = hist'[k]
    <3>1. CASE op.then = "install"
      <4>1. hist' = Ahead
        BY <1>1, <3>1, Zenon DEF Ahead, IInv, OpFormed
      <4> QED
        BY <4>1, Zenon
    <3>2. CASE op.then # "install"
      <4>1. Ahead = hist
        BY <3>2, Zenon DEF Ahead
      <4>2. CASE op.new = None
        BY <1>1, <4>1, <4>2, Zenon
      <4>3. CASE op.new # None
        <5>1. op.new \in States /\ hist' = Append(hist, op.new)
          BY <1>1, <1>4, <4>3, Zenon DEF Operations
        <5>2. Len(hist') = Len(hist) + 1 /\ \A j \in 1..Len(hist): hist'[j] = hist[j]
          BY <1>4, <5>1
        <5>3. k \in 1..Len(hist)
          BY <1>4, <4>1
        <5> QED
          BY <1>4, <4>1, <5>2, <5>3
      <4> QED
        BY <4>2, <4>3
    <3> QED
      BY <3>1, <3>2
  <2> QED
    BY <2>2, <2>3, Zenon DEF d
<1> QED
  BY <1>5, <1>6, <1>7, <1>8, <1>9, Zenon DEF IInv

\* Recovery publishes what it replayed, and the root then covers the log it
\* read.
LEMMA RecoverIInv ==
  ASSUME Leasts, IInv, Recover
  PROVE  IInv'
<1> DEFINE fs == Rebuild(root, disk)
<1>1. ~up /\ fs # None /\ up' = TRUE /\ live' = fs /\ (IF fs = root.fs THEN UNCHANGED root ELSE Committed(fs))
      /\ log' = Loaded(disk) /\ flushed' = disk.head
      /\ op' = (IF disk.head = 0 THEN IdleOp ELSE [IdleOp EXCEPT !.pc = "post", !.then = "recover"])
      /\ hist' = <<fs>> /\ sure' = 1 /\ plain' = FALSE /\ stale' = FALSE /\ unread' = FALSE
      /\ UNCHANGED <<fenced, disk, media, undo, faults>>
  BY DEF Recover
<1>2. media = {disk} /\ undo = None /\ ~fenced
  BY <1>1, Zenon DEF IInv, Down
<1>3. root \in [tx: Nat, fs: States] /\ root.tx \in Nat /\ disk \in Images /\ disk.head \in Nat
      /\ disk.head <= MaxEntries /\ MaxEntries \in Nat
      /\ disk.entry \in [1..MaxEntries -> Entries \cup {None}]
  BY <1>2, BoundsAssumption DEF IInv, TypeOK, Images, Imaged
<1>4. Formed(root.fs)
  BY Zenon DEF IInv, History
<1>5. /\ fs \in States /\ Formed(fs)
      /\ \A i \in 1..disk.head: disk.entry[i] \in Entries /\ Covers(fs, disk.entry[i])
  BY <1>1, <1>3, <1>4, RebuildTyped, Zenon
<1> HIDE DEF fs
<1>6. root' \in [tx: Nat, fs: States] /\ root'.fs = fs /\ root'.tx \in Nat /\ root.tx <= root'.tx
  <2>1. CASE fs = root.fs
    BY <1>1, <1>3, <2>1
  <2>2. CASE fs # root.fs
    BY <1>1, <1>3, <1>5, <2>2, CommittedIs, Zenon
  <2> QED
    BY <2>1, <2>2
<1>7. Len(log') = disk.head /\ log' \in Seq(Entries) /\ \A k \in 1..disk.head: log'[k] = disk.entry[k]
  <2>1. log' = [k \in 1..disk.head |-> disk.entry[k]]
    BY <1>1, Zenon DEF Loaded
  <2> DEFINE n == disk.head
  <2>2. n \in Nat /\ log' \in [1..n -> Entries]
    BY <1>3, <1>5, <2>1
  <2> HIDE DEF n
  <2>3. log' \in Seq(Entries) /\ Len(log') = n
    BY <2>2
  <2> QED
    BY <2>1, <2>3, Zenon DEF n
<1>8. hist' \in Seq(States) /\ Len(hist') = 1 /\ hist'[1] = fs /\ fs.gen \in Nat
  BY <1>1, <1>5 DEF States
<1>9. op' \in Operations /\ op'.pc \in {"idle", "post"} /\ op'.then \in {"none", "recover"}
      /\ op'.new = None /\ (op'.pc = "idle" => op' = IdleOp)
  BY <1>1, Idle, Zenon DEF Operations
<1>10. TypeOK'
  <2>1. sure' \in 1..Len(hist') /\ flushed' \in 0..Len(log') /\ Len(log') <= MaxEntries
    BY <1>1, <1>3, <1>7, <1>8
  <2> QED
    BY <1>1, <1>2, <1>5, <1>6, <1>7, <1>8, <1>9, <2>1, ZenonT(60) DEF IInv, TypeOK
<1>11. OpFormed' /\ Down' /\ Rests' /\ Delta'
  BY <1>1, <1>2, <1>8, <1>9 DEF OpFormed, Down, Rests, Delta
<1>12. Imaged'
  <2>1. Holds(disk, log')
    BY <1>3, <1>7 DEF Holds
  <2> QED
    BY <1>1, <1>2, <1>3, <1>7, <1>9, <2>1, Zenon DEF Imaged
<1>13. Anchored'
  <2>1. ASSUME NEW i \in 1..MaxEntries PROVE Bounded(disk.entry[i], root'.tx)
    <3>1. disk.entry[i] \in Entries \cup {None} /\ Bounded(disk.entry[i], root.tx)
      BY <1>2, <1>3, Zenon DEF IInv, Anchored
    <3> QED
      BY <1>3, <1>6, <3>1, BoundedOn, Zenon
  <2>2. \A k \in 1..Len(log'): Bounded(log'[k], root'.tx)
    BY <1>3, <1>7, <2>1
  <2> QED
    BY <1>1, <1>2, <2>1, <2>2, Zenon DEF Anchored
<1>14. History'
  <2>1. \A j \in 1..Len(hist'): Formed(hist'[j]) /\ hist'[j].gen = fs.gen + j - 1
    BY <1>5, <1>8
  <2>2. live' = hist'[Len(hist')] /\ hist'[1] = root'.fs
    BY <1>1, <1>6, <1>8
  <2> QED
    BY <1>1, <1>5, <1>6, <1>8, <2>1, <2>2, Zenon DEF History
<1>15. Ahead' = <<fs>> /\ Len(Ahead') = 1
  BY <1>1, <1>9, Zenon DEF Ahead
<1>16. Metas'
  <2>1. \A k \in 1..Len(log'): log'[k].kind # "pressure" => log'[k].node.meta <= fs.gen + 1 - 1
    BY <1>5, <1>7, <1>8 DEF Covers
  <2> QED
    BY <1>8, <1>15, <2>1, Zenon DEF Metas
<1>17. Tracks'
  <2> DEFINE r == root'
             l == log'
  <2>1. Covered(r, l)
    <3> SUFFICES ASSUME NEW k \in 1..Len(l) PROVE ~Selected(r, l[k])
      BY Zenon DEF Covered
    <3>1. l[k] \in Entries /\ Bounded(l[k], r.tx) /\ Covers(r.fs, l[k]) /\ r \in [tx: Nat, fs: States]
      BY <1>5, <1>6, <1>7, <1>13, Zenon DEF Anchored
    <3> HIDE DEF r, l
    <3> QED
      BY <3>1, EntryCovered
  <2>2. l \in Seq(Entries) /\ {disk} \in SUBSET Images /\ \A d \in {disk}: d.head <= Len(l)
    BY <1>3, <1>7
  <2>3. r.fs = fs
    BY <1>6
  <2> HIDE DEF r, l
  <2>4. Tracked(r, l, <<fs>>, {disk}, 1, FALSE)
    BY <2>1, <2>2, <2>3, CoveredTracked, Zenon
  <2>5. Tracked(root', log', <<fs>>, {disk}, 1, Slack')
    BY <2>4, TrackedFirm, Zenon DEF r, l
  <2> QED
    BY <1>1, <1>2, <1>15, <2>5, Zenon DEF Tracks
<1> QED
  BY <1>10, <1>11, <1>12, <1>13, <1>14, <1>16, <1>17, Zenon DEF IInv

-----------------------------------------------------------------------------
(* What holds in every behaviour *)

LOCAL INSTANCE WellFoundedInduction

\* The natural numbers are well founded.
LEMMA Least == Leasts
<1> SUFFICES ASSUME NEW T \in SUBSET Nat, T # {} PROVE \E x \in T: \A y \in T: x <= y
  BY Zenon DEF Leasts
<1>1. IsWellFoundedOn(OpToRel(<, Nat), Nat)
  BY NatLessThanWellFounded, Zenon
<1>2. PICK x \in T : \A y \in T : ~ (<<y, x>> \in OpToRel(<, Nat))
  BY <1>1, WFMin, Zenon
<1>3. ASSUME NEW y \in Nat, NEW z \in Nat, y < z
      PROVE  <<y, z>> \in OpToRel(<, Nat)
  <2>1. <<y, z>> \in Nat \X Nat
    BY Zenon
  <2>2. <<y, z>>[1] < <<y, z>>[2]
    BY <1>3, Zenon
  <2> QED
    BY <2>1, <2>2, Zenon DEF OpToRel
<1>4. ASSUME NEW y \in T PROVE x <= y
  <2>1. ~(y < x)
    BY <1>2, <1>3, Zenon
  <2> QED
    BY <2>1, Order, Zenon
<1> QED
  BY <1>4, Zenon

\* Every step keeps the invariant.
LEMMA NextIInv == IInv /\ [Next]_vars => IInv'
<1> SUFFICES ASSUME IInv, [Next]_vars PROVE IInv'
  OBVIOUS
<1>1. ASSUME NEW p \in Inodes \cup {Root}, NEW n \in Names, Create(p, n) PROVE IInv'
  <2>1. live.next \in Inodes
    BY <1>1, Zenon DEF Create
  <2> QED
    BY <1>1, <2>1, MutationIInv, Zenon
<1>2. ASSUME NEW p \in Inodes \cup {Root}, NEW n \in Names, Mkdir(p, n) PROVE IInv'
  <2>1. live.next \in Inodes
    BY <1>2, Zenon DEF Mkdir
  <2> QED
    BY <1>2, <2>1, NamespaceIInv
<1>3. ASSUME NEW i \in Inodes, Setattr(i) PROVE IInv'
  <2>1. live.node[i] \in Nodes
    BY <1>3 DEF Setattr, IInv, TypeOK, States
  <2>2. live.node[i].parent \in Inodes \cup {Root} /\ live.node[i].name \in Names
    BY <2>1, Zenon DEF Nodes
  <2> QED
    BY <1>3, <2>2, MutationIInv, Zenon
<1>4. ASSUME NEW i \in Inodes, Unlink(i) PROVE IInv'
  <2>1. live.node[i] \in Nodes
    BY <1>4, Zenon DEF Unlink, IInv, TypeOK, States
  <2>2. live.node[i].parent \in Inodes \cup {Root} /\ live.node[i].name \in Names
    BY <2>1 DEF Nodes
  <2> QED
    BY <1>4, <2>2, NamespaceIInv
<1>5. ASSUME NEW p \in Inodes \cup {Root}, FsyncDirectory(p) PROVE IInv'
  BY <1>5, BeginsIInv, Zenon
<1>6. CASE FlushIfNeeded \/ Sync
  BY <1>6, BeginsIInv
<1>7. CASE FlushSyncFails \/ PublishFails \/ MaintainFails
  BY <1>7, FailsIInv, Zenon
<1>8. CASE UNCHANGED vars
  <2> USE <1>8 DEF vars
  <2>1. TypeOK' /\ Down' /\ Imaged' /\ Anchored' /\ History' /\ Rests'
    BY Zenon DEF IInv, TypeOK, Down, Imaged, Anchored, History, Rests, Holds
  <2>2. OpFormed' /\ Delta'
    BY Zenon DEF IInv, OpFormed, Delta
  <2>3. Ahead' = Ahead /\ Slack' = Slack
    BY DEF Ahead, Slack
  <2>4. Metas' /\ Tracks'
    BY <2>3, Zenon DEF IInv, Metas, Tracks
  <2> QED
    BY <2>1, <2>2, <2>4, Zenon DEF IInv
<1> QED
  BY <1>1, <1>2, <1>3, <1>4, <1>5, <1>6, <1>7, <1>8, AllocateRefusedIInv, RollbackIInv,
     FlushPutIInv, FlushSyncIInv, PublishIInv, ReadBackFailsIInv, PublishNothingIInv, PublishUncertainIInv,
     RetireIInv, RetireFailsIInv, Least, CrashIInv, RecoverIInv, ZenonT(60) DEF Next

\* Every state of the log and of its recovery has its type, whatever the
\* interleaving of operations, failing store calls and crashes.
THEOREM LogTyped == Spec => []TypeOK
<1>1. IInv => TypeOK
  BY DEF IInv
<1> QED
  BY <1>1, InitIInv, NextIInv, PTL DEF Spec

\* What a step of a mount does to the mounted state and to the root: it leaves
\* both, installs the next generation, publishes what is mounted, or rolls back.
LEMMA LiveSteps ==
  ASSUME IInv, [Next]_vars, up, up'
  PROVE  \/ UNCHANGED <<live, root>>
         \/ live'.gen = live.gen + 1 /\ UNCHANGED root
         \/ UNCHANGED live /\ root'.fs = live
         \/ Rollback
<1>0. live \in States /\ live.gen \in Nat
  BY Zenon DEF IInv, TypeOK, States
<1>1. ASSUME NEW new, new.gen = live.gen + 1, Install(new), UNCHANGED root
      PROVE  live'.gen = live.gen + 1 /\ UNCHANGED root
  BY <1>1, Zenon DEF Install
<1>2. ASSUME NEW node PROVE WithNew(live, node).gen = live.gen + 1
  BY Zenon DEF WithNew
<1>3. ASSUME NEW i, NEW node PROVE WithNode(live, i, node).gen = live.gen + 1
  BY <1>0 DEF WithNode, States
<1>4. ASSUME NEW e, NEW new, new.gen = live.gen + 1, Logged(e, new) \/ Unlogged(new)
      PROVE  UNCHANGED root /\ (UNCHANGED live \/ live'.gen = live.gen + 1)
  BY <1>1, <1>4, Zenon DEF Logged, Unlogged
<1>5. ASSUME NEW p \in Inodes \cup {Root}, NEW n \in Names, Create(p, n) \/ Mkdir(p, n)
      PROVE  UNCHANGED root /\ (UNCHANGED live \/ live'.gen = live.gen + 1)
  BY <1>2, <1>4, <1>5, Zenon DEF Create, Mkdir
<1>6. ASSUME NEW i \in Inodes, Setattr(i) \/ Unlink(i)
      PROVE  UNCHANGED root /\ (UNCHANGED live \/ live'.gen = live.gen + 1)
  BY <1>3, <1>4, <1>6, Zenon DEF Setattr, Unlink
<1>7. ASSUME NEW p \in Inodes \cup {Root}, FsyncDirectory(p) PROVE UNCHANGED <<live, root>>
  BY <1>7, Zenon DEF FsyncDirectory
<1>8. CASE FlushSync
  <2>1. op.then \in {"install", "refused"} => op.new.gen = live.gen + 1
    BY Zenon DEF IInv, OpFormed
  <2> QED
    BY <1>8, <2>1, Zenon DEF FlushSync
<1>9. CASE Publish \/ ReadBackFails \/ PublishUncertain
  <2>1. Committed(live) => root'.fs = live
    BY DEF Committed
  <2> QED
    BY <1>9, <2>1 DEF Publish, ReadBackFails, PublishUncertain
<1>10. CASE AllocateRefused \/ FlushIfNeeded \/ Sync \/ FlushPut \/ FlushSyncFails \/ PublishNothing
            \/ PublishFails \/ MaintainFails \/ Retire \/ RetireFails \/ UNCHANGED vars
  BY <1>10, Zenon DEF AllocateRefused, FlushIfNeeded, Sync, FlushPut, FlushSyncFails, PublishNothing,
                      PublishFails, MaintainFails, Retire, RetireFails, vars
<1>11. ~Crash /\ ~Recover
  BY Zenon DEF Crash, Recover
<1> QED
  BY <1>5, <1>6, <1>7, <1>8, <1>9, <1>10, <1>11, ZenonT(60) DEF Next

\* NotBehindRoot: no step of a mount takes the mounted state behind the root,
\* but the rollback of a forced commit whose root was published and could not
\* be read back (do_commit, force_commit, rollback_mutation_delta).
THEOREM NeverBehindRoot == Spec => NotBehindRoot
<1> DEFINE Keeps == up /\ up' /\ live.gen >= root.fs.gen
                      => live'.gen >= root'.fs.gen \/ (unread /\ undo # None /\ live' = undo.fs)
<1>1. IInv /\ [Next]_vars => Keeps
  <2> SUFFICES ASSUME IInv, [Next]_vars, up, up', live.gen >= root.fs.gen PROVE Keeps
    BY Zenon DEF Keeps
  <2>1. live.gen \in Nat /\ root.fs.gen \in Nat /\ live \in States /\ root.fs \in States
    <3>1. live \in States /\ root \in [tx: Nat, fs: States]
      BY Zenon DEF IInv, TypeOK
    <3> QED
      BY <3>1 DEF States
  <2>2. CASE UNCHANGED <<live, root>>
    BY <2>1, <2>2
  <2>3. CASE live'.gen = live.gen + 1 /\ UNCHANGED root
    BY <2>1, <2>3
  <2>4. CASE UNCHANGED live /\ root'.fs = live
    BY <2>1, <2>4
  <2>5. CASE Rollback
    <3>1. CASE undo = None
      BY <2>2, <2>5, <3>1, Zenon DEF Rollback
    <3>2. CASE undo # None /\ unread
      BY <2>5, <3>2, Zenon DEF Rollback
    <3>3. CASE undo # None /\ ~unread
      <4>1. live' = undo.fs /\ root' = root /\ op.pc = "rollback"
        BY <2>5, <3>3, Zenon DEF Rollback
      <4>2. ~fenced
        BY <4>1 DEF IInv, OpFormed
      <4>3. undo.fs = root.fs
        BY <3>3, <4>2, Zenon DEF IInv, Delta, History
      <4> QED
        BY <2>1, <4>1, <4>3
    <3> QED
      BY <3>1, <3>2, <3>3, Zenon
  <2> QED
    BY <2>2, <2>3, <2>4, <2>5, LiveSteps, Zenon
<1>2. IInv /\ [Next]_vars => [Keeps]_vars
  BY <1>1, Zenon
<1> HIDE DEF Keeps
<1>3. Spec => [][Keeps]_vars
  BY <1>2, InitIInv, NextIInv, PTL DEF Spec
<1> QED
  BY <1>3, PTL DEF NotBehindRoot, Keeps

\* AckedRebuilt: whatever a power loss leaves of the log, recovery accepts it
\* and rebuilds a state no older than the last one a flush or a commit made
\* durable (flush, do_commit, recover_canonical_committed_state).
THEOREM AckedStatesRebuilt == Spec => []AckedRebuilt
<1>1. IInv => AckedRebuilt
  <2> SUFFICES ASSUME IInv, ~plain, ~stale, ~unread, NEW d \in media
               PROVE  Rebuild(root, d) \in Expected
    BY Zenon DEF AckedRebuilt
  <2>1. CASE ~up
    <3>1. d = disk
      BY <2>1 DEF IInv, Down
    <3>2. \E k \in sure..Len(hist): Rebuild(root, disk) = hist[k]
      BY <2>1 DEF IInv, Rests
    <3> QED
      BY <3>1, <3>2, Zenon DEF Expected
  <2>2. CASE up
    <3>1. hist \in Seq(States)
      BY Zenon DEF IInv, TypeOK
    <3>2. PICK k \in sure..Len(Ahead): Rebuild(root, d) = Ahead[k]
      BY <2>2, Least, ImageRebuilt, Zenon
    <3>3. CASE k \in sure..Len(hist) /\ Ahead[k] = hist[k]
      BY <3>2, <3>3, Zenon DEF Expected
    <3>4. CASE ~(k \in sure..Len(hist) /\ Ahead[k] = hist[k])
      <4>1. op.then = "install" /\ Ahead = Append(hist, op.new)
        BY <3>4, Zenon DEF Ahead
      <4>2. op.new \in States /\ op.new # None
        BY <4>1, Zenon DEF IInv, OpFormed, TypeOK, Operations
      <4>3. Len(Ahead) = Len(hist) + 1 /\ Ahead[Len(hist) + 1] = op.new
            /\ \A j \in 1..Len(hist): Ahead[j] = hist[j]
        BY <3>1, <4>1, <4>2
      <4>4. sure \in 1..Len(hist) /\ Len(hist) \in Nat
        BY DEF IInv, TypeOK
      <4>5. k = Len(hist) + 1
        BY <3>4, <4>3, <4>4
      <4> QED
        BY <3>2, <4>2, <4>3, <4>5, Zenon DEF Expected
    <3> QED
      BY <3>3, <3>4, Zenon
  <2> QED
    BY <2>1, <2>2, Zenon
<1> QED
  BY <1>1, InitIInv, NextIInv, PTL DEF Spec

=============================================================================
