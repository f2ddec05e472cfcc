---------------------- MODULE PoolPublicationProofs -----------------------
(***************************************************************************)
(* Proofs about PoolPublication, for any set of objects and any bounds.    *)
(*                                                                         *)
(* The invariant that carries the argument says three things.  What the    *)
(* canonical key holds, what is in memory and what is being published all  *)
(* have their objects and the plans they still need in the store           *)
(* (StoredInv).  While the outcome of every publication is known, memory   *)
(* and the canonical key agree, so reclaim deletes against the durable     *)
(* root (SettledInv).  And two cursors never share a plan key, because the *)
(* key carries the generation that published it (OrderedInv): without that *)
(* the plan a completed cursor deletes could be one that is still needed.  *)
(***************************************************************************)
EXTENDS PoolPublication, TLAPS

CursorsStored(c, keys) ==
  \A i \in 1..Len(c.cursors) :
    c.cursors[i].todo # {} => c.cursors[i].plan \in keys

WellStored(c, keys) == c.live \subseteq keys /\ CursorsStored(c, keys)

Ordered(c) ==
  \A i \in 1..Len(c.cursors) :
    /\ c.cursors[i].plan.generation <= c.generation
    /\ \A j \in 1..(i - 1) :
         c.cursors[j].plan.generation < c.cursors[i].plan.generation

Publishing == job.pc \in {"stage", "root", "sync"}

StoredInv ==
  /\ WellStored(disk, stored)
  /\ open => WellStored(root, stored)
  /\ Publishing => WellStored(job.next, stored \cup job.puts)
  /\ job.pc \notin {"flush", "stage"} => job.puts = {}
  /\ job.pc = "flush" => job.done \subseteq stored

OrderedInv ==
  /\ Ordered(disk)
  /\ open => Ordered(root)
  /\ Publishing => Ordered(job.next)

SettledInv ==
  /\ open => acked = root
  /\ requires_reopen => open
  /\ job.pc # "idle" => open
  /\ job.pc \notin {"idle", "flush"} => ~requires_reopen
  /\ open /\ ~requires_reopen /\ job.pc # "sync" => disk = root
  /\ job.pc = "sync" => disk = job.next
  /\ Publishing => job.next.generation = root.generation + 1

\* What reclaim may drop from the cursors it publishes.
ForgetInv ==
  /\ job.pc = "stage" => PendingKeys(root) \subseteq PendingKeys(job.next)
  /\ job.pc = "root" =>
       \A k \in PendingKeys(root) \ PendingKeys(job.next) :
         k \notin stored \/ k \in job.next.live
  /\ job.pc = "reclaim" => \A k \in job.done : k \notin stored \/ k \in root.live

IInv == TypeOK /\ StoredInv /\ OrderedInv /\ SettledInv

----------------------------------------------------------------------------
(* Compositions *)

\* The composition of a fresh Pool is well formed whatever is stored.
LEMMA EmptyFacts ==
  ASSUME NEW keys
  PROVE  /\ EmptyComposition \in Compositions
         /\ WellStored(EmptyComposition, keys)
         /\ Ordered(EmptyComposition)
BY BoundsAssumption
DEF EmptyComposition, Compositions, WellStored, CursorsStored, Ordered, Generations

\* The idle job is a job.
LEMMA IdleJob == Idle \in Jobs
BY EmptyFacts, BoundsAssumption DEF Idle, Jobs

\* So is the reclaim loop, within its limit.
LEMMA ResumeJob ==
  ASSUME NEW limit \in 0..HandoffLimit
  PROVE  /\ ResumeReclaim(limit) \in Jobs
         /\ ResumeReclaim(limit).pc = "reclaim"
         /\ ResumeReclaim(limit).puts = {}
         /\ ResumeReclaim(limit).done = {}
BY EmptyFacts, BoundsAssumption, Zenon DEF ResumeReclaim, Idle, Jobs

\* The fields of a composition and of its cursors have their types.
LEMMA CompositionTypes ==
  ASSUME NEW c \in Compositions
  PROVE  /\ c.generation \in Generations
         /\ c.generation \in Int
         /\ c.live \in SUBSET Objects
         /\ c.cursors \in Seq(Cursors)
         /\ Len(c.cursors) \in Nat
         /\ \A i \in 1..Len(c.cursors) :
              /\ c.cursors[i] \in Cursors
              /\ c.cursors[i].plan \in Plans
              /\ c.cursors[i].todo \in SUBSET Objects
              /\ c.cursors[i].plan.generation \in Int
<1>1. /\ c.generation \in Generations
      /\ c.live \in SUBSET Objects
      /\ c.cursors \in Seq(Cursors)
  BY DEF Compositions
<1>2. c.generation \in Int
  BY <1>1, BoundsAssumption DEF Generations
<1>3. ASSUME NEW i \in 1..Len(c.cursors)
      PROVE  /\ c.cursors[i] \in Cursors
             /\ c.cursors[i].plan \in Plans
             /\ c.cursors[i].todo \in SUBSET Objects
             /\ c.cursors[i].plan.generation \in Int
  <2>1. c.cursors[i] \in Cursors
    BY <1>1
  <2>2. c.cursors[i].plan \in Plans /\ c.cursors[i].todo \in SUBSET Objects
    BY <2>1 DEF Cursors
  <2>3. c.cursors[i].plan.generation \in Generations
    BY <2>2 DEF Plans
  <2> QED
    BY <2>1, <2>2, <2>3, BoundsAssumption DEF Generations
<1> QED
  BY <1>1, <1>2, <1>3

\* A successor that keeps the cursors: create, flush, snapshot and the like.
LEMMA UpdateFacts ==
  ASSUME NEW c \in Compositions, NEW live \in SUBSET Objects,
         NEW puts, NEW keys,
         c.generation < MaxGeneration, WellStored(c, keys), Ordered(c),
         live \ puts \subseteq keys
  PROVE  LET next == [c EXCEPT !.generation = @ + 1, !.live = live]
         IN /\ next \in Compositions
            /\ next.generation = c.generation + 1
            /\ next.cursors = c.cursors
            /\ next.live = live
            /\ WellStored(next, keys \cup puts)
            /\ Ordered(next)
<1> DEFINE next == [c EXCEPT !.generation = @ + 1, !.live = live]
<1>1. c.generation + 1 \in Generations
  BY CompositionTypes, BoundsAssumption DEF Generations
<1>2. next \in Compositions
  BY <1>1, Zenon DEF Compositions
<1>3. /\ next.generation = c.generation + 1
      /\ next.cursors = c.cursors
      /\ next.live = live
  BY DEF Compositions
<1> HIDE DEF next
<1>4. WellStored(next, keys \cup puts)
  BY <1>3 DEF WellStored, CursorsStored
<1>5. Ordered(next)
  BY <1>3, CompositionTypes DEF Ordered
<1> QED
  BY <1>2, <1>3, <1>4, <1>5 DEF next

\* A successor that also gets a cursor, for a plan of its own generation.
LEMMA ReleaseFacts ==
  ASSUME NEW c \in Compositions, NEW live \in SUBSET c.live, NEW keys,
         c.generation < MaxGeneration, WellStored(c, keys), Ordered(c)
  PROVE  LET released == c.live \ live
             plan == [generation |-> c.generation + 1, keys |-> released]
             bumped == [c EXCEPT !.generation = @ + 1, !.live = live]
             next == [bumped EXCEPT !.cursors =
                        Append(@, [plan |-> plan, todo |-> released])]
         IN /\ plan \in Plans
            /\ next \in Compositions
            /\ next.generation = c.generation + 1
            /\ WellStored(next, keys \cup {plan})
            /\ Ordered(next)
            /\ PendingKeys(c) \subseteq PendingKeys(next)
<1> DEFINE released == c.live \ live
           plan == [generation |-> c.generation + 1, keys |-> released]
           bumped == [c EXCEPT !.generation = @ + 1, !.live = live]
           cursor == [plan |-> plan, todo |-> released]
           next == [bumped EXCEPT !.cursors = Append(@, cursor)]
<1>1. c.generation + 1 \in Generations /\ c.generation + 1 \in Int
  BY CompositionTypes, BoundsAssumption DEF Generations
<1>2. released \in SUBSET Objects /\ live \in SUBSET Objects
  BY CompositionTypes
<1>3. plan \in Plans
  BY <1>1, <1>2 DEF Plans
<1>4. cursor \in Cursors /\ cursor.plan = plan /\ plan.generation = c.generation + 1
  BY <1>2, <1>3 DEF Cursors
<1> HIDE DEF released, plan, cursor
<1>5. Append(c.cursors, cursor) \in Seq(Cursors)
  BY <1>4, CompositionTypes
<1>6. /\ next \in Compositions
      /\ next.generation = c.generation + 1
      /\ next.live = live
      /\ next.cursors = Append(c.cursors, cursor)
  BY <1>1, <1>2, <1>5, Zenon DEF Compositions
<1> HIDE DEF next
<1>7. /\ Len(next.cursors) = Len(c.cursors) + 1
      /\ \A i \in 1..Len(c.cursors) : next.cursors[i] = c.cursors[i]
      /\ next.cursors[Len(c.cursors) + 1] = cursor
  BY <1>4, <1>6, CompositionTypes
<1>8. \A i \in 1..Len(next.cursors) :
        i \in 1..Len(c.cursors) \/ i = Len(c.cursors) + 1
  BY <1>7, CompositionTypes
<1>9. WellStored(next, keys \cup {plan})
  BY <1>4, <1>6, <1>7, <1>8 DEF WellStored, CursorsStored
<1>10. Ordered(next)
  <2>1. ASSUME NEW i \in 1..Len(next.cursors)
        PROVE  /\ next.cursors[i].plan.generation <= next.generation
               /\ \A j \in 1..(i - 1) : next.cursors[j].plan.generation
                                          < next.cursors[i].plan.generation
    <3>1. CASE i \in 1..Len(c.cursors)
      <4>1. \A j \in 1..(i - 1) : j \in 1..Len(c.cursors)
        BY <3>1, CompositionTypes
      <4> QED
        BY <3>1, <4>1, <1>6, <1>7, CompositionTypes DEF Ordered
    <3>2. CASE i = Len(c.cursors) + 1
      <4>1. \A j \in 1..(i - 1) : j \in 1..Len(c.cursors)
        BY <3>2, CompositionTypes
      <4>2. next.cursors[i].plan.generation = c.generation + 1
        BY <3>2, <1>4, <1>7
      <4>3. \A j \in 1..(i - 1) : next.cursors[j].plan.generation <= c.generation
        BY <4>1, <1>7, Zenon DEF Ordered
      <4>4. \A j \in 1..(i - 1) : next.cursors[j].plan.generation \in Int
        BY <4>1, <1>7, CompositionTypes, Zenon
      <4> QED
        BY <4>2, <4>3, <4>4, <1>6, CompositionTypes
    <3> QED
      BY <3>1, <3>2, <1>8
  <2> QED
    BY <2>1 DEF Ordered
<1>11. PendingKeys(c) \subseteq PendingKeys(next)
  <2>1. \A i \in 1..Len(c.cursors) : i \in 1..Len(next.cursors)
    BY <1>7, CompositionTypes
  <2> QED
    BY <2>1, <1>7 DEF PendingKeys
<1> QED
  BY <1>3, <1>6, <1>9, <1>10, <1>11 DEF released, plan, cursor, next

\* The first cursor is advanced past the keys of `done`.
LEMMA AdvanceFacts ==
  ASSUME NEW c \in Compositions, NEW done, NEW keys, c.cursors # <<>>,
         c.generation < MaxGeneration, WellStored(c, keys), Ordered(c)
  PROVE  LET next == [c EXCEPT !.generation = @ + 1,
                               !.cursors[1].todo = @ \ done]
         IN /\ next \in Compositions
            /\ next.generation = c.generation + 1
            /\ next.live = c.live
            /\ WellStored(next, keys)
            /\ Ordered(next)
            /\ PendingKeys(c) \ PendingKeys(next) \subseteq done
<1> DEFINE first == [c.cursors[1] EXCEPT !.todo = @ \ done]
           cursors == [c.cursors EXCEPT ![1] = first]
           next == [c EXCEPT !.generation = @ + 1,
                             !.cursors[1].todo = @ \ done]
<1>1. c.generation + 1 \in Generations /\ c.generation + 1 \in Int
  BY CompositionTypes, BoundsAssumption DEF Generations
<1>2. 1 \in 1..Len(c.cursors)
  BY CompositionTypes
<1>3. c.cursors[1] \in Cursors
  BY <1>2, CompositionTypes
<1>4. /\ first \in Cursors
      /\ first.plan = c.cursors[1].plan
      /\ first.todo = c.cursors[1].todo \ done
  BY <1>3 DEF Cursors
<1> HIDE DEF first
<1>5. /\ cursors \in Seq(Cursors)
      /\ Len(cursors) = Len(c.cursors)
      /\ cursors[1] = first
      /\ \A i \in 1..Len(c.cursors) : i # 1 => cursors[i] = c.cursors[i]
  BY <1>2, <1>4, CompositionTypes
<1>6. /\ next \in Compositions
      /\ next.generation = c.generation + 1
      /\ next.live = c.live
      /\ next.cursors = cursors
  BY <1>1, <1>5, Zenon DEF Compositions, first
<1> HIDE DEF next, cursors
<1>7. \A i \in 1..Len(c.cursors) :
        /\ next.cursors[i].plan = c.cursors[i].plan
        /\ next.cursors[i].todo \subseteq c.cursors[i].todo
        /\ c.cursors[i].todo \ next.cursors[i].todo \subseteq done
  BY <1>4, <1>5, <1>6
<1>8. Len(next.cursors) = Len(c.cursors)
  BY <1>5, <1>6
<1>9. WellStored(next, keys)
  BY <1>6, <1>7, <1>8 DEF WellStored, CursorsStored
<1>10. Ordered(next)
  <2>1. \A i \in 1..Len(c.cursors) : \A j \in 1..(i - 1) : j \in 1..Len(c.cursors)
    BY CompositionTypes
  <2>2. \A i \in 1..Len(c.cursors) :
          /\ next.cursors[i].plan.generation <= c.generation
          /\ \A j \in 1..(i - 1) : next.cursors[j].plan.generation
                                     < next.cursors[i].plan.generation
    BY <2>1, <1>7, Zenon DEF Ordered
  <2>3. \A i \in 1..Len(c.cursors) :
          next.cursors[i].plan.generation <= next.generation
    BY <2>2, <1>6, <1>7, CompositionTypes
  <2> QED
    BY <2>2, <2>3, <1>8 DEF Ordered
<1>11. PendingKeys(c) \ PendingKeys(next) \subseteq done
  BY <1>7, <1>8 DEF PendingKeys
<1> QED
  BY <1>6, <1>9, <1>10, <1>11 DEF next

\* A completed first cursor is dropped and its plan deleted: no other cursor
\* needs that plan, because its generation is below theirs.
LEMMA FinishFacts ==
  ASSUME NEW c \in Compositions, NEW keys, c.cursors # <<>>,
         Head(c.cursors).todo = {}, WellStored(c, keys), Ordered(c)
  PROVE  LET plan == Head(c.cursors).plan
             next == [c EXCEPT !.generation = @ + 1, !.cursors = Tail(@)]
         IN /\ WellStored(c, keys \ {plan})
            /\ c.generation < MaxGeneration =>
                 /\ next \in Compositions
                 /\ next.generation = c.generation + 1
                 /\ next.live = c.live
                 /\ WellStored(next, keys \ {plan})
                 /\ Ordered(next)
                 /\ PendingKeys(c) \subseteq PendingKeys(next)
<1> DEFINE plan == Head(c.cursors).plan
           next == [c EXCEPT !.generation = @ + 1, !.cursors = Tail(@)]
<1>1. 1 \in 1..Len(c.cursors) /\ Head(c.cursors) = c.cursors[1]
  BY CompositionTypes
<1>2. plan = c.cursors[1].plan /\ plan \in Plans /\ c.cursors[1].todo = {}
  BY <1>1, CompositionTypes
<1> HIDE DEF plan
<1>3. c.live \subseteq keys \ {plan}
  BY <1>2, CompositionTypes, KeysAssumption DEF WellStored
<1>4. ASSUME NEW i \in 1..Len(c.cursors), i # 1
      PROVE  c.cursors[i].plan # plan
  <2>1. 1 \in 1..(i - 1)
    BY <1>4, CompositionTypes
  <2>2. c.cursors[1].plan.generation < c.cursors[i].plan.generation
    BY <2>1 DEF Ordered
  <2> QED
    BY <2>2, <1>1, <1>2, CompositionTypes
<1>5. WellStored(c, keys \ {plan})
  BY <1>2, <1>3, <1>4 DEF WellStored, CursorsStored
<1>6. ASSUME c.generation < MaxGeneration
      PROVE  /\ next \in Compositions
             /\ next.generation = c.generation + 1
             /\ next.live = c.live
             /\ WellStored(next, keys \ {plan})
             /\ Ordered(next)
             /\ PendingKeys(c) \subseteq PendingKeys(next)
  <2>1. c.generation + 1 \in Generations /\ c.generation + 1 \in Int
    BY <1>6, CompositionTypes, BoundsAssumption DEF Generations
  <2>2. /\ Tail(c.cursors) \in Seq(Cursors)
        /\ Len(Tail(c.cursors)) = Len(c.cursors) - 1
        /\ \A i \in 1..(Len(c.cursors) - 1) : Tail(c.cursors)[i] = c.cursors[i + 1]
    BY CompositionTypes
  <2>3. /\ next \in Compositions
        /\ next.generation = c.generation + 1
        /\ next.live = c.live
        /\ next.cursors = Tail(c.cursors)
    BY <2>1, <2>2, Zenon DEF Compositions
  <2> HIDE DEF next
  <2>4. \A i \in 1..Len(next.cursors) :
          /\ i + 1 \in 1..Len(c.cursors)
          /\ i + 1 # 1
          /\ next.cursors[i] = c.cursors[i + 1]
    BY <2>2, <2>3, CompositionTypes
  <2>5. WellStored(next, keys \ {plan})
    BY <2>3, <2>4, <1>5 DEF WellStored, CursorsStored
  <2>6. Ordered(next)
    <3>1. ASSUME NEW i \in 1..Len(next.cursors)
          PROVE  /\ next.cursors[i].plan.generation <= next.generation
                 /\ \A j \in 1..(i - 1) : next.cursors[j].plan.generation
                                            < next.cursors[i].plan.generation
      <4>1. next.cursors[i].plan.generation <= c.generation
        BY <2>4, Zenon DEF Ordered
      <4>2. \A j \in 1..(i - 1) :
              j \in 1..Len(next.cursors) /\ j + 1 \in 1..((i + 1) - 1)
        BY <2>2, <2>3, CompositionTypes
      <4>3. \A j \in 1..(i - 1) : c.cursors[j + 1].plan.generation
                                    < c.cursors[i + 1].plan.generation
        BY <2>4, <4>2 DEF Ordered
      <4> QED
        BY <4>1, <4>2, <4>3, <2>3, <2>4, CompositionTypes
    <3> QED
      BY <3>1, Zenon DEF Ordered
  <2>7. PendingKeys(c) \subseteq PendingKeys(next)
    <3>1. \A i \in 1..Len(c.cursors) : i # 1 =>
            /\ i - 1 \in 1..Len(next.cursors)
            /\ next.cursors[i - 1] = c.cursors[i]
      BY <2>2, <2>3, CompositionTypes
    <3> QED
      BY <3>1, <1>2, Zenon DEF PendingKeys
  <2> QED
    BY <2>3, <2>5, <2>6, <2>7
<1> QED
  BY <1>5, <1>6 DEF plan

----------------------------------------------------------------------------
(* Jobs *)

\* The fields of a job have their types.
LEMMA JobTypes ==
  ASSUME job \in Jobs
  PROVE  /\ job.pc \in {"idle", "flush", "stage", "root", "sync", "reclaim"}
         /\ job.next \in Compositions
         /\ job.puts \in SUBSET Keys
         /\ job.finish \in BOOLEAN
         /\ job.remaining \in 0..HandoffLimit
         /\ job.done \in SUBSET Objects
BY DEF Jobs

\* An operation that stages objects starts at "stage", or at "root" if it has
\* none to put.
LEMMA StagingJob ==
  ASSUME NEW next \in Compositions, NEW puts \in SUBSET Keys,
         NEW finish \in BOOLEAN
  PROVE  /\ Staging(next, puts, finish) \in Jobs
         /\ Staging(next, puts, finish).pc \in {"stage", "root"}
         /\ Staging(next, puts, finish).pc # "stage" => puts = {}
         /\ Staging(next, puts, finish).next = next
         /\ Staging(next, puts, finish).puts = puts
BY BoundsAssumption DEF Staging, Jobs

\* A publication of the reclaim loop starts at "root".
LEMMA AdvancingJob ==
  ASSUME NEW next \in Compositions, NEW finish \in BOOLEAN,
         NEW remaining \in 0..HandoffLimit
  PROVE  /\ Advancing(next, finish, remaining) \in Jobs
         /\ Advancing(next, finish, remaining).pc = "root"
         /\ Advancing(next, finish, remaining).next = next
         /\ Advancing(next, finish, remaining).puts = {}
BY DEF Advancing, Jobs

\* More stored keys never hurt a composition.
LEMMA StoredMonotone ==
  ASSUME NEW c, NEW keys, NEW more, keys \subseteq more, WellStored(c, keys)
  PROVE  WellStored(c, more)
BY DEF WellStored, CursorsStored

\* Deleting an object the composition does not reach leaves it well stored.
LEMMA DeleteFacts ==
  ASSUME NEW c \in Compositions, NEW keys, NEW k \in Objects,
         k \notin c.live, WellStored(c, keys)
  PROVE  WellStored(c, keys \ {k})
BY CompositionTypes, KeysAssumption DEF WellStored, CursorsStored

----------------------------------------------------------------------------
(* The invariant *)

\* A fresh Pool satisfies the invariant.
LEMMA InitIInv == Init => IInv
<1> SUFFICES ASSUME Init PROVE IInv
  OBVIOUS
<1>1. job \in Jobs /\ job.pc = "idle" /\ job.puts = {}
  BY IdleJob DEF Init, Idle
<1>2. TypeOK
  BY <1>1, EmptyFacts, Zenon DEF Init, TypeOK
<1>3. StoredInv
  BY <1>1, EmptyFacts DEF Init, StoredInv, Publishing
<1>4. OrderedInv
  BY <1>1, EmptyFacts DEF Init, OrderedInv, Publishing
<1>5. SettledInv
  BY <1>1 DEF Init, SettledInv, Publishing
<1> QED
  BY <1>2, <1>3, <1>4, <1>5 DEF IInv

\* An operation that begins satisfies it: what it will publish is well stored
\* once its puts are done.
LEMMA BeginIInv ==
  ASSUME IInv, open, ~requires_reopen, job.pc # "sync", NEW puts \in SUBSET Keys, NEW finish \in BOOLEAN,
         NEW next \in Compositions, next.generation = root.generation + 1,
         WellStored(next, stored \cup puts), Ordered(next),
         job' = Staging(next, puts, finish),
         UNCHANGED <<storage, open, root, requires_reopen, acked, attempt>>
  PROVE  IInv'
<1>1. /\ job' \in Jobs
      /\ job'.pc \in {"stage", "root"}
      /\ job'.pc # "stage" => job'.puts = {}
      /\ job'.next = next
      /\ job'.puts = puts
  BY StagingJob
<1>2. UNCHANGED <<stored, disk, open, root, requires_reopen, acked, attempt>>
  BY DEF storage
<1>3. TypeOK'
  BY <1>1, <1>2, Zenon DEF IInv, TypeOK
<1>4. StoredInv'
  BY <1>1, <1>2 DEF IInv, StoredInv, Publishing, WellStored, CursorsStored
<1>5. OrderedInv'
  BY <1>1, <1>2 DEF IInv, OrderedInv, Publishing, Ordered
<1>6. SettledInv'
  BY <1>1, <1>2 DEF IInv, SettledInv, Publishing
<1> QED
  BY <1>3, <1>4, <1>5, <1>6 DEF IInv

\* So does one that ends: the job is idle and the store has not lost a key that
\* the root or the canonical composition needs.
LEMMA IdleIInv ==
  ASSUME IInv, job' = Idle, stored' \in SUBSET Keys,
         WellStored(disk, stored'), open => WellStored(root, stored'),
         job.pc # "sync",
         UNCHANGED <<disk, open, root, requires_reopen, acked, attempt>>
  PROVE  IInv'
<1>1. job' \in Jobs /\ job'.pc = "idle" /\ job'.puts = {}
  BY IdleJob DEF Idle
<1>2. TypeOK'
  BY <1>1 DEF IInv, TypeOK
<1>3. StoredInv'
  BY <1>1, Zenon DEF IInv, StoredInv, Publishing, WellStored, CursorsStored
<1>4. OrderedInv'
  BY <1>1 DEF IInv, OrderedInv, Publishing, Ordered
<1>5. SettledInv'
  BY <1>1 DEF IInv, SettledInv, Publishing
<1> QED
  BY <1>2, <1>3, <1>4, <1>5 DEF IInv

\* And a publication made from the reclaim loop, whether it goes on to "root"
\* or finds the generation exhausted.
LEMMA ReclaimPublishIInv ==
  ASSUME IInv, job.pc = "reclaim", NEW next, NEW continue \in BOOLEAN,
         stored' \in SUBSET Keys, WellStored(root, stored'),
         root.generation < MaxGeneration =>
           /\ next \in Compositions
           /\ next.generation = root.generation + 1
           /\ WellStored(next, stored')
           /\ Ordered(next),
         PublishFromReclaim(next, continue),
         UNCHANGED <<disk, open, root, requires_reopen, acked, attempt>>
  PROVE  IInv'
<1>1. open /\ ~requires_reopen /\ disk = root
  BY DEF IInv, SettledInv
<1>2. CASE root.generation < MaxGeneration
  <2>1. job' = Advancing(next, continue, job.remaining)
    BY <1>2 DEF PublishFromReclaim
  <2>2. /\ job' \in Jobs
        /\ job'.pc = "root"
        /\ job'.next = next
        /\ job'.puts = {}
    BY <1>2, <2>1, AdvancingJob, JobTypes DEF IInv, TypeOK
  <2>3. TypeOK'
    BY <2>2 DEF IInv, TypeOK
  <2>4. StoredInv'
    BY <1>1, <1>2, <2>2, Zenon DEF IInv, StoredInv, Publishing, WellStored, CursorsStored
  <2>5. OrderedInv'
    BY <1>2, <2>2 DEF IInv, OrderedInv, Publishing, Ordered
  <2>6. SettledInv'
    BY <1>1, <1>2, <2>2 DEF IInv, SettledInv, Publishing
  <2> QED
    BY <2>3, <2>4, <2>5, <2>6 DEF IInv
<1>3. CASE ~(root.generation < MaxGeneration)
  <2>1. job' = Idle
    BY <1>3 DEF PublishFromReclaim
  <2> QED
    BY <1>1, <2>1, IdleIInv
<1> QED
  BY <1>2, <1>3

\* Every step preserves it, those of a torn put of the canonical root included.
LEMMA NextIInv == IInv /\ [Next]_vars => IInv'
<1> SUFFICES ASSUME IInv, [Next]_vars PROVE IInv'
  OBVIOUS
<1>0. /\ TypeOK /\ StoredInv /\ OrderedInv /\ SettledInv
      /\ job \in Jobs /\ root \in Compositions /\ disk \in Compositions
  BY Zenon DEF IInv, TypeOK
<1>1. ASSUME NEW live \in SUBSET Objects, NEW puts \in SUBSET live,
             BeginUpdate(live, puts)
      PROVE  IInv'
  <2> DEFINE next == [root EXCEPT !.generation = @ + 1, !.live = live]
  <2>1. /\ open /\ ~requires_reopen /\ root.generation < MaxGeneration
        /\ job.pc # "sync"
        /\ live \ puts \subseteq root.live
        /\ job' = Staging(next, puts, FALSE)
        /\ UNCHANGED <<storage, open, root, requires_reopen, acked, attempt>>
    BY <1>1 DEF BeginUpdate, MayBegin
  <2>2. WellStored(root, stored) /\ Ordered(root) /\ live \ puts \subseteq stored
    BY <1>0, <2>1 DEF StoredInv, OrderedInv, WellStored
  <2>3. /\ next \in Compositions
        /\ next.generation = root.generation + 1
        /\ WellStored(next, stored \cup puts)
        /\ Ordered(next)
    BY <1>0, <2>1, <2>2, UpdateFacts, Zenon
  <2>4. puts \in SUBSET Keys
    BY DEF Keys
  <2> HIDE DEF next
  <2> QED
    BY <2>1, <2>3, <2>4, BeginIInv, Zenon
<1>2. ASSUME NEW live \in SUBSET root.live, BeginRelease(live)
      PROVE  IInv'
  <2> DEFINE released == root.live \ live
             plan == [generation |-> root.generation + 1, keys |-> released]
             bumped == [root EXCEPT !.generation = @ + 1, !.live = live]
             next == [bumped EXCEPT !.cursors =
                        Append(@, [plan |-> plan, todo |-> released])]
  <2>1. /\ open /\ ~requires_reopen /\ root.generation < MaxGeneration
        /\ job.pc # "sync"
        /\ UNCHANGED <<storage, open, root, requires_reopen, acked, attempt>>
    BY <1>2 DEF BeginRelease, MayBegin
  <2>2. job' = IF released = {} THEN Staging(bumped, {}, TRUE)
                                ELSE Staging(next, {plan}, TRUE)
    BY <1>2, Zenon DEF BeginRelease
  <2>3. WellStored(root, stored) /\ Ordered(root)
    BY <1>0, <2>1 DEF StoredInv, OrderedInv
  <2>4. CASE released = {}
    <3>1. live \in SUBSET Objects /\ live \ {} \subseteq stored
      BY <1>0, <2>3, CompositionTypes DEF WellStored
    <3>2. /\ bumped \in Compositions
          /\ bumped.generation = root.generation + 1
          /\ WellStored(bumped, stored \cup {})
          /\ Ordered(bumped)
      BY <1>0, <2>1, <2>3, <3>1, UpdateFacts, Zenon
    <3> HIDE DEF bumped
    <3> QED
      BY <2>1, <2>2, <2>4, <3>2, BeginIInv, Zenon
  <2>5. CASE released # {}
    <3>1. /\ plan \in Plans
          /\ next \in Compositions
          /\ next.generation = root.generation + 1
          /\ WellStored(next, stored \cup {plan})
          /\ Ordered(next)
      BY <1>0, <2>1, <2>3, ReleaseFacts, Zenon
    <3>2. {plan} \in SUBSET Keys
      BY <3>1 DEF Keys
    <3>3. job' = Staging(next, {plan}, TRUE)
      BY <2>2, <2>5, Zenon
    <3> HIDE DEF next, plan
    <3> QED
      BY <2>1, <3>1, <3>2, <3>3, BeginIInv, Zenon
  <2> QED
    BY <2>4, <2>5
<1>3. ASSUME NEW k \in Keys, PutObject(k)
      PROVE  IInv'
  <2>1. /\ job.pc = "stage" /\ k \in job.puts
        /\ stored' = stored \cup {k}
        /\ UNCHANGED <<disk, open, root, requires_reopen, acked, attempt>>
    BY <1>3 DEF PutObject
  <2>2. /\ job' \in Jobs
        /\ job'.next = job.next
        /\ job'.puts = job.puts \ {k}
        /\ job'.pc \in {"stage", "root"}
        /\ job'.pc # "stage" => job'.puts = {}
    BY <1>0, <1>3, <2>1, Zenon DEF PutObject, Jobs
  <2>3. stored' \cup job'.puts = stored \cup job.puts
    BY <2>1, <2>2
  <2>4. TypeOK'
    BY <1>0, <2>1, <2>2, Zenon DEF TypeOK
  <2>5. StoredInv'
    <3>1. WellStored(job.next, stored \cup job.puts)
      BY <1>0, <2>1 DEF StoredInv, Publishing
    <3>2. WellStored(disk, stored') /\ (open => WellStored(root, stored'))
      BY <1>0, <2>1, StoredMonotone, Zenon DEF StoredInv
    <3> QED
      BY <2>1, <2>2, <2>3, <3>1, <3>2
      DEF StoredInv, Publishing, WellStored, CursorsStored
  <2>6. OrderedInv'
    BY <1>0, <2>1, <2>2 DEF OrderedInv, Publishing, Ordered
  <2>7. SettledInv'
    BY <1>0, <2>1, <2>2 DEF SettledInv, Publishing
  <2> QED
    BY <2>4, <2>5, <2>6, <2>7 DEF IInv
<1>4. ASSUME NEW k \in Keys, PutObjectFails(k)
      PROVE  IInv'
  <2>1. /\ job.pc # "sync" /\ job' = Idle
        /\ stored \subseteq stored' /\ stored' \in SUBSET Keys
        /\ UNCHANGED <<disk, open, root, requires_reopen, acked, attempt>>
    BY <1>0, <1>4 DEF PutObjectFails, TypeOK
  <2>2. WellStored(disk, stored') /\ (open => WellStored(root, stored'))
    BY <1>0, <2>1, StoredMonotone DEF StoredInv
  <2> QED
    BY <2>1, <2>2, IdleIInv
<1>5. ASSUME Refuse \/ RefuseFlush \/ ReclaimStops PROVE IInv'
  <2>1. /\ job.pc # "sync" /\ job' = Idle
        /\ UNCHANGED <<stored, disk, open, root, requires_reopen, acked, attempt>>
    BY <1>5 DEF Refuse, RefuseFlush, ReclaimStops, storage
  <2>2. /\ stored' \in SUBSET Keys
        /\ WellStored(disk, stored') /\ (open => WellStored(root, stored'))
    BY <1>0, <2>1 DEF StoredInv, TypeOK
  <2> QED
    BY <2>1, <2>2, IdleIInv
<1>6. ASSUME PutRoot PROVE IInv'
  <2>1. /\ job.pc = "root" /\ job.puts = {}
        /\ disk' = job.next /\ attempt' = job.next
        /\ UNCHANGED <<stored, open, root, requires_reopen, acked>>
    BY <1>0, <1>6 DEF PutRoot, StoredInv
  <2>2. /\ job' \in Jobs
        /\ job'.pc = "sync" /\ job'.puts = {} /\ job'.next = job.next
    BY <1>0, <1>6, <2>1 DEF PutRoot, Jobs
  <2>3. TypeOK'
    BY <1>0, <2>1, <2>2, JobTypes, Zenon DEF TypeOK
  <2>4. StoredInv'
    <3>1. WellStored(job.next, stored \cup {})
      BY <1>0, <2>1 DEF StoredInv, Publishing
    <3>2. open => WellStored(root, stored)
      BY <1>0, Zenon DEF StoredInv
    <3> QED
      BY <2>1, <2>2, <3>1, <3>2 DEF StoredInv, Publishing, WellStored, CursorsStored
  <2>5. OrderedInv'
    BY <1>0, <2>1, <2>2 DEF OrderedInv, Publishing, Ordered
  <2>6. SettledInv'
    BY <1>0, <2>1, <2>2 DEF SettledInv, Publishing
  <2> QED
    BY <2>3, <2>4, <2>5, <2>6 DEF IInv
<1>7. ASSUME PutRootFails PROVE IInv'
  <2>1. /\ job.pc = "root" /\ job.puts = {} /\ open
        /\ disk' \in {disk, job.next} /\ attempt' = job.next
        /\ requires_reopen' = TRUE /\ job' = Idle
        /\ UNCHANGED <<stored, open, root, acked>>
    BY <1>0, <1>7 DEF PutRootFails, StoredInv, SettledInv
  <2>2. job' \in Jobs /\ job'.pc = "idle" /\ job'.puts = {}
    BY <2>1, IdleJob DEF Idle
  <2>3. TypeOK'
    BY <1>0, <2>1, <2>2, JobTypes, Zenon DEF TypeOK
  <2>4. StoredInv'
    <3>1. WellStored(job.next, stored \cup {})
      BY <1>0, <2>1 DEF StoredInv, Publishing
    <3>2. WellStored(disk, stored) /\ WellStored(root, stored)
      BY <1>0, <2>1, Zenon DEF StoredInv
    <3> QED
      BY <2>1, <2>2, <3>1, <3>2 DEF StoredInv, Publishing, WellStored, CursorsStored
  <2>5. OrderedInv'
    BY <1>0, <2>1, <2>2, Zenon DEF OrderedInv, Publishing, Ordered
  <2>6. SettledInv'
    BY <1>0, <2>1, <2>2, Zenon DEF SettledInv, Publishing
  <2> QED
    BY <2>3, <2>4, <2>5, <2>6 DEF IInv
<1>8. ASSUME SyncRoot PROVE IInv'
  <2>1. /\ job.pc = "sync" /\ open /\ ~requires_reopen /\ disk = job.next
        /\ root' = job.next /\ acked' = job.next
        /\ UNCHANGED <<stored, disk, open, requires_reopen, attempt>>
    BY <1>0, <1>8 DEF SyncRoot, storage, SettledInv
  <2>2. job' \in {ResumeReclaim(job.remaining), Idle}
    BY <1>8 DEF SyncRoot
  <2>3. job' \in Jobs /\ job'.pc \in {"idle", "reclaim"} /\ job'.puts = {}
    <3>1. Idle \in Jobs /\ Idle.pc = "idle" /\ Idle.puts = {}
      BY IdleJob DEF Idle
    <3>2. job.remaining \in 0..HandoffLimit
      BY <1>0, JobTypes
    <3> QED
      BY <2>2, <3>1, <3>2, ResumeJob
  <2>4. TypeOK'
    BY <1>0, <2>1, <2>3, JobTypes, Zenon DEF TypeOK
  <2>5. StoredInv'
    BY <1>0, <2>1, <2>3, Zenon DEF StoredInv, Publishing, WellStored, CursorsStored
  <2>6. OrderedInv'
    BY <1>0, <2>1, <2>3, Zenon DEF OrderedInv, Publishing, Ordered
  <2>7. SettledInv'
    BY <1>0, <2>1, <2>3 DEF SettledInv, Publishing
  <2> QED
    BY <2>4, <2>5, <2>6, <2>7 DEF IInv
<1>9. ASSUME SyncRootFails PROVE IInv'
  <2>1. /\ open /\ requires_reopen' = TRUE /\ job' = Idle
        /\ UNCHANGED <<stored, disk, open, root, acked, attempt>>
    BY <1>0, <1>9 DEF SyncRootFails, storage, SettledInv
  <2>2. job' \in Jobs /\ job'.pc = "idle" /\ job'.puts = {}
    BY <2>1, IdleJob DEF Idle
  <2>3. TypeOK'
    BY <1>0, <2>1, <2>2, Zenon DEF TypeOK
  <2>4. StoredInv'
    BY <1>0, <2>1, <2>2, Zenon DEF StoredInv, Publishing, WellStored, CursorsStored
  <2>5. OrderedInv'
    BY <1>0, <2>1, <2>2 DEF OrderedInv, Publishing, Ordered
  <2>6. SettledInv'
    BY <1>0, <2>1, <2>2 DEF SettledInv, Publishing
  <2> QED
    BY <2>3, <2>4, <2>5, <2>6 DEF IInv
<1>10. job.pc = "reclaim" =>
         /\ open /\ disk = root
         /\ WellStored(root, stored) /\ Ordered(root)
  BY <1>0 DEF SettledInv, StoredInv, OrderedInv
<1>11. ASSUME NEW k \in Objects, HandOff(k)
       PROVE  IInv'
  <2>1. /\ job.pc = "reclaim" /\ job.remaining > 0
        /\ stored' = IF k \in root.live THEN stored ELSE stored \ {k}
        /\ UNCHANGED <<disk, open, root, requires_reopen, acked, attempt>>
    BY <1>11 DEF HandOff, Handing, InReclaim
  <2>2. job.remaining - 1 \in 0..HandoffLimit
    BY <1>0, <2>1, JobTypes, BoundsAssumption
  <2>3. /\ job' \in Jobs
        /\ job'.pc = "reclaim" /\ job'.puts = job.puts
    BY <1>0, <1>11, <2>1, <2>2, Zenon DEF HandOff, Jobs
  <2>4. WellStored(root, stored')
    BY <1>0, <1>10, <2>1, DeleteFacts
  <2>5. TypeOK'
    BY <1>0, <2>1, <2>3, Zenon DEF TypeOK
  <2>6. StoredInv'
    BY <1>0, <1>10, <2>1, <2>3, <2>4, Zenon
    DEF StoredInv, Publishing, WellStored, CursorsStored
  <2>7. OrderedInv'
    BY <1>0, <2>1, <2>3 DEF OrderedInv, Publishing, Ordered
  <2>8. SettledInv'
    BY <1>0, <2>1, <2>3, Zenon DEF SettledInv, Publishing
  <2> QED
    BY <2>5, <2>6, <2>7, <2>8 DEF IInv
<1>12. InReclaim /\ root.generation < MaxGeneration =>
         \A keys : WellStored(root, keys) =>
           /\ AdvancedRoot \in Compositions
           /\ AdvancedRoot.generation = root.generation + 1
           /\ WellStored(AdvancedRoot, keys)
           /\ Ordered(AdvancedRoot)
  BY <1>0, <1>10, AdvanceFacts, Zenon DEF AdvancedRoot, InReclaim
<1>13. ASSUME NEW k \in Objects, HandOffFails(k)
       PROVE  IInv'
  <2>1. /\ InReclaim /\ job.pc = "reclaim" /\ k \notin root.live
        /\ stored' \in {stored, stored \ {k}}
        /\ job' = Idle \/ PublishFromReclaim(AdvancedRoot, FALSE)
        /\ UNCHANGED <<disk, open, root, requires_reopen, acked, attempt>>
    BY <1>13, Zenon DEF HandOffFails, Handing, InReclaim
  <2>2. stored' \in SUBSET Keys /\ WellStored(root, stored')
    BY <1>0, <1>10, <2>1, DeleteFacts DEF TypeOK
  <2>3. CASE job' = Idle
    BY <1>10, <2>1, <2>2, <2>3, IdleIInv
  <2>4. CASE PublishFromReclaim(AdvancedRoot, FALSE)
    BY <1>12, <2>1, <2>2, <2>4, ReclaimPublishIInv, Zenon
  <2> QED
    BY <2>1, <2>3, <2>4, Zenon
<1>14. ASSUME AdvanceCursor PROVE IInv'
  <2>1. /\ InReclaim /\ job.pc = "reclaim"
        /\ PublishFromReclaim(AdvancedRoot, TRUE)
        /\ UNCHANGED <<stored, disk, open, root, requires_reopen, acked, attempt>>
    BY <1>14, Zenon DEF AdvanceCursor, InReclaim, storage
  <2>2. stored' \in SUBSET Keys /\ WellStored(root, stored')
    BY <1>0, <1>10, <2>1 DEF TypeOK
  <2> QED
    BY <1>12, <2>1, <2>2, ReclaimPublishIInv, Zenon
<1>15. ASSUME FinishPlan PROVE IInv'
  <2> DEFINE next == [root EXCEPT !.generation = @ + 1, !.cursors = Tail(@)]
  <2>1. /\ job.pc = "reclaim" /\ root.cursors # <<>> /\ First.todo = {}
        /\ stored' = stored \ {First.plan}
        /\ PublishFromReclaim(next, TRUE)
        /\ UNCHANGED <<disk, open, root, requires_reopen, acked, attempt>>
    BY <1>15, Zenon DEF FinishPlan, InReclaim
  <2>2. /\ WellStored(root, stored')
        /\ root.generation < MaxGeneration =>
             /\ next \in Compositions
             /\ next.generation = root.generation + 1
             /\ WellStored(next, stored')
             /\ Ordered(next)
    BY <1>0, <1>10, <2>1, FinishFacts, Zenon DEF First
  <2>3. stored' \in SUBSET Keys
    BY <1>0, <2>1 DEF TypeOK
  <2> HIDE DEF next
  <2> QED
    BY <2>1, <2>2, <2>3, ReclaimPublishIInv, Zenon
<1>16. ASSUME FinishPlanFails PROVE IInv'
  <2>1. /\ job.pc = "reclaim" /\ root.cursors # <<>> /\ First.todo = {}
        /\ stored' \in {stored, stored \ {First.plan}} /\ job' = Idle
        /\ UNCHANGED <<disk, open, root, requires_reopen, acked, attempt>>
    BY <1>16, Zenon DEF FinishPlanFails, InReclaim
  <2>2. WellStored(root, stored \ {First.plan})
    BY <1>0, <1>10, <2>1, FinishFacts, Zenon DEF First
  <2>3. stored' \in SUBSET Keys /\ WellStored(root, stored')
    BY <1>0, <1>10, <2>1, <2>2, Zenon DEF TypeOK
  <2> QED
    BY <1>10, <2>1, <2>3, IdleIInv
<1>17. ASSUME Crash PROVE IInv'
  <2>1. /\ open' = FALSE /\ root' = EmptyComposition /\ requires_reopen' = FALSE
        /\ job' = Idle
        /\ UNCHANGED <<stored, disk, acked, attempt>>
    BY <1>17 DEF Crash, storage
  <2>2. job' \in Jobs /\ job'.pc = "idle" /\ job'.puts = {}
    BY <2>1, IdleJob DEF Idle
  <2>3. TypeOK'
    BY <1>0, <2>1, <2>2, EmptyFacts, Zenon DEF TypeOK
  <2>4. StoredInv'
    BY <1>0, <2>1, <2>2, Zenon DEF StoredInv, Publishing, WellStored, CursorsStored
  <2>5. OrderedInv'
    BY <1>0, <2>1, <2>2, Zenon DEF OrderedInv, Publishing, Ordered
  <2>6. SettledInv'
    BY <2>1, <2>2, Zenon DEF SettledInv, Publishing
  <2> QED
    BY <2>3, <2>4, <2>5, <2>6 DEF IInv
<1>18. ASSUME Open PROVE IInv'
  <2>1. /\ ~open /\ open' = TRUE /\ root' = disk /\ acked' = disk /\ attempt' = disk
        /\ job' = ResumeReclaim(HandoffLimit)
        /\ UNCHANGED <<stored, disk, requires_reopen>>
    BY <1>18 DEF Open, storage
  <2>2. HandoffLimit \in 0..HandoffLimit
    BY BoundsAssumption
  <2>3. job' \in Jobs /\ job'.pc = "reclaim" /\ job'.puts = {}
    BY <2>1, <2>2, ResumeJob
  <2>4. TypeOK'
    BY <1>0, <2>1, <2>3, Zenon DEF TypeOK
  <2>5. StoredInv'
    BY <1>0, <2>1, <2>3, Zenon DEF StoredInv, Publishing, WellStored, CursorsStored
  <2>6. OrderedInv'
    BY <1>0, <2>1, <2>3, Zenon DEF OrderedInv, Publishing, Ordered
  <2>7. SettledInv'
    BY <1>0, <2>1, <2>3, Zenon DEF SettledInv, Publishing
  <2> QED
    BY <2>4, <2>5, <2>6, <2>7 DEF IInv
<1>19. ASSUME TornPutRoot PROVE IInv'
  <2>1. /\ job.pc = "root" /\ ~requires_reopen /\ open
        /\ disk' = EmptyComposition /\ attempt' = job.next
        /\ job' = Idle
        /\ \/ open' = FALSE /\ root' = EmptyComposition /\ UNCHANGED requires_reopen
           \/ requires_reopen' = TRUE /\ UNCHANGED <<open, root>>
        /\ UNCHANGED <<stored, acked>>
    BY <1>0, <1>19, Zenon DEF TornPutRoot, SettledInv
  <2>2. job' \in Jobs /\ job'.pc = "idle" /\ job'.puts = {}
    BY <2>1, IdleJob DEF Idle
  <2>3. TypeOK'
    BY <1>0, <2>1, <2>2, EmptyFacts, JobTypes, Zenon DEF TypeOK
  <2>4. StoredInv'
    <3>1. WellStored(EmptyComposition, stored)
      BY EmptyFacts
    <3>2. open' => open /\ root' = root
      BY <2>1, Zenon
    <3> QED
      BY <1>0, <2>1, <2>2, <3>1, <3>2
      DEF StoredInv, Publishing, WellStored, CursorsStored
  <2>5. OrderedInv'
    <3>1. Ordered(EmptyComposition)
      BY EmptyFacts
    <3>2. open' => open /\ root' = root
      BY <2>1
    <3> QED
      BY <1>0, <2>1, <2>2, <3>1, <3>2, Zenon DEF OrderedInv, Publishing, Ordered
  <2>6. SettledInv'
    <3>1. CASE open' = FALSE /\ root' = EmptyComposition /\ UNCHANGED requires_reopen
      BY <2>1, <2>2, <3>1, Zenon DEF SettledInv, Publishing
    <3>2. CASE requires_reopen' = TRUE /\ UNCHANGED <<open, root>>
      BY <1>0, <2>1, <2>2, <3>2 DEF SettledInv, Publishing
    <3> QED
      BY <2>1, <3>1, <3>2, Zenon
  <2> QED
    BY <2>3, <2>4, <2>5, <2>6 DEF IInv
<1>20. ASSUME NEW chunks \in SUBSET Objects, BeginFlush(chunks)
       PROVE  IInv'
  <2>1. /\ open /\ job.pc = "idle"
        /\ job' = [Idle EXCEPT !.pc = "flush", !.puts = chunks]
        /\ UNCHANGED <<stored, disk, open, root, requires_reopen, acked, attempt>>
    BY <1>20 DEF BeginFlush, storage
  <2>2. chunks \in SUBSET Keys
    BY DEF Keys
  <2>3. job' \in Jobs /\ job'.pc = "flush" /\ job'.done = {}
    BY <2>1, <2>2, IdleJob, Zenon DEF Idle, Jobs
  <2>4. TypeOK'
    BY <1>0, <2>1, <2>3, Zenon DEF TypeOK
  <2>5. StoredInv'
    BY <1>0, <2>1, <2>3 DEF StoredInv, Publishing, WellStored, CursorsStored
  <2>6. OrderedInv'
    BY <1>0, <2>1, <2>3 DEF OrderedInv, Publishing, Ordered
  <2>7. SettledInv'
    BY <1>0, <2>1, <2>3 DEF SettledInv, Publishing
  <2> QED
    BY <2>4, <2>5, <2>6, <2>7 DEF IInv
<1>21. ASSUME NEW k \in Objects, PutChunk(k)
       PROVE  IInv'
  <2>1. /\ job.pc = "flush" /\ stored' = stored \cup {k}
        /\ job' = [job EXCEPT !.puts = @ \ {k}, !.done = @ \cup {k}]
        /\ UNCHANGED <<disk, open, root, requires_reopen, acked, attempt>>
    BY <1>21 DEF PutChunk
  <2>2. /\ job' \in Jobs /\ job'.pc = "flush"
        /\ job'.done = job.done \cup {k}
    BY <1>0, <2>1, Zenon DEF Jobs
  <2>3. job'.done \subseteq stored' /\ stored' \in SUBSET Keys
    BY <1>0, <2>1, <2>2 DEF StoredInv, TypeOK, Keys
  <2>4. TypeOK'
    BY <1>0, <2>1, <2>2, <2>3, Zenon DEF TypeOK
  <2>5. StoredInv'
    <3>1. WellStored(disk, stored') /\ (open => WellStored(root, stored'))
      BY <1>0, <2>1, StoredMonotone DEF StoredInv
    <3> QED
      BY <2>1, <2>2, <2>3, <3>1 DEF StoredInv, Publishing, WellStored, CursorsStored
  <2>6. OrderedInv'
    BY <1>0, <2>1, <2>2 DEF OrderedInv, Publishing, Ordered
  <2>7. SettledInv'
    BY <1>0, <2>1, <2>2 DEF SettledInv, Publishing
  <2> QED
    BY <2>4, <2>5, <2>6, <2>7 DEF IInv
<1>22. ASSUME NEW live \in SUBSET Objects, NEW puts \in SUBSET live,
              FlushRoot(live, puts)
       PROVE  IInv'
  <2> DEFINE next == [root EXCEPT !.generation = @ + 1, !.live = live]
  <2>1. /\ job.pc = "flush" /\ ~requires_reopen
        /\ root.generation < MaxGeneration
        /\ live \ puts \subseteq root.live \cup job.done
        /\ job' = Staging(next, puts, FALSE)
        /\ UNCHANGED <<storage, open, root, requires_reopen, acked, attempt>>
    BY <1>22, Zenon DEF FlushRoot
  <2>2. /\ open /\ job.pc # "sync"
        /\ WellStored(root, stored) /\ Ordered(root)
    BY <1>0, <2>1 DEF StoredInv, OrderedInv, SettledInv
  <2>3. live \ puts \subseteq stored
    BY <1>0, <2>1, <2>2 DEF StoredInv, WellStored
  <2>4. /\ next \in Compositions
        /\ next.generation = root.generation + 1
        /\ WellStored(next, stored \cup puts)
        /\ Ordered(next)
    BY <1>0, <2>1, <2>2, <2>3, UpdateFacts, Zenon
  <2>5. puts \in SUBSET Keys
    BY DEF Keys
  <2> HIDE DEF next
  <2> QED
    BY <2>1, <2>2, <2>4, <2>5, BeginIInv, Zenon
<1>23. ASSUME UNCHANGED vars PROVE IInv'
  <2>1. UNCHANGED <<stored, disk, open, root, requires_reopen, job, acked, attempt>>
    BY <1>23 DEF vars
  <2> QED
    BY <1>0, <2>1, Zenon
    DEF IInv, TypeOK, StoredInv, OrderedInv, SettledInv, Publishing,
        WellStored, CursorsStored, Ordered
<1> QED
  BY <1>1, <1>2, <1>3, <1>4, <1>5, <1>6, <1>7, <1>8, <1>9, <1>11, <1>13,
     <1>14, <1>15, <1>16, <1>17, <1>18, <1>19, <1>20, <1>21, <1>22, <1>23
  DEF Next, AtomicPutNext, Begin, Step

----------------------------------------------------------------------------
(* Theorems that hold with torn puts too *)

\* The invariant gives what a reopen needs.
LEMMA IInvStored == IInv => TypeOK /\ GraphStored /\ PlansStored
BY DEF IInv, StoredInv, WellStored, CursorsStored, GraphStored, PlansStored

\* In every state of a Pool, for any number of objects, generations and plans,
\* the composition under the canonical key and the one in memory reach only
\* stored objects, and every published cursor with keys left can load its plan
\* (publish_root, resume_volume_reclaim and open of PoolRuntime).
THEOREM CompositionStored == Spec => [](TypeOK /\ GraphStored /\ PlansStored)
<1>1. Init => IInv
  BY InitIInv
<1>2. IInv /\ [Next]_vars => IInv'
  BY NextIInv
<1>3. IInv => TypeOK /\ GraphStored /\ PlansStored
  BY IInvStored
<1> QED
  BY <1>1, <1>2, <1>3, PTL DEF Spec

\* Every state of the store, of the composition in memory and of a publication
\* under way has its type (PoolRuntime).
THEOREM PublicationTyped == Spec => []TypeOK
<1>1. IInv => TypeOK
  BY IInvStored
<1> QED
  BY <1>1, InitIInv, NextIInv, PTL DEF Spec

\* PlansStored: every published cursor with keys left finds its plan, whatever
\* failed or crashed since the plan was handed off (resume_volume_reclaim).
THEOREM PendingPlansStored == Spec => []PlansStored
<1>1. IInv => PlansStored
  BY IInvStored
<1> QED
  BY <1>1, InitIInv, NextIInv, PTL DEF Spec

\* After an uncertain publication, and until the Pool is opened again, no step
\* touches the canonical root or deletes an object, although a volume flush
\* still puts chunks before publish_dataset_root refuses it
\* (ensure_publishable, PoolVolume::flush, resume_volume_reclaim).
THEOREM UncertainKeeps == Spec => UncertainKeepsStore
<1> DEFINE Kept == disk' = disk /\ stored \subseteq stored'
<1>1. IInv /\ [Next]_vars => (requires_reopen => Kept)
  <2> SUFFICES ASSUME IInv, [Next]_vars, requires_reopen
               PROVE  Kept
    OBVIOUS
  <2>1. job.pc \in {"idle", "flush"}
    BY Zenon DEF IInv, SettledInv
  <2>2. ASSUME Begin \/ Crash \/ Open PROVE Kept
    BY <2>2, Zenon DEF Begin, BeginUpdate, BeginFlush, BeginRelease, Crash, Open, storage
  <2>3. ASSUME NEW k \in Keys, PutObjectFails(k) PROVE Kept
    BY <2>3 DEF PutObjectFails
  <2>4. ASSUME NEW k \in Objects, PutChunk(k) PROVE Kept
    BY <2>4 DEF PutChunk
  <2>5. ASSUME RefuseFlush PROVE Kept
    BY <2>5 DEF RefuseFlush, storage
  <2>6. \A live, puts : ~FlushRoot(live, puts)
    BY DEF FlushRoot
  <2>7. /\ ~Refuse /\ ~PutRoot /\ ~PutRootFails /\ ~SyncRoot /\ ~SyncRootFails
        /\ ~AdvanceCursor /\ ~FinishPlan /\ ~FinishPlanFails /\ ~ReclaimStops
        /\ ~TornPutRoot
    BY <2>1, Zenon DEF Refuse, PutRoot, PutRootFails, SyncRoot, SyncRootFails, InReclaim,
      AdvanceCursor, FinishPlan, FinishPlanFails, ReclaimStops, TornPutRoot
  <2>8. \A k : ~PutObject(k) /\ ~HandOff(k) /\ ~HandOffFails(k)
    BY <2>1, Zenon DEF PutObject, HandOff, HandOffFails, Handing, InReclaim
  <2>9. ASSUME UNCHANGED vars PROVE Kept
    BY <2>9 DEF vars
  <2> HIDE DEF Kept
  <2> QED
    BY <2>2, <2>3, <2>4, <2>5, <2>6, <2>7, <2>8, <2>9, Zenon
    DEF Next, AtomicPutNext, Step
<1>2. Init => IInv
  BY InitIInv
<1>3. IInv /\ [Next]_vars => IInv'
  BY NextIInv
<1> QED
  BY <1>1, <1>2, <1>3, PTL DEF Spec, UncertainKeepsStore

----------------------------------------------------------------------------
(* Theorems over a store whose put is atomic *)

\* The steps of the Pool with atomic puts are steps of the Pool.
LEMMA AtomicIInv == IInv /\ [AtomicPutNext]_vars => IInv'
BY NextIInv DEF Next

\* Only the put of the canonical root and its failure touch the canonical key.
LEMMA DiskFrame ==
  ASSUME [AtomicPutNext]_vars, ~PutRoot, ~PutRootFails
  PROVE  disk' = disk
<1>1. ASSUME Begin \/ Crash \/ Open PROVE disk' = disk
  BY <1>1, Zenon DEF Begin, BeginUpdate, BeginFlush, BeginRelease, Crash, Open,
    storage
<1>2. ASSUME Step PROVE disk' = disk
  BY <1>2, Zenon DEF Step, PutChunk, FlushRoot, RefuseFlush, PutObject, PutObjectFails, Refuse, SyncRoot, SyncRootFails,
    HandOff, HandOffFails, AdvanceCursor, FinishPlan, FinishPlanFails,
    ReclaimStops, storage
<1>3. ASSUME UNCHANGED vars PROVE disk' = disk
  BY <1>3 DEF vars
<1> QED
  BY <1>1, <1>2, <1>3, Zenon DEF AtomicPutNext

\* A step keeps the canonical key within the acknowledged and the attempted
\* composition.
LEMMA StepOldOrNew ==
  IInv /\ ReopenOldOrNew /\ [AtomicPutNext]_vars => ReopenOldOrNew'
<1> SUFFICES ASSUME IInv, ReopenOldOrNew, [AtomicPutNext]_vars
             PROVE  ReopenOldOrNew'
  OBVIOUS
<1>1. CASE PutRoot
  BY <1>1 DEF PutRoot, ReopenOldOrNew
<1>2. CASE PutRootFails
  <2>1. disk = acked
    BY <1>2 DEF PutRootFails, IInv, SettledInv
  <2> QED
    BY <1>2, <2>1 DEF PutRootFails, ReopenOldOrNew
<1>3. CASE SyncRoot
  <2>1. disk = job.next
    BY <1>3 DEF SyncRoot, IInv, SettledInv
  <2> QED
    BY <1>3, <2>1, Zenon DEF SyncRoot, ReopenOldOrNew, storage
<1>4. CASE Open
  BY <1>4 DEF Open, ReopenOldOrNew, storage
<1>5. ASSUME ~PutRoot, ~PutRootFails, ~SyncRoot, ~Open
      PROVE  ReopenOldOrNew'
  <2>1. disk' = disk
    BY <1>5, DiskFrame, Zenon
  <2>2. ASSUME Begin \/ Crash PROVE UNCHANGED <<acked, attempt>>
    BY <2>2, Zenon DEF Begin, BeginUpdate, BeginFlush, BeginRelease, Crash
  <2>3. ASSUME Step PROVE UNCHANGED <<acked, attempt>>
    BY <1>5, <2>3, Zenon DEF Step, PutChunk, FlushRoot, RefuseFlush,
      PutObject, PutObjectFails, Refuse, SyncRootFails,
      HandOff, HandOffFails, AdvanceCursor, FinishPlan, FinishPlanFails,
      ReclaimStops
  <2>4. ASSUME UNCHANGED vars PROVE UNCHANGED <<acked, attempt>>
    BY <2>4 DEF vars
  <2>5. UNCHANGED <<acked, attempt>>
    BY <1>5, <2>2, <2>3, <2>4 DEF AtomicPutNext
  <2> QED
    BY <2>1, <2>5 DEF ReopenOldOrNew
<1> QED
  BY <1>1, <1>2, <1>3, <1>4, <1>5

\* If the store's put is atomic, a reopen after any crash or failure selects
\* the last acknowledged composition or the one whose publication was tried
\* (the promise in the documentation of PoolRuntime).
THEOREM ReopenSelects == AtomicPutSpec => []ReopenOldOrNew
<1>1. Init => IInv
  BY InitIInv
<1>2. Init => ReopenOldOrNew
  BY DEF Init, ReopenOldOrNew
<1> QED
  BY <1>1, <1>2, AtomicIInv, StepOldOrNew, PTL DEF AtomicPutSpec

\* Under the same assumption the canonical key only ever moves to the direct
\* successor of what it holds (publish_root after ensure_publishable).
THEOREM AdvancesByOne == AtomicPutSpec => DiskAdvances
<1>1. IInv /\ [AtomicPutNext]_vars =>
        (disk' = disk \/ disk'.generation = disk.generation + 1)
  <2> SUFFICES ASSUME IInv, [AtomicPutNext]_vars
               PROVE  disk' = disk \/ disk'.generation = disk.generation + 1
    OBVIOUS
  <2>1. ASSUME PutRoot \/ PutRootFails
        PROVE  disk' = disk \/ disk'.generation = disk.generation + 1
    <3>1. job.pc = "root" /\ (disk' = disk \/ disk' = job.next)
      BY <2>1 DEF PutRoot, PutRootFails
    <3>2. disk = root /\ job.next.generation = root.generation + 1
      BY <3>1 DEF IInv, SettledInv, Publishing
    <3> QED
      BY <3>1, <3>2
  <2> QED
    BY <2>1, DiskFrame
<1>2. Init => IInv
  BY InitIInv
<1> QED
  BY <1>1, <1>2, AtomicIInv, PTL DEF AtomicPutSpec, DiskAdvances

\* A job that is idle, puts chunks, is about to sync, or starts the reclaim loop has dropped
\* nothing.
LEMMA NothingDropped ==
  ASSUME \/ job'.pc \in {"idle", "flush", "sync"}
         \/ job'.pc = "reclaim" /\ job'.done = {}
  PROVE  ForgetInv'
BY Zenon DEF ForgetInv

\* Nor has one whose successor keeps all pending keys.
LEMMA AllKept ==
  ASSUME job'.pc \in {"stage", "root"},
         PendingKeys(root)' \subseteq PendingKeys(job'.next)
  PROVE  ForgetInv'
BY DEF ForgetInv, PendingKeys

\* The reclaim loop publishes a cursor from which only handled keys are gone.
LEMMA PublishForget ==
  ASSUME IInv, ForgetInv, InReclaim, NEW continue \in BOOLEAN,
         PublishFromReclaim(AdvancedRoot, continue),
         stored' \subseteq stored, root' = root
  PROVE  ForgetInv'
<1>1. /\ job \in Jobs /\ root \in Compositions /\ root.cursors # <<>>
      /\ WellStored(root, stored) /\ Ordered(root)
  BY Zenon DEF IInv, TypeOK, InReclaim, StoredInv, OrderedInv, SettledInv
<1>2. CASE root.generation < MaxGeneration
  <2>1. /\ AdvancedRoot \in Compositions
        /\ AdvancedRoot.live = root.live
        /\ PendingKeys(root) \ PendingKeys(AdvancedRoot) \subseteq job.done
    BY <1>1, <1>2, AdvanceFacts, Zenon DEF AdvancedRoot
  <2>2. job' = Advancing(AdvancedRoot, continue, job.remaining)
    BY <1>2, Zenon DEF PublishFromReclaim
  <2>3. job'.pc = "root" /\ job'.next = AdvancedRoot
    BY <1>1, <2>1, <2>2, AdvancingJob, JobTypes
  <2>4. \A k \in job.done : k \notin stored \/ k \in root.live
    BY Zenon DEF ForgetInv, InReclaim
  <2> QED
    BY <2>1, <2>3, <2>4 DEF ForgetInv, PendingKeys
<1>3. CASE ~(root.generation < MaxGeneration)
  <2>1. job'.pc = "idle"
    BY <1>3, Zenon DEF PublishFromReclaim, Idle
  <2> QED
    BY <2>1, NothingDropped, Zenon
<1> QED
  BY <1>2, <1>3, Zenon

\* Every step keeps ForgetInv.
LEMMA NextForget == IInv /\ ForgetInv /\ [AtomicPutNext]_vars => ForgetInv'
<1> SUFFICES ASSUME IInv, ForgetInv, [AtomicPutNext]_vars PROVE ForgetInv'
  OBVIOUS
<1>0. /\ job \in Jobs /\ root \in Compositions
      /\ open => /\ WellStored(root, stored) /\ Ordered(root)
                 /\ root.live \subseteq stored
      /\ job.pc # "idle" => open
      /\ job.pc = "flush" => job.done \subseteq stored
  BY DEF WellStored, IInv, TypeOK, StoredInv, OrderedInv, SettledInv
<1>1. ASSUME NEW live \in SUBSET Objects, NEW puts \in SUBSET live,
             BeginUpdate(live, puts) \/ FlushRoot(live, puts)
      PROVE  ForgetInv'
  <2> DEFINE next == [root EXCEPT !.generation = @ + 1, !.live = live]
  <2>1. /\ open /\ root.generation < MaxGeneration
        /\ live \ puts \subseteq stored
        /\ job' = Staging(next, puts, FALSE) /\ root' = root
    <3>1. CASE BeginUpdate(live, puts)
      BY <1>0, <3>1 DEF BeginUpdate, MayBegin
    <3>2. CASE FlushRoot(live, puts)
      BY <1>0, <3>2 DEF FlushRoot
    <3> QED
      BY <1>1, <3>1, <3>2, Zenon
  <2>2. next.cursors = root.cursors
    BY <1>0, <2>1, UpdateFacts, Zenon
  <2> HIDE DEF next
  <2>3. job'.pc \in {"stage", "root"} /\ job'.next = next
    BY <2>1, Zenon DEF Staging
  <2>4. PendingKeys(root)' \subseteq PendingKeys(job'.next)
    BY <2>1, <2>2, <2>3, ZenonT(60) DEF PendingKeys
  <2> QED
    BY <2>3, <2>4, AllKept
<1>2. ASSUME NEW live \in SUBSET root.live, BeginRelease(live)
      PROVE  ForgetInv'
  <2> DEFINE released == root.live \ live
             plan == [generation |-> root.generation + 1, keys |-> released]
             bumped == [root EXCEPT !.generation = @ + 1, !.live = live]
             next == [bumped EXCEPT !.cursors =
                        Append(@, [plan |-> plan, todo |-> released])]
  <2>1. open /\ root.generation < MaxGeneration /\ root' = root
    BY <1>2 DEF BeginRelease, MayBegin
  <2>2. job' = IF released = {} THEN Staging(bumped, {}, TRUE)
                                ELSE Staging(next, {plan}, TRUE)
    BY <1>2 DEF BeginRelease
  <2>3. CASE released = {}
    <3>1. live \in SUBSET Objects /\ live \ {} \subseteq stored
      BY <1>0, <2>1, CompositionTypes
    <3>2. bumped.cursors = root.cursors
      BY <1>0, <2>1, <3>1, UpdateFacts, Zenon
    <3> HIDE DEF bumped
    <3>3. job'.pc \in {"stage", "root"} /\ job'.next = bumped
      BY <2>2, <2>3 DEF Staging
    <3>4. PendingKeys(root)' \subseteq PendingKeys(job'.next)
      BY <2>1, <3>2, <3>3 DEF PendingKeys
    <3> QED
      BY <3>3, <3>4, AllKept
  <2>4. CASE released # {}
    <3>1. PendingKeys(root) \subseteq PendingKeys(next)
      BY <1>0, <2>1, ReleaseFacts, Zenon
    <3>2. job' = Staging(next, {plan}, TRUE)
      BY <2>2, <2>4, Zenon
    <3> HIDE DEF next, plan
    <3>3. job'.pc \in {"stage", "root"} /\ job'.next = next
      BY <3>2 DEF Staging
    <3>4. PendingKeys(root)' \subseteq PendingKeys(job'.next)
      BY <2>1, <3>1, <3>3 DEF PendingKeys
    <3> QED
      BY <3>3, <3>4, AllKept
  <2> QED
    BY <2>3, <2>4
<1>3. ASSUME NEW k \in Keys, PutObject(k)
      PROVE  ForgetInv'
  <2>1. job.pc = "stage" /\ root' = root
    BY <1>3 DEF PutObject
  <2>2. job'.next = job.next /\ job'.pc \in {"stage", "root"}
    BY <1>0, <1>3 DEF PutObject, Jobs
  <2>3. PendingKeys(root)' \subseteq PendingKeys(job'.next)
    BY <2>1, <2>2 DEF ForgetInv, PendingKeys
  <2> QED
    BY <2>2, <2>3, AllKept
<1>4. ASSUME \/ \E k \in Keys : PutObjectFails(k)
             \/ Refuse \/ RefuseFlush \/ ReclaimStops \/ PutRootFails \/ SyncRootFails
             \/ FinishPlanFails \/ Crash
      PROVE  ForgetInv'
  <2>1. job'.pc = "idle"
    BY <1>4 DEF PutObjectFails, Refuse, RefuseFlush, ReclaimStops, PutRootFails,
      SyncRootFails, FinishPlanFails, Crash, Idle
  <2> QED
    BY <2>1, NothingDropped, Zenon
<1>5. ASSUME PutRoot PROVE ForgetInv'
  <2>1. job'.pc = "sync"
    BY <1>0, <1>5 DEF PutRoot, Jobs
  <2> QED
    BY <2>1, NothingDropped
<1>6. ASSUME SyncRoot \/ Open PROVE ForgetInv'
  <2>1. /\ job.remaining \in 0..HandoffLimit
        /\ HandoffLimit \in 0..HandoffLimit
        /\ Idle.pc = "idle"
    BY <1>0, JobTypes, BoundsAssumption DEF Idle
  <2>2. job' \in {ResumeReclaim(job.remaining), ResumeReclaim(HandoffLimit), Idle}
    BY <1>6 DEF SyncRoot, Open
  <2>3. \/ job'.pc = "idle"
        \/ job'.pc = "reclaim" /\ job'.done = {}
    BY <2>1, <2>2, ResumeJob
  <2> QED
    BY <2>3, NothingDropped, Zenon
<1>7. ASSUME NEW k \in Objects, HandOff(k)
      PROVE  ForgetInv'
  <2>1. /\ job.pc = "reclaim" /\ root' = root
        /\ stored' = IF k \in root.live THEN stored ELSE stored \ {k}
    BY <1>7 DEF HandOff, Handing, InReclaim
  <2>2. job'.pc = "reclaim" /\ job'.done = job.done \cup {k}
    BY <1>0, <1>7, <2>1, Zenon DEF HandOff, Jobs
  <2>3. \A d \in job.done : d \notin stored \/ d \in root.live
    BY <2>1 DEF ForgetInv
  <2> QED
    BY <2>1, <2>2, <2>3 DEF ForgetInv
<1>8. ASSUME NEW k \in Objects, HandOffFails(k)
      PROVE  ForgetInv'
  <2>1. /\ InReclaim /\ root' = root /\ stored' \subseteq stored
        /\ job' = Idle \/ PublishFromReclaim(AdvancedRoot, FALSE)
    BY <1>8, Zenon DEF HandOffFails, Handing
  <2>2. CASE job' = Idle
    <3>1. job'.pc = "idle"
      BY <2>2 DEF Idle
    <3> QED
      BY <3>1, NothingDropped
  <2>3. CASE PublishFromReclaim(AdvancedRoot, FALSE)
    BY <2>1, <2>3, PublishForget, Zenon
  <2> QED
    BY <2>1, <2>2, <2>3, Zenon
<1>9. ASSUME AdvanceCursor PROVE ForgetInv'
  <2>1. /\ InReclaim /\ root' = root /\ stored' \subseteq stored
        /\ PublishFromReclaim(AdvancedRoot, TRUE)
    BY <1>9, Zenon DEF AdvanceCursor, storage
  <2> QED
    BY <2>1, PublishForget, Zenon
<1>10. ASSUME FinishPlan PROVE ForgetInv'
  <2> DEFINE next == [root EXCEPT !.generation = @ + 1, !.cursors = Tail(@)]
  <2>1. /\ job.pc = "reclaim" /\ root.cursors # <<>> /\ First.todo = {}
        /\ PublishFromReclaim(next, TRUE) /\ root' = root
    BY <1>10, Zenon DEF FinishPlan, InReclaim
  <2>2. CASE root.generation < MaxGeneration
    <3>1. next \in Compositions /\ PendingKeys(root) \subseteq PendingKeys(next)
      BY <1>0, <2>1, <2>2, FinishFacts, Zenon DEF First
    <3> HIDE DEF next
    <3>2. job' = Advancing(next, TRUE, job.remaining)
      BY <2>1, <2>2, Zenon DEF PublishFromReclaim
    <3>3. job'.pc = "root" /\ job'.next = next
      BY <1>0, <3>1, <3>2, AdvancingJob, JobTypes, ZenonT(60)
    <3>4. PendingKeys(root)' \subseteq PendingKeys(job'.next)
      BY <2>1, <3>1, <3>3 DEF PendingKeys
    <3> QED
      BY <3>3, <3>4, AllKept
  <2>3. CASE ~(root.generation < MaxGeneration)
    <3>1. job'.pc = "idle"
      BY <2>1, <2>3 DEF PublishFromReclaim, Idle
    <3> QED
      BY <3>1, NothingDropped
  <2> QED
    BY <2>2, <2>3
<1>11. ASSUME \/ \E chunks \in SUBSET Objects : BeginFlush(chunks)
              \/ \E k \in Objects : PutChunk(k)
       PROVE  ForgetInv'
  <2>1. job'.pc = "flush"
    BY <1>0, <1>11, Zenon DEF BeginFlush, PutChunk, Idle, Jobs
  <2> QED
    BY <2>1, NothingDropped, Zenon
<1>12. ASSUME UNCHANGED vars PROVE ForgetInv'
  BY <1>12 DEF vars, ForgetInv, PendingKeys
<1> QED
  BY <1>1, <1>2, <1>3, <1>4, <1>5, <1>6, <1>7, <1>8, <1>9, <1>10, <1>11,
     <1>12, Zenon
  DEF AtomicPutNext, Begin, Step

\* If the store's put is atomic, a key leaves the published reclaim cursors
\* only when its object is gone or is reachable again: a delete that fails, in
\* any round and before or after any crash, is tried again
\* (resume_volume_reclaim).
THEOREM ReclaimForgetsNothing == AtomicPutSpec => NothingForgotten
<1> DEFINE Kept == \A k \in PendingKeys(disk) \ PendingKeys(disk') :
                     k \notin stored' \/ k \in disk'.live
<1>1. IInv /\ ForgetInv /\ [AtomicPutNext]_vars => Kept
  <2> SUFFICES ASSUME IInv, ForgetInv, [AtomicPutNext]_vars PROVE Kept
    OBVIOUS
  <2>1. ASSUME disk' = disk PROVE Kept
    BY <2>1, Zenon DEF PendingKeys
  <2>2. ASSUME PutRoot \/ PutRootFails, disk' # disk PROVE Kept
    <3>1. job.pc = "root" /\ disk' = job.next /\ stored' = stored
      BY <2>2 DEF PutRoot, PutRootFails
    <3>2. disk = root
      BY <3>1, Zenon DEF IInv, SettledInv
    <3> QED
      BY <3>1, <3>2 DEF ForgetInv, PendingKeys
  <2> QED
    BY <2>1, <2>2, DiskFrame
<1>2. Init => IInv
  BY InitIInv
<1>3. Init => ForgetInv
  BY DEF Init, ForgetInv, Idle
<1> QED
  BY <1>1, <1>2, <1>3, AtomicIInv, NextForget, PTL
  DEF AtomicPutSpec, NothingForgotten

============================================================================
