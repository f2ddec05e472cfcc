------------------------ MODULE PoolLeaseBaseProofs -------------------------
(***************************************************************************)
(* What holds in PoolLease wherever the carriers run, for any number of    *)
(* carriers and nodes, any lease term, clock resolution and bounds.  First *)
(* what one operation of the authority and one step of a carrier do, then  *)
(* the inductive invariant that rests on it.                               *)
(***************************************************************************)
EXTENDS PoolLease, TLAPS

-----------------------------------------------------------------------------
(* The clock *)

\* Ticks is monotone: deadlines can be compared in either unit.
LEMMA TicksMono ==
  /\ \A m \in Int: Ticks(m) \in Int
  /\ \A m \in Nat: Ticks(m) \in Nat /\ m <= Ticks(m)
  /\ \A m, n \in Int: m <= n <=> Ticks(m) <= Ticks(n)
BY TicksAssumption DEF Ticks

\* Ticks is linear: milliseconds added before the conversion are ticks added
\* after it.
LEMMA TicksAdd == \A m, n \in Int: Ticks(m + n) = Ticks(m) + Ticks(n)
BY TicksAssumption DEF Ticks

\* monotonic_time_millis truncates: a reading is the current millisecond.
LEMMA ReadingOfClock ==
  ASSUME NEW t \in Nat, origin \in Nat, origin <= t
  PROVE  /\ Ms(t) \in Nat
         /\ origin + Ticks(Ms(t)) <= t
         /\ t < origin + Ticks(Ms(t) + 1)
<1>1. t - origin \in Nat
  OBVIOUS
<1>2. \A x \in Nat: /\ x \div TicksPerMs \in Nat
                    /\ (x \div TicksPerMs) * TicksPerMs <= x
                    /\ x < (x \div TicksPerMs + 1) * TicksPerMs
  BY TicksAssumption
<1> QED
  BY <1>1, <1>2, TicksAssumption DEF Ms, Ticks

\* The clock reading of a later moment is not smaller.
LEMMA ReadingsGrow ==
  ASSUME NEW s \in Nat, NEW t \in Nat, origin \in Nat, origin <= s, s <= t
  PROVE  Ms(s) <= Ms(t)
<1>1. /\ Ms(s) \in Nat /\ Ms(t) \in Nat
      /\ origin + Ticks(Ms(s)) <= s
      /\ t < origin + Ticks(Ms(t) + 1)
  BY ReadingOfClock
<1>2. ~(Ticks(Ms(t) + 1) <= Ticks(Ms(s)))
  BY <1>1, TicksMono
<1>3. ~(Ms(t) + 1 <= Ms(s))
  BY <1>1, <1>2, TicksMono
<1> QED
  BY <1>1, <1>3

-----------------------------------------------------------------------------
(* The authority's operations *)

\* The order of the numbers that are compared.
LEMMA Orders ==
  \A x, y, z \in Nat: /\ 0 <= x /\ x <= x /\ ~(x < x)
                      /\ x < y /\ z >= y => x < z
                      /\ x <= y /\ z >= y => x <= z
  OBVIOUS

\* A deadline before one that a renewal moves is before the new one too.
LEMMA Later == \A x, y, z \in Nat: x <= y /\ z > y => x <= z
  OBVIOUS

\* What is past stays past when the clock moves on.
LEMMA Past == \A x, y \in Nat: x <= y => x <= y + 1
  OBVIOUS

\* The fields of a token are numbers that can be compared.
LEMMA TokenNumbers ==
  ASSUME NEW t \in Tokens
  PROVE  /\ t.lease_id \in Nat /\ t.deadline \in Nat
         /\ t.fence.epoch \in Nat /\ t.fence.generation \in Nat
BY DEF Tokens, Fences

\* Clock readings, terms and counts add up to milliseconds.
LEMMA Sum ==
  ASSUME NEW x \in Nat, NEW y \in Nat, NEW z \in Nat
  PROVE  x + y + z \in Nat
OBVIOUS

\* So are the counters of an authority, and its active lease is a token.
LEMMA AuthorityNumbers ==
  ASSUME NEW a \in Authorities
  PROVE  /\ a.epoch \in Nat /\ a.next_lease_id \in Nat /\ a.next_fence \in Nat
         /\ a.handoff \in Nat
         /\ a.active # None => a.active \in Tokens
BY DEF Authorities

\* A token that an authority has gone past stays behind its frontiers.
LEMMA FrontiersGrow ==
  ASSUME NEW a \in Authorities, NEW b \in Authorities, NEW t \in Tokens,
         b.epoch >= a.epoch, b.next_lease_id >= a.next_lease_id, b.next_fence >= a.next_fence,
         t.lease_id < a.next_lease_id, t.fence.generation < a.next_fence,
         t.fence.epoch <= a.epoch
  PROVE  /\ t.lease_id < b.next_lease_id /\ t.fence.generation < b.next_fence
         /\ t.fence.epoch <= b.epoch
BY TokenNumbers, AuthorityNumbers

\* The token of a checkpoint is the last one granted.
Tight(a) == a.active # None => a.next_lease_id = a.active.lease_id + 1

\* advance_epoch keeps a checkpoint valid and its frontiers where they are.
LEMMA AdvanceEpochKeepsValid ==
  ASSUME NEW a \in Authorities, NEW e \in Nat, NEW at \in Nat,
         ValidCheckpoint(a), Tight(a), e >= a.epoch
  PROVE  LET b == AdvanceEpoch(a, e, at) IN
         /\ b \in Authorities /\ ValidCheckpoint(b) /\ Tight(b)
         /\ b.epoch = e
         /\ b.next_lease_id = a.next_lease_id /\ b.next_fence = a.next_fence
         /\ b.active # None => b.active = a.active
         /\ b.handoff = a.handoff \/ (a.active # None /\ b.handoff = a.active.deadline)
<1>1. CASE e <= a.epoch
  BY <1>1 DEF AdvanceEpoch, Authorities
<1>2. CASE ~(e <= a.epoch)
  <2> DEFINE h == IF a.active # None /\ a.active.deadline > at
                  THEN Larger(a.handoff, a.active.deadline) ELSE a.handoff
             p == [a EXCEPT !.epoch = e]
             q == [p EXCEPT !.active = None]
             b == [q EXCEPT !.handoff = h]
  <2>1. h \in Nat /\ (h = a.handoff \/ (a.active # None /\ h = a.active.deadline))
    BY DEF Authorities, Tokens, Larger
  <2>2. AdvanceEpoch(a, e, at) = b
    BY <1>2 DEF AdvanceEpoch
  <2> HIDE DEF h
  <2>3. /\ p \in Authorities /\ p.epoch = e /\ p.handoff = a.handoff
        /\ p.next_lease_id = a.next_lease_id /\ p.next_fence = a.next_fence
    BY DEF Authorities
  <2> HIDE DEF p
  <2>4. /\ q \in Authorities /\ q.epoch = e /\ q.active = None /\ q.handoff = a.handoff
        /\ q.next_lease_id = a.next_lease_id /\ q.next_fence = a.next_fence
    BY <2>3 DEF Authorities
  <2> HIDE DEF q
  <2>5. /\ b \in Authorities /\ b.epoch = e /\ b.active = None /\ b.handoff = h
        /\ b.next_lease_id = a.next_lease_id /\ b.next_fence = a.next_fence
    BY <2>1, <2>4 DEF Authorities
  <2> HIDE DEF b
  <2> QED
    BY <1>2, <2>1, <2>2, <2>5 DEF ValidCheckpoint, Tight, Authorities
<1> QED
  BY <1>1, <1>2

\* What an operation of the authority may do to it: nothing is granted but the
\* next lease or a later deadline of the active one, to the node that asks.
Steps(a, out, node, at) ==
  LET b == out.authority IN
  /\ b \in Authorities /\ ValidCheckpoint(b) /\ Tight(b)
  /\ b.epoch = a.epoch
  /\ b.next_lease_id >= a.next_lease_id /\ b.next_fence >= a.next_fence
  /\ b.active # None /\ out.token = None => b.active = a.active
  /\ b.handoff = 0 \/ b.handoff = a.handoff
  /\ out.token # None =>
       /\ out.token \in Tokens /\ b.active = out.token
       /\ out.token.node = node
       /\ out.token.deadline >= at + Term
       /\ \/ /\ out.token.lease_id = a.next_lease_id
             /\ out.token.fence = [epoch |-> a.epoch, generation |-> a.next_fence]
             /\ b.next_lease_id = a.next_lease_id + 1 /\ b.next_fence = a.next_fence + 1
             /\ out.token.deadline = at + Term
          \/ /\ a.active # None /\ a.active.node = node
             /\ out.token.lease_id = a.active.lease_id
             /\ out.token.fence = a.active.fence
             /\ out.token.deadline > a.active.deadline
             /\ out.token.deadline = at + Term \/ out.token.deadline = a.active.deadline + 1

\* A refusal that drops the active token or the handoff fence is such a step.
LEMMA RefusedSteps ==
  ASSUME NEW a \in Authorities, NEW b \in Authorities, NEW node, NEW at,
         ValidCheckpoint(a), Tight(a),
         b.epoch = a.epoch, b.next_lease_id = a.next_lease_id, b.next_fence = a.next_fence,
         b.active = None \/ b.active = a.active,
         b.handoff = 0 \/ b.handoff = a.handoff
  PROVE  Steps(a, Refused(b), node, at)
BY DEF Steps, Refused, ValidCheckpoint, Tight, Authorities

\* renew: only the active token, and to a later deadline.
LEMMA RenewSteps ==
  ASSUME NEW a \in Authorities, NEW token \in Tokens, NEW at \in Nat,
         ValidCheckpoint(a), Tight(a)
  PROVE  Steps(a, Renew(a, token, at), token.node, at)
<1>1. Steps(a, Refused(a), token.node, at) /\ Steps(a, Refused([a EXCEPT !.active = None]), token.node, at)
  BY RefusedSteps DEF Authorities
<1>2. ASSUME a.active = token, token.fence.epoch = a.epoch
      PROVE  LET renewed == [token EXCEPT !.deadline = Larger(at + Term, @ + 1)] IN
             Steps(a, [authority |-> [a EXCEPT !.active = renewed], token |-> renewed], token.node, at)
  <2> DEFINE renewed == [token EXCEPT !.deadline = Larger(at + Term, @ + 1)]
             b == [a EXCEPT !.active = renewed]
  <2>1. /\ renewed \in Tokens /\ renewed # None
        /\ renewed.node = token.node /\ renewed.lease_id = token.lease_id
        /\ renewed.fence = token.fence
        /\ renewed.deadline >= at + Term /\ renewed.deadline > token.deadline
        /\ renewed.deadline = at + Term \/ renewed.deadline = token.deadline + 1
    BY TermAssumption, NoneAssumption DEF Tokens, Larger
  <2>2. /\ b \in Authorities
        /\ b.active = renewed /\ b.epoch = a.epoch /\ b.handoff = a.handoff
        /\ b.next_lease_id = a.next_lease_id /\ b.next_fence = a.next_fence
    BY <2>1 DEF Authorities
  <2>3. token # None /\ token.deadline \in Nat
    BY NoneAssumption DEF Tokens
  <2> HIDE DEF renewed, b
  <2>4. ValidCheckpoint(b) /\ Tight(b)
    BY <1>2, <2>1, <2>2, <2>3 DEF ValidCheckpoint, Tight, Tokens, Authorities
  <2> QED
    <3>1. Steps(a, [authority |-> b, token |-> renewed], token.node, at)
      BY <1>2, <2>1, <2>2, <2>3, <2>4 DEF Steps, Authorities
    <3> QED
      BY <3>1 DEF renewed, b
<1> QED
  BY <1>1, <1>2 DEF Renew

\* The grant of acquire: the next lease under the next fence, and no handoff.
LEMMA GrantSteps ==
  ASSUME NEW a \in Authorities, NEW node \in Nodes, NEW at \in Nat,
         ValidCheckpoint(a), a.active = None
  PROVE  Steps(a, Grant(a, node, at), node, at)
<1> DEFINE token == [node |-> node, lease_id |-> a.next_lease_id,
                     fence |-> [epoch |-> a.epoch, generation |-> a.next_fence],
                     deadline |-> at + Term]
           p == [a EXCEPT !.active = token]
           q == [p EXCEPT !.next_lease_id = @ + 1]
           s == [q EXCEPT !.next_fence = @ + 1]
           b == [s EXCEPT !.handoff = 0]
<1>1. token \in Tokens /\ token # None
  BY TermAssumption, NoneAssumption DEF Tokens, Fences, Authorities
<1>2. /\ token.node = node /\ token.lease_id = a.next_lease_id /\ token.deadline = at + Term
      /\ token.fence = [epoch |-> a.epoch, generation |-> a.next_fence]
  OBVIOUS
<1>3. Grant(a, node, at) = [authority |-> b, token |-> token]
  BY DEF Grant
<1> HIDE DEF token
<1>4. /\ p \in Authorities /\ p.active = token /\ p.epoch = a.epoch
      /\ p.next_lease_id = a.next_lease_id /\ p.next_fence = a.next_fence
  BY <1>1 DEF Authorities
<1> HIDE DEF p
<1>5. /\ q \in Authorities /\ q.active = token /\ q.epoch = a.epoch
      /\ q.next_lease_id = a.next_lease_id + 1 /\ q.next_fence = a.next_fence
  BY <1>4 DEF Authorities
<1> HIDE DEF q
<1>6. /\ s \in Authorities /\ s.active = token /\ s.epoch = a.epoch
      /\ s.next_lease_id = a.next_lease_id + 1 /\ s.next_fence = a.next_fence + 1
  BY <1>5 DEF Authorities
<1> HIDE DEF s
<1>7. /\ b \in Authorities /\ b.active = token /\ b.epoch = a.epoch /\ b.handoff = 0
      /\ b.next_lease_id = a.next_lease_id + 1 /\ b.next_fence = a.next_fence + 1
  BY <1>6 DEF Authorities
<1> HIDE DEF b
<1>8. ValidCheckpoint(b) /\ Tight(b)
  BY <1>1, <1>2, <1>7, TermAssumption DEF ValidCheckpoint, Tight, Authorities
<1> QED
  BY <1>1, <1>2, <1>3, <1>7, <1>8, TermAssumption DEF Steps, Authorities

\* acquire: the node that already owns the Pool renews, another one waits for
\* the deadline and for the handoff fence.
LEMMA AcquireSteps ==
  ASSUME NEW a \in Authorities, NEW node \in Nodes, NEW at \in Nat,
         ValidCheckpoint(a), Tight(a)
  PROVE  Steps(a, Acquire(a, node, at), node, at)
<1> DEFINE e == ExpirePool(a, at)
           f == [e EXCEPT !.handoff = 0]
<1>1. /\ e \in Authorities /\ e.epoch = a.epoch /\ e.handoff = a.handoff
      /\ e.next_lease_id = a.next_lease_id /\ e.next_fence = a.next_fence
      /\ e.active = None \/ e.active = a.active
  BY DEF ExpirePool, Authorities
<1>2. ValidCheckpoint(e) /\ Tight(e)
  BY <1>1 DEF ValidCheckpoint, Tight
<1> HIDE DEF e
<1>3. /\ f \in Authorities /\ f.epoch = a.epoch /\ f.handoff = 0 /\ f.active = e.active
      /\ f.next_lease_id = a.next_lease_id /\ f.next_fence = a.next_fence
  BY <1>1 DEF Authorities
<1>4. ValidCheckpoint(f) /\ Tight(f)
  BY <1>1, <1>2, <1>3 DEF ValidCheckpoint, Tight
<1> HIDE DEF f
<1>5. Steps(a, Refused(e), node, at) /\ Steps(a, Refused(f), node, at)
  BY <1>1, <1>3, RefusedSteps, Zenon
<1>6. ASSUME e.active = None PROVE Steps(a, Grant(e, node, at), node, at)
  BY <1>1, <1>2, <1>6, GrantSteps DEF Steps
<1>7. ASSUME e.active # None, e.active.node = node PROVE Steps(a, Renew(f, e.active, at), node, at)
  <2>1. e.active \in Tokens
    BY <1>1, <1>7 DEF Authorities
  <2>2. Steps(f, Renew(f, e.active, at), node, at)
    BY <1>3, <1>4, <1>7, <2>1, RenewSteps
  <2> QED
    BY <1>1, <1>3, <1>7, <2>2 DEF Steps
<1> QED
  BY <1>5, <1>6, <1>7 DEF Acquire, e, f

\* release ends the active token or nothing.
LEMMA ReleaseSteps ==
  ASSUME NEW a \in Authorities, NEW token \in Tokens, NEW node, NEW at \in Nat,
         ValidCheckpoint(a), Tight(a)
  PROVE  Steps(a, Release(a, token), node, at)
<1>1. Steps(a, Refused(a), node, at) /\ Steps(a, Refused([a EXCEPT !.active = None]), node, at)
  BY RefusedSteps DEF Authorities
<1> QED
  BY <1>1 DEF Release

\* Every request steps the authority, whatever its action.
LEMMA ApplySteps ==
  ASSUME NEW a \in Authorities, NEW r \in Requests, NEW at \in Nat,
         ValidCheckpoint(a), Tight(a), r.action # "acquire" => r.token # None
  PROVE  Steps(a, Apply(r, a, at), NodeOf[r.from], at)
<1>1. NodeOf[r.from] \in Nodes
  BY CarriersAssumption DEF Requests
<1>2. r.token # None => r.token \in Tokens
  BY DEF Requests
<1>3. Steps(a, Refused(a), NodeOf[r.from], at)
  BY RefusedSteps DEF Authorities
<1>4. CASE r.action = "acquire"
  BY <1>1, <1>4, AcquireSteps DEF Apply
<1>5. CASE r.action = "renew" /\ r.token.node = NodeOf[r.from]
  BY <1>2, <1>5, RenewSteps DEF Apply
<1>6. CASE r.action = "release" /\ r.token.node = NodeOf[r.from]
  BY <1>2, <1>6, ReleaseSteps DEF Apply
<1>7. CASE ~(r.action = "acquire") /\ ~(r.token.node = NodeOf[r.from])
  BY <1>3, <1>7 DEF Apply
<1> QED
  BY <1>4, <1>5, <1>6, <1>7 DEF Requests

\* What a step of the authority leaves to a node for which it keeps the Pool:
\* at least the time it had, and a token, if any, under the same fence.
Keeps(a, out, node) ==
  /\ KeptUntil(out.authority, node) >= KeptUntil(a, node)
  /\ out.token # None => out.token.node = node
  /\ out.authority.active # None => /\ a.active # None
                                    /\ out.authority.active.fence = a.active.fence

\* advance_epoch turns the token of a live owner into a handoff fence.
LEMMA AdvanceEpochKeeps ==
  ASSUME NEW a \in Authorities, NEW e \in Nat, NEW at \in Nat, NEW node \in Nodes,
         ValidCheckpoint(a), KeptUntil(a, node) > at
  PROVE  Keeps(a, Refused(AdvanceEpoch(a, e, at)), node)
<1>1. CASE e <= a.epoch
  BY <1>1 DEF AdvanceEpoch, Keeps, Refused, KeptUntil, Authorities, Tokens
<1>2. CASE ~(e <= a.epoch)
  <2> DEFINE h == IF a.active # None /\ a.active.deadline > at
                  THEN Larger(a.handoff, a.active.deadline) ELSE a.handoff
             p == [a EXCEPT !.epoch = e]
             q == [p EXCEPT !.active = None]
             b == [q EXCEPT !.handoff = h]
  <2>1. h \in Nat /\ h >= KeptUntil(a, node) /\ KeptUntil(a, node) \in Nat
    BY DEF Authorities, Tokens, Larger, KeptUntil, ValidCheckpoint
  <2>2. AdvanceEpoch(a, e, at) = b
    BY <1>2 DEF AdvanceEpoch
  <2> HIDE DEF h
  <2>3. p \in Authorities
    BY DEF Authorities
  <2> HIDE DEF p
  <2>4. q \in Authorities /\ q.active = None
    BY <2>3 DEF Authorities
  <2> HIDE DEF q
  <2>5. b.active = None /\ b.handoff = h
    BY <2>1, <2>4 DEF Authorities
  <2> HIDE DEF b
  <2> QED
    BY <2>1, <2>2, <2>5 DEF Keeps, Refused, KeptUntil
<1> QED
  BY <1>1, <1>2

\* Another node's request finds the Pool taken; the owner's own request
\* extends it; only the release of the active token ends it early.
LEMMA ApplyKeeps ==
  ASSUME NEW a \in Authorities, NEW r \in Requests, NEW at \in Nat, NEW node \in Nodes,
         ValidCheckpoint(a), KeptUntil(a, node) > at,
         r.action # "acquire" => r.token # None,
         ~(r.action = "release" /\ r.token = a.active /\ r.token.node = NodeOf[r.from])
  PROVE  Keeps(a, Apply(r, a, at), node)
<1>1. CASE a.active = None
  <2>1. a.handoff > at /\ KeptUntil(a, node) = a.handoff
    BY <1>1 DEF KeptUntil
  <2>2. ExpirePool(a, at).active = None /\ ExpirePool(a, at).handoff = a.handoff
    BY <1>1 DEF ExpirePool, Authorities
  <2>3. Keeps(a, Refused(a), node) /\ Keeps(a, Refused(ExpirePool(a, at)), node)
    BY <1>1, <2>1, <2>2 DEF Keeps, Refused, KeptUntil, Authorities
  <2>4. Acquire(a, NodeOf[r.from], at) = Refused(ExpirePool(a, at))
    BY <2>1, <2>2 DEF Acquire
  <2>5. Renew(a, r.token, at) = Refused(a) /\ Release(a, r.token) = Refused(a)
    BY <1>1 DEF Renew, Release
  <2> QED
    BY <2>3, <2>4, <2>5 DEF Apply, Requests
<1>2. CASE a.active # None
  <2> DEFINE f == [ExpirePool(a, at) EXCEPT !.handoff = 0]
  <2>1. /\ a.handoff = 0 /\ a.active \in Tokens /\ a.active.node = node
        /\ a.active.deadline > at /\ KeptUntil(a, node) = a.active.deadline
    BY <1>2 DEF KeptUntil, ValidCheckpoint, Authorities
  <2>2. ExpirePool(a, at) \in Authorities /\ ExpirePool(a, at).active = a.active
        /\ ExpirePool(a, at).handoff = 0
    BY <2>1 DEF ExpirePool, Authorities, IsExpiredAt, Tokens
  <2>3. f \in Authorities /\ f.active = a.active
    BY <2>2, Zenon DEF Authorities
  <2> HIDE DEF f
  <2>4. Keeps(a, Refused(a), node) /\ Keeps(a, Refused(f), node)
    BY <1>2, <2>1, <2>3 DEF Keeps, Refused, KeptUntil, Tokens
  <2>5. ASSUME NEW b \in Authorities, b.active = a.active, NEW t
        PROVE  Keeps(a, Renew(b, t, at), node)
    <3> DEFINE renewed == [a.active EXCEPT !.deadline = Larger(at + Term, @ + 1)]
    <3>1. Keeps(a, Refused(b), node)
      BY <1>2, <2>1, <2>5 DEF Keeps, Refused, KeptUntil, Tokens
    <3>2. /\ renewed # None /\ renewed.node = node /\ renewed.fence = a.active.fence
          /\ renewed.deadline \in Nat /\ renewed.deadline >= a.active.deadline
      BY <2>1, TermAssumption, NoneAssumption DEF Tokens, Larger
    <3>3. Renew(b, t, at) = Refused(b)
          \/ Renew(b, t, at) = [authority |-> [b EXCEPT !.active = renewed], token |-> renewed]
      BY <1>2, <2>1, <2>5 DEF Renew, IsExpiredAt, Tokens
    <3> HIDE DEF renewed
    <3>4. [b EXCEPT !.active = renewed].active = renewed
      BY <2>5 DEF Authorities
    <3>5. Keeps(a, [authority |-> [b EXCEPT !.active = renewed], token |-> renewed], node)
      <4> DEFINE d == [b EXCEPT !.active = renewed]
      <4> HIDE DEF d
      <4>1. d.active = renewed
        BY <3>4 DEF d
      <4>2. Keeps(a, [authority |-> d, token |-> renewed], node)
        BY <1>2, <2>1, <3>2, <4>1, Zenon DEF Keeps, KeptUntil, Tokens
      <4> QED
        BY <4>2 DEF d
    <3> QED
      BY <3>1, <3>3, <3>5
  <2>6. Keeps(a, Acquire(a, NodeOf[r.from], at), node)
    <3>1. Keeps(a, Renew(f, a.active, at), node)
      BY <2>3, <2>5
    <3>2. Acquire(a, NodeOf[r.from], at) = Refused(f)
          \/ Acquire(a, NodeOf[r.from], at) = Renew(f, a.active, at)
      BY <1>2, <2>1, <2>2 DEF Acquire, f
    <3> QED
      BY <2>4, <3>1, <3>2
  <2>7. Keeps(a, Renew(a, r.token, at), node)
    BY <2>5
  <2>8. r.action = "release" /\ r.token.node = NodeOf[r.from] => Release(a, r.token) = Refused(a)
    BY DEF Release
  <2> QED
    BY <2>4, <2>6, <2>7, <2>8 DEF Apply
<1> QED
  BY <1>1, <1>2

\* What a transition committed under the lock, epoch change included, may do.
Moves(a, out, node, at) ==
  LET b == out.authority IN
  /\ b \in Authorities /\ ValidCheckpoint(b) /\ Tight(b)
  /\ b.epoch >= a.epoch
  /\ b.next_lease_id >= a.next_lease_id /\ b.next_fence >= a.next_fence
  /\ b.active # None /\ out.token = None => b.active = a.active
  /\ \/ b.handoff = 0 \/ b.handoff = a.handoff
     \/ a.active # None /\ b.handoff = a.active.deadline
  /\ out.token # None =>
       /\ out.token \in Tokens /\ b.active = out.token
       /\ out.token.node = node
       /\ out.token.deadline >= at + Term
       /\ \/ /\ out.token.lease_id = a.next_lease_id
             /\ out.token.fence = [epoch |-> b.epoch, generation |-> a.next_fence]
             /\ b.next_lease_id = a.next_lease_id + 1 /\ b.next_fence = a.next_fence + 1
             /\ out.token.deadline = at + Term
          \/ /\ a.active # None /\ a.active.node = node
             /\ out.token.lease_id = a.active.lease_id
             /\ out.token.fence = a.active.fence
             /\ out.token.deadline > a.active.deadline
             /\ out.token.deadline = at + Term \/ out.token.deadline = a.active.deadline + 1

\* A grant leaves its owner at least one term.
LEMMA GrantedTerm ==
  ASSUME NEW a, NEW out, NEW node, NEW at \in Nat, Moves(a, out, node, at), out.token # None
  PROVE  /\ out.token \in Tokens
         /\ out.token.deadline - at \in Nat /\ out.token.deadline - at >= Term
<1>1. out.token \in Tokens /\ out.token.deadline >= at + Term
  BY Zenon DEF Moves
<1> QED
  BY <1>1, TokenNumbers, TermAssumption

\* commit_pool_owner_lease_transition steps the authority from its epoch.
LEMMA TransitionMoves ==
  ASSUME NEW a \in Authorities, NEW r \in Requests, NEW e \in Nat, NEW at \in Nat,
         ValidCheckpoint(a), Tight(a), e >= a.epoch, r.action # "acquire" => r.token # None
  PROVE  Moves(a, Apply(r, AdvanceEpoch(a, e, at), at), NodeOf[r.from], at)
<1> DEFINE b == AdvanceEpoch(a, e, at)
           out == Apply(r, b, at)
<1>1. /\ b \in Authorities /\ ValidCheckpoint(b) /\ Tight(b)
      /\ b.epoch = e
      /\ b.next_lease_id = a.next_lease_id /\ b.next_fence = a.next_fence
      /\ b.active # None => b.active = a.active
      /\ b.handoff = a.handoff \/ (a.active # None /\ b.handoff = a.active.deadline)
  BY AdvanceEpochKeepsValid
<1> HIDE DEF b
<1>2. Steps(b, out, NodeOf[r.from], at)
  BY <1>1, ApplySteps, Zenon
<1> HIDE DEF out
<1>3. Moves(a, out, NodeOf[r.from], at)
  BY <1>1, <1>2 DEF Steps, Moves
<1> QED
  BY <1>3 DEF b, out

\* It keeps the Pool for a live owner unless it is the release of its token.
LEMMA TransitionKeeps ==
  ASSUME NEW a \in Authorities, NEW r \in Requests, NEW e \in Nat, NEW at \in Nat,
         NEW node \in Nodes,
         ValidCheckpoint(a), Tight(a), e >= a.epoch, r.action # "acquire" => r.token # None,
         KeptUntil(a, node) > at,
         ~(r.action = "release" /\ r.token = a.active /\ r.token.node = NodeOf[r.from])
  PROVE  Keeps(a, Apply(r, AdvanceEpoch(a, e, at), at), node)
<1> DEFINE b == AdvanceEpoch(a, e, at)
           out == Apply(r, b, at)
<1>1. /\ b \in Authorities /\ ValidCheckpoint(b)
      /\ b.active # None => b.active = a.active
  BY AdvanceEpochKeepsValid
<1>2. Keeps(a, Refused(b), node)
  BY AdvanceEpochKeeps
<1> HIDE DEF b
<1>3. KeptUntil(a, node) \in Nat /\ KeptUntil(b, node) \in Nat
  BY <1>1 DEF KeptUntil, Authorities, Tokens
<1>4. /\ KeptUntil(b, node) >= KeptUntil(a, node)
      /\ b.active # None => a.active # None /\ b.active.fence = a.active.fence
  BY <1>2 DEF Keeps, Refused
<1>5. ~(r.action = "release" /\ r.token = b.active /\ r.token.node = NodeOf[r.from])
  BY <1>1, Zenon
<1>6. Keeps(b, out, node)
  BY <1>1, <1>3, <1>4, <1>5, ApplyKeeps
<1>7. out.authority.active # None =>
        b.active # None /\ out.authority.active.fence = b.active.fence
  BY <1>6 DEF Keeps
<1>8. KeptUntil(out.authority, node) >= KeptUntil(b, node)
  BY <1>6 DEF Keeps
<1>9. KeptUntil(out.authority, node) \in Nat
  <2>1. out.authority \in Authorities
    <3>1. Moves(a, Apply(r, AdvanceEpoch(a, e, at), at), NodeOf[r.from], at)
      BY TransitionMoves, Zenon
    <3> QED
      BY <3>1, Zenon DEF Moves, b
  <2> QED
    BY <2>1, Zenon DEF KeptUntil, Authorities, Tokens
<1> HIDE DEF out
<1>10. Keeps(a, out, node)
  BY <1>3, <1>4, <1>6, <1>7, <1>8, <1>9 DEF Keeps
<1> QED
  BY <1>10 DEF b, out

\* commit_pool_owner_observation does no more than time and epochs do.
LEMMA ObservationMoves ==
  ASSUME NEW a \in Authorities, NEW e \in Nat, NEW at \in Nat, NEW node,
         ValidCheckpoint(a), Tight(a), e >= a.epoch
  PROVE  Moves(a, Refused(ExpirePool(AdvanceEpoch(a, e, at), at)), node, at)
<1> DEFINE b == AdvanceEpoch(a, e, at)
           d == ExpirePool(b, at)
<1>1. /\ b \in Authorities /\ ValidCheckpoint(b) /\ Tight(b)
      /\ b.epoch = e
      /\ b.next_lease_id = a.next_lease_id /\ b.next_fence = a.next_fence
      /\ b.active # None => b.active = a.active
      /\ b.handoff = a.handoff \/ (a.active # None /\ b.handoff = a.active.deadline)
  BY AdvanceEpochKeepsValid
<1> HIDE DEF b
<1>2. /\ d \in Authorities /\ d.epoch = b.epoch /\ d.handoff = b.handoff
      /\ d.next_lease_id = b.next_lease_id /\ d.next_fence = b.next_fence
      /\ d.active = None \/ d.active = b.active
  BY <1>1 DEF ExpirePool, Authorities
<1> HIDE DEF d
<1>3. ValidCheckpoint(d) /\ Tight(d)
  BY <1>1, <1>2, Zenon DEF ValidCheckpoint, Tight
<1>4. Moves(a, Refused(d), node, at)
  BY <1>1, <1>2, <1>3 DEF Moves, Refused, Authorities
<1> QED
  BY <1>4 DEF b, d

\* It keeps the Pool for a live owner as well.
LEMMA ObservationKeeps ==
  ASSUME NEW a \in Authorities, NEW e \in Nat, NEW at \in Nat, NEW node \in Nodes,
         ValidCheckpoint(a), Tight(a), e >= a.epoch, KeptUntil(a, node) > at
  PROVE  Keeps(a, Refused(ExpirePool(AdvanceEpoch(a, e, at), at)), node)
<1> DEFINE b == AdvanceEpoch(a, e, at)
           d == ExpirePool(b, at)
<1>1. b \in Authorities /\ ValidCheckpoint(b)
  BY AdvanceEpochKeepsValid
<1>2. Keeps(a, Refused(b), node)
  BY AdvanceEpochKeeps
<1> HIDE DEF b
<1>3. KeptUntil(a, node) \in Nat /\ KeptUntil(b, node) \in Nat
  BY <1>1 DEF KeptUntil, Authorities, Tokens
<1>4. /\ KeptUntil(b, node) >= KeptUntil(a, node)
      /\ b.active # None => a.active # None /\ b.active.fence = a.active.fence
  BY <1>2 DEF Keeps, Refused
<1>5. d.active = b.active /\ d.handoff = b.handoff
  BY <1>1, <1>3, <1>4 DEF ExpirePool, IsExpiredAt, KeptUntil, ValidCheckpoint, Authorities, Tokens
<1> HIDE DEF d
<1>6. Keeps(a, Refused(d), node)
  BY <1>3, <1>4, <1>5 DEF Keeps, Refused, KeptUntil
<1> QED
  BY <1>6 DEF b, d

\* recover_checkpoint: the active token moves to a fresh lease, and whoever was
\* fenced off stays so for a whole term of the new clock.
LEMMA RecoverMoves ==
  ASSUME NEW a \in Authorities, ValidCheckpoint(a)
  PROVE  LET b == RecoverCheckpoint(a) IN
         /\ b \in Authorities /\ ValidCheckpoint(b) /\ Tight(b)
         /\ b.epoch = a.epoch /\ b.next_fence = a.next_fence
         /\ b.next_lease_id >= a.next_lease_id
         /\ b.active # None <=> a.active # None
         /\ b.active # None => /\ b.active.lease_id = a.next_lease_id
                               /\ b.active.node = a.active.node
                               /\ b.active.fence = a.active.fence
                               /\ b.active.deadline = Term
         /\ b.handoff = IF a.handoff = 0 THEN 0 ELSE Term
<1> DEFINE x == IF a.active = None THEN None
                ELSE [a.active EXCEPT !.lease_id = a.next_lease_id, !.deadline = Term]
           i == IF a.active = None THEN a.next_lease_id ELSE a.next_lease_id + 1
           h == IF a.handoff = 0 THEN 0 ELSE Term
           p == [a EXCEPT !.active = x]
           q == [p EXCEPT !.next_lease_id = i]
           b == [q EXCEPT !.handoff = h]
<1>1. i \in Nat /\ i >= a.next_lease_id /\ h \in Nat
  BY TermAssumption DEF Authorities
<1>2. /\ x \in Tokens \cup {None}
      /\ x # None <=> a.active # None
      /\ x # None => /\ x.lease_id = a.next_lease_id /\ x.deadline = Term
                     /\ x.node = a.active.node /\ x.fence = a.active.fence
                     /\ i = a.next_lease_id + 1
  <2>1. CASE a.active = None
    BY <2>1
  <2>2. CASE a.active # None
    <3> DEFINE y == [a.active EXCEPT !.lease_id = a.next_lease_id]
               z == [y EXCEPT !.deadline = Term]
    <3>1. a.active \in Tokens /\ a.next_lease_id \in Nat
      BY <2>2 DEF Authorities
    <3>2. /\ y \in Tokens /\ y.lease_id = a.next_lease_id
          /\ y.node = a.active.node /\ y.fence = a.active.fence
      BY <3>1 DEF Tokens
    <3> HIDE DEF y
    <3>3. /\ z \in Tokens /\ z.lease_id = a.next_lease_id /\ z.deadline = Term
          /\ z.node = a.active.node /\ z.fence = a.active.fence
      BY <3>2, TermAssumption DEF Tokens
    <3>4. x = z
      BY <2>2 DEF y
    <3> HIDE DEF z
    <3> QED
      BY <2>2, <3>3, <3>4, NoneAssumption
  <2> QED
    BY <2>1, <2>2
<1>3. RecoverCheckpoint(a) = b
  BY DEF RecoverCheckpoint
<1>4. h = IF a.handoff = 0 THEN 0 ELSE Term
  OBVIOUS
<1> HIDE DEF x, i, h
<1>5. /\ p \in Authorities /\ p.epoch = a.epoch /\ p.next_fence = a.next_fence
      /\ p.active = x
  BY <1>2 DEF Authorities
<1> HIDE DEF p
<1>6. /\ q \in Authorities /\ q.epoch = a.epoch /\ q.next_fence = a.next_fence
      /\ q.active = x /\ q.next_lease_id = i
  BY <1>1, <1>5 DEF Authorities
<1> HIDE DEF q
<1>7. /\ b \in Authorities /\ b.epoch = a.epoch /\ b.next_fence = a.next_fence
      /\ b.active = x /\ b.next_lease_id = i /\ b.handoff = h
  BY <1>1, <1>6 DEF Authorities
<1> HIDE DEF b
<1>8. ValidCheckpoint(b) /\ Tight(b)
  BY <1>1, <1>2, <1>4, <1>7, TermAssumption DEF ValidCheckpoint, Tight, Authorities, Tokens
<1> QED
  BY <1>1, <1>2, <1>3, <1>4, <1>7, <1>8

\* A recovered checkpoint keeps the Pool for whom the checkpoint kept it.
LEMMA RecoverKeeps ==
  ASSUME NEW a \in Authorities, NEW node \in Nodes, ValidCheckpoint(a), KeptUntil(a, node) > 0
  PROVE  KeptUntil(RecoverCheckpoint(a), node) = Term
<1>1. /\ RecoverCheckpoint(a).active # None <=> a.active # None
      /\ RecoverCheckpoint(a).active # None =>
           /\ RecoverCheckpoint(a).active.node = a.active.node
           /\ RecoverCheckpoint(a).active.deadline = Term
      /\ RecoverCheckpoint(a).handoff = IF a.handoff = 0 THEN 0 ELSE Term
  BY RecoverMoves
<1> QED
  BY <1>1 DEF KeptUntil, ValidCheckpoint

-----------------------------------------------------------------------------
(* The steps of a carrier *)

\* Carrier c's process becomes the given one, and no other changes.
Becomes(c, pc, token, until, renewal, started, request_id) ==
  /\ carrier' \in [Carriers -> Processes]
  /\ \A d \in Carriers: d # c => carrier'[d] = carrier[d]
  /\ carrier'[c].pc = pc /\ carrier'[c].token = token
  /\ carrier'[c].until = until /\ carrier'[c].renewal = renewal
  /\ carrier'[c].started = started /\ carrier'[c].request_id = request_id

\* Idle forgets everything but the identifier of the latest request.
LEMMA IdleProcess ==
  ASSUME NEW i \in Nat
  PROVE  Idle(i) \in Processes
BY DEF Idle, Processes

\* exchange counts its requests.
LEMMA SendEffect ==
  ASSUME carrier \in [Carriers -> Processes], NEW c \in Carriers, NEW p \in Processes,
         NEW action, NEW token, Send(c, action, token, p)
  PROVE  Becomes(c, p.pc, p.token, p.until, p.renewal, p.started, p.request_id + 1)
<1> DEFINE q == [p EXCEPT !.request_id = @ + 1]
<1>1. p.request_id + 1 \in Nat
  BY DEF Processes
<1>2. /\ q \in Processes /\ q.pc = p.pc /\ q.token = p.token /\ q.until = p.until
      /\ q.renewal = p.renewal /\ q.started = p.started /\ q.request_id = p.request_id + 1
  BY <1>1 DEF Processes
<1>3. carrier' = [carrier EXCEPT ![c] = q]
  BY DEF Send
<1> HIDE DEF q
<1>4. Becomes(c, q.pc, q.token, q.until, q.renewal, q.started, q.request_id)
  BY <1>2, <1>3 DEF Becomes
<1> QED
  BY <1>2, <1>4

\* What each action of a carrier makes of its process.
LEMMA StartAcquireEffect ==
  ASSUME carrier \in [Carriers -> Processes], now \in Nat, NEW c \in Carriers, StartAcquire(c)
  PROVE  Becomes(c, "acquiring", carrier[c].token, carrier[c].until, carrier[c].renewal, now,
                 carrier[c].request_id + 1)
<1> DEFINE q == [carrier[c] EXCEPT !.pc = "acquiring"]
           p == [q EXCEPT !.started = now]
<1>1. /\ q \in Processes /\ q.pc = "acquiring" /\ q.token = carrier[c].token
      /\ q.until = carrier[c].until /\ q.renewal = carrier[c].renewal
      /\ q.request_id = carrier[c].request_id
  BY DEF Processes
<1>2. Send(c, "acquire", None, p)
  BY DEF StartAcquire
<1> HIDE DEF q
<1>3. /\ p \in Processes /\ p.pc = q.pc /\ p.token = q.token /\ p.until = q.until
      /\ p.renewal = q.renewal /\ p.started = now /\ p.request_id = q.request_id
  BY <1>1 DEF Processes
<1> HIDE DEF p
<1>4. Becomes(c, p.pc, p.token, p.until, p.renewal, p.started, p.request_id + 1)
  BY <1>2, <1>3, SendEffect
<1> QED
  BY <1>1, <1>3, <1>4

\* A renewal is sent with the deadline of the grant still running.
LEMMA StartRenewEffect ==
  ASSUME carrier \in [Carriers -> Processes], now \in Nat, NEW c \in Carriers, StartRenew(c)
  PROVE  Becomes(c, "renewing", carrier[c].token, carrier[c].until, 0, now,
                 carrier[c].request_id + 1)
<1> DEFINE q == [carrier[c] EXCEPT !.pc = "renewing"]
           s == [q EXCEPT !.renewal = 0]
           p == [s EXCEPT !.started = now]
<1>1. /\ q \in Processes /\ q.pc = "renewing" /\ q.token = carrier[c].token
      /\ q.until = carrier[c].until /\ q.request_id = carrier[c].request_id
  BY DEF Processes
<1>2. Send(c, "renew", carrier[c].token, p)
  BY DEF StartRenew
<1> HIDE DEF q
<1>3. /\ s \in Processes /\ s.pc = q.pc /\ s.token = q.token /\ s.until = q.until
      /\ s.renewal = 0 /\ s.request_id = q.request_id
  BY <1>1 DEF Processes
<1> HIDE DEF s
<1>4. /\ p \in Processes /\ p.pc = s.pc /\ p.token = s.token /\ p.until = s.until
      /\ p.renewal = s.renewal /\ p.started = now /\ p.request_id = s.request_id
  BY <1>3 DEF Processes
<1> HIDE DEF p
<1>5. Becomes(c, p.pc, p.token, p.until, p.renewal, p.started, p.request_id + 1)
  BY <1>2, <1>4, SendEffect
<1> QED
  BY <1>1, <1>3, <1>4, <1>5

\* A release leaves nothing behind.
LEMMA StartReleaseEffect ==
  ASSUME carrier \in [Carriers -> Processes], NEW c \in Carriers, StartRelease(c)
  PROVE  Becomes(c, "idle", None, 0, 0, 0, carrier[c].request_id + 1)
<1> DEFINE p == Idle(carrier[c].request_id)
<1>1. p \in Processes
  <2>1. carrier[c].request_id \in Nat
    BY DEF Processes
  <2> QED
    BY <2>1, IdleProcess
<1>2. /\ p.pc = "idle" /\ p.token = None /\ p.until = 0 /\ p.renewal = 0 /\ p.started = 0
      /\ p.request_id = carrier[c].request_id
  BY DEF Idle
<1>3. Send(c, "release", carrier[c].token, p)
  BY DEF StartRelease
<1> HIDE DEF p
<1>4. Becomes(c, p.pc, p.token, p.until, p.renewal, p.started, p.request_id + 1)
  BY <1>1, <1>3, SendEffect
<1> QED
  BY <1>2, <1>4

\* A late grant is given back; the grant it would have renewed runs out alone.
LEMMA ReceiveLateEffect ==
  ASSUME carrier \in [Carriers -> Processes], NEW c \in Carriers, NEW g, ReceiveLate(c, g)
  PROVE  \/ /\ carrier[c].pc = "acquiring"
            /\ Becomes(c, "idle", None, 0, 0, 0, carrier[c].request_id + 1)
         \/ /\ carrier[c].pc = "renewing"
            /\ Becomes(c, "cleanup", carrier[c].token, carrier[c].until, carrier[c].renewal,
                       carrier[c].started, carrier[c].request_id + 1)
<1>1. CASE carrier[c].pc = "acquiring"
  <2> DEFINE p == Idle(carrier[c].request_id)
  <2>1. p \in Processes
    <3>1. carrier[c].request_id \in Nat
      BY DEF Processes
    <3> QED
      BY <3>1, IdleProcess
  <2>2. /\ p.pc = "idle" /\ p.token = None /\ p.until = 0 /\ p.renewal = 0 /\ p.started = 0
        /\ p.request_id = carrier[c].request_id
    BY DEF Idle
  <2>3. Send(c, "release", g.token, p)
    BY <1>1 DEF ReceiveLate
  <2> HIDE DEF p
  <2>4. Becomes(c, p.pc, p.token, p.until, p.renewal, p.started, p.request_id + 1)
    BY <2>1, <2>3, SendEffect, Zenon
  <2> QED
    BY <1>1, <2>2, <2>4
<1>2. CASE carrier[c].pc = "renewing"
  <2> DEFINE p == [carrier[c] EXCEPT !.pc = "cleanup"]
  <2>1. /\ p \in Processes /\ p.pc = "cleanup" /\ p.token = carrier[c].token
        /\ p.until = carrier[c].until /\ p.renewal = carrier[c].renewal
        /\ p.started = carrier[c].started /\ p.request_id = carrier[c].request_id
    BY DEF Processes
  <2>2. Send(c, "release", g.token, p)
    BY <1>2 DEF ReceiveLate
  <2> HIDE DEF p
  <2>3. Becomes(c, p.pc, p.token, p.until, p.renewal, p.started, p.request_id + 1)
    BY <2>1, <2>2, SendEffect
  <2> QED
    BY <1>2, <2>1, <2>3
<1> QED
  BY <1>1, <1>2, Zenon DEF ReceiveLate

\* An accepted grant sets the deadline and the next renewal.
LEMMA ReceiveGrantEffect ==
  ASSUME carrier \in [Carriers -> Processes], NEW c \in Carriers, NEW g,
         ReceiveGrant(c, g), g.token \in Tokens,
         ValidUntil(c, g) \in Nat, RenewalAt(ValidUntil(c, g)) \in Nat
  PROVE  Becomes(c, IF carrier[c].pc = "acquiring" THEN "granted" ELSE "live", g.token,
                 ValidUntil(c, g), RenewalAt(ValidUntil(c, g)), 0, carrier[c].request_id)
<1> DEFINE x == IF carrier[c].pc = "acquiring" THEN "granted" ELSE "live"
           u == ValidUntil(c, g)
           w == RenewalAt(u)
           p1 == [carrier[c] EXCEPT !.pc = x]
           p2 == [p1 EXCEPT !.token = g.token]
           p3 == [p2 EXCEPT !.until = u]
           p4 == [p3 EXCEPT !.renewal = w]
           p5 == [p4 EXCEPT !.started = 0]
<1>1. carrier' = [carrier EXCEPT ![c] = p5]
  BY DEF ReceiveGrant
<1>2. x \in {"granted", "live"} /\ u \in Nat /\ w \in Nat
  OBVIOUS
<1> HIDE DEF x, u, w
<1>3. p1 \in Processes /\ p1.pc = x /\ p1.request_id = carrier[c].request_id
  BY <1>2 DEF Processes
<1> HIDE DEF p1
<1>4. p2 \in Processes /\ p2.pc = x /\ p2.token = g.token /\ p2.request_id = carrier[c].request_id
  BY <1>3 DEF Processes
<1> HIDE DEF p2
<1>5. p3 \in Processes /\ p3.pc = x /\ p3.token = g.token /\ p3.until = u
      /\ p3.request_id = carrier[c].request_id
  BY <1>2, <1>4 DEF Processes
<1> HIDE DEF p3
<1>6. p4 \in Processes /\ p4.pc = x /\ p4.token = g.token /\ p4.until = u /\ p4.renewal = w
      /\ p4.request_id = carrier[c].request_id
  BY <1>2, <1>5 DEF Processes
<1> HIDE DEF p4
<1>7. p5 \in Processes /\ p5.pc = x /\ p5.token = g.token /\ p5.until = u /\ p5.renewal = w
      /\ p5.started = 0 /\ p5.request_id = carrier[c].request_id
  BY <1>6, Zenon DEF Processes
<1> HIDE DEF p5
<1>8. Becomes(c, x, g.token, u, w, 0, carrier[c].request_id)
  BY <1>1, <1>7 DEF Becomes
<1> QED
  BY <1>8 DEF x, u, w

\* An import changes nothing but the state.
LEMMA ImportEffect ==
  ASSUME carrier \in [Carriers -> Processes], NEW c \in Carriers, Import(c)
  PROVE  Becomes(c, "live", carrier[c].token, carrier[c].until, carrier[c].renewal,
                 carrier[c].started, carrier[c].request_id)
BY DEF Import, Becomes, Processes

\* A fenced carrier keeps its token, to release it.
LEMMA LoseEffect ==
  ASSUME carrier \in [Carriers -> Processes], NEW c \in Carriers, Lose(c)
  PROVE  Becomes(c, "fenced", carrier[c].token, 0, 0, 0, carrier[c].request_id)
<1> DEFINE p1 == [carrier[c] EXCEPT !.pc = "fenced"]
           p2 == [p1 EXCEPT !.until = 0]
           p3 == [p2 EXCEPT !.renewal = 0]
           p4 == [p3 EXCEPT !.started = 0]
<1>1. carrier' = [carrier EXCEPT ![c] = p4]
  BY DEF Lose
<1>2. p1 \in Processes /\ p1.pc = "fenced" /\ p1.token = carrier[c].token
      /\ p1.request_id = carrier[c].request_id
  BY DEF Processes
<1> HIDE DEF p1
<1>3. p2 \in Processes /\ p2.pc = "fenced" /\ p2.token = carrier[c].token /\ p2.until = 0
      /\ p2.request_id = carrier[c].request_id
  BY <1>2 DEF Processes
<1> HIDE DEF p2
<1>4. p3 \in Processes /\ p3.pc = "fenced" /\ p3.token = carrier[c].token /\ p3.until = 0
      /\ p3.renewal = 0 /\ p3.request_id = carrier[c].request_id
  BY <1>3 DEF Processes
<1> HIDE DEF p3
<1>5. p4 \in Processes /\ p4.pc = "fenced" /\ p4.token = carrier[c].token /\ p4.until = 0
      /\ p4.renewal = 0 /\ p4.started = 0 /\ p4.request_id = carrier[c].request_id
  BY <1>4 DEF Processes
<1> HIDE DEF p4
<1> QED
  BY <1>1, <1>5 DEF Becomes

\* A process that ends leaves only the count of its requests.
LEMMA ExitEffect ==
  ASSUME carrier \in [Carriers -> Processes], NEW c \in Carriers, Exit(c)
  PROVE  Becomes(c, "idle", None, 0, 0, 0, carrier[c].request_id)
<1> DEFINE p == Idle(carrier[c].request_id)
<1>1. p \in Processes
  <2>1. carrier[c].request_id \in Nat
    BY DEF Processes
  <2> QED
    BY <2>1, IdleProcess
<1>2. /\ p.pc = "idle" /\ p.token = None /\ p.until = 0 /\ p.renewal = 0 /\ p.started = 0
      /\ p.request_id = carrier[c].request_id
  BY DEF Idle
<1>3. carrier' = [carrier EXCEPT ![c] = p]
  BY DEF Exit
<1> HIDE DEF p
<1> QED
  BY <1>1, <1>2, <1>3 DEF Becomes

\* The deadline and the renewal a grant sets are times.
LEMMA GrantTimes ==
  ASSUME TypeOK, NEW g \in grants, g.remaining >= Term
  PROVE  /\ ValidUntil(g.to, g) \in Nat
         /\ ValidUntil(g.to, g) > now => RenewalAt(ValidUntil(g.to, g)) \in Nat
<1>1. /\ g.to \in Carriers /\ g.remaining \in Nat /\ g.remaining - 1 \in Nat /\ now \in Nat
      /\ carrier[g.to].started \in Nat
  BY TermAssumption DEF TypeOK, Grants, Processes
<1>2. ValidUntil(g.to, g) \in Nat
  BY <1>1, TicksMono DEF ValidUntil
<1>3. ASSUME NEW u \in Nat, u > now PROVE RenewalAt(u) \in Nat
  <2> DEFINE remaining == (u - now) \div TicksPerMs
             lead == Smaller(Smaller(Larger(remaining \div 3, MinLead), MaxLead),
                             Larger(remaining \div 2, 1))
             wait == IF lead < remaining THEN remaining - lead ELSE 0
  <2>1. u - now \in Nat
    BY <1>1, <1>3
  <2>2. remaining \in Nat
    BY <2>1, TicksAssumption
  <2> HIDE DEF remaining
  <2>3. remaining \div 3 \in Nat /\ remaining \div 2 \in Nat
    BY <2>2
  <2>4. lead \in Nat
    BY <2>3, LeadAssumption DEF Larger, Smaller
  <2> HIDE DEF lead
  <2>5. wait \in Nat
    BY <2>2, <2>4
  <2>6. RenewalAt(u) = now + Ticks(wait)
    BY DEF RenewalAt, remaining, lead
  <2> HIDE DEF wait
  <2>7. Ticks(wait) \in Nat
    BY <2>5, TicksMono
  <2> QED
    BY <1>1, <2>6, <2>7
<1> QED
  BY <1>2, <1>3

\* A handler's clock reading lies between the request and the commit.
LEMMA ReadingBounds ==
  ASSUME origin \in Nat, now \in Nat, NEW t \in Nat, origin <= t, t <= now, NEW at \in ReadSince(t)
  PROVE  at \in Nat /\ Ms(t) <= at /\ at <= Ms(now)
<1>1. Ms(t) \in Nat /\ Ms(now) \in Nat
  BY ReadingOfClock
<1> QED
  BY <1>1, TermAssumption DEF ReadSince, Larger

-----------------------------------------------------------------------------
(* The inductive invariant *)

\* Requests live within one process of the authority and belong to exchanges
\* their carrier began; an answer never outruns its exchange.
Exchanges ==
  /\ origin <= now /\ crashed <= now
  /\ ~up => requests = {}
  /\ \A r \in requests:
       /\ origin <= r.started /\ r.started <= now
       /\ r.request_id <= carrier[r.from].request_id
       /\ Waits(r.from, r.request_id) => r.started = carrier[r.from].started
       /\ r.action # "acquire" => r.token # None
  /\ \A g \in grants: g.request_id <= carrier[g.to].request_id /\ g.remaining >= Term
  /\ \A c \in Carriers: carrier[c].pc \notin {"idle", "acquiring"} => carrier[c].token # None

Authority ==
  /\ mem \in disk
  /\ \A a \in disk: ValidCheckpoint(a) /\ Tight(a)
  /\ BlockedOneTerm

\* A token was granted before the frontiers of every checkpoint, and is not
\* newer than what memory holds under its lease.
Known(t, checkpoints, memory) ==
  /\ \A a \in checkpoints: /\ t.lease_id < a.next_lease_id
                           /\ t.fence.generation < a.next_fence
                           /\ t.fence.epoch <= a.epoch
  /\ memory.active # None /\ memory.active.lease_id = t.lease_id
       => t.deadline <= memory.active.deadline

AllKnown ==
  /\ \A c \in Carriers: carrier[c].token # None => Known(carrier[c].token, disk, mem)
  /\ \A g \in grants: Known(g.token, disk, mem)
  /\ \A r \in requests: r.token # None => Known(r.token, disk, mem)

Base == TypeOK /\ Exchanges /\ Authority /\ AllKnown

-----------------------------------------------------------------------------
(* Base is inductive, wherever the carriers run *)

\* What the transition of a handled request is.
Outcome(r, epoch, at) == Apply(r, AdvanceEpoch(mem, epoch, at), at)

\* A handler reads the clock and the epoch before it locks, and still steps
\* the authority as if it had read them inside.
LEMMA HandleMoves ==
  ASSUME Base, NEW r \in requests, NEW epoch \in mem.epoch..view, NEW at \in ReadSince(r.started)
  PROVE  /\ at \in Nat /\ Ms(r.started) <= at /\ at <= Ms(now) /\ Ms(now) \in Nat
         /\ r \in Requests /\ mem \in Authorities /\ ValidCheckpoint(mem) /\ Tight(mem)
         /\ epoch \in Nat /\ epoch >= mem.epoch /\ (r.action # "acquire" => r.token # None)
         /\ Moves(mem, Outcome(r, epoch, at), NodeOf[r.from], at)
<1>1. /\ origin \in Nat /\ now \in Nat /\ r.started \in Nat
      /\ origin <= now /\ origin <= r.started /\ r.started <= now
      /\ r \in Requests /\ mem \in Authorities
      /\ r.action # "acquire" => r.token # None
  BY DEF Base, TypeOK, Exchanges, Requests
<1>2. at \in Nat /\ Ms(r.started) <= at /\ at <= Ms(now)
  BY <1>1, ReadingBounds
<1>3. Ms(now) \in Nat
  BY <1>1, ReadingOfClock
<1>4. ValidCheckpoint(mem) /\ Tight(mem)
  BY DEF Base, Authority
<1>5. epoch \in Nat /\ epoch >= mem.epoch
  BY <1>1 DEF Base, TypeOK, Authorities
<1>6. Moves(mem, Outcome(r, epoch, at), NodeOf[r.from], at)
  BY <1>1, <1>2, <1>4, <1>5, TransitionMoves, Zenon DEF Outcome
<1> QED
  BY <1>1, <1>2, <1>3, <1>4, <1>5, <1>6, Zenon

\* An observation is such a transition without a request.
LEMMA ObserveMoves ==
  ASSUME Base, NEW epoch \in mem.epoch..view, NEW at \in ReadSince(origin), NEW node
  PROVE  /\ at \in Nat /\ at <= Ms(now) /\ Ms(now) \in Nat
         /\ mem \in Authorities /\ ValidCheckpoint(mem) /\ Tight(mem)
         /\ epoch \in Nat /\ epoch >= mem.epoch
         /\ Moves(mem, Refused(ExpirePool(AdvanceEpoch(mem, epoch, at), at)), node, at)
<1>1. /\ origin \in Nat /\ now \in Nat /\ origin <= now /\ mem \in Authorities
  BY DEF Base, TypeOK, Exchanges
<1>2. at \in Nat /\ at <= Ms(now)
  BY <1>1, ReadingBounds
<1>3. Ms(now) \in Nat
  BY <1>1, ReadingOfClock
<1>4. ValidCheckpoint(mem) /\ Tight(mem)
  BY DEF Base, Authority
<1>5. epoch \in Nat /\ epoch >= mem.epoch
  BY <1>1 DEF Base, TypeOK, Authorities
<1>6. Moves(mem, Refused(ExpirePool(AdvanceEpoch(mem, epoch, at), at)), node, at)
  BY <1>1, <1>2, <1>4, <1>5, ObservationMoves
<1> QED
  BY <1>1, <1>2, <1>3, <1>4, <1>5, <1>6, Zenon

\* The new request of an exchange is one.
LEMMA SendTyped ==
  ASSUME TypeOK, NEW c \in Carriers, NEW action \in {"acquire", "renew", "release"},
         NEW token \in Tokens \cup {None}, NEW p, Send(c, action, token, p)
  PROVE  requests' \in SUBSET Requests /\ sent' \in Nat
BY DEF Send, TypeOK, Requests, Processes

\* Every action keeps every variable within its type.
LEMMA TypeStep ==
  ASSUME Base, [Next]_vars
  PROVE  TypeOK'
<1> USE DEF Base
<1>1. CASE Tick
  <2>1. ahead' \in Nat /\ now' \in Nat
    BY <1>1 DEF Tick, TypeOK, Larger
  <2> QED
    BY <1>1, <2>1, Zenon DEF Tick, TypeOK
<1>2. CASE NewEpoch
  BY <1>2 DEF NewEpoch, TypeOK
<1>3. CASE Crash
  <2>1. requests' \in SUBSET Requests
    BY <1>3 DEF Crash
  <2>2. up' \in BOOLEAN
    <3>1. up' = FALSE
      BY <1>3 DEF Crash
    <3> QED
      BY <3>1, Zenon
  <2> QED
    BY <1>3, <2>1, <2>2 DEF Crash, TypeOK
<1>4. ASSUME NEW r \in requests, Refuse(r) PROVE TypeOK'
  BY <1>4, Zenon DEF Refuse, TypeOK
<1>5. ASSUME NEW r \in requests, NEW epoch \in mem.epoch..view, NEW at \in ReadSince(r.started),
             Handle(r, epoch, at)
      PROVE  TypeOK'
  <2> DEFINE out == Outcome(r, epoch, at)
  <2>1. at \in Nat /\ Moves(mem, out, NodeOf[r.from], at)
    BY HandleMoves
  <2> HIDE DEF out
  <2>2. /\ out.authority \in Authorities
        /\ out.token # None => out.token \in Tokens /\ out.token.deadline - at \in Nat
    <3>1. out.authority \in Authorities
      BY <2>1, Zenon DEF Moves
    <3> QED
      BY <2>1, <3>1, GrantedTerm, Zenon
  <2>3. /\ disk' \in SUBSET Authorities /\ mem' \in Authorities
        /\ faults' \in Nat /\ ahead' \in Nat
    <3>1. /\ mem \in Authorities /\ disk \in SUBSET Authorities
          /\ faults \in Nat /\ ahead \in Nat
      BY Zenon DEF TypeOK
    <3>2. /\ \/ disk' = {out.authority} /\ mem' = out.authority /\ faults' = faults
             \/ disk' = disk \cup {out.authority} /\ mem' = mem /\ faults' = faults + 1
          /\ ahead' = ahead \/ ahead' = ahead + 1
      BY <1>5, Zenon DEF Handle, Outcome, out, PersistAs, PersistFails
    <3> QED
      BY <2>2, <3>1, <3>2
  <2>4. grants' \in SUBSET Grants
    <3>1. r.from \in Carriers /\ r.request_id \in Nat
      BY Zenon DEF TypeOK, Requests
    <3>2. \/ grants' = grants
          \/ /\ out.token # None
             /\ grants' = grants \cup {[to |-> r.from, request_id |-> r.request_id,
                                        token |-> out.token,
                                        remaining |-> out.token.deadline - at]}
      BY <1>5, Zenon DEF Handle, Outcome, out, PersistFails
    <3> QED
      BY <2>2, <3>1, <3>2 DEF TypeOK, Grants
  <2> QED
    BY <1>5, <2>3, <2>4, Zenon DEF Handle, TypeOK
<1>6. ASSUME NEW epoch \in mem.epoch..view, NEW at \in ReadSince(origin), Observe(epoch, at)
      PROVE  TypeOK'
  <2> DEFINE b == ExpirePool(AdvanceEpoch(mem, epoch, at), at)
  <2>1. b \in Authorities
    BY ObserveMoves, Zenon DEF Moves, Refused
  <2>2. /\ \/ disk' = {b} /\ mem' = b /\ faults' = faults
           \/ disk' = disk \cup {b} /\ mem' = mem /\ faults' = faults + 1
        /\ UNCHANGED <<now, origin, up, crashed, ahead, view, requests, grants, carrier, last, sent>>
    BY <1>6, Zenon DEF Observe, PersistAs, PersistFails
  <2> HIDE DEF b
  <2>3. disk' \in SUBSET Authorities /\ mem' \in Authorities /\ faults' \in Nat
    BY <2>1, <2>2 DEF TypeOK
  <2> QED
    BY <2>2, <2>3, Zenon DEF TypeOK
<1>7. ASSUME NEW found \in disk, Restart(found) PROVE TypeOK'
  <2>1. RecoverCheckpoint(found) \in Authorities
    BY RecoverMoves, Zenon DEF TypeOK, Authority
  <2> QED
    BY <1>7, <2>1, Zenon DEF Restart, PersistAs, TypeOK
<1>8. ASSUME NEW found \in disk, RestartUnsynced(found) PROVE TypeOK'
  <2>1. RecoverCheckpoint(found) \in Authorities
    BY RecoverMoves DEF TypeOK, Authority
  <2> QED
    BY <1>8, <2>1 DEF RestartUnsynced, TypeOK
<1>9. ASSUME NEW c \in Carriers, StartAcquire(c) PROVE TypeOK'
  <2>1. carrier' \in [Carriers -> Processes]
    BY <1>9, StartAcquireEffect DEF TypeOK, Becomes
  <2>2. requests' \in SUBSET Requests /\ sent' \in Nat
    BY <1>9, SendTyped DEF StartAcquire
  <2> QED
    BY <1>9, <2>1, <2>2, Zenon DEF StartAcquire, TypeOK
<1>10. ASSUME NEW c \in Carriers, Import(c) PROVE TypeOK'
  <2>1. carrier' \in [Carriers -> Processes]
    BY <1>10, ImportEffect DEF TypeOK, Becomes
  <2> QED
    BY <1>10, <2>1, Zenon DEF Import, TypeOK
<1>11. ASSUME NEW c \in Carriers, StartRenew(c) PROVE TypeOK'
  <2>1. carrier' \in [Carriers -> Processes]
    BY <1>11, StartRenewEffect DEF TypeOK, Becomes
  <2>2. carrier[c].token \in Tokens \cup {None}
    BY DEF TypeOK, Processes
  <2>3. requests' \in SUBSET Requests /\ sent' \in Nat
    BY <1>11, <2>2, SendTyped, Zenon DEF StartRenew
  <2> QED
    BY <1>11, <2>1, <2>3, Zenon DEF StartRenew, TypeOK
<1>12. ASSUME NEW c \in Carriers, Lose(c) PROVE TypeOK'
  <2>1. carrier' \in [Carriers -> Processes]
    BY <1>12, LoseEffect, Zenon DEF TypeOK, Becomes
  <2> QED
    BY <1>12, <2>1, Zenon DEF Lose, TypeOK
<1>13. ASSUME NEW c \in Carriers, StartRelease(c) PROVE TypeOK'
  <2>1. carrier' \in [Carriers -> Processes]
    BY <1>13, StartReleaseEffect, Zenon DEF TypeOK, Becomes
  <2>2. carrier[c].token \in Tokens \cup {None}
    BY DEF TypeOK, Processes
  <2>3. requests' \in SUBSET Requests /\ sent' \in Nat
    BY <1>13, <2>2, SendTyped, Zenon DEF StartRelease
  <2> QED
    BY <1>13, <2>1, <2>3, Zenon DEF StartRelease, TypeOK
<1>14. ASSUME NEW c \in Carriers, Exit(c) PROVE TypeOK'
  <2>1. carrier' \in [Carriers -> Processes]
    BY <1>14, ExitEffect, Zenon DEF TypeOK, Becomes
  <2> QED
    BY <1>14, <2>1, Zenon DEF Exit, TypeOK
<1>15. ASSUME NEW c \in Carriers, NEW g \in grants, ReceiveGrant(c, g) PROVE TypeOK'
  <2>1. /\ g.to = c /\ g.token \in Tokens /\ g.token.fence \in Fences
        /\ g.remaining >= Term /\ ValidUntil(c, g) > now
    BY <1>15, Zenon DEF ReceiveGrant, Answers, TypeOK, Grants, Exchanges, Tokens
  <2>2. ValidUntil(c, g) \in Nat /\ RenewalAt(ValidUntil(c, g)) \in Nat
    BY <2>1, GrantTimes, Zenon
  <2>3. carrier' \in [Carriers -> Processes]
    <3>1. Becomes(c, IF carrier[c].pc = "acquiring" THEN "granted" ELSE "live", g.token,
                 ValidUntil(c, g), RenewalAt(ValidUntil(c, g)), 0, carrier[c].request_id)
      BY <1>15, <2>1, <2>2, ReceiveGrantEffect, Zenon DEF TypeOK
    <3> QED
      BY <3>1, Zenon DEF Becomes
  <2>4. last' \in [node: Nodes \cup {None}, fence: Fences]
    BY <1>15, <2>1, CarriersAssumption DEF ReceiveGrant
  <2> QED
    BY <1>15, <2>3, <2>4, Zenon DEF ReceiveGrant, TypeOK
<1>16. ASSUME NEW c \in Carriers, NEW g \in grants, ReceiveLate(c, g) PROVE TypeOK'
  <2>1. carrier' \in [Carriers -> Processes]
    BY <1>16, ReceiveLateEffect, Zenon DEF TypeOK, Becomes
  <2>2. g.token \in Tokens
    BY DEF TypeOK, Grants
  <2>3. requests' \in SUBSET Requests /\ sent' \in Nat
    BY <1>16, <2>2, SendTyped, Zenon DEF ReceiveLate
  <2> QED
    BY <1>16, <2>1, <2>3, Zenon DEF ReceiveLate, TypeOK
<1>17. CASE UNCHANGED vars
  BY <1>17, Zenon DEF vars, TypeOK
<1> QED
  BY <1>1, <1>2, <1>3, <1>4, <1>5, <1>6, <1>7, <1>8, <1>9, <1>10, <1>11, <1>12, <1>13,
     <1>14, <1>15, <1>16, <1>17, Zenon DEF Next

\* Carrier c sends request q, the first of its exchange.
Sends(c, q) ==
  /\ requests' = requests \cup {q}
  /\ q.from = c /\ q.request_id = carrier[c].request_id + 1 /\ q.started = now
  /\ q.action # "acquire" => q.token # None
  /\ carrier'[c].request_id = q.request_id

\* No carrier but c changes.
Alone(c) ==
  /\ carrier' \in [Carriers -> Processes]
  /\ \A d \in Carriers: d # c => carrier'[d] = carrier[d]
  /\ carrier'[c].pc \notin {"idle", "acquiring"} => carrier'[c].token # None

\* A carrier that sends begins the exchange of its latest request.
LEMMA SendKeepsExchanges ==
  ASSUME TypeOK, Exchanges, up, NEW c \in Carriers, NEW q, Alone(c), Sends(c, q),
         grants' \in SUBSET grants,
         carrier'[c].pc \in {"acquiring", "renewing"} => carrier'[c].started = now,
         UNCHANGED <<now, origin, up, crashed>>
  PROVE  Exchanges'
<1>1. carrier[c].request_id \in Nat /\ now \in Nat /\ origin \in Nat
  BY DEF TypeOK, Processes
<1>2. \A r \in requests': r = q \/ r \in requests
  BY Zenon DEF Sends
<1>3. \A r \in requests': /\ origin' <= r.started /\ r.started <= now'
                          /\ r.action # "acquire" => r.token # None
  <2>1. origin <= now /\ q.started = now /\ (q.action # "acquire" => q.token # None)
    BY Zenon DEF Exchanges, Sends
  <2>2. now <= now
    BY <1>1, Orders, Zenon
  <2> QED
    BY <1>2, <2>1, <2>2, Zenon DEF Exchanges
<1>4. ASSUME NEW r \in requests'
      PROVE  /\ r.request_id <= carrier'[r.from].request_id
             /\ Waits(r.from, r.request_id)' => r.started = carrier'[r.from].started
  <2>1. CASE r = q
    BY <1>1, <2>1 DEF Alone, Sends, Waits
  <2>2. CASE r \in requests /\ r.from = c
    <3>1. r.request_id \in Nat /\ r.request_id <= carrier[c].request_id
      BY <2>2, Zenon DEF Exchanges, TypeOK, Requests
    <3>2. carrier'[c].request_id = carrier[c].request_id + 1
      BY Zenon DEF Sends
    <3>3. r.request_id < carrier'[c].request_id
      BY <1>1, <3>1, <3>2
    <3> QED
      BY <1>1, <2>2, <3>1, <3>2, <3>3 DEF Waits
  <2>3. CASE r \in requests /\ r.from # c
    <3>1. r.from \in Carriers
      BY <2>3, Zenon DEF TypeOK, Requests
    <3> QED
      BY <2>3, <3>1, Zenon DEF Alone, Waits, Exchanges
  <2> QED
    BY <1>2, <2>1, <2>2, <2>3, Zenon
<1>5. ASSUME NEW g \in grants'
      PROVE  g.request_id <= carrier'[g.to].request_id /\ g.remaining >= Term
  <2>1. g \in grants /\ g.to \in Carriers /\ g.request_id \in Nat
    BY Zenon DEF TypeOK, Grants
  <2>2. g.request_id <= carrier[g.to].request_id /\ g.remaining >= Term
    BY <2>1, Zenon DEF Exchanges
  <2> QED
    BY <1>1, <2>1, <2>2 DEF Alone, Sends
<1>6. \A d \in Carriers: carrier'[d].pc \notin {"idle", "acquiring"} => carrier'[d].token # None
  BY Zenon DEF Alone, Exchanges
<1> QED
  BY <1>3, <1>4, <1>5, <1>6, Zenon DEF Exchanges

\* A carrier that sends nothing ends its exchange, if it had one.
LEMMA QuietKeepsExchanges ==
  ASSUME TypeOK, Exchanges, NEW c \in Carriers, Alone(c),
         carrier'[c].request_id = carrier[c].request_id,
         carrier'[c].pc \notin {"acquiring", "renewing"},
         grants' \in SUBSET grants,
         UNCHANGED <<now, origin, up, crashed, requests>>
  PROVE  Exchanges'
<1>1. ASSUME NEW r \in requests
      PROVE  /\ r.request_id <= carrier'[r.from].request_id
             /\ Waits(r.from, r.request_id)' => r.started = carrier'[r.from].started
  <2>1. r.from \in Carriers
    BY Zenon DEF TypeOK, Requests
  <2>2. CASE r.from = c
    BY <2>2, Zenon DEF Waits, Exchanges
  <2>3. CASE r.from # c
    BY <2>1, <2>3 DEF Alone, Waits, Exchanges
  <2> QED
    BY <2>2, <2>3, Zenon
<1>2. ASSUME NEW g \in grants'
      PROVE  g.request_id <= carrier'[g.to].request_id /\ g.remaining >= Term
  <2>1. g \in grants /\ g.to \in Carriers
    BY Zenon DEF TypeOK, Grants
  <2> QED
    BY <2>1, Zenon DEF Alone, Exchanges
<1>3. \A d \in Carriers: carrier'[d].pc \notin {"idle", "acquiring"} => carrier'[d].token # None
  BY Zenon DEF Alone, Exchanges
<1> QED
  BY <1>1, <1>2, <1>3, Zenon DEF Exchanges

\* Every action keeps requests and answers with their exchanges.
LEMMA ExchangesStep ==
  ASSUME Base, [Next]_vars
  PROVE  Exchanges'
<1> USE DEF Base
<1>0. now \in Nat /\ origin \in Nat /\ crashed \in Nat /\ carrier \in [Carriers -> Processes]
  BY Zenon DEF TypeOK
<1>1. CASE Tick
  <2>1. \A r \in requests: r.started \in Nat
    BY Zenon DEF TypeOK, Requests
  <2>2. \A x \in Nat: x <= now => x <= now'
    BY <1>0, <1>1, Past, Zenon DEF Tick
  <2> QED
    BY <1>0, <1>1, <2>1, <2>2, Zenon DEF Tick, Exchanges, Waits
<1>2. CASE NewEpoch
  BY <1>2, Zenon DEF NewEpoch, Exchanges, Waits
<1>3. CASE Crash
  BY <1>0, <1>3 DEF Crash, Exchanges, Waits
<1>4. ASSUME NEW r \in requests, Refuse(r) PROVE Exchanges'
  BY <1>4, Zenon DEF Refuse, Exchanges, Waits
<1>5. ASSUME NEW r \in requests, NEW epoch \in mem.epoch..view, NEW at \in ReadSince(r.started),
             Handle(r, epoch, at)
      PROVE  Exchanges'
  <2> DEFINE out == Outcome(r, epoch, at)
  <2>1. at \in Nat /\ Moves(mem, out, NodeOf[r.from], at)
    BY HandleMoves
  <2> HIDE DEF out
  <2>2. out.token # None => out.token.deadline - at >= Term
    BY <2>1, GrantedTerm, Zenon
  <2>3. \A g \in grants': g.request_id <= carrier[g.to].request_id /\ g.remaining >= Term
    <3>1. r.request_id <= carrier[r.from].request_id
      BY Zenon DEF Exchanges
    <3>2. \/ grants' = grants
          \/ /\ out.token # None
             /\ grants' = grants \cup {[to |-> r.from, request_id |-> r.request_id,
                                        token |-> out.token,
                                        remaining |-> out.token.deadline - at]}
      BY <1>5, ZenonT(60) DEF Handle, PersistFails, Outcome, out
    <3>3. ASSUME NEW g \in grants'
          PROVE  g.request_id <= carrier[g.to].request_id /\ g.remaining >= Term
      <4>1. CASE g \in grants
        BY <4>1, Zenon DEF Exchanges
      <4>2. CASE /\ out.token # None
                 /\ g = [to |-> r.from, request_id |-> r.request_id, token |-> out.token,
                         remaining |-> out.token.deadline - at]
        BY <2>2, <3>1, <4>2
      <4> QED
        BY <3>2, <3>3, <4>1, <4>2
    <3> QED
      BY <3>3
  <2> QED
    BY <1>5, <2>3, Zenon DEF Handle, Exchanges, Waits
<1>6. ASSUME NEW epoch \in mem.epoch..view, NEW at \in ReadSince(origin), Observe(epoch, at)
      PROVE  Exchanges'
  BY <1>6, Zenon DEF Observe, PersistFails, Exchanges, Waits
<1>7. ASSUME NEW found \in disk, Restart(found) PROVE Exchanges'
  <2>1. /\ requests = {} /\ up' = TRUE /\ origin' = now /\ crashed' = 0
        /\ UNCHANGED <<now, requests, grants, carrier>>
    BY <1>7, Zenon DEF Restart, Exchanges
  <2>2. origin' <= now' /\ crashed' <= now'
    BY <1>0, <2>1, Orders, Zenon
  <2> QED
    BY <2>1, <2>2, Zenon DEF Exchanges
<1>8. ASSUME NEW found \in disk, RestartUnsynced(found) PROVE Exchanges'
  BY <1>8 DEF RestartUnsynced, Exchanges, Waits
<1>9. ASSUME NEW c \in Carriers, StartAcquire(c) PROVE Exchanges'
  <2>1. Becomes(c, "acquiring", carrier[c].token, carrier[c].until, carrier[c].renewal, now,
                carrier[c].request_id + 1)
    BY <1>0, <1>9, StartAcquireEffect
  <2> DEFINE q == [from |-> c, request_id |-> carrier[c].request_id + 1, action |-> "acquire",
                   token |-> None, started |-> now]
  <2>8. requests' = requests \cup {q}
    BY <1>9, Zenon DEF StartAcquire, Send
  <2>9. Alone(c) /\ Sends(c, q)
    BY <2>1, <2>8 DEF Alone, Sends, Becomes
  <2> HIDE DEF q
  <2> QED
    BY <1>9, <2>1, <2>9, SendKeepsExchanges, Zenon DEF StartAcquire, Becomes
<1>10. ASSUME NEW c \in Carriers, Import(c) PROVE Exchanges'
  <2>1. Becomes(c, "live", carrier[c].token, carrier[c].until, carrier[c].renewal,
                 carrier[c].started, carrier[c].request_id)
    BY <1>0, <1>10, ImportEffect
  <2>2. carrier[c].token # None
    BY <1>10, Zenon DEF Import, Exchanges
  <2>3. Alone(c)
    BY <2>1, <2>2 DEF Alone, Becomes
  <2> QED
    BY <1>10, <2>1, <2>2, <2>3, QuietKeepsExchanges, Zenon DEF Import, Becomes
<1>11. ASSUME NEW c \in Carriers, StartRenew(c) PROVE Exchanges'
  <2>1. Becomes(c, "renewing", carrier[c].token, carrier[c].until, 0, now,
                carrier[c].request_id + 1)
    BY <1>0, <1>11, StartRenewEffect
  <2>2. carrier[c].token # None
    BY <1>11 DEF StartRenew, Exchanges
  <2> DEFINE q == [from |-> c, request_id |-> carrier[c].request_id + 1, action |-> "renew",
                   token |-> carrier[c].token, started |-> now]
  <2>8. requests' = requests \cup {q}
    BY <1>11, Zenon DEF StartRenew, Send
  <2>9. Alone(c) /\ Sends(c, q)
    BY <2>1, <2>2, <2>8 DEF Alone, Sends, Becomes
  <2> HIDE DEF q
  <2> QED
    BY <1>11, <2>1, <2>9, SendKeepsExchanges, Zenon DEF StartRenew, Becomes
<1>12. ASSUME NEW c \in Carriers, Lose(c) PROVE Exchanges'
  <2>1. Becomes(c, "fenced", carrier[c].token, 0, 0, 0, carrier[c].request_id)
    BY <1>0, <1>12, LoseEffect
  <2>2. carrier[c].token # None /\ grants' \in SUBSET grants
    BY <1>12 DEF Lose, Exchanges
  <2>3. Alone(c)
    BY <2>1, <2>2, Zenon DEF Alone, Becomes
  <2> QED
    BY <1>12, <2>1, <2>2, <2>3, QuietKeepsExchanges, Zenon DEF Lose, Becomes
<1>13. ASSUME NEW c \in Carriers, StartRelease(c) PROVE Exchanges'
  <2>1. Becomes(c, "idle", None, 0, 0, 0, carrier[c].request_id + 1)
    BY <1>0, <1>13, StartReleaseEffect, Zenon
  <2>2. carrier[c].token # None
    BY <1>13, Zenon DEF StartRelease, Exchanges
  <2> DEFINE q == [from |-> c, request_id |-> carrier[c].request_id + 1, action |-> "release",
                   token |-> carrier[c].token, started |-> now]
  <2>8. requests' = requests \cup {q}
    BY <1>13, Zenon DEF StartRelease, Send
  <2>9. Alone(c) /\ Sends(c, q)
    BY <2>1, <2>2, <2>8, Zenon DEF Alone, Sends, Becomes
  <2> HIDE DEF q
  <2> QED
    BY <1>13, <2>1, <2>9, SendKeepsExchanges, Zenon DEF StartRelease, Becomes
<1>14. ASSUME NEW c \in Carriers, Exit(c) PROVE Exchanges'
  <2>1. Becomes(c, "idle", None, 0, 0, 0, carrier[c].request_id)
    BY <1>0, <1>14, ExitEffect
  <2>2. grants' \in SUBSET grants
    BY <1>14, Zenon DEF Exit
  <2>3. Alone(c)
    BY <2>1, <2>2, Zenon DEF Alone, Becomes
  <2> QED
    BY <1>14, <2>1, <2>2, <2>3, QuietKeepsExchanges, Zenon DEF Exit, Becomes
<1>15. ASSUME NEW c \in Carriers, NEW g \in grants, ReceiveGrant(c, g) PROVE Exchanges'
  <2>1. /\ g.to = c /\ g.token \in Tokens /\ g.token # None
        /\ g.remaining >= Term /\ ValidUntil(c, g) > now
    BY <1>15, NoneAssumption, Zenon DEF ReceiveGrant, Answers, TypeOK, Grants, Exchanges
  <2>2. ValidUntil(c, g) \in Nat /\ RenewalAt(ValidUntil(c, g)) \in Nat
    BY <2>1, GrantTimes, Zenon
  <2> DEFINE x == IF carrier[c].pc = "acquiring" THEN "granted" ELSE "live"
  <2>3. Becomes(c, x, g.token, ValidUntil(c, g), RenewalAt(ValidUntil(c, g)), 0,
                carrier[c].request_id)
    BY <1>0, <1>15, <2>1, <2>2, ReceiveGrantEffect
  <2>4. x \in {"granted", "live"} /\ grants' \in SUBSET grants
    BY <1>15, Zenon DEF ReceiveGrant
  <2> HIDE DEF x
  <2>5. Alone(c)
    BY <2>1, <2>3 DEF Alone, Becomes
  <2> QED
    BY <1>15, <2>3, <2>4, <2>5, QuietKeepsExchanges, Zenon DEF ReceiveGrant, Becomes
<1>16. ASSUME NEW c \in Carriers, NEW g \in grants, ReceiveLate(c, g) PROVE Exchanges'
  <2>1. g.token # None /\ grants' \in SUBSET grants
    BY <1>16, NoneAssumption DEF TypeOK, Grants, ReceiveLate
  <2> DEFINE q == [from |-> c, request_id |-> carrier[c].request_id + 1, action |-> "release",
                   token |-> g.token, started |-> now]
  <2>2. requests' = requests \cup {q}
    BY <1>16, Zenon DEF ReceiveLate, Send
  <2>3. carrier[c].pc = "renewing" => carrier[c].token # None
    BY Zenon DEF Exchanges
  <2>4. /\ Alone(c) /\ carrier'[c].pc \in {"idle", "cleanup"}
        /\ carrier'[c].request_id = carrier[c].request_id + 1
    BY <1>0, <1>16, <2>3, ReceiveLateEffect, Zenon DEF Alone, Becomes
  <2>5. Sends(c, q)
    BY <2>1, <2>2, <2>4, Zenon DEF Sends
  <2> HIDE DEF q
  <2> QED
    BY <1>16, <2>1, <2>4, <2>5, SendKeepsExchanges DEF ReceiveLate
<1>17. CASE UNCHANGED vars
  BY <1>17, Zenon DEF vars, Exchanges, Waits
<1> QED
  BY <1>1, <1>2, <1>3, <1>4, <1>5, <1>6, <1>7, <1>8, <1>9, <1>10, <1>11, <1>12, <1>13,
     <1>14, <1>15, <1>16, <1>17, Zenon DEF Next

\* No action of a carrier reaches into the authority.
LEMMA CarrierSteps ==
  ASSUME NEW c \in Carriers,
         \/ StartAcquire(c) \/ Import(c) \/ StartRenew(c)
         \/ Lose(c) \/ StartRelease(c) \/ Exit(c)
         \/ \E g \in grants: ReceiveGrant(c, g) \/ ReceiveLate(c, g)
  PROVE  UNCHANGED <<now, origin, up, crashed, ahead, view, mem, disk>>
<1>1. StartAcquire(c) => UNCHANGED <<now, origin, up, crashed, ahead, view, mem, disk>>
  BY DEF StartAcquire
<1>2. Import(c) => UNCHANGED <<now, origin, up, crashed, ahead, view, mem, disk>>
  BY DEF Import
<1>3. StartRenew(c) => UNCHANGED <<now, origin, up, crashed, ahead, view, mem, disk>>
  BY DEF StartRenew
<1>4. Lose(c) => UNCHANGED <<now, origin, up, crashed, ahead, view, mem, disk>>
  BY Zenon DEF Lose
<1>5. StartRelease(c) => UNCHANGED <<now, origin, up, crashed, ahead, view, mem, disk>>
  BY Zenon DEF StartRelease
<1>6. Exit(c) => UNCHANGED <<now, origin, up, crashed, ahead, view, mem, disk>>
  BY DEF Exit
<1>7. ASSUME NEW g \in grants, ReceiveGrant(c, g)
      PROVE  UNCHANGED <<now, origin, up, crashed, ahead, view, mem, disk>>
  BY <1>7, Zenon DEF ReceiveGrant
<1>8. ASSUME NEW g \in grants, ReceiveLate(c, g)
      PROVE  UNCHANGED <<now, origin, up, crashed, ahead, view, mem, disk>>
  BY <1>8 DEF ReceiveLate
<1> QED
  BY <1>1, <1>2, <1>3, <1>4, <1>5, <1>6, <1>7, <1>8, Zenon

\* A committed transition blocks the Pool for no longer than a term from now,
\* and a millisecond more if it is another renewal.
LEMMA TransitionBlocks ==
  ASSUME NEW out, NEW node, NEW at \in Nat, Moves(mem, out, node, at),
         mem \in Authorities, ValidCheckpoint(mem), Tight(mem),
         Ms(now) \in Nat, at <= Ms(now), ahead \in Nat,
         mem.handoff <= Ms(now) + Term + ahead,
         mem.active # None => mem.active.deadline <= Ms(now) + Term + ahead,
         mem' = out.authority, Ms(now)' = Ms(now),
         ahead' = IF IsRenewal(out.token) THEN ahead + 1 ELSE ahead
  PROVE  BlockedOneTerm'
<1> DEFINE b == out.authority
           most == Ms(now) + Term + ahead
<1>1. /\ b \in Authorities /\ Term \in Nat /\ most \in Nat
      /\ b.active # None => b.active \in Tokens /\ b.active.deadline \in Nat
      /\ mem.active # None => mem.active \in Tokens /\ mem.active.deadline \in Nat
      /\ mem.handoff \in Nat /\ b.handoff \in Nat
  <2>1. b \in Authorities
    BY Zenon DEF Moves
  <2>2. Term \in Nat /\ most \in Nat
    BY TermAssumption, Sum, Zenon
  <2> HIDE DEF b
  <2> QED
    BY <2>1, <2>2, AuthorityNumbers, TokenNumbers, Zenon
<1>2. b.handoff <= most
  BY <1>1 DEF Moves
<1>3. ahead' = ahead \/ ahead' = ahead + 1
  BY Zenon
<1>4. ASSUME b.active # None PROVE b.active.deadline <= Ms(now) + Term + ahead'
  <2>1. CASE out.token = None
    <3>1. b.active = mem.active
      BY <1>4, <2>1, Zenon DEF Moves
    <3> QED
      BY <1>1, <1>3, <1>4, <3>1
  <2>2. CASE out.token # None
    <3>1. /\ b.active = out.token
          /\ \/ out.token.deadline = at + Term
             \/ /\ mem.active # None /\ out.token.lease_id = mem.active.lease_id
                /\ out.token.deadline = mem.active.deadline + 1
      BY <2>2, Zenon DEF Moves
    <3>2. CASE out.token.deadline = at + Term
      BY <1>1, <1>3, <3>1, <3>2
    <3>3. CASE /\ mem.active # None /\ out.token.lease_id = mem.active.lease_id
               /\ out.token.deadline = mem.active.deadline + 1
      <4>1. mem.active.lease_id < mem.next_lease_id
        BY <3>3, Zenon DEF ValidCheckpoint
      <4>2. IsRenewal(out.token)
        BY <2>2, <3>3, <4>1, Zenon DEF IsRenewal
      <4>3. ahead' = ahead + 1
        BY <4>2, Zenon
      <4> QED
        BY <1>1, <3>1, <3>3, <4>3
    <3> QED
      BY <3>1, <3>2, <3>3, Zenon
  <2> QED
    BY <2>1, <2>2
<1>5. b.handoff <= Ms(now) + Term + ahead'
  BY <1>1, <1>2, <1>3
<1> QED
  BY <1>4, <1>5, Zenon DEF BlockedOneTerm

\* Every action keeps memory among the checkpoints, every checkpoint one that
\* a restart accepts, and the Pool blocked for no more than a term.
LEMMA AuthorityStep ==
  ASSUME Base, [Next]_vars
  PROVE  Authority'
<1> USE DEF Base
<1>0. /\ now \in Nat /\ origin \in Nat /\ origin <= now /\ mem \in Authorities
      /\ Ms(now) \in Nat /\ mem \in disk /\ disk \in SUBSET Authorities /\ ahead \in Nat
  BY ReadingOfClock, Zenon DEF TypeOK, Exchanges, Authority
<1>1. CASE Tick
  <2>1. Ms(now) <= Ms(now + 1) /\ Ms(now + 1) \in Nat
    BY <1>0, ReadingsGrow, ReadingOfClock
  <2>2. Ms(now)' = Ms(now + 1)
    BY <1>1, Zenon DEF Tick, Ms
  <2>3. /\ up => mem.handoff <= Ms(now) + Term + ahead
        /\ up /\ mem.active # None => mem.active.deadline <= Ms(now) + Term + ahead
    BY Zenon DEF Authority, BlockedOneTerm
  <2>4. up => ahead' = IF Ms(now + 1) > Ms(now) THEN Larger(ahead - 1, 0) ELSE ahead
    BY <1>1, Zenon DEF Tick
  <2>5. up => Ms(now) + Term + ahead <= Ms(now + 1) + Term + ahead' /\ ahead' \in Nat
    BY <1>0, <2>1, <2>4, TermAssumption DEF Larger
  <2>6. /\ up => mem.handoff <= Ms(now + 1) + Term + ahead'
        /\ up /\ mem.active # None => mem.active.deadline <= Ms(now + 1) + Term + ahead'
    <3>1. mem.handoff \in Nat /\ (mem.active # None => mem.active.deadline \in Nat)
      BY <1>0, AuthorityNumbers, TokenNumbers, Zenon
    <3> QED
      BY <1>0, <2>1, <2>3, <2>5, <3>1, TermAssumption
  <2> QED
    BY <1>1, <2>2, <2>6, Zenon DEF Tick, Authority, BlockedOneTerm
<1>2. CASE UNCHANGED <<now, origin, up, ahead, mem, disk>>
  BY <1>2 DEF Authority, BlockedOneTerm, Ms
<1>3. CASE NewEpoch
  BY <1>2, <1>3, Zenon DEF NewEpoch
<1>4. CASE Crash
  BY <1>4 DEF Crash, Authority, BlockedOneTerm
<1>5. ASSUME NEW r \in requests, NEW epoch \in mem.epoch..view, NEW at \in ReadSince(r.started),
             Handle(r, epoch, at)
      PROVE  Authority'
  <2> DEFINE out == Outcome(r, epoch, at)
  <2>1. /\ Moves(mem, out, NodeOf[r.from], at)
        /\ at \in Nat /\ at <= Ms(now) /\ ValidCheckpoint(mem) /\ Tight(mem)
    BY HandleMoves, Zenon
  <2> HIDE DEF out
  <2>2. /\ ValidCheckpoint(out.authority) /\ Tight(out.authority)
        /\ out.authority.handoff \in {0, mem.handoff}
           \/ (mem.active # None /\ out.authority.handoff = mem.active.deadline)
    BY <2>1, Zenon DEF Moves
  <2>3. up /\ Ms(now)' = Ms(now) /\ up' = up
    BY <1>5, Zenon DEF Handle, Ms
  <2>4. \/ /\ disk' = {out.authority} /\ mem' = out.authority
           /\ ahead' = IF IsRenewal(out.token) THEN ahead + 1 ELSE ahead
        \/ disk' = disk \cup {out.authority} /\ mem' = mem /\ ahead' = ahead
    BY <1>5, Zenon DEF Handle, PersistAs, PersistFails, Outcome, out
  <2>5. /\ mem.handoff <= Ms(now) + Term + ahead
        /\ mem.active # None => mem.active.deadline <= Ms(now) + Term + ahead
    BY <2>3, Zenon DEF Authority, BlockedOneTerm
  <2>6. BlockedOneTerm'
    <3>1. CASE mem' = mem /\ ahead' = ahead
      BY <2>3, <2>5, <3>1, Zenon DEF BlockedOneTerm
    <3>2. CASE /\ mem' = out.authority
               /\ ahead' = IF IsRenewal(out.token) THEN ahead + 1 ELSE ahead
      BY <1>0, <2>1, <2>3, <2>5, <3>2, TransitionBlocks
    <3> QED
      BY <2>4, <3>1, <3>2, Zenon
  <2> QED
    BY <2>2, <2>4, <2>6, Zenon DEF Authority
<1>6. ASSUME NEW epoch \in mem.epoch..view, NEW at \in ReadSince(origin), Observe(epoch, at)
      PROVE  Authority'
  <2> DEFINE b == ExpirePool(AdvanceEpoch(mem, epoch, at), at)
  <2>1. /\ ValidCheckpoint(b) /\ Tight(b)
        /\ b.handoff \in {0, mem.handoff} \/ (mem.active # None /\ b.handoff = mem.active.deadline)
        /\ b.active # None => b.active = mem.active
    BY ObserveMoves, Zenon DEF Moves, Refused
  <2>2. /\ up /\ up' = up /\ Ms(now)' = Ms(now) /\ ahead' = ahead
        /\ \/ disk' = {b} /\ mem' = b
           \/ disk' = disk \cup {b} /\ mem' = mem
    BY <1>6, Zenon DEF Observe, PersistAs, PersistFails, Ms
  <2> HIDE DEF b
  <2>3. /\ mem.handoff <= Ms(now) + Term + ahead
        /\ mem.active # None => mem.active.deadline <= Ms(now) + Term + ahead
    BY <2>2, Zenon DEF Authority, BlockedOneTerm
  <2>4. b.handoff <= Ms(now) + Term + ahead
    BY <1>0, <2>1, <2>3, TermAssumption
  <2>5. BlockedOneTerm'
    BY <2>1, <2>2, <2>3, <2>4, Zenon DEF BlockedOneTerm
  <2> QED
    BY <2>1, <2>2, <2>5, Zenon DEF Authority
<1>7. ASSUME NEW found \in disk, Restart(found) PROVE Authority'
  <2> DEFINE b == RecoverCheckpoint(found)
  <2>1. found \in Authorities /\ ValidCheckpoint(found)
    BY <1>0, Zenon DEF Authority
  <2>2. /\ ValidCheckpoint(b) /\ Tight(b) /\ b.handoff \in {0, Term}
        /\ b.active # None => b.active.deadline = Term
    BY <2>1, RecoverMoves, Zenon
  <2>3. disk' = {b} /\ mem' = b /\ now' = now /\ origin' = now /\ ahead' = 0
    BY <1>7 DEF Restart, PersistAs
  <2> HIDE DEF b
  <2>4. Ms(now)' \in Nat
    <3>1. (now - now) \div TicksPerMs \in Nat
      BY <1>0, TicksAssumption
    <3> QED
      BY <2>3, <3>1, Zenon DEF Ms
  <2> QED
    BY <2>2, <2>3, <2>4, TermAssumption DEF Authority, BlockedOneTerm
<1>8. ASSUME NEW found \in disk, RestartUnsynced(found) PROVE Authority'
  <2> DEFINE b == RecoverCheckpoint(found)
  <2>1. found \in Authorities /\ ValidCheckpoint(found)
    BY <1>0, Zenon DEF Authority
  <2>2. ValidCheckpoint(b) /\ Tight(b)
    BY <2>1, RecoverMoves, Zenon
  <2>3. disk' = disk \cup {b} /\ mem' = mem /\ ~up /\ up' = up
    BY <1>8 DEF RestartUnsynced
  <2> HIDE DEF b
  <2> QED
    BY <2>2, <2>3, Zenon DEF Authority, BlockedOneTerm
<1>9. ASSUME NEW r \in requests, Refuse(r) PROVE Authority'
  BY <1>2, <1>9, Zenon DEF Refuse
<1>10. ASSUME NEW c \in Carriers,
              \/ StartAcquire(c) \/ Import(c) \/ StartRenew(c)
              \/ Lose(c) \/ StartRelease(c) \/ Exit(c)
              \/ \E g \in grants: ReceiveGrant(c, g) \/ ReceiveLate(c, g)
       PROVE  Authority'
  BY <1>2, <1>10, CarrierSteps
<1>11. CASE UNCHANGED vars
  BY <1>2, <1>11, Zenon DEF vars
<1> QED
  BY <1>1, <1>3, <1>4, <1>5, <1>6, <1>7, <1>8, <1>9, <1>10, <1>11, Zenon DEF Next

\* A transition of the authority leaves known tokens known.
LEMMA KnownStays ==
  ASSUME TypeOK, mem \in disk, NEW t \in Tokens, Known(t, disk, mem),
         NEW out, NEW node, NEW at, Moves(mem, out, node, at),
         disk' \in SUBSET (disk \cup {out.authority}),
         mem' = mem \/ mem' = out.authority
  PROVE  Known(t, disk', mem')
<1> DEFINE b == out.authority
<1>1. /\ b \in Authorities /\ mem \in Authorities /\ disk \in SUBSET Authorities
      /\ t.lease_id \in Nat /\ t.fence.generation \in Nat /\ t.fence.epoch \in Nat
      /\ t.deadline \in Nat
  BY Zenon DEF Moves, TypeOK, Tokens, Fences
<1>2. /\ b.epoch >= mem.epoch
      /\ b.next_lease_id >= mem.next_lease_id /\ b.next_fence >= mem.next_fence
  BY Zenon DEF Moves
<1>3. /\ t.lease_id < mem.next_lease_id /\ t.fence.generation < mem.next_fence
      /\ t.fence.epoch <= mem.epoch
      /\ mem.active # None /\ mem.active.lease_id = t.lease_id => t.deadline <= mem.active.deadline
  BY Zenon DEF Known
<1>4. t.lease_id < b.next_lease_id /\ t.fence.generation < b.next_fence /\ t.fence.epoch <= b.epoch
  BY <1>1, <1>2, <1>3, FrontiersGrow, Zenon
<1>5. b.active # None /\ b.active.lease_id = t.lease_id => t.deadline <= b.active.deadline
  <2>1. CASE out.token = None
    <3>1. b.active # None => b.active = mem.active
      BY <2>1, Zenon DEF Moves
    <3> QED
      BY <1>3, <3>1, Zenon
  <2>2. CASE out.token # None
    <3>1. b.active = out.token /\ out.token \in Tokens
      BY <2>2, Zenon DEF Moves
    <3>2. CASE out.token.lease_id = mem.next_lease_id
      BY <1>1, <1>3, <3>1, <3>2, AuthorityNumbers, Orders, Zenon
    <3>3. CASE /\ mem.active # None
               /\ out.token.lease_id = mem.active.lease_id
               /\ out.token.deadline > mem.active.deadline
      <4>1. mem.active.deadline \in Nat /\ out.token.deadline \in Nat
        BY <1>1, <3>1, <3>3, AuthorityNumbers, TokenNumbers, Zenon
      <4>2. ASSUME b.active.lease_id = t.lease_id PROVE t.deadline <= mem.active.deadline
        BY <1>3, <3>1, <3>3, <4>2, Zenon
      <4> QED
        BY <1>1, <3>1, <3>3, <4>1, <4>2, Later, Zenon
    <3> QED
      BY <2>2, <3>2, <3>3, Zenon DEF Moves
  <2> QED
    BY <2>1, <2>2, Zenon
<1> HIDE DEF b
<1>6. \A a \in disk': a \in disk \/ a = b
  BY DEF b
<1>7. mem' = mem \/ mem' = b
  BY Zenon DEF b
<1> QED
  BY <1>3, <1>4, <1>5, <1>6, <1>7, Zenon DEF Known

\* So does the checkpoint of a restart, which moves to a lease of its own.
LEMMA KnownRecovers ==
  ASSUME TypeOK, Authority, NEW t \in Tokens, Known(t, disk, mem), NEW found \in disk,
         \/ disk' = {RecoverCheckpoint(found)} /\ mem' = RecoverCheckpoint(found)
         \/ disk' = disk \cup {RecoverCheckpoint(found)} /\ mem' = mem
  PROVE  Known(t, disk', mem')
<1> DEFINE b == RecoverCheckpoint(found)
<1>1. /\ found \in Authorities /\ ValidCheckpoint(found)
      /\ t.lease_id \in Nat /\ t.deadline \in Nat
  BY Zenon DEF TypeOK, Authority, Tokens
<1>2. /\ b \in Authorities /\ b.epoch = found.epoch /\ b.next_fence = found.next_fence
      /\ b.next_lease_id >= found.next_lease_id
      /\ b.active # None => b.active.lease_id = found.next_lease_id
  BY <1>1, RecoverMoves, Zenon
<1>3. \/ disk' = {b} /\ mem' = b
      \/ disk' = disk \cup {b} /\ mem' = mem
  BY Zenon
<1> HIDE DEF b
<1>4. /\ t.lease_id < found.next_lease_id /\ t.fence.generation < found.next_fence
      /\ t.fence.epoch <= found.epoch
  BY Zenon DEF Known
<1>5. t.lease_id < b.next_lease_id
  BY <1>1, <1>2, <1>4, AuthorityNumbers, Orders, ZenonT(60)
<1>6. b.active # None => b.active.lease_id # t.lease_id
  BY <1>1, <1>2, <1>4, AuthorityNumbers, Orders, Zenon
<1> QED
  BY <1>2, <1>3, <1>4, <1>5, <1>6 DEF Known

\* A token just granted and committed is known.
LEMMA GrantedIsKnown ==
  ASSUME NEW out, NEW node, NEW at, Moves(mem, out, node, at), out.token # None,
         disk' = {out.authority}, mem' = out.authority
  PROVE  Known(out.token, disk', mem')
<1>1. /\ out.authority \in Authorities /\ ValidCheckpoint(out.authority) /\ Tight(out.authority)
      /\ out.token \in Tokens /\ out.authority.active = out.token
  BY Zenon DEF Moves
<1>2. /\ out.token.lease_id \in Nat /\ out.token.deadline \in Nat
      /\ out.token.fence.epoch \in Nat
  BY <1>1, TokenNumbers, Zenon
<1> QED
  BY <1>1, <1>2, AuthorityNumbers, Orders, Zenon DEF Known, ValidCheckpoint

\* Every token in a carrier, a request or a grant stays known.
LEMMA KnownStep ==
  ASSUME Base, [Next]_vars
  PROVE  AllKnown'
<1> USE DEF Base
<1>0. /\ carrier \in [Carriers -> Processes] /\ mem \in disk
      /\ \A c \in Carriers: carrier[c].token # None => carrier[c].token \in Tokens
      /\ \A g \in grants: g.token \in Tokens /\ g.to \in Carriers
      /\ \A r \in requests: r.token # None => r.token \in Tokens
  BY Zenon DEF TypeOK, Authority, Processes, Grants, Requests
\* The tokens stay and the authority moves.
<1>1. ASSUME \A t \in Tokens: Known(t, disk, mem) => Known(t, disk', mem'),
             UNCHANGED carrier, grants' \in SUBSET grants, requests' \in SUBSET requests
      PROVE  AllKnown'
  BY <1>0, <1>1, Zenon DEF AllKnown
\* The authority stays and carrier c moves.
<1>2. ASSUME NEW c \in Carriers, UNCHANGED <<mem, disk>>,
             \A d \in Carriers: d # c => carrier'[d] = carrier[d],
             carrier'[c].token # None => Known(carrier'[c].token, disk, mem),
             grants' \in SUBSET grants,
             \A r \in requests': r \in requests \/ (r.token # None => Known(r.token, disk, mem))
      PROVE  AllKnown'
  BY <1>0, <1>2, Zenon DEF AllKnown
<1>3. CASE UNCHANGED <<mem, disk, carrier>> /\ grants' \in SUBSET grants
           /\ requests' \in SUBSET requests
  BY <1>1, <1>3, Zenon
<1>4. CASE Tick
  BY <1>3, <1>4, Zenon DEF Tick
<1>5. CASE NewEpoch
  BY <1>3, <1>5, Zenon DEF NewEpoch
<1>6. CASE Crash
  BY <1>3, <1>6 DEF Crash
<1>7. ASSUME NEW r \in requests, Refuse(r) PROVE AllKnown'
  BY <1>3, <1>7, Zenon DEF Refuse
<1>8. ASSUME NEW r \in requests, NEW epoch \in mem.epoch..view, NEW at \in ReadSince(r.started),
             Handle(r, epoch, at)
      PROVE  AllKnown'
  <2> DEFINE out == Outcome(r, epoch, at)
  <2>1. Moves(mem, out, NodeOf[r.from], at)
    BY HandleMoves, Zenon
  <2>2. \/ disk' = {out.authority} /\ mem' = out.authority
        \/ disk' = disk \cup {out.authority} /\ mem' = mem /\ grants' = grants
    BY <1>8, Zenon DEF Handle, PersistAs, PersistFails, Outcome
  <2>3. /\ UNCHANGED carrier /\ requests' \in SUBSET requests
        /\ grants' = grants
           \/ /\ out.token # None
              /\ grants' = grants \cup {[to |-> r.from, request_id |-> r.request_id,
                                         token |-> out.token,
                                         remaining |-> out.token.deadline - at]}
    BY <1>8, Zenon DEF Handle, PersistFails, Outcome
  <2> HIDE DEF out
  <2>4. \A t \in Tokens: Known(t, disk, mem) => Known(t, disk', mem')
    BY <1>0, <2>1, <2>2, KnownStays, Zenon
  <2>5. CASE grants' = grants
    BY <1>1, <2>3, <2>4, <2>5, Zenon
  <2>6. CASE /\ out.token # None /\ disk' = {out.authority} /\ mem' = out.authority
             /\ grants' = grants \cup {[to |-> r.from, request_id |-> r.request_id,
                                        token |-> out.token,
                                        remaining |-> out.token.deadline - at]}
    <3>1. Known(out.token, disk', mem')
      BY <2>1, <2>6, GrantedIsKnown, Zenon
    <3>2. \A g \in grants': g \in grants \/ g.token = out.token
      BY <2>6
    <3>3. \A g \in grants': Known(g.token, disk', mem')
      BY <1>0, <2>4, <3>1, <3>2, Zenon DEF AllKnown
    <3> QED
      BY <1>0, <2>3, <2>4, <3>3, Zenon DEF AllKnown
  <2> QED
    BY <2>2, <2>3, <2>5, <2>6, Zenon
<1>9. ASSUME NEW epoch \in mem.epoch..view, NEW at \in ReadSince(origin), Observe(epoch, at)
      PROVE  AllKnown'
  <2> DEFINE out == Refused(ExpirePool(AdvanceEpoch(mem, epoch, at), at))
  <2>1. Moves(mem, out, None, at)
    BY ObserveMoves, Zenon
  <2>2. /\ \/ disk' = {out.authority} /\ mem' = out.authority
           \/ disk' = disk \cup {out.authority} /\ mem' = mem
        /\ UNCHANGED <<carrier, grants, requests>>
    BY <1>9, Zenon DEF Observe, PersistAs, PersistFails, Refused
  <2> HIDE DEF out
  <2>3. /\ disk' \in SUBSET (disk \cup {out.authority})
        /\ mem' = mem \/ mem' = out.authority
    BY <2>2, Zenon
  <2>4. ASSUME NEW t \in Tokens, Known(t, disk, mem) PROVE Known(t, disk', mem')
    BY <1>0, <2>1, <2>3, <2>4, KnownStays, Zenon
  <2> QED
    BY <1>1, <2>2, <2>4, Zenon
<1>10. ASSUME NEW found \in disk, Restart(found) PROVE AllKnown'
  <2>1. disk' = {RecoverCheckpoint(found)} /\ mem' = RecoverCheckpoint(found)
        /\ UNCHANGED <<carrier, grants, requests>>
    BY <1>10, Zenon DEF Restart, PersistAs
  <2>2. \A t \in Tokens: Known(t, disk, mem) => Known(t, disk', mem')
    BY <2>1, KnownRecovers
  <2> QED
    BY <1>1, <2>1, <2>2, Zenon
<1>11. ASSUME NEW found \in disk, RestartUnsynced(found) PROVE AllKnown'
  <2>1. disk' = disk \cup {RecoverCheckpoint(found)} /\ mem' = mem
        /\ UNCHANGED <<carrier, grants, requests>>
    BY <1>11, Zenon DEF RestartUnsynced
  <2>2. \A t \in Tokens: Known(t, disk, mem) => Known(t, disk', mem')
    BY <2>1, KnownRecovers
  <2> QED
    BY <1>1, <2>1, <2>2, Zenon
<1>12. ASSUME NEW c \in Carriers, StartAcquire(c) PROVE AllKnown'
  <2>1. Becomes(c, "acquiring", carrier[c].token, carrier[c].until, carrier[c].renewal, now,
                carrier[c].request_id + 1)
    BY <1>0, <1>12, StartAcquireEffect, Zenon DEF TypeOK
  <2>2. \A r \in requests': r \in requests \/ r.token = None
    BY <1>12 DEF StartAcquire, Send
  <2> QED
    BY <1>2, <1>12, <2>1, <2>2, Zenon DEF Becomes, StartAcquire, AllKnown
<1>13. ASSUME NEW c \in Carriers, Import(c) PROVE AllKnown'
  <2>1. Becomes(c, "live", carrier[c].token, carrier[c].until, carrier[c].renewal,
                carrier[c].started, carrier[c].request_id)
    BY <1>0, <1>13, ImportEffect
  <2> QED
    BY <1>2, <1>13, <2>1, Zenon DEF Becomes, Import, AllKnown
<1>14. ASSUME NEW c \in Carriers, StartRenew(c) PROVE AllKnown'
  <2>1. Becomes(c, "renewing", carrier[c].token, carrier[c].until, 0, now,
                carrier[c].request_id + 1)
    BY <1>0, <1>14, StartRenewEffect, Zenon DEF TypeOK
  <2>2. \A r \in requests': r \in requests \/ r.token = carrier[c].token
    BY <1>14 DEF StartRenew, Send
  <2> QED
    BY <1>2, <1>14, <2>1, <2>2, ZenonT(60) DEF Becomes, StartRenew, AllKnown
<1>15. ASSUME NEW c \in Carriers, Lose(c) PROVE AllKnown'
  <2>1. Becomes(c, "fenced", carrier[c].token, 0, 0, 0, carrier[c].request_id)
    BY <1>0, <1>15, LoseEffect, Zenon
  <2> QED
    BY <1>2, <1>15, <2>1, Zenon DEF Becomes, Lose, AllKnown
<1>16. ASSUME NEW c \in Carriers, StartRelease(c) PROVE AllKnown'
  <2>1. Becomes(c, "idle", None, 0, 0, 0, carrier[c].request_id + 1)
    BY <1>0, <1>16, StartReleaseEffect, Zenon
  <2>2. \A r \in requests': r \in requests \/ r.token = carrier[c].token
    BY <1>16 DEF StartRelease, Send
  <2> QED
    BY <1>2, <1>16, <2>1, <2>2, Zenon DEF Becomes, StartRelease, AllKnown
<1>17. ASSUME NEW c \in Carriers, Exit(c) PROVE AllKnown'
  <2>1. Becomes(c, "idle", None, 0, 0, 0, carrier[c].request_id)
    BY <1>0, <1>17, ExitEffect, Zenon
  <2> QED
    BY <1>2, <1>17, <2>1, Zenon DEF Becomes, Exit, AllKnown
<1>18. ASSUME NEW c \in Carriers, NEW g \in grants, ReceiveGrant(c, g) PROVE AllKnown'
  <2>1. /\ g.to = c /\ g.token \in Tokens
        /\ g.remaining >= Term /\ ValidUntil(c, g) > now
    BY <1>0, <1>18 DEF ReceiveGrant, Answers, Exchanges
  <2>2. ValidUntil(c, g) \in Nat /\ RenewalAt(ValidUntil(c, g)) \in Nat
    BY <2>1, GrantTimes, Zenon
  <2>3. Becomes(c, IF carrier[c].pc = "acquiring" THEN "granted" ELSE "live", g.token,
                ValidUntil(c, g), RenewalAt(ValidUntil(c, g)), 0, carrier[c].request_id)
    BY <1>0, <1>18, <2>1, <2>2, ReceiveGrantEffect, Zenon
  <2>4. UNCHANGED <<mem, disk, requests>> /\ grants' \in SUBSET grants
    BY <1>18, Zenon DEF ReceiveGrant
  <2>5. Known(carrier'[c].token, disk, mem) /\ \A d \in Carriers: d # c => carrier'[d] = carrier[d]
    BY <2>3, Zenon DEF Becomes, AllKnown
  <2> QED
    BY <1>2, <2>4, <2>5, Zenon
<1>19. ASSUME NEW c \in Carriers, NEW g \in grants, ReceiveLate(c, g) PROVE AllKnown'
  <2>1. /\ \A d \in Carriers: d # c => carrier'[d] = carrier[d]
        /\ carrier'[c].token = None \/ carrier'[c].token = carrier[c].token
    BY <1>0, <1>19, ReceiveLateEffect, Zenon DEF Becomes
  <2>2. \A r \in requests': r \in requests \/ r.token = g.token
    BY <1>19 DEF ReceiveLate, Send
  <2> QED
    BY <1>2, <1>19, <2>1, <2>2, Zenon DEF ReceiveLate, AllKnown
<1>20. CASE UNCHANGED vars
  BY <1>3, <1>20 DEF vars
<1> QED
  BY <1>4, <1>5, <1>6, <1>7, <1>8, <1>9, <1>10, <1>11, <1>12, <1>13, <1>14, <1>15, <1>16,
     <1>17, <1>18, <1>19, <1>20, Zenon DEF Next

\* A first start has nothing granted.
LEMMA InitBase == Init => Base
<1> SUFFICES ASSUME Init PROVE Base
  BY Zenon
<1>1. mem \in Authorities /\ mem.active = None /\ mem.handoff = 0
      /\ mem.epoch = 1 /\ mem.next_lease_id = 1 /\ mem.next_fence = 1 /\ disk = {mem}
  BY Zenon DEF Init, NewAuthority, Authorities
<1>2. /\ carrier = [c \in Carriers |-> Idle(0)] /\ Idle(0) \in Processes
      /\ Idle(0).token = None /\ Idle(0).pc = "idle"
  BY DEF Init, Idle, Processes
<1>3. last \in [node: Nodes \cup {None}, fence: Fences]
  BY Zenon DEF Init, Fences
<1>4. TypeOK
  BY <1>1, <1>2, <1>3, Zenon DEF Init, TypeOK
<1>5. Exchanges
  <2>1. now = 0 /\ origin = 0 /\ crashed = 0 /\ requests = {} /\ grants = {} /\ 0 <= 0
    BY DEF Init
  <2>2. \A c \in Carriers: carrier[c].pc = "idle"
    BY <1>2, Zenon
  <2> QED
    BY <2>1, <2>2, Zenon DEF Exchanges
<1>6. Ms(now) \in Nat
  BY <1>4, <1>5, ReadingOfClock, Zenon DEF TypeOK, Exchanges
<1>7. Authority
  BY <1>1, <1>4, <1>6, TermAssumption DEF Authority, ValidCheckpoint, Tight, BlockedOneTerm, TypeOK
<1>8. AllKnown
  BY <1>2 DEF Init, AllKnown
<1> QED
  BY <1>4, <1>5, <1>7, <1>8 DEF Base

\* Base holds in every reachable state, wherever the carriers run.
THEOREM BaseHolds == Spec => []Base
<1>1. Base /\ [Next]_vars => Base'
  BY TypeStep, ExchangesStep, AuthorityStep, KnownStep DEF Base
<1> QED
  BY InitBase, <1>1, PTL DEF Spec

\* Every state of the authority, its checkpoint, the carriers and the messages
\* between them has its type (PoolLeaseAuthority).
THEOREM LeaseTyped == Spec => []TypeOK
<1>1. Base => TypeOK
  BY DEF Base
<1> QED
  BY BaseHolds, <1>1, PTL

\* Every checkpoint a restart may find, also after a sync that failed half-way,
\* is one that recover_checkpoint accepts: the node never locks itself out.
THEOREM RestartAlwaysAccepts == Spec => []RestartAccepts
<1>1. Base => RestartAccepts
  <2> SUFFICES ASSUME Base, NEW a \in disk
               PROVE  ValidCheckpoint(a) /\ ValidCheckpoint(RecoverCheckpoint(a))
    BY DEF RestartAccepts
  <2>1. a \in Authorities /\ ValidCheckpoint(a)
    BY DEF Base, TypeOK, Authority
  <2> QED
    BY <2>1, RecoverMoves
<1> QED
  BY BaseHolds, <1>1, PTL

\* A dead owner, an epoch change and a restart block the next owner for no
\* longer than one lease term, and a millisecond for every renewal that came
\* faster than one a millisecond.
THEOREM BlockedForOneTerm == Spec => []BlockedOneTerm
<1>1. Base => BlockedOneTerm
  BY DEF Base, Authority
<1> QED
  BY BaseHolds, <1>1, PTL

\* No token granted before a restart is the active one after it, so none of
\* them can renew or release the lease the restart holds open.
THEOREM RestartRetires == Spec => RestartRetiresTokens
<1>1. ASSUME Base, [Next]_vars, ~up, up'
      PROVE  /\ \A c \in Carriers: mem'.active # carrier[c].token \/ mem'.active = None
             /\ \A g \in grants: mem'.active # g.token
  <2>1. PICK found \in disk: Restart(found)
    <3>1. ~UNCHANGED up
      BY <1>1, Zenon
    <3>2. ASSUME NEW c \in Carriers,
                 \/ StartAcquire(c) \/ Import(c) \/ StartRenew(c)
                 \/ Lose(c) \/ StartRelease(c) \/ Exit(c)
                 \/ \E g \in grants: ReceiveGrant(c, g) \/ ReceiveLate(c, g)
          PROVE  FALSE
      BY <3>1, <3>2, CarrierSteps
    <3>3. ~Tick /\ ~NewEpoch /\ ~UNCHANGED vars
      BY <3>1, Zenon DEF Tick, NewEpoch, vars
    <3>4. ~Crash
      BY <1>1, Zenon DEF Crash
    <3>5. ASSUME NEW r \in requests, Refuse(r) \/ \E epoch, at: Handle(r, epoch, at) PROVE FALSE
      <4>1. Refuse(r) => up
        BY Zenon DEF Refuse
      <4>2. ASSUME NEW epoch, NEW at, Handle(r, epoch, at) PROVE up
        BY <4>2, Zenon DEF Handle
      <4> QED
        BY <1>1, <3>5, <4>1, <4>2, Zenon
    <3>6. \A epoch, at: ~Observe(epoch, at)
      BY <1>1, Zenon DEF Observe
    <3>7. \A f \in disk: ~RestartUnsynced(f)
      BY <3>1, Zenon DEF RestartUnsynced
    <3> QED
      BY <1>1, <3>2, <3>3, <3>4, <3>5, <3>6, <3>7, Zenon DEF Next
  <2>2. found \in Authorities /\ ValidCheckpoint(found)
    BY <1>1 DEF Base, TypeOK, Authority
  <2>3. mem' = RecoverCheckpoint(found)
    BY <2>1, Zenon DEF Restart
  <2>4. mem'.active # None => mem'.active.lease_id = found.next_lease_id
    BY <2>2, <2>3, RecoverMoves, Zenon
  <2>5. \A t \in Tokens: Known(t, disk, mem) => mem'.active # t \/ mem'.active = None
    BY <2>2, <2>4 DEF Known, Tokens, Authorities
  <2>6. /\ \A c \in Carriers: carrier[c].token # None => carrier[c].token \in Tokens
        /\ \A g \in grants: g.token \in Tokens
    BY <1>1, Zenon DEF Base, TypeOK, Processes, Grants
  <2> QED
    BY <1>1, <2>5, <2>6, NoneAssumption, Zenon DEF Base, AllKnown
<1>2. Base /\ [Next]_vars =>
        [~up /\ up' => /\ \A c \in Carriers: mem'.active # carrier[c].token \/ mem'.active = None
                       /\ \A g \in grants: mem'.active # g.token]_vars
  BY <1>1, Zenon
<1> QED
  BY BaseHolds, <1>2, PTL, Zenon DEF Spec, RestartRetiresTokens

=============================================================================
