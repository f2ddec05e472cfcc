-------------------------- MODULE PoolLeaseProofs ---------------------------
(***************************************************************************)
(* What holds in PoolLease with one carrier per node, for any number of    *)
(* nodes, any lease term, clock resolution and bounds: one writer at a time, *)
(* in the order of the write fences.                                       *)
(***************************************************************************)
EXTENDS PoolLeaseBaseProofs

-----------------------------------------------------------------------------
(* The inductive invariant, on top of Base *)

\* A grant on its way to a carrier that still waits for it, and in time.
Pending(g) == Waits(g.to, g.request_id) /\ now < ValidUntil(g.to, g)

Claims(c) == Holds(c) \/ \E g \in grants: g.to = c /\ Pending(g)

OlderToken(s, t) == s.lease_id < t.lease_id \/ (s.lease_id = t.lease_id /\ s.deadline < t.deadline)

\* The owner of a token under the fence comes after the latest one, or is it.
InOrder(node, fence, latest) ==
  \/ Fenced!Newer(fence, latest.fence)
  \/ latest = [node |-> node, fence |-> fence]

\* Until when the authority keeps the Pool for carrier c's node.
Kept(c) == IF up THEN origin + Ticks(KeptUntil(mem, NodeOf[c]))
           ELSE crashed + Ticks(Term + ahead)

\* A checkpoint keeps the Pool for carrier c, and no token under another fence.
Keeping(c, t, a) == KeptUntil(a, NodeOf[c]) > 0 /\ (a.active # None => a.active.fence = t.fence)

\* Carrier c's token t, valid until u, is kept for as long, by every checkpoint,
\* and no release on its way can end it.
Backs(c, t, u, kept, checkpoints, released, latest) ==
  /\ t.node = NodeOf[c]
  /\ u <= kept
  /\ \A a \in checkpoints: Keeping(c, t, a)
  /\ \A r \in released: r.action = "release" /\ r.from = c => OlderToken(r.token, t)
  /\ InOrder(NodeOf[c], t.fence, latest)

\* No checkpoint falls behind the latest owner.
Follows(a, latest) ==
  /\ latest.fence.generation < a.next_fence /\ latest.fence.epoch <= a.epoch
  /\ a.active # None => InOrder(a.active.node, a.active.fence, latest)

\* When a carrier renews, its deadline is less than a term away.
RenewsInTime(c) ==
  /\ carrier[c].pc \in {"granted", "live"} => carrier[c].until <= carrier[c].renewal + Ticks(Term - 1)
  /\ carrier[c].pc = "renewing" => carrier[c].until <= carrier[c].started + Ticks(Term - 1)
  /\ carrier[c].pc = "cleanup" => carrier[c].until <= now

Backed ==
  /\ \A c \in Carriers: RenewsInTime(c)
  /\ \A c \in Carriers: Holds(c) =>
       /\ Backs(c, carrier[c].token, carrier[c].until, Kept(c), disk, requests, last)
       /\ last = [node |-> NodeOf[c], fence |-> carrier[c].token.fence]
  /\ \A g \in grants: Pending(g) =>
       Backs(g.to, g.token, ValidUntil(g.to, g), Kept(g.to), disk, requests, last)
  /\ \A c, d \in Carriers: Claims(c) /\ Claims(d) => c = d
  /\ \A a \in disk: Follows(a, last)

-----------------------------------------------------------------------------
(* Backed is inductive with one carrier per node *)

OneCarrierPerNode == \A c, d \in Carriers: NodeOf[c] = NodeOf[d] => c = d

\* A deadline that has not come on a carrier's clock has not come on any
\* reading the authority has taken.
LEMMA LiveIsKept ==
  ASSUME Base, up, NEW c \in Carriers, NEW u \in Nat, u > now, u <= Kept(c),
         NEW at \in Nat, at <= Ms(now)
  PROVE  KeptUntil(mem, NodeOf[c]) \in Nat /\ KeptUntil(mem, NodeOf[c]) > at
<1> DEFINE k == KeptUntil(mem, NodeOf[c])
<1>1. k \in Nat /\ origin \in Nat /\ now \in Nat /\ origin <= now
  BY DEF Base, TypeOK, Exchanges, Authorities, Tokens, KeptUntil
<1>2. u <= origin + Ticks(k)
  BY DEF Kept
<1>3. Ms(now) \in Nat /\ origin + Ticks(Ms(now)) <= now
  BY <1>1, ReadingOfClock
<1>4. Ticks(k) \in Int /\ Ticks(Ms(now)) \in Int /\ (k <= Ms(now) => Ticks(k) <= Ticks(Ms(now)))
  BY <1>1, <1>3, TicksMono
<1> HIDE DEF k
<1>5. ~(k <= Ms(now))
  BY <1>1, <1>2, <1>3, <1>4
<1> QED
  BY <1>1, <1>3, <1>5 DEF k

\* What is kept for a carrier ends a term after now at the latest, and as many
\* milliseconds later as the renewals were ahead.
LEMMA KeptIsNear ==
  ASSUME Base, NEW c \in Carriers
  PROVE  Kept(c) \in Int /\ Kept(c) <= now + Ticks(Term + ahead)
<1> DEFINE k == KeptUntil(mem, NodeOf[c])
<1>1. /\ k \in Nat /\ origin \in Nat /\ now \in Nat /\ origin <= now /\ crashed \in Nat /\ crashed <= now
      /\ ahead \in Nat
  BY DEF Base, TypeOK, Exchanges, Authorities, Tokens, KeptUntil
<1>2. Term + ahead \in Nat /\ Ticks(Term + ahead) \in Int
  BY <1>1, TermAssumption, TicksMono
<1>3. CASE up
  <2>1. Ms(now) \in Nat /\ origin + Ticks(Ms(now)) <= now
    BY <1>1, ReadingOfClock
  <2>2. k <= Ms(now) + (Term + ahead)
    <3>1. /\ mem.active # None => mem.active.deadline <= Ms(now) + Term + ahead
          /\ mem.handoff <= Ms(now) + Term + ahead
      BY <1>3, Zenon DEF Base, Authority, BlockedOneTerm
    <3>2. Ms(now) + Term + ahead = Ms(now) + (Term + ahead)
      BY <1>1, <2>1, TermAssumption
    <3> QED
      BY <3>1, <3>2 DEF KeptUntil
  <2>3. /\ Ticks(k) \in Int /\ Ticks(Ms(now)) \in Int
        /\ Ticks(k) <= Ticks(Ms(now) + (Term + ahead))
        /\ Ticks(Ms(now) + (Term + ahead)) = Ticks(Ms(now)) + Ticks(Term + ahead)
    <3> DEFINE tb == Term + ahead
               s == Ms(now) + tb
    <3>1. tb \in Int /\ s \in Int /\ k <= s
      BY <1>2, <2>1, <2>2
    <3>2. Ticks(s) = Ticks(Ms(now)) + Ticks(tb)
      BY <3>1, <2>1, TicksAdd
    <3> HIDE DEF s, k
    <3>3. Ticks(k) \in Int /\ Ticks(k) <= Ticks(s)
      BY <1>1, <3>1, TicksMono
    <3>4. Ticks(Ms(now)) \in Int
      BY <2>1, TicksMono
    <3> QED
      BY <3>2, <3>3, <3>4 DEF s
  <2>4. Kept(c) = origin + Ticks(k)
    BY <1>3 DEF Kept
  <2> QED
    BY <1>1, <1>2, <2>1, <2>3, <2>4
<1>4. CASE ~up
  BY <1>1, <1>2, <1>4 DEF Kept
<1> QED
  BY <1>3, <1>4, Zenon

\* The renewal lead of cluster_lease_renewal_at is less than a term.
LEMMA RenewalInTime ==
  ASSUME now \in Nat, NEW u \in Nat, u > now
  PROVE  u <= RenewalAt(u) + Ticks(Term - 1)
<1> DEFINE m == (u - now) \div TicksPerMs
           lead == Smaller(Smaller(Larger(m \div 3, MinLead), MaxLead), Larger(m \div 2, 1))
<1>1. \A x \in Nat: /\ x \div TicksPerMs \in Nat
                    /\ (x \div TicksPerMs) * TicksPerMs <= x
                    /\ x < (x \div TicksPerMs + 1) * TicksPerMs
  BY TicksAssumption
<1>2. u - now \in Nat
  OBVIOUS
<1>3. m \in Nat /\ Ticks(m) <= u - now /\ u - now < Ticks(m + 1)
  BY <1>1, <1>2 DEF Ticks
<1> HIDE DEF m
<1>6. lead \in Nat /\ lead <= MaxLead
  BY <1>3, LeadAssumption DEF Smaller, Larger
<1> HIDE DEF lead
<1>7. lead + 1 <= Term - 1
  BY <1>6, LeadAssumption, TermAssumption
<1> DEFINE w == IF lead < m THEN m - lead ELSE 0
<1>8. w \in Nat /\ m + 1 <= w + (Term - 1)
  BY <1>3, <1>6, <1>7, TermAssumption
<1>9. RenewalAt(u) = now + Ticks(w)
  BY DEF RenewalAt, lead, m
<1> HIDE DEF w
<1>10. /\ Ticks(m + 1) <= Ticks(w + (Term - 1)) /\ Ticks(w + (Term - 1)) = Ticks(w) + Ticks(Term - 1)
       /\ Ticks(m + 1) \in Int /\ Ticks(w) \in Int /\ Ticks(Term - 1) \in Int
  <2> DEFINE t == Term - 1
             s == w + t
  <2>1. t \in Int /\ s \in Int /\ m + 1 \in Int /\ m + 1 <= s
    BY <1>3, <1>8, TermAssumption
  <2>2. Ticks(s) = Ticks(w) + Ticks(t)
    BY <1>8, <2>1, TicksAdd
  <2> HIDE DEF s, t
  <2>3. Ticks(m + 1) \in Int /\ Ticks(m + 1) <= Ticks(s)
    BY <2>1, TicksMono
  <2>4. Ticks(w) \in Int /\ Ticks(t) \in Int
    BY <1>8, <2>1, TicksMono
  <2> QED
    BY <2>2, <2>3, <2>4 DEF s, t
<1> QED
  BY <1>2, <1>3, <1>9, <1>10

\* A claim that is live after a step of the authority is still kept by it.
StillKept ==
  \A c \in Carriers, t \in Tokens, u \in Nat:
    u > now' /\ Known(t, disk, mem) /\ Backs(c, t, u, Kept(c), disk, requests, last)
      => u <= Kept(c)' /\ \A a \in disk': Keeping(c, t, a)

\* Claims have the types of tokens and deadlines, and are known.
LEMMA ClaimTypes ==
  ASSUME Base
  PROVE  /\ \A c \in Carriers: /\ carrier[c].until \in Nat
                               /\ Holds(c) => /\ carrier[c].token \in Tokens
                                              /\ Known(carrier[c].token, disk, mem)
         /\ \A g \in grants: /\ g.to \in Carriers /\ g.token \in Tokens
                             /\ ValidUntil(g.to, g) \in Nat /\ Known(g.token, disk, mem)
<1>1. \A c \in Carriers: carrier[c] \in Processes
  BY DEF Base, TypeOK
<1>2. \A c \in Carriers: /\ carrier[c].until \in Nat
                         /\ Holds(c) => carrier[c].token \in Tokens /\ carrier[c].token # None
  <2>1. \A c \in Carriers: carrier[c].pc \notin {"idle", "acquiring"} => carrier[c].token # None
    BY DEF Base, Exchanges
  <2>2. ASSUME NEW c \in Carriers, Holds(c)
        PROVE  carrier[c].token \in Tokens /\ carrier[c].token # None
    <3>1. carrier[c].pc \notin {"idle", "acquiring"}
      BY <2>2 DEF Holds
    <3> QED
      BY <1>1, <2>1, <3>1 DEF Processes
  <2>3. ASSUME NEW c \in Carriers
        PROVE  carrier[c].until \in Nat
    BY DEF Base, TypeOK, Processes
  <2> QED
    BY <2>2, <2>3, Zenon
<1>3. \A c \in Carriers: Holds(c) => Known(carrier[c].token, disk, mem)
  BY <1>2 DEF Base, AllKnown
<1>4. ASSUME NEW g \in grants
      PROVE  /\ g.to \in Carriers /\ g.token \in Tokens
             /\ ValidUntil(g.to, g) \in Nat /\ Known(g.token, disk, mem)
  <2>1. g.to \in Carriers /\ g.token \in Tokens
    BY DEF Base, TypeOK, Grants
  <2>2. ValidUntil(g.to, g) \in Nat
    BY GrantTimes DEF Base, Exchanges
  <2> QED
    BY <2>1, <2>2 DEF Base, AllKnown
<1> QED
  BY <1>2, <1>3, <1>4

\* A step of the authority leaves the claims there are backed.
LEMMA OldClaimsBacked ==
  ASSUME Base, Backed, UNCHANGED <<carrier, last>>, now' \in Nat, now <= now',
         requests' \in SUBSET requests, StillKept
  PROVE  /\ \A c \in Carriers: RenewsInTime(c)'
         /\ \A c \in Carriers: Holds(c)' =>
              /\ Holds(c)
              /\ Backs(c, carrier'[c].token, carrier'[c].until, Kept(c)', disk', requests', last')
              /\ last' = [node |-> NodeOf[c], fence |-> carrier'[c].token.fence]
         /\ \A g \in grants: Pending(g)' =>
              /\ Pending(g)
              /\ Backs(g.to, g.token, ValidUntil(g.to, g)', Kept(g.to)', disk', requests', last')
<1>1. now \in Nat
  BY DEF Base, TypeOK
<1>2. ASSUME NEW c \in Carriers
      PROVE  RenewsInTime(c)'
  <2>1. carrier[c].until \in Nat
    BY ClaimTypes
  <2>2. RenewsInTime(c)
    BY DEF Backed
  <2> QED
    BY <1>1, <2>1, <2>2 DEF RenewsInTime
<1>3. ASSUME NEW c \in Carriers, NEW t \in Tokens, NEW u \in Nat, u > now',
             Known(t, disk, mem), Backs(c, t, u, Kept(c), disk, requests, last)
      PROVE  Backs(c, t, u, Kept(c)', disk', requests', last')
  <2>1. u <= Kept(c)' /\ \A a \in disk': Keeping(c, t, a)
    BY <1>3 DEF StillKept
  <2> QED
    BY <1>3, <2>1, Zenon DEF Backs
<1>4. ASSUME NEW c \in Carriers, Holds(c)'
      PROVE  /\ Holds(c)
             /\ Backs(c, carrier'[c].token, carrier'[c].until, Kept(c)', disk', requests', last')
             /\ last' = [node |-> NodeOf[c], fence |-> carrier'[c].token.fence]
  <2>1. carrier[c].until \in Nat /\ carrier[c].until > now'
    BY <1>4, ClaimTypes DEF Holds
  <2>2. Holds(c)
    BY <1>1, <1>4, <2>1 DEF Holds
  <2>3. carrier[c].token \in Tokens /\ Known(carrier[c].token, disk, mem)
    BY <2>2, ClaimTypes
  <2>4. /\ Backs(c, carrier[c].token, carrier[c].until, Kept(c), disk, requests, last)
        /\ last = [node |-> NodeOf[c], fence |-> carrier[c].token.fence]
    BY <2>2 DEF Backed
  <2>5. Backs(c, carrier[c].token, carrier[c].until, Kept(c)', disk', requests', last')
    BY <1>3, <2>1, <2>3, <2>4
  <2> QED
    BY <2>2, <2>4, <2>5
<1>5. ASSUME NEW g \in grants, Pending(g)'
      PROVE  /\ Pending(g)
             /\ Backs(g.to, g.token, ValidUntil(g.to, g)', Kept(g.to)', disk', requests', last')
  <2>1. /\ g.to \in Carriers /\ g.token \in Tokens
        /\ ValidUntil(g.to, g) \in Nat /\ Known(g.token, disk, mem)
    BY ClaimTypes
  <2>2. ValidUntil(g.to, g)' = ValidUntil(g.to, g)
    BY DEF ValidUntil
  <2>3. ValidUntil(g.to, g) > now' /\ Waits(g.to, g.request_id)
    BY <1>5, <2>1, <2>2 DEF Pending, Waits
  <2>4. Pending(g)
    BY <1>1, <2>1, <2>3 DEF Pending
  <2>5. Backs(g.to, g.token, ValidUntil(g.to, g), Kept(g.to), disk, requests, last)
    BY <2>4 DEF Backed
  <2>6. Backs(g.to, g.token, ValidUntil(g.to, g), Kept(g.to)', disk', requests', last')
    BY <1>3, <2>1, <2>3, <2>5
  <2> QED
    BY <2>2, <2>4, <2>6
<1> QED
  BY <1>2, <1>4, <1>5

\* A step of the authority that grants nothing keeps everything backed.
LEMMA QuietAuthorityBacked ==
  ASSUME Base, Backed, UNCHANGED <<carrier, last, grants>>, now' \in Nat, now <= now',
         requests' \in SUBSET requests, StillKept, \A a \in disk': Follows(a, last)
  PROVE  Backed'
<1>1. /\ \A c \in Carriers: RenewsInTime(c)'
      /\ \A c \in Carriers: Holds(c)' =>
           /\ Holds(c)
           /\ Backs(c, carrier'[c].token, carrier'[c].until, Kept(c)', disk', requests', last')
           /\ last' = [node |-> NodeOf[c], fence |-> carrier'[c].token.fence]
      /\ \A g \in grants: Pending(g)' =>
           /\ Pending(g)
           /\ Backs(g.to, g.token, ValidUntil(g.to, g)', Kept(g.to)', disk', requests', last')
  BY OldClaimsBacked
<1>2. \A c \in Carriers: Claims(c)' => Claims(c)
  BY <1>1, Zenon DEF Claims
<1>3. \A c, d \in Carriers: Claims(c)' /\ Claims(d)' => c = d
  BY <1>2, Zenon DEF Backed
<1> QED
  BY <1>1, <1>3, Zenon DEF Backed

\* No request ends what the authority keeps for a live claim: a release that
\* would names an older token, or another node's.
LEMMA RequestKeepsClaim ==
  ASSUME Base, up, OneCarrierPerNode, NEW r \in requests,
         NEW epoch \in mem.epoch..view, NEW at \in ReadSince(r.started),
         NEW c \in Carriers, NEW t \in Tokens, NEW u \in Nat, u > now,
         Known(t, disk, mem), Backs(c, t, u, Kept(c), disk, requests, last)
  PROVE  Keeps(mem, Outcome(r, epoch, at), NodeOf[c])
<1>1. /\ at \in Nat /\ at <= Ms(now)
      /\ r \in Requests /\ mem \in Authorities /\ ValidCheckpoint(mem) /\ Tight(mem)
      /\ epoch \in Nat /\ epoch >= mem.epoch /\ (r.action # "acquire" => r.token # None)
  BY HandleMoves
<1>2. KeptUntil(mem, NodeOf[c]) \in Nat /\ KeptUntil(mem, NodeOf[c]) > at
  BY <1>1, LiveIsKept DEF Backs
<1>3. NodeOf[c] \in Nodes
  BY CarriersAssumption, Zenon
<1>4. ~(r.action = "release" /\ r.token = mem.active /\ r.token.node = NodeOf[r.from])
  <2> SUFFICES ASSUME r.action = "release", r.token = mem.active, r.token.node = NodeOf[r.from]
               PROVE  FALSE
    OBVIOUS
  <2>1. mem.active # None /\ mem.active \in Tokens /\ r.from \in Carriers
    BY <1>1, Zenon DEF Requests, Authorities
  <2>2. mem.active.node = NodeOf[c]
    BY <1>1, <1>2, <2>1 DEF KeptUntil, ValidCheckpoint
  <2>3. r.from = c
    BY <2>1, <2>2, Zenon DEF OneCarrierPerNode
  <2>4. OlderToken(mem.active, t)
    BY <2>3, Zenon DEF Backs
  <2>5. /\ t.lease_id < mem.next_lease_id /\ mem.next_lease_id = mem.active.lease_id + 1
        /\ mem.active.lease_id = t.lease_id => t.deadline <= mem.active.deadline
    BY <1>1, <2>1, Zenon DEF Known, Tight, Base, Authority
  <2>6. /\ t.lease_id \in Nat /\ t.deadline \in Nat
        /\ mem.active.lease_id \in Nat /\ mem.active.deadline \in Nat
    BY <2>1, Zenon DEF Tokens
  <2> QED
    BY <2>4, <2>5, <2>6 DEF OlderToken
<1> QED
  BY <1>1, <1>2, <1>3, <1>4, TransitionKeeps, Zenon DEF Outcome

\* A checkpoint that keeps what memory keeps for a claim keeps the claim.
LEMMA KeepsClaim ==
  ASSUME Base, up, NEW c \in Carriers, NEW t \in Tokens, NEW u \in Nat, u > now,
         Backs(c, t, u, Kept(c), disk, requests, last),
         NEW out, out.authority \in Authorities, Keeps(mem, out, NodeOf[c])
  PROVE  /\ Keeping(c, t, out.authority)
         /\ u <= origin + Ticks(KeptUntil(out.authority, NodeOf[c]))
<1> DEFINE k == KeptUntil(mem, NodeOf[c])
           m == KeptUntil(out.authority, NodeOf[c])
<1>1. k \in Nat /\ k > 0
  <2>1. now \in Nat /\ origin \in Nat /\ origin <= now
    BY DEF Base, TypeOK, Exchanges
  <2>2. Ms(now) \in Nat
    BY <2>1, ReadingOfClock, Zenon
  <2> QED
    BY <2>2, LiveIsKept DEF Backs
<1>2. m \in Nat /\ k <= m
  BY <1>1 DEF Keeps, KeptUntil, Authorities, Tokens
<1>3. mem \in disk
  BY DEF Base, Authority
<1>4. mem.active # None => mem.active.fence = t.fence
  BY <1>3 DEF Backs, Keeping
<1>5. u <= origin + Ticks(k)
  BY DEF Backs, Kept
<1> HIDE DEF k, m
<1>6. Ticks(k) \in Int /\ Ticks(m) \in Int /\ Ticks(k) <= Ticks(m)
  BY <1>1, <1>2, TicksMono
<1>7. u <= origin + Ticks(m)
  BY <1>5, <1>6 DEF Base, TypeOK
<1>8. m > 0
  BY <1>1, <1>2
<1>9. out.authority.active # None => out.authority.active.fence = t.fence
  BY <1>4 DEF Keeps
<1> QED
  BY <1>7, <1>8, <1>9, Zenon DEF Keeping, m

\* What a request grants, and what it leaves active, comes after the latest
\* owner or is its own.
LEMMA MovesFollow ==
  ASSUME Base, Backed, NEW out, NEW node, NEW at, Moves(mem, out, node, at)
  PROVE  /\ Follows(out.authority, last)
         /\ out.token # None => InOrder(node, out.token.fence, last)
<1> DEFINE b == out.authority
<1>1. Follows(mem, last) /\ mem \in Authorities /\ last.fence \in Fences
  BY Zenon DEF Base, Authority, Backed, TypeOK
<1>2. /\ b \in Authorities /\ b.epoch >= mem.epoch /\ b.next_fence >= mem.next_fence
      /\ b.active # None /\ out.token = None => b.active = mem.active
      /\ out.token # None =>
           /\ out.token \in Tokens /\ b.active = out.token
           /\ out.token.node = node
           /\ \/ out.token.fence = [epoch |-> b.epoch, generation |-> mem.next_fence]
              \/ /\ mem.active # None /\ mem.active.node = node
                 /\ out.token.fence = mem.active.fence
  BY Zenon DEF Moves
<1>3. last.fence.generation < b.next_fence /\ last.fence.epoch <= b.epoch
  BY <1>1, <1>2 DEF Follows, Authorities, Fences
<1>4. ASSUME out.token # None
      PROVE  InOrder(node, out.token.fence, last)
  <2>1. CASE out.token.fence = [epoch |-> b.epoch, generation |-> mem.next_fence]
    BY <1>1, <1>2, <1>3, <2>1 DEF Follows, InOrder, Fenced!Newer, Authorities, Fences
  <2>2. CASE mem.active # None /\ mem.active.node = node /\ out.token.fence = mem.active.fence
    <3>1. InOrder(mem.active.node, mem.active.fence, last)
      BY <1>1, <2>2 DEF Follows
    <3> QED
      BY <2>2, <3>1 DEF InOrder
  <2> QED
    BY <1>2, <1>4, <2>1, <2>2, Zenon
<1>5. ASSUME b.active # None
      PROVE  InOrder(b.active.node, b.active.fence, last)
  <2>1. CASE out.token = None
    BY <1>1, <1>2, <1>5, <2>1, Zenon DEF Follows
  <2>2. CASE out.token # None
    BY <1>2, <1>4, <2>2, Zenon
  <2> QED
    BY <2>1, <2>2
<1> QED
  BY <1>3, <1>4, <1>5, Zenon DEF Follows

\* Committing a request, or half committing it, still keeps every live claim.
LEMMA HandleStillKept ==
  ASSUME Base, Backed, OneCarrierPerNode, NEW r \in requests,
         NEW epoch \in mem.epoch..view, NEW at \in ReadSince(r.started),
         up, UNCHANGED <<now, origin, up, crashed>>,
         \/ disk' = {Outcome(r, epoch, at).authority} /\ mem' = Outcome(r, epoch, at).authority
         \/ disk' = disk \cup {Outcome(r, epoch, at).authority} /\ mem' = mem
  PROVE  StillKept /\ \A a \in disk': Follows(a, last)
<1> DEFINE out == Outcome(r, epoch, at)
           b == out.authority
<1>1. b \in Authorities /\ Moves(mem, out, NodeOf[r.from], at)
  BY HandleMoves, ZenonT(60) DEF Moves
<1>2. Follows(b, last)
  BY <1>1, MovesFollow, Zenon
<1> SUFFICES ASSUME NEW c \in Carriers, NEW t \in Tokens, NEW u \in Nat,
                    u > now, Known(t, disk, mem),
                    Backs(c, t, u, Kept(c), disk, requests, last)
             PROVE  u <= Kept(c)' /\ \A a \in disk': Keeping(c, t, a)
  BY <1>2, Zenon DEF StillKept, Backed
<1>3. Keeps(mem, out, NodeOf[c])
  BY RequestKeepsClaim, Zenon
<1> HIDE DEF out
<1>4. Keeping(c, t, b) /\ u <= origin + Ticks(KeptUntil(b, NodeOf[c]))
  BY <1>1, <1>3, KeepsClaim, Zenon
<1> HIDE DEF b
<1>5. u <= Kept(c) /\ \A a \in disk: Keeping(c, t, a)
  BY DEF Backs
<1>6. Kept(c)' = origin + Ticks(KeptUntil(mem', NodeOf[c])) /\ Kept(c) = origin + Ticks(KeptUntil(mem, NodeOf[c]))
  BY Zenon DEF Kept
<1>7. \/ disk' = {b} /\ mem' = b
      \/ disk' = disk \cup {b} /\ mem' = mem
  BY Zenon DEF b, out
<1> QED
  BY <1>4, <1>5, <1>6, <1>7, Zenon

\* What a request grants to a carrier that waits is backed from the start: the
\* carrier dates it from before the request was sent, the authority from when
\* it was read.
LEMMA NewGrantBacked ==
  ASSUME Base, Backed, NEW r \in requests, up,
         NEW epoch \in mem.epoch..view, NEW at \in ReadSince(r.started),
         Waits(r.from, r.request_id), NEW out, out = Outcome(r, epoch, at), out.token # None
  PROVE  Backs(r.from, out.token, carrier[r.from].started + Ticks(out.token.deadline - at - 1),
               origin + Ticks(KeptUntil(out.authority, NodeOf[r.from])), {out.authority},
               requests \ {r}, last)
<1> DEFINE b == out.authority
           n == NodeOf[r.from]
           D == out.token.deadline
           s == r.started
<1>1. /\ at \in Nat /\ Ms(s) <= at /\ mem \in Authorities /\ Tight(mem)
      /\ Moves(mem, out, n, at)
  BY HandleMoves, Zenon
<1>2. /\ b \in Authorities /\ out.token \in Tokens /\ b.active = out.token
      /\ out.token.node = n /\ D >= at + Term
      /\ \/ out.token.lease_id = mem.next_lease_id
         \/ /\ mem.active # None /\ out.token.lease_id = mem.active.lease_id
            /\ D > mem.active.deadline
  BY <1>1, Zenon DEF Moves
<1>3. D \in Nat /\ D > 0 /\ D - at - 1 \in Int /\ KeptUntil(b, n) = D
  <2>1. D \in Nat /\ D > 0 /\ D - at - 1 \in Int
    BY <1>1, <1>2, TermAssumption, TokenNumbers
  <2>2. KeptUntil(b, n) = D
    BY <1>2, NoneAssumption, Zenon DEF KeptUntil
  <2> QED
    BY <2>1, <2>2, Zenon
<1>4. carrier[r.from].started = s /\ s \in Nat /\ origin \in Nat /\ origin <= s /\ now \in Nat
  BY DEF Base, TypeOK, Exchanges, Requests
<1>5. s + Ticks(D - at - 1) <= origin + Ticks(D)
  <2>1. Ms(s) \in Nat /\ s < origin + Ticks(Ms(s) + 1)
    BY <1>4, ReadingOfClock, Zenon
  <2> DEFINE x == Ms(s) + 1
             y == at + 1
             z == D - at - 1
  <2>2. x \in Int /\ y \in Int /\ z \in Int /\ x <= y /\ D = y + z
    BY <1>1, <1>3, <2>1
  <2>3. s < origin + Ticks(x)
    BY <2>1, Zenon
  <2> HIDE DEF x, y, z
  <2>4. Ticks(x) \in Int /\ Ticks(y) \in Int /\ Ticks(z) \in Int /\ Ticks(x) <= Ticks(y)
    BY <2>2, TicksMono, Zenon
  <2>5. Ticks(y + z) = Ticks(y) + Ticks(z)
    BY <2>2, TicksAdd
  <2>6. Ticks(D) = Ticks(y) + Ticks(z)
    BY <2>2, <2>5, Zenon
  <2>7. s + Ticks(z) <= origin + Ticks(D)
    BY <1>4, <2>3, <2>4, <2>6
  <2> QED
    BY <2>7 DEF z
<1>6. Keeping(r.from, out.token, b)
  BY <1>2, <1>3, Zenon DEF Keeping
<1>7. ASSUME NEW q \in requests, q.action = "release"
      PROVE  OlderToken(q.token, out.token)
  <2>1. q.token \in Tokens /\ Known(q.token, disk, mem)
    BY <1>7, Zenon DEF Base, TypeOK, Exchanges, AllKnown, Requests
  <2>2. /\ q.token.lease_id < mem.next_lease_id
        /\ mem.active # None /\ mem.active.lease_id = q.token.lease_id
             => q.token.deadline <= mem.active.deadline
        /\ mem.active # None => mem.next_lease_id = mem.active.lease_id + 1
    BY <1>1, <2>1, Zenon DEF Known, Base, Authority, Tight
  <2> QED
    <3>1. /\ q.token.lease_id \in Nat /\ q.token.deadline \in Nat
          /\ out.token.lease_id \in Nat /\ out.token.deadline \in Nat
          /\ mem.next_lease_id \in Nat
          /\ mem.active # None => mem.active.lease_id \in Nat /\ mem.active.deadline \in Nat
      BY <1>1, <1>2, <2>1, TokenNumbers, AuthorityNumbers, Zenon
    <3> QED
      BY <1>2, <2>2, <3>1 DEF OlderToken
<1>8. InOrder(n, out.token.fence, last)
  BY <1>1, MovesFollow
<1> HIDE DEF b, n, D, s
<1>9. carrier[r.from].started + Ticks(D - at - 1) <= origin + Ticks(KeptUntil(b, n))
  BY <1>3, <1>4, <1>5, Zenon
<1> QED
  BY <1>2, <1>6, <1>7, <1>8, <1>9, Zenon DEF Backs, b, n, D

\* commit_pool_owner_lease_transition keeps every claim backed and makes no
\* second one.
LEMMA HandleBacked ==
  ASSUME Base, Backed, OneCarrierPerNode, NEW r \in requests,
         NEW epoch \in mem.epoch..view, NEW at \in ReadSince(r.started), Handle(r, epoch, at)
  PROVE  Backed'
<1>0. PICK out: out = Outcome(r, epoch, at)
  OBVIOUS
<1> DEFINE b == out.authority
           n == [to |-> r.from, request_id |-> r.request_id,
                 token |-> out.token, remaining |-> out.token.deadline - at]
<1>1. /\ up /\ requests' = requests \ {r} /\ UNCHANGED <<now, origin, up, crashed, carrier, last>>
      /\ \/ /\ disk' = {b} /\ mem' = b
            /\ grants' = IF out.token = None \/ ~Waits(r.from, r.request_id) THEN grants
                         ELSE grants \cup {n}
         \/ disk' = disk \cup {b} /\ mem' = mem /\ grants' = grants
  BY <1>0, Zenon DEF Handle, Outcome, PersistAs, PersistFails
<1>2. StillKept /\ \A a \in disk': Follows(a, last)
  BY <1>0, <1>1, HandleStillKept, Zenon
<1>3. now' \in Nat /\ now <= now' /\ requests' \in SUBSET requests /\ UNCHANGED <<carrier, last>>
  <2>1. now \in Nat
    BY Zenon DEF Base, TypeOK
  <2>2. now <= now
    BY <2>1
  <2> QED
    BY <1>1, <2>1, <2>2, Zenon
<1>4. CASE grants' = grants
  BY <1>1, <1>2, <1>3, <1>4, QuietAuthorityBacked, Zenon
<1>5. CASE /\ disk' = {b} /\ mem' = b /\ out.token # None
           /\ Waits(r.from, r.request_id) /\ grants' = grants \cup {n}
  <2>1. /\ \A c \in Carriers: RenewsInTime(c)'
        /\ \A c \in Carriers: Holds(c)' =>
             /\ Holds(c)
             /\ Backs(c, carrier'[c].token, carrier'[c].until, Kept(c)', disk', requests', last')
             /\ last' = [node |-> NodeOf[c], fence |-> carrier'[c].token.fence]
        /\ \A g \in grants: Pending(g)' =>
             /\ Pending(g)
             /\ Backs(g.to, g.token, ValidUntil(g.to, g)', Kept(g.to)', disk', requests', last')
    BY <1>2, <1>3, OldClaimsBacked, Zenon
  <2>2. Backs(r.from, out.token, carrier[r.from].started + Ticks(out.token.deadline - at - 1),
              origin + Ticks(KeptUntil(b, NodeOf[r.from])), {b}, requests \ {r}, last)
    <3>1. up /\ Waits(r.from, r.request_id) /\ out.token # None
      BY <1>1, <1>5, Zenon
    <3> QED
      BY <1>0, <3>1, NewGrantBacked, Zenon
  <2>3. Moves(mem, out, NodeOf[r.from], at) /\ r.from \in Carriers
    BY <1>0, HandleMoves, Zenon DEF Requests
  <2>4. out.token.node = NodeOf[r.from]
    BY <1>5, <2>3, Zenon DEF Moves
  <2>5. ASSUME NEW c \in Carriers, NEW t \in Tokens, NEW u \in Nat, u > now,
               Known(t, disk, mem), Backs(c, t, u, Kept(c), disk, requests, last)
        PROVE  c = r.from
    <3>1. Keeps(mem, out, NodeOf[c])
      BY <1>0, <1>1, <2>5, RequestKeepsClaim, Zenon
    <3>2. out.token.node = NodeOf[c]
      BY <1>5, <3>1, Zenon DEF Keeps
    <3>3. NodeOf[c] = NodeOf[r.from]
      BY <2>4, <3>2
    <3> QED
      BY <2>3, <3>3, Zenon DEF OneCarrierPerNode
  <2> HIDE DEF b
  <2>6. ASSUME NEW c \in Carriers, Claims(c)'
        PROVE  c = r.from
    <3>1. CASE Holds(c)
      <4>1. carrier[c].until > now
        BY <3>1, ClaimTypes, Zenon DEF Holds
      <4> QED
        BY <2>5, <3>1, <4>1, ClaimTypes, Zenon DEF Backed
    <3>2. CASE \E g \in grants: g.to = c /\ Pending(g)
      <4>1. PICK g \in grants: g.to = c /\ Pending(g)
        BY <3>2
      <4>2. /\ g.token \in Tokens /\ ValidUntil(g.to, g) \in Nat /\ Known(g.token, disk, mem)
        BY ClaimTypes, Zenon
      <4>3. /\ ValidUntil(g.to, g) > now
            /\ Backs(g.to, g.token, ValidUntil(g.to, g), Kept(g.to), disk, requests, last)
        BY <4>1, <4>2, Zenon DEF Pending, Backed
      <4> QED
        BY <2>5, <4>1, <4>2, <4>3, Zenon
    <3>3. CASE \E g \in grants': g = n /\ g.to = c
      BY <3>3
    <3> QED
      BY <1>5, <2>1, <2>6, <3>1, <3>2, <3>3, Zenon DEF Claims
  <2>7. \A c, d \in Carriers: Claims(c)' /\ Claims(d)' => c = d
    BY <2>6, Zenon
  <2>8. Backs(n.to, n.token, ValidUntil(n.to, n)', Kept(n.to)', disk', requests', last')
    <3>1. ValidUntil(n.to, n)' = carrier[r.from].started + Ticks(out.token.deadline - at - 1)
      BY <1>1, Zenon DEF ValidUntil
    <3>2. Kept(n.to)' = origin + Ticks(KeptUntil(b, NodeOf[r.from]))
      BY <1>1, <1>5, Zenon DEF Kept
    <3>3. n.to = r.from /\ n.token = out.token
      OBVIOUS
    <3> QED
      BY <1>1, <1>5, <2>2, <3>1, <3>2, <3>3, ZenonT(60)
  <2> HIDE DEF n
  <2>9. \A g \in grants': Pending(g)' =>
          Backs(g.to, g.token, ValidUntil(g.to, g)', Kept(g.to)', disk', requests', last')
    BY <1>5, <2>1, <2>8, Zenon
  <2>10. \A a \in disk': Follows(a, last')
    BY <1>1, <1>2
  <2> QED
    BY <2>1, <2>7, <2>9, <2>10, Zenon DEF Backed
<1> QED
  BY <1>1, <1>4, <1>5, Zenon

\* Reading the owner commits expiry and epochs, and keeps every claim backed.
LEMMA ObserveBacked ==
  ASSUME Base, Backed, NEW epoch \in mem.epoch..view, NEW at \in ReadSince(origin),
         Observe(epoch, at)
  PROVE  Backed'
<1> DEFINE b == ExpirePool(AdvanceEpoch(mem, epoch, at), at)
           out == Refused(b)
<1>1. /\ up
      /\ \/ disk' = {b} /\ mem' = b
         \/ disk' = disk \cup {b} /\ mem' = mem
      /\ UNCHANGED <<now, origin, up, crashed, carrier, last, grants, requests>>
  BY Zenon DEF Observe, PersistAs, PersistFails
<1>2. /\ at \in Nat /\ at <= Ms(now) /\ Ms(now) \in Nat
      /\ mem \in Authorities /\ ValidCheckpoint(mem) /\ Tight(mem)
      /\ epoch \in Nat /\ epoch >= mem.epoch
      /\ Moves(mem, out, None, at)
  BY ObserveMoves, Zenon
<1>3. out.authority = b /\ b \in Authorities
  BY <1>2, Zenon DEF Refused, Moves
<1>4. Follows(b, last)
  BY <1>2, <1>3, MovesFollow, Zenon
<1>5. ASSUME NEW c \in Carriers, NEW t \in Tokens, NEW u \in Nat,
             u > now, Known(t, disk, mem),
             Backs(c, t, u, Kept(c), disk, requests, last)
      PROVE  u <= Kept(c)' /\ Keeping(c, t, b)
  <2>1. KeptUntil(mem, NodeOf[c]) > at /\ NodeOf[c] \in Nodes
    BY <1>1, <1>2, <1>5, LiveIsKept, CarriersAssumption, Zenon DEF Backs
  <2>2. Keeps(mem, out, NodeOf[c])
    BY <1>2, <2>1, ObservationKeeps, Zenon
  <2> HIDE DEF out
  <2>3. Keeping(c, t, b) /\ u <= origin + Ticks(KeptUntil(b, NodeOf[c]))
    BY <1>1, <1>3, <1>5, <2>2, KeepsClaim, Zenon
  <2>4. u <= Kept(c) /\ (mem' = mem => Kept(c)' = Kept(c))
    BY <1>1, <1>5, Zenon DEF Kept, Backs
  <2>5. mem' = b => Kept(c)' = origin + Ticks(KeptUntil(b, NodeOf[c]))
    BY <1>1, Zenon DEF Kept
  <2> QED
    BY <1>1, <2>3, <2>4, <2>5, Zenon
<1> HIDE DEF b
<1>6. StillKept
  <2> SUFFICES ASSUME NEW c \in Carriers, NEW t \in Tokens, NEW u \in Nat,
                      u > now, Known(t, disk, mem),
                      Backs(c, t, u, Kept(c), disk, requests, last)
               PROVE  u <= Kept(c)' /\ \A a \in disk': Keeping(c, t, a)
    BY <1>1, Zenon DEF StillKept
  <2>1. u <= Kept(c)' /\ Keeping(c, t, b)
    BY <1>5, Zenon
  <2>2. \A a \in disk: Keeping(c, t, a)
    BY Zenon DEF Backs
  <2> QED
    BY <1>1, <2>1, <2>2, Zenon
<1>7. now' \in Nat /\ now <= now' /\ requests' \in SUBSET requests /\ \A a \in disk': Follows(a, last)
  <2>1. now \in Nat /\ \A a \in disk: Follows(a, last)
    BY Zenon DEF Base, TypeOK, Backed
  <2>2. now <= now
    BY <2>1
  <2> QED
    BY <1>1, <1>4, <2>1, <2>2, Zenon
<1> QED
  BY <1>1, <1>6, <1>7, QuietAuthorityBacked

\* A crash leaves a claim no more than a term and the renewals that were ahead.
LEMMA CrashBacked ==
  ASSUME Base, Backed, Crash
  PROVE  Backed'
<1>1. /\ ~up' /\ crashed' = now /\ requests' = {}
      /\ UNCHANGED <<now, ahead, disk, mem, carrier, last, grants>>
  BY Zenon DEF Crash
<1>2. now \in Nat /\ ahead \in Nat /\ Ticks(Term + ahead) \in Int
  BY TermAssumption, TicksMono DEF Base, TypeOK
<1>3. ASSUME NEW c \in Carriers
      PROVE  Kept(c)' = now + Ticks(Term + ahead)
  BY <1>1, Zenon DEF Kept
<1>4. ASSUME NEW c \in Carriers, NEW t \in Tokens, NEW u \in Nat,
             Backs(c, t, u, Kept(c), disk, requests, last)
      PROVE  u <= Kept(c)' /\ \A a \in disk': Keeping(c, t, a)
  <2>1. u <= Kept(c) /\ \A a \in disk: Keeping(c, t, a)
    BY <1>4 DEF Backs
  <2>2. Kept(c) \in Int /\ Kept(c) <= now + Ticks(Term + ahead)
    BY KeptIsNear
  <2> QED
    BY <1>1, <1>2, <1>3, <2>1, <2>2
<1>5. StillKept
  BY <1>4, Zenon DEF StillKept
<1>6. now' \in Nat /\ now <= now' /\ requests' \in SUBSET requests /\ \A a \in disk': Follows(a, last)
  BY <1>1, <1>2 DEF Backed
<1> QED
  BY <1>1, <1>5, <1>6, QuietAuthorityBacked

\* A recovered checkpoint keeps a claim for a term, follows the latest owner,
\* and leaves its fence where it was.
LEMMA RecoveredKeeps ==
  ASSUME Base, Backed, NEW found \in disk
  PROVE  /\ Follows(RecoverCheckpoint(found), last)
         /\ \A c \in Carriers, t \in Tokens: Keeping(c, t, found) =>
              /\ Keeping(c, t, RecoverCheckpoint(found))
              /\ KeptUntil(RecoverCheckpoint(found), NodeOf[c]) = Term
<1> DEFINE b == RecoverCheckpoint(found)
<1>1. found \in Authorities /\ ValidCheckpoint(found) /\ Follows(found, last)
  BY Zenon DEF Base, TypeOK, Authority, Backed
<1>2. /\ b.epoch = found.epoch /\ b.next_fence = found.next_fence
      /\ b.active # None <=> found.active # None
      /\ b.active # None => /\ b.active.node = found.active.node
                            /\ b.active.fence = found.active.fence
  BY <1>1, RecoverMoves, Zenon
<1>3. Follows(b, last)
  BY <1>1, <1>2 DEF Follows
<1>4. ASSUME NEW c \in Carriers, NEW t \in Tokens, Keeping(c, t, found)
      PROVE  Keeping(c, t, b) /\ KeptUntil(b, NodeOf[c]) = Term
  <2>1. NodeOf[c] \in Nodes /\ KeptUntil(found, NodeOf[c]) > 0
    BY <1>4, CarriersAssumption DEF Keeping
  <2>2. KeptUntil(b, NodeOf[c]) = Term
    BY <1>1, <2>1, RecoverKeeps
  <2>3. Term > 0
    BY TermAssumption
  <2> HIDE DEF b
  <2> QED
    BY <1>2, <1>4, <2>2, <2>3, Zenon DEF Keeping
<1> QED
  BY <1>3, <1>4, Zenon

\* What a crash left ends a term after the earliest restart.
LEMMA LateRestart ==
  ASSUME Base
  PROVE  /\ now \in Nat /\ crashed \in Nat /\ ahead \in Nat
         /\ Ticks(Term) \in Int /\ Ticks(ahead) \in Int
         /\ Ticks(Term + ahead) = Ticks(Term) + Ticks(ahead)
<1>1. now \in Nat /\ crashed \in Nat /\ ahead \in Nat
  BY Zenon DEF Base, TypeOK
<1>2. Term \in Int /\ ahead \in Int
  BY <1>1, TermAssumption
<1>3. Ticks(Term) \in Int /\ Ticks(ahead) \in Int
  BY <1>2, TicksMono
<1>4. Ticks(Term + ahead) = Ticks(Term) + Ticks(ahead)
  BY <1>2, TicksAdd, Zenon
<1> QED
  BY <1>1, <1>3, <1>4, Zenon

\* A restart keeps every claim backed on the clock of the new process: it took
\* long enough to make up for the renewals the old one may have added.
LEMMA RestartBacked ==
  ASSUME Base, Backed, NEW found \in disk, Restart(found)
  PROVE  Backed'
<1> DEFINE b == RecoverCheckpoint(found)
<1>1. /\ ~up /\ now >= crashed + Ticks(ahead) /\ up' /\ origin' = now /\ mem' = b /\ disk' = {b}
      /\ UNCHANGED <<now, carrier, last, grants, requests>>
  BY Zenon DEF Restart, Restarts, PersistAs
<1>2. /\ Follows(b, last)
      /\ \A c \in Carriers, t \in Tokens: Keeping(c, t, found) =>
           Keeping(c, t, b) /\ KeptUntil(b, NodeOf[c]) = Term
  BY RecoveredKeeps, Zenon
<1> HIDE DEF b
<1>3. /\ now \in Nat /\ crashed \in Nat /\ ahead \in Nat
      /\ Ticks(Term) \in Int /\ Ticks(ahead) \in Int
      /\ Ticks(Term + ahead) = Ticks(Term) + Ticks(ahead)
  BY LateRestart, Zenon
<1>4. ASSUME NEW c \in Carriers, NEW t \in Tokens, NEW u \in Nat,
             Backs(c, t, u, Kept(c), disk, requests, last)
      PROVE  u <= Kept(c)' /\ \A a \in disk': Keeping(c, t, a)
  <2>1. u <= Kept(c) /\ Keeping(c, t, found)
    BY <1>4 DEF Backs
  <2>2. Kept(c) = crashed + Ticks(Term + ahead)
    BY <1>1, Zenon DEF Kept
  <2>3. Keeping(c, t, b) /\ KeptUntil(b, NodeOf[c]) = Term
    BY <1>2, <2>1
  <2>4. Kept(c)' = now + Ticks(Term)
    BY <1>1, <2>3, Zenon DEF Kept
  <2>5. u <= Kept(c)'
    BY <1>1, <1>3, <2>1, <2>2, <2>4
  <2> QED
    BY <1>1, <2>3, <2>5, Zenon
<1>5. StillKept
  BY <1>4, Zenon DEF StillKept
<1>6. now' \in Nat /\ now <= now' /\ requests' \in SUBSET requests /\ \A a \in disk': Follows(a, last)
  BY <1>1, <1>2, <1>3
<1> QED
  BY <1>1, <1>5, <1>6, QuietAuthorityBacked

\* A restart that gave up keeps every claim backed.
LEMMA RestartUnsyncedBacked ==
  ASSUME Base, Backed, NEW found \in disk, RestartUnsynced(found)
  PROVE  Backed'
<1> DEFINE b == RecoverCheckpoint(found)
<1>1. /\ disk' = disk \cup {b}
      /\ UNCHANGED <<now, origin, up, crashed, ahead, mem, carrier, last, grants, requests>>
  BY Zenon DEF RestartUnsynced
<1>2. /\ Follows(b, last)
      /\ \A c \in Carriers, t \in Tokens: Keeping(c, t, found) =>
           Keeping(c, t, b) /\ KeptUntil(b, NodeOf[c]) = Term
  BY RecoveredKeeps
<1> HIDE DEF b
<1>3. ASSUME NEW c \in Carriers, NEW t \in Tokens, NEW u \in Nat,
             Backs(c, t, u, Kept(c), disk, requests, last)
      PROVE  u <= Kept(c)' /\ \A a \in disk': Keeping(c, t, a)
  <2>1. u <= Kept(c) /\ \A a \in disk: Keeping(c, t, a)
    BY <1>3 DEF Backs
  <2>2. Kept(c)' = Kept(c)
    BY <1>1 DEF Kept
  <2> QED
    BY <1>1, <1>2, <2>1, <2>2, Zenon
<1>4. StillKept
  BY <1>3, Zenon DEF StillKept
<1>5. now' \in Nat /\ now <= now' /\ requests' \in SUBSET requests /\ \A a \in disk': Follows(a, last)
  <2>1. now \in Nat
    BY DEF Base, TypeOK
  <2>2. \A a \in disk: Follows(a, last)
    BY Zenon DEF Backed
  <2> QED
    BY <1>1, <1>2, <2>1, <2>2
<1> QED
  BY <1>1, <1>4, <1>5, QuietAuthorityBacked

\* Time, epochs, refusals and stuttering keep every claim backed.
LEMMA IdleBacked ==
  ASSUME Base, Backed, Tick \/ NewEpoch \/ (\E r \in requests: Refuse(r)) \/ UNCHANGED vars
  PROVE  Backed'
<1>1. /\ UNCHANGED <<origin, up, crashed, mem, disk, carrier, last, grants>>
      /\ up \/ ahead' = ahead
      /\ now' = now \/ now' = now + 1
      /\ requests' \in SUBSET requests
  <2>1. CASE Tick
    BY <2>1 DEF Tick
  <2>2. CASE NewEpoch
    BY <2>2 DEF NewEpoch
  <2>3. CASE \E r \in requests: Refuse(r)
    BY <2>3 DEF Refuse
  <2>4. CASE UNCHANGED vars
    BY <2>4, Zenon DEF vars
  <2> QED
    BY <2>1, <2>2, <2>3, <2>4
<1>2. ASSUME NEW c \in Carriers, NEW t \in Tokens, NEW u \in Nat,
             Backs(c, t, u, Kept(c), disk, requests, last)
      PROVE  u <= Kept(c)' /\ \A a \in disk': Keeping(c, t, a)
  <2>1. Kept(c)' = Kept(c)
    BY <1>1 DEF Kept
  <2> QED
    BY <1>1, <1>2, <2>1 DEF Backs
<1>3. StillKept
  BY <1>2, Zenon DEF StillKept
<1>4. now' \in Nat /\ now <= now' /\ \A a \in disk': Follows(a, last)
  <2>1. now \in Nat
    BY DEF Base, TypeOK
  <2>2. \A a \in disk: Follows(a, last)
    BY Zenon DEF Backed
  <2> QED
    BY <1>1, <2>1, <2>2
<1> QED
  BY <1>1, <1>3, <1>4, QuietAuthorityBacked, Zenon

\* A step of carrier c that gives it no new claim.
GainsNothing(c) ==
  /\ UNCHANGED <<now, origin, up, crashed, ahead, mem, disk, last>>
  /\ grants' \in SUBSET grants
  /\ \A r \in requests': \/ r \in requests
                         \/ r.from = c /\ (r.action # "release" \/ ~Holds(c)')
  /\ Holds(c)' => /\ Holds(c)
                  /\ carrier'[c].token = carrier[c].token
                  /\ carrier'[c].until = carrier[c].until
  /\ \A g \in grants': g.to = c => ~Pending(g)'

\* A carrier that gains nothing leaves every claim backed.
LEMMA GainlessBacked ==
  ASSUME Base, Backed, NEW c \in Carriers, Alone(c), GainsNothing(c), RenewsInTime(c)'
  PROVE  Backed'
<1>1. /\ UNCHANGED <<now, origin, up, crashed, ahead, mem, disk, last>>
      /\ grants' \in SUBSET grants
      /\ \A d \in Carriers: d # c => carrier'[d] = carrier[d]
  BY DEF GainsNothing, Alone
<1>2. ASSUME NEW d \in Carriers
      PROVE  Kept(d)' = Kept(d)
  BY <1>1 DEF Kept
<1>3. ASSUME NEW d \in Carriers, NEW t, NEW u, ~(d = c) \/ Holds(c)',
             Backs(d, t, u, Kept(d), disk, requests, last)
      PROVE  Backs(d, t, u, Kept(d)', disk', requests', last')
  <2>1. \A r \in requests': r.action = "release" /\ r.from = d => r \in requests
    BY <1>3 DEF GainsNothing
  <2>2. Kept(d)' = Kept(d)
    BY <1>2
  <2> QED
    BY <1>1, <1>3, <2>1, <2>2, Zenon DEF Backs
<1>4. ASSUME NEW d \in Carriers
      PROVE  RenewsInTime(d)'
  <2>1. CASE d = c
    BY <2>1
  <2>2. CASE d # c
    <3>1. RenewsInTime(d) /\ carrier'[d] = carrier[d] /\ now' = now
      BY <1>1, <2>2, Zenon DEF Backed
    <3> QED
      BY <3>1, Zenon DEF RenewsInTime
  <2> QED
    BY <2>1, <2>2
<1>5. ASSUME NEW d \in Carriers, Holds(d)'
      PROVE  Holds(d) /\ carrier'[d].token = carrier[d].token /\ carrier'[d].until = carrier[d].until
  <2>1. CASE d = c
    BY <1>5, <2>1 DEF GainsNothing
  <2>2. CASE d # c
    <3>1. carrier'[d] = carrier[d] /\ now' = now
      BY <1>1, <2>2, Zenon
    <3> QED
      BY <1>5, <3>1 DEF Holds
  <2> QED
    BY <2>1, <2>2, Zenon
<1>6. ASSUME NEW d \in Carriers, Holds(d)'
      PROVE  /\ Backs(d, carrier'[d].token, carrier'[d].until, Kept(d)', disk', requests', last')
             /\ last' = [node |-> NodeOf[d], fence |-> carrier'[d].token.fence]
  <2>1. Holds(d) /\ carrier'[d].token = carrier[d].token /\ carrier'[d].until = carrier[d].until
    BY <1>5, <1>6, Zenon
  <2>2. /\ Backs(d, carrier[d].token, carrier[d].until, Kept(d), disk, requests, last)
        /\ last = [node |-> NodeOf[d], fence |-> carrier[d].token.fence]
    BY <2>1, Zenon DEF Backed
  <2>3. ~(d = c) \/ Holds(c)'
    BY <1>6, Zenon
  <2>4. Backs(d, carrier[d].token, carrier[d].until, Kept(d)', disk', requests', last')
    BY <1>3, <2>2, <2>3, Zenon
  <2> QED
    BY <1>1, <2>1, <2>2, <2>4, Zenon
<1>7. ASSUME NEW g \in grants', Pending(g)'
      PROVE  /\ g \in grants /\ g.to \in Carriers /\ Pending(g)
             /\ Backs(g.to, g.token, ValidUntil(g.to, g)', Kept(g.to)', disk', requests', last')
  <2>1. g \in grants /\ g.to \in Carriers /\ g.to # c
    BY <1>1, <1>7, Zenon DEF GainsNothing, Base, TypeOK, Grants
  <2>2. carrier'[g.to] = carrier[g.to] /\ now' = now
    BY <1>1, <2>1
  <2>3. ValidUntil(g.to, g)' = ValidUntil(g.to, g) /\ Pending(g)
    BY <1>7, <2>2, Zenon DEF ValidUntil, Pending, Waits
  <2>4. Backs(g.to, g.token, ValidUntil(g.to, g), Kept(g.to), disk, requests, last)
    BY <2>1, <2>3, Zenon DEF Backed
  <2>5. Backs(g.to, g.token, ValidUntil(g.to, g), Kept(g.to)', disk', requests', last')
    BY <1>3, <2>1, <2>4
  <2> QED
    BY <2>1, <2>3, <2>5, Zenon
<1>8. \A d \in Carriers: Claims(d)' => Claims(d)
  BY <1>5, <1>7, Zenon DEF Claims
<1>9. \A d, e \in Carriers: Claims(d)' /\ Claims(e)' => d = e
  BY <1>8, Zenon DEF Backed
<1>10. \A a \in disk': Follows(a, last')
  BY <1>1, Zenon DEF Backed
<1> QED
  BY <1>4, <1>6, <1>7, <1>9, <1>10, Zenon DEF Backed

\* A new exchange has no answer yet.
LEMMA NewExchangeUnanswered ==
  ASSUME Base, NEW c \in Carriers, carrier'[c].request_id = carrier[c].request_id + 1,
         grants' \in SUBSET grants
  PROVE  \A g \in grants': g.to = c => ~Pending(g)'
<1> SUFFICES ASSUME NEW g \in grants', g.to = c PROVE ~Pending(g)'
  BY Zenon
<1>1. /\ g \in grants /\ g.request_id \in Nat /\ g.request_id <= carrier[c].request_id
      /\ carrier[c].request_id \in Nat
  BY DEF Base, TypeOK, Exchanges, Grants, Processes
<1>2. g.request_id # carrier'[g.to].request_id
  BY <1>1
<1> QED
  BY <1>2 DEF Pending, Waits

\* The carriers' steps other than ReceiveGrant gain nothing: they begin an
\* exchange, take the node's lock, or stop.
LEMMA CarrierBacked ==
  ASSUME Base, Backed, NEW c \in Carriers,
         \/ StartAcquire(c) \/ Import(c) \/ StartRenew(c)
         \/ Lose(c) \/ StartRelease(c) \/ Exit(c)
         \/ \E g \in grants: ReceiveLate(c, g)
  PROVE  Backed'
<1>0. /\ carrier \in [Carriers -> Processes] /\ now \in Nat
      /\ carrier[c].until \in Nat /\ carrier[c].renewal \in Nat /\ carrier[c].started \in Nat
  BY DEF Base, TypeOK, Processes
<1>1. UNCHANGED <<now, origin, up, crashed, ahead, mem, disk>>
  BY CarrierSteps, Zenon
<1>2. carrier[c].pc \notin {"idle", "acquiring"} => carrier[c].token # None
  BY Zenon DEF Base, Exchanges
<1>3. RenewsInTime(c)
  BY Zenon DEF Backed
<1>4. CASE StartAcquire(c)
  <2>1. Becomes(c, "acquiring", carrier[c].token, carrier[c].until, carrier[c].renewal, now,
                carrier[c].request_id + 1)
    BY <1>0, <1>4, StartAcquireEffect, Zenon
  <2>2. Alone(c) /\ carrier'[c].request_id = carrier[c].request_id + 1 /\ ~Holds(c)' /\ RenewsInTime(c)'
    BY <2>1, Zenon DEF Becomes, Alone, Holds, RenewsInTime
  <2>3. grants' = grants /\ last' = last /\ \A r \in requests': r \in requests \/ r.from = c
    <3> DEFINE q == [from |-> c, request_id |-> carrier[c].request_id + 1, action |-> "acquire",
                     token |-> None, started |-> now]
    <3>1. /\ grants' = grants /\ last' = last
          /\ requests' = requests \cup {q}
      BY <1>4, Zenon DEF StartAcquire, Send
    <3>2. q.from = c /\ q.action = "acquire"
      BY Zenon
    <3> HIDE DEF q
    <3> QED
      BY <3>1, <3>2, Zenon
  <2>4. \A g \in grants': g.to = c => ~Pending(g)'
    BY <2>2, <2>3, NewExchangeUnanswered, Zenon
  <2>5. GainsNothing(c)
    BY <1>1, <2>2, <2>3, <2>4, Zenon DEF GainsNothing
  <2> QED
    BY <2>2, <2>5, GainlessBacked, Zenon
<1>5. CASE Import(c)
  <2>1. Becomes(c, "live", carrier[c].token, carrier[c].until, carrier[c].renewal,
                carrier[c].started, carrier[c].request_id)
    BY <1>0, <1>5, ImportEffect
  <2>2. carrier[c].pc = "granted" /\ grants' = grants /\ last' = last /\ requests' = requests
    BY <1>5, Zenon DEF Import
  <2>3. Alone(c) /\ RenewsInTime(c)'
    BY <1>2, <1>3, <2>1, <2>2, Zenon DEF Becomes, Alone, RenewsInTime
  <2>4. Holds(c)' => /\ Holds(c)
                     /\ carrier'[c].token = carrier[c].token
                     /\ carrier'[c].until = carrier[c].until
    BY <1>1, <2>1, <2>2, Zenon DEF Becomes, Holds
  <2>5. \A g \in grants': g.to = c => ~Pending(g)'
    BY <2>1, Zenon DEF Becomes, Pending, Waits
  <2>6. GainsNothing(c)
    BY <1>1, <2>2, <2>4, <2>5, Zenon DEF GainsNothing
  <2> QED
    BY <2>3, <2>6, GainlessBacked, Zenon
<1>6. CASE StartRenew(c)
  <2>1. Becomes(c, "renewing", carrier[c].token, carrier[c].until, 0, now,
                carrier[c].request_id + 1)
    BY <1>0, <1>6, StartRenewEffect
  <2>2. /\ carrier[c].pc = "live" /\ now >= carrier[c].renewal
        /\ grants' = grants /\ last' = last
        /\ \A r \in requests': r \in requests \/ (r.from = c /\ r.action # "release")
    <3> DEFINE q == [from |-> c, request_id |-> carrier[c].request_id + 1, action |-> "renew",
                     token |-> carrier[c].token, started |-> now]
    <3>1. /\ carrier[c].pc = "live" /\ now >= carrier[c].renewal
          /\ grants' = grants /\ last' = last
          /\ requests' = requests \cup {q}
      BY <1>6, Zenon DEF StartRenew, Send
    <3>2. q.from = c /\ q.action = "renew"
      OBVIOUS
    <3> HIDE DEF q
    <3> QED
      BY <3>1, <3>2, Zenon
  <2>3. Term - 1 \in Int /\ Ticks(Term - 1) \in Int
    BY TermAssumption, TicksMono
  <2>4. carrier[c].until <= now + Ticks(Term - 1)
    BY <1>0, <1>3, <2>2, <2>3 DEF RenewsInTime
  <2>5. Alone(c) /\ RenewsInTime(c)' /\ carrier'[c].request_id = carrier[c].request_id + 1
    BY <1>2, <2>1, <2>2, <2>4, Zenon DEF Becomes, Alone, RenewsInTime
  <2>6. Holds(c)' => /\ Holds(c)
                     /\ carrier'[c].token = carrier[c].token
                     /\ carrier'[c].until = carrier[c].until
    BY <1>1, <2>1, <2>2, Zenon DEF Becomes, Holds
  <2>7. \A g \in grants': g.to = c => ~Pending(g)'
    BY <2>2, <2>5, NewExchangeUnanswered, Zenon
  <2>8. GainsNothing(c)
    BY <1>1, <2>2, <2>6, <2>7, Zenon DEF GainsNothing
  <2> QED
    BY <2>5, <2>8, GainlessBacked, Zenon
<1>7. CASE Lose(c)
  <2>1. Becomes(c, "fenced", carrier[c].token, 0, 0, 0, carrier[c].request_id)
    BY <1>0, <1>7, LoseEffect
  <2>2. /\ carrier[c].pc \in {"live", "renewing", "cleanup"}
        /\ grants' \in SUBSET grants /\ last' = last /\ requests' = requests
    BY <1>7, Zenon DEF Lose
  <2>3. Alone(c) /\ RenewsInTime(c)' /\ ~Holds(c)'
    BY <1>2, <2>1, <2>2, Zenon DEF Becomes, Alone, RenewsInTime, Holds
  <2>4. \A g \in grants': g.to = c => ~Pending(g)'
    BY <2>1, Zenon DEF Becomes, Pending, Waits
  <2>5. GainsNothing(c)
    BY <1>1, <2>2, <2>3, <2>4, Zenon DEF GainsNothing
  <2> QED
    BY <2>3, <2>5, GainlessBacked, Zenon
<1>8. CASE StartRelease(c)
  <2>1. Becomes(c, "idle", None, 0, 0, 0, carrier[c].request_id + 1)
    BY <1>0, <1>8, StartReleaseEffect
  <2>2. grants' = grants /\ last' = last /\ \A r \in requests': r \in requests \/ r.from = c
    <3> DEFINE q == [from |-> c, request_id |-> carrier[c].request_id + 1, action |-> "release",
                     token |-> carrier[c].token, started |-> now]
    <3>1. /\ grants' = grants /\ last' = last
          /\ requests' = requests \cup {q}
      BY <1>8, Zenon DEF StartRelease, Send
    <3>2. q.from = c /\ q.action = "release"
      OBVIOUS
    <3> HIDE DEF q
    <3> QED
      BY <3>1, <3>2, Zenon
  <2>3. Alone(c) /\ RenewsInTime(c)' /\ ~Holds(c)'
    BY <2>1, Zenon DEF Becomes, Alone, RenewsInTime, Holds
  <2>4. \A g \in grants': g.to = c => ~Pending(g)'
    BY <2>1, Zenon DEF Becomes, Pending, Waits
  <2>5. GainsNothing(c)
    BY <1>1, <2>2, <2>3, <2>4, Zenon DEF GainsNothing
  <2> QED
    BY <2>3, <2>5, GainlessBacked
<1>9. CASE Exit(c)
  <2>1. Becomes(c, "idle", None, 0, 0, 0, carrier[c].request_id)
    BY <1>0, <1>9, ExitEffect
  <2>2. grants' \in SUBSET grants /\ last' = last /\ requests' = requests
    BY <1>9, Zenon DEF Exit
  <2>3. Alone(c) /\ RenewsInTime(c)' /\ ~Holds(c)'
    BY <2>1, Zenon DEF Becomes, Alone, RenewsInTime, Holds
  <2>4. \A g \in grants': g.to = c => ~Pending(g)'
    BY <2>1, Zenon DEF Becomes, Pending, Waits
  <2>5. GainsNothing(c)
    BY <1>1, <2>2, <2>3, <2>4, Zenon DEF GainsNothing
  <2> QED
    BY <2>3, <2>5, GainlessBacked
<1>10. ASSUME NEW g \in grants, ReceiveLate(c, g) PROVE Backed'
  <2>1. \/ /\ carrier[c].pc = "acquiring"
           /\ Becomes(c, "idle", None, 0, 0, 0, carrier[c].request_id + 1)
        \/ /\ carrier[c].pc = "renewing"
           /\ Becomes(c, "cleanup", carrier[c].token, carrier[c].until, carrier[c].renewal,
                      carrier[c].started, carrier[c].request_id + 1)
    BY <1>0, <1>10, ReceiveLateEffect
  <2>2. /\ g.to = c /\ ValidUntil(c, g) <= now
        /\ grants' \in SUBSET grants /\ last' = last
        /\ \A r \in requests': r \in requests \/ r.from = c
    BY <1>10 DEF ReceiveLate, Send, Answers
  <2>3. ASSUME carrier[c].pc = "renewing" PROVE carrier[c].until <= now
    <3> DEFINE m == g.remaining - 1
               t == Term - 1
    <3>1. m \in Int /\ t \in Int /\ t <= m
      BY TermAssumption DEF Base, TypeOK, Exchanges, Grants
    <3> HIDE DEF m, t
    <3>2. Ticks(m) \in Int /\ Ticks(t) \in Int /\ Ticks(t) <= Ticks(m)
      BY <3>1, TicksMono, Zenon
    <3>3. carrier[c].until <= carrier[c].started + Ticks(t) /\ carrier[c].started + Ticks(m) <= now
      BY <1>3, <2>2, <2>3, Zenon DEF RenewsInTime, ValidUntil, m, t
    <3> QED
      BY <1>0, <3>2, <3>3
  <2>4. ~Holds(c)' /\ RenewsInTime(c)'
    BY <1>0, <1>1, <2>1, <2>3 DEF Becomes, RenewsInTime, Holds
  <2>5. Alone(c)
    BY <1>2, <2>1, Zenon DEF Becomes, Alone
  <2>6. \A h \in grants': h.to = c => ~Pending(h)'
    BY <2>1, Zenon DEF Becomes, Pending, Waits
  <2>7. GainsNothing(c)
    BY <1>1, <2>2, <2>4, <2>6, Zenon DEF GainsNothing
  <2> QED
    BY <2>4, <2>5, <2>7, GainlessBacked, Zenon
<1> QED
  BY <1>4, <1>5, <1>6, <1>7, <1>8, <1>9, <1>10, Zenon

\* A carrier that receives its grant in time becomes the latest owner.
LEMMA ReceiveGrantBacked ==
  ASSUME Base, Backed, NEW c \in Carriers, NEW g \in grants, ReceiveGrant(c, g)
  PROVE  Backed'
<1> DEFINE u == ValidUntil(c, g)
           x == IF carrier[c].pc = "acquiring" THEN "granted" ELSE "live"
<1>0. carrier \in [Carriers -> Processes] /\ now \in Nat
  BY DEF Base, TypeOK
<1>1. UNCHANGED <<now, origin, up, crashed, ahead, mem, disk>>
  BY CarrierSteps
<1>2. /\ g.to = c /\ g.request_id = carrier[c].request_id /\ u > now
      /\ carrier[c].pc \in {"acquiring", "renewing"}
      /\ grants' \in SUBSET grants /\ requests' = requests
      /\ last' = [node |-> NodeOf[c], fence |-> g.token.fence]
  BY Zenon DEF ReceiveGrant, Answers
<1>3. g.token \in Tokens /\ g.token # None /\ u \in Nat /\ Known(g.token, disk, mem)
  BY <1>2, ClaimTypes, NoneAssumption, Zenon
<1>4. RenewalAt(u) \in Nat
  BY <1>2, GrantTimes DEF Base, Exchanges
<1>5. Becomes(c, x, g.token, u, RenewalAt(u), 0, carrier[c].request_id)
  BY <1>0, <1>3, <1>4, ReceiveGrantEffect, Zenon
<1>6. x \in {"granted", "live"}
  BY Zenon
<1> HIDE DEF x
<1>7. Pending(g)
  BY <1>0, <1>2, <1>3, Zenon DEF Pending, Waits
<1>8. Backs(c, g.token, u, Kept(c), disk, requests, last)
  BY <1>2, <1>7, Zenon DEF Backed
<1>9. Alone(c)
  BY <1>3, <1>5, Zenon DEF Becomes, Alone
<1>10. RenewsInTime(c)'
  <2> HIDE DEF u
  <2>2. u <= RenewalAt(u) + Ticks(Term - 1)
    BY <1>0, <1>2, <1>3, RenewalInTime
  <2> QED
    BY <1>5, <1>6, <2>2 DEF Becomes, RenewsInTime
<1> HIDE DEF u
<1>11. ASSUME NEW d \in Carriers, d # c
       PROVE  carrier'[d] = carrier[d] /\ ~Claims(d)
  <2>1. Claims(c)
    BY <1>2, <1>7, Zenon DEF Claims
  <2>2. carrier'[d] = carrier[d]
    BY <1>9, <1>11 DEF Alone
  <2> QED
    BY <1>11, <2>1, <2>2, Zenon DEF Backed
<1>12. ASSUME NEW d \in Carriers, d # c
       PROVE  ~Claims(d)' /\ RenewsInTime(d)'
  <2>1. carrier'[d] = carrier[d] /\ ~Claims(d) /\ now' = now /\ RenewsInTime(d)
    BY <1>1, <1>11, <1>12, Zenon DEF Backed
  <2>2. ~Holds(d)' /\ RenewsInTime(d)'
    BY <2>1, Zenon DEF Claims, Holds, RenewsInTime
  <2>3. ASSUME NEW h \in grants', h.to = d PROVE ~Pending(h)'
    <3>1. h \in grants /\ ~Pending(h)
      BY <1>2, <2>1, <2>3 DEF Claims
    <3> QED
      BY <2>1, <2>3, <3>1, Zenon DEF Pending, Waits, ValidUntil
  <2> QED
    BY <2>2, <2>3, Zenon DEF Claims
<1>13. \A h \in grants': ~Pending(h)'
  <2> SUFFICES ASSUME NEW h \in grants', Pending(h)' PROVE FALSE
    OBVIOUS
  <2>1. h.to \in Carriers
    BY <1>2, Zenon DEF Base, TypeOK, Grants
  <2>2. CASE h.to = c
    BY <1>5, <1>6, <2>2 DEF Becomes, Pending, Waits
  <2>3. CASE h.to # c
    BY <1>12, <2>1, <2>3, Zenon DEF Claims
  <2> QED
    BY <2>2, <2>3
<1>14. /\ Backs(c, carrier'[c].token, carrier'[c].until, Kept(c)', disk', requests', last')
       /\ last' = [node |-> NodeOf[c], fence |-> carrier'[c].token.fence]
  <2>1. Kept(c)' = Kept(c)
    BY <1>1, Zenon DEF Kept
  <2>2. carrier'[c].token = g.token /\ carrier'[c].until = u
    BY <1>5, Zenon DEF Becomes
  <2>3. InOrder(NodeOf[c], g.token.fence, last')
    BY <1>2, Zenon DEF InOrder
  <2>4. Backs(c, g.token, u, Kept(c), disk, requests, last')
    BY <1>8, <2>3, Zenon DEF Backs
  <2> QED
    BY <1>1, <1>2, <2>1, <2>2, <2>4, Zenon
<1>15. ASSUME NEW a \in disk
       PROVE  Follows(a, last')
  <2>1. /\ g.token.fence.generation < a.next_fence /\ g.token.fence.epoch <= a.epoch
        /\ Keeping(c, g.token, a)
    BY <1>3, <1>8, Zenon DEF Known, Backs
  <2>2. ASSUME a.active # None
        PROVE  last' = [node |-> a.active.node, fence |-> a.active.fence]
    <3>1. a.handoff = 0
      BY <2>2, Zenon DEF Base, Authority, ValidCheckpoint
    <3>2. a.active.node = NodeOf[c] /\ a.active.fence = g.token.fence
      BY <2>1, <2>2, <3>1 DEF Keeping, KeptUntil
    <3> QED
      BY <1>2, <3>2, Zenon
  <2>3. last'.fence = g.token.fence
    BY <1>2
  <2> QED
    BY <2>1, <2>2, <2>3, Zenon DEF Follows, InOrder
<1>16. \A d \in Carriers: Claims(d)' => d = c
  BY <1>12
<1>17. \A d \in Carriers: Holds(d)' => d = c
  BY <1>16, Zenon DEF Claims
<1> QED
  <2>1. \A d \in Carriers: RenewsInTime(d)'
    BY <1>10, <1>12
  <2>2. \A d, e \in Carriers: Claims(d)' /\ Claims(e)' => d = e
    BY <1>16
  <2>3. \A a \in disk': Follows(a, last')
    BY <1>1, <1>15
  <2>4. \A d \in Carriers: Holds(d)' =>
          /\ Backs(d, carrier'[d].token, carrier'[d].until, Kept(d)', disk', requests', last')
          /\ last' = [node |-> NodeOf[d], fence |-> carrier'[d].token.fence]
    BY <1>14, <1>17, Zenon
  <2> QED
    BY <1>13, <2>1, <2>2, <2>3, <2>4, Zenon DEF Backed

\* Every action keeps every claim backed.
LEMMA BackedStep ==
  ASSUME Base, Backed, OneCarrierPerNode, [Next]_vars
  PROVE  Backed'
<1>1. CASE Tick \/ NewEpoch
  BY <1>1, IdleBacked
<1>2. CASE Crash
  BY <1>2, CrashBacked
<1>3. ASSUME NEW r \in requests, Refuse(r) PROVE Backed'
  BY <1>3, IdleBacked
<1>4. ASSUME NEW r \in requests, NEW epoch \in mem.epoch..view, NEW at \in ReadSince(r.started),
             Handle(r, epoch, at)
      PROVE  Backed'
  BY <1>4, HandleBacked
<1>5. ASSUME NEW epoch \in mem.epoch..view, NEW at \in ReadSince(origin), Observe(epoch, at)
      PROVE  Backed'
  BY <1>5, ObserveBacked
<1>6. ASSUME NEW found \in disk, Restart(found) PROVE Backed'
  BY <1>6, RestartBacked
<1>7. ASSUME NEW found \in disk, RestartUnsynced(found) PROVE Backed'
  BY <1>7, RestartUnsyncedBacked
<1>8. ASSUME NEW c \in Carriers,
             \/ StartAcquire(c) \/ Import(c) \/ StartRenew(c)
             \/ Lose(c) \/ StartRelease(c) \/ Exit(c)
             \/ \E g \in grants: ReceiveLate(c, g)
      PROVE  Backed'
  BY <1>8, CarrierBacked
<1>9. ASSUME NEW c \in Carriers, NEW g \in grants, ReceiveGrant(c, g) PROVE Backed'
  BY <1>9, ReceiveGrantBacked
<1>10. CASE UNCHANGED vars
  BY <1>10, IdleBacked
<1> QED
  BY <1>1, <1>2, <1>3, <1>4, <1>5, <1>6, <1>7, <1>8, <1>9, <1>10 DEF Next

\* Nobody claims anything at first.
LEMMA InitBacked == Init => Backed
<1> SUFFICES ASSUME Init PROVE Backed
  BY Zenon
<1>1. /\ grants = {} /\ disk = {NewAuthority(1)}
      /\ last = [node |-> None, fence |-> [epoch |-> 0, generation |-> 0]]
      /\ \A c \in Carriers: carrier[c].pc = "idle"
  BY DEF Init, Idle
<1>2. ASSUME NEW c \in Carriers
      PROVE  ~Holds(c) /\ RenewsInTime(c)
  <2>1. carrier[c].pc = "idle"
    BY <1>1
  <2> QED
    BY <2>1, Zenon DEF Holds, RenewsInTime
<1>3. \A c \in Carriers: ~Claims(c)
  BY <1>1, <1>2, Zenon DEF Claims
<1>4. \A a \in disk: Follows(a, last)
  <2> DEFINE a == NewAuthority(1)
  <2>1. a.next_fence = 1 /\ a.epoch = 1 /\ a.active = None
    BY Zenon DEF NewAuthority
  <2>2. last.fence.generation = 0 /\ last.fence.epoch = 0
    BY <1>1
  <2> HIDE DEF a
  <2>3. Follows(a, last)
    BY <2>1, <2>2 DEF Follows
  <2> QED
    BY <1>1, <2>3, Zenon DEF a
<1> QED
  BY <1>1, <1>2, <1>3, <1>4, Zenon DEF Backed

-----------------------------------------------------------------------------
(* Theorems that need one carrier per node *)

\* Every claim of a carrier is backed by the authority in every state.
THEOREM BackedHolds == OneCarrierPerNode => (Spec => []Backed)
<1> SUFFICES ASSUME OneCarrierPerNode PROVE Spec => []Backed
  OBVIOUS
<1>1. Base /\ Backed /\ [Next]_vars => Backed'
  BY BackedStep
<1>2. Init => Backed
  BY InitBacked
<1> QED
  BY <1>1, <1>2, BaseHolds, PTL DEF Spec

\* "It grants at most one writer for each Pool GUID": with one carrier on each
\* node, no two nodes may mutate the Pool at once, however long messages take
\* and wherever the authority crashes.
THEOREM WritersAreAlone == OneCarrierPerNode => (Spec => []SingleWriter)
<1> SUFFICES ASSUME OneCarrierPerNode PROVE Spec => []SingleWriter
  OBVIOUS
<1>1. Backed => SingleWriter
  BY Zenon DEF Backed, Claims, SingleWriter
<1> QED
  BY <1>1, BackedHolds, PTL

\* What a carrier holds is kept for it by the authority's memory, or by what a
\* restart makes of any checkpoint it may find.
THEOREM HoldersAreKept == OneCarrierPerNode => (Spec => []HolderIsKept)
<1> SUFFICES ASSUME OneCarrierPerNode PROVE Spec => []HolderIsKept
  OBVIOUS
<1>1. Base /\ Backed => HolderIsKept
  <2> SUFFICES ASSUME Base, Backed, NEW c \in Carriers, Holds(c)
               PROVE  IF up THEN carrier[c].until <= origin + Ticks(KeptUntil(mem, NodeOf[c]))
                      ELSE LET restart == Larger(now, Restarts)
                           IN \A a \in disk: carrier[c].until
                                <= restart + Ticks(KeptUntil(RecoverCheckpoint(a), NodeOf[c]))
    BY Zenon DEF HolderIsKept
  <2>1. Backs(c, carrier[c].token, carrier[c].until, Kept(c), disk, requests, last)
    BY Zenon DEF Backed
  <2>2. carrier[c].until <= Kept(c) /\ \A a \in disk: Keeping(c, carrier[c].token, a)
    BY <2>1, Zenon DEF Backs
  <2>3. carrier[c].until \in Nat /\ carrier[c].token \in Tokens
    BY ClaimTypes
  <2>4. CASE up
    BY <2>2, <2>4, Zenon DEF Kept
  <2>5. CASE ~up
    <3>1. /\ now \in Nat /\ crashed \in Nat /\ ahead \in Nat
          /\ Ticks(Term) \in Int /\ Ticks(ahead) \in Int
          /\ Ticks(Term + ahead) = Ticks(Term) + Ticks(ahead)
      BY LateRestart, Zenon
    <3>2. carrier[c].until <= crashed + Ticks(Term + ahead)
      BY <2>2, <2>5, Zenon DEF Kept
    <3>3. ASSUME NEW a \in disk
          PROVE  KeptUntil(RecoverCheckpoint(a), NodeOf[c]) = Term
      BY <2>2, <2>3, RecoveredKeeps, Zenon
    <3>4. carrier[c].until <= Larger(now, Restarts) + Ticks(Term)
      BY <2>3, <3>1, <3>2 DEF Larger, Restarts
    <3> QED
      BY <2>5, <3>3, <3>4, Zenon
  <2> QED
    BY <2>4, <2>5
<1> QED
  BY <1>1, BaseHolds, BackedHolds, PTL, Zenon

\* The owners of the Pool, as its mutations see them.
Owners == {NodeOf[c]: c \in {d \in Carriers: Holds(d)}}

\* No step but the receipt of a grant gives a carrier the Pool.
LEMMA OnlyGrantsGive ==
  ASSUME Base, [Next]_vars,
         ~\E c \in Carriers, g \in grants: ReceiveGrant(c, g)
  PROVE  last' = last /\ \A c \in Carriers: Holds(c)' => Holds(c)
<1>0. /\ carrier \in [Carriers -> Processes] /\ now \in Nat
      /\ \A c \in Carriers: carrier[c].until \in Nat
  BY ClaimTypes DEF Base, TypeOK
<1>1. ASSUME carrier' = carrier, now' = now \/ now' = now + 1
      PROVE  \A c \in Carriers: Holds(c)' => Holds(c)
  BY <1>0, <1>1 DEF Holds
<1>2. CASE \/ Tick \/ NewEpoch \/ Crash
           \/ \E r \in requests:
                \/ Refuse(r)
                \/ \E epoch \in mem.epoch..view, at \in ReadSince(r.started): Handle(r, epoch, at)
           \/ \E epoch \in mem.epoch..view, at \in ReadSince(origin): Observe(epoch, at)
           \/ \E found \in disk: Restart(found) \/ RestartUnsynced(found)
           \/ UNCHANGED vars
  <2>1. last' = last /\ carrier' = carrier /\ (now' = now \/ now' = now + 1)
    <3> DEFINE Q == last' = last /\ carrier' = carrier /\ (now' = now \/ now' = now + 1)
    <3>1. Tick \/ NewEpoch \/ Crash \/ UNCHANGED vars => Q
      BY Zenon DEF Tick, NewEpoch, Crash, vars
    <3>2. ASSUME NEW r \in requests, NEW epoch, NEW at, Refuse(r) \/ Handle(r, epoch, at) PROVE Q
      BY <3>2, Zenon DEF Refuse, Handle
    <3>3. ASSUME NEW epoch, NEW at, Observe(epoch, at) PROVE Q
      BY <3>3, Zenon DEF Observe
    <3>4. ASSUME NEW found \in disk, Restart(found) \/ RestartUnsynced(found) PROVE Q
      BY <3>4, Zenon DEF Restart, RestartUnsynced
    <3> HIDE DEF Q
    <3>5. Q
      BY <1>2, <3>1, <3>2, <3>3, <3>4, Zenon
    <3> QED
      BY <3>5 DEF Q
  <2> QED
    BY <1>1, <2>1
<1>3. ASSUME NEW c \in Carriers, NEW pc, NEW token, NEW until, NEW renewal, NEW started, NEW id,
             Becomes(c, pc, token, until, renewal, started, id), now' = now,
             \/ pc \notin {"granted", "live", "renewing", "cleanup"}
             \/ until = carrier[c].until /\ carrier[c].pc \in {"granted", "live", "renewing"}
      PROVE  \A d \in Carriers: Holds(d)' => Holds(d)
  <2> SUFFICES ASSUME NEW d \in Carriers, Holds(d)' PROVE Holds(d)
    BY Zenon
  <2>1. CASE d = c
    BY <1>3, <2>1, Zenon DEF Becomes, Holds
  <2>2. CASE d # c
    <3>1. carrier'[d] = carrier[d]
      BY <1>3, <2>2, Zenon DEF Becomes
    <3> QED
      BY <1>3, <3>1, Zenon DEF Holds
  <2> QED
    BY <2>1, <2>2
<1>4. ASSUME NEW c \in Carriers,
             \/ StartAcquire(c) \/ Import(c) \/ StartRenew(c)
             \/ Lose(c) \/ StartRelease(c) \/ Exit(c)
             \/ \E g \in grants: ReceiveLate(c, g)
      PROVE  last' = last /\ \A d \in Carriers: Holds(d)' => Holds(d)
  <2>1. now' = now
    BY <1>4, CarrierSteps
  <2>2. last' = last
    BY <1>4, Zenon DEF StartAcquire, Import, StartRenew, Lose, StartRelease, Exit, ReceiveLate
  <2>3. CASE StartAcquire(c)
    BY <1>0, <1>3, <2>1, <2>2, <2>3, StartAcquireEffect, Zenon
  <2>4. CASE Import(c)
    <3>1. carrier[c].pc = "granted"
      BY <2>4 DEF Import
    <3> QED
      BY <1>0, <1>3, <2>1, <2>2, <2>4, <3>1, ImportEffect
  <2>5. CASE StartRenew(c)
    <3>1. carrier[c].pc = "live"
      BY <2>5 DEF StartRenew
    <3> QED
      BY <1>0, <1>3, <2>1, <2>2, <2>5, <3>1, StartRenewEffect
  <2>6. CASE Lose(c)
    BY <1>0, <1>3, <2>1, <2>2, <2>6, LoseEffect, Zenon
  <2>7. CASE StartRelease(c)
    BY <1>0, <1>3, <2>1, <2>2, <2>7, StartReleaseEffect, Zenon
  <2>8. CASE Exit(c)
    BY <1>0, <1>3, <2>1, <2>2, <2>8, ExitEffect, Zenon
  <2>9. ASSUME NEW g \in grants, ReceiveLate(c, g)
        PROVE  last' = last /\ \A d \in Carriers: Holds(d)' => Holds(d)
    BY <1>0, <1>3, <2>1, <2>2, <2>9, ReceiveLateEffect, Zenon
  <2> QED
    BY <1>4, <2>3, <2>4, <2>5, <2>6, <2>7, <2>8, <2>9, Zenon
<1> QED
  BY <1>2, <1>4, Zenon DEF Next

\* Receiving a grant is taking the Pool, or renewing what the carrier holds.
LEMMA GrantTakes ==
  ASSUME Base, Backed, Backed', NEW c \in Carriers, NEW g \in grants, ReceiveGrant(c, g)
  PROVE  [Fenced!Next]_<<Owners, last>>
<1>1. /\ g.to = c /\ last' = [node |-> NodeOf[c], fence |-> g.token.fence]
      /\ g.request_id = carrier[c].request_id /\ carrier[c].pc \in {"acquiring", "renewing"}
      /\ ValidUntil(c, g) > now
      /\ carrier[c].pc = "renewing" => carrier[c].until > now /\ g.token.fence = carrier[c].token.fence
  BY Zenon DEF ReceiveGrant, Answers
<1>2. NodeOf[c] \in Nodes /\ now \in Nat /\ ValidUntil(c, g) \in Nat /\ carrier[c].until \in Nat
  BY <1>1, ClaimTypes, CarriersAssumption, Zenon DEF Base, TypeOK
<1>3. Pending(g) /\ Claims(c)
  BY <1>1, <1>2, Zenon DEF Pending, Waits, Claims
<1>4. \A d \in Carriers: Holds(d) => d = c
  BY <1>3, Zenon DEF Backed, Claims
<1>5. Holds(c)'
  <2>1. /\ g.token \in Tokens /\ RenewalAt(ValidUntil(c, g)) \in Nat
        /\ carrier \in [Carriers -> Processes]
    BY <1>1, ClaimTypes, GrantTimes, Zenon DEF Base, TypeOK, Exchanges
  <2> DEFINE x == IF carrier[c].pc = "acquiring" THEN "granted" ELSE "live"
  <2>2. Becomes(c, x, g.token, ValidUntil(c, g), RenewalAt(ValidUntil(c, g)), 0,
                carrier[c].request_id)
    BY <1>2, <2>1, ReceiveGrantEffect, Zenon
  <2>3. x \in {"granted", "live"}
    OBVIOUS
  <2>4. now' = now
    BY Zenon DEF ReceiveGrant
  <2> HIDE DEF x
  <2> QED
    BY <1>1, <1>2, <2>2, <2>3, <2>4, Zenon DEF Becomes, Holds
<1>6. \A d \in Carriers: Holds(d)' => d = c
  BY <1>5, Zenon DEF Backed, Claims
<1>7. Owners' = {NodeOf[c]}
  BY <1>5, <1>6, Zenon DEF Owners
<1>8. CASE Holds(c)
  <2>1. Owners = {NodeOf[c]} /\ last = [node |-> NodeOf[c], fence |-> carrier[c].token.fence]
    BY <1>4, <1>8, Zenon DEF Owners, Backed
  <2>2. carrier[c].pc = "renewing"
    BY <1>1, <1>8, Zenon DEF Holds
  <2>3. last' = last
    BY <1>1, <2>1, <2>2, Zenon
  <2> QED
    BY <1>7, <2>1, <2>3, Zenon
<1>9. CASE ~Holds(c)
  <2>1. Owners = {}
    BY <1>4, <1>9, Zenon DEF Owners
  <2>2. InOrder(NodeOf[c], g.token.fence, last)
    BY <1>1, <1>3, Zenon DEF Backed, Backs
  <2>3. Fenced!Newer(last'.fence, last.fence) \/ last' = last
    BY <1>1, <2>2, Zenon DEF InOrder
  <2>4. last'.node = NodeOf[c]
    BY <1>1, Zenon
  <2> QED
    BY <1>2, <1>7, <2>1, <2>3, <2>4, Zenon DEF Fenced!Next, Fenced!Take, Owners
<1> QED
  BY <1>8, <1>9

\* Everything the authority and the carriers do implements the order of owners
\* by write fences: at most one at a time, each newer than the one before or
\* the same again.
THEOREM ImplementsFenceOrder == OneCarrierPerNode => (Spec => OwnersInFenceOrder)
<1> SUFFICES ASSUME OneCarrierPerNode PROVE Spec => OwnersInFenceOrder
  BY Zenon
<1>1. Init => Fenced!Init
  <2> SUFFICES ASSUME Init PROVE Fenced!Init
    OBVIOUS
  <2>1. ASSUME NEW c \in Carriers PROVE ~Holds(c)
    <3>1. carrier[c].pc = "idle"
      BY DEF Init, Idle
    <3> QED
      BY <3>1, Zenon DEF Holds
  <2>2. {NodeOf[c]: c \in {d \in Carriers: Holds(d)}} = {}
    BY <2>1
  <2> QED
    BY <2>2 DEF Init, Fenced!Init
<1>2. Base /\ Backed /\ Backed' /\ [Next]_vars => [Fenced!Next]_Fenced!vars
  <2> SUFFICES ASSUME Base, Backed, Backed', [Next]_vars
               PROVE  [Fenced!Next]_<<Owners, last>>
    BY DEF Fenced!vars, Owners
  <2>1. CASE \E c \in Carriers, g \in grants: ReceiveGrant(c, g)
    BY <2>1, GrantTakes
  <2>2. CASE ~\E c \in Carriers, g \in grants: ReceiveGrant(c, g)
    <3>1. last' = last /\ \A c \in Carriers: Holds(c)' => Holds(c)
      BY <2>2, OnlyGrantsGive
    <3>2. \A c, d \in Carriers: Holds(c) /\ Holds(d) => c = d
      BY Zenon DEF Backed, Claims
    <3>3. CASE \E c \in Carriers: Holds(c)'
      <4>1. PICK c \in Carriers: Holds(c)'
        BY <3>3
      <4>2. /\ \A d \in Carriers: Holds(d) <=> d = c
            /\ \A d \in Carriers: Holds(d)' <=> d = c
        BY <3>1, <3>2, <4>1, Zenon
      <4>3. Owners' = Owners
        BY <4>2, Zenon DEF Owners
      <4> QED
        BY <3>1, <4>3
    <3>4. CASE ~\E c \in Carriers: Holds(c)'
      <4>1. Owners' = {}
        BY <3>4 DEF Owners
      <4> QED
        BY <3>1, <4>1, Zenon DEF Fenced!Next, Fenced!Drop, Owners
    <3> QED
      BY <3>3, <3>4
  <2> QED
    BY <2>1, <2>2, Zenon
<1> QED
  BY <1>1, <1>2, BaseHolds, BackedHolds, PTL DEF Spec, OwnersInFenceOrder, Fenced!Spec

=============================================================================
