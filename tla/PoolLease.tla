----------------------------- MODULE PoolLease -----------------------------
(***************************************************************************)
(* The writer lease of one clustered Pool, from both ends: the authority   *)
(* in a storage node, which grants it and checkpoints what it granted, and *)
(* the carriers (FUSE mounts, ublk exports) that acquire, renew and        *)
(* release it over a transport session.                                    *)
(*                                                                         *)
(* Time is one clock in ticks, TicksPerMs to the millisecond.  The         *)
(* authority reads it as whole milliseconds since its own process started; *)
(* a carrier's Instant is exact.  Clocks run at one rate, as the code      *)
(* assumes.                                                                *)
(*                                                                         *)
(* Requests may be delayed without bound and handled in any order, each by *)
(* its own session thread.  A message that is lost is one that stays where *)
(* it is.  An Err that reaches a carrier, whatever it says, ends its       *)
(* exchange as a lost answer does, so refusals send nothing; neither does  *)
(* a release that succeeds, because its carrier ends either way.           *)
(***************************************************************************)
EXTENDS Integers

CONSTANTS Carriers,     \* processes that want to mutate the Pool
          Nodes,        \* the cluster nodes they run on
          NodeOf,       \* carrier -> node
          None,         \* absent
          TicksPerMs,   \* clock ticks in a millisecond
          Term,         \* lease_term_ms
          MinLead,      \* MIN_RENEWAL_LEAD_MS
          MaxLead,      \* MAX_RENEWAL_LEAD_MS
          MaxLag,       \* bound on the ms from a handler's clock reading to its commit
          MaxTime,      \* bound on the clock
          MaxRequests,  \* bound on the requests of all carriers
          MaxEpoch,     \* bound on membership epochs
          MaxFaults     \* bound on epoch changes, crashes and failed checkpoints

ASSUME CarriersAssumption == NodeOf \in [Carriers -> Nodes] /\ None \notin Nodes
ASSUME TicksAssumption == TicksPerMs \in Nat \ {0}
ASSUME LeadAssumption == MinLead \in Nat /\ MaxLead \in Nat

\* A lease term (30 s) is longer than the longest renewal lead (10 s).
ASSUME TermAssumption ==
  /\ Term \in Nat /\ MaxLag \in Nat
  /\ Term >= 3 /\ Term >= MaxLead + 2

Fences == [epoch: Nat, generation: Nat]

\* PoolLeaseToken; the Pool GUID and the slot never differ.
Tokens == [node: Nodes, lease_id: Nat, fence: Fences, deadline: Nat]

ASSUME NoneAssumption == None \notin Tokens

Authorities == [epoch: Nat, next_lease_id: Nat, next_fence: Nat,
                active: Tokens \cup {None},
                handoff: Nat]  \* epoch_handoff_fence; 0: no entry

VARIABLES
  now,      \* the clock
  origin,   \* when the authority's process read its clock first
  up,       \* the authority's process runs
  crashed,  \* when it last died
  ahead,    \* history: the renewals served beyond one a millisecond
  view,     \* the committed membership epoch
  mem,      \* the committed authority state in memory
  disk,     \* what a restart may find as the checkpoint
  requests, \* requests sent and not yet handled
  grants,   \* grants answered and not yet received
  carrier,  \* carrier -> its process
  last,     \* history: the latest owner to hold a grant, and its fence
  faults,   \* epoch changes, crashes and failed checkpoints so far
  sent      \* requests so far

vars == <<now, origin, up, crashed, ahead, view, mem, disk, requests, grants,
          carrier, last, faults, sent>>

Processes == [pc: {"idle", "acquiring", "granted", "live", "renewing",
                   "cleanup", "fenced"},
              token: Tokens \cup {None}, until: Nat, renewal: Nat,
              started: Nat, request_id: Nat]

Requests == [from: Carriers, request_id: Nat, action: {"acquire", "renew", "release"},
             token: Tokens \cup {None}, started: Nat]

Grants == [to: Carriers, request_id: Nat, token: Tokens, remaining: Nat]

TypeOK ==
  /\ now \in Nat /\ origin \in Nat /\ crashed \in Nat /\ view \in Nat
  /\ ahead \in Nat /\ faults \in Nat /\ sent \in Nat
  /\ up \in BOOLEAN
  /\ mem \in Authorities /\ disk \in SUBSET Authorities
  /\ requests \in SUBSET Requests /\ grants \in SUBSET Grants
  /\ carrier \in [Carriers -> Processes]
  /\ last \in [node: Nodes \cup {None}, fence: Fences]

Larger(a, b) == IF a > b THEN a ELSE b
Smaller(a, b) == IF a < b THEN a ELSE b

Ms(t) == (t - origin) \div TicksPerMs

Ticks(ms) == ms * TicksPerMs

-----------------------------------------------------------------------------
(* PoolOwnerLeaseAuthority: each operator is the state it leaves behind.   *)

NewAuthority(epoch) == [epoch |-> epoch, next_lease_id |-> 1, next_fence |-> 1,
                        active |-> None, handoff |-> 0]

IsExpiredAt(token, at) == at >= token.deadline

ExpirePool(a, at) ==
  [a EXCEPT !.active = IF @ # None /\ IsExpiredAt(@, at) THEN None ELSE @]

AdvanceEpoch(a, epoch, at) ==
  IF epoch <= a.epoch THEN a
  ELSE [a EXCEPT !.epoch = epoch,
                 !.active = None,
                 !.handoff = IF a.active # None /\ a.active.deadline > at
                             THEN Larger(@, a.active.deadline) ELSE @]

Refused(a) == [authority |-> a, token |-> None]

\* Mutant: a renewal within the same millisecond returns the same token.
RenewInPlace(a, token, at) ==
  IF a.active = None THEN Refused(a)
  ELSE IF IsExpiredAt(a.active, at) THEN Refused([a EXCEPT !.active = None])
  ELSE IF a.active # token \/ token.fence.epoch # a.epoch THEN Refused(a)
  ELSE LET renewed == [token EXCEPT !.deadline = Larger(at + Term, @)]
       IN [authority |-> [a EXCEPT !.active = renewed], token |-> renewed]

\* Mutant: a renewal adds a term to the deadline.
RenewFromDeadline(a, token, at) ==
  IF a.active = None THEN Refused(a)
  ELSE IF IsExpiredAt(a.active, at) THEN Refused([a EXCEPT !.active = None])
  ELSE IF a.active # token \/ token.fence.epoch # a.epoch THEN Refused(a)
  ELSE LET renewed == [token EXCEPT !.deadline = @ + Term]
       IN [authority |-> [a EXCEPT !.active = renewed], token |-> renewed]

Renew(a, token, at) ==
  IF a.active = None THEN Refused(a)
  ELSE IF IsExpiredAt(a.active, at) THEN Refused([a EXCEPT !.active = None])
  ELSE IF a.active # token \/ token.fence.epoch # a.epoch THEN Refused(a)
  ELSE LET renewed == [token EXCEPT !.deadline = Larger(at + Term, @ + 1)]
       IN [authority |-> [a EXCEPT !.active = renewed], token |-> renewed]

\* Mutant: the handoff fence outlives the handoff.
GrantFenced(a, node, at) ==
  LET token == [node |-> node, lease_id |-> a.next_lease_id,
                fence |-> [epoch |-> a.epoch, generation |-> a.next_fence],
                deadline |-> at + Term]
  IN [authority |-> [a EXCEPT !.active = token, !.next_lease_id = @ + 1,
                              !.next_fence = @ + 1],
      token |-> token]

Grant(a, node, at) ==
  LET token == [node |-> node, lease_id |-> a.next_lease_id,
                fence |-> [epoch |-> a.epoch, generation |-> a.next_fence],
                deadline |-> at + Term]
  IN [authority |-> [a EXCEPT !.active = token, !.next_lease_id = @ + 1,
                              !.next_fence = @ + 1, !.handoff = 0],
      token |-> token]

Acquire(a, node, at) ==
  LET e == ExpirePool(a, at) IN
  IF e.handoff # 0 /\ at < e.handoff THEN Refused(e)
  ELSE IF e.active = None THEN Grant(e, node, at)
  ELSE IF e.active.node # node THEN Refused([e EXCEPT !.handoff = 0])
  ELSE Renew([e EXCEPT !.handoff = 0], e.active, at)

Release(a, token) ==
  IF a.active # None /\ a.active = token /\ token.fence.epoch = a.epoch
  THEN Refused([a EXCEPT !.active = None])
  ELSE Refused(a)

\* validate_checkpoint_state, without the term and GUID checks.
ValidCheckpoint(a) ==
  /\ a.epoch # 0 /\ a.next_lease_id # 0 /\ a.next_fence # 0
  /\ a.active # None =>
       /\ a.active.fence.epoch = a.epoch
       /\ a.active.lease_id < a.next_lease_id
       /\ a.active.fence.generation < a.next_fence
       /\ a.active.deadline # 0 /\ a.active.lease_id # 0 /\ a.active.fence.generation # 0
       /\ a.handoff = 0

\* Mutant: the fence frontier is rebuilt from what is active.
RecoverFences(a) ==
  [a EXCEPT !.active = IF @ = None THEN None
                       ELSE [@ EXCEPT !.lease_id = a.next_lease_id, !.deadline = Term],
            !.next_lease_id = IF a.active = None THEN @ ELSE @ + 1,
            !.next_fence = IF a.active = None THEN 1 ELSE a.active.fence.generation + 1,
            !.handoff = IF @ = 0 THEN 0 ELSE Term]

\* Mutant: recovered tokens keep their identifiers.
RecoverSameLease(a) ==
  [a EXCEPT !.active = IF @ = None THEN None ELSE [@ EXCEPT !.deadline = Term],
            !.handoff = IF @ = 0 THEN 0 ELSE Term]

\* recover_checkpoint at the first clock reading of the new process.
RecoverCheckpoint(a) ==
  [a EXCEPT !.active = IF @ = None THEN None
                       ELSE [@ EXCEPT !.lease_id = a.next_lease_id, !.deadline = Term],
            !.next_lease_id = IF a.active = None THEN @ ELSE @ + 1,
            !.handoff = IF @ = 0 THEN 0 ELSE Term]

-----------------------------------------------------------------------------
(* The storage node *)

Idle(request_id) == [pc |-> "idle", token |-> None, until |-> 0, renewal |-> 0,
                     started |-> 0, request_id |-> request_id]

Init ==
  /\ now = 0 /\ origin = 0 /\ up = TRUE /\ crashed = 0
  /\ ahead = 0 /\ faults = 0 /\ sent = 0
  /\ view = 1
  /\ mem = NewAuthority(view) /\ disk = {mem}
  /\ requests = {} /\ grants = {}
  /\ carrier = [c \in Carriers |-> Idle(0)]
  /\ last = [node |-> None, fence |-> [epoch |-> 0, generation |-> 0]]

\* A millisecond makes up for one renewal.
Tick ==
  /\ now < MaxTime
  /\ now' = now + 1
  /\ ahead' = IF up /\ Ms(now + 1) > Ms(now) THEN Larger(ahead - 1, 0) ELSE ahead
  /\ UNCHANGED <<origin, up, crashed, view, mem, disk, requests, grants, carrier, last, faults, sent>>

\* Membership commits a new epoch; the authority hears of it with a request.
NewEpoch ==
  /\ view < MaxEpoch /\ faults < MaxFaults
  /\ view' = view + 1
  /\ faults' = faults + 1
  /\ UNCHANGED <<now, origin, up, crashed, ahead, mem, disk, requests, grants, carrier, last, sent>>

\* The action of a request on a candidate that already is in its epoch.
Apply(r, a, at) ==
  CASE r.action = "acquire" -> Acquire(a, NodeOf[r.from], at)
    [] r.action = "renew" /\ r.token.node = NodeOf[r.from] -> Renew(a, r.token, at)
    [] r.action = "release" /\ r.token.node = NodeOf[r.from] -> Release(a, r.token)
    [] OTHER -> Refused(a)

\* persist: written beside, synced, renamed, and the directory synced.
PersistAs(a) == disk' = {a}

\* The exchange is still open; an answer to any other goes nowhere.
Waits(c, request_id) ==
  carrier[c].request_id = request_id /\ carrier[c].pc \in {"acquiring", "renewing"}

\* What a handler that began after t may have read from the clock.
ReadSince(t) == Larger(Ms(t), Ms(now) - MaxLag)..Ms(now)

\* The token an operation returned is the active one with a later deadline.
IsRenewal(token) == token # None /\ token.lease_id < mem.next_lease_id

\* If the directory sync fails after the rename, the caller hears an error and
\* memory stays, but a restart may find either checkpoint.
PersistFails(a) ==
  /\ faults < MaxFaults
  /\ faults' = faults + 1
  /\ disk' = disk \cup {a}
  /\ UNCHANGED <<mem, grants, ahead>>

\* commit_pool_owner_lease_transition.  The handler read the epoch and the
\* clock before it took the lock, at any time since the request was sent.
Handle(r, epoch, at) ==
  LET outcome == Apply(r, AdvanceEpoch(mem, epoch, at), at)
      a == outcome.authority
  IN
  /\ up
  /\ epoch >= mem.epoch
  /\ outcome.token # None \/ a # mem
  /\ requests' = requests \ {r}
  /\ \/ /\ PersistAs(a)
        /\ mem' = a
        /\ grants' = IF outcome.token = None \/ ~Waits(r.from, r.request_id) THEN grants
                     ELSE grants \cup {[to |-> r.from, request_id |-> r.request_id,
                                        token |-> outcome.token,
                                        remaining |-> outcome.token.deadline - at]}
        /\ ahead' = IF IsRenewal(outcome.token) THEN ahead + 1 ELSE ahead
        /\ UNCHANGED faults
     \/ PersistFails(a)
  /\ UNCHANGED <<now, origin, up, crashed, view, carrier, last, sent>>

\* Refused without a change: not authenticated, not admitted, partitioned, a
\* stale epoch, nothing to commit, or a checkpoint that failed before the rename.
Refuse(r) ==
  /\ up
  /\ requests' = requests \ {r}
  /\ UNCHANGED <<now, origin, up, crashed, ahead, view, mem, disk, grants, carrier, last, faults, sent>>

\* commit_pool_owner_observation: reading the owner commits expiry and epochs.
Observe(epoch, at) ==
  LET a == ExpirePool(AdvanceEpoch(mem, epoch, at), at) IN
  /\ up
  /\ epoch >= mem.epoch
  /\ a # mem
  /\ \/ /\ PersistAs(a)
        /\ mem' = a
        /\ UNCHANGED <<grants, ahead, faults>>
     \/ PersistFails(a)
  /\ UNCHANGED <<now, origin, up, crashed, view, requests, carrier, last, sent>>

\* Requests die with the sessions that carried them.
Crash ==
  /\ up
  /\ faults < MaxFaults
  /\ up' = FALSE
  /\ crashed' = now
  /\ requests' = {}
  /\ faults' = faults + 1
  /\ UNCHANGED <<now, origin, ahead, view, mem, disk, grants, carrier, last, sent>>

\* When a new process can read its clock first.  Every renewal within the same
\* millisecond moves the deadline by one, and recovery grants one term from its
\* own start: that a process takes longer to start than the renewals its
\* predecessor was ahead is assumed here, the code does not wait for it.
Restarts == crashed + Ticks(ahead)

\* load_or_initialize in a new process
Restart(found) ==
  /\ ~up
  /\ now >= Restarts
  /\ ValidCheckpoint(found) /\ ValidCheckpoint(RecoverCheckpoint(found))
  /\ up' = TRUE
  /\ origin' = now
  /\ crashed' = 0 /\ ahead' = 0
  /\ mem' = RecoverCheckpoint(found)
  /\ PersistAs(mem')
  /\ UNCHANGED <<now, view, requests, grants, carrier, last, faults, sent>>

\* The checkpoint of a starting process fails its last sync: it gives up.
RestartUnsynced(found) ==
  /\ ~up
  /\ faults < MaxFaults
  /\ ValidCheckpoint(found) /\ ValidCheckpoint(RecoverCheckpoint(found))
  /\ disk' = disk \cup {RecoverCheckpoint(found)}
  /\ faults' = faults + 1
  /\ UNCHANGED <<now, origin, up, crashed, ahead, view, mem, requests, grants, carrier, last, sent>>

-----------------------------------------------------------------------------
(* The carriers *)

\* exchange: a request with the next identifier.
Send(c, action, token, process) ==
  /\ sent < MaxRequests /\ sent' = sent + 1
  /\ carrier' = [carrier EXCEPT ![c] = [process EXCEPT !.request_id = @ + 1]]
  /\ requests' = requests \cup
       {[from |-> c, request_id |-> carrier[c].request_id + 1, action |-> action,
         token |-> token, started |-> now]}

StartAcquire(c) ==
  /\ up
  /\ carrier[c].pc = "idle"
  /\ Send(c, "acquire", None, [carrier[c] EXCEPT !.pc = "acquiring", !.started = now])
  /\ UNCHANGED <<now, origin, up, crashed, ahead, view, mem, disk, grants, last, faults>>

\* The remaining validity less the round trip and a millisecond, from now.
ValidUntil(c, g) == carrier[c].started + Ticks(g.remaining - 1)

\* Mutant: a carrier renews a whole term before its deadline.
RenewalAtTermBefore(until) == until - Ticks(Term)

\* cluster_lease_renewal_at
RenewalAt(until) ==
  LET remaining == (until - now) \div TicksPerMs
      lead == Smaller(Smaller(Larger(remaining \div 3, MinLead), MaxLead),
                      Larger(remaining \div 2, 1))
  IN now + Ticks(IF lead < remaining THEN remaining - lead ELSE 0)

Answers(c, g) == g.to = c /\ g.request_id = carrier[c].request_id

ReceiveGrant(c, g) ==
  LET until == ValidUntil(c, g) IN
  /\ Answers(c, g)
  /\ until > now
  /\ \/ carrier[c].pc = "acquiring"
     \/ /\ carrier[c].pc = "renewing"
        /\ carrier[c].until > now
        /\ g.token.node = carrier[c].token.node
        /\ g.token.lease_id = carrier[c].token.lease_id
        /\ g.token.fence = carrier[c].token.fence
        /\ g.token.deadline > carrier[c].token.deadline
  /\ carrier' = [carrier EXCEPT ![c] =
       [@ EXCEPT !.pc = IF carrier[c].pc = "acquiring" THEN "granted" ELSE "live",
                 !.token = g.token, !.until = until, !.renewal = RenewalAt(until),
                 !.started = 0]]
  /\ grants' = grants \ {g}
  /\ last' = [node |-> NodeOf[c], fence |-> g.token.fence]
  /\ UNCHANGED <<now, origin, up, crashed, ahead, view, mem, disk, requests, faults, sent>>

\* A grant without validity left is released again before exchange returns.
ReceiveLate(c, g) ==
  /\ up
  /\ Answers(c, g)
  /\ carrier[c].pc \in {"acquiring", "renewing"}
  /\ ValidUntil(c, g) <= now
  /\ Send(c, "release", g.token, IF carrier[c].pc = "acquiring" THEN Idle(carrier[c].request_id)
                                 ELSE [carrier[c] EXCEPT !.pc = "cleanup"])
  /\ grants' = grants \ {g}
  /\ UNCHANGED <<now, origin, up, crashed, ahead, view, mem, disk, last, faults>>

\* pool_import_owned takes the node's lock on the Pool.
Import(c) ==
  /\ carrier[c].pc = "granted"
  /\ \A d \in Carriers: NodeOf[d] = NodeOf[c] =>
       carrier[d].pc \notin {"live", "renewing", "cleanup", "fenced"}
  /\ carrier' = [carrier EXCEPT ![c].pc = "live"]
  /\ UNCHANGED <<now, origin, up, crashed, ahead, view, mem, disk, requests, grants, last, faults, sent>>

StartRenew(c) ==
  /\ up
  /\ carrier[c].pc = "live"
  /\ now >= carrier[c].renewal
  /\ carrier[c].until > now + TicksPerMs
  /\ Send(c, "renew", carrier[c].token, [carrier[c] EXCEPT !.pc = "renewing", !.renewal = 0,
                                                    !.started = now])
  /\ UNCHANGED <<now, origin, up, crashed, ahead, view, mem, disk, grants, last, faults>>

\* A renewal that fails, however it does, fences the carrier.
Lose(c) ==
  /\ carrier[c].pc \in {"live", "renewing", "cleanup"}
  /\ carrier' = [carrier EXCEPT ![c] =
       [@ EXCEPT !.pc = "fenced", !.until = 0, !.renewal = 0, !.started = 0]]
  /\ grants' = {g \in grants: g.to # c}
  /\ UNCHANGED <<now, origin, up, crashed, ahead, view, mem, disk, requests, last, faults, sent>>

\* The carrier has stopped mutating: it was unmounted, fenced, or never
\* imported the Pool.
StartRelease(c) ==
  /\ up
  /\ carrier[c].pc \in {"granted", "live", "fenced"}
  /\ Send(c, "release", carrier[c].token, Idle(carrier[c].request_id))
  /\ UNCHANGED <<now, origin, up, crashed, ahead, view, mem, disk, grants, last, faults>>

\* The process ends: its exchange failed, its release is over, or it was killed.
Exit(c) ==
  /\ carrier[c].pc # "idle"
  /\ carrier' = [carrier EXCEPT ![c] = Idle(@.request_id)]
  /\ grants' = {g \in grants: g.to # c}
  /\ UNCHANGED <<now, origin, up, crashed, ahead, view, mem, disk, requests, last, faults, sent>>

-----------------------------------------------------------------------------

Next ==
  \/ Tick \/ NewEpoch \/ Crash
  \/ \E r \in requests:
       \/ Refuse(r)
       \/ \E epoch \in mem.epoch..view, at \in ReadSince(r.started):
            Handle(r, epoch, at)
  \/ \E epoch \in mem.epoch..view, at \in ReadSince(origin): Observe(epoch, at)
  \/ \E found \in disk: Restart(found) \/ RestartUnsynced(found)
  \/ \E c \in Carriers:
       \/ StartAcquire(c) \/ Import(c) \/ StartRenew(c)
       \/ Lose(c) \/ StartRelease(c) \/ Exit(c)
       \/ \E g \in grants: ReceiveGrant(c, g) \/ ReceiveLate(c, g)

Spec == Init /\ [][Next]_vars

-----------------------------------------------------------------------------
(* Properties *)

\* A carrier may mutate the Pool: it holds a grant whose deadline has not come.
Holds(c) ==
  /\ now < carrier[c].until
  /\ carrier[c].pc \in {"granted", "live", "renewing", "cleanup"}

\* No two nodes may mutate the Pool at once, whatever was delayed, restarted
\* or re-sent between the authority's clock and the carriers' clocks ("It
\* grants at most one writer for each Pool GUID").
SingleWriter == \A c, d \in Carriers: Holds(c) /\ Holds(d) => NodeOf[c] = NodeOf[d]

\* How long the authority keeps the Pool for a node, or from everyone.
KeptUntil(a, node) ==
  IF a.active # None /\ a.active.node = node THEN a.active.deadline ELSE a.handoff

\* While a carrier holds its grant, the authority keeps the Pool for that node
\* at least as long, in memory and in what a restart would make of the disk.
\* This is what a delayed release, an epoch change or a checkpoint that failed
\* half-way could break before a second node notices.
HolderIsKept ==
  \A c \in Carriers: Holds(c) =>
    IF up THEN carrier[c].until <= origin + Ticks(KeptUntil(mem, NodeOf[c]))
    ELSE LET restart == Larger(now, Restarts)
         IN \A a \in disk:
              carrier[c].until <= restart + Ticks(KeptUntil(RecoverCheckpoint(a), NodeOf[c]))

\* Every checkpoint a restart may find is one recover_checkpoint accepts,
\* before and after it moves the deadlines.
RestartAccepts == \A a \in disk: ValidCheckpoint(a) /\ ValidCheckpoint(RecoverCheckpoint(a))

\* A node that died holding the Pool, an epoch change and a restart block the
\* next owner for no longer than a term, and a millisecond for every renewal
\* that came faster than one a millisecond (renew's deadline + 1), however late
\* the handlers that read the clock before they queued for the lock commit.
BlockedOneTerm ==
  up => /\ mem.active # None => mem.active.deadline <= Ms(now) + Term + ahead
        /\ mem.handoff <= Ms(now) + Term + ahead

\* A restart retires every token in the hands of a carrier or on its way:
\* "no pre-restart token can renew".
RestartRetiresTokens ==
  [][~up /\ up' => /\ \A c \in Carriers: mem'.active # carrier[c].token \/ mem'.active = None
                   /\ \A g \in grants: mem'.active # g.token]_vars

\* What the Pool's mutations see of all this is at most one owner at a time,
\* in the order of the write fences.
Fenced == INSTANCE FencedOwner WITH owners <- {NodeOf[c]: c \in {d \in Carriers: Holds(d)}}

OwnersInFenceOrder == Fenced!Spec

=============================================================================
