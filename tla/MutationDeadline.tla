------------------------- MODULE MutationDeadline -------------------------
(***************************************************************************)
(* ExternalMutationDeadline: the process-local deadline that an external   *)
(* writer lease shares with every dataset engine.  One atomic word holds   *)
(* the deadline in whole milliseconds after `origin`; 0 means fenced.      *)
(*                                                                         *)
(* Several threads touch the word without a lock: renewers run             *)
(* renew_until, anyone may call fence, and mutation gates run is_live      *)
(* (through ensure_external_mutation_authority).  Every load, clock read   *)
(* and compare-exchange is a step of its own, and time passes between any  *)
(* two of them.                                                            *)
(*                                                                         *)
(* Time is counted in ticks finer than a millisecond, `origin` is tick 0:  *)
(* Duration::as_millis truncates, Duration::from_millis does not.          *)
(***************************************************************************)
EXTENDS Integers

CONSTANTS Renewers,    \* threads that renew the deadline
          Gates,       \* threads whose mutation asks the deadline first
          TicksPerMs,  \* clock ticks in a millisecond
          MaxNow,      \* bound on the clock
          MaxGrant     \* bound on the validity of a grant

ASSUME TicksAssumption == TicksPerMs \in Nat \ {0}
ASSUME BoundsAssumption == MaxNow \in Nat /\ MaxGrant \in Nat

VARIABLES
  now,          \* Instant::now(), in ticks after origin
  deadline,     \* deadline_elapsed_ms
  renewer,      \* renewer -> where it stands in renew_until, and its locals
  gate,         \* gate -> where it stands in is_live, and its local
  latestGrant,  \* history: the furthest valid_until any grant carried
  lapsed        \* history: the deadline has been expired or fenced

vars == <<now, deadline, renewer, gate, latestGrant, lapsed>>

Millis(t) == t \div TicksPerMs

\* Mutant: the subtraction does not saturate.
SinceWrapping(later, earlier) == later - earlier

\* Instant::saturating_duration_since
Since(later, earlier) == IF later > earlier THEN later - earlier ELSE 0

Larger(a, b) == IF a > b THEN a ELSE b

\* Mutant: the last instant counts as live.
IsLiveAtInclusive(word, t) == word * TicksPerMs >= t

\* !remaining().is_zero(): from_millis(word) minus the exact elapsed time.
IsLiveAt(word, t) == Since(word * TicksPerMs, t) > 0

RenewerState == [pc: {"idle", "remaining", "load", "check", "cas"},
                 valid_until: 0..MaxGrant, elapsed_ms: Nat,
                 deadline: Nat, current: Nat]

GateState == [pc: {"idle", "loaded", "admitted"}, word: Nat]

\* Locals die with the call.
IdleRenewer == [pc |-> "idle", valid_until |-> 0, elapsed_ms |-> 0,
                deadline |-> 0, current |-> 0]

IdleGate == [pc |-> "idle", word |-> 0]

TypeOK ==
  /\ now \in Nat
  /\ deadline \in Nat
  /\ renewer \in [Renewers -> RenewerState]
  /\ gate \in [Gates -> GateState]
  /\ latestGrant \in Nat
  /\ lapsed \in BOOLEAN

\* new_until: origin is read first, the remaining validity from a later clock
\* reading.
Init ==
  /\ now \in 0..MaxNow
  /\ latestGrant \in 0..MaxGrant
  /\ deadline = Millis(Since(latestGrant, now))
  /\ renewer = [r \in Renewers |-> IdleRenewer]
  /\ gate = [g \in Gates |-> IdleGate]
  /\ lapsed = ~IsLiveAt(deadline, now)

Tick ==
  /\ now < MaxNow
  /\ now' = now + 1
  /\ lapsed' = (lapsed \/ ~IsLiveAt(deadline, now'))
  /\ UNCHANGED <<deadline, renewer, gate, latestGrant>>

Fence ==
  /\ deadline' = 0
  /\ lapsed' = TRUE
  /\ UNCHANGED <<now, renewer, gate, latestGrant>>

-----------------------------------------------------------------------------
(* renew_until *)

RenewElapsed(r, grant) ==
  /\ renewer[r].pc = "idle"
  /\ renewer' = [renewer EXCEPT ![r].pc = "remaining", ![r].valid_until = grant,
                                ![r].elapsed_ms = Millis(now)]
  /\ latestGrant' = Larger(latestGrant, grant)
  /\ UNCHANGED <<now, deadline, gate, lapsed>>

RenewRemaining(r) ==
  LET remaining_ms == Millis(Since(renewer[r].valid_until, now)) IN
  /\ renewer[r].pc = "remaining"
  /\ renewer' = [renewer EXCEPT ![r] =
       IF remaining_ms = 0
       THEN IdleRenewer
       ELSE [@ EXCEPT !.pc = "load",
                      !.deadline = Larger(renewer[r].elapsed_ms + remaining_ms, 1)]]
  /\ UNCHANGED <<now, deadline, gate, latestGrant, lapsed>>

RenewLoad(r) ==
  /\ renewer[r].pc = "load"
  /\ renewer' = [renewer EXCEPT ![r].pc = "check", ![r].current = deadline]
  /\ UNCHANGED <<now, deadline, gate, latestGrant, lapsed>>

RenewCheck(r) ==
  LET dead == renewer[r].current = 0 \/ renewer[r].current <= Millis(now) IN
  /\ renewer[r].pc = "check"
  /\ renewer' = [renewer EXCEPT ![r] = IF dead THEN IdleRenewer ELSE [@ EXCEPT !.pc = "cas"]]
  /\ UNCHANGED <<now, deadline, gate, latestGrant, lapsed>>

\* Mutant: the deadline is counted from the clock at the exchange.
RenewExchangeLate(r) ==
  /\ renewer[r].pc = "cas"
  /\ deadline = renewer[r].current
  /\ deadline' = Millis(now) + renewer[r].deadline - renewer[r].elapsed_ms
  /\ renewer' = [renewer EXCEPT ![r] = IdleRenewer]
  /\ lapsed' = (lapsed \/ ~IsLiveAt(deadline', now))
  /\ UNCHANGED <<now, gate, latestGrant>>

\* Mutant: a plain store in place of the compare-exchange.
RenewStore(r) ==
  /\ renewer[r].pc = "cas"
  /\ deadline' = renewer[r].deadline
  /\ renewer' = [renewer EXCEPT ![r] = IdleRenewer]
  /\ lapsed' = (lapsed \/ ~IsLiveAt(deadline', now))
  /\ UNCHANGED <<now, gate, latestGrant>>

RenewExchange(r) ==
  /\ renewer[r].pc = "cas"
  /\ deadline = renewer[r].current
  /\ deadline' = renewer[r].deadline
  /\ renewer' = [renewer EXCEPT ![r] = IdleRenewer]
  /\ lapsed' = (lapsed \/ ~IsLiveAt(deadline', now))
  /\ UNCHANGED <<now, gate, latestGrant>>

\* compare_exchange_weak fails when the word moved, and may fail spuriously.
RenewExchangeFails(r) ==
  /\ renewer[r].pc = "cas"
  /\ renewer' = [renewer EXCEPT ![r].pc = "check", ![r].current = deadline]
  /\ UNCHANGED <<now, deadline, gate, latestGrant, lapsed>>

-----------------------------------------------------------------------------
(* ensure_external_mutation_authority around one mutation *)

GateLoad(g) ==
  /\ gate[g].pc = "idle"
  /\ gate' = [gate EXCEPT ![g] = [pc |-> "loaded", word |-> deadline]]
  /\ UNCHANGED <<now, deadline, renewer, latestGrant, lapsed>>

GateAdmit(g) ==
  /\ gate[g].pc = "loaded"
  /\ IsLiveAt(gate[g].word, now)
  /\ gate' = [gate EXCEPT ![g].pc = "admitted"]
  /\ UNCHANGED <<now, deadline, renewer, latestGrant, lapsed>>

GateRefuse(g) ==
  /\ gate[g].pc = "loaded"
  /\ ~IsLiveAt(gate[g].word, now)
  /\ gate' = [gate EXCEPT ![g] = IdleGate]
  /\ UNCHANGED <<now, deadline, renewer, latestGrant, lapsed>>

MutationDone(g) ==
  /\ gate[g].pc = "admitted"
  /\ gate' = [gate EXCEPT ![g] = IdleGate]
  /\ UNCHANGED <<now, deadline, renewer, latestGrant, lapsed>>

RenewStep(r) ==
  \/ \E grant \in 0..MaxGrant : RenewElapsed(r, grant)
  \/ RenewRemaining(r)
  \/ RenewLoad(r)
  \/ RenewCheck(r)
  \/ RenewExchange(r)
  \/ RenewExchangeFails(r)

GateStep(g) == GateLoad(g) \/ GateAdmit(g) \/ GateRefuse(g) \/ MutationDone(g)

Next ==
  \/ Tick
  \/ Fence
  \/ \E r \in Renewers : RenewStep(r)
  \/ \E g \in Gates : GateStep(g)

Spec == Init /\ [][Next]_vars

-----------------------------------------------------------------------------
(* Properties *)

\* The word never promises more than an authenticated grant did: the time
\* renew_until spends between its clock reads, its check and its exchange is
\* never added to the validity (new_until, renew_until: "without extending it
\* by time spent validating or transferring the renewed grant").
WithinGrant == deadline * TicksPerMs <= latestGrant

\* A mutation is let through only at an instant covered by some grant, even
\* when the gate read the word long before it read the clock.
AdmittedWithinGrant ==
  [][\A g \in Gates : gate[g].pc = "loaded" /\ gate'[g].pc = "admitted"
                        => now < latestGrant]_vars

\* Fencing is final: no renewal already under way brings a fenced word back.
FenceIsFinal == [][deadline = 0 => deadline' = 0]_vars

\* renew_until says it returns false "instead of reviving a deadline that is
\* already expired or fenced": a deadline that has lapsed stays lapsed.
LapseIsFinal == lapsed => ~IsLiveAt(deadline, now)
=============================================================================
