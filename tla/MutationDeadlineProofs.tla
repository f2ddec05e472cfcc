---------------------- MODULE MutationDeadlineProofs ----------------------
(***************************************************************************)
(* Proofs about MutationDeadline for any number of renewers and gates, any *)
(* clock resolution and any bounds.                                        *)
(***************************************************************************)
EXTENDS MutationDeadline, TLAPS

\* What the locals of a running call promise: every value a renewer is about
\* to exchange in, and every value a gate is about to compare with the clock,
\* lies within a grant already received.
RenewersWithin ==
  \A r \in Renewers :
    /\ renewer[r].valid_until <= latestGrant
    /\ renewer[r].elapsed_ms * TicksPerMs <= now
    /\ renewer[r].pc \in {"load", "check", "cas"}
         => renewer[r].deadline * TicksPerMs <= latestGrant

GatesWithin == \A g \in Gates : gate[g].word * TicksPerMs <= latestGrant

IInv == TypeOK /\ WithinGrant /\ RenewersWithin /\ GatesWithin

\* Millis truncates: turning a tick count into milliseconds and back never
\* gains time.
LEMMA MillisTruncates ==
  ASSUME NEW t \in Nat
  PROVE  Millis(t) \in Nat /\ Millis(t) * TicksPerMs <= t
BY TicksAssumption DEF Millis

\* saturating_duration_since never goes below zero.
LEMMA SinceNat ==
  ASSUME NEW a \in Nat, NEW b \in Nat
  PROVE  Since(a, b) \in Nat
BY DEF Since

\* Milliseconds added before the conversion are ticks added after it.
LEMMA TicksAdd ==
  ASSUME NEW a \in Nat, NEW b \in Nat
  PROVE  (a + b) * TicksPerMs = a * TicksPerMs + b * TicksPerMs
BY TicksAssumption

\* A fenced word stands for no time at all.
LEMMA NoTicks == 0 * TicksPerMs = 0
BY TicksAssumption

\* new_until establishes the invariant: the word it stores is the truncated
\* rest of the grant.
LEMMA InitIInv == Init => IInv
<1> SUFFICES ASSUME Init PROVE IInv
  OBVIOUS
<1> USE TicksAssumption, BoundsAssumption
<1>1. now \in Nat /\ latestGrant \in Nat
  BY DEF Init
<1>2. Since(latestGrant, now) \in Nat /\ Since(latestGrant, now) <= latestGrant
  BY <1>1 DEF Since
<1>3. deadline \in Nat /\ deadline * TicksPerMs <= latestGrant
  <2>1. deadline = Millis(Since(latestGrant, now))
    BY DEF Init
  <2> QED
    BY <1>1, <1>2, <2>1, MillisTruncates
<1>4. TypeOK
  <2>1. renewer \in [Renewers -> RenewerState]
    BY DEF Init, IdleRenewer, RenewerState
  <2>2. gate \in [Gates -> GateState]
    BY DEF Init, IdleGate, GateState
  <2> QED
    BY <1>1, <1>3, <2>1, <2>2 DEF Init, TypeOK
<1>5. RenewersWithin
  <2> SUFFICES ASSUME NEW r \in Renewers
               PROVE  /\ renewer[r].valid_until <= latestGrant
                      /\ renewer[r].elapsed_ms * TicksPerMs <= now
                      /\ renewer[r].pc \notin {"load", "check", "cas"}
    BY DEF RenewersWithin
  <2>1. /\ renewer[r].valid_until = 0 /\ renewer[r].elapsed_ms = 0
        /\ renewer[r].pc = "idle"
    BY DEF Init, IdleRenewer
  <2> QED
    BY <1>1, <2>1, NoTicks
<1>6. GatesWithin
  BY <1>1 DEF Init, IdleGate, GatesWithin
<1> QED
  BY <1>3, <1>4, <1>5, <1>6 DEF IInv, WithinGrant

\* Every step of a renewer, a gate, the clock and fence keeps it.
LEMMA NextIInv == IInv /\ [Next]_vars => IInv'
<1> SUFFICES ASSUME IInv, [Next]_vars PROVE IInv'
  OBVIOUS
<1> USE TicksAssumption, BoundsAssumption DEF IInv
<1>0. now \in Nat /\ deadline \in Nat /\ latestGrant \in Nat
  BY DEF TypeOK
<1>1. CASE Tick
  <2>1. now' \in Nat /\ now <= now'
    BY <1>0, <1>1 DEF Tick
  <2>2. TypeOK'
    BY <1>1, <2>1 DEF Tick, TypeOK
  <2>3. RenewersWithin'
    BY <1>0, <1>1, <2>1 DEF Tick, TypeOK, RenewersWithin, RenewerState
  <2> QED
    BY <1>1, <2>2, <2>3 DEF Tick, WithinGrant, GatesWithin
<1>2. CASE Fence
  <2>1. TypeOK'
    BY <1>2 DEF Fence, TypeOK
  <2> QED
    BY <1>0, <1>2, <2>1 DEF Fence, WithinGrant, RenewersWithin, GatesWithin
<1>3. ASSUME NEW r \in Renewers, RenewStep(r) PROVE IInv'
  <2>0. renewer[r] \in RenewerState
    BY DEF TypeOK
  <2>1. ASSUME NEW grant \in 0..MaxGrant, RenewElapsed(r, grant) PROVE IInv'
    <3>1. Millis(now) \in Nat /\ Millis(now) * TicksPerMs <= now
      BY <1>0, MillisTruncates
    <3>2. latestGrant' \in Nat /\ latestGrant <= latestGrant' /\ grant <= latestGrant'
      BY <1>0, <2>1 DEF RenewElapsed, Larger
    <3>3. renewer' = [renewer EXCEPT ![r] = [renewer[r] EXCEPT !.pc = "remaining",
                        !.valid_until = grant, !.elapsed_ms = Millis(now)]]
      BY <2>1, Zenon DEF RenewElapsed, TypeOK
    <3>4. TypeOK'
      BY <1>0, <2>0, <2>1, <3>1, <3>2, <3>3 DEF RenewElapsed, TypeOK, RenewerState
    <3>5. RenewersWithin'
      BY <1>0, <2>0, <2>1, <3>1, <3>2, <3>3
      DEF RenewElapsed, TypeOK, RenewersWithin, RenewerState
    <3>6. GatesWithin' /\ WithinGrant'
      BY <1>0, <2>1, <3>2 DEF RenewElapsed, GatesWithin, WithinGrant, TypeOK, GateState
    <3> QED
      BY <3>4, <3>5, <3>6
  <2>2. CASE RenewRemaining(r)
    <3> DEFINE left == Since(renewer[r].valid_until, now)
    <3>1. left \in Nat /\ Millis(left) \in Nat /\ Millis(left) * TicksPerMs <= left
      <4>1. renewer[r].valid_until \in Nat
        BY <2>0 DEF RenewerState
      <4>2. left \in Nat
        BY <1>0, <4>1, SinceNat, Zenon
      <4> QED
        BY <4>2, MillisTruncates
    <3>2. UNCHANGED <<now, deadline, gate, latestGrant, lapsed>>
      BY <2>2 DEF RenewRemaining
    <3>3. CASE Millis(left) = 0
      <4>1. renewer' = [renewer EXCEPT ![r] = IdleRenewer]
        BY <2>2, <3>3 DEF RenewRemaining
      <4>2. TypeOK'
        BY <3>2, <4>1 DEF TypeOK, RenewerState, IdleRenewer
      <4>3. RenewersWithin'
        BY <1>0, <3>2, <4>1, NoTicks DEF TypeOK, RenewersWithin, IdleRenewer
      <4> QED
        BY <3>2, <4>2, <4>3 DEF GatesWithin, WithinGrant
    <3>4. CASE Millis(left) # 0
      <4> DEFINE target == renewer[r].elapsed_ms + Millis(left)
      <4>1. Larger(target, 1) = target /\ target \in Nat
        BY <2>0, <3>1, <3>4 DEF Larger, RenewerState
      <4>2. left = renewer[r].valid_until - now
        <5>1. left # 0
          BY <3>1, <3>4, <1>0 DEF Millis
        <5> QED
          BY <5>1, <1>0, <2>0 DEF Since, RenewerState
      <4>3. target * TicksPerMs <= latestGrant
        <5>1. target * TicksPerMs
                = renewer[r].elapsed_ms * TicksPerMs + Millis(left) * TicksPerMs
          BY <2>0, <3>1, TicksAdd DEF RenewerState
        <5>2. renewer[r].elapsed_ms * TicksPerMs <= now
              /\ renewer[r].valid_until <= latestGrant
          BY DEF RenewersWithin
        <5>3. renewer[r].elapsed_ms * TicksPerMs \in Nat
              /\ Millis(left) * TicksPerMs \in Nat
          BY <2>0, <3>1 DEF RenewerState
        <5>4. renewer[r].valid_until \in Nat
          BY <2>0 DEF RenewerState
        <5> HIDE DEF left, target
        <5> QED
          BY <1>0, <3>1, <4>2, <5>1, <5>2, <5>3, <5>4
      <4>4. renewer' = [renewer EXCEPT ![r] = [renewer[r] EXCEPT !.pc = "load",
                                                                !.deadline = target]]
        BY <2>2, <3>4, <4>1, Zenon DEF RenewRemaining
      <4> HIDE DEF left, target
      <4>5. TypeOK'
        BY <2>0, <3>2, <4>1, <4>4, Zenon DEF TypeOK, RenewerState
      <4>6. RenewersWithin'
        BY <2>0, <3>2, <4>3, <4>4 DEF TypeOK, RenewersWithin, RenewerState
      <4> QED
        BY <3>2, <4>5, <4>6 DEF GatesWithin, WithinGrant
    <3> QED
      BY <3>3, <3>4
  <2>3. CASE RenewLoad(r)
    BY <1>0, <2>0, <2>3, Zenon
    DEF RenewLoad, TypeOK, RenewersWithin, GatesWithin, WithinGrant, RenewerState
  <2>4. CASE RenewCheck(r)
    <3>1. \/ renewer' = [renewer EXCEPT ![r] = IdleRenewer]
          \/ renewer' = [renewer EXCEPT ![r] = [renewer[r] EXCEPT !.pc = "cas"]]
      BY <2>4, Zenon DEF RenewCheck
    <3>2. renewer[r].pc = "check"
      BY <2>4 DEF RenewCheck
    <3>3. TypeOK'
      BY <2>0, <2>4, <3>1 DEF RenewCheck, TypeOK, RenewerState, IdleRenewer
    <3>4. RenewersWithin'
      BY <1>0, <2>0, <2>4, <3>1, <3>2
      DEF RenewCheck, TypeOK, RenewersWithin, RenewerState, IdleRenewer
    <3> QED
      BY <2>4, <3>3, <3>4 DEF RenewCheck, GatesWithin, WithinGrant
  <2>5. CASE RenewExchange(r)
    <3>1. deadline' \in Nat /\ deadline' * TicksPerMs <= latestGrant
      BY <2>0, <2>5 DEF RenewExchange, RenewersWithin, RenewerState
    <3>2. TypeOK'
      BY <2>5, <3>1 DEF RenewExchange, TypeOK, RenewerState, IdleRenewer
    <3>3. RenewersWithin'
      BY <1>0, <2>5 DEF RenewExchange, TypeOK, RenewersWithin, IdleRenewer
    <3> QED
      BY <2>5, <3>1, <3>2, <3>3 DEF RenewExchange, GatesWithin, WithinGrant
  <2>6. CASE RenewExchangeFails(r)
    BY <1>0, <2>0, <2>6, Zenon
    DEF RenewExchangeFails, TypeOK, RenewersWithin, GatesWithin, WithinGrant, RenewerState
  <2> QED
    BY <1>3, <2>1, <2>2, <2>3, <2>4, <2>5, <2>6 DEF RenewStep
<1>4. ASSUME NEW g \in Gates, GateStep(g) PROVE IInv'
  <2>0. gate[g] \in GateState
    BY DEF TypeOK
  <2>1. CASE GateLoad(g)
    BY <1>0, <2>0, <2>1
    DEF GateLoad, TypeOK, RenewersWithin, GatesWithin, WithinGrant, GateState
  <2>2. CASE GateAdmit(g)
    BY <1>0, <2>0, <2>2
    DEF GateAdmit, TypeOK, RenewersWithin, GatesWithin, WithinGrant, GateState
  <2>3. CASE GateRefuse(g)
    BY <1>0, <2>0, <2>3
    DEF GateRefuse, TypeOK, RenewersWithin, GatesWithin, WithinGrant, GateState, IdleGate
  <2>4. CASE MutationDone(g)
    BY <1>0, <2>0, <2>4
    DEF MutationDone, TypeOK, RenewersWithin, GatesWithin, WithinGrant, GateState, IdleGate
  <2> QED
    BY <1>4, <2>1, <2>2, <2>3, <2>4 DEF GateStep
<1>5. CASE UNCHANGED vars
  BY <1>5 DEF vars, TypeOK, WithinGrant, RenewersWithin, GatesWithin
<1> QED
  BY <1>1, <1>2, <1>3, <1>4, <1>5 DEF Next

\* The deadline word stays within the grants received, whatever the threads
\* interleave: new_until and renew_until never extend a lease by the time they
\* spend.
THEOREM DeadlineWithinGrant == Spec => [](TypeOK /\ WithinGrant)
<1>1. IInv => TypeOK /\ WithinGrant
  BY DEF IInv
<1> QED
  BY <1>1, InitIInv, NextIInv, PTL DEF Spec

\* Every state of the deadline word, of the renewers inside renew_until and of the
\* gates inside is_live has its type: the word is never negative, although the
\* remaining validity is a difference of two clock readings (saturating_duration_since).
THEOREM DeadlineTyped == Spec => []TypeOK
<1>1. IInv => TypeOK
  BY DEF IInv
<1> QED
  BY <1>1, InitIInv, NextIInv, PTL DEF Spec

\* Every mutation let through runs at an instant some grant covers: the gate's
\* earlier load of the word cannot outlive the grant behind it.
THEOREM AdmissionWithinGrant == Spec => AdmittedWithinGrant
<1>1. ASSUME IInv, [Next]_vars, NEW g \in Gates,
             gate[g].pc = "loaded", gate'[g].pc = "admitted"
      PROVE  now < latestGrant
  <2> USE DEF IInv
  <2>0. /\ gate[g] \in GateState
        /\ now \in Nat /\ latestGrant \in Nat
        /\ gate[g].word * TicksPerMs <= latestGrant
    BY <1>1 DEF TypeOK, GatesWithin
  <2>1. GateAdmit(g)
    <3>1. gate' # gate
      BY <1>1
    <3>2. CASE Tick \/ Fence
      BY <3>1, <3>2 DEF Tick, Fence
    <3>3. ASSUME NEW r \in Renewers, RenewStep(r) PROVE FALSE
      BY <3>1, <3>3 DEF RenewStep, RenewElapsed, RenewRemaining, RenewLoad,
                        RenewCheck, RenewExchange, RenewExchangeFails
    <3>4. ASSUME NEW h \in Gates, GateStep(h) PROVE h = g /\ GateAdmit(g)
      BY <1>1, <3>4 DEF GateStep, GateLoad, GateAdmit, GateRefuse, MutationDone,
                        IdleGate, TypeOK, GateState
    <3> QED
      BY <1>1, <3>1, <3>2, <3>3, <3>4 DEF Next, vars
  <2>2. gate[g].word * TicksPerMs \in Nat
    BY <2>0, TicksAssumption DEF GateState
  <2> QED
    BY <2>0, <2>1, <2>2 DEF GateAdmit, IsLiveAt, Since
<1>2. IInv /\ [Next]_vars => [\A g \in Gates : gate[g].pc = "loaded" /\ gate'[g].pc = "admitted"
                                => now < latestGrant]_vars
  BY <1>1
<1> QED
  BY <1>2, InitIInv, NextIInv, PTL DEF Spec, AdmittedWithinGrant

\* A renewer about to exchange holds a nonzero expected word, so its exchange
\* can never replace a fenced one.
ExpectsLive == \A r \in Renewers : renewer[r].pc = "cas" => renewer[r].current # 0

\* fence is final: no exchange, whenever its renewal began, revives the word.
THEOREM FenceFinal == Spec => FenceIsFinal
<1>1. Init => ExpectsLive
  BY DEF Init, ExpectsLive, IdleRenewer
<1>2. IInv /\ ExpectsLive /\ [Next]_vars => ExpectsLive'
  <2> SUFFICES ASSUME IInv, ExpectsLive, [Next]_vars PROVE ExpectsLive'
    OBVIOUS
  <2> USE DEF IInv
  <2>1. ASSUME NEW r \in Renewers, RenewStep(r) PROVE ExpectsLive'
    <3>1. ASSUME NEW grant \in 0..MaxGrant, RenewElapsed(r, grant) PROVE ExpectsLive'
      BY <3>1 DEF RenewElapsed, ExpectsLive, TypeOK, RenewerState
    <3>2. CASE RenewRemaining(r)
      BY <3>2 DEF RenewRemaining, ExpectsLive, TypeOK, RenewerState, IdleRenewer
    <3>3. CASE RenewLoad(r)
      BY <3>3 DEF RenewLoad, ExpectsLive, TypeOK, RenewerState
    <3>4. CASE RenewCheck(r)
      BY <3>4 DEF RenewCheck, ExpectsLive, TypeOK, RenewerState, IdleRenewer
    <3>5. CASE RenewExchange(r)
      BY <3>5 DEF RenewExchange, ExpectsLive, TypeOK, RenewerState, IdleRenewer
    <3>6. CASE RenewExchangeFails(r)
      BY <3>6 DEF RenewExchangeFails, ExpectsLive, TypeOK, RenewerState
    <3> QED
      BY <2>1, <3>1, <3>2, <3>3, <3>4, <3>5, <3>6 DEF RenewStep
  <2>2. CASE Tick \/ Fence \/ UNCHANGED vars
    BY <2>2 DEF Tick, Fence, vars, ExpectsLive
  <2>3. ASSUME NEW g \in Gates, GateStep(g) PROVE ExpectsLive'
    BY <2>3 DEF GateStep, GateLoad, GateAdmit, GateRefuse, MutationDone, ExpectsLive
  <2> QED
    BY <2>1, <2>2, <2>3 DEF Next
<1>3. IInv /\ ExpectsLive /\ [Next]_vars => [deadline = 0 => deadline' = 0]_vars
  <2> SUFFICES ASSUME ExpectsLive, Next, deadline = 0 PROVE deadline' = 0
    BY Zenon
  <2>1. ASSUME NEW r \in Renewers, RenewStep(r) PROVE deadline' = 0
    BY <2>1 DEF RenewStep, RenewElapsed, RenewRemaining, RenewLoad, RenewCheck,
                RenewExchange, RenewExchangeFails, ExpectsLive
  <2>2. ASSUME NEW g \in Gates, GateStep(g) PROVE deadline' = 0
    BY <2>2 DEF GateStep, GateLoad, GateAdmit, GateRefuse, MutationDone
  <2> QED
    BY <2>1, <2>2 DEF Next, Tick, Fence
<1> QED
  BY <1>1, <1>2, <1>3, InitIInv, NextIInv, PTL DEF Spec, FenceIsFinal
=============================================================================
