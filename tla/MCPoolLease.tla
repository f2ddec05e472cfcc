---------------------------- MODULE MCPoolLease ----------------------------
(* Small instances of PoolLease: one carrier on each node, or two on one.  *)
EXTENDS PoolLease, TLC

CONSTANTS c1, c2, c3

OneEach == [c \in Carriers |-> c]
TwoOnOne == [c \in Carriers |-> IF c = c2 THEN c1 ELSE c]

CarrierSymmetry == Permutations(Carriers)

=============================================================================
