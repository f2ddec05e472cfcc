---------------------------- MODULE FencedOwner ----------------------------
(***************************************************************************)
(* What the Pool owner lease promises to everything behind it: at most one *)
(* node owns the Pool at a time, and write fences put the owners in order. *)
(* A node that takes the Pool carries a newer fence than every owner       *)
(* before it, unless it is the last owner itself coming back under its own *)
(* fence.                                                                  *)
(***************************************************************************)
EXTENDS Integers

CONSTANTS Nodes, None

VARIABLES
  owners,  \* the nodes that may mutate the Pool
  last     \* the latest owner and its write fence

vars == <<owners, last>>

\* WriteFence orders by epoch, then by generation.
Newer(f, g) == f.epoch > g.epoch \/ (f.epoch = g.epoch /\ f.generation > g.generation)

Init ==
  /\ owners = {}
  /\ last = [node |-> None, fence |-> [epoch |-> 0, generation |-> 0]]

Take ==
  /\ owners = {}
  /\ last'.node \in Nodes
  /\ owners' = {last'.node}
  /\ Newer(last'.fence, last.fence) \/ last' = last

\* Released, lapsed, or dead.
Drop ==
  /\ owners # {}
  /\ owners' = {}
  /\ UNCHANGED last

Next == Take \/ Drop

Spec == Init /\ [][Next]_vars

=============================================================================
