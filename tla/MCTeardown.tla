------------------------------ MODULE MCTeardown ------------------------------
(***************************************************************************)
(* Instances of Teardown.  Lone: every worker leads itself.  Group: w1 is  *)
(* rank 0 of a tensor-parallel group.                                      *)
(***************************************************************************)
EXTENDS Teardown, TLC

CONSTANTS w1

Lone == [w \in Workers |-> w]
Group == [w \in Workers |-> w1]

Symmetry == Permutations(Rids)

=============================================================================
