---------------------------- MODULE MCTensorRefs -----------------------------
(***************************************************************************)
(* Instances of TensorRefs.  Tensors are alike.                            *)
(***************************************************************************)
EXTENDS TensorRefs, TLC

Symmetry == Permutations(Uuids)

=============================================================================
