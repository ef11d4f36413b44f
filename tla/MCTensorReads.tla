---------------------------- MODULE MCTensorReads ----------------------------
(***************************************************************************)
(* An instance of TensorReads.                                             *)
(***************************************************************************)
EXTENDS TensorReads

CONSTANTS u1, u2, b1, b2

=============================================================================
