------------------------------ MODULE MCKVPool ------------------------------
(***************************************************************************)
(* An instance of KVPool for TLC: the prompts of r1 and r2 share their     *)
(* first page, and r1 goes on past its prompt.                             *)
(***************************************************************************)
EXTENDS KVPool, TLC

CONSTANTS r1, r2, p1, p2, p3, p4

MCChain == [r \in Rids |-> IF r = r1 THEN <<"a", "ad">> ELSE <<"a", "ab">>]
MCLimit == [r \in Rids |-> IF r = r1 THEN 3 ELSE 2]

PageSymmetry == Permutations(Pages)
=============================================================================
