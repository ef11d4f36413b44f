--------------------------- MODULE MCPrefixIndex ---------------------------
(***************************************************************************)
(* Instances of PrefixIndex for TLC: the keys of two prompts that share    *)
(* their first page, "a" < "ab" < "abc" and "a" < "ad".                    *)
(***************************************************************************)
EXTENDS PrefixIndex, TLC

CONSTANTS p1, p2, p3, p4

MCKeyParent == [k \in Keys |-> CASE k = "a" -> None
                                 [] k = "ab" -> "a"
                                 [] k = "abc" -> "ab"
                                 [] k = "ad" -> "a"]

PageSymmetry == Permutations(Pages)
=============================================================================
