---------------------------- MODULE MCAdmission ----------------------------
(***************************************************************************)
(* Instances of Admission for TLC.  Two resources that ask: a paged KV     *)
(* pool "kv" of three pages and a pool of one slot "slot" (an adapter or a *)
(* recurrent state).  The node "llm" asks the KV pool and "talk" asks      *)
(* both, so a request may hold the one while it waits for the other.       *)
(***************************************************************************)
EXTENDS Admission

CONSTANTS r1, r2, r3

MCNodes == {"llm", "talk"}
MCKeysOf == [n \in MCNodes |-> IF n = "llm" THEN {"kv"} ELSE {"kv", "slot"}]
MCCap == [k \in {"kv", "slot"} |-> IF k = "kv" THEN 3 ELSE 1]
MCPair(kv, slot) == [k \in {"kv", "slot"} |-> IF k = "kv" THEN kv ELSE slot]

\* r1 and r2 compete for both pools.  r3 fits in the KV pool, but asks more slots
\* than there are, so it can start on "llm" and fails on "talk".
MCAsk == [r \in Rids |-> CASE r = r1 -> MCPair(2, 1)
                           [] r = r2 -> MCPair(3, 1)
                           [] r = r3 -> MCPair(1, 2)]
=============================================================================
