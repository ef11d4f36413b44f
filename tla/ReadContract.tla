---------------------------- MODULE ReadContract ----------------------------
(***************************************************************************)
(* What a process that reads another's tensors promises about one request, *)
(* as the producer, which counts references, and the conductor, which      *)
(* waits for READS_DONE, rely on it.  TensorReads is the reader that keeps *)
(* it; TensorRefs composes it with the producer and the conductor.         *)
(***************************************************************************)
EXTENDS Integers

CONSTANT Uuids      \* tensors

VARIABLES
    owed,       \* edges received and not acknowledged, for each tensor
    reading,    \* tensors whose memory at the producer a transfer may be reading
    phase       \* live, draining, acked (READS_DONE sent), gone

contractVars == <<owed, reading, phase>>

ContractInit == owed = [u \in Uuids |-> 0] /\ reading = {} /\ phase = "live"

Taking == phase \in {"live", "draining"}

\* An edge that names the tensors e arrives, and is read until READS_DONE.
Receive(e) ==
    /\ Taking
    /\ owed' = [u \in Uuids |-> IF u \in e THEN owed[u] + 1 ELSE owed[u]]
    /\ UNCHANGED <<reading, phase>>

\* Only what an edge still has to answer for is read.
Begin ==
    /\ Taking /\ reading \subseteq reading'
    /\ \A u \in reading' \ reading : owed[u] > 0
    /\ UNCHANGED <<owed, phase>>

\* Edges are acknowledged, once each, and transfers stop.  An edge is not
\* acknowledged while its own transfer runs.
Settle ==
    /\ \A u \in Uuids : owed'[u] \in 0..owed[u]
    /\ reading' \subseteq reading
    /\ \A u \in reading' : owed'[u] > 0
    /\ UNCHANGED phase

BeginDrain == phase = "live" /\ phase' = "draining" /\ UNCHANGED <<owed, reading>>
SayReadsDone ==
    /\ phase = "draining" /\ reading = {}
    /\ phase' = "acked" /\ UNCHANGED <<owed, reading>>

\* The request is removed here, whatever still runs.
Forget ==
    /\ phase' = "gone" /\ reading' = {}
    /\ \A u \in Uuids : owed'[u] \in 0..owed[u]

\* The next request has the handle.
Renew == phase = "gone" /\ phase' = "live" /\ UNCHANGED <<owed, reading>>

ContractNext ==
    \/ \E e \in SUBSET Uuids : Receive(e)
    \/ Begin \/ Settle \/ BeginDrain \/ SayReadsDone \/ Forget \/ Renew
ContractSpec == ContractInit /\ [][ContractNext]_contractVars

=============================================================================
