----------------------------- MODULE TensorRefs -----------------------------
(***************************************************************************)
(* When a producer may free a tensor: the counts of                        *)
(* mstar/communication/tensor_store.py and tensors.py, the conductor's     *)
(* count of the persisted signals it passes on (conductor/conductor.py)    *)
(* and the messages between them, with a worker that reads them and keeps  *)
(* ReadContract.                                                           *)
(*                                                                         *)
(* The producer holds a tensor while its count is positive or it is        *)
(* persisted.  Edges it routed are in the count from the start.  A         *)
(* persisted tensor is also passed on by the conductor, and the producer   *)
(* learns how often with the message that ends the persistence: until then *)
(* acknowledgements may take the count below zero.  Three processes talk   *)
(* over separate sockets, so these messages overtake each other.           *)
(*                                                                         *)
(* One request.  An edge of several tensors counts once for each, so edges *)
(* and acknowledgements on their way are counted for each tensor.          *)
(***************************************************************************)
EXTENDS ReadContract, FiniteSets

CONSTANTS
    MaxEdges,       \* bound on the edges that name a tensor
    MayRefuse,      \* may the engine refuse to register a tensor for sending?
    MayForce        \* may the drain's deadline pass?

ASSUME TensorRefsAssumption ==
    IsFiniteSet(Uuids) /\ MaxEdges \in Nat /\ MayRefuse \in BOOLEAN /\ MayForce \in BOOLEAN

VARIABLES
    \* the producer
    at,         \* none, held or freed
    refs,       \* ref_cnt
    persist,
    \* the conductor
    known,      \* persist_signals
    passed,     \* persist_signal_ref_cnt
    kst,        \* the request: open, drained (a drain was sent), closed (a removal was)
    \* the sockets
    way,        \* edges on their way to the reader
    acks,       \* acknowledgements on their way to the producer
    giving,     \* tensors with an UNPERSIST_TENSORS on its way
    given,      \* the count in it
    \* history
    forced,     \* the removal did not wait for READS_DONE
    unsent,     \* tensors whose edges were never sent
    dropped,    \* edges that name a tensor and will never be acknowledged
    total       \* edges so far that name a tensor

prodVars == <<at, refs, persist>>
condVars == <<known, passed, kst>>
netVars == <<way, acks, giving, given>>
histVars == <<forced, unsent, dropped, total>>
vars == <<contractVars, prodVars, condVars, netVars, histVars>>

Init ==
    /\ ContractInit
    /\ at = [u \in Uuids |-> "none"] /\ refs = [u \in Uuids |-> 0] /\ persist = [u \in Uuids |-> FALSE]
    /\ known = {} /\ passed = [u \in Uuids |-> 0] /\ kst = "open"
    /\ way = [u \in Uuids |-> 0] /\ acks = [u \in Uuids |-> 0]
    /\ giving = {} /\ given = [u \in Uuids |-> 0]
    /\ forced = FALSE /\ unsent = {}
    /\ dropped = [u \in Uuids |-> 0] /\ total = [u \in Uuids |-> 0]

-----------------------------------------------------------------------------
(* The producer *)

\* can_gc and _cleanup_by_uuid
CanGc(n, p) == n <= 0 /\ ~p
Place(n, p) == IF CanGc(n, p) THEN "freed" ELSE "held"

\* A node ran: its output u is stored with a safety hold, which the n readers it
\* was routed to replace (set_output_ref_counts), and reported to the conductor
\* if it persists.  Nothing is sent if the engine refuses to register it.
Produce(u, n, p, refused) ==
    /\ at[u] = "none" /\ kst = "open" /\ total[u] + n <= MaxEdges
    /\ refused => MayRefuse
    /\ at' = [at EXCEPT ![u] = Place(n, p)]
    /\ refs' = [refs EXCEPT ![u] = n]
    /\ persist' = [persist EXCEPT ![u] = p]
    /\ known' = IF p /\ ~refused THEN known \cup {u} ELSE known
    /\ way' = IF refused THEN way ELSE [way EXCEPT ![u] = @ + n]
    /\ unsent' = IF refused THEN unsent \cup {u} ELSE unsent
    /\ total' = [total EXCEPT ![u] = @ + n]
    /\ UNCHANGED <<contractVars, passed, kst, acks, giving, given, forced, dropped>>

\* Fault: acknowledgements of a persisted tensor are not counted.
FaultyTakeAck(u) ==
    /\ acks[u] > 0 /\ acks' = [acks EXCEPT ![u] = @ - 1]
    /\ IF at[u] = "held" /\ ~persist[u]
       THEN /\ refs' = [refs EXCEPT ![u] = @ - 1]
            /\ at' = [at EXCEPT ![u] = Place(refs[u] - 1, persist[u])]
       ELSE UNCHANGED <<refs, at>>
    /\ UNCHANGED <<contractVars, persist, condVars, way, giving, given, histVars>>

\* TENSOR_RECEIVED: dereference_batch
TakeAck(u) ==
    /\ acks[u] > 0 /\ acks' = [acks EXCEPT ![u] = @ - 1]
    /\ IF at[u] = "held"
       THEN /\ refs' = [refs EXCEPT ![u] = @ - 1]
            /\ at' = [at EXCEPT ![u] = Place(refs[u] - 1, persist[u])]
       ELSE UNCHANGED <<refs, at>>
    /\ UNCHANGED <<contractVars, persist, condVars, way, giving, given, histVars>>

\* Fault: the readers the conductor counted are not added.
FaultyTakeUnpersist(u) ==
    /\ u \in giving /\ giving' = giving \ {u}
    /\ given' = [given EXCEPT ![u] = 0]
    /\ IF at[u] = "held"
       THEN /\ persist' = [persist EXCEPT ![u] = FALSE]
            /\ at' = [at EXCEPT ![u] = Place(refs[u], FALSE)]
       ELSE UNCHANGED <<persist, at>>
    /\ UNCHANGED <<contractVars, refs, condVars, way, acks, histVars>>

\* UNPERSIST_TENSORS: the readers the conductor counted, then persist off.
TakeUnpersist(u) ==
    /\ u \in giving /\ giving' = giving \ {u}
    /\ given' = [given EXCEPT ![u] = 0]
    /\ IF at[u] = "held"
       THEN /\ refs' = [refs EXCEPT ![u] = @ + given[u]]
            /\ persist' = [persist EXCEPT ![u] = FALSE]
            /\ at' = [at EXCEPT ![u] = Place(refs[u] + given[u], FALSE)]
       ELSE UNCHANGED <<refs, persist, at>>
    /\ UNCHANGED <<contractVars, condVars, way, acks, histVars>>

\* REMOVE_REQUEST: force_cleanup_request
ProducerRemoves ==
    /\ kst = "closed" /\ \E u \in Uuids : at[u] = "held"
    /\ at' = [u \in Uuids |-> IF at[u] = "held" THEN "freed" ELSE at[u]]
    /\ UNCHANGED <<contractVars, refs, persist, condVars, netVars, histVars>>

-----------------------------------------------------------------------------
(* The conductor *)

\* _send_inputs and _update_persist_ref_counts: the next pass takes u as input.
PassInput(u) ==
    /\ kst = "open" /\ u \in known /\ total[u] < MaxEdges
    /\ passed' = [passed EXCEPT ![u] = @ + 1]
    /\ way' = [way EXCEPT ![u] = @ + 1]
    /\ total' = [total EXCEPT ![u] = @ + 1]
    /\ UNCHANGED <<contractVars, prodVars, known, kst, acks, giving, given, forced, unsent, dropped>>

\* _un_persist_tensors: the count goes with the message and is forgotten.  A
\* signal that was never passed on is not tracked, and stays persisted.
GiveUp(U) ==
    LET tracked == {u \in U : passed[u] > 0}
    IN  /\ known' = known \ tracked
        /\ giving' = giving \cup tracked
        /\ given' = [u \in Uuids |-> IF u \in tracked THEN passed[u] ELSE given[u]]
        /\ passed' = [u \in Uuids |-> IF u \in tracked THEN 0 ELSE passed[u]]
Unpersist(U) ==
    /\ kst = "open" /\ U \subseteq known /\ U # {} /\ GiveUp(U)
    /\ UNCHANGED <<contractVars, prodVars, kst, way, acks, histVars>>

Drain ==
    /\ kst = "open" /\ kst' = "drained"
    /\ UNCHANGED <<contractVars, prodVars, known, passed, netVars, histVars>>

\* The graph finished: its workers consumed what they were sent.  What is still
\* persisted is given up before the removal.
Complete ==
    /\ kst = "open" /\ phase = "live"
    /\ reading = {} /\ \A u \in Uuids : way[u] = 0 /\ owed[u] = 0
    /\ kst' = "closed" /\ GiveUp(known)
    /\ UNCHANGED <<contractVars, prodVars, way, acks, histVars>>

\* Every participant has said READS_DONE, or the deadline passed.
CloseBarrier ==
    /\ kst = "drained" /\ (phase = "acked" \/ MayForce)
    /\ kst' = "closed" /\ forced' = (forced \/ phase # "acked")
    /\ UNCHANGED <<contractVars, prodVars, known, passed, netVars, unsent, dropped, total>>

-----------------------------------------------------------------------------
(* The reader: the steps of ReadContract with the messages they take and send *)

others == <<prodVars, condVars, giving, given, histVars>>

TakeEdge(u) ==
    /\ way[u] > 0 /\ way' = [way EXCEPT ![u] = @ - 1]
    /\ Receive({u})
    /\ UNCHANGED <<acks, others>>

\* Between READS_DONE and the removal an edge is dropped without a word
\* (_takes_input).  One of a request that was never admitted is parked instead,
\* which leaves it on its way here, until the removal.
DropEdge(u) ==
    /\ way[u] > 0 /\ way' = [way EXCEPT ![u] = @ - 1]
    /\ phase = "acked" /\ dropped' = [dropped EXCEPT ![u] = @ + 1]
    /\ UNCHANGED <<contractVars, prodVars, condVars, acks, giving, given, forced, unsent, total>>

\* After the removal an edge is acknowledged unread (_drop_for_removed).
RefuseEdge(u) ==
    /\ way[u] > 0 /\ way' = [way EXCEPT ![u] = @ - 1]
    /\ phase = "gone" /\ acks' = [acks EXCEPT ![u] = @ + 1]
    /\ UNCHANGED <<contractVars, others>>

BeginRead(u) ==
    /\ u \notin reading /\ reading' = reading \cup {u} /\ Begin
    /\ UNCHANGED <<way, acks, others>>

\* A transfer stops, an edge is acknowledged, or both.
SettleRead(u, n, stop) ==
    /\ n <= owed[u] /\ (n > 0 \/ stop) /\ (stop => u \in reading)
    /\ owed' = [owed EXCEPT ![u] = @ - n]
    /\ acks' = [acks EXCEPT ![u] = @ + n]
    /\ reading' = IF stop THEN reading \ {u} ELSE reading
    /\ Settle
    /\ UNCHANGED <<way, others>>

TakeDrain == kst = "drained" /\ BeginDrain /\ UNCHANGED <<way, acks, others>>
ReadsDone == SayReadsDone /\ UNCHANGED <<way, acks, others>>

ReaderRemoves(n) ==
    /\ kst = "closed" /\ phase # "gone"
    /\ \A u \in Uuids : n[u] <= owed[u]
    /\ owed' = [u \in Uuids |-> owed[u] - n[u]]
    /\ acks' = [u \in Uuids |-> acks[u] + n[u]]
    /\ Forget
    /\ UNCHANGED <<way, others>>

-----------------------------------------------------------------------------

Counts == 0..MaxEdges
Produces == \E u \in Uuids, n \in Counts, p, refused \in BOOLEAN : Produce(u, n, p, refused)
TakesAck == \E u \in Uuids : TakeAck(u)
TakesUnpersist == \E u \in Uuids : TakeUnpersist(u)
Passes == \E u \in Uuids : PassInput(u)
Unpersists == \E U \in SUBSET Uuids : Unpersist(U)
TakesEdge == \E u \in Uuids : TakeEdge(u)
DropsEdge == \E u \in Uuids : DropEdge(u)
RefusesEdge == \E u \in Uuids : RefuseEdge(u)
Begins == \E u \in Uuids : BeginRead(u)
Settles == \E u \in Uuids, n \in Counts, stop \in BOOLEAN : SettleRead(u, n, stop)
Removes == \E n \in [Uuids -> Counts] : ReaderRemoves(n)

Next ==
    \/ Produces \/ TakesAck \/ TakesUnpersist \/ ProducerRemoves
    \/ Passes \/ Unpersists \/ Drain \/ Complete \/ CloseBarrier
    \/ TakesEdge \/ DropsEdge \/ RefusesEdge \/ Begins \/ Settles \/ TakeDrain \/ ReadsDone \/ Removes

Spec == Init /\ [][Next]_vars

-----------------------------------------------------------------------------
(* Properties *)

TypeOK ==
    /\ owed \in [Uuids -> Nat] /\ reading \subseteq Uuids /\ phase \in {"live", "draining", "acked", "gone"}
    /\ at \in [Uuids -> {"none", "held", "freed"}] /\ refs \in [Uuids -> Int] /\ persist \in [Uuids -> BOOLEAN]
    /\ known \subseteq Uuids /\ passed \in [Uuids -> Nat] /\ kst \in {"open", "drained", "closed"}
    /\ way \in [Uuids -> Nat] /\ acks \in [Uuids -> Nat] /\ giving \subseteq Uuids /\ given \in [Uuids -> Nat]
    /\ forced \in BOOLEAN /\ unsent \subseteq Uuids
    /\ dropped \in [Uuids -> Nat] /\ total \in [Uuids -> Counts]

\* Reads of u that somebody still has to answer for.
Due(u) == way[u] + owed[u] + acks[u]

\* The producer has not freed a tensor that an edge on its way to the reader
\* names, that the reader has not acknowledged, or that a transfer reads: routed
\* or passed on, and in whatever order acknowledgements and the end of the
\* persistence arrive.  Only a removal whose deadline passed may.
SourceHeld ==
    \A u \in Uuids :
        \/ at[u] = "held" \/ forced
        \/ u \notin reading /\ (Taking => way[u] = 0 /\ owed[u] = 0)

\* A tensor that nobody will read any more is not held: the counts come out at
\* zero with the last acknowledgement or the end of the persistence, whichever
\* is later.  After READS_DONE, one whose edge the reader dropped is held until
\* the producer's own removal (force_cleanup_request), and no other.
FreedWhenRead ==
    \A u \in Uuids : at[u] = "held" /\ ~persist[u] /\ u \notin unsent =>
        Due(u) > 0 \/ (~Taking /\ dropped[u] > 0)

\* What makes both true: the producer's count, with what the conductor has yet
\* to tell it, is the number of reads due and of edges dropped, of which there
\* are none before READS_DONE, and only a persisted tensor has something left to
\* tell.
RefsExact ==
    \A u \in Uuids :
        /\ at[u] = "held" /\ u \notin unsent => refs[u] + passed[u] + given[u] = Due(u) + dropped[u]
        /\ Taking => dropped[u] = 0
        /\ at[u] = "held" /\ ~persist[u] => passed[u] + given[u] = 0 /\ u \notin known

=============================================================================
