----------------------------- MODULE TensorReads -----------------------------
(***************************************************************************)
(* The consumer of tensors that another process keeps, over a transport    *)
(* that the consumer drives: the Mooncake path of                          *)
(* mstar/communication/tensors.py with the reference counts of             *)
(* tensor_store.py.                                                        *)
(*                                                                         *)
(* An edge names tensors.  The manager reads each into a buffer of its own *)
(* unless an earlier edge did, delivers the edges of a request in the      *)
(* order they came, acknowledges them to the producer, and drops a buffer  *)
(* when no node uses it.  Reader threads run the transfers.  A read that   *)
(* failed leaves transfers that may still write, and the request may be    *)
(* removed at any time.                                                    *)
(*                                                                         *)
(* One handle, which goes to one request after another (life).  Tensors    *)
(* are whole, not empty and not the consumer's own; a buffer is memory     *)
(* that is allocated again once nothing refers to it.                      *)
(***************************************************************************)
EXTENDS Integers, FiniteSets

CONSTANTS
    Uuids,      \* tensors
    Bufs,       \* the consumer's memory
    MaxReads,   \* bound on reads known to the consumer at once
    MaxEdges,   \* bound on the edges that arrive
    MaxLives,   \* bound on the requests that use the handle in turn
    Faults,     \* the kinds of failure an instance may see
    None

ASSUME TensorReadsAssumption ==
    /\ IsFiniteSet(Uuids) /\ IsFiniteSet(Bufs)
    /\ MaxReads \in Nat \ {0} /\ MaxEdges \in Nat /\ MaxLives \in Nat \ {0}
    /\ None \notin Bufs /\ None \notin 1..MaxReads

VARIABLES
    life,       \* the number of the request that has the handle
    creq,       \* live, draining, acked (READS_DONE sent), gone
    store,      \* the buffer stored under a uuid
    ref,        \* its count
    pending,    \* reads not delivered, numbered as they were started
    kept,       \* _kept_reads
    dead,       \* _unreleasable_buffers
    seen,       \* read_finished
    failed,     \* is the handle in _failed_read_errors?
    using,      \* delivered edges that their node has not consumed
    pinned,     \* buffers registered with the engine
    \* its reader threads and the transfer engine
    fut,        \* the futures of the reads
    xfer,       \* a buffer's transfer: what it reads, and how far it is (whole: read and checked)
    \* history
    owner,      \* the request a tensor belongs to, 0 before its first edge
    owed,       \* edges received and not acknowledged, for each tensor
    sent        \* edges received so far

storeVars == <<store, ref>>
bufVars == <<kept, dead, pinned>>
readVars == <<fut, xfer>>
histVars == <<owner, owed, sent>>
consVars == <<life, creq, storeVars, pending, bufVars, seen, failed, using>>
vars == <<consVars, readVars, histVars>>

Edges == (SUBSET Uuids) \ {{}}
Reads == 1..MaxReads
May(kind) == kind \in Faults

NoFuture == [st |-> "idle", bufs |-> {}, running |-> {}, unknown |-> {}]
Still == [src |-> None, st |-> "idle"]

Init ==
    /\ life = 1 /\ creq = "live"
    /\ store = [u \in Uuids |-> None] /\ ref = [u \in Uuids |-> 0]
    /\ pending = {} /\ kept = {} /\ dead = {} /\ seen = {} /\ failed = FALSE
    /\ using = {} /\ pinned = {}
    /\ fut = [f \in Reads |-> NoFuture]
    /\ xfer = [b \in Bufs |-> Still]
    /\ owner = [u \in Uuids |-> 0] /\ owed = [u \in Uuids |-> 0] /\ sent = 0

-----------------------------------------------------------------------------
(* The consumer: the store and the buffers it keeps *)

\* The reads of P that name a tensor, and _collect_and_send_acks for those reads.
Naming(P, u) == {p \in P : u \in p.edge}
Acked(P) == [u \in Uuids |-> owed[u] - Cardinality(Naming(P, u))]

\* _poll_read.  A read with nothing of its own to transfer has no future.
Done(p) == p.fut = None \/ fut[p.fut].st \in {"ok", "failed", "refused"}
Failed(p) == p.fut # None /\ fut[p.fut].st \in {"failed", "refused"}

\* _keep_read_buffers: the buffers now stored under the uuids p reads into.
BuffersOf(p) == {store[u] : u \in p.uuids} \ {None}

\* Fault: a transfer nothing is known of counts as stopped.
FaultyLearned(f, bufs) == TRUE

\* _take_over: is it known of every transfer whether it stopped?
Learned(f, bufs) == fut[f].unknown \cap bufs = {}
\* A read that failed is kept until the transfers it handed over stop; one that
\* still runs, until its future is done.
KeepRead(p, own) ==
    [bufs |-> BuffersOf(p), fut |-> IF Done(p) THEN None ELSE p.fut, own |-> own,
     running |-> IF Done(p) THEN fut[p.fut].running \cap BuffersOf(p) ELSE {}]
KeptOf(P, own) ==
    {KeepRead(p, own) : p \in {q \in P : BuffersOf(q) # {} /\ (Done(q) => Learned(q.fut, BuffersOf(q)))}}
NeverFreedOf(P) ==
    UNION {BuffersOf(p) : p \in {q \in P : Done(q) /\ ~Learned(q.fut, BuffersOf(q))}}

\* The memory of these buffers goes back to the allocator.
Cleared(x, B) == [b \in Bufs |-> IF b \in B /\ x[b].st # "moving" THEN Still ELSE x[b]]

Used == dead \cup {store[u] : u \in Uuids} \cup (UNION {k.bufs : k \in kept})
FreeBufs == Bufs \ Used

\* _release_kept_reads, when the engine answers oddly for the transfers into odd
\* (a status the code does not know, or an unregistration that fails).
Ran(k) == k.fut = None \/ Done(k)
RunningOf(k) == IF k.fut = None THEN k.running ELSE fut[k.fut].running \cap k.bufs
\* Fault: a transfer that stopped goes on counting as one that runs.
FaultyMovingOf(k) == RunningOf(k)

MovingOf(k) == {b \in RunningOf(k) : xfer[b].st = "moving"}
Lost(k, odd) ==
    /\ Ran(k)
    /\ \/ k.fut # None /\ ~Learned(k.fut, k.bufs)
       \/ RunningOf(k) \cap odd # {}
       \/ MovingOf(k) = {} /\ pinned \cap k.bufs \cap odd # {}
\* Fault: what a removed request left is never looked at.
FaultyReleased(k, odd) == k.own /\ Ran(k) /\ ~Lost(k, odd) /\ MovingOf(k) = {}

Released(k, odd) == Ran(k) /\ ~Lost(k, odd) /\ MovingOf(k) = {}
StillKept(k) == IF Ran(k) THEN [k EXCEPT !.fut = None, !.running = MovingOf(k)] ELSE k
KeptAfter(odd) == {StillKept(k) : k \in {q \in kept : ~Lost(q, odd) /\ ~Released(q, odd)}}
LostBy(odd) == UNION {k.bufs : k \in {q \in kept : Lost(q, odd)}}
ReleasedBy(odd) == UNION {k.bufs : k \in {q \in kept : Released(q, odd)}}
\* Batches that reported COMPLETED or FAILED are freed by the engine.
PolledBy == UNION {{b \in RunningOf(k) : xfer[b].st # "moving"} : k \in {q \in kept : Ran(q)}}
RanFutures == {k.fut : k \in {q \in kept : Ran(q)}} \ {None}

Oddities == IF May("engine") THEN {{}} \cup {{b} : b \in Bufs} ELSE {{}}

-----------------------------------------------------------------------------
(* The consumer: reads *)

\* _takes_input: until READS_DONE, draining or not.
Takes == creq \in {"live", "draining"}

\* Each new tensor gets a buffer of its own and a registration; if the engine
\* registers only R of them, the read fails before it starts.
ReadInto(f, new, buf, R) ==
    LET bufs == {buf[u] : u \in new}
        refused == R # bufs
    IN  /\ \A u, v \in new : buf[u] = buf[v] => u = v
        /\ R \subseteq bufs /\ (refused => May("register"))
        /\ store' = [u \in Uuids |-> IF u \in new THEN buf[u] ELSE store[u]]
        /\ pinned' = pinned \cup R
        /\ xfer' = [b \in Bufs |-> IF b \in bufs
                       THEN [src |-> CHOOSE u \in new : buf[u] = b, st |-> "idle"] ELSE xfer[b]]
        /\ fut' = IF new = {} THEN fut
                  ELSE [fut EXCEPT ![f] = [NoFuture EXCEPT !.bufs = bufs,
                                           !.st = IF refused THEN "refused" ELSE "queued"]]

\* start_read_tensors for one edge of the request.  A tensor already stored is shared
\* (_take_cached_read); each other one has two references (transit and use).
StartRead(e) ==
    LET new == {u \in e : store[u] = None}
        f == CHOOSE i \in Reads : fut[i].st = "idle"
    IN  /\ Takes /\ sent < MaxEdges /\ \A u \in e : owner[u] \in {0, life}
        /\ \E i \in Reads : fut[i].st = "idle"
        /\ sent' = sent + 1
        /\ owner' = [u \in Uuids |-> IF u \in e THEN life ELSE owner[u]]
        /\ owed' = [u \in Uuids |-> IF u \in e THEN owed[u] + 1 ELSE owed[u]]
        /\ ref' = [u \in Uuids |-> IF u \in new THEN 2 ELSE IF u \in e THEN ref[u] + 1 ELSE ref[u]]
        /\ pending' = pending \cup {[no |-> sent', edge |-> e, uuids |-> new,
                                      fut |-> IF new = {} THEN None ELSE f]}
        /\ \E buf \in [new -> FreeBufs], R \in SUBSET FreeBufs : ReadInto(f, new, buf, R)
        /\ UNCHANGED <<life, creq, kept, dead, seen, failed, using>>

\* get_ready_tensors and take_failed_reads (_check_ready_tensors).  A request's
\* reads are delivered in the order they were started; once one has failed, the
\* others are dropped as they finish.
Bad == {p \in pending : Failed(p)}
Spoiled(p) == failed \/ \E q \in Bad : q.no < p.no
Dropped == {p \in pending \ Bad : Done(p) /\ Spoiled(p)}
\* Fault: an edge is delivered as soon as its own reads have ended.
FaultyGiven == {p \in pending \ Bad : Done(p) /\ ~Spoiled(p)}

Given == {p \in pending \ Bad : ~Spoiled(p) /\ \A q \in pending : q.no <= p.no => Done(q)}

CheckReady(odd) ==
    LET ended == Bad \cup Dropped \cup Given
        tensors == UNION {p.edge : p \in Given}
        over == {p.fut : p \in ended} \cup RanFutures
        taken == UNION {p.uuids : p \in Bad}
    IN  /\ kept # {} \/ ended # {}
        /\ pending' = pending \ ended
        /\ kept' = KeptAfter(odd) \cup KeptOf(Bad, TRUE)
        /\ dead' = dead \cup LostBy(odd) \cup NeverFreedOf(Bad)
        /\ pinned' = pinned \ ReleasedBy(odd)
        /\ store' = [u \in Uuids |-> IF u \in taken THEN None ELSE store[u]]
        /\ ref' = [u \in Uuids |-> IF u \in taken THEN 0
                                   ELSE IF u \in tensors \ seen THEN ref[u] - 1 ELSE ref[u]]
        /\ seen' = seen \cup tensors
        /\ using' = using \cup {[no |-> p.no, edge |-> p.edge] : p \in Given}
        /\ failed' = (failed \/ Bad # {})
        /\ fut' = [f \in Reads |-> IF f \in over THEN NoFuture ELSE fut[f]]
        /\ xfer' = Cleared([b \in Bufs |-> IF b \in PolledBy THEN [xfer[b] EXCEPT !.st = "idle"] ELSE xfer[b]],
                           ReleasedBy(odd))
        /\ owed' = Acked(Dropped \cup Given)
        /\ UNCHANGED <<life, creq, owner, sent>>

\* A node consumed an edge: its references go, and what has none left goes with
\* its registration (dereference_batch_uniform, _cleanup_by_uuid).  A buffer that
\* cannot be unregistered stays allocated.
Consume(d, odd) ==
    LET gone == {u \in d.edge : ref[u] <= 1}
        bufs == {store[u] : u \in gone}
    IN  /\ using' = using \ {d}
        /\ ref' = [u \in Uuids |-> IF u \in gone THEN 0 ELSE IF u \in d.edge THEN ref[u] - 1 ELSE ref[u]]
        /\ store' = [u \in Uuids |-> IF u \in gone THEN None ELSE store[u]]
        /\ dead' = dead \cup (bufs \cap pinned \cap odd)
        /\ pinned' = pinned \ (bufs \ odd)
        /\ xfer' = Cleared(xfer, bufs)
        /\ UNCHANGED <<life, creq, pending, kept, seen, failed, fut, histVars>>

-----------------------------------------------------------------------------
(* The consumer: the end of a request *)

TakeDrain ==
    /\ creq = "live" /\ creq' = "draining"
    /\ UNCHANGED <<life, storeVars, pending, bufVars, seen, failed, using, readVars, histVars>>

\* _may_be_reading and has_inflight_reads
MayBeReading(f) == fut[f].st \in {"queued", "running", "failed"}
\* Fault: the transfers of a failed read do not hold READS_DONE back.
FaultyHasInflightReads == \E p \in pending : p.fut # None /\ MayBeReading(p.fut)

HasInflightReads ==
    \/ \E p \in pending : p.fut # None /\ MayBeReading(p.fut)
    \/ \E k \in kept : k.own /\ (k.fut # None \/ k.running # {})

\* _complete_drain_if_ready: READS_DONE
ReadsDone ==
    /\ creq = "draining" /\ ~HasInflightReads
    /\ creq' = "acked"
    /\ UNCHANGED <<life, storeVars, pending, bufVars, seen, failed, using, readVars, histVars>>

\* Fault: what a removed request left keeps its handle.
FaultyDisown(k) == k

\* REMOVE_REQUEST: cleanup_request with force.  Reads that failed or have not
\* finished keep their buffers, finished ones are acknowledged, everything
\* stored is freed, and the handle's state is forgotten.
Disown(k) == [k EXCEPT !.own = FALSE]
ConsumerRemoves(odd) ==
    LET finished == {p \in pending : Done(p) /\ ~Failed(p)}
        keep == pending \ finished
        bufs == {store[u] : u \in Uuids \ (UNION {p.uuids : p \in keep})} \ {None}
        over == {p.fut : p \in {q \in pending : Done(q)}}
    IN  /\ creq # "gone"
        /\ creq' = "gone" /\ pending' = {}
        /\ kept' = {Disown(k) : k \in kept} \cup KeptOf(keep, FALSE)
        /\ dead' = dead \cup NeverFreedOf(keep) \cup (bufs \cap pinned \cap odd)
        /\ pinned' = pinned \ (bufs \ odd) /\ xfer' = Cleared(xfer, bufs)
        /\ store' = [u \in Uuids |-> None] /\ ref' = [u \in Uuids |-> 0]
        /\ seen' = {} /\ failed' = FALSE /\ using' = {}
        /\ fut' = [f \in Reads |-> IF f \in over THEN NoFuture ELSE fut[f]]
        /\ owed' = Acked(finished)
        /\ UNCHANGED <<life, owner, sent>>

\* The handle goes to the next request.
ReuseHandle ==
    /\ creq = "gone" /\ life < MaxLives /\ \E u \in Uuids : owner[u] = 0
    /\ life' = life + 1 /\ creq' = "live"
    /\ UNCHANGED <<storeVars, pending, bufVars, seen, failed, using, readVars, histVars>>

-----------------------------------------------------------------------------
(* The reader threads (TrackedMooncakeReader._read) and the engine *)

\* Each tensor of the read is a batch of its own.  A failed submit may have
\* posted its transfer, which nothing will report on.
Submit(f) ==
    /\ fut[f].st = "queued"
    /\ \/ /\ fut' = [fut EXCEPT ![f].st = "running", ![f].running = fut[f].bufs]
          /\ xfer' = [b \in Bufs |-> IF b \in fut[f].bufs THEN [xfer[b] EXCEPT !.st = "moving"] ELSE xfer[b]]
       \/ /\ May("engine")
          /\ \E b \in fut[f].bufs : \E S \in SUBSET (fut[f].bufs \ {b}), posted \in BOOLEAN :
                /\ fut' = [fut EXCEPT ![f] = [@ EXCEPT !.st = "failed", !.running = S, !.unknown = {b}]]
                /\ xfer' = [c \in Bufs |-> IF c \in S \/ (c = b /\ posted)
                              THEN [xfer[c] EXCEPT !.st = "moving"] ELSE xfer[c]]
    /\ UNCHANGED <<consVars, histVars>>

\* A transfer the reader polls has stopped, or its status is not one it knows.
Drop(f, b, st, unknown) ==
    fut' = [fut EXCEPT ![f].st = st, ![f].running = @ \ {b}, ![f].unknown = unknown]
Poll(f, b) ==
    /\ fut[f].st = "running" /\ b \in fut[f].running
    /\ \/ /\ xfer[b].st = "done"
          /\ Drop(f, b, IF fut[f].running = {b} THEN "ok" ELSE "running", {})
          /\ xfer' = [xfer EXCEPT ![b].st = "whole"]
       \/ /\ xfer[b].st = "error"    \* tried again while attempts and time last
          /\ xfer' = [xfer EXCEPT ![b].st = "moving"] /\ UNCHANGED fut
       \/ /\ xfer[b].st = "error"
          /\ Drop(f, b, "failed", {})
          /\ xfer' = [xfer EXCEPT ![b].st = "idle"]
       \/ /\ xfer[b].st = "error" /\ May("engine")    \* the new submit fails
          /\ Drop(f, b, "failed", {b})
          /\ \E s \in {"idle", "moving"} : xfer' = [xfer EXCEPT ![b].st = s]
       \/ /\ May("engine")
          /\ Drop(f, b, "failed", {b}) /\ UNCHANGED xfer
    /\ UNCHANGED <<consVars, histVars>>

\* The read's deadline passed: it hands over what still runs.
ReadTimesOut(f) ==
    /\ fut[f].st = "running"
    /\ fut' = [fut EXCEPT ![f].st = "failed"]
    /\ UNCHANGED <<xfer, consVars, histVars>>

\* The engine: a transfer completes or fails.
TransferEnds(b) ==
    /\ xfer[b].st = "moving"
    /\ \/ xfer' = [xfer EXCEPT ![b].st = "done"]
       \/ May("transfer") /\ xfer' = [xfer EXCEPT ![b].st = "error"]
    /\ UNCHANGED <<fut, consVars, histVars>>

-----------------------------------------------------------------------------

Starts == \E e \in Edges : StartRead(e)
Checks == \E odd \in Oddities : CheckReady(odd)
Consumes == \E d \in using, odd \in Oddities : Consume(d, odd)
Removes == \E odd \in Oddities : ConsumerRemoves(odd)
Submits == \E f \in Reads : Submit(f)
Polls == \E f \in Reads, b \in Bufs : Poll(f, b)
TimesOut == \E f \in Reads : ReadTimesOut(f)
Transfers == \E b \in Bufs : TransferEnds(b)

Next ==
    \/ Starts \/ Checks \/ Consumes
    \/ TakeDrain \/ ReadsDone \/ Removes \/ ReuseHandle
    \/ Submits \/ Polls \/ TimesOut \/ Transfers

Spec == Init /\ [][Next]_vars

-----------------------------------------------------------------------------
(* Properties *)

Futures == [st : {"idle", "queued", "running", "ok", "failed", "refused"}, bufs : SUBSET Bufs,
            running : SUBSET Bufs, unknown : SUBSET Bufs]
Handed == [no : 1..MaxEdges, edge : Edges]
TypeOK ==
    /\ life \in 1..MaxLives /\ creq \in {"live", "draining", "acked", "gone"}
    /\ store \in [Uuids -> Bufs \cup {None}] /\ ref \in [Uuids -> Nat]
    /\ pending \subseteq [no : 1..MaxEdges, edge : Edges, uuids : SUBSET Uuids, fut : Reads \cup {None}]
    /\ kept \subseteq [bufs : SUBSET Bufs, fut : Reads \cup {None}, own : BOOLEAN, running : SUBSET Bufs]
    /\ dead \subseteq Bufs /\ pinned \subseteq Bufs /\ seen \subseteq Uuids /\ failed \in BOOLEAN
    /\ using \subseteq Handed /\ fut \in [Reads -> Futures]
    /\ xfer \in [Bufs -> [src : Uuids \cup {None}, st : {"idle", "moving", "done", "error", "whole"}]]
    /\ owner \in [Uuids -> 0..MaxLives] /\ owed \in [Uuids -> Nat] /\ sent \in 0..MaxEdges

\* The reader keeps the contract the producer and the conductor count on: it
\* acknowledges an edge once and not before the edge's own transfer stopped, and
\* says READS_DONE only when no transfer runs that it can learn about.
Contract == INSTANCE ReadContract WITH
    owed <- owed, phase <- creq,
    reading <- IF creq = "gone" THEN {}
               ELSE {xfer[b].src : b \in {c \in Bufs \ dead : xfer[c].st = "moving" /\ owner[xfer[c].src] = life}}
KeepsContract == Contract!ContractSpec

\* The memory a transfer may still write into belongs to its read, is kept for
\* it or is given up for good: a failed read and a teardown in the middle of one
\* never hand it back to the allocator.  Nor is memory allocated again that is
\* still registered, where the engine would refuse the next read as an overlap.
NoStrayWrite ==
    /\ \A b \in Bufs : xfer[b].st = "moving" =>
        \/ b \in dead \/ \E k \in kept : b \in k.bufs
        \/ \E p \in pending : \E u \in p.uuids : store[u] = b /\ xfer[b].src = u
    /\ FreeBufs \cap pinned = {}

\* What a node is given is stored and whole: an edge that shares the buffer of an
\* earlier read is not delivered before that read, and no buffer goes while an
\* edge that names it is not consumed.
DeliveredWhole ==
    \A d \in using : \A u \in d.edge : store[u] # None /\ xfer[store[u]] = [src |-> u, st |-> "whole"]

\* A request's drain waits for its own reads only, although the handle that
\* names them had other owners whose buffers may still be kept.
GateIsOwn ==
    HasInflightReads =>
        \E u \in Uuids : owner[u] = life /\
            \/ \E p \in pending : u \in p.uuids
            \/ \E k \in kept : \E b \in k.bufs : xfer[b].src = u

-----------------------------------------------------------------------------
(* Liveness: the consumer's loop turns and the engine answers it, the threads *)
(* of the pool start what is queued, a transfer ends, and a read's deadline   *)
(* passes.                                                                    *)

Fairness ==
    /\ WF_vars(CheckReady({})) /\ WF_vars(ReadsDone)
    /\ \A f \in Reads : WF_vars(Submit(f)) /\ WF_vars(ReadTimesOut(f))
    /\ \A b \in Bufs : WF_vars(TransferEnds(b))
FairSpec == Spec /\ Fairness

\* A drain ends, also when reads fail, time out and leave transfers behind.
DrainEnds == creq = "draining" ~> creq # "draining"

\* Buffers kept for a read that failed or was torn down are given back.
KeptAreReturned == \A b \in Bufs : (\E k \in kept : b \in k.bufs) ~> (\A k \in kept : b \notin k.bufs)

=============================================================================
