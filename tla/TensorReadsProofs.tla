-------------------------- MODULE TensorReadsProofs --------------------------
(***************************************************************************)
(* Proofs about the consumer of tensors: for every set of tensors and      *)
(* buffers, every kind of failure and every number of requests, no         *)
(* transfer writes into memory that was handed back, what a node is given  *)
(* is whole, a drain waits for its own reads, and the manager keeps the    *)
(* contract that the producer counts on (ReadContract).                    *)
(*                                                                         *)
(* They rest on who has a buffer.  A buffer is stored under one tensor, or *)
(* kept for one read, or given up (StoreOK, KeptOK), and the transfers of  *)
(* a future go into the buffers of the one read that waits for it or is    *)
(* kept for it (ReadOK, KeptOK, Progress, Held).  A stored buffer is       *)
(* being read into by one pending read or is whole (SharedOK), and while   *)
(* no read has failed its references count the edges that name it          *)
(* (RefsOK), so it is not freed under a read or an edge.                   *)
(***************************************************************************)
EXTENDS TensorReads, FiniteSetTheorems, TLAPS

\* Reads and delivered edges are numbered as their edges came.
Numbered ==
    /\ \A p \in pending : p.no \in 1..sent
    /\ \A d \in using : d.no \in 1..sent
    /\ \A p, q \in pending : p.no = q.no => p = q
    /\ \A d, e \in using : d.no = e.no => d = e
    /\ \A p \in pending, d \in using : p.no # d.no

\* A buffer is stored under one tensor, and none that was given up is.
StoreOK ==
    /\ \A u, v \in Uuids : store[u] = store[v] => u = v \/ store[u] = None
    /\ \A u \in Uuids : store[u] \notin dead

\* A pending read reads into the buffers stored under its own tensors.
ReadOK(p) ==
    /\ p.uuids \subseteq p.edge
    /\ p.fut = None <=> p.uuids = {}
    /\ \A u \in p.edge : owner[u] = life
    /\ \A u \in p.uuids : store[u] # None /\ xfer[store[u]].src = u
    /\ p.fut # None => fut[p.fut].st # "idle" /\ fut[p.fut].bufs = {store[u] : u \in p.uuids}
    /\ \A q \in pending \ {p} : p.uuids \cap q.uuids = {} /\ (p.fut = q.fut => p.fut = None)

\* What is kept of a read is nobody else's, and a transfer into it is known of.  A read of
\* the request that has the handle was not acknowledged.
KeptOK(k) ==
    /\ k.bufs # {} /\ k.running \subseteq k.bufs /\ k.bufs \cap dead = {}
    /\ \A u \in Uuids : store[u] \notin k.bufs
    /\ \A b \in k.bufs : \E u \in Uuids : xfer[b].src = u /\ owner[u] # 0
    /\ \A j \in kept \ {k} : j.bufs \cap k.bufs = {} /\ (j.fut = k.fut => k.fut = None)
    /\ k.fut = None => \A b \in k.bufs : xfer[b].st = "moving" => b \in k.running
    /\ k.fut # None => /\ fut[k.fut].st # "idle" /\ fut[k.fut].bufs = k.bufs
                       /\ \A p \in pending : p.fut # k.fut
    /\ k.own => /\ creq # "gone"
                /\ \A b \in k.bufs : \E u \in Uuids :
                     /\ xfer[b].src = u /\ owner[u] = life
                     /\ Cardinality(Naming(pending, u)) < owed[u]

\* What a future says of the transfers of its read.
Progress(f) ==
    /\ fut[f].running \subseteq fut[f].bufs /\ fut[f].unknown \subseteq fut[f].bufs
    /\ fut[f].st \in {"queued", "refused"} =>
          /\ fut[f].running = {} /\ fut[f].unknown = {}
          /\ \A b \in fut[f].bufs : xfer[b].st # "moving"
    /\ fut[f].st \in {"running", "ok"} =>
          fut[f].unknown = {} /\ \A b \in fut[f].bufs \ fut[f].running : xfer[b].st = "whole"
    /\ fut[f].st = "ok" => fut[f].running = {}
    /\ fut[f].st = "failed" =>
          \A b \in fut[f].bufs : xfer[b].st = "moving" => b \in fut[f].running \cup fut[f].unknown

\* A future is waited for, or kept.
Held(f) == fut[f].st # "idle" => (\E p \in pending : p.fut = f) \/ (\E k \in kept : k.fut = f)

\* A buffer that a transfer writes into is somebody's.
Placed(b) ==
    \/ b \in dead \/ \E k \in kept : b \in k.bufs
    \/ \E p \in pending : \E u \in p.uuids : store[u] = b
TransferOK(b) ==
    xfer[b].st = "moving" => Placed(b) /\ \E u \in Uuids : xfer[b].src = u /\ owner[u] # 0

\* A stored tensor is being read or whole.  One that a node uses is whole, and while no
\* read of the request has failed, an edge's tensors are stored and their reads no later.
BeingRead(u) == \E p \in pending : u \in p.uuids
SharedOK ==
    /\ \A u \in Uuids : store[u] # None /\ ~BeingRead(u) => xfer[store[u]] = [src |-> u, st |-> "whole"]
    /\ \A d \in using : \A u \in d.edge : store[u] # None /\ ~BeingRead(u)
    /\ ~failed => \A q \in pending : \A u \in q.edge :
          store[u] # None /\ \A p \in pending : u \in p.uuids => p.no <= q.no

\* The edges that count on tensor u: their nodes use it, or they wait to be delivered.
Uses(u) == {d.no : d \in {x \in using : u \in x.edge}}
Claims(u) == Uses(u) \cup {p.no : p \in Naming(pending, u)}
RefsOK(u) ==
    /\ Cardinality(Uses(u)) <= ref[u]
    /\ ~failed => /\ Cardinality(Claims(u)) <= ref[u]
                  /\ store[u] # None /\ u \notin seen => Cardinality(Claims(u)) < ref[u]

OwedOK(u) == Cardinality(Naming(pending, u)) <= owed[u] /\ owner[u] <= life

\* After READS_DONE nothing is read; a request that is gone has nothing left in the store.
EndOK ==
    /\ creq = "acked" => ~HasInflightReads
    /\ creq = "gone" => /\ pending = {} /\ using = {} /\ seen = {} /\ ~failed
                        /\ \A u \in Uuids : store[u] = None
    /\ pinned \subseteq Used

\* The inductive invariant.
Inv ==
    /\ TypeOK /\ Numbered /\ StoreOK /\ SharedOK /\ EndOK
    /\ \A p \in pending : ReadOK(p)
    /\ \A k \in kept : KeptOK(k)
    /\ \A f \in Reads : Progress(f) /\ Held(f)
    /\ \A b \in Bufs : TransferOK(b)
    /\ \A u \in Uuids : RefsOK(u) /\ OwedOK(u)


-----------------------------------------------------------------------------
(* Who has a buffer *)

LEMMA Members ==
    ASSUME TypeOK
    PROVE  /\ \A p \in pending : /\ p.no \in 1..MaxEdges /\ p.edge \in Edges /\ p.edge \subseteq Uuids
                                 /\ p.uuids \subseteq Uuids /\ p.fut \in Reads \cup {None}
           /\ \A k \in kept : /\ k.bufs \subseteq Bufs /\ k.fut \in Reads \cup {None}
                              /\ k.own \in BOOLEAN /\ k.running \subseteq Bufs
           /\ \A d \in using : d.no \in 1..MaxEdges /\ d.edge \in Edges /\ d.edge \subseteq Uuids
           /\ \A f \in Reads : fut[f] \in Futures
           /\ \A f \in Reads : /\ fut[f].bufs \subseteq Bufs /\ fut[f].running \subseteq Bufs
                               /\ fut[f].unknown \subseteq Bufs
                               /\ fut[f].st \in {"idle", "queued", "running", "ok", "failed", "refused"}
           /\ \A b \in Bufs : /\ xfer[b] = [src |-> xfer[b].src, st |-> xfer[b].st]
                              /\ xfer[b].src \in Uuids \cup {None}
                              /\ xfer[b].st \in {"idle", "moving", "done", "error", "whole"}
           /\ \A u \in Uuids : store[u] \in Bufs \cup {None} /\ ref[u] \in Nat /\ owed[u] \in Nat
           /\ None \notin Bufs /\ None \notin Reads /\ MaxEdges \in Nat /\ MaxLives \in Nat
<1>1. /\ \A p \in pending : /\ p.no \in 1..MaxEdges /\ p.edge \in Edges /\ p.edge \subseteq Uuids
                            /\ p.uuids \subseteq Uuids /\ p.fut \in Reads \cup {None}
      /\ \A d \in using : d.no \in 1..MaxEdges /\ d.edge \in Edges /\ d.edge \subseteq Uuids
    BY DEF TypeOK, Edges, Handed
<1>2. \A k \in kept : /\ k.bufs \subseteq Bufs /\ k.fut \in Reads \cup {None}
                      /\ k.own \in BOOLEAN /\ k.running \subseteq Bufs
    BY DEF TypeOK
<1>3. \A f \in Reads : fut[f] \in Futures
    BY DEF TypeOK
<1>4. \A f \in Reads : /\ fut[f].bufs \subseteq Bufs /\ fut[f].running \subseteq Bufs
                       /\ fut[f].unknown \subseteq Bufs
                       /\ fut[f].st \in {"idle", "queued", "running", "ok", "failed", "refused"}
    BY <1>3 DEF Futures
<1>5. /\ \A b \in Bufs : /\ xfer[b] = [src |-> xfer[b].src, st |-> xfer[b].st]
                         /\ xfer[b].src \in Uuids \cup {None}
                         /\ xfer[b].st \in {"idle", "moving", "done", "error", "whole"}
      /\ \A u \in Uuids : store[u] \in Bufs \cup {None} /\ ref[u] \in Nat /\ owed[u] \in Nat
    BY DEF TypeOK
<1> QED
    BY <1>1, <1>2, <1>3, <1>4, <1>5, TensorReadsAssumption DEF Reads

\* The buffers of a future that is not idle are of no other future, of nothing else that is
\* kept, and of no tensor but those its read waits for.
LEMMA Apart ==
    ASSUME Inv, NEW f \in Reads, fut[f].st # "idle"
    PROVE  /\ \A g \in Reads : g # f /\ fut[g].st # "idle" => fut[f].bufs \cap fut[g].bufs = {}
           /\ \A k \in kept : k.fut # f => fut[f].bufs \cap k.bufs = {}
           /\ \A u \in Uuids : ~BeingRead(u) => store[u] \notin fut[f].bufs
           /\ \A b \in fut[f].bufs : Placed(b) /\ \E u \in Uuids : xfer[b].src = u /\ owner[u] # 0
<1> USE DEF Inv
<1>0. \A p \in pending : ReadOK(p)
    OBVIOUS
<1>1. \A k \in kept : KeptOK(k)
    OBVIOUS
<1>2. \A u \in Uuids : owner[u] # 0 \/ owner[u] # life
    BY DEF TypeOK
<1>3. CASE \E p \in pending : p.fut = f
    <2>1. PICK p \in pending : p.fut = f
        BY <1>3
    <2>2. /\ fut[f].bufs = {store[u] : u \in p.uuids} /\ p.uuids \subseteq p.edge
          /\ \A u \in p.uuids : u \in Uuids /\ store[u] \in Bufs /\ xfer[store[u]].src = u /\ owner[u] = life
        BY <1>0, <2>1, Members DEF ReadOK
    <2>3. ASSUME NEW g \in Reads, g # f, fut[g].st # "idle"
          PROVE  fut[f].bufs \cap fut[g].bufs = {}
        <3>1. CASE \E q \in pending : q.fut = g
            <4>1. PICK q \in pending : q.fut = g
                BY <3>1
            <4>2. fut[g].bufs = {store[u] : u \in q.uuids} /\ q.uuids \subseteq Uuids
                BY <1>0, <4>1, Members DEF ReadOK
            <4>3. p.uuids \cap q.uuids = {}
                BY <1>0, <2>1, <2>3, <4>1 DEF ReadOK
            <4> QED
                BY <2>2, <4>2, <4>3, Members DEF StoreOK
        <3>2. CASE \E k \in kept : k.fut = g
            BY <1>1, <2>2, <3>2, Members DEF KeptOK
        <3> QED
            BY <2>3, <3>1, <3>2 DEF Held
    <2>4. \A k \in kept : fut[f].bufs \cap k.bufs = {}
        BY <1>1, <2>2 DEF KeptOK
    <2>5. \A u \in Uuids : ~BeingRead(u) => store[u] \notin fut[f].bufs
        BY <2>1, <2>2, Members DEF StoreOK, BeingRead
    <2> QED
        BY <1>2, <2>1, <2>2, <2>3, <2>4, <2>5 DEF Placed
<1>4. CASE \E k \in kept : k.fut = f
    <2>1. PICK k \in kept : k.fut = f
        BY <1>4
    <2>2. fut[f].bufs = k.bufs /\ f # None
        BY <1>1, <2>1, Members DEF KeptOK
    <2>3. ASSUME NEW g \in Reads, g # f, fut[g].st # "idle"
          PROVE  fut[f].bufs \cap fut[g].bufs = {}
        <3>1. CASE \E q \in pending : q.fut = g
            <4>1. PICK q \in pending : q.fut = g
                BY <3>1
            <4>2. fut[g].bufs = {store[u] : u \in q.uuids} /\ q.uuids \subseteq Uuids
                BY <1>0, <4>1, Members DEF ReadOK
            <4> QED
                BY <1>1, <2>1, <2>2, <4>2 DEF KeptOK
        <3>2. CASE \E j \in kept : j.fut = g
            BY <1>1, <2>1, <2>2, <2>3, <3>2, Members DEF KeptOK
        <3> QED
            BY <2>3, <3>1, <3>2 DEF Held
    <2> QED
        BY <1>1, <2>1, <2>2, <2>3 DEF KeptOK, Placed
<1> QED
    BY <1>3, <1>4 DEF Held

LEMMA UsedHolds ==
    /\ dead \subseteq Used
    /\ \A u \in Uuids : store[u] \in Used
    /\ \A k \in kept : k.bufs \subseteq Used
    /\ \A b \in Used : b \in dead \/ (\E u \in Uuids : store[u] = b) \/ \E k \in kept : b \in k.bufs
    BY DEF Used

-----------------------------------------------------------------------------
(* The reader threads and the engine *)

\* A step that leaves the consumer alone, keeps what each future stands for and changes
\* transfers of the futures only, or ends one.
ReaderTurns ==
    /\ UNCHANGED <<consVars, histVars>>
    /\ fut' \in [Reads -> Futures] /\ xfer' \in [Bufs -> [src : Uuids \cup {None},
                                          st : {"idle", "moving", "done", "error", "whole"}]]
    /\ \A f \in Reads : /\ fut'[f].bufs = fut[f].bufs /\ (fut'[f].st = "idle" <=> fut[f].st = "idle")
                        /\ MayBeReading(f)' => MayBeReading(f)
                        /\ Progress(f)'
    /\ \A b \in Bufs : xfer'[b].src = xfer[b].src
    /\ \A b \in Bufs : xfer'[b].st # xfer[b].st =>
          \/ xfer[b].st = "moving" /\ xfer'[b].st # "moving"
          \/ \E f \in Reads : fut[f].st # "idle" /\ b \in fut[f].bufs

LEMMA ReaderKeeps ==
    ASSUME Inv, ReaderTurns
    PROVE  Inv'
<1> USE DEF Inv
<1>1. /\ UNCHANGED <<life, creq, store, ref, pending, kept, dead, pinned, seen, failed, using>>
      /\ UNCHANGED <<owner, owed, sent>>
      /\ UNCHANGED Used
    BY DEF ReaderTurns, consVars, histVars, storeVars, bufVars, Used
<1>2. TypeOK' /\ Numbered' /\ StoreOK'
    BY <1>1 DEF ReaderTurns, TypeOK, Numbered, StoreOK
<1>3. ASSUME NEW p \in pending
      PROVE  ReadOK(p)'
    <2>1. ReadOK(p) /\ p.fut \in Reads \cup {None} /\ p.uuids \subseteq Uuids
        BY Members
    <2>2. \A u \in p.uuids : store[u] \in Bufs
        BY <2>1, Members DEF ReadOK
    <2>3. \A u \in p.uuids : xfer'[store[u]].src = u
        BY <2>1, <2>2 DEF ReadOK, ReaderTurns
    <2>4. p.fut # None => fut'[p.fut].st # "idle" /\ fut'[p.fut].bufs = {store[u] : u \in p.uuids}
        BY <2>1 DEF ReadOK, ReaderTurns
    <2> QED
        BY <1>1, <2>1, <2>3, <2>4 DEF ReadOK
<1>4. ASSUME NEW k \in kept
      PROVE  KeptOK(k)'
    <2>1. KeptOK(k)
        OBVIOUS
    <2>2. ASSUME k.fut = None, NEW b \in k.bufs, xfer'[b].st = "moving"
          PROVE  b \in k.running
        <3>1. xfer[b].st = "moving"
            BY <2>1, <2>2, Apart, Members DEF ReaderTurns
        <3> QED
            BY <2>1, <2>2, <3>1 DEF KeptOK
    <2>3. \A u \in Uuids : Naming(pending', u) = Naming(pending, u)
        BY <1>1
    <2>4. UNCHANGED <<owner, life, owed, creq, store, dead, pending, kept>>
        BY <1>1
    <2>5. \A b \in k.bufs : xfer'[b].src = xfer[b].src
        BY Members DEF ReaderTurns
    <2>6. \A b \in k.bufs : \E u \in Uuids : xfer'[b].src = u /\ owner'[u] # 0
        BY <2>1, <2>4, <2>5 DEF KeptOK
    <2>7. k.own => /\ creq' # "gone"
                   /\ \A b \in k.bufs : \E u \in Uuids :
                         /\ xfer'[b].src = u /\ owner'[u] = life'
                         /\ Cardinality(Naming(pending', u)) < owed'[u]
        BY <2>1, <2>3, <2>4, <2>5 DEF KeptOK
    <2>8. k.fut # None => fut'[k.fut].st # "idle" /\ fut'[k.fut].bufs = k.bufs
        BY <2>1, Members DEF KeptOK, ReaderTurns
    <2> QED
        BY <2>1, <2>2, <2>4, <2>6, <2>7, <2>8 DEF KeptOK
<1>5. \A f \in Reads : Held(f)'
    BY <1>1 DEF ReaderTurns, Held
<1>6. ASSUME NEW b \in Bufs, xfer'[b].st = "moving"
      PROVE  Placed(b) /\ \E u \in Uuids : xfer'[b].src = u /\ owner'[u] # 0
    BY <1>1, <1>6, Apart DEF ReaderTurns, TransferOK
<1>7. SharedOK'
    <2>1. ASSUME NEW u \in Uuids, store[u] # None, ~BeingRead(u)
          PROVE  xfer'[store[u]] = [src |-> u, st |-> "whole"]
        <3>1. store[u] \in Bufs /\ xfer[store[u]] = [src |-> u, st |-> "whole"]
            BY <2>1, Members DEF SharedOK
        <3>2. \A f \in Reads : fut[f].st # "idle" => store[u] \notin fut[f].bufs
            BY <2>1, Apart
        <3>3. xfer'[store[u]].st = "whole" /\ xfer'[store[u]].src = u
            BY <3>1, <3>2 DEF ReaderTurns
        <3> QED
            BY <1>2, <3>1, <3>3 DEF TypeOK
    <2> QED
        BY <1>1, <2>1 DEF SharedOK, BeingRead
<1>8. \A u \in Uuids : RefsOK(u)' /\ OwedOK(u)'
    BY <1>1 DEF RefsOK, OwedOK, Claims, Uses, Naming
<1>9. HasInflightReads' => HasInflightReads
    BY <1>1, Members DEF ReaderTurns, HasInflightReads, MayBeReading
<1>10. EndOK'
    BY <1>1, <1>9 DEF EndOK
<1>11. \A b \in Bufs : TransferOK(b)'
    BY <1>1, <1>6 DEF TransferOK, Placed
<1> QED
    BY <1>1, <1>2, <1>3, <1>4, <1>5, <1>7, <1>8, <1>10, <1>11 DEF ReaderTurns

LEMMA SubmitTurns ==
    ASSUME Inv, NEW f \in Reads, Submit(f)
    PROVE  ReaderTurns
<1> USE DEF Inv
<1>1. /\ fut[f].st = "queued" /\ UNCHANGED <<consVars, histVars>>
      /\ fut[f].running = {} /\ fut[f].unknown = {} /\ fut[f].bufs \subseteq Bufs
      /\ \A b \in fut[f].bufs : xfer[b].st # "moving"
    BY Members DEF Submit, Progress
<1>2. \A g \in Reads : g # f /\ fut[g].st # "idle" => fut[f].bufs \cap fut[g].bufs = {}
    BY <1>1, Apart
<1>3. fut \in [Reads -> Futures]
    BY DEF TypeOK
<1>4. ASSUME NEW new \in Futures, new.bufs = fut[f].bufs, new.st \in {"running", "failed"},
             new.running \subseteq new.bufs, new.unknown \subseteq new.bufs,
             fut' = [fut EXCEPT ![f] = new],
             NEW M \in SUBSET fut[f].bufs,
             xfer' = [b \in Bufs |-> IF b \in M THEN [xfer[b] EXCEPT !.st = "moving"] ELSE xfer[b]],
             new.st = "running" => new.unknown = {} /\ new.running = new.bufs,
             new.st = "failed" => M \subseteq new.running \cup new.unknown
      PROVE  ReaderTurns
    <2>1. fut' \in [Reads -> Futures] /\ fut'[f] = new /\ \A g \in Reads \ {f} : fut'[g] = fut[g]
        BY <1>3, <1>4
    <2>2. \A b \in Bufs : /\ xfer'[b] = [src |-> xfer[b].src, st |-> xfer'[b].st]
                          /\ xfer'[b].st = IF b \in M THEN "moving" ELSE xfer[b].st
                          /\ xfer'[b] \in [src : Uuids \cup {None},
                                           st : {"idle", "moving", "done", "error", "whole"}]
        BY <1>4 DEF TypeOK
    <2>3. xfer' \in [Bufs -> [src : Uuids \cup {None}, st : {"idle", "moving", "done", "error", "whole"}]]
        BY <1>4, <2>2
    <2>4. Progress(f)'
        BY <1>1, <1>4, <2>1, <2>2 DEF Progress
    <2>5. ASSUME NEW g \in Reads \ {f}
          PROVE  Progress(g)'
        <3>1. Progress(g) /\ fut'[g] = fut[g] /\ fut[g].bufs \subseteq Bufs
            BY <2>1, Members
        <3>2. fut[g].st # "idle" => \A b \in fut[g].bufs : xfer'[b].st = xfer[b].st
            BY <1>2, <1>4, <2>2, <3>1
        <3> QED
            BY <3>1, <3>2 DEF Progress
    <2>6. \A g \in Reads : /\ fut'[g].bufs = fut[g].bufs /\ (fut'[g].st = "idle" <=> fut[g].st = "idle")
                           /\ MayBeReading(g)' => MayBeReading(g)
        BY <1>1, <1>4, <2>1 DEF MayBeReading
    <2>7. \A b \in Bufs : xfer'[b].st # xfer[b].st => b \in fut[f].bufs
        BY <2>2
    <2> QED
        BY <1>1, <2>1, <2>2, <2>3, <2>4, <2>5, <2>6, <2>7 DEF ReaderTurns
<1>5. CASE /\ fut' = [fut EXCEPT ![f].st = "running", ![f].running = fut[f].bufs]
           /\ xfer' = [b \in Bufs |-> IF b \in fut[f].bufs THEN [xfer[b] EXCEPT !.st = "moving"] ELSE xfer[b]]
    <2>1. PICK new : new = [fut[f] EXCEPT !.st = "running", !.running = fut[f].bufs]
        OBVIOUS
    <2>2. /\ new \in Futures /\ new.bufs = fut[f].bufs /\ new.st = "running"
          /\ new.running = new.bufs /\ new.unknown = {}
          /\ fut' = [fut EXCEPT ![f] = new]
        BY <1>1, <1>3, <1>5, <2>1 DEF Futures
    <2> QED
        BY <1>4, <1>5, <2>2
<1>6. ASSUME NEW b \in fut[f].bufs, NEW S \in SUBSET (fut[f].bufs \ {b}), NEW posted \in BOOLEAN,
             fut' = [fut EXCEPT ![f] = [@ EXCEPT !.st = "failed", !.running = S, !.unknown = {b}]],
             xfer' = [c \in Bufs |-> IF c \in S \/ (c = b /\ posted)
                        THEN [xfer[c] EXCEPT !.st = "moving"] ELSE xfer[c]]
      PROVE  ReaderTurns
    <2>1. PICK new : new = [fut[f] EXCEPT !.st = "failed", !.running = S, !.unknown = {b}]
        OBVIOUS
    <2>2. /\ new \in Futures /\ new.bufs = fut[f].bufs /\ new.st = "failed"
          /\ new.running = S /\ new.unknown = {b}
          /\ fut' = [fut EXCEPT ![f] = new]
        BY <1>1, <1>3, <1>6, <2>1 DEF Futures
    <2>3. PICK M : M = IF posted THEN S \cup {b} ELSE S
        OBVIOUS
    <2>4. /\ M \in SUBSET fut[f].bufs /\ M \subseteq new.running \cup new.unknown
          /\ \A c : c \in M <=> c \in S \/ (c = b /\ posted)
        BY <2>2, <2>3
    <2>5. xfer' = [c \in Bufs |-> IF c \in M THEN [xfer[c] EXCEPT !.st = "moving"] ELSE xfer[c]]
        BY <1>6, <2>4
    <2>6. new.running \subseteq new.bufs /\ new.unknown \subseteq new.bufs
        BY <2>2
    <2> QED
        BY <1>4, <2>2, <2>4, <2>5, <2>6
<1>7. \/ /\ fut' = [fut EXCEPT ![f].st = "running", ![f].running = fut[f].bufs]
         /\ xfer' = [b \in Bufs |-> IF b \in fut[f].bufs THEN [xfer[b] EXCEPT !.st = "moving"] ELSE xfer[b]]
      \/ \E b \in fut[f].bufs : \E S \in SUBSET (fut[f].bufs \ {b}), posted \in BOOLEAN :
            /\ fut' = [fut EXCEPT ![f] = [@ EXCEPT !.st = "failed", !.running = S, !.unknown = {b}]]
            /\ xfer' = [c \in Bufs |-> IF c \in S \/ (c = b /\ posted)
                          THEN [xfer[c] EXCEPT !.st = "moving"] ELSE xfer[c]]
    BY Zenon DEF Submit
<1>8. CASE \E b \in fut[f].bufs : \E S \in SUBSET (fut[f].bufs \ {b}), posted \in BOOLEAN :
            /\ fut' = [fut EXCEPT ![f] = [@ EXCEPT !.st = "failed", !.running = S, !.unknown = {b}]]
            /\ xfer' = [c \in Bufs |-> IF c \in S \/ (c = b /\ posted)
                          THEN [xfer[c] EXCEPT !.st = "moving"] ELSE xfer[c]]
    <2>1. PICK b \in fut[f].bufs : \E S \in SUBSET (fut[f].bufs \ {b}), posted \in BOOLEAN :
            /\ fut' = [fut EXCEPT ![f] = [@ EXCEPT !.st = "failed", !.running = S, !.unknown = {b}]]
            /\ xfer' = [c \in Bufs |-> IF c \in S \/ (c = b /\ posted)
                          THEN [xfer[c] EXCEPT !.st = "moving"] ELSE xfer[c]]
        BY <1>8
    <2>2. PICK S \in SUBSET (fut[f].bufs \ {b}), posted \in BOOLEAN :
            /\ fut' = [fut EXCEPT ![f] = [@ EXCEPT !.st = "failed", !.running = S, !.unknown = {b}]]
            /\ xfer' = [c \in Bufs |-> IF c \in S \/ (c = b /\ posted)
                          THEN [xfer[c] EXCEPT !.st = "moving"] ELSE xfer[c]]
        BY <2>1
    <2> QED
        BY <1>6, <2>2
<1> QED
    BY <1>5, <1>7, <1>8, Zenon

LEMMA PollTurns ==
    ASSUME Inv, NEW f \in Reads, NEW b \in Bufs, Poll(f, b)
    PROVE  ReaderTurns
<1> USE DEF Inv
<1>1. /\ fut[f].st = "running" /\ b \in fut[f].running /\ b \in fut[f].bufs
      /\ UNCHANGED <<consVars, histVars>> /\ fut[f].unknown = {}
      /\ \A c \in fut[f].bufs \ fut[f].running : xfer[c].st = "whole"
      /\ fut[f].running \subseteq fut[f].bufs /\ fut[f].bufs \subseteq Bufs
    BY Members DEF Poll, Progress
<1>2. \A g \in Reads : g # f /\ fut[g].st # "idle" => b \notin fut[g].bufs
    BY <1>1, Apart
<1>3. fut \in [Reads -> Futures] /\ xfer \in [Bufs -> [src : Uuids \cup {None},
                                       st : {"idle", "moving", "done", "error", "whole"}]]
    BY DEF TypeOK
<1>4. ASSUME NEW new \in Futures, new.bufs = fut[f].bufs, fut' = [fut EXCEPT ![f] = new],
             new.st \in {"running", "ok", "failed"}, new.running \subseteq new.bufs,
             new.unknown \subseteq new.bufs, new.running \cup {b} = fut[f].running,
             NEW s \in {"idle", "moving", "done", "error", "whole"},
             xfer' = [xfer EXCEPT ![b].st = s],
             new.st # "failed" => new.unknown = {} /\ (b \notin new.running => s = "whole"),
             new.st = "ok" => new.running = {},
             new.st = "failed" => b \in new.running \cup new.unknown \/ s # "moving"
      PROVE  ReaderTurns
    <2>1. fut' \in [Reads -> Futures] /\ fut'[f] = new /\ \A g \in Reads \ {f} : fut'[g] = fut[g]
        BY <1>3, <1>4
    <2>2. /\ \A c \in Bufs : xfer'[c].src = xfer[c].src
          /\ \A c \in Bufs \ {b} : xfer'[c].st = xfer[c].st
          /\ xfer'[b].st = s
        BY <1>3, <1>4
    <2>3. xfer' \in [Bufs -> [src : Uuids \cup {None}, st : {"idle", "moving", "done", "error", "whole"}]]
        BY <1>3, <1>4
    <2>4. Progress(f)'
        BY <1>1, <1>4, <2>1, <2>2 DEF Progress
    <2>5. ASSUME NEW g \in Reads \ {f}
          PROVE  Progress(g)'
        <3>1. Progress(g) /\ fut'[g] = fut[g] /\ fut[g].bufs \subseteq Bufs
            BY <2>1, Members
        <3>2. fut[g].st # "idle" => \A c \in fut[g].bufs : xfer'[c].st = xfer[c].st
            BY <1>2, <1>4, <2>2, <3>1
        <3> QED
            BY <3>1, <3>2 DEF Progress
    <2>6. \A g \in Reads : /\ fut'[g].bufs = fut[g].bufs /\ (fut'[g].st = "idle" <=> fut[g].st = "idle")
                           /\ MayBeReading(g)' => MayBeReading(g)
        BY <1>1, <1>4, <2>1 DEF MayBeReading
    <2> QED
        BY <1>1, <2>1, <2>2, <2>3, <2>4, <2>5, <2>6 DEF ReaderTurns
<1>5. ASSUME NEW st \in {"running", "ok", "failed"}, NEW unknown \in {{}, {b}},
             Drop(f, b, st, unknown),
             NEW s \in {"idle", "moving", "done", "error", "whole"}, xfer' = [xfer EXCEPT ![b].st = s],
             st # "failed" => unknown = {} /\ s = "whole",
             st = "ok" => fut[f].running = {b},
             st = "failed" => unknown = {b} \/ s # "moving"
      PROVE  ReaderTurns
    <2>1. PICK new : new = [fut[f] EXCEPT !.st = st, !.running = @ \ {b}, !.unknown = unknown]
        OBVIOUS
    <2>2. /\ new \in Futures /\ new.bufs = fut[f].bufs /\ new.st = st
          /\ new.running = fut[f].running \ {b} /\ new.unknown = unknown
        BY <1>1, <1>3, <1>5, <2>1 DEF Futures
    <2>2a. fut' = [fut EXCEPT ![f] = new]
        BY <1>3, <1>5, <2>1 DEF Drop
    <2>3. /\ new.running \subseteq new.bufs /\ new.unknown \subseteq new.bufs
          /\ new.running \cup {b} = fut[f].running
          /\ new.st = "ok" => new.running = {}
          /\ new.st = "failed" => b \in new.running \cup new.unknown \/ s # "moving"
          /\ new.st # "failed" => new.unknown = {} /\ (b \notin new.running => s = "whole")
        BY <1>1, <1>5, <2>2
    <2> QED
        BY <1>4, <1>5, <2>2, <2>2a, <2>3
<1>6. CASE xfer[b].st = "error" /\ xfer' = [xfer EXCEPT ![b].st = "moving"] /\ UNCHANGED fut
    <2>1. /\ fut[f] \in Futures /\ fut' = [fut EXCEPT ![f] = fut[f]]
          /\ fut[f].running \cup {b} = fut[f].running
        BY <1>1, <1>3, <1>6
    <2> QED
        BY <1>1, <1>4, <1>6, <2>1
<1>7. CASE Drop(f, b, "failed", {b}) /\ UNCHANGED xfer
    <2>1. PICK s : s = xfer[b].st
        OBVIOUS
    <2>2. s \in {"idle", "moving", "done", "error", "whole"} /\ xfer' = [xfer EXCEPT ![b].st = s]
        BY <1>3, <1>7, <2>1
    <2> QED
        BY <1>5, <1>7, <2>2
<1>8. CASE xfer[b].st = "done" /\ xfer' = [xfer EXCEPT ![b].st = "whole"]
           /\ Drop(f, b, IF fut[f].running = {b} THEN "ok" ELSE "running", {})
    BY <1>5, <1>8
<1>9. CASE Drop(f, b, "failed", {}) /\ xfer' = [xfer EXCEPT ![b].st = "idle"]
    BY <1>5, <1>9
<1>10. CASE Drop(f, b, "failed", {b}) /\ \E s \in {"idle", "moving"} : xfer' = [xfer EXCEPT ![b].st = s]
    BY <1>5, <1>10
<1> QED
    BY <1>6, <1>7, <1>8, <1>9, <1>10 DEF Poll

LEMMA TimeOutTurns ==
    ASSUME Inv, NEW f \in Reads, ReadTimesOut(f)
    PROVE  ReaderTurns
<1> USE DEF Inv
<1>1. PICK new : new = [fut[f] EXCEPT !.st = "failed"]
    OBVIOUS
<1>2. /\ fut[f].st = "running" /\ UNCHANGED <<xfer, consVars, histVars>>
      /\ fut \in [Reads -> Futures] /\ fut' = [fut EXCEPT ![f] = new]
      /\ new \in Futures /\ new.bufs = fut[f].bufs /\ new.st = "failed"
      /\ new.running = fut[f].running /\ new.unknown = fut[f].unknown
    BY <1>1 DEF ReadTimesOut, TypeOK, Futures
<1>3. fut' \in [Reads -> Futures] /\ fut'[f] = new /\ \A g \in Reads \ {f} : fut'[g] = fut[g]
    BY <1>2
<1>4. Progress(f)'
    BY <1>2, <1>3 DEF Progress
<1>5. \A g \in Reads \ {f} : Progress(g)'
    BY <1>2, <1>3 DEF Progress
<1> QED
    BY <1>2, <1>3, <1>4, <1>5 DEF ReaderTurns, MayBeReading, TypeOK

LEMMA TransferTurns ==
    ASSUME Inv, NEW b \in Bufs, TransferEnds(b)
    PROVE  ReaderTurns
<1> USE DEF Inv
<1>1. PICK s \in {"done", "error"} : xfer' = [xfer EXCEPT ![b].st = s]
    BY DEF TransferEnds
<1>2. /\ xfer[b].st = "moving" /\ UNCHANGED <<fut, consVars, histVars>>
      /\ xfer \in [Bufs -> [src : Uuids \cup {None}, st : {"idle", "moving", "done", "error", "whole"}]]
    BY DEF TransferEnds, TypeOK
<1>3. /\ xfer' \in [Bufs -> [src : Uuids \cup {None}, st : {"idle", "moving", "done", "error", "whole"}]]
      /\ \A c \in Bufs : xfer'[c].src = xfer[c].src
      /\ \A c \in Bufs \ {b} : xfer'[c].st = xfer[c].st
      /\ xfer'[b].st = s
    BY <1>1, <1>2
<1>4. ASSUME NEW f \in Reads
      PROVE  Progress(f)'
    <2>1. Progress(f) /\ fut[f].bufs \subseteq Bufs /\ fut' = fut
        BY <1>2, Members
    <2>2. \A c \in fut[f].bufs : xfer'[c].st \in {"moving", "whole"} => xfer'[c].st = xfer[c].st
        BY <1>2, <1>3, <2>1
    <2>3. \A c \in fut[f].bufs : xfer[c].st = "whole" => xfer'[c].st = "whole"
        BY <1>2, <1>3, <2>1
    <2> QED
        BY <2>1, <2>2, <2>3 DEF Progress
<1> QED
    BY <1>2, <1>3, <1>4 DEF ReaderTurns, MayBeReading, TypeOK

-----------------------------------------------------------------------------
(* Counting *)

LEMMA Counted ==
    ASSUME Inv, NEW P \in SUBSET pending, NEW u \in Uuids
    PROVE  /\ IsFiniteSet(P) /\ IsFiniteSet(Naming(P, u)) /\ Cardinality(Naming(P, u)) \in Nat
           /\ Naming(P, u) \subseteq Naming(pending, u)
           /\ Cardinality(Naming(P, u)) <= Cardinality(Naming(pending, u))
           /\ Cardinality(Naming(P, u)) <= owed[u]
<1> USE DEF Inv
<1>1. PICK g : g = [p \in pending |-> p.no]
    OBVIOUS
<1>2. g \in Injection(pending, 1..MaxEdges)
    BY <1>1, Members DEF Numbered, Injection, IsInjective
<1>3. IsFiniteSet(1..MaxEdges)
    BY FS_Interval, Members
<1>4. IsFiniteSet(pending)
    BY <1>2, <1>3, FS_Injection
<1>5. /\ Naming(P, u) \subseteq Naming(pending, u) /\ Naming(pending, u) \subseteq pending
    BY DEF Naming
<1>6. /\ IsFiniteSet(P) /\ IsFiniteSet(Naming(pending, u)) /\ IsFiniteSet(Naming(P, u))
      /\ Cardinality(Naming(P, u)) <= Cardinality(Naming(pending, u))
    BY <1>4, <1>5, FS_Subset
<1>7. Cardinality(Naming(P, u)) \in Nat /\ Cardinality(Naming(pending, u)) \in Nat
    BY <1>6, FS_CardinalityType
<1>8. OwedOK(u) /\ owed[u] \in Nat
    BY Members
<1> QED
    BY <1>5, <1>6, <1>7, <1>8 DEF OwedOK

LEMMA ClaimsCounted ==
    ASSUME Inv, NEW u \in Uuids
    PROVE  /\ IsFiniteSet(Uses(u)) /\ IsFiniteSet(Claims(u)) /\ Uses(u) \subseteq Claims(u)
           /\ Cardinality(Uses(u)) \in Nat /\ Cardinality(Claims(u)) \in Nat
           /\ Claims(u) \subseteq 1..sent
<1> USE DEF Inv
<1>1. Uses(u) \subseteq Claims(u) /\ Claims(u) \subseteq 1..sent
    BY DEF Uses, Claims, Naming, Numbered
<1>2. IsFiniteSet(1..sent)
    BY FS_Interval, Members DEF TypeOK
<1>3. IsFiniteSet(Claims(u)) /\ IsFiniteSet(Uses(u))
    BY <1>1, <1>2, FS_Subset
<1> QED
    BY <1>1, <1>3, FS_CardinalityType

-----------------------------------------------------------------------------
(* The end of a request *)

\* Of the consumer's state only the phase changes.
LEMMA PhaseKeeps ==
    ASSUME Inv, UNCHANGED <<life, storeVars, pending, bufVars, seen, failed, using, readVars, histVars>>,
           creq' \in {"live", "draining", "acked"}, creq # "gone",
           creq' = "acked" => ~HasInflightReads
    PROVE  Inv'
<1> USE DEF Inv
<1>1. /\ UNCHANGED <<life, store, ref, pending, kept, dead, pinned, seen, failed, using>>
      /\ UNCHANGED <<owner, owed, sent, fut, xfer>>
    BY DEF histVars, storeVars, bufVars, readVars
<1>2. TypeOK' /\ Numbered' /\ StoreOK' /\ SharedOK'
    BY <1>1 DEF TypeOK, Numbered, StoreOK, SharedOK, BeingRead
<1>3. \A p \in pending : ReadOK(p)'
    BY <1>1 DEF ReadOK
<1>4. ASSUME NEW u \in Uuids
      PROVE  /\ Naming(pending', u) = Naming(pending, u) /\ UNCHANGED Uses(u) /\ UNCHANGED Claims(u)
             /\ UNCHANGED <<ref[u], owed[u], owner[u], store[u]>>
    BY <1>1 DEF Naming, Uses, Claims
<1>4a. \A k \in kept : KeptOK(k)'
    BY <1>1, <1>4 DEF KeptOK
<1>5. \A f \in Reads : Progress(f)' /\ Held(f)'
    BY <1>1 DEF Progress, Held
<1>6. \A b \in Bufs : TransferOK(b)'
    BY <1>1 DEF TransferOK, Placed
<1>7. ASSUME NEW u \in Uuids
      PROVE  RefsOK(u)' /\ OwedOK(u)'
    <2>1. RefsOK(u) /\ OwedOK(u)
        OBVIOUS
    <2> QED
        BY <1>1, <1>4, <2>1 DEF RefsOK, OwedOK
<1>8. EndOK'
    BY <1>1 DEF EndOK, HasInflightReads, MayBeReading, Used
<1> QED
    BY <1>1, <1>2, <1>3, <1>4a, <1>5, <1>6, <1>7, <1>8

LEMMA ReuseKeeps ==
    ASSUME Inv, ReuseHandle
    PROVE  Inv'
<1> USE DEF Inv
<1>1. /\ UNCHANGED <<store, ref, pending, kept, dead, pinned, seen, failed, using>>
      /\ UNCHANGED <<owner, owed, sent, fut, xfer>>
      /\ life' = life + 1 /\ life < MaxLives /\ creq' = "live" /\ creq = "gone"
      /\ pending = {} /\ using = {} /\ ~failed /\ \A u \in Uuids : store[u] = None
      /\ \A k \in kept : ~k.own
    BY DEF ReuseHandle, histVars, storeVars, bufVars, readVars, EndOK, KeptOK
<1>2. TypeOK' /\ Numbered' /\ StoreOK' /\ SharedOK'
    BY <1>1, Members DEF TypeOK, Numbered, StoreOK, SharedOK
<1>3. \A k \in kept : KeptOK(k)'
    BY <1>1 DEF KeptOK
<1>4. \A f \in Reads : Progress(f)' /\ Held(f)'
    BY <1>1 DEF Progress, Held
<1>5. \A b \in Bufs : TransferOK(b)'
    BY <1>1 DEF TransferOK, Placed
<1>6. \A u \in Uuids : RefsOK(u)' /\ OwedOK(u)'
    BY <1>1, Members DEF RefsOK, OwedOK, Claims, Uses, Naming, TypeOK
<1>7. EndOK'
    BY <1>1 DEF EndOK, Used
<1> QED
    BY <1>1, <1>2, <1>3, <1>4, <1>5, <1>6, <1>7

-----------------------------------------------------------------------------
(* A read starts *)

LEMMA StartKeeps ==
    ASSUME Inv, NEW e \in Edges, StartRead(e)
    PROVE  Inv'
<1> USE DEF Inv
<1>0. /\ \A p \in pending : ReadOK(p)
      /\ \A k \in kept : KeptOK(k)
      /\ \A f \in Reads : Progress(f) /\ Held(f)
      /\ \A b \in Bufs : TransferOK(b)
      /\ \A u \in Uuids : RefsOK(u) /\ OwedOK(u)
    OBVIOUS
<1>1. PICK new : new = {u \in e : store[u] = None}
    OBVIOUS
<1>2. PICK f \in Reads : f = (CHOOSE i \in Reads : fut[i].st = "idle") /\ fut[f].st = "idle"
    BY DEF StartRead
<1>3. PICK np : np = [no |-> sent', edge |-> e, uuids |-> new, fut |-> IF new = {} THEN None ELSE f]
    OBVIOUS
<1>4. PICK buf \in [new -> FreeBufs], R \in SUBSET FreeBufs : ReadInto(f, new, buf, R)
    BY <1>1, <1>2 DEF StartRead
<1>5. PICK bufs : bufs = {buf[u] : u \in new}
    OBVIOUS
<1>6. PICK nf : nf = [NoFuture EXCEPT !.bufs = bufs, !.st = IF R # bufs THEN "refused" ELSE "queued"]
    OBVIOUS
<1>7. /\ creq \in {"live", "draining"} /\ sent < MaxEdges /\ sent' = sent + 1
      /\ \A u \in e : owner[u] \in {0, life}
      /\ owner' = [u \in Uuids |-> IF u \in e THEN life ELSE owner[u]]
      /\ owed' = [u \in Uuids |-> IF u \in e THEN owed[u] + 1 ELSE owed[u]]
      /\ ref' = [u \in Uuids |-> IF u \in new THEN 2 ELSE IF u \in e THEN ref[u] + 1 ELSE ref[u]]
      /\ pending' = pending \cup {np}
      /\ UNCHANGED <<life, creq, kept, dead, seen, failed, using>>
    BY <1>1, <1>2, <1>3 DEF StartRead, Takes
<1>8. /\ new \subseteq e /\ e \subseteq Uuids /\ e # {} /\ new \subseteq Uuids
      /\ \A u \in new : store[u] = None
      /\ bufs \subseteq FreeBufs /\ FreeBufs \subseteq Bufs /\ R \subseteq bufs
      /\ \A u \in new : buf[u] \in bufs
      /\ \A b \in bufs : \E u \in new : buf[u] = b
      /\ \A u, v \in new : buf[u] = buf[v] => u = v
      /\ pinned' = pinned \cup R
    BY <1>1, <1>4, <1>5 DEF Edges, FreeBufs, ReadInto
<1>9. /\ \A b \in bufs : b \notin dead /\ (\A u \in Uuids : store[u] # b) /\ \A k \in kept : b \notin k.bufs
      /\ \A b \in bufs : b \in Bufs /\ b # None
    <2>1. \A b \in bufs : b \in Bufs /\ b \notin Used /\ b # None
        BY <1>8, Members DEF FreeBufs
    <2> QED
        BY <2>1, UsedHolds
<1>10. /\ nf \in Futures /\ nf.bufs = bufs /\ nf.st \in {"refused", "queued"}
       /\ nf.running = {} /\ nf.unknown = {}
    BY <1>6, <1>8 DEF NoFuture, Futures
<1>11. /\ store' = [u \in Uuids |-> IF u \in new THEN buf[u] ELSE store[u]]
       /\ fut' = IF new = {} THEN fut ELSE [fut EXCEPT ![f] = nf]
    BY <1>4, <1>5, <1>6 DEF ReadInto
<1>12. /\ \A b \in Bufs \ bufs : xfer'[b] = xfer[b]
       /\ \A b \in bufs : /\ xfer'[b].st = "idle" /\ xfer'[b].src \in new
                          /\ buf[xfer'[b].src] = b
                          /\ xfer'[b] \in [src : Uuids \cup {None}, st : {"idle", "moving", "done", "error", "whole"}]
       /\ xfer' = [b \in Bufs |-> xfer'[b]]
    <2>1. xfer' = [b \in Bufs |-> IF b \in bufs
                           THEN [src |-> CHOOSE u \in new : buf[u] = b, st |-> "idle"] ELSE xfer[b]]
        BY <1>4, <1>5 DEF ReadInto
    <2>2. \A b \in bufs : (CHOOSE u \in new : buf[u] = b) \in new /\ buf[CHOOSE u \in new : buf[u] = b] = b
        BY <1>8
    <2> QED
        BY <1>8, <2>1, <2>2
<1>13. \A u \in new : xfer'[buf[u]].src = u
    BY <1>8, <1>12
<1>14. /\ np.no = sent + 1 /\ np.edge = e /\ np.uuids = new
       /\ np.fut = (IF new = {} THEN None ELSE f)
       /\ np \notin pending /\ \A p \in pending : p.no < np.no
    BY <1>3, <1>7, Members DEF Numbered, TypeOK
<1>15. /\ fut' \in [Reads -> Futures] /\ \A g \in Reads \ {f} : fut'[g] = fut[g]
       /\ new = {} => fut' = fut
       /\ new # {} => fut'[f] = nf
    BY <1>10, <1>11 DEF TypeOK
<1>16. /\ \A u \in new : store'[u] = buf[u]
       /\ \A u \in Uuids \ new : store'[u] = store[u]
       /\ \A u \in Uuids : store[u] # None => u \notin new
       /\ store' \in [Uuids -> Bufs \cup {None}]
    BY <1>8, <1>11 DEF TypeOK
<1>17. life # 0 /\ life \in Nat /\ sent \in Nat
    BY DEF TypeOK
<1> HIDE DEF Inv
<1>18. TypeOK'
    <2>1. np \in [no : 1..MaxEdges, edge : Edges, uuids : SUBSET Uuids, fut : Reads \cup {None}]
        BY <1>3, <1>7, <1>8, <1>2, Members DEF TypeOK, Inv
    <2>2. xfer' \in [Bufs -> [src : Uuids \cup {None}, st : {"idle", "moving", "done", "error", "whole"}]]
        BY <1>12 DEF TypeOK, Inv
    <2>3. owner' \in [Uuids -> 0..MaxLives] /\ owed' \in [Uuids -> Nat] /\ ref' \in [Uuids -> Nat]
        BY <1>7 DEF TypeOK, Inv
    <2>4. pinned' \subseteq Bufs /\ sent' \in 0..MaxEdges
        BY <1>7, <1>8, Members DEF TypeOK, Inv
    <2> QED
        BY <1>7, <1>15, <1>16, <2>1, <2>2, <2>3, <2>4 DEF TypeOK, Inv
<1>19. Numbered'
    BY <1>7, <1>14, <1>17, Members DEF Numbered, Inv
<1>20. StoreOK'
    BY <1>7, <1>8, <1>9, <1>16 DEF StoreOK, Inv
<1>21. ASSUME NEW p \in pending
       PROVE  ReadOK(p)'
    <2>1. ReadOK(p) /\ p.uuids \subseteq Uuids /\ p.edge \subseteq Uuids /\ p.fut \in Reads \cup {None}
        BY <1>0, Members DEF Inv
    <2>2. \A u \in p.uuids : /\ u \in Uuids /\ store[u] # None /\ u \notin new /\ store'[u] = store[u]
                             /\ store[u] \in Bufs \ bufs /\ xfer'[store[u]].src = u
        BY <1>9, <1>12, <1>16, <2>1, Members DEF ReadOK, Inv
    <2>3. p.fut # None => p.fut # f /\ fut'[p.fut] = fut[p.fut]
        BY <1>2, <1>15, <2>1 DEF ReadOK
    <2>4. \A u \in p.edge : owner'[u] = life'
        BY <1>7, <2>1 DEF ReadOK
    <2>5. p.uuids \cap np.uuids = {} /\ (p.fut = np.fut => p.fut = None)
        BY <1>2, <1>14, <2>2, <2>3
    <2>6. \A q \in pending' \ {p} : p.uuids \cap q.uuids = {} /\ (p.fut = q.fut => p.fut = None)
        BY <1>7, <2>1, <2>5 DEF ReadOK
    <2>7. p.fut # None => fut'[p.fut].st # "idle" /\ fut'[p.fut].bufs = {store'[u] : u \in p.uuids}
        BY <2>1, <2>2, <2>3 DEF ReadOK
    <2> QED
        BY <2>1, <2>2, <2>4, <2>6, <2>7 DEF ReadOK
<1>22. ReadOK(np)'
    <2>1. \A p \in pending : p.uuids \cap new = {} /\ (p.fut # None => p.fut # f)
        BY <1>0, <1>2, <1>8, Members DEF ReadOK, Inv
    <2>2. np.uuids \subseteq np.edge /\ (np.fut = None <=> np.uuids = {})
        BY <1>2, <1>8, <1>14, Members DEF Inv
    <2>3. \A u \in np.edge : owner'[u] = life'
        BY <1>7, <1>8, <1>14
    <2>4. \A u \in np.uuids : store'[u] # None /\ xfer'[store'[u]].src = u
        BY <1>8, <1>9, <1>13, <1>14, <1>16
    <2>5. np.fut # None => fut'[np.fut].st # "idle" /\ fut'[np.fut].bufs = {store'[u] : u \in np.uuids}
        BY <1>5, <1>10, <1>14, <1>15, <1>16
    <2>6. \A q \in pending' \ {np} : np.uuids \cap q.uuids = {} /\ (np.fut = q.fut => np.fut = None)
        BY <1>7, <1>14, <2>1
    <2> QED
        BY <2>2, <2>3, <2>4, <2>5, <2>6 DEF ReadOK
<1>23. \A u \in Uuids :
         Naming(pending', u) = IF u \in e THEN Naming(pending, u) \cup {np} ELSE Naming(pending, u)
    BY <1>7, <1>14 DEF Naming
<1>24. \A u \in Uuids : Cardinality(Naming(pending', u)) =
         IF u \in e THEN Cardinality(Naming(pending, u)) + 1 ELSE Cardinality(Naming(pending, u))
    BY <1>14, <1>23, Counted, FS_AddElement DEF Naming
<1>24a. ASSUME NEW u \in Uuids
        PROVE  /\ owed'[u] = IF u \in e THEN owed[u] + 1 ELSE owed[u]
               /\ Cardinality(Naming(pending', u)) < owed'[u]
                    <=> Cardinality(Naming(pending, u)) < owed[u]
               /\ Cardinality(Naming(pending', u)) <= owed'[u]
                    <=> Cardinality(Naming(pending, u)) <= owed[u]
    <2>1. owed'[u] = IF u \in e THEN owed[u] + 1 ELSE owed[u]
        BY <1>7
    <2>2. owed[u] \in Nat /\ Cardinality(Naming(pending, u)) \in Nat
        BY Counted, Members DEF Inv
    <2> QED
        BY <1>24, <2>1, <2>2
<1>25. ASSUME NEW k \in kept
       PROVE  KeptOK(k)'
    <2>1. KeptOK(k) /\ k.bufs \subseteq Bufs /\ k.fut \in Reads \cup {None}
        BY <1>0, Members DEF Inv
    <2>2. \A b \in k.bufs : xfer'[b] = xfer[b] /\ b \notin bufs
        BY <1>9, <1>12, <2>1
    <2>3. k.fut # None => k.fut # f /\ fut'[k.fut] = fut[k.fut]
        BY <1>2, <1>15, <2>1 DEF KeptOK
    <2>4. k.fut # None => \A p \in pending' : p.fut # k.fut
        BY <1>7, <1>14, <2>1, <2>3 DEF KeptOK
    <2>5. \A u \in Uuids : store'[u] \notin k.bufs
        BY <1>8, <1>16, <2>1, <2>2 DEF KeptOK
    <2>6. \A u \in Uuids : owner[u] # 0 => owner'[u] # 0
        BY <1>7, <1>17
    <2>7. ASSUME k.own, NEW b \in k.bufs
          PROVE  \E u \in Uuids : /\ xfer'[b].src = u /\ owner'[u] = life'
                                  /\ Cardinality(Naming(pending', u)) < owed'[u]
        <3>1. PICK u \in Uuids : /\ xfer[b].src = u /\ owner[u] = life
                                 /\ Cardinality(Naming(pending, u)) < owed[u]
            BY <2>1, <2>7 DEF KeptOK
        <3>2. Cardinality(Naming(pending, u)) \in Nat /\ owed[u] \in Nat
            BY Counted, Members DEF Inv
        <3>3. Cardinality(Naming(pending', u)) < owed'[u]
            BY <1>24a, <3>1
        <3>4. owner'[u] = life' /\ xfer'[b].src = u
            BY <1>7, <2>2, <2>7, <3>1
        <3> QED
            BY <3>3, <3>4
    <2>8. \A b \in k.bufs : \E u \in Uuids : xfer'[b].src = u /\ owner'[u] # 0
        BY <2>1, <2>2, <2>6 DEF KeptOK
    <2>9. k.fut = None => \A b \in k.bufs : xfer'[b].st = "moving" => b \in k.running
        BY <2>1, <2>2 DEF KeptOK
    <2>10. k.fut # None => fut'[k.fut].st # "idle" /\ fut'[k.fut].bufs = k.bufs
        BY <2>1, <2>3 DEF KeptOK
    <2>11. k.own => creq' # "gone"
        BY <1>7
    <2>12. \A j \in kept' \ {k} : j.bufs \cap k.bufs = {} /\ (j.fut = k.fut => k.fut = None)
        BY <1>7, <2>1 DEF KeptOK
    <2>13. k.bufs # {} /\ k.running \subseteq k.bufs /\ k.bufs \cap dead' = {}
        BY <1>7, <2>1 DEF KeptOK
    <2> QED
        BY <2>4, <2>5, <2>7, <2>8, <2>9, <2>10, <2>11, <2>12, <2>13 DEF KeptOK
<1>26. ASSUME NEW g \in Reads
       PROVE  Progress(g)' /\ Held(g)'
    <2>1. Progress(g) /\ Held(g) /\ fut[g].bufs \subseteq Bufs
        BY <1>0, Members DEF Inv
    <2>2. CASE g = f /\ new # {}
        BY <1>7, <1>8, <1>10, <1>12, <1>14, <1>15, <2>2 DEF Progress, Held
    <2>3. CASE ~(g = f /\ new # {})
        <3>1. fut'[g] = fut[g]
            BY <1>15, <2>3
        <3>2. fut[g].st # "idle" => \A b \in fut[g].bufs : b \in Bufs \ bufs
            <4>1. fut[g].st # "idle" => \A b \in fut[g].bufs : Placed(b)
                BY Apart DEF Inv
            <4>2. \A b \in bufs : ~Placed(b)
                BY <1>9, Members DEF Placed, Inv
            <4> QED
                BY <2>1, <4>1, <4>2
        <3>3. fut[g].st # "idle" => \A b \in fut[g].bufs : xfer'[b] = xfer[b]
            BY <1>12, <3>2
        <3>4. Progress(g)'
            BY <2>1, <3>1, <3>3 DEF Progress
        <3>5. Held(g)'
            BY <1>7, <2>1, <3>1 DEF Held
        <3> QED
            BY <3>4, <3>5
    <2> QED
        BY <2>2, <2>3
<1>27. ASSUME NEW b \in Bufs
       PROVE  TransferOK(b)'
    <2>1. SUFFICES ASSUME xfer'[b].st = "moving"
                   PROVE  Placed(b)' /\ \E u \in Uuids : xfer'[b].src = u /\ owner'[u] # 0
        BY DEF TransferOK
    <2>2. b \notin bufs /\ xfer'[b] = xfer[b] /\ TransferOK(b)
        BY <1>0, <1>12, <2>1
    <2>3. Placed(b) /\ \E u \in Uuids : xfer'[b].src = u /\ owner'[u] # 0
        BY <1>7, <1>17, <2>1, <2>2 DEF TransferOK
    <2>4. ASSUME NEW p \in pending, NEW u \in p.uuids, store[u] = b
          PROVE  p \in pending' /\ store'[u] = b
        BY <1>7, <1>16, <2>4, Members DEF Inv
    <2> QED
        BY <1>7, <2>3, <2>4 DEF Placed
<1>28. SharedOK'
    <2>1. SharedOK
        BY DEF Inv
    <2>2. \A u \in Uuids : BeingRead(u)' <=> BeingRead(u) \/ u \in new
        BY <1>7, <1>14 DEF BeingRead
    <2>3. ASSUME NEW u \in Uuids, store'[u] # None, ~BeingRead(u)'
          PROVE  xfer'[store'[u]] = [src |-> u, st |-> "whole"]
        <3>1. u \notin new /\ store'[u] = store[u] /\ ~BeingRead(u)
            BY <1>16, <2>2, <2>3
        <3>2. store[u] \in Bufs \ bufs
            BY <1>9, <2>3, <3>1, Members DEF Inv
        <3> QED
            BY <1>12, <2>1, <2>3, <3>1, <3>2 DEF SharedOK
    <2>4. \A d \in using' : \A u \in d.edge : store'[u] # None /\ ~BeingRead(u)'
        BY <1>7, <1>16, <2>1, <2>2, Members DEF SharedOK, Inv
    <2>5. ASSUME ~failed', NEW q \in pending', NEW u \in q.edge
          PROVE  store'[u] # None /\ \A p \in pending' : u \in p.uuids => p.no <= q.no
        <3>1. CASE q = np
            <4>1. u \in Uuids /\ (u \in new => store'[u] # None) /\ (u \notin new => store[u] # None)
                BY <1>1, <1>8, <1>9, <1>14, <1>16, <3>1
            <4>2. \A p \in pending' : p.no <= np.no
                BY <1>7, <1>14, <1>17, Members DEF Inv, Numbered
            <4> QED
                BY <1>16, <3>1, <4>1, <4>2
        <3>2. CASE q \in pending
            BY <1>7, <1>14, <1>16, <2>1, <2>5, <3>2, Members DEF SharedOK, Inv
        <3> QED
            BY <1>7, <3>1, <3>2
    <2> QED
        BY <2>3, <2>4, <2>5 DEF SharedOK
<1>29. ASSUME NEW u \in Uuids
       PROVE  RefsOK(u)'
    <2>1. /\ RefsOK(u) /\ SharedOK /\ ref[u] \in Nat /\ Uses(u)' = Uses(u)
          /\ failed' = failed /\ seen' = seen
        BY <1>0, <1>7, Members DEF Inv, Uses
    <2>2. Claims(u)' = IF u \in e THEN Claims(u) \cup {sent + 1} ELSE Claims(u)
        BY <1>14, <1>23, <2>1 DEF Claims
    <2>4. /\ Cardinality(Claims(u)) \in Nat /\ Cardinality(Uses(u)) \in Nat
          /\ IsFiniteSet(Claims(u)) /\ sent + 1 \notin Claims(u)
        BY <1>17, ClaimsCounted
    <2>3. Cardinality(Claims(u)') = IF u \in e THEN Cardinality(Claims(u)) + 1 ELSE Cardinality(Claims(u))
        BY <2>2, <2>4, FS_AddElement
    <2>5. CASE u \in new
        <3>1. store[u] = None /\ u \in e /\ ref'[u] = 2
            BY <1>7, <1>8, <2>5
        <3>2. Uses(u) = {}
            BY <2>1, <3>1 DEF Uses, SharedOK
        <3>3. ~failed => Naming(pending, u) = {}
            BY <2>1, <3>1 DEF Naming, SharedOK
        <3>4. ~failed => Claims(u) = {}
            BY <3>2, <3>3 DEF Claims
        <3> QED
            BY <2>1, <2>3, <2>4, <3>1, <3>2, <3>4, FS_EmptySet DEF RefsOK
    <2>6. CASE u \in e \ new
        <3>1. ref'[u] = ref[u] + 1 /\ store'[u] = store[u]
            BY <1>7, <1>16, <2>6
        <3> QED
            BY <2>1, <2>3, <2>4, <2>6, <3>1 DEF RefsOK
    <2>7. CASE u \notin e
        <3>1. ref'[u] = ref[u] /\ store'[u] = store[u]
            BY <1>7, <1>8, <1>16, <2>7
        <3> QED
            BY <2>1, <2>2, <2>4, <2>7, <3>1 DEF RefsOK
    <2> QED
        BY <2>5, <2>6, <2>7
<1>30. ASSUME NEW u \in Uuids
       PROVE  OwedOK(u)'
    <2>1. OwedOK(u) /\ Cardinality(Naming(pending, u)) \in Nat /\ owed[u] \in Nat
        BY <1>0, Counted, Members DEF Inv
    <2>2. Cardinality(Naming(pending', u)) <= owed'[u]
        BY <1>24a, <2>1 DEF OwedOK
    <2>3. owner'[u] <= life'
        BY <1>7, <1>17, <2>1 DEF OwedOK
    <2> QED
        BY <2>2, <2>3 DEF OwedOK
<1>31. EndOK'
    <2>1. EndOK /\ \A b \in pinned : b \in Used /\ b # None
        BY Members DEF Inv, EndOK, TypeOK
    <2>2. /\ \A u \in Uuids : store'[u] \in Used'
          /\ \A k \in kept : k.bufs \subseteq Used'
          /\ dead \subseteq Used'
        BY <1>7 DEF Used
    <2>3. \A b \in Used : b # None => b \in Used'
        BY <1>16, <2>2, UsedHolds
    <2>4. R \subseteq Used'
        BY <1>8, <1>16, <2>2
    <2> QED
        BY <1>7, <1>8, <2>1, <2>3, <2>4 DEF EndOK
<1> QED
    BY <1>7, <1>18, <1>19, <1>20, <1>21, <1>22, <1>25, <1>26, <1>27, <1>28, <1>29, <1>30, <1>31 DEF Inv

-----------------------------------------------------------------------------
(* A node consumes an edge *)

LEMMA SharedHolds ==
    ASSUME Inv
    PROVE  /\ \A u \in Uuids : store[u] # None /\ ~BeingRead(u) =>
                /\ store[u] \in Bufs /\ xfer[store[u]].src = u /\ xfer[store[u]].st = "whole"
           /\ \A d \in using : \A u \in d.edge :
                /\ u \in Uuids /\ store[u] \in Bufs /\ ~BeingRead(u)
                /\ xfer[store[u]].src = u /\ xfer[store[u]].st = "whole"
<1>1. /\ TypeOK
      /\ \A u \in Uuids : store[u] # None /\ ~BeingRead(u) => xfer[store[u]] = [src |-> u, st |-> "whole"]
      /\ \A d \in using : \A u \in d.edge : store[u] # None /\ ~BeingRead(u)
    BY DEF Inv, SharedOK
<1>2. ASSUME NEW u \in Uuids, store[u] # None, ~BeingRead(u)
      PROVE  store[u] \in Bufs /\ xfer[store[u]].src = u /\ xfer[store[u]].st = "whole"
    <2>1. store[u] \in Bufs
        BY <1>1, <1>2, Members
    <2>2. xfer[store[u]] = [src |-> u, st |-> "whole"]
        BY <1>1, <1>2
    <2> QED
        BY <2>1, <2>2
<1> QED
    BY <1>1, <1>2, Members

LEMMA ConsumeKeeps ==
    ASSUME Inv, NEW d \in using, NEW odd, Consume(d, odd)
    PROVE  Inv'
<1>0. /\ \A p \in pending : ReadOK(p)
      /\ \A k \in kept : KeptOK(k)
      /\ \A f \in Reads : Progress(f) /\ Held(f)
      /\ \A b \in Bufs : TransferOK(b)
      /\ \A u \in Uuids : RefsOK(u) /\ OwedOK(u)
      /\ TypeOK /\ Numbered /\ StoreOK /\ SharedOK /\ EndOK
    BY DEF Inv
<1>1. PICK gone : gone = {u \in d.edge : ref[u] <= 1}
    OBVIOUS
<1>2. PICK bufs : bufs = {store[u] : u \in gone}
    OBVIOUS
<1>3. /\ using' = using \ {d}
      /\ ref' = [u \in Uuids |-> IF u \in gone THEN 0 ELSE IF u \in d.edge THEN ref[u] - 1 ELSE ref[u]]
      /\ store' = [u \in Uuids |-> IF u \in gone THEN None ELSE store[u]]
      /\ dead' = dead \cup (bufs \cap pinned \cap odd)
      /\ pinned' = pinned \ (bufs \ odd)
      /\ xfer' = Cleared(xfer, bufs)
      /\ UNCHANGED <<life, creq, pending, kept, seen, failed, fut, owner, owed, sent>>
    BY <1>1, <1>2 DEF Consume, histVars
<1>4. /\ gone \subseteq d.edge /\ d.edge \subseteq Uuids
      /\ \A u \in d.edge : store[u] \in Bufs /\ ~BeingRead(u) /\ xfer[store[u]].st = "whole"
    BY <1>1, Members, SharedHolds DEF Inv
<1>5. /\ bufs \subseteq Bufs
      /\ \A u \in Uuids \ gone : store[u] \notin bufs
      /\ \A k \in kept : k.bufs \cap bufs = {}
      /\ \A b \in bufs : xfer[b].st # "moving" /\ \E u \in gone : store[u] = b
    <2>1. \A b \in bufs : b \in Bufs /\ xfer[b].st # "moving" /\ \E u \in gone : store[u] = b
        BY <1>2, <1>4
    <2>2. \A u \in Uuids \ gone : store[u] \notin bufs
        BY <1>0, <1>2, <1>4, Members DEF StoreOK
    <2>3. \A k \in kept : k.bufs \cap bufs = {}
        BY <1>0, <1>2, <1>4 DEF KeptOK
    <2> QED
        BY <2>1, <2>2, <2>3
<1>6. /\ \A b \in Bufs \ bufs : xfer'[b] = xfer[b]
      /\ \A b \in bufs : xfer'[b] = Still
      /\ xfer' \in [Bufs -> [src : Uuids \cup {None}, st : {"idle", "moving", "done", "error", "whole"}]]
    BY <1>0, <1>3, <1>5 DEF Cleared, Still, TypeOK
<1>7. /\ \A u \in gone : store'[u] = None
      /\ \A u \in Uuids \ gone : store'[u] = store[u]
      /\ store' \in [Uuids -> Bufs \cup {None}]
      /\ \A u \in Uuids : store'[u] # None => u \notin gone
    BY <1>0, <1>3, <1>4 DEF TypeOK
<1>8. ASSUME NEW u \in Uuids
      PROVE  /\ u \notin d.edge => Uses(u)' = Uses(u) /\ Claims(u)' = Claims(u)
             /\ u \in d.edge => /\ d.no \in Uses(u) /\ d.no \in Claims(u)
                                /\ Uses(u)' = Uses(u) \ {d.no} /\ Claims(u)' = Claims(u) \ {d.no}
             /\ Naming(pending', u) = Naming(pending, u)
    <2>1. Uses(u)' = {x.no : x \in {y \in using \ {d} : u \in y.edge}}
        BY <1>3 DEF Uses
    <2>2. Claims(u)' = Uses(u)' \cup {p.no : p \in Naming(pending, u)}
        BY <1>3 DEF Claims
    <2>3. \A x \in using \ {d} : x.no # d.no
        BY <1>0 DEF Numbered
    <2>4. d.no \notin {p.no : p \in Naming(pending, u)}
        BY <1>0 DEF Numbered, Naming
    <2>5. u \notin d.edge => Uses(u)' = Uses(u)
        BY <2>1 DEF Uses
    <2>6. u \in d.edge => d.no \in Uses(u) /\ Uses(u)' = Uses(u) \ {d.no}
        BY <2>1, <2>3 DEF Uses
    <2> QED
        BY <1>3, <2>2, <2>4, <2>5, <2>6 DEF Claims
<1>9. ASSUME NEW u \in d.edge
      PROVE  /\ Cardinality(Uses(u)') = Cardinality(Uses(u)) - 1
             /\ Cardinality(Claims(u)') = Cardinality(Claims(u)) - 1
             /\ Cardinality(Uses(u)) \in Nat /\ Cardinality(Claims(u)) \in Nat /\ ref[u] \in Nat
             /\ \A n \in Uses(u) : n # d.no => u \notin gone
             /\ ~failed => \A n \in Claims(u) : n # d.no => u \notin gone
    <2>0. u \in Uuids /\ RefsOK(u) /\ ref[u] \in Nat
        BY <1>0, <1>4, Members
    <2>1. /\ IsFiniteSet(Uses(u)) /\ IsFiniteSet(Claims(u))
          /\ Cardinality(Uses(u)) \in Nat /\ Cardinality(Claims(u)) \in Nat
        BY <2>0, ClaimsCounted
    <2>1a. /\ d.no \in Uses(u) /\ Uses(u)' = Uses(u) \ {d.no}
           /\ d.no \in Claims(u) /\ Claims(u)' = Claims(u) \ {d.no}
        BY <1>8, <2>0
    <2>1b. IsFiniteSet(Uses(u)') /\ Cardinality(Uses(u)') = Cardinality(Uses(u)) - 1
        BY <2>1, <2>1a, FS_RemoveElement
    <2>2. /\ IsFiniteSet(Uses(u)') /\ IsFiniteSet(Claims(u)')
          /\ Cardinality(Uses(u)') = Cardinality(Uses(u)) - 1
          /\ Cardinality(Claims(u)') = Cardinality(Claims(u)) - 1
        BY <2>1, <2>1a, <2>1b, FS_RemoveElement
    <2>3. ASSUME NEW n \in Uses(u), n # d.no
          PROVE  u \notin gone
        <3>1. Uses(u)' # {}
            BY <2>1a, <2>3
        <3>2. Cardinality(Uses(u)') # 0 /\ Cardinality(Uses(u)') \in Nat
            BY <2>2, <3>1, FS_EmptySet, FS_CardinalityType
        <3> QED
            BY <1>1, <2>0, <2>1, <2>2, <3>2 DEF RefsOK
    <2>4. ASSUME ~failed, NEW n \in Claims(u), n # d.no
          PROVE  u \notin gone
        <3>1. Claims(u)' # {}
            BY <2>1a, <2>4
        <3>2. Cardinality(Claims(u)') # 0 /\ Cardinality(Claims(u)') \in Nat
            BY <2>2, <3>1, FS_EmptySet, FS_CardinalityType
        <3> QED
            BY <1>1, <2>0, <2>1, <2>2, <2>4, <3>2 DEF RefsOK
    <2> QED
        BY <2>0, <2>1, <2>2, <2>3, <2>4
<1>10. TypeOK'
    <2>1. \A u \in d.edge : u \notin gone => ref[u] - 1 \in Nat
        BY <1>1, <1>4, Members, <1>0
    <2>2. ref' \in [Uuids -> Nat]
        BY <1>0, <1>3, <2>1 DEF TypeOK
    <2> QED
        BY <1>0, <1>3, <1>5, <1>6, <1>7, <2>2 DEF TypeOK
<1>11. Numbered' /\ StoreOK'
    <2>1. Numbered'
        BY <1>0, <1>3 DEF Numbered
    <2>2. \A u \in Uuids : store'[u] \notin dead'
        BY <1>0, <1>3, <1>5, <1>7, Members DEF StoreOK, TypeOK
    <2>3. \A u, v \in Uuids : store'[u] = store'[v] => u = v \/ store'[u] = None
        BY <1>0, <1>7 DEF StoreOK
    <2> QED
        BY <2>1, <2>2, <2>3 DEF StoreOK
<1>12. ASSUME NEW p \in pending
       PROVE  ReadOK(p)'
    <2>1. ReadOK(p) /\ p.uuids \subseteq Uuids
        BY <1>0, Members
    <2>2. \A u \in p.uuids : u \notin gone /\ store'[u] = store[u] /\ store[u] \in Bufs \ bufs
        BY <1>0, <1>4, <1>5, <1>7, <2>1, Members DEF BeingRead, ReadOK
    <2>3. \A u \in p.uuids : store'[u] # None /\ xfer'[store'[u]].src = u
        BY <1>6, <2>1, <2>2 DEF ReadOK
    <2>3a. {store'[u] : u \in p.uuids} = {store[u] : u \in p.uuids}
        BY <2>2
    <2>4. p.fut # None => fut'[p.fut].st # "idle" /\ fut'[p.fut].bufs = {store'[u] : u \in p.uuids}
        BY <1>3, <2>1, <2>3a DEF ReadOK
    <2> QED
        BY <1>3, <2>1, <2>3, <2>4 DEF ReadOK
<1>13. ASSUME NEW k \in kept
       PROVE  KeptOK(k)'
    <2>1. KeptOK(k) /\ k.bufs \subseteq Bufs
        BY <1>0, Members
    <2>2. \A b \in k.bufs : xfer'[b] = xfer[b]
        BY <1>5, <1>6, <2>1
    <2>3. k.bufs \cap dead' = {} /\ \A u \in Uuids : store'[u] \notin k.bufs
        BY <1>0, <1>3, <1>5, <1>7, <2>1, Members DEF KeptOK
    <2>4. ASSUME k.own, NEW b \in k.bufs
          PROVE  \E u \in Uuids : /\ xfer'[b].src = u /\ owner'[u] = life'
                                  /\ Cardinality(Naming(pending', u)) < owed'[u]
        BY <1>3, <1>8, <2>1, <2>2, <2>4 DEF KeptOK
    <2>5. \A b \in k.bufs : \E u \in Uuids : xfer'[b].src = u /\ owner'[u] # 0
        BY <1>3, <2>1, <2>2 DEF KeptOK
    <2>6. k.fut = None => \A b \in k.bufs : xfer'[b].st = "moving" => b \in k.running
        BY <2>1, <2>2 DEF KeptOK
    <2> QED
        BY <1>3, <2>1, <2>3, <2>4, <2>5, <2>6 DEF KeptOK
<1>14. ASSUME NEW f \in Reads
       PROVE  Progress(f)' /\ Held(f)'
    <2>1. Progress(f) /\ Held(f) /\ fut[f].bufs \subseteq Bufs
        BY <1>0, Members
    <2>2. fut[f].st # "idle" => \A b \in fut[f].bufs : xfer'[b] = xfer[b]
        BY <1>4, <1>5, <1>6, <2>1, Apart
    <2>3. Progress(f)'
        BY <1>3, <2>1, <2>2 DEF Progress
    <2> QED
        BY <1>3, <2>1, <2>3 DEF Held
<1>15. ASSUME NEW b \in Bufs, xfer'[b].st = "moving"
       PROVE  Placed(b)' /\ \E u \in Uuids : xfer'[b].src = u /\ owner'[u] # 0
    <2>1. b \notin bufs /\ xfer'[b] = xfer[b] /\ TransferOK(b)
        BY <1>0, <1>6, <1>15 DEF Still
    <2>2. Placed(b) /\ \E u \in Uuids : xfer'[b].src = u /\ owner'[u] # 0
        BY <1>3, <1>15, <2>1 DEF TransferOK
    <2>3. ASSUME NEW p \in pending, NEW u \in p.uuids, store[u] = b
          PROVE  store'[u] = b
        BY <1>0, <1>4, <1>7, <2>3, Members DEF BeingRead
    <2> QED
        BY <1>3, <2>2, <2>3 DEF Placed
<1>16. SharedOK'
    <2>1. UNCHANGED pending /\ \A u \in Uuids : BeingRead(u)' <=> BeingRead(u)
        BY <1>3 DEF BeingRead
    <2>2. ASSUME NEW u \in Uuids, store'[u] # None, ~BeingRead(u)
          PROVE  xfer'[store'[u]] = [src |-> u, st |-> "whole"]
        <3>1. u \notin gone /\ store'[u] = store[u] /\ store[u] \in Bufs \ bufs
            BY <1>5, <1>7, <2>2, Members, <1>0
        <3> QED
            BY <1>0, <1>6, <2>2, <3>1 DEF SharedOK
    <2>3. ASSUME NEW x \in using', NEW u \in x.edge
          PROVE  store'[u] # None /\ ~BeingRead(u)
        <3>1. x \in using /\ x.no # d.no /\ u \in Uuids /\ store[u] # None /\ ~BeingRead(u)
            BY <1>0, <1>3, Members DEF SharedOK, Numbered
        <3>2. x.no \in Uses(u)
            BY <3>1 DEF Uses
        <3>3. u \notin gone
            BY <1>4, <1>9, <3>1, <3>2
        <3> QED
            BY <1>7, <3>1, <3>3
    <2>4. ASSUME ~failed, NEW q \in pending, NEW u \in q.edge
          PROVE  store'[u] # None
        <3>1. u \in Uuids /\ store[u] # None /\ q.no # d.no
            BY <1>0, <2>4, Members DEF SharedOK, Numbered
        <3>2. q.no \in Claims(u)
            BY <3>1 DEF Claims, Naming
        <3>3. u \notin gone
            BY <1>4, <1>9, <2>4, <3>1, <3>2
        <3> QED
            BY <1>7, <3>1, <3>3
    <2>5. failed' = failed /\ (~failed => \A q \in pending : \A u \in q.edge :
              \A p \in pending : u \in p.uuids => p.no <= q.no)
        BY <1>0, <1>3 DEF SharedOK
    <2> QED
        BY <2>1, <2>2, <2>3, <2>4, <2>5 DEF SharedOK, BeingRead
<1>17. ASSUME NEW u \in Uuids
       PROVE  RefsOK(u)' /\ OwedOK(u)'
    <2>1. /\ RefsOK(u) /\ OwedOK(u) /\ ref[u] \in Nat /\ failed' = failed /\ seen' = seen
          /\ Cardinality(Uses(u)) \in Nat /\ Cardinality(Claims(u)) \in Nat
        BY <1>0, <1>3, ClaimsCounted, Members
    <2>2. OwedOK(u)'
        BY <1>3, <1>8, <2>1 DEF OwedOK
    <2>3. CASE u \notin d.edge
        <3>1. ref'[u] = ref[u] /\ store'[u] = store[u]
            BY <1>3, <1>4, <1>7, <2>3
        <3>2. Uses(u)' = Uses(u) /\ Claims(u)' = Claims(u)
            BY <1>8, <2>3
        <3> QED
            BY <2>1, <2>2, <3>1, <3>2 DEF RefsOK
    <2>4. CASE u \in d.edge
        <3>1. /\ Cardinality(Uses(u)') = Cardinality(Uses(u)) - 1
              /\ Cardinality(Claims(u)') = Cardinality(Claims(u)) - 1
            BY <1>9, <2>4
        <3>2. CASE u \in gone
            <4>1. ref'[u] = 0 /\ ref[u] <= 1 /\ store'[u] = None
                BY <1>1, <1>3, <1>7, <3>2
            <4> QED
                BY <2>1, <2>2, <3>1, <4>1 DEF RefsOK
        <3>3. CASE u \notin gone
            <4>1. ref'[u] = ref[u] - 1 /\ store'[u] = store[u]
                BY <1>3, <1>7, <2>4, <3>3
            <4> QED
                BY <2>1, <2>2, <3>1, <4>1 DEF RefsOK
        <3> QED
            BY <3>2, <3>3
    <2> QED
        BY <2>2, <2>3, <2>4
<1>18. EndOK'
    <2>1. creq # "gone"
        BY <1>0 DEF EndOK
    <2>2. HasInflightReads' <=> HasInflightReads
        BY <1>3 DEF HasInflightReads, MayBeReading
    <2>3. ASSUME NEW b \in pinned'
          PROVE  b \in Used'
        <3>1. b \in pinned /\ b \in Bufs /\ b \in Used /\ (b \in bufs => b \in odd)
            BY <1>0, <1>3 DEF EndOK, TypeOK
        <3>2. dead' \subseteq Used' /\ (\A u \in Uuids : store'[u] \in Used')
              /\ \A k \in kept : k.bufs \subseteq Used'
            BY <1>3 DEF Used
        <3>3. b \in bufs => b \in dead'
            BY <1>3, <3>1
        <3>4. CASE \E u \in Uuids : store[u] = b
            BY <1>2, <1>7, <3>2, <3>3, <3>4
        <3>5. CASE b \in dead \/ \E k \in kept : b \in k.bufs
            BY <1>3, <3>2, <3>5
        <3> QED
            BY <3>1, <3>4, <3>5, UsedHolds
    <2> QED
        BY <1>0, <1>3, <2>1, <2>2, <2>3 DEF EndOK
<1>19. \A b \in Bufs : TransferOK(b)'
    BY <1>15 DEF TransferOK
<1> QED
    BY <1>3, <1>10, <1>11, <1>12, <1>13, <1>14, <1>16, <1>17, <1>18, <1>19 DEF Inv

-----------------------------------------------------------------------------
(* Reads that are kept *)

\* The buffers of a pending read, and what is known of the transfers into them once it is done.
LEMMA ReadHolds ==
    ASSUME Inv, NEW p \in pending
    PROVE  /\ BuffersOf(p) = {store[u] : u \in p.uuids} /\ BuffersOf(p) \subseteq Bufs
           /\ p.fut # None => /\ p.fut \in Reads /\ fut[p.fut].st # "idle"
                              /\ BuffersOf(p) = fut[p.fut].bufs /\ BuffersOf(p) # {}
           /\ p.fut = None => BuffersOf(p) = {} /\ p.uuids = {}
           /\ BuffersOf(p) \cap dead = {} /\ \A k \in kept : k.bufs \cap BuffersOf(p) = {}
           /\ \A b \in BuffersOf(p) : \E u \in p.uuids : store[u] = b /\ xfer[b].src = u
           /\ p.uuids \subseteq p.edge /\ p.edge \subseteq Uuids
           /\ \A u \in p.edge : owner[u] = life /\ owner[u] # 0
           /\ \A u \in p.uuids : store[u] \in BuffersOf(p)
           /\ Failed(p) => Done(p) /\ p.fut # None
           /\ Done(p) /\ ~Failed(p) => \A b \in BuffersOf(p) : xfer[b].st = "whole"
           /\ Failed(p) /\ Learned(p.fut, BuffersOf(p)) =>
                 \A b \in BuffersOf(p) : xfer[b].st = "moving" => b \in fut[p.fut].running
<1>1. /\ ReadOK(p) /\ p.edge \subseteq Uuids /\ p.uuids \subseteq Uuids /\ p.fut \in Reads \cup {None}
      /\ \A k \in kept : KeptOK(k)
      /\ StoreOK /\ \A u \in Uuids : store[u] \in Bufs \cup {None}
      /\ life # 0 /\ None \notin Bufs
    BY Members DEF Inv, TypeOK
<1>2. BuffersOf(p) = {store[u] : u \in p.uuids} /\ BuffersOf(p) \subseteq Bufs
    BY <1>1 DEF BuffersOf, ReadOK
<1>3. p.fut # None => /\ p.fut \in Reads /\ fut[p.fut].st # "idle"
                      /\ BuffersOf(p) = fut[p.fut].bufs /\ BuffersOf(p) # {}
    BY <1>1, <1>2 DEF ReadOK
<1>4. p.fut = None => BuffersOf(p) = {} /\ p.uuids = {}
    BY <1>1, <1>2 DEF ReadOK
<1>5. BuffersOf(p) \cap dead = {} /\ \A k \in kept : k.bufs \cap BuffersOf(p) = {}
    BY <1>1, <1>2 DEF StoreOK, KeptOK
<1>6. \A b \in BuffersOf(p) : \E u \in p.uuids : store[u] = b /\ xfer[b].src = u
    BY <1>1, <1>2 DEF ReadOK
<1>7. /\ p.uuids \subseteq p.edge /\ \A u \in p.edge : owner[u] = life /\ owner[u] # 0
      /\ \A u \in p.uuids : store[u] \in BuffersOf(p)
    BY <1>1, <1>2 DEF ReadOK
<1>8. Failed(p) => Done(p) /\ p.fut # None
    BY DEF Failed, Done
<1>9. p.fut # None => Progress(p.fut)
    BY <1>3 DEF Inv
<1>10. Done(p) /\ ~Failed(p) => \A b \in BuffersOf(p) : xfer[b].st = "whole"
    BY <1>3, <1>4, <1>9 DEF Done, Failed, Progress
<1>11. Failed(p) /\ Learned(p.fut, BuffersOf(p)) =>
          \A b \in BuffersOf(p) : xfer[b].st = "moving" => b \in fut[p.fut].running
    BY <1>3, <1>8, <1>9 DEF Failed, Learned, Progress
<1> QED
    BY <1>1, <1>2, <1>3, <1>4, <1>5, <1>6, <1>7, <1>8, <1>10, <1>11

\* What is kept after a step stems from what was kept, or from a read.
FromKept(n, k) == n.bufs = k.bufs /\ n.fut \in {None, k.fut}
FromRead(n, p) == n.bufs = BuffersOf(p) /\ n.fut \in {None, p.fut}
Separate(m, n) == m.bufs \cap n.bufs = {} /\ (m.fut = n.fut => n.fut = None)

LEMMA OriginsApart ==
    ASSUME Inv, NEW m, NEW n
    PROVE  /\ \A k, j \in kept : k # j /\ FromKept(m, k) /\ FromKept(n, j) => Separate(m, n)
           /\ \A k \in kept, p \in pending :
                 FromKept(m, k) /\ FromRead(n, p) => Separate(m, n) /\ Separate(n, m)
           /\ \A p, q \in pending : p # q /\ FromRead(m, p) /\ FromRead(n, q) => Separate(m, n)
<1>1. /\ \A k \in kept : KeptOK(k)
      /\ \A p \in pending : ReadOK(p)
    BY DEF Inv
<1>2. \A k, j \in kept : k # j /\ FromKept(m, k) /\ FromKept(n, j) => Separate(m, n)
    BY <1>1 DEF KeptOK, FromKept, Separate
<1>3. ASSUME NEW k \in kept, NEW p \in pending, FromKept(m, k), FromRead(n, p)
      PROVE  Separate(m, n) /\ Separate(n, m)
    <2>1. k.bufs \cap BuffersOf(p) = {}
        BY ReadHolds
    <2>2. k.fut # None => p.fut # k.fut
        BY <1>1 DEF KeptOK
    <2> QED
        BY <1>3, <2>1, <2>2 DEF FromKept, FromRead, Separate
<1>4. ASSUME NEW p \in pending, NEW q \in pending, p # q, FromRead(m, p), FromRead(n, q)
      PROVE  Separate(m, n)
    <2>1. p.uuids \cap q.uuids = {} /\ (q.fut = p.fut => q.fut = None)
        BY <1>1, <1>4 DEF ReadOK
    <2>2. ASSUME NEW b \in BuffersOf(p), b \in BuffersOf(q)
          PROVE  FALSE
        <3>1. PICK u \in p.uuids : store[u] = b /\ xfer[b].src = u
            BY ReadHolds
        <3>2. PICK v \in q.uuids : store[v] = b /\ xfer[b].src = v
            BY <2>2, ReadHolds
        <3> QED
            BY <2>1, <3>1, <3>2
    <2> QED
        BY <1>4, <2>1, <2>2 DEF FromRead, Separate
<1> QED
    BY <1>2, <1>3, <1>4

\* A read that failed or goes on is kept with what may still write into its buffers.
LEMMA KeepReadHolds ==
    ASSUME Inv, NEW p \in pending, BuffersOf(p) # {}, Done(p) => Failed(p) /\ Learned(p.fut, BuffersOf(p)),
           NEW own \in BOOLEAN, NEW k, k = KeepRead(p, own)
    PROVE  /\ FromRead(k, p) /\ k.own = own /\ k.bufs # {} /\ k.running \subseteq k.bufs
           /\ k.bufs = BuffersOf(p) /\ k.bufs \subseteq Bufs /\ p.fut \in Reads
           /\ k \in [bufs : SUBSET Bufs, fut : Reads \cup {None}, own : BOOLEAN, running : SUBSET Bufs]
           /\ k.fut = None => Done(p) /\ \A b \in k.bufs : xfer[b].st = "moving" => b \in k.running
           /\ k.fut # None => /\ ~Done(p) /\ k.fut = p.fut /\ fut[k.fut].st # "idle"
                              /\ fut[k.fut].bufs = k.bufs
           /\ Done(p) => k.fut = None /\ k.running = fut[p.fut].running \cap BuffersOf(p)
<1>1. /\ p.fut # None /\ p.fut \in Reads /\ fut[p.fut].st # "idle" /\ BuffersOf(p) = fut[p.fut].bufs
      /\ BuffersOf(p) \subseteq Bufs /\ fut[p.fut].running \subseteq Bufs
    BY ReadHolds, Members DEF Inv
<1>2. /\ k.bufs = BuffersOf(p) /\ k.own = own
      /\ k.fut = (IF Done(p) THEN None ELSE p.fut)
      /\ k.running = (IF Done(p) THEN fut[p.fut].running \cap BuffersOf(p) ELSE {})
      /\ k = [bufs |-> k.bufs, fut |-> k.fut, own |-> k.own, running |-> k.running]
    BY DEF KeepRead
<1>3. Done(p) => \A b \in k.bufs : xfer[b].st = "moving" => b \in k.running
    BY <1>2, ReadHolds
<1>4. k \in [bufs : SUBSET Bufs, fut : Reads \cup {None}, own : BOOLEAN, running : SUBSET Bufs]
    BY <1>1, <1>2
<1> QED
    BY <1>1, <1>2, <1>3, <1>4 DEF FromRead

\* Every buffer of the reads P is kept or given up.
LEMMA ReadsAreKept ==
    ASSUME NEW P, NEW own, NEW p \in P, NEW b \in BuffersOf(p)
    PROVE  b \in NeverFreedOf(P) \/ \E k \in KeptOf(P, own) : k.bufs = BuffersOf(p) /\ k = KeepRead(p, own)
<1>1. CASE Done(p) /\ ~Learned(p.fut, BuffersOf(p))
    BY <1>1 DEF NeverFreedOf
<1>2. CASE Done(p) => Learned(p.fut, BuffersOf(p))
    <2>1. KeepRead(p, own) \in KeptOf(P, own) /\ KeepRead(p, own).bufs = BuffersOf(p)
        BY <1>2 DEF KeptOf, KeepRead
    <2> QED
        BY <2>1
<1> QED
    BY <1>1, <1>2

LEMMA BuffersStayKept ==
    ASSUME NEW P, NEW own, NEW p \in P, NEW b \in BuffersOf(p)
    PROVE  b \in NeverFreedOf(P) \/ \E k \in KeptOf(P, own) : b \in k.bufs
<1>1. CASE b \in NeverFreedOf(P)
    BY <1>1
<1>2. ASSUME NEW k \in KeptOf(P, own), k.bufs = BuffersOf(p)
      PROVE  b \in k.bufs
    BY <1>2
<1> QED
    BY <1>1, <1>2, ReadsAreKept

LEMMA NeverFreedHolds ==
    ASSUME NEW P, NEW b \in NeverFreedOf(P)
    PROVE  \E p \in P : b \in BuffersOf(p)
BY DEF NeverFreedOf

LEMMA KeptOfHolds ==
    ASSUME NEW P, NEW own, NEW k \in KeptOf(P, own)
    PROVE  \E p \in P : /\ k = KeepRead(p, own) /\ BuffersOf(p) # {}
                        /\ Done(p) => Learned(p.fut, BuffersOf(p))
BY DEF KeptOf

-----------------------------------------------------------------------------
(* A request is removed *)

LEMMA RemoveKeeps ==
    ASSUME Inv, NEW odd, ConsumerRemoves(odd)
    PROVE  Inv'
<1>0. /\ \A k \in kept : KeptOK(k)
      /\ \A f \in Reads : Progress(f) /\ Held(f)
      /\ \A b \in Bufs : TransferOK(b)
      /\ TypeOK /\ StoreOK /\ EndOK
    BY DEF Inv
<1>1. PICK keep : keep = pending \ {p \in pending : Done(p) /\ ~Failed(p)}
    OBVIOUS
<1>2. PICK bufs : bufs = {store[u] : u \in Uuids \ (UNION {p.uuids : p \in keep})} \ {None}
    OBVIOUS
<1>3. PICK finished : finished = {p \in pending : Done(p) /\ ~Failed(p)}
    OBVIOUS
<1>4. PICK over : over = {p.fut : p \in {q \in pending : Done(q)}}
    OBVIOUS
<1>5. /\ creq' = "gone" /\ pending' = {} /\ using' = {} /\ seen' = {} /\ failed' = FALSE
      /\ kept' = {Disown(k) : k \in kept} \cup KeptOf(keep, FALSE)
      /\ dead' = dead \cup NeverFreedOf(keep) \cup (bufs \cap pinned \cap odd)
      /\ pinned' = pinned \ (bufs \ odd) /\ xfer' = Cleared(xfer, bufs)
      /\ store' = [u \in Uuids |-> None] /\ ref' = [u \in Uuids |-> 0]
      /\ fut' = [f \in Reads |-> IF f \in over THEN NoFuture ELSE fut[f]]
      /\ owed' = Acked(finished)
      /\ UNCHANGED <<life, owner, sent>>
    BY <1>1, <1>2, <1>3, <1>4 DEF ConsumerRemoves
<1>6. /\ keep \subseteq pending /\ finished \subseteq pending
      /\ \A p \in pending : p \in keep \/ (Done(p) /\ ~Failed(p))
      /\ \A p \in keep : Done(p) => Failed(p)
      /\ \A p \in keep : BuffersOf(p) # {} /\ p.fut # None
    <2>1. /\ keep \subseteq pending /\ finished \subseteq pending
          /\ \A p \in pending : p \in keep \/ (Done(p) /\ ~Failed(p))
          /\ \A p \in keep : Done(p) => Failed(p)
        BY <1>1, <1>3
    <2> QED
        BY <2>1, ReadHolds DEF Done, Failed
<1>7. /\ bufs \subseteq Bufs
      /\ \A b \in bufs : \E u \in Uuids : store[u] = b /\ \A p \in keep : u \notin p.uuids
      /\ \A u \in Uuids : store[u] \in bufs \/ store[u] = None \/ \E p \in keep : u \in p.uuids
    BY <1>0, <1>2, Members
<1>8. /\ \A p \in keep : BuffersOf(p) \cap bufs = {}
      /\ \A k \in kept : k.bufs \cap bufs = {}
      /\ bufs \cap dead = {}
    <2>1. ASSUME NEW p \in keep, NEW b \in bufs, b \in BuffersOf(p)
          PROVE  FALSE
        <3>1. PICK u \in Uuids : store[u] = b /\ \A q \in keep : u \notin q.uuids
            BY <1>7
        <3>2. PICK v \in p.uuids : store[v] = b /\ v \in Uuids
            BY <1>6, <2>1, ReadHolds
        <3>3. store[u] = store[v] /\ store[u] # None
            BY <1>7, <2>1, <3>1, <3>2, Members, <1>0
        <3> QED
            BY <1>0, <3>1, <3>2, <3>3 DEF StoreOK
    <2> QED
        BY <1>0, <1>7, <2>1 DEF KeptOK, StoreOK
<1>9. /\ \A b \in Bufs \ bufs : xfer'[b] = xfer[b]
      /\ \A b \in Bufs : xfer'[b].st = "moving" => xfer'[b] = xfer[b]
      /\ xfer' \in [Bufs -> [src : Uuids \cup {None}, st : {"idle", "moving", "done", "error", "whole"}]]
    BY <1>0, <1>5 DEF Cleared, Still, TypeOK
<1>10. /\ \A f \in Reads : f \in over => fut'[f] = NoFuture
       /\ \A f \in Reads : f \notin over => fut'[f] = fut[f]
       /\ fut' \in [Reads -> Futures]
    BY <1>0, <1>5 DEF TypeOK, NoFuture, Futures
<1>11. /\ \A p \in pending : ~Done(p) => p.fut \notin over
       /\ \A k \in kept : k.fut # None => k.fut \notin over
       /\ \A f \in over : \E p \in pending : p.fut = f /\ Done(p)
    <2>1. \A f \in over : \E p \in pending : p.fut = f /\ Done(p)
        BY <1>4
    <2>2. \A p, q \in pending : Done(p) /\ ~Done(q) => p.fut # q.fut
        BY DEF Done
    <2> QED
        BY <1>0, <2>1, <2>2 DEF KeptOK
<1>12. \A k \in kept : /\ FromKept(Disown(k), k) /\ Disown(k).bufs = k.bufs /\ Disown(k).fut = k.fut
                       /\ Disown(k).running = k.running /\ Disown(k).own = FALSE
                       /\ Disown(k) \in [bufs : SUBSET Bufs, fut : Reads \cup {None}, own : BOOLEAN,
                                         running : SUBSET Bufs]
    BY <1>0 DEF Disown, FromKept, TypeOK
<1>13. ASSUME NEW n \in kept'
       PROVE  \/ \E k \in kept : n = Disown(k)
              \/ \E p \in keep : /\ n = KeepRead(p, FALSE) /\ BuffersOf(p) # {} /\ p \in pending
                                 /\ Done(p) => Failed(p) /\ Learned(p.fut, BuffersOf(p))
    BY <1>5, <1>6, KeptOfHolds
<1>14. ASSUME NEW p \in keep, BuffersOf(p) # {}, Done(p) => Failed(p) /\ Learned(p.fut, BuffersOf(p)),
              NEW n, n = KeepRead(p, FALSE)
       PROVE  /\ FromRead(n, p) /\ n.own = FALSE /\ n.bufs # {} /\ n.running \subseteq n.bufs
              /\ n.bufs = BuffersOf(p) /\ n.bufs \subseteq Bufs /\ p.fut \in Reads
              /\ n \in [bufs : SUBSET Bufs, fut : Reads \cup {None}, own : BOOLEAN, running : SUBSET Bufs]
              /\ n.fut = None => Done(p) /\ \A b \in n.bufs : xfer[b].st = "moving" => b \in n.running
              /\ n.fut # None => /\ ~Done(p) /\ n.fut = p.fut /\ fut[n.fut].st # "idle"
                                 /\ fut[n.fut].bufs = n.bufs
    BY <1>6, <1>14, KeepReadHolds
<1>14a. \A n \in kept' : \/ \E k \in kept : n = Disown(k) /\ FromKept(n, k)
                         \/ \E p \in keep : n = KeepRead(p, FALSE) /\ FromRead(n, p) /\ p \in pending
    BY <1>12, <1>13, <1>14
<1>14b. \A n \in kept' : n.bufs \cap bufs = {}
    BY <1>8, <1>14a DEF FromKept, FromRead
<1>15. TypeOK'
    <2>1. kept' \subseteq [bufs : SUBSET Bufs, fut : Reads \cup {None}, own : BOOLEAN, running : SUBSET Bufs]
        BY <1>12, <1>13, <1>14
    <2>2. dead' \subseteq Bufs
        BY <1>0, <1>5, <1>6, <1>7, NeverFreedHolds, ReadHolds DEF TypeOK
    <2>3. owed' \in [Uuids -> Nat]
        <3>1. finished \in SUBSET pending
            BY <1>6
        <3>2. \A u \in Uuids : /\ Cardinality(Naming(finished, u)) \in Nat
                               /\ Cardinality(Naming(finished, u)) <= owed[u]
            BY <3>1, Counted
        <3>3. \A u \in Uuids : owed[u] \in Nat
            BY <1>0, Members
        <3>4. \A u \in Uuids : owed[u] - Cardinality(Naming(finished, u)) \in Nat
            BY <3>2, <3>3
        <3> QED
            BY <1>5, <3>4 DEF Acked
    <2> QED
        BY <1>0, <1>5, <1>9, <1>10, <2>1, <2>2, <2>3, Members DEF TypeOK
<1>16. Numbered' /\ StoreOK' /\ SharedOK'
    <2>0. None \notin dead'
        BY <1>0, <1>15, Members DEF TypeOK
    <2>1. \A u \in Uuids : store'[u] = None /\ None \notin dead'
        BY <1>5, <2>0
    <2> QED
        BY <1>5, <2>1 DEF Numbered, StoreOK, SharedOK
<1>17. ASSUME NEW n \in kept'
       PROVE  KeptOK(n)'
    <2>1. \A m \in kept' : m # n => Separate(m, n)
        <3>1. ASSUME NEW m \in kept', m # n
              PROVE  Separate(m, n)
            <4>1. CASE \E k \in kept : n = Disown(k) /\ FromKept(n, k)
                <5>1. PICK k \in kept : n = Disown(k) /\ FromKept(n, k)
                    BY <4>1
                <5>2. \/ \E j \in kept : j # k /\ FromKept(m, j)
                      \/ \E p \in pending : FromRead(m, p)
                    BY <1>14a, <3>1, <5>1
                <5> QED
                    BY <5>1, <5>2, OriginsApart
            <4>2. CASE \E p \in keep : n = KeepRead(p, FALSE) /\ FromRead(n, p) /\ p \in pending
                <5>1. PICK p \in pending : n = KeepRead(p, FALSE) /\ FromRead(n, p)
                    BY <4>2
                <5>2. \/ \E k \in kept : FromKept(m, k)
                      \/ \E q \in pending : q # p /\ FromRead(m, q)
                    BY <1>14a, <3>1, <5>1
                <5> QED
                    BY <5>1, <5>2, OriginsApart
            <4> QED
                BY <1>14a, <4>1, <4>2
        <3> QED
            BY <3>1
    <2>2. /\ n.bufs # {} /\ n.running \subseteq n.bufs /\ n.bufs \subseteq Bufs
          /\ n.bufs \cap bufs = {} /\ n.bufs \cap dead' = {} /\ ~n.own
          /\ n.fut # None => n.fut \in Reads /\ fut'[n.fut].st # "idle" /\ fut'[n.fut].bufs = n.bufs
          /\ n.fut = None => \A b \in n.bufs : xfer[b].st = "moving" => b \in n.running
          /\ \A b \in n.bufs : \E u \in Uuids : xfer[b].src = u /\ owner[u] # 0
        <3>1. CASE \E k \in kept : n = Disown(k)
            <4>1. PICK k \in kept : n = Disown(k)
                BY <3>1
            <4>2. KeptOK(k) /\ k.bufs \subseteq Bufs /\ k.fut \in Reads \cup {None}
                BY <1>0, Members
            <4>3. k.bufs \cap dead' = {}
                BY <1>5, <1>6, <1>8, <4>2, NeverFreedHolds, ReadHolds DEF KeptOK
            <4>4. k.fut # None => fut'[k.fut] = fut[k.fut]
                BY <1>10, <1>11, <4>2
            <4> QED
                BY <1>8, <1>12, <4>1, <4>2, <4>3, <4>4 DEF KeptOK
        <3>2. CASE \E p \in keep : /\ n = KeepRead(p, FALSE) /\ BuffersOf(p) # {} /\ p \in pending
                                   /\ Done(p) => Failed(p) /\ Learned(p.fut, BuffersOf(p))
            <4>1. PICK p \in keep : /\ n = KeepRead(p, FALSE) /\ BuffersOf(p) # {} /\ p \in pending
                                    /\ Done(p) => Failed(p) /\ Learned(p.fut, BuffersOf(p))
                BY <3>2
            <4>2. /\ n.own = FALSE /\ n.bufs # {} /\ n.running \subseteq n.bufs
                  /\ n.bufs = BuffersOf(p) /\ n.bufs \subseteq Bufs /\ p.fut \in Reads
                  /\ n.fut = None => Done(p) /\ \A b \in n.bufs : xfer[b].st = "moving" => b \in n.running
                  /\ n.fut # None => /\ ~Done(p) /\ n.fut = p.fut /\ fut[n.fut].st # "idle"
                                     /\ fut[n.fut].bufs = n.bufs
                BY <1>14, <4>1
            <4>3. BuffersOf(p) \cap NeverFreedOf(keep) = {}
                <5>1. SUFFICES ASSUME NEW b \in BuffersOf(p), NEW q \in keep, b \in BuffersOf(q),
                                      Done(q) /\ ~Learned(q.fut, BuffersOf(q))
                               PROVE  FALSE
                    BY DEF NeverFreedOf
                <5>2. p # q
                    BY <4>1, <5>1
                <5>3. PICK m : m = [bufs |-> BuffersOf(q), fut |-> None]
                    OBVIOUS
                <5>4. PICK l : l = [bufs |-> BuffersOf(p), fut |-> None]
                    OBVIOUS
                <5>5. Separate(m, l)
                    BY <1>6, <4>1, <5>2, <5>3, <5>4, OriginsApart DEF FromRead
                <5> QED
                    BY <5>1, <5>3, <5>4, <5>5 DEF Separate
            <4>4. n.bufs \cap dead' = {} /\ n.bufs \cap bufs = {}
                <5>1. BuffersOf(p) \cap dead = {} /\ BuffersOf(p) \cap bufs = {}
                    BY <1>8, <4>1, ReadHolds
                <5>2. dead' \subseteq dead \cup NeverFreedOf(keep) \cup bufs
                    BY <1>5
                <5> QED
                    BY <4>2, <4>3, <5>1, <5>2
            <4>5. n.fut # None => fut'[n.fut] = fut[n.fut]
                BY <1>10, <1>11, <4>1, <4>2
            <4>6. \A b \in n.bufs : \E u \in Uuids : xfer[b].src = u /\ owner[u] # 0
                <5>1. ASSUME NEW b \in BuffersOf(p)
                      PROVE  \E u \in Uuids : xfer[b].src = u /\ owner[u] # 0
                    <6>1. PICK u \in p.uuids : store[u] = b /\ xfer[b].src = u
                        BY <4>1, ReadHolds
                    <6> QED
                        BY <4>1, <6>1, ReadHolds
                <5> QED
                    BY <4>2, <5>1
            <4> QED
                BY <4>2, <4>4, <4>5, <4>6
        <3> QED
            BY <1>13, <3>1, <3>2
    <2>3. \A b \in n.bufs : xfer'[b] = xfer[b]
        BY <1>9, <2>2
    <2>4. \A u \in Uuids : store'[u] \notin n.bufs
        BY <1>5, <2>2, Members, <1>0
    <2>5. \A m \in kept' \ {n} : m.bufs \cap n.bufs = {} /\ (m.fut = n.fut => n.fut = None)
        BY <2>1 DEF Separate
    <2>6. \A b \in n.bufs : \E u \in Uuids : xfer'[b].src = u /\ owner'[u] # 0
        BY <1>5, <2>2, <2>3
    <2>7. n.fut = None => \A b \in n.bufs : xfer'[b].st = "moving" => b \in n.running
        BY <2>2, <2>3
    <2>8. \A p \in pending' : p.fut # n.fut
        BY <1>5
    <2> QED
        BY <2>2, <2>4, <2>5, <2>6, <2>7, <2>8 DEF KeptOK
<1>18. ASSUME NEW f \in Reads
       PROVE  Progress(f)' /\ Held(f)'
    <2>1. CASE f \in over
        BY <1>10, <2>1 DEF Progress, Held, NoFuture
    <2>2. CASE f \notin over
        <3>1. Progress(f) /\ Held(f) /\ fut'[f] = fut[f] /\ fut[f].bufs \subseteq Bufs
            BY <1>0, <1>10, <2>2, Members
        <3>2. CASE fut[f].st = "idle"
            BY <3>1, <3>2 DEF Progress, Held
        <3>3. ASSUME NEW n \in kept', n.fut = f, n.bufs = fut[f].bufs
              PROVE  Progress(f)' /\ Held(f)'
            <4>1. n.bufs \cap bufs = {}
                BY <1>14b, <3>3
            <4>2. \A b \in fut[f].bufs : xfer'[b] = xfer[b]
                BY <1>9, <3>1, <3>3, <4>1
            <4>3. Progress(f)'
                BY <3>1, <4>2 DEF Progress
            <4> QED
                BY <3>3, <4>3 DEF Held
        <3>4. CASE \E p \in pending : p.fut = f
            <4>1. PICK p \in pending : p.fut = f
                BY <3>4
            <4>2. ~Done(p) /\ p \in keep /\ BuffersOf(p) # {} /\ BuffersOf(p) = fut[f].bufs
                BY <1>4, <1>6, <2>2, <4>1, ReadHolds, Members, <1>0
            <4>3. PICK n \in KeptOf(keep, FALSE) : n.bufs = BuffersOf(p) /\ n = KeepRead(p, FALSE)
                BY <4>2 DEF KeptOf, KeepRead
            <4>4. n.fut = f /\ n \in kept'
                BY <1>5, <4>1, <4>2, <4>3 DEF KeepRead
            <4> QED
                BY <3>3, <4>2, <4>3, <4>4
        <3>5. CASE \E k \in kept : k.fut = f
            <4>1. PICK k \in kept : k.fut = f
                BY <3>5
            <4>2. fut[f].bufs = k.bufs /\ Disown(k) \in kept'
                BY <1>0, <1>5, <4>1, Members DEF KeptOK
            <4> QED
                BY <1>12, <3>3, <4>1, <4>2
        <3> QED
            BY <3>1, <3>2, <3>4, <3>5 DEF Held
    <2> QED
        BY <2>1, <2>2
<1>19. ASSUME NEW b \in Bufs, Placed(b), b \notin bufs
       PROVE  b \in dead' \/ (\E n \in kept' : b \in n.bufs)
                \/ \E p \in finished : b \in BuffersOf(p)
    <2>1. CASE b \in dead
        BY <1>5, <2>1
    <2>2. CASE \E k \in kept : b \in k.bufs
        BY <1>5, <1>12, <2>2
    <2>3. ASSUME NEW p \in pending, b \in BuffersOf(p)
          PROVE  b \in dead' \/ (\E n \in kept' : b \in n.bufs) \/ p \in finished
        <3>1. CASE p \in keep
            <4>1. b \in NeverFreedOf(keep) \/ \E k \in KeptOf(keep, FALSE) : b \in k.bufs
                BY <2>3, <3>1, BuffersStayKept
            <4> QED
                BY <1>5, <4>1
        <3> QED
            BY <1>1, <1>3, <3>1
    <2> QED
        BY <1>19, <2>1, <2>2, <2>3, ReadHolds DEF Placed
<1>20. ASSUME NEW b \in Bufs
       PROVE  TransferOK(b)'
    <2>1. SUFFICES ASSUME xfer'[b].st = "moving"
                   PROVE  Placed(b)' /\ \E u \in Uuids : xfer'[b].src = u /\ owner'[u] # 0
        BY DEF TransferOK
    <2>2. xfer'[b] = xfer[b] /\ TransferOK(b)
        BY <1>0, <1>9, <2>1
    <2>3. Placed(b) /\ \E u \in Uuids : xfer'[b].src = u /\ owner'[u] # 0
        BY <1>5, <2>1, <2>2 DEF TransferOK
    <2>4. \A p \in pending : b \in BuffersOf(p) => p \in keep
        BY <1>6, <2>1, <2>2, ReadHolds
    <2>5. CASE b \in bufs
        <3>1. PICK u \in Uuids : store[u] = b /\ \A p \in keep : u \notin p.uuids
            BY <1>7, <2>5
        <3>2. ~BeingRead(u)
            BY <2>4, <3>1, ReadHolds DEF BeingRead
        <3> QED
            BY <2>1, <2>2, <3>1, <3>2, SharedHolds, Members, <1>0
    <2>6. CASE b \notin bufs
        BY <1>3, <1>6, <1>19, <2>1, <2>2, <2>3, <2>6, ReadHolds DEF Placed
    <2> QED
        BY <2>5, <2>6
<1>21. ASSUME NEW u \in Uuids
       PROVE  RefsOK(u)' /\ OwedOK(u)'
    <2>1. Uses(u)' = {} /\ Naming(pending', u) = {} /\ ref'[u] = 0 /\ store'[u] = None
        BY <1>5 DEF Uses, Naming
    <2>2. Claims(u)' = {}
        BY <2>1 DEF Claims
    <2>3. owed'[u] \in Nat /\ owner'[u] <= life'
        BY <1>5, <1>15 DEF TypeOK, Inv, OwedOK
    <2> QED
        BY <2>1, <2>2, <2>3, FS_EmptySet DEF RefsOK, OwedOK
<1>22. EndOK'
    <2>1. ASSUME NEW b \in pinned'
          PROVE  b \in Used'
        <3>1. b \in pinned /\ b \in Bufs /\ b \in Used /\ (b \in bufs => b \in odd)
            BY <1>0, <1>5 DEF EndOK, TypeOK
        <3>2. dead' \subseteq Used' /\ \A n \in kept' : n.bufs \subseteq Used'
            BY DEF Used
        <3>3. b \in bufs => b \in dead'
            BY <1>5, <3>1
        <3>5. CASE b \notin bufs
            <4>1. CASE \E p \in keep : b \in BuffersOf(p)
                <5>1. PICK p \in keep : b \in BuffersOf(p)
                    BY <4>1
                <5>2. b \in NeverFreedOf(keep) \/ \E k \in KeptOf(keep, FALSE) : b \in k.bufs
                    BY <5>1, BuffersStayKept
                <5> QED
                    BY <1>5, <3>2, <5>2
            <4>2. CASE b \in dead \/ \E k \in kept : b \in k.bufs
                BY <1>5, <1>12, <3>2, <4>2
            <4>3. CASE \E u \in Uuids : store[u] = b
                BY <1>6, <1>7, <3>1, <3>5, <4>1, <4>3, ReadHolds, Members, <1>0
            <4> QED
                BY <3>1, <4>2, <4>3, UsedHolds
        <3> QED
            BY <3>2, <3>3, <3>5
    <2> QED
        BY <1>5, <2>1 DEF EndOK
<1> QED
    BY <1>5, <1>15, <1>16, <1>17, <1>18, <1>20, <1>21, <1>22 DEF Inv

-----------------------------------------------------------------------------
(* Results are collected *)

\* What becomes of kept buffers: those that are not lost know of every transfer that goes on.
LEMMA KeptTurns ==
    ASSUME Inv, NEW odd, NEW k \in kept
    PROVE  /\ RunningOf(k) \subseteq k.bufs /\ MovingOf(k) \subseteq k.bufs /\ k.bufs \subseteq Bufs
           /\ Ran(k) /\ ~Lost(k, odd) => \A b \in k.bufs : xfer[b].st = "moving" => b \in MovingOf(k)
           /\ Released(k, odd) => \A b \in k.bufs : xfer[b].st # "moving"
           /\ FromKept(StillKept(k), k) /\ StillKept(k).bufs = k.bufs /\ StillKept(k).own = k.own
           /\ StillKept(k) \in [bufs : SUBSET Bufs, fut : Reads \cup {None}, own : BOOLEAN,
                                running : SUBSET Bufs]
           /\ Ran(k) => StillKept(k).fut = None /\ StillKept(k).running = MovingOf(k)
           /\ ~Ran(k) => StillKept(k) = k /\ k.fut # None
<1>1. /\ KeptOK(k) /\ k.bufs \subseteq Bufs /\ k.fut \in Reads \cup {None}
      /\ k \in [bufs : SUBSET Bufs, fut : Reads \cup {None}, own : BOOLEAN, running : SUBSET Bufs]
    BY Members DEF Inv, TypeOK
<1>2. RunningOf(k) \subseteq k.bufs /\ MovingOf(k) \subseteq k.bufs
    BY <1>1 DEF RunningOf, MovingOf, KeptOK
<1>3. ASSUME Ran(k), ~Lost(k, odd), NEW b \in k.bufs, xfer[b].st = "moving"
      PROVE  b \in MovingOf(k)
    <2>1. CASE k.fut = None
        BY <1>1, <1>3, <2>1 DEF KeptOK, MovingOf, RunningOf
    <2>2. CASE k.fut # None
        <3>1. /\ Progress(k.fut) /\ fut[k.fut].bufs = k.bufs /\ Done(k)
              /\ fut[k.fut].unknown \cap k.bufs = {}
            BY <1>1, <1>3, <2>2 DEF Inv, KeptOK, Ran, Lost, Learned
        <3>2. b \in fut[k.fut].running
            BY <1>3, <2>2, <3>1 DEF Progress, Done
        <3> QED
            BY <1>3, <2>2, <3>2 DEF MovingOf, RunningOf
    <2> QED
        BY <2>1, <2>2
<1>4. Released(k, odd) => \A b \in k.bufs : xfer[b].st # "moving"
    BY <1>3 DEF Released
<1>5. Ran(k) => /\ StillKept(k) = [k EXCEPT !.fut = None, !.running = MovingOf(k)]
                /\ StillKept(k).fut = None /\ StillKept(k).running = MovingOf(k)
                /\ StillKept(k).bufs = k.bufs /\ StillKept(k).own = k.own
                /\ StillKept(k) \in [bufs : SUBSET Bufs, fut : Reads \cup {None}, own : BOOLEAN,
                                     running : SUBSET Bufs]
    <2>1. PICK moving \in SUBSET Bufs : moving = MovingOf(k)
        BY <1>1, <1>2
    <2> QED
        BY <1>1, <2>1 DEF StillKept
<1>6. ~Ran(k) => StillKept(k) = k /\ k.fut # None
    BY DEF StillKept, Ran
<1> QED
    BY <1>1, <1>2, <1>3, <1>4, <1>5, <1>6 DEF FromKept

LEMMA XferTurns ==
    ASSUME Inv, NEW odd, NEW new,
           new = Cleared([b \in Bufs |-> IF b \in PolledBy THEN [xfer[b] EXCEPT !.st = "idle"] ELSE xfer[b]],
                         ReleasedBy(odd))
    PROVE  /\ new \in [Bufs -> [src : Uuids \cup {None}, st : {"idle", "moving", "done", "error", "whole"}]]
           /\ \A b \in Bufs : (\A k \in kept : b \notin k.bufs) => new[b] = xfer[b]
           /\ \A b \in Bufs : new[b].st = "moving" \/ xfer[b].st = "moving" => new[b] = xfer[b]
           /\ \A k \in kept : ~Released(k, odd) => \A b \in k.bufs : new[b].src = xfer[b].src
           /\ \A k \in kept : ~Ran(k) => \A b \in k.bufs : new[b] = xfer[b]
<1>1. PICK mid : mid = [b \in Bufs |-> IF b \in PolledBy THEN [xfer[b] EXCEPT !.st = "idle"] ELSE xfer[b]]
    OBVIOUS
<1>2. /\ \A b \in PolledBy : b \in Bufs /\ xfer[b].st # "moving" /\ \E k \in kept : Ran(k) /\ b \in k.bufs
      /\ \A b \in ReleasedBy(odd) : /\ b \in Bufs /\ xfer[b].st # "moving"
                                    /\ \E k \in kept : Released(k, odd) /\ Ran(k) /\ b \in k.bufs
    <2>1. ASSUME NEW b \in PolledBy
          PROVE  b \in Bufs /\ xfer[b].st # "moving" /\ \E k \in kept : Ran(k) /\ b \in k.bufs
        <3>1. PICK k \in kept : Ran(k) /\ b \in RunningOf(k) /\ xfer[b].st # "moving"
            BY DEF PolledBy
        <3> QED
            BY <3>1, KeptTurns
    <2>2. ASSUME NEW b \in ReleasedBy(odd)
          PROVE  /\ b \in Bufs /\ xfer[b].st # "moving"
                 /\ \E k \in kept : Released(k, odd) /\ Ran(k) /\ b \in k.bufs
        <3>1. PICK k \in kept : Released(k, odd) /\ b \in k.bufs
            BY DEF ReleasedBy
        <3> QED
            BY <3>1, KeptTurns DEF Released
    <2> QED
        BY <2>1, <2>2
<1>3. /\ \A b \in Bufs : mid[b].src = xfer[b].src
      /\ \A b \in Bufs \ PolledBy : mid[b] = xfer[b]
      /\ \A b \in PolledBy : mid[b].st = "idle"
      /\ mid \in [Bufs -> [src : Uuids \cup {None}, st : {"idle", "moving", "done", "error", "whole"}]]
    BY <1>1, <1>2 DEF Inv, TypeOK
<1>4. /\ \A b \in Bufs \ ReleasedBy(odd) : new[b] = mid[b]
      /\ \A b \in Bufs : new[b] = mid[b] \/ new[b] = Still
      /\ \A b \in Bufs : mid[b].st = "moving" => new[b] = mid[b]
      /\ new \in [Bufs -> [src : Uuids \cup {None}, st : {"idle", "moving", "done", "error", "whole"}]]
    BY <1>1, <1>3 DEF Cleared, Still
<1>5. \A b \in Bufs : (\A k \in kept : b \notin k.bufs) => new[b] = xfer[b]
    BY <1>2, <1>3, <1>4
<1>6. \A b \in Bufs : xfer[b].st = "moving" => new[b] = xfer[b]
    BY <1>2, <1>3, <1>4
<1>7. \A b \in Bufs : new[b].st = "moving" => new[b] = xfer[b]
    BY <1>3, <1>4 DEF Still
<1>8. \A k \in kept : KeptOK(k) /\ k.bufs \subseteq Bufs
    BY Members DEF Inv
<1>9. ASSUME NEW k \in kept, ~Released(k, odd), NEW b \in k.bufs
      PROVE  new[b].src = xfer[b].src
    <2>1. b \notin ReleasedBy(odd)
        BY <1>2, <1>8, <1>9 DEF KeptOK
    <2> QED
        BY <1>3, <1>4, <1>8, <2>1
<1>10. ASSUME NEW k \in kept, ~Ran(k), NEW b \in k.bufs
       PROVE  new[b] = xfer[b]
    <2>1. b \notin ReleasedBy(odd) /\ b \notin PolledBy
        BY <1>2, <1>8, <1>10 DEF KeptOK
    <2> QED
        BY <1>3, <1>4, <1>8, <2>1
<1> QED
    BY <1>4, <1>5, <1>6, <1>7, <1>9, <1>10

\* The reads that end: what was delivered or dropped is acknowledged, what failed is not.
LEMMA AcksCounted ==
    ASSUME Inv, NEW u \in Uuids, NEW rest, rest = pending \ (Bad \cup Dropped \cup Given),
           NEW new, new = Acked(Dropped \cup Given)
    PROVE  /\ new[u] \in Nat /\ Cardinality(Naming(rest, u)) \in Nat
           /\ Cardinality(Naming(rest, u)) <= new[u]
           /\ Cardinality(Naming(pending, u)) < owed[u] => Cardinality(Naming(rest, u)) < new[u]
           /\ \A p \in Bad : u \in p.edge => Cardinality(Naming(rest, u)) < new[u]
<1>1. PICK A : A = Naming(Dropped \cup Given, u)
    OBVIOUS
<1>2. PICK B : B = Naming(rest, u)
    OBVIOUS
<1>3. PICK C : C = Naming(Bad, u)
    OBVIOUS
<1>4. /\ Bad \subseteq pending /\ Dropped \cup Given \subseteq pending /\ rest \subseteq pending
      /\ Bad \cap (Dropped \cup Given) = {}
    BY DEF Bad, Dropped, Given
<1>5. /\ IsFiniteSet(A) /\ IsFiniteSet(B) /\ IsFiniteSet(C)
      /\ Cardinality(A) \in Nat /\ Cardinality(B) \in Nat /\ Cardinality(C) \in Nat
      /\ Cardinality(Naming(pending, u)) <= owed[u] /\ Cardinality(Naming(pending, u)) \in Nat
      /\ owed[u] \in Nat
    BY <1>1, <1>2, <1>3, <1>4, Counted, Members DEF Inv
<1>6. Naming(pending, u) = (A \cup B) \cup C /\ A \cap B = {} /\ (A \cup B) \cap C = {}
    BY <1>1, <1>2, <1>3, <1>4 DEF Naming
<1>7. Cardinality(A \cup B) = Cardinality(A) + Cardinality(B) /\ IsFiniteSet(A \cup B)
    <2>1. Cardinality(A \cap B) = 0
        BY <1>6, FS_EmptySet
    <2>2. /\ IsFiniteSet(A \cup B)
          /\ Cardinality(A \cup B) = Cardinality(A) + Cardinality(B) - Cardinality(A \cap B)
        BY <1>5, FS_Union
    <2> QED
        BY <1>5, <2>1, <2>2
<1>8. Cardinality(Naming(pending, u)) = Cardinality(A) + Cardinality(B) + Cardinality(C)
    <2>1. PICK D : D = A \cup B
        OBVIOUS
    <2>2. Cardinality(D \cap C) = 0
        BY <1>6, <2>1, FS_EmptySet
    <2>3. Cardinality(D \cup C) = Cardinality(D) + Cardinality(C) - Cardinality(D \cap C)
        BY <1>5, <1>7, <2>1, FS_Union
    <2>4. Cardinality(Naming(pending, u)) = Cardinality(D \cup C)
        BY <1>6, <2>1
    <2>5. Cardinality(D) = Cardinality(A) + Cardinality(B)
        BY <1>7, <2>1
    <2> QED
        BY <1>5, <2>2, <2>3, <2>4, <2>5
<1>9. new[u] = owed[u] - Cardinality(A)
    BY <1>1 DEF Acked
<1>10. ASSUME NEW p \in Bad, u \in p.edge
       PROVE  Cardinality(C) # 0
    <2>1. C # {}
        BY <1>3, <1>10 DEF Naming
    <2> QED
        BY <1>5, <2>1, FS_EmptySet
<1>11. \A p \in Bad : u \in p.edge => Cardinality(B) < new[u]
    BY <1>5, <1>8, <1>9, <1>10
<1>12. Cardinality(B) <= new[u] /\ new[u] \in Nat
    BY <1>5, <1>8, <1>9
<1>13. Cardinality(Naming(pending, u)) < owed[u] => Cardinality(B) < new[u]
    BY <1>5, <1>8, <1>9
<1> QED
    BY <1>2, <1>5, <1>11, <1>12, <1>13

LEMMA CheckKeeps ==
    ASSUME Inv, NEW odd, CheckReady(odd)
    PROVE  Inv'
<1>0. /\ \A p \in pending : ReadOK(p)
      /\ \A k \in kept : KeptOK(k)
      /\ \A f \in Reads : Progress(f) /\ Held(f)
      /\ \A b \in Bufs : TransferOK(b)
      /\ \A u \in Uuids : RefsOK(u) /\ OwedOK(u)
      /\ TypeOK /\ Numbered /\ StoreOK /\ SharedOK /\ EndOK
    BY DEF Inv
<1>1. PICK ended : ended = Bad \cup Dropped \cup Given
    OBVIOUS
<1>2. PICK tensors : tensors = UNION {p.edge : p \in Given}
    OBVIOUS
<1>3. PICK over : over = {p.fut : p \in ended} \cup RanFutures
    OBVIOUS
<1>4. PICK taken : taken = UNION {p.uuids : p \in Bad}
    OBVIOUS
<1>5. /\ pending' = pending \ ended
      /\ kept' = KeptAfter(odd) \cup KeptOf(Bad, TRUE)
      /\ dead' = dead \cup LostBy(odd) \cup NeverFreedOf(Bad)
      /\ pinned' = pinned \ ReleasedBy(odd)
      /\ store' = [u \in Uuids |-> IF u \in taken THEN None ELSE store[u]]
      /\ ref' = [u \in Uuids |-> IF u \in taken THEN 0
                                 ELSE IF u \in tensors \ seen THEN ref[u] - 1 ELSE ref[u]]
      /\ seen' = seen \cup tensors
      /\ using' = using \cup {[no |-> p.no, edge |-> p.edge] : p \in Given}
      /\ failed' = (failed \/ Bad # {})
      /\ fut' = [f \in Reads |-> IF f \in over THEN NoFuture ELSE fut[f]]
      /\ xfer' = Cleared([b \in Bufs |-> IF b \in PolledBy THEN [xfer[b] EXCEPT !.st = "idle"] ELSE xfer[b]],
                         ReleasedBy(odd))
      /\ owed' = Acked(Dropped \cup Given)
      /\ UNCHANGED <<life, creq, owner, sent>>
    BY <1>1, <1>2, <1>3, <1>4 DEF CheckReady
<1>6. /\ Bad \subseteq pending /\ Dropped \subseteq pending /\ Given \subseteq pending /\ ended \subseteq pending
      /\ \A p \in Bad : Failed(p)
      /\ \A p \in Dropped \cup Given : Done(p) /\ ~Failed(p) /\ p \notin Bad
      /\ \A p \in ended : p \in Bad \/ p \in Dropped \cup Given
      /\ \A p \in pending : Failed(p) => p \in Bad
      /\ \A p \in Given : ~failed /\ \A q \in Bad : ~(q.no < p.no)
      /\ \A p \in Given : \A q \in pending : q.no <= p.no => Done(q)
    <2>1. /\ Bad \subseteq pending /\ Dropped \subseteq pending /\ Given \subseteq pending
          /\ \A p \in pending : Failed(p) <=> p \in Bad
          /\ \A p \in Dropped \cup Given : p \notin Bad
        BY DEF Bad, Dropped, Given
    <2>2. \A p \in Given : ~failed /\ \A q \in Bad : ~(q.no < p.no)
        BY DEF Given, Spoiled
    <2>3. \A p \in Given : \A q \in pending : q.no <= p.no => Done(q)
        BY DEF Given
    <2>4. \A p \in Given : Done(p)
        BY <1>0, <2>1, <2>3, Members
    <2>5. \A p \in Dropped : Done(p)
        BY DEF Dropped
    <2> QED
        BY <1>1, <2>1, <2>2, <2>3, <2>4, <2>5
<1>7. /\ xfer' \in [Bufs -> [src : Uuids \cup {None}, st : {"idle", "moving", "done", "error", "whole"}]]
      /\ \A b \in Bufs : (\A k \in kept : b \notin k.bufs) => xfer'[b] = xfer[b]
      /\ \A b \in Bufs : xfer'[b].st = "moving" \/ xfer[b].st = "moving" => xfer'[b] = xfer[b]
      /\ \A k \in kept : ~Released(k, odd) => \A b \in k.bufs : xfer'[b].src = xfer[b].src
      /\ \A k \in kept : ~Ran(k) => \A b \in k.bufs : xfer'[b] = xfer[b]
    <2>1. PICK x : x = xfer'
        OBVIOUS
    <2>2. x = Cleared([b \in Bufs |-> IF b \in PolledBy THEN [xfer[b] EXCEPT !.st = "idle"] ELSE xfer[b]],
                      ReleasedBy(odd))
        BY <1>5, <2>1
    <2>3. /\ x \in [Bufs -> [src : Uuids \cup {None}, st : {"idle", "moving", "done", "error", "whole"}]]
          /\ \A b \in Bufs : (\A k \in kept : b \notin k.bufs) => x[b] = xfer[b]
          /\ \A b \in Bufs : x[b].st = "moving" \/ xfer[b].st = "moving" => x[b] = xfer[b]
          /\ \A k \in kept : ~Released(k, odd) => \A b \in k.bufs : x[b].src = xfer[b].src
          /\ \A k \in kept : ~Ran(k) => \A b \in k.bufs : x[b] = xfer[b]
        BY <2>2, XferTurns
    <2> QED
        BY <2>1, <2>3
<1>8. /\ \A u \in taken : u \in Uuids /\ \E p \in Bad : u \in p.uuids
      /\ \A p \in Bad : p.uuids \subseteq taken
      /\ \A u \in taken : store'[u] = None
      /\ \A u \in Uuids \ taken : store'[u] = store[u]
      /\ \A u \in Uuids : store'[u] # None => u \notin taken
      /\ store' \in [Uuids -> Bufs \cup {None}]
    <2>1. (\A u \in taken : \E p \in Bad : u \in p.uuids) /\ \A p \in Bad : p.uuids \subseteq taken
        BY <1>4
    <2>2. \A u \in taken : u \in Uuids
        BY <1>0, <1>6, <2>1, Members
    <2> QED
        BY <1>0, <1>5, <2>1, <2>2 DEF TypeOK
<1>9. /\ \A u \in tensors : u \in Uuids /\ \E p \in Given : u \in p.edge
      /\ \A p \in Given : p.edge \subseteq tensors
    <2>1. (\A u \in tensors : \E p \in Given : u \in p.edge) /\ \A p \in Given : p.edge \subseteq tensors
        BY <1>2
    <2> QED
        BY <1>0, <1>6, <2>1, Members
<1>10. /\ \A f \in Reads : f \in over => fut'[f] = NoFuture
       /\ \A f \in Reads : f \notin over => fut'[f] = fut[f]
       /\ fut' \in [Reads -> Futures]
    BY <1>0, <1>5 DEF TypeOK, NoFuture, Futures
<1>11. /\ \A f \in over : (\E p \in ended : p.fut = f) \/ \E k \in kept : Ran(k) /\ k.fut = f /\ f # None
       /\ \A p \in ended : p.fut \in over
       /\ \A k \in kept : Ran(k) /\ k.fut # None => k.fut \in over
    BY <1>3 DEF RanFutures
<1>12. /\ \A p \in pending' : p.fut # None => p.fut \in Reads /\ p.fut \notin over /\ fut'[p.fut] = fut[p.fut]
       /\ \A k \in kept : ~Ran(k) => k.fut \in Reads /\ k.fut \notin over /\ fut'[k.fut] = fut[k.fut]
    <2>1. ASSUME NEW p \in pending', p.fut # None
          PROVE  p.fut \in Reads /\ p.fut \notin over
        BY <1>0, <1>5, <1>6, <1>11, <2>1, Members DEF ReadOK, KeptOK
    <2>2. ASSUME NEW k \in kept, ~Ran(k)
          PROVE  k.fut \in Reads /\ k.fut \notin over
        <3>1. k.fut # None /\ k.fut \in Reads
            BY <1>0, <2>2, Members DEF Ran
        <3> QED
            BY <1>0, <1>6, <1>11, <2>2, <3>1 DEF KeptOK
    <2> QED
        BY <1>10, <2>1, <2>2
<1>13. ASSUME NEW n \in kept'
       PROVE  \/ \E k \in kept : /\ n = StillKept(k) /\ FromKept(n, k)
                                 /\ ~Lost(k, odd) /\ ~Released(k, odd)
              \/ \E p \in Bad : /\ n = KeepRead(p, TRUE) /\ FromRead(n, p) /\ BuffersOf(p) # {}
                                /\ p \in pending /\ Learned(p.fut, BuffersOf(p))
    <2>1. CASE n \in KeptAfter(odd)
        BY <2>1, KeptTurns DEF KeptAfter
    <2>2. CASE n \in KeptOf(Bad, TRUE)
        <3>1. PICK p \in Bad : /\ n = KeepRead(p, TRUE) /\ BuffersOf(p) # {}
                               /\ Done(p) => Learned(p.fut, BuffersOf(p))
            BY <2>2, KeptOfHolds
        <3>2. p \in pending /\ Failed(p) /\ Done(p)
            BY <1>6, ReadHolds
        <3> QED
            BY <3>1, <3>2, KeepReadHolds
    <2> QED
        BY <1>5, <2>1, <2>2
<1>14. ASSUME NEW p \in Bad, BuffersOf(p) # {}, Learned(p.fut, BuffersOf(p)), NEW n, n = KeepRead(p, TRUE)
       PROVE  /\ n.own /\ n.bufs = BuffersOf(p) /\ n.bufs \subseteq Bufs /\ n.fut = None
              /\ n.running = fut[p.fut].running \cap BuffersOf(p)
              /\ n \in [bufs : SUBSET Bufs, fut : Reads \cup {None}, own : BOOLEAN, running : SUBSET Bufs]
              /\ \A b \in n.bufs : xfer[b].st = "moving" => b \in n.running
    <2>1. p \in pending /\ Failed(p) /\ Done(p)
        BY <1>6, ReadHolds
    <2> QED
        BY <1>14, <2>1, KeepReadHolds
<1>15. /\ \A b \in LostBy(odd) : \E k \in kept : Lost(k, odd) /\ b \in k.bufs
       /\ \A k \in kept : Lost(k, odd) => k.bufs \subseteq LostBy(odd)
       /\ \A b \in ReleasedBy(odd) : \E k \in kept : Released(k, odd) /\ b \in k.bufs
       /\ \A k \in kept : Released(k, odd) => k.bufs \subseteq ReleasedBy(odd)
       /\ \A b \in NeverFreedOf(Bad) : \E p \in Bad : b \in BuffersOf(p) /\ ~Learned(p.fut, BuffersOf(p))
    BY DEF LostBy, ReleasedBy, NeverFreedOf
<1>16. TypeOK'
    <2>1. kept' \subseteq [bufs : SUBSET Bufs, fut : Reads \cup {None}, own : BOOLEAN, running : SUBSET Bufs]
        <3>1. \A k \in kept : StillKept(k) \in [bufs : SUBSET Bufs, fut : Reads \cup {None}, own : BOOLEAN,
                                                running : SUBSET Bufs]
            BY KeptTurns
        <3>2. ASSUME NEW n \in kept'
              PROVE  n \in [bufs : SUBSET Bufs, fut : Reads \cup {None}, own : BOOLEAN, running : SUBSET Bufs]
            <4>1. CASE \E k \in kept : n = StillKept(k)
                BY <3>1, <4>1
            <4>2. CASE \E p \in Bad : /\ n = KeepRead(p, TRUE) /\ BuffersOf(p) # {}
                                      /\ Learned(p.fut, BuffersOf(p))
                BY <1>14, <4>2
            <4> QED
                BY <1>13, <4>1, <4>2
        <3> QED
            BY <3>2
    <2>2. dead' \subseteq Bufs
        BY <1>0, <1>5, <1>6, <1>15, Members, ReadHolds DEF TypeOK
    <2>3. owed' \in [Uuids -> Nat]
        <3>1. \A u \in Uuids : owed'[u] \in Nat
            BY <1>1, <1>5, AcksCounted
        <3> QED
            BY <1>5, <3>1 DEF Acked
    <2>4. ASSUME NEW u \in tensors \ seen, u \notin taken
          PROVE  ref[u] - 1 \in Nat
        <3>1. PICK p \in Given : u \in p.edge /\ p \in pending /\ ~failed
            BY <1>6, <1>9, <2>4
        <3>2. u \in Uuids /\ store[u] # None
            BY <1>0, <1>9, <2>4, <3>1 DEF SharedOK
        <3>3. Cardinality(Claims(u)) < ref[u] /\ Cardinality(Claims(u)) \in Nat /\ ref[u] \in Nat
            BY <1>0, <2>4, <3>1, <3>2, ClaimsCounted, Members DEF RefsOK
        <3> QED
            BY <3>3
    <2>5. ref' \in [Uuids -> Nat]
        BY <1>0, <1>5, <2>4 DEF TypeOK
    <2>6. using' \subseteq Handed
        BY <1>0, <1>5, <1>6, Members DEF TypeOK, Handed
    <2>7. seen' \subseteq Uuids /\ failed' \in BOOLEAN
        BY <1>0, <1>5, <1>9 DEF TypeOK
    <2> QED
        BY <1>0, <1>5, <1>7, <1>8, <1>10, <2>1, <2>2, <2>3, <2>5, <2>6, <2>7 DEF TypeOK
<1>17. Numbered'
    <2>1. \A x \in using' : x \in using \/ \E p \in Given : x.no = p.no /\ x.edge = p.edge
                                                            /\ x = [no |-> p.no, edge |-> p.edge]
        BY <1>5
    <2> QED
        BY <1>0, <1>1, <1>5, <1>6, <2>1 DEF Numbered
<1>18. StoreOK'
    <2>1. \A u, v \in Uuids : store'[u] = store'[v] => u = v \/ store'[u] = None
        BY <1>0, <1>8 DEF StoreOK
    <2>2. ASSUME NEW u \in Uuids, store'[u] \in dead'
          PROVE  FALSE
        <3>1. CASE u \in taken
            BY <1>0, <1>8, <1>16, <2>2, <3>1, Members DEF TypeOK
        <3>2. CASE u \notin taken
            <4>1. store'[u] = store[u] /\ store[u] \notin dead /\ store[u] \notin LostBy(odd)
                BY <1>0, <1>8, <1>15, <3>2 DEF StoreOK, KeptOK
            <4>2. ASSUME NEW p \in Bad, store[u] \in BuffersOf(p)
                  PROVE  FALSE
                <5>1. PICK v \in p.uuids : store[v] = store[u] /\ v \in taken /\ v \in Uuids /\ store[u] # None
                    BY <1>0, <1>6, <1>8, <4>2, ReadHolds, Members
                <5> QED
                    BY <1>0, <3>2, <5>1 DEF StoreOK
            <4> QED
                BY <1>5, <1>15, <2>2, <4>1, <4>2
        <3> QED
            BY <3>1, <3>2
    <2> QED
        BY <2>1, <2>2 DEF StoreOK
<1>19. ASSUME NEW p \in pending'
       PROVE  ReadOK(p)'
    <2>1. ReadOK(p) /\ p \in pending /\ p \notin Bad /\ p.uuids \subseteq Uuids
        BY <1>0, <1>1, <1>5, Members
    <2>2. \A u \in p.uuids : u \notin taken
        BY <1>6, <1>8, <2>1 DEF ReadOK
    <2>3. \A u \in p.uuids : store'[u] = store[u] /\ store[u] \in Bufs
        BY <1>0, <1>8, <2>1, <2>2, Members DEF ReadOK
    <2>4. \A u \in p.uuids : xfer'[store[u]] = xfer[store[u]]
        BY <1>0, <1>7, <2>1, <2>3 DEF KeptOK
    <2>5. \A u \in p.uuids : store'[u] # None /\ xfer'[store'[u]].src = u
        BY <2>1, <2>3, <2>4 DEF ReadOK
    <2>6. {store'[u] : u \in p.uuids} = {store[u] : u \in p.uuids}
        BY <2>3
    <2>7. p.fut # None => fut'[p.fut].st # "idle" /\ fut'[p.fut].bufs = {store'[u] : u \in p.uuids}
        BY <1>12, <2>1, <2>6 DEF ReadOK
    <2>8. \A q \in pending' \ {p} : p.uuids \cap q.uuids = {} /\ (p.fut = q.fut => p.fut = None)
        BY <1>5, <2>1 DEF ReadOK
    <2>9. \A u \in p.edge : owner'[u] = life'
        BY <1>5, <2>1 DEF ReadOK
    <2> QED
        BY <2>1, <2>5, <2>7, <2>8, <2>9 DEF ReadOK
<1>20. \A u \in Uuids : Naming(pending', u) = Naming(pending \ (Bad \cup Dropped \cup Given), u)
    BY <1>1, <1>5
<1>21. ASSUME NEW u \in Uuids
       PROVE  /\ owed'[u] \in Nat /\ Cardinality(Naming(pending', u)) \in Nat
              /\ Cardinality(Naming(pending', u)) <= owed'[u]
              /\ Cardinality(Naming(pending, u)) < owed[u] => Cardinality(Naming(pending', u)) < owed'[u]
              /\ \A p \in Bad : u \in p.edge => Cardinality(Naming(pending', u)) < owed'[u]
    <2>1. PICK rest : rest = pending \ (Bad \cup Dropped \cup Given)
        OBVIOUS
    <2>2. PICK new : new = Acked(Dropped \cup Given)
        OBVIOUS
    <2>3. owed' = new /\ pending' = rest
        BY <1>1, <1>5, <2>1, <2>2
    <2>4. /\ new[u] \in Nat /\ Cardinality(Naming(rest, u)) \in Nat
          /\ Cardinality(Naming(rest, u)) <= new[u]
          /\ Cardinality(Naming(pending, u)) < owed[u] => Cardinality(Naming(rest, u)) < new[u]
          /\ \A p \in Bad : u \in p.edge => Cardinality(Naming(rest, u)) < new[u]
        BY <2>1, <2>2, AcksCounted
    <2> QED
        BY <2>3, <2>4
<1>22. ASSUME NEW n \in kept', NEW m \in kept', m # n
       PROVE  Separate(m, n)
    <2>1. CASE \E k \in kept : n = StillKept(k) /\ FromKept(n, k)
        <3>1. PICK k \in kept : n = StillKept(k) /\ FromKept(n, k)
            BY <2>1
        <3>2. (\E j \in kept : j # k /\ FromKept(m, j)) \/ \E p \in pending : FromRead(m, p)
            BY <1>13, <1>22, <3>1
        <3> QED
            BY <3>1, <3>2, OriginsApart
    <2>2. CASE \E p \in Bad : n = KeepRead(p, TRUE) /\ FromRead(n, p)
        <3>1. PICK p \in pending : n = KeepRead(p, TRUE) /\ FromRead(n, p)
            BY <1>6, <2>2
        <3>2. (\E k \in kept : FromKept(m, k)) \/ \E q \in pending : q # p /\ FromRead(m, q)
            BY <1>13, <1>22, <3>1
        <3> QED
            BY <3>1, <3>2, OriginsApart
    <2> QED
        BY <1>13, <2>1, <2>2
<1>23. ASSUME NEW k \in kept, ~Lost(k, odd), ~Released(k, odd), NEW n, n = StillKept(k)
       PROVE  /\ n.bufs # {} /\ n.running \subseteq n.bufs /\ n.bufs \subseteq Bufs /\ n.bufs \cap dead' = {}
              /\ \A u \in Uuids : store'[u] \notin n.bufs
              /\ \A b \in n.bufs : \E u \in Uuids : xfer'[b].src = u /\ owner'[u] # 0
              /\ n.fut = None => \A b \in n.bufs : xfer'[b].st = "moving" => b \in n.running
              /\ n.fut # None => /\ fut'[n.fut].st # "idle" /\ fut'[n.fut].bufs = n.bufs
                                 /\ \A p \in pending' : p.fut # n.fut
              /\ n.own => /\ creq' # "gone"
                          /\ \A b \in n.bufs : \E u \in Uuids :
                                /\ xfer'[b].src = u /\ owner'[u] = life'
                                /\ Cardinality(Naming(pending', u)) < owed'[u]
    <2>1. /\ KeptOK(k) /\ k.bufs \subseteq Bufs /\ n.bufs = k.bufs /\ n.own = k.own
          /\ Ran(k) => n.fut = None /\ n.running = MovingOf(k) /\ MovingOf(k) \subseteq k.bufs
          /\ ~Ran(k) => n = k /\ k.fut # None
          /\ Ran(k) => \A b \in k.bufs : xfer[b].st = "moving" => b \in MovingOf(k)
        BY <1>0, <1>23, KeptTurns
    <2>2. \A b \in k.bufs : xfer'[b].src = xfer[b].src
        BY <1>7, <1>23
    <2>3. k.bufs \cap dead' = {}
        <3>1. k.bufs \cap LostBy(odd) = {}
            BY <1>0, <1>15, <1>23 DEF KeptOK
        <3>2. k.bufs \cap NeverFreedOf(Bad) = {}
            BY <1>6, <1>15, ReadHolds
        <3> QED
            BY <1>5, <2>1, <3>1, <3>2 DEF KeptOK
    <2>4. \A u \in Uuids : store'[u] \notin k.bufs
        BY <1>0, <1>8, <2>1, Members DEF KeptOK
    <2>5. ASSUME NEW b \in k.bufs
          PROVE  \E u \in Uuids : xfer'[b].src = u /\ owner'[u] # 0
        <3>1. PICK u \in Uuids : xfer[b].src = u /\ owner[u] # 0
            BY <2>1 DEF KeptOK
        <3> QED
            BY <1>5, <2>2, <3>1
    <2>6. Ran(k) => \A b \in k.bufs : xfer'[b].st = "moving" => b \in n.running
        BY <1>7, <2>1
    <2>7. ~Ran(k) => /\ fut'[k.fut].st # "idle" /\ fut'[k.fut].bufs = k.bufs
                     /\ \A p \in pending' : p.fut # k.fut
        BY <1>5, <1>12, <2>1 DEF KeptOK
    <2>8. ASSUME k.own, NEW b \in k.bufs
          PROVE  \E u \in Uuids : /\ xfer'[b].src = u /\ owner'[u] = life'
                                  /\ Cardinality(Naming(pending', u)) < owed'[u]
        <3>1. PICK u \in Uuids : /\ xfer[b].src = u /\ owner[u] = life
                                 /\ Cardinality(Naming(pending, u)) < owed[u]
            BY <2>1, <2>8 DEF KeptOK
        <3>2. Cardinality(Naming(pending', u)) < owed'[u]
            BY <1>21, <3>1
        <3> QED
            BY <1>5, <2>2, <2>8, <3>1, <3>2
    <2>9. k.own => creq' # "gone"
        BY <1>5, <2>1 DEF KeptOK
    <2>10. n.fut = None <=> Ran(k)
        BY <2>1
    <2>11. n.bufs # {} /\ n.running \subseteq n.bufs /\ (~Ran(k) => n.fut = k.fut)
        BY <2>1 DEF KeptOK
    <2> QED
        BY <2>1, <2>3, <2>4, <2>5, <2>6, <2>7, <2>8, <2>9, <2>10, <2>11
<1>24. ASSUME NEW q \in Bad, BuffersOf(q) # {}, Learned(q.fut, BuffersOf(q)), NEW n, n = KeepRead(q, TRUE)
       PROVE  /\ n.bufs # {} /\ n.running \subseteq n.bufs /\ n.bufs \subseteq Bufs /\ n.bufs \cap dead' = {}
              /\ \A u \in Uuids : store'[u] \notin n.bufs
              /\ \A b \in n.bufs : \E u \in Uuids : xfer'[b].src = u /\ owner'[u] # 0
              /\ n.fut = None /\ \A b \in n.bufs : xfer'[b].st = "moving" => b \in n.running
              /\ n.own => /\ creq' # "gone"
                          /\ \A b \in n.bufs : \E u \in Uuids :
                                /\ xfer'[b].src = u /\ owner'[u] = life'
                                /\ Cardinality(Naming(pending', u)) < owed'[u]
    <2>0. /\ n.own /\ n.bufs = BuffersOf(q) /\ n.bufs \subseteq Bufs /\ n.fut = None
          /\ n.running = fut[q.fut].running \cap BuffersOf(q)
          /\ \A b \in n.bufs : xfer[b].st = "moving" => b \in n.running
        BY <1>14, <1>24
    <2>1. /\ n.own /\ n.bufs = BuffersOf(q) /\ n.bufs \subseteq Bufs /\ n.fut = None
          /\ n.running \subseteq n.bufs /\ q \in pending
          /\ \A b \in n.bufs : xfer[b].st = "moving" => b \in n.running
        BY <1>6, <2>0
    <2>2. \A b \in n.bufs : xfer'[b] = xfer[b]
        BY <1>7, <2>1, ReadHolds
    <2>3. n.bufs \cap dead' = {}
        <3>1. BuffersOf(q) \cap LostBy(odd) = {} /\ BuffersOf(q) \cap dead = {}
            BY <1>15, <2>1, ReadHolds
        <3>2. ASSUME NEW b \in BuffersOf(q), NEW p \in Bad, b \in BuffersOf(p), ~Learned(p.fut, BuffersOf(p))
              PROVE  FALSE
            <4>1. p # q /\ p \in pending
                BY <1>6, <1>24, <3>2
            <4>2. PICK m : m = [bufs |-> BuffersOf(p), fut |-> None]
                OBVIOUS
            <4>3. PICK l : l = [bufs |-> BuffersOf(q), fut |-> None]
                OBVIOUS
            <4>4. Separate(m, l)
                BY <2>1, <4>1, <4>2, <4>3, OriginsApart DEF FromRead
            <4> QED
                BY <3>2, <4>2, <4>3, <4>4 DEF Separate
        <3>3. BuffersOf(q) \cap NeverFreedOf(Bad) = {}
            BY <1>15, <3>2
        <3> QED
            BY <1>5, <2>1, <3>1, <3>3
    <2>4. ASSUME NEW b \in n.bufs
          PROVE  \E u \in Uuids : /\ xfer'[b].src = u /\ owner'[u] = life' /\ owner'[u] # 0
                                  /\ Cardinality(Naming(pending', u)) < owed'[u]
        <3>1. PICK u \in q.uuids : store[u] = b /\ xfer[b].src = u
            BY <2>1, <2>4, ReadHolds
        <3>2. u \in q.edge /\ u \in Uuids /\ owner[u] = life /\ owner[u] # 0
            BY <2>1, <3>1, ReadHolds
        <3>3. Cardinality(Naming(pending', u)) < owed'[u]
            BY <1>21, <3>2
        <3> QED
            BY <1>5, <2>2, <2>4, <3>1, <3>2, <3>3
    <2>5. ASSUME NEW u \in Uuids, store'[u] \in n.bufs
          PROVE  FALSE
        <3>1. u \notin taken /\ store'[u] = store[u]
            BY <1>0, <1>8, <2>1, <2>5, Members
        <3>2. PICK v \in q.uuids : store[v] = store[u] /\ v \in Uuids
            BY <1>0, <2>1, <2>5, <3>1, ReadHolds, Members
        <3>3. store[u] # None
            BY <1>0, <2>1, <2>5, <3>1, Members
        <3> QED
            BY <1>0, <1>8, <3>1, <3>2, <3>3 DEF StoreOK
    <2>6. creq' # "gone"
        BY <1>0, <1>5, <2>1 DEF EndOK
    <2>7. \A b \in n.bufs : xfer'[b].st = "moving" => b \in n.running
        BY <2>1, <2>2
    <2> QED
        BY <1>24, <2>1, <2>3, <2>4, <2>5, <2>6, <2>7
<1>25. ASSUME NEW n \in kept'
       PROVE  KeptOK(n)'
    <2>1. \A m \in kept' \ {n} : m.bufs \cap n.bufs = {} /\ (m.fut = n.fut => n.fut = None)
        BY <1>22 DEF Separate
    <2>2. CASE \E k \in kept : n = StillKept(k) /\ ~Lost(k, odd) /\ ~Released(k, odd)
        <3>1. PICK k \in kept : n = StillKept(k) /\ ~Lost(k, odd) /\ ~Released(k, odd)
            BY <2>2
        <3> QED
            BY <1>23, <2>1, <3>1 DEF KeptOK
    <2>3. CASE \E q \in Bad : n = KeepRead(q, TRUE) /\ BuffersOf(q) # {} /\ Learned(q.fut, BuffersOf(q))
        <3>1. PICK q \in Bad : n = KeepRead(q, TRUE) /\ BuffersOf(q) # {} /\ Learned(q.fut, BuffersOf(q))
            BY <2>3
        <3> QED
            BY <1>24, <2>1, <3>1 DEF KeptOK
    <2> QED
        BY <1>13, <2>2, <2>3
<1>26. ASSUME NEW f \in Reads
       PROVE  Progress(f)' /\ Held(f)'
    <2>1. CASE f \in over
        BY <1>10, <2>1 DEF Progress, Held, NoFuture
    <2>2. CASE f \notin over
        <3>1. Progress(f) /\ Held(f) /\ fut'[f] = fut[f] /\ fut[f].bufs \subseteq Bufs
            BY <1>0, <1>10, <2>2, Members
        <3>2. CASE fut[f].st = "idle"
            BY <3>1, <3>2 DEF Progress, Held
        <3>3. CASE \E p \in pending : p.fut = f
            <4>1. PICK p \in pending : p.fut = f
                BY <3>3
            <4>2. p \in pending' /\ f # None
                BY <1>0, <1>5, <1>11, <2>2, <4>1, Members
            <4>3. \A b \in fut[f].bufs : xfer'[b] = xfer[b]
                <5>1. fut[f].bufs = BuffersOf(p)
                    BY <4>1, <4>2, ReadHolds
                <5> QED
                    BY <1>7, <3>1, <5>1, ReadHolds
            <4>4. Progress(f)'
                BY <3>1, <4>3 DEF Progress
            <4> QED
                BY <4>1, <4>2, <4>4 DEF Held
        <3>4. CASE \E k \in kept : k.fut = f
            <4>1. PICK k \in kept : k.fut = f
                BY <3>4
            <4>2. ~Ran(k) /\ fut[f].bufs = k.bufs
                BY <1>0, <1>11, <2>2, <4>1, Members DEF KeptOK
            <4>3. \A b \in fut[f].bufs : xfer'[b] = xfer[b]
                BY <1>7, <4>2
            <4>4. k \in kept'
                <5>1. StillKept(k) = k /\ ~Lost(k, odd) /\ ~Released(k, odd)
                    BY <4>2, KeptTurns DEF Lost, Released
                <5> QED
                    BY <1>5, <5>1 DEF KeptAfter
            <4>5. Progress(f)'
                BY <3>1, <4>3 DEF Progress
            <4> QED
                BY <4>1, <4>4, <4>5 DEF Held
        <3> QED
            BY <3>1, <3>2, <3>3, <3>4 DEF Held
    <2> QED
        BY <2>1, <2>2
<1>27. ASSUME NEW p \in Bad, NEW b \in BuffersOf(p)
       PROVE  b \in dead' \/ \E n \in kept' : b \in n.bufs
    <2>1. b \in NeverFreedOf(Bad) \/ \E k \in KeptOf(Bad, TRUE) : b \in k.bufs
        BY BuffersStayKept
    <2> QED
        BY <1>5, <2>1
<1>28. ASSUME NEW k \in kept, ~Released(k, odd), NEW b \in k.bufs
       PROVE  b \in dead' \/ \E n \in kept' : b \in n.bufs
    <2>1. CASE Lost(k, odd)
        BY <1>5, <1>15, <1>28, <2>1
    <2>2. CASE ~Lost(k, odd)
        <3>1. StillKept(k) \in kept' /\ StillKept(k).bufs = k.bufs
            BY <1>5, <1>28, <2>2, KeptTurns DEF KeptAfter
        <3> QED
            BY <1>28, <3>1
    <2> QED
        BY <2>1, <2>2
<1>29. ASSUME NEW b \in Bufs
       PROVE  TransferOK(b)'
    <2>1. SUFFICES ASSUME xfer'[b].st = "moving"
                   PROVE  Placed(b)' /\ \E u \in Uuids : xfer'[b].src = u /\ owner'[u] # 0
        BY DEF TransferOK
    <2>2. xfer'[b] = xfer[b] /\ TransferOK(b)
        BY <1>0, <1>7, <2>1
    <2>3. Placed(b) /\ \E u \in Uuids : xfer'[b].src = u /\ owner'[u] # 0
        BY <1>5, <2>1, <2>2 DEF TransferOK
    <2>4. CASE b \in dead
        BY <1>5, <2>3, <2>4 DEF Placed
    <2>5. CASE \E k \in kept : b \in k.bufs
        <3>1. PICK k \in kept : b \in k.bufs
            BY <2>5
        <3>2. ~Released(k, odd)
            BY <2>1, <2>2, <3>1, KeptTurns
        <3> QED
            BY <1>28, <2>3, <3>1, <3>2 DEF Placed
    <2>6. CASE \E p \in pending : \E u \in p.uuids : store[u] = b
        <3>0. PICK p \in pending : \E u \in p.uuids : store[u] = b
            BY <2>6
        <3>1. PICK u \in p.uuids : store[u] = b
            BY <3>0
        <3>2. b \in BuffersOf(p)
            BY <3>1, ReadHolds
        <3>3. CASE p \in Bad
            BY <1>27, <2>3, <3>2, <3>3 DEF Placed
        <3>4. CASE p \in Dropped \cup Given
            BY <1>6, <2>1, <2>2, <3>2, <3>4, ReadHolds
        <3>5. CASE p \in pending'
            <4>1. u \notin taken /\ u \in Uuids
                BY <1>0, <1>1, <1>5, <1>6, <1>8, <3>1, <3>5, Members DEF ReadOK
            <4>2. store'[u] = b
                BY <1>8, <3>1, <4>1
            <4> QED
                BY <2>3, <3>1, <3>5, <4>2 DEF Placed
        <3> QED
            BY <1>1, <1>5, <3>3, <3>4, <3>5
    <2> QED
        BY <2>3, <2>4, <2>5, <2>6 DEF Placed
\* What is delivered is stored and read by no one any more.
<1>30. ASSUME NEW p \in Given, NEW u \in p.edge
       PROVE  /\ u \in Uuids /\ u \notin taken /\ store[u] # None /\ store'[u] # None
              /\ \A q \in pending' : u \notin q.uuids
    <2>1. /\ p \in pending /\ ~failed /\ u \in Uuids /\ \A q \in Bad : ~(q.no < p.no)
          /\ p \notin Bad
        BY <1>0, <1>6, Members
    <2>2. store[u] # None /\ \A q \in pending : u \in q.uuids => q.no <= p.no
        BY <1>0, <2>1 DEF SharedOK
    <2>3. \A q \in pending : q.no \in Int /\ (q.no = p.no => q = p)
        BY <1>0, <2>1, Members DEF Numbered
    <2>4. ASSUME NEW q \in Bad, u \in q.uuids
          PROVE  FALSE
        BY <1>6, <2>1, <2>2, <2>3, <2>4
    <2>5. u \notin taken
        BY <1>8, <2>4
    <2>6. ASSUME NEW q \in pending', u \in q.uuids
          PROVE  FALSE
        <3>1. q \in pending /\ q.no <= p.no /\ q \notin Bad /\ q \notin Given
            BY <1>1, <1>5, <2>2, <2>6
        <3>2. \A r \in pending : r.no <= q.no => Done(r)
            BY <1>6, <2>1, <2>3, <3>1
        <3>3. ~Spoiled(q)
            BY <1>6, <2>1, <2>3, <3>1 DEF Spoiled
        <3> QED
            BY <3>1, <3>2, <3>3 DEF Given
    <2> QED
        BY <1>8, <2>1, <2>2, <2>5, <2>6
<1>31. SharedOK'
    <2>1. ASSUME NEW u \in Uuids, store'[u] # None, \A q \in pending' : u \notin q.uuids
          PROVE  xfer'[store'[u]] = [src |-> u, st |-> "whole"]
        <3>1. u \notin taken /\ store'[u] = store[u] /\ store[u] \in Bufs
            BY <1>0, <1>8, <2>1, Members
        <3>2. xfer'[store[u]] = xfer[store[u]]
            BY <1>0, <1>7, <3>1 DEF KeptOK
        <3>3. CASE ~BeingRead(u)
            BY <1>0, <2>1, <3>1, <3>2, <3>3 DEF SharedOK
        <3>4. CASE BeingRead(u)
            <4>1. PICK p \in pending : u \in p.uuids
                BY <3>4 DEF BeingRead
            <4>2. p \in Dropped \cup Given
                BY <1>1, <1>5, <1>8, <2>1, <3>1, <4>1
            <4>3. xfer[store[u]].st = "whole" /\ xfer[store[u]].src = u
                BY <1>0, <1>6, <4>1, <4>2, ReadHolds DEF ReadOK
            <4> QED
                BY <1>0, <3>1, <3>2, <4>3, Members
        <3> QED
            BY <3>3, <3>4
    <2>2. ASSUME NEW d \in using', NEW u \in d.edge
          PROVE  store'[u] # None /\ \A q \in pending' : u \notin q.uuids
        <3>1. CASE d \in using
            <4>1. u \in Uuids /\ store[u] # None /\ ~BeingRead(u)
                BY <1>0, <3>1, Members DEF SharedOK
            <4>2. u \notin taken
                BY <1>6, <1>8, <4>1 DEF BeingRead
            <4> QED
                BY <1>5, <1>8, <4>1, <4>2 DEF BeingRead
        <3>2. CASE \E p \in Given : d.edge = p.edge
            BY <1>30, <3>2
        <3> QED
            BY <1>5, <3>1, <3>2
    <2>3. ASSUME ~failed', NEW q \in pending', NEW u \in q.edge
          PROVE  store'[u] # None /\ \A p \in pending' : u \in p.uuids => p.no <= q.no
        <3>1. ~failed /\ Bad = {} /\ q \in pending /\ u \in Uuids
            BY <1>0, <1>5, <2>3, Members
        <3>2. u \notin taken
            BY <1>8, <3>1
        <3> QED
            BY <1>0, <1>5, <1>8, <3>1, <3>2 DEF SharedOK
    <2> QED
        BY <2>1, <2>2, <2>3 DEF SharedOK, BeingRead
<1>32. ASSUME NEW u \in Uuids
       PROVE  RefsOK(u)' /\ OwedOK(u)'
    <2>1. OwedOK(u)'
        BY <1>0, <1>5, <1>21 DEF OwedOK
    <2>2. RefsOK(u) /\ ref[u] \in Nat
        BY <1>0, Members
    <2>3. /\ IsFiniteSet(Uses(u)) /\ IsFiniteSet(Claims(u)) /\ Uses(u) \subseteq Claims(u)
          /\ Cardinality(Uses(u)) \in Nat /\ Cardinality(Claims(u)) \in Nat
        BY ClaimsCounted
    <2>4. Uses(u)' = Uses(u) \cup {p.no : p \in Naming(Given, u)}
        <3>1. \A n \in Uses(u)' : n \in Uses(u) \/ n \in {p.no : p \in Naming(Given, u)}
            BY <1>5 DEF Uses, Naming
        <3>2. \A n \in Uses(u) : n \in Uses(u)'
            BY <1>5 DEF Uses
        <3>3. ASSUME NEW p \in Naming(Given, u)
              PROVE  p.no \in Uses(u)'
            <4>1. [no |-> p.no, edge |-> p.edge] \in using' /\ u \in p.edge
                BY <1>5 DEF Naming
            <4>2. PICK d \in using' : d.no = p.no /\ u \in d.edge
                BY <4>1
            <4> QED
                BY <4>2 DEF Uses
        <3> QED
            BY <3>1, <3>2, <3>3
    <2>5. CASE u \in taken
        <3>1. Uses(u)' = {}
            BY <1>8, <1>31, <2>5 DEF Uses, SharedOK
        <3>2. /\ Cardinality(Uses(u)') = 0 /\ ref'[u] = 0 /\ failed'
            BY <1>5, <1>8, <2>5, <3>1, FS_EmptySet
        <3> QED
            BY <2>1, <3>2 DEF RefsOK
    <2>6. CASE u \notin taken /\ failed
        <3>1. Given = {}
            BY <1>6, <2>6
        <3>2. Naming(Given, u) = {} /\ tensors = {}
            BY <1>2, <3>1 DEF Naming
        <3>3. Uses(u)' = Uses(u)
            BY <2>4, <3>2
        <3>4. ref'[u] = ref[u] /\ failed'
            BY <1>5, <2>6, <3>2
        <3> QED
            BY <2>1, <2>2, <3>3, <3>4 DEF RefsOK
    <2>7. CASE u \notin taken /\ ~failed
        <3>1. Naming(Given, u) \subseteq Naming(pending, u)
            BY <1>6 DEF Naming
        <3>2. Uses(u)' \subseteq Claims(u)
            BY <2>3, <2>4, <3>1 DEF Claims
        <3>3. Cardinality(Uses(u)') <= Cardinality(Claims(u)) /\ Cardinality(Uses(u)') \in Nat
            BY <2>3, <3>2, FS_Subset, FS_CardinalityType
        <3>4. u \in tensors => store[u] # None
            BY <1>9, <1>30
        <3>5. /\ Cardinality(Claims(u)) <= ref[u]
              /\ store[u] # None /\ u \notin seen => Cardinality(Claims(u)) < ref[u]
            BY <2>2, <2>7 DEF RefsOK
        <3>6. ref'[u] = (IF u \in tensors \ seen THEN ref[u] - 1 ELSE ref[u]) /\ store'[u] = store[u]
            BY <1>5, <1>8, <2>7
        <3>7. Cardinality(Claims(u)) <= ref'[u]
            BY <2>2, <2>3, <3>4, <3>5, <3>6
        <3>8. CASE failed'
            BY <1>16, <2>1, <2>3, <3>3, <3>7, <3>8, Members DEF RefsOK, TypeOK
        <3>9. CASE ~failed'
            <4>1. Bad = {} /\ Dropped = {}
                BY <1>5, <2>7, <3>9 DEF Dropped, Spoiled
            <4>2. pending' = pending \ Given
                BY <1>1, <1>5, <4>1
            <4>3. Naming(pending, u) = Naming(pending', u) \cup Naming(Given, u)
                BY <1>6, <4>2 DEF Naming
            <4>4. Claims(u)' = Claims(u)
                BY <2>4, <4>3 DEF Claims
            <4>5. store'[u] # None /\ u \notin seen' => Cardinality(Claims(u)) < ref'[u]
                BY <1>5, <3>5, <3>6
            <4> QED
                BY <1>16, <2>1, <2>3, <3>3, <3>7, <4>4, <4>5 DEF RefsOK, TypeOK
        <3> QED
            BY <3>8, <3>9
    <2> QED
        BY <2>5, <2>6, <2>7
<1>33. EndOK'
    <2>1. ASSUME creq = "acked"
          PROVE  ~HasInflightReads'
        <3>1. /\ \A p \in pending : p.fut # None => ~MayBeReading(p.fut)
              /\ \A k \in kept : k.own => k.fut = None /\ k.running = {}
            BY <1>0, <2>1 DEF EndOK, HasInflightReads
        <3>2. \A p \in pending' : p.fut # None => ~MayBeReading(p.fut)'
            BY <1>5, <1>12, <3>1 DEF MayBeReading
        <3>3. ASSUME NEW n \in kept', n.own
              PROVE  n.fut = None /\ n.running = {}
            <4>1. CASE \E k \in kept : n = StillKept(k)
                <5>1. PICK k \in kept : n = StillKept(k)
                    BY <4>1
                <5>2. k.own /\ k.fut = None /\ k.running = {}
                    BY <3>1, <3>3, <5>1, KeptTurns
                <5>3. Ran(k) /\ MovingOf(k) = {}
                    BY <5>2 DEF Ran, MovingOf, RunningOf
                <5> QED
                    BY <5>1, <5>3, KeptTurns
            <4>2. ASSUME NEW q \in Bad, n = KeepRead(q, TRUE), BuffersOf(q) # {},
                         Learned(q.fut, BuffersOf(q))
                  PROVE  n.fut = None /\ n.running = {}
                <5>1. n.fut = None /\ n.running = fut[q.fut].running \cap BuffersOf(q)
                    BY <1>14, <4>2
                <5>2. /\ q \in pending /\ q.fut # None /\ ~MayBeReading(q.fut) /\ Failed(q)
                      /\ q.fut \in Reads
                    BY <1>6, <3>1, ReadHolds
                <5>3. fut[q.fut].st = "refused" /\ Progress(q.fut)
                    BY <1>0, <5>2 DEF MayBeReading, Failed
                <5> QED
                    BY <5>1, <5>3 DEF Progress
            <4> QED
                BY <1>13, <4>1, <4>2
        <3> QED
            BY <3>2, <3>3 DEF HasInflightReads
    <2>2. ASSUME creq = "gone"
          PROVE  /\ pending' = {} /\ using' = {} /\ seen' = {} /\ ~failed'
                 /\ \A u \in Uuids : store'[u] = None
        <3>1. /\ pending = {} /\ using = {} /\ seen = {} /\ ~failed
              /\ \A u \in Uuids : store[u] = None
            BY <1>0, <2>2 DEF EndOK
        <3>2. Bad = {} /\ Given = {}
            BY <1>6, <3>1
        <3>3. tensors = {}
            BY <1>9, <3>2
        <3>4. pending' = {} /\ using' = {} /\ seen' = {} /\ ~failed'
            BY <1>5, <3>1, <3>2, <3>3
        <3> QED
            BY <1>8, <3>1, <3>4
    <2>3. ASSUME NEW b \in pinned'
          PROVE  b \in Used'
        <3>1. b \in pinned /\ b \in Bufs /\ b \in Used /\ b \notin ReleasedBy(odd)
            BY <1>0, <1>5 DEF EndOK, TypeOK
        <3>2. dead' \subseteq Used' /\ (\A n \in kept' : n.bufs \subseteq Used')
              /\ \A u \in Uuids : store'[u] \in Used'
            BY DEF Used
        <3>3. CASE b \in dead
            BY <1>5, <3>2, <3>3
        <3>4. CASE \E u \in Uuids : store[u] = b
            <4>1. PICK u \in Uuids : store[u] = b
                BY <3>4
            <4>2. CASE u \in taken
                <5>1. PICK p \in Bad : u \in p.uuids
                    BY <1>8, <4>2
                <5>2. b \in BuffersOf(p)
                    BY <1>6, <4>1, <5>1, ReadHolds
                <5> QED
                    BY <1>27, <3>2, <5>2
            <4>3. CASE u \notin taken
                BY <1>8, <3>2, <4>1, <4>3
            <4> QED
                BY <4>2, <4>3
        <3>5. CASE \E k \in kept : b \in k.bufs
            BY <1>15, <1>28, <3>1, <3>2, <3>5
        <3> QED
            BY <3>1, <3>3, <3>4, <3>5, UsedHolds
    <2> QED
        BY <1>5, <2>1, <2>2, <2>3 DEF EndOK
<1> QED
    BY <1>5, <1>16, <1>17, <1>18, <1>19, <1>25, <1>26, <1>29, <1>31, <1>32, <1>33 DEF Inv

-----------------------------------------------------------------------------
(* The invariant holds *)

LEMMA InitHolds ==
    ASSUME Init
    PROVE  Inv
<1>1. TypeOK
    <2>1. NoFuture \in Futures
        BY DEF NoFuture, Futures
    <2>2. Still \in [src : Uuids \cup {None}, st : {"idle", "moving", "done", "error", "whole"}]
        BY DEF Still
    <2>3. fut \in [Reads -> Futures]
        BY <2>1 DEF Init
    <2>4. xfer \in [Bufs -> [src : Uuids \cup {None}, st : {"idle", "moving", "done", "error", "whole"}]]
        BY <2>2 DEF Init
    <2>5. /\ life \in 1..MaxLives /\ creq \in {"live", "draining", "acked", "gone"}
          /\ store \in [Uuids -> Bufs \cup {None}] /\ ref \in [Uuids -> Nat]
          /\ owner \in [Uuids -> 0..MaxLives] /\ owed \in [Uuids -> Nat] /\ sent \in 0..MaxEdges
        BY TensorReadsAssumption, SMT DEF Init
    <2>6. /\ pending = {} /\ kept = {} /\ dead = {} /\ pinned = {} /\ seen = {} /\ using = {} /\ failed = FALSE
        BY DEF Init
    <2> QED
        BY <2>3, <2>4, <2>5, <2>6 DEF TypeOK
<1>2. \A u \in Uuids : Uses(u) = {} /\ Naming(pending, u) = {} /\ Claims(u) = {}
    BY DEF Init, Uses, Claims, Naming
<1>3. Cardinality({}) = 0
    BY FS_EmptySet
<1>4. \A u \in Uuids : RefsOK(u) /\ OwedOK(u)
    BY <1>2, <1>3 DEF Init, RefsOK, OwedOK
<1>5. \A f \in Reads : Progress(f) /\ Held(f)
    BY DEF Init, Progress, Held, NoFuture
<1>6. \A b \in Bufs : TransferOK(b)
    BY DEF Init, TransferOK, Still
<1> QED
    BY <1>1, <1>4, <1>5, <1>6 DEF Init, Inv, Numbered, StoreOK, SharedOK, EndOK

LEMMA StepKeeps ==
    ASSUME Inv, [Next]_vars
    PROVE  Inv'
<1>1. ASSUME Starts
      PROVE  Inv'
    BY <1>1, StartKeeps DEF Starts
<1>2. ASSUME Checks
      PROVE  Inv'
    BY <1>2, CheckKeeps DEF Checks
<1>3. ASSUME Consumes
      PROVE  Inv'
    BY <1>3, ConsumeKeeps DEF Consumes
<1>4. ASSUME Removes
      PROVE  Inv'
    BY <1>4, RemoveKeeps DEF Removes
<1>5. ASSUME TakeDrain
      PROVE  Inv'
    BY <1>5, PhaseKeeps DEF TakeDrain
<1>6. ASSUME ReadsDone
      PROVE  Inv'
    BY <1>6, PhaseKeeps DEF ReadsDone
<1>7. ASSUME ReuseHandle
      PROVE  Inv'
    BY <1>7, ReuseKeeps
<1>8. ASSUME Submits \/ Polls \/ TimesOut \/ Transfers
      PROVE  Inv'
    BY <1>8, SubmitTurns, PollTurns, TimeOutTurns, TransferTurns, ReaderKeeps
    DEF Submits, Polls, TimesOut, Transfers
<1>9. ASSUME UNCHANGED vars
      PROVE  Inv'
    <2>1. ReaderTurns
        BY <1>9 DEF vars, ReaderTurns, readVars, Inv, TypeOK, MayBeReading, Progress
    <2> QED
        BY <2>1, ReaderKeeps
<1> QED
    BY <1>1, <1>2, <1>3, <1>4, <1>5, <1>6, <1>7, <1>8, <1>9 DEF Next

\* What is kept of a request that is gone does not count for the next owner of the handle.
Foreign == \A k \in kept : ~k.own /\ creq # "gone" => \A b \in k.bufs : owner[xfer[b].src] # life

LEMMA ForeignKept ==
    ASSUME Inv, Foreign, [Next]_vars
    PROVE  Foreign'
<1>0. /\ \A k \in kept : KeptOK(k) /\ k.bufs \subseteq Bufs
      /\ \A u \in Uuids : OwedOK(u)
    BY Members DEF Inv
<1>1. ASSUME NEW e \in Edges, StartRead(e)
      PROVE  Foreign'
    <2>1. /\ UNCHANGED <<life, creq, kept>> /\ \A u \in e : owner[u] \in {0, life}
          /\ owner' = [u \in Uuids |-> IF u \in e THEN life ELSE owner[u]]
        BY <1>1 DEF StartRead
    <2>2. \A k \in kept : \A b \in k.bufs : xfer'[b] = xfer[b]
        <3>1. PICK new : new = {u \in e : store[u] = None}
            OBVIOUS
        <3>2. PICK f : f = CHOOSE i \in Reads : fut[i].st = "idle"
            OBVIOUS
        <3>3. PICK buf \in [new -> FreeBufs], R \in SUBSET FreeBufs : ReadInto(f, new, buf, R)
            BY <1>1, <3>1, <3>2 DEF StartRead
        <3>4. PICK bufs : bufs = {buf[u] : u \in new}
            OBVIOUS
        <3>5. xfer' = [b \in Bufs |-> IF b \in bufs
                    THEN [src |-> CHOOSE u \in new : buf[u] = b, st |-> "idle"] ELSE xfer[b]]
            BY <3>3, <3>4 DEF ReadInto
        <3>6. \A b \in bufs : b \notin Used
            BY <3>4 DEF FreeBufs
        <3>7. \A b \in bufs : \A k \in kept : b \notin k.bufs
            BY <3>6, UsedHolds
        <3> QED
            BY <1>0, <3>5, <3>7
    <2>3. ASSUME NEW k \in kept, ~k.own, creq # "gone", NEW b \in k.bufs
          PROVE  owner'[xfer'[b].src] # life'
        <3>1. PICK u \in Uuids : xfer[b].src = u /\ owner[u] # 0
            BY <1>0, <2>3 DEF KeptOK
        <3>2. owner[u] # life
            BY <2>3, <3>1 DEF Foreign
        <3> QED
            BY <2>1, <2>2, <2>3, <3>1, <3>2
    <2> QED
        BY <2>1, <2>3 DEF Foreign
<1>2. ASSUME NEW odd, CheckReady(odd)
      PROVE  Foreign'
    <2>1. /\ UNCHANGED <<life, creq, owner>> /\ kept' = KeptAfter(odd) \cup KeptOf(Bad, TRUE)
          /\ \A k \in kept : ~Released(k, odd) => \A b \in k.bufs : xfer'[b].src = xfer[b].src
        <3>1. PICK x : x = xfer'
            OBVIOUS
        <3>2. \A k \in kept : ~Released(k, odd) => \A b \in k.bufs : x[b].src = xfer[b].src
            BY <1>2, <3>1, XferTurns DEF CheckReady
        <3> QED
            BY <1>2, <3>1, <3>2 DEF CheckReady
    <2>2. ASSUME NEW n \in kept', ~n.own
          PROVE  \E k \in kept : n.bufs = k.bufs /\ ~k.own /\ ~Released(k, odd)
        <3>1. n \notin KeptOf(Bad, TRUE)
            BY <2>2 DEF KeptOf, KeepRead
        <3>2. PICK k \in kept : n = StillKept(k) /\ ~Released(k, odd)
            BY <2>1, <2>2, <3>1 DEF KeptAfter
        <3>3. n.bufs = k.bufs /\ n.own = k.own
            BY <3>2, KeptTurns
        <3> QED
            BY <2>2, <3>2, <3>3
    <2>3. ASSUME NEW n \in kept', ~n.own, creq # "gone", NEW b \in n.bufs
          PROVE  owner[xfer'[b].src] # life
        <3>1. PICK k \in kept : n.bufs = k.bufs /\ ~k.own /\ ~Released(k, odd)
            BY <2>2, <2>3
        <3> QED
            BY <2>1, <2>3, <3>1 DEF Foreign
    <2> QED
        BY <2>1, <2>3 DEF Foreign
<1>3. ASSUME NEW d \in using, NEW odd, Consume(d, odd)
      PROVE  Foreign'
    <2>1. /\ UNCHANGED <<life, creq, kept, owner>>
          /\ xfer' = Cleared(xfer, {store[u] : u \in {v \in d.edge : ref[v] <= 1}})
        BY <1>3 DEF Consume, histVars
    <2>2. \A k \in kept : \A b \in k.bufs : xfer'[b] = xfer[b]
        BY <1>0, <2>1, Members DEF Cleared, KeptOK, Inv
    <2> QED
        BY <2>1, <2>2 DEF Foreign
<1>4. ASSUME NEW odd, ConsumerRemoves(odd)
      PROVE  Foreign'
    BY <1>4 DEF ConsumerRemoves, Foreign
<1>5. ASSUME ReuseHandle
      PROVE  Foreign'
    <2>1. life' = life + 1 /\ life \in Nat /\ UNCHANGED <<kept, xfer, owner>>
        BY <1>5 DEF ReuseHandle, bufVars, readVars, histVars, Inv, TypeOK
    <2>2. ASSUME NEW k \in kept, NEW b \in k.bufs
          PROVE  owner[xfer[b].src] # life + 1
        <3>1. PICK u \in Uuids : xfer[b].src = u
            BY <1>0 DEF KeptOK
        <3>2. owner[u] <= life /\ owner[u] \in Nat
            BY <1>0 DEF OwedOK, Inv, TypeOK
        <3> QED
            BY <2>1, <3>1, <3>2
    <2> QED
        BY <2>1, <2>2 DEF Foreign
<1>6. ASSUME TakeDrain \/ ReadsDone
      PROVE  Foreign'
    BY <1>6 DEF TakeDrain, ReadsDone, bufVars, readVars, histVars, Foreign
<1>7. ASSUME ReaderTurns
      PROVE  Foreign'
    <2>1. UNCHANGED <<life, creq, kept, owner>> /\ \A b \in Bufs : xfer'[b].src = xfer[b].src
        BY <1>7 DEF ReaderTurns, consVars, histVars, bufVars
    <2> QED
        BY <1>0, <2>1 DEF Foreign
<1>8. ASSUME UNCHANGED vars
      PROVE  Foreign'
    BY <1>8 DEF vars, consVars, histVars, bufVars, readVars, Foreign
<1> QED
    BY <1>1, <1>2, <1>3, <1>4, <1>5, <1>6, <1>7, <1>8,
       SubmitTurns, PollTurns, TimeOutTurns, TransferTurns
    DEF Next, Starts, Checks, Consumes, Removes, Submits, Polls, TimesOut, Transfers

LEMMA Invariance == Spec => [](Inv /\ Foreign)
<1>1. Init => Inv /\ Foreign
    BY InitHolds DEF Init, Foreign
<1>2. Inv /\ Foreign /\ [Next]_vars => (Inv /\ Foreign)'
    BY StepKeeps, ForeignKept
<1> QED
    BY <1>1, <1>2, PTL DEF Spec

-----------------------------------------------------------------------------
(* What the runs check *)

\* A transfer that may still write has its memory, whatever failed and whenever the request
\* was removed, and what is allocated is not registered any more.
THEOREM NoWriteAstray == Spec => []NoStrayWrite
<1>1. ASSUME Inv
      PROVE  NoStrayWrite
    <2>1. ASSUME NEW b \in Bufs, xfer[b].st = "moving"
          PROVE  \/ b \in dead \/ \E k \in kept : b \in k.bufs
                 \/ \E p \in pending : \E u \in p.uuids : store[u] = b /\ xfer[b].src = u
        BY <1>1, <2>1 DEF Inv, TransferOK, Placed, ReadOK
    <2>2. FreeBufs \cap pinned = {}
        BY <1>1 DEF Inv, EndOK, FreeBufs
    <2> QED
        BY <2>1, <2>2 DEF NoStrayWrite
<1> QED
    BY <1>1, Invariance, PTL

\* A node is given tensors that are stored and whole, and they stay until it consumed them.
THEOREM GivenIsWhole == Spec => []DeliveredWhole
<1>1. ASSUME Inv
      PROVE  DeliveredWhole
    BY <1>1 DEF Inv, SharedOK, DeliveredWhole, TypeOK, Handed, Edges
<1> QED
    BY <1>1, Invariance, PTL

\* READS_DONE waits for reads of the request that drains, never for what a former owner of
\* the handle left.
THEOREM DrainWaitsForOwn == Spec => []GateIsOwn
<1>1. ASSUME Inv, HasInflightReads
      PROVE  \E u \in Uuids : owner[u] = life /\
                \/ \E p \in pending : u \in p.uuids
                \/ \E k \in kept : \E b \in k.bufs : xfer[b].src = u
    <2>0. /\ \A p \in pending : ReadOK(p) /\ p.edge \subseteq Uuids
          /\ \A k \in kept : KeptOK(k)
        BY <1>1, Members DEF Inv
    <2>1. CASE \E p \in pending : p.fut # None /\ MayBeReading(p.fut)
        <3>1. PICK p \in pending : p.fut # None
            BY <2>1
        <3>2. PICK u \in p.uuids : u \in p.edge /\ owner[u] = life
            BY <2>0, <3>1 DEF ReadOK
        <3> QED
            BY <2>0, <3>1, <3>2
    <2>2. CASE \E k \in kept : k.own /\ (k.fut # None \/ k.running # {})
        <3>1. PICK k \in kept : k.own
            BY <2>2
        <3>2. PICK b \in k.bufs : \E u \in Uuids : xfer[b].src = u /\ owner[u] = life
            BY <2>0, <3>1 DEF KeptOK
        <3> QED
            BY <3>1, <3>2
    <2> QED
        BY <1>1, <2>1, <2>2 DEF HasInflightReads
<1> QED
    BY <1>1, Invariance, PTL DEF GateIsOwn

-----------------------------------------------------------------------------
(* The manager keeps the contract *)

\* The tensors of the request that a transfer may be reading, as the contract has them.
Moving(b) == xfer[b].st = "moving" /\ owner[xfer[b].src] = life
ReadNow == IF creq = "gone" THEN {} ELSE {xfer[b].src : b \in {c \in Bufs \ dead : Moving(c)}}

\* What is read is owed, and holds READS_DONE back.
Owes ==
    /\ creq # "gone" => \A u \in ReadNow : u \in Uuids /\ owed[u] > 0
    /\ ReadNow # {} => HasInflightReads

LEMMA ReadIsOwed ==
    ASSUME Inv, Foreign
    PROVE  Owes
<1>0. /\ \A p \in pending : ReadOK(p)
      /\ \A k \in kept : KeptOK(k)
      /\ \A f \in Reads : Progress(f) /\ Held(f)
      /\ \A b \in Bufs : TransferOK(b)
      /\ \A u \in Uuids : OwedOK(u) /\ owed[u] \in Nat
    BY Members DEF Inv
<1>1. ASSUME NEW b \in Bufs \ dead, Moving(b), creq # "gone"
      PROVE  xfer[b].src \in Uuids /\ owed[xfer[b].src] > 0 /\ HasInflightReads
    <2>1. xfer[b].st = "moving" /\ owner[xfer[b].src] = life /\ Placed(b)
        BY <1>0, <1>1 DEF Moving, TransferOK
    <2>2. CASE \E k \in kept : b \in k.bufs
        <3>1. PICK k \in kept : b \in k.bufs
            BY <2>2
        <3>2. k.own
            BY <1>1, <2>1, <3>1 DEF Foreign
        <3>3. PICK u \in Uuids : xfer[b].src = u /\ Cardinality(Naming(pending, u)) < owed[u]
            BY <1>0, <3>1, <3>2 DEF KeptOK
        <3>4. Cardinality(Naming(pending, u)) \in Nat
            BY Counted DEF Inv
        <3>5. owed[u] > 0
            BY <1>0, <3>3, <3>4
        <3>6. k.fut # None \/ k.running # {}
            BY <1>0, <2>1, <3>1 DEF KeptOK
        <3> QED
            BY <3>1, <3>2, <3>3, <3>5, <3>6 DEF HasInflightReads
    <2>3. CASE \E p \in pending : \E u \in p.uuids : store[u] = b
        <3>1. PICK p \in pending : \E u \in p.uuids : store[u] = b
            BY <2>3
        <3>2. PICK u \in p.uuids : store[u] = b
            BY <3>1
        <3>3. /\ xfer[b].src = u /\ u \in p.edge /\ u \in Uuids /\ p.fut # None
              /\ p.fut \in Reads /\ b \in fut[p.fut].bufs /\ fut[p.fut].st # "idle"
            <4>1. TypeOK /\ ReadOK(p)
                BY <1>0 DEF Inv
            <4>2. /\ u \in p.edge /\ u \in Uuids /\ p.fut \in Reads \cup {None}
                  /\ p.fut # None /\ xfer[store[u]].src = u
                BY <3>2, <4>1, Members DEF ReadOK
            <4>3. fut[p.fut].st # "idle" /\ fut[p.fut].bufs = {store[v] : v \in p.uuids}
                BY <4>1, <4>2 DEF ReadOK
            <4> QED
                BY <3>2, <4>2, <4>3
        <3>4. /\ IsFiniteSet(Naming(pending, u)) /\ Cardinality(Naming(pending, u)) \in Nat
              /\ Cardinality(Naming(pending, u)) <= owed[u]
            BY <3>3, Counted
        <3>5. Cardinality(Naming(pending, u)) # 0
            <4>1. p \in Naming(pending, u)
                BY <3>3 DEF Naming
            <4> QED
                BY <3>3, <3>4, <4>1, FS_EmptySet
        <3>6. owed[u] > 0
            BY <1>0, <3>3, <3>4, <3>5
        <3>7. MayBeReading(p.fut)
            BY <1>0, <2>1, <3>3, Members DEF Progress, MayBeReading, Inv
        <3> QED
            BY <3>3, <3>6, <3>7 DEF HasInflightReads
    <2> QED
        BY <1>1, <2>1, <2>2, <2>3 DEF Placed
<1>2. \A u \in ReadNow : creq # "gone" /\ u \in Uuids /\ owed[u] > 0 /\ HasInflightReads
    BY <1>1 DEF ReadNow
<1> QED
    BY <1>2 DEF Owes

\* Steps that end transfers, or change none, and acknowledge.
LEMMA Settles ==
    ASSUME Owes', creq' = creq, owner' = owner, life' = life, dead \subseteq dead',
           \A b \in Bufs : xfer'[b].st = "moving" => xfer'[b] = xfer[b],
           \A u \in Uuids : owed'[u] \in 0..owed[u]
    PROVE  [Contract!ContractNext]_(Contract!contractVars)
<1>1. ReadNow' \subseteq ReadNow
    BY DEF ReadNow, Moving
<1>2. CASE creq = "gone"
    <2>1. ReadNow' = {}
        BY <1>2 DEF ReadNow
    <2>2. Contract!Settle
        BY <1>1, <2>1 DEF Contract!Settle, ReadNow, Moving
    <2> QED
        BY <2>2 DEF Contract!ContractNext
<1>3. CASE creq # "gone"
    <2>1. \A u \in ReadNow' : owed'[u] > 0
        BY <1>3 DEF Owes
    <2>2. Contract!Settle
        BY <1>1, <2>1 DEF Contract!Settle, ReadNow, Moving
    <2> QED
        BY <2>2 DEF Contract!ContractNext
<1> QED
    BY <1>2, <1>3

\* Steps of the reader threads, which start transfers or change none.
LEMMA Begins ==
    ASSUME Inv, Inv', Owes, Owes', ReaderTurns,
           \A b \in Bufs : xfer[b].st = "moving" => xfer'[b].st = "moving"
    PROVE  [Contract!ContractNext]_(Contract!contractVars)
<1>1. /\ UNCHANGED <<life, creq, dead, owner, owed>> /\ \A b \in Bufs : xfer'[b].src = xfer[b].src
      /\ creq \in {"live", "draining", "acked", "gone"}
    BY DEF ReaderTurns, consVars, histVars, bufVars, Inv, TypeOK
<1>2. ReadNow \subseteq ReadNow'
    BY <1>1 DEF ReadNow, Moving
<1>3. CASE creq \in {"live", "draining"}
    <2>1. \A u \in ReadNow' : owed[u] > 0
        BY <1>1, <1>3 DEF Owes
    <2>2. Contract!Begin
        BY <1>1, <1>2, <1>3, <2>1 DEF Contract!Begin, Contract!Taking, ReadNow, Moving
    <2> QED
        BY <2>2 DEF Contract!ContractNext
<1>4. CASE creq \in {"acked", "gone"}
    <2>1. ReadNow = {} /\ ReadNow' = {}
        BY <1>1, <1>4 DEF Inv, EndOK, Owes, ReadNow
    <2> QED
        BY <1>1, <2>1 DEF Contract!contractVars, ReadNow, Moving
<1> QED
    BY <1>1, <1>3, <1>4

\* What a finished read acknowledges was owed.
LEMMA AcksBounded ==
    ASSUME Inv, NEW P \in SUBSET pending, NEW u \in Uuids
    PROVE  Acked(P)[u] \in 0..owed[u]
<1>1. owed[u] \in Nat
    BY Members DEF Inv
<1>2. Cardinality(Naming(P, u)) \in Nat /\ Cardinality(Naming(P, u)) <= owed[u]
    BY Counted
<1>3. Acked(P)[u] = owed[u] - Cardinality(Naming(P, u))
    BY DEF Acked
<1> QED
    BY <1>1, <1>2, <1>3

LEMMA ContractStep ==
    ASSUME Inv, Inv', Owes, Owes', [Next]_vars
    PROVE  [Contract!ContractNext]_(Contract!contractVars)
<1>0. /\ TypeOK /\ Owes /\ Owes' /\ \A b \in Bufs : TransferOK(b)
      /\ \A u \in Uuids : OwedOK(u) /\ owed[u] \in Nat
    BY Members DEF Inv
<1>1. ASSUME NEW e \in Edges, StartRead(e)
      PROVE  Contract!ContractNext
    <2>1. /\ UNCHANGED <<life, creq, kept, dead>> /\ creq \in {"live", "draining"}
          /\ \A u \in e : owner[u] \in {0, life}
          /\ owner' = [u \in Uuids |-> IF u \in e THEN life ELSE owner[u]]
          /\ owed' = [u \in Uuids |-> IF u \in e THEN owed[u] + 1 ELSE owed[u]]
        BY <1>1 DEF StartRead, Takes
    <2>2. ASSUME NEW b \in Bufs
          PROVE  xfer'[b] = xfer[b] \/ (b \notin Used /\ xfer'[b].st = "idle")
        <3>1. PICK new : new = {u \in e : store[u] = None}
            OBVIOUS
        <3>2. PICK f : f = CHOOSE i \in Reads : fut[i].st = "idle"
            OBVIOUS
        <3>3. PICK buf \in [new -> FreeBufs], R \in SUBSET FreeBufs : ReadInto(f, new, buf, R)
            BY <1>1, <3>1, <3>2 DEF StartRead
        <3>4. PICK bufs : bufs = {buf[u] : u \in new}
            OBVIOUS
        <3>5. xfer' = [c \in Bufs |-> IF c \in bufs
                    THEN [src |-> CHOOSE u \in new : buf[u] = c, st |-> "idle"] ELSE xfer[c]]
            BY <3>3, <3>4 DEF ReadInto
        <3>6. CASE b \in bufs
            <4>1. PICK u : u = CHOOSE v \in new : buf[v] = b
                OBVIOUS
            <4>2. xfer'[b] = [src |-> u, st |-> "idle"]
                BY <3>5, <3>6, <4>1
            <4>3. b \notin Used
                BY <3>4, <3>6 DEF FreeBufs
            <4> QED
                BY <4>2, <4>3
        <3>7. CASE b \notin bufs
            BY <3>5, <3>7
        <3> QED
            BY <3>6, <3>7
    <2>3. ASSUME NEW b \in Bufs, b \notin Used
          PROVE  xfer[b].st # "moving"
        BY <1>0, <2>3, UsedHolds, Members DEF TransferOK, Placed
    <2>4. ASSUME NEW b \in Bufs
          PROVE  (Moving(b)' <=> Moving(b)) /\ (Moving(b) => xfer'[b] = xfer[b])
        <3>1. CASE xfer'[b] = xfer[b]
            <4>1. ASSUME xfer[b].st = "moving"
                  PROVE  xfer[b].src \in Uuids /\ owner[xfer[b].src] # 0
                BY <1>0, <4>1 DEF TransferOK
            <4> QED
                BY <2>1, <3>1, <4>1 DEF Moving
        <3>2. CASE b \notin Used /\ xfer'[b].st = "idle"
            BY <2>3, <3>2 DEF Moving
        <3> QED
            BY <2>2, <3>1, <3>2
    <2>5. ReadNow' = ReadNow
        BY <2>1, <2>4 DEF ReadNow
    <2>6. e \in SUBSET Uuids
        BY DEF Edges
    <2>7. Contract!Receive(e)
        BY <2>1, <2>5 DEF Contract!Receive, Contract!Taking, ReadNow, Moving
    <2> QED
        BY <2>6, <2>7 DEF Contract!ContractNext
<1>2. ASSUME NEW odd, CheckReady(odd)
      PROVE  [Contract!ContractNext]_(Contract!contractVars)
    <2>1. /\ UNCHANGED <<life, creq, owner>> /\ dead \subseteq dead' /\ owed' = Acked(Dropped \cup Given)
        BY <1>2 DEF CheckReady
    <2>2. PICK x : x = [b \in Bufs |-> IF b \in PolledBy THEN [xfer[b] EXCEPT !.st = "idle"] ELSE xfer[b]]
        OBVIOUS
    <2>3. xfer' = Cleared(x, ReleasedBy(odd))
        BY <1>2, <2>2 DEF CheckReady
    <2>4. \A b \in Bufs : x[b].st = "moving" => x[b] = xfer[b]
        BY <1>0, <2>2, Members
    <2>5. \A b \in Bufs : xfer'[b].st = "moving" => xfer'[b] = x[b]
        BY <2>3 DEF Cleared, Still
    <2>6. Dropped \cup Given \in SUBSET pending
        BY DEF Dropped, Given
    <2>7. \A u \in Uuids : owed'[u] \in 0..owed[u]
        BY <2>1, <2>6, AcksBounded
    <2> QED
        BY <1>0, <2>1, <2>4, <2>5, <2>7, Settles
<1>3. ASSUME NEW d \in using, NEW odd, Consume(d, odd)
      PROVE  [Contract!ContractNext]_(Contract!contractVars)
    <2>1. UNCHANGED <<life, creq, owner, owed>> /\ dead \subseteq dead'
        BY <1>3 DEF Consume, histVars
    <2>2. \A b \in Bufs : xfer'[b].st = "moving" => xfer'[b] = xfer[b]
        BY <1>3 DEF Consume, Cleared, Still
    <2> QED
        BY <1>0, <2>1, <2>2, Settles
<1>4. ASSUME NEW odd, ConsumerRemoves(odd)
      PROVE  Contract!ContractNext
    <2>1. creq' = "gone" /\ owed' = Acked({p \in pending : Done(p) /\ ~Failed(p)})
        BY <1>4 DEF ConsumerRemoves
    <2>2. \A u \in Uuids : owed'[u] \in 0..owed[u]
        BY <2>1, AcksBounded
    <2>3. Contract!Forget
        BY <2>1, <2>2 DEF Contract!Forget
    <2> QED
        BY <2>3 DEF Contract!ContractNext
<1>5. ASSUME TakeDrain
      PROVE  Contract!ContractNext
    <2>1. Contract!BeginDrain
        BY <1>5 DEF TakeDrain, Contract!BeginDrain, bufVars, readVars, histVars
    <2> QED
        BY <2>1 DEF Contract!ContractNext
<1>6. ASSUME ReadsDone
      PROVE  Contract!ContractNext
    <2>1. ReadNow = {} /\ ReadNow' = ReadNow
        BY <1>0, <1>6 DEF ReadsDone, Owes, ReadNow, Moving, bufVars, readVars, histVars
    <2>2. Contract!SayReadsDone
        BY <1>6, <2>1 DEF ReadsDone, Contract!SayReadsDone, histVars, ReadNow, Moving
    <2> QED
        BY <2>2 DEF Contract!ContractNext
<1>7. ASSUME ReuseHandle
      PROVE  Contract!ContractNext
    <2>1. /\ creq = "gone" /\ creq' = "live" /\ life' = life + 1 /\ life \in Nat
          /\ UNCHANGED <<xfer, owner, owed, dead>>
        BY <1>0, <1>7 DEF ReuseHandle, bufVars, readVars, histVars, TypeOK
    <2>2. ASSUME NEW b \in Bufs, xfer[b].st = "moving"
          PROVE  owner[xfer[b].src] # life + 1
        <3>1. PICK u \in Uuids : xfer[b].src = u
            BY <1>0, <2>2 DEF TransferOK
        <3>2. owner[u] <= life /\ owner[u] \in Nat
            BY <1>0 DEF OwedOK, TypeOK
        <3> QED
            BY <2>1, <3>1, <3>2
    <2>3. ReadNow = {} /\ ReadNow' = {}
        BY <2>1, <2>2 DEF ReadNow, Moving
    <2>4. Contract!Renew
        BY <2>1, <2>3 DEF Contract!Renew, ReadNow, Moving
    <2> QED
        BY <2>4 DEF Contract!ContractNext
<1>8. ASSUME NEW f \in Reads, Submit(f)
      PROVE  [Contract!ContractNext]_(Contract!contractVars)
    <2>1. \A b \in Bufs : xfer[b].st = "moving" => xfer'[b].st = "moving"
        <3>1. \A b \in Bufs : [xfer[b] EXCEPT !.st = "moving"].st = "moving"
            BY <1>0, Members
        <3>2. PICK M : xfer' = [b \in Bufs |-> IF b \in M THEN [xfer[b] EXCEPT !.st = "moving"] ELSE xfer[b]]
            <4>1. ASSUME NEW b \in fut[f].bufs, NEW S \in SUBSET (fut[f].bufs \ {b}), NEW posted \in BOOLEAN,
                         xfer' = [c \in Bufs |-> IF c \in S \/ (c = b /\ posted)
                                   THEN [xfer[c] EXCEPT !.st = "moving"] ELSE xfer[c]]
                  PROVE  \E M : xfer' = [c \in Bufs |->
                                   IF c \in M THEN [xfer[c] EXCEPT !.st = "moving"] ELSE xfer[c]]
                <5>1. PICK M : M = {c \in Bufs : c \in S \/ (c = b /\ posted)}
                    OBVIOUS
                <5>2. xfer' = [c \in Bufs |-> IF c \in M THEN [xfer[c] EXCEPT !.st = "moving"] ELSE xfer[c]]
                    BY <4>1, <5>1
                <5> QED
                    BY <5>2
            <4>2. \/ xfer' = [b \in Bufs |-> IF b \in fut[f].bufs
                                              THEN [xfer[b] EXCEPT !.st = "moving"] ELSE xfer[b]]
                  \/ \E b \in fut[f].bufs : \E S \in SUBSET (fut[f].bufs \ {b}), posted \in BOOLEAN :
                         /\ fut' = [fut EXCEPT ![f] = [@ EXCEPT !.st = "failed", !.running = S, !.unknown = {b}]]
                         /\ xfer' = [c \in Bufs |-> IF c \in S \/ (c = b /\ posted)
                                       THEN [xfer[c] EXCEPT !.st = "moving"] ELSE xfer[c]]
                BY <1>8, Zenon DEF Submit
            <4>3. CASE xfer' = [b \in Bufs |-> IF b \in fut[f].bufs
                                              THEN [xfer[b] EXCEPT !.st = "moving"] ELSE xfer[b]]
                BY <4>3
            <4>4. ASSUME NEW b \in fut[f].bufs,
                         \E S \in SUBSET (fut[f].bufs \ {b}), posted \in BOOLEAN :
                            /\ fut' = [fut EXCEPT ![f] = [@ EXCEPT !.st = "failed", !.running = S, !.unknown = {b}]]
                            /\ xfer' = [c \in Bufs |-> IF c \in S \/ (c = b /\ posted)
                                          THEN [xfer[c] EXCEPT !.st = "moving"] ELSE xfer[c]]
                  PROVE  \E M : xfer' = [c \in Bufs |->
                                   IF c \in M THEN [xfer[c] EXCEPT !.st = "moving"] ELSE xfer[c]]
                <5>1. PICK S \in SUBSET (fut[f].bufs \ {b}), posted \in BOOLEAN :
                         xfer' = [c \in Bufs |-> IF c \in S \/ (c = b /\ posted)
                                   THEN [xfer[c] EXCEPT !.st = "moving"] ELSE xfer[c]]
                    BY <4>4
                <5> QED
                    BY <4>1, <5>1
            <4> QED
                BY <4>2, <4>3, <4>4
        <3> QED
            BY <3>1, <3>2
    <2> QED
        BY <1>0, <1>8, <2>1, SubmitTurns, Begins
<1>9. ASSUME NEW f \in Reads, NEW b \in Bufs, Poll(f, b)
      PROVE  [Contract!ContractNext]_(Contract!contractVars)
    <2>1. xfer' = xfer \/ (xfer[b].st # "moving" /\ \A c \in Bufs \ {b} : xfer'[c] = xfer[c])
        <3>1. xfer' = xfer \/ (xfer[b].st \in {"done", "error"} /\ \E s : xfer' = [xfer EXCEPT ![b].st = s])
            BY <1>9, Zenon DEF Poll
        <3>2. ASSUME NEW s, xfer' = [xfer EXCEPT ![b].st = s], NEW c \in Bufs \ {b}
              PROVE  xfer'[c] = xfer[c]
            BY <1>0, <3>2 DEF TypeOK
        <3>3. CASE \E s : xfer' = [xfer EXCEPT ![b].st = s]
            BY <3>1, <3>2, <3>3
        <3> QED
            BY <3>1, <3>3
    <2>2. \A c \in Bufs : xfer[c].st = "moving" => xfer'[c].st = "moving"
        BY <2>1
    <2> QED
        BY <1>0, <1>9, <2>2, PollTurns, Begins
<1>10. ASSUME NEW f \in Reads, ReadTimesOut(f)
       PROVE  [Contract!ContractNext]_(Contract!contractVars)
    <2>1. xfer' = xfer
        BY <1>10 DEF ReadTimesOut
    <2> QED
        BY <1>0, <1>10, <2>1, TimeOutTurns, Begins
<1>11. ASSUME NEW b \in Bufs, TransferEnds(b)
       PROVE  [Contract!ContractNext]_(Contract!contractVars)
    <2>1. UNCHANGED <<life, creq, dead, owner, owed>>
        BY <1>11 DEF TransferEnds, consVars, histVars, bufVars
    <2>2. \A c \in Bufs : xfer'[c].st = "moving" => xfer'[c] = xfer[c]
        BY <1>0, <1>11, Members DEF TransferEnds, TypeOK
    <2>3. \A u \in Uuids : owed'[u] \in 0..owed[u]
        BY <1>0, <2>1
    <2> QED
        BY <1>0, <2>1, <2>2, <2>3, Settles
<1>12. ASSUME UNCHANGED vars
       PROVE  UNCHANGED Contract!contractVars
    BY <1>12 DEF vars, consVars, histVars, bufVars, readVars, Contract!contractVars
<1> QED
    BY <1>1, <1>2, <1>3, <1>4, <1>5, <1>6, <1>7, <1>8, <1>9, <1>10, <1>11, <1>12
    DEF Next, Starts, Checks, Consumes, Removes, Submits, Polls, TimesOut, Transfers

\* The manager keeps the contract that the producer's reference counts and the conductor's
\* drain rest on: an edge is acknowledged once and not before its transfer stopped, and
\* READS_DONE is said when no transfer it can learn about runs.
THEOREM ManagerKeepsContract == Spec => KeepsContract
<1>1. Init => Contract!ContractInit
    BY DEF Init, Contract!ContractInit, Still
<1>2. ASSUME Inv, Foreign
      PROVE  Owes
    BY <1>2, ReadIsOwed
<1>3. Inv /\ Inv' /\ Owes /\ Owes' /\ [Next]_vars => [Contract!ContractNext]_(Contract!contractVars)
    BY ContractStep
<1> QED
    BY <1>1, <1>2, <1>3, Invariance, PTL DEF Spec, KeepsContract, Contract!ContractSpec

\* A read is at one of its stages, a future names the transfers that were started for it,
\* and no count of edges, references or requests of the handle goes below zero.
THEOREM ReaderTyped == Spec => []TypeOK
<1>1. Inv => TypeOK
    BY DEF Inv
<1> QED
    BY <1>1, Invariance, PTL

=============================================================================
