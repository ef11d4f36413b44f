-------------------------- MODULE TeardownOrderProofs --------------------------
(***************************************************************************)
(* Proofs about Teardown: the ranks of a tensor-parallel group.            *)
(*                                                                         *)
(* Lined: what rank 0 has sent a follower and the follower has not done    *)
(* yet.  From it: no step that rank 0 sent names a request that the        *)
(* follower has removed, and the follower frees requests in rank 0's order. *)
(* The last part adds what the other invariants leave open of the types of *)
(* the variables (Plain, Spoken): every process hears only what its sender *)
(* says.                                                                   *)
(***************************************************************************)
EXTENDS TeardownProofs

-----------------------------------------------------------------------------
(* Order in a sequence *)

LEMMA PrecedesTail ==
    ASSUME NEW S, NEW s \in Seq(S), s # <<>>
    PROVE  /\ \A x, y : Precedes(Tail(s), x, y) => Precedes(s, x, y)
           /\ \A y \in Range(Tail(s)) : Precedes(s, Head(s), y)
<1>1. /\ Len(s) \in Nat \ {0} /\ Tail(s) \in Seq(S) /\ Len(Tail(s)) = Len(s) - 1 /\ Head(s) = s[1]
      /\ DOMAIN s = 1..Len(s) /\ DOMAIN Tail(s) = 1..Len(Tail(s))
  OBVIOUS
<1>2. \A i \in 1..Len(Tail(s)) : i + 1 \in 1..Len(s) /\ Tail(s)[i] = s[i + 1]
  BY <1>1
<1>3. ASSUME NEW x, NEW y, Precedes(Tail(s), x, y) PROVE Precedes(s, x, y)
  <2>1. PICK i \in 1..Len(Tail(s)) : \E j \in 1..Len(Tail(s)) : i < j /\ Tail(s)[i] = x /\ Tail(s)[j] = y
    BY <1>1, <1>3 DEF Precedes
  <2>2. PICK j \in 1..Len(Tail(s)) : i < j /\ Tail(s)[i] = x /\ Tail(s)[j] = y
    BY <2>1
  <2>3. i + 1 \in 1..Len(s) /\ j + 1 \in 1..Len(s) /\ i + 1 < j + 1 /\ s[i + 1] = x /\ s[j + 1] = y
    BY <1>2, <2>2
  <2> QED
    BY <1>1, <2>3 DEF Precedes
<1>4. ASSUME NEW y \in Range(Tail(s)) PROVE Precedes(s, Head(s), y)
  <2>a. \A x : x \in Range(Tail(s)) <=> \E i \in 1..Len(Tail(s)) : x = Tail(s)[i]
    BY <1>1, RangeIsImage
  <2>1. PICK i \in 1..Len(Tail(s)) : y = Tail(s)[i]
    BY <2>a
  <2>2. 1 \in 1..Len(s) /\ i + 1 \in 1..Len(s) /\ 1 < i + 1 /\ s[i + 1] = y
    BY <1>1, <1>2, <2>1
  <2> QED
    BY <1>1, <2>2 DEF Precedes
<1> QED
  BY <1>3, <1>4

LEMMA PrecedesAppend ==
    ASSUME NEW S, NEW s \in Seq(S), NEW e \in S
    PROVE  /\ \A x, y : Precedes(s, x, y) => Precedes(Append(s, e), x, y)
           /\ \A x \in Range(s) : Precedes(Append(s, e), x, e)
           /\ \A x, y : Precedes(Append(s, e), x, y) => Precedes(s, x, y) \/ (x \in Range(s) /\ y = e)
<1>1. PICK t : t = Append(s, e)
  OBVIOUS
<1>2. /\ Len(s) \in Nat /\ Len(t) = Len(s) + 1 /\ DOMAIN s = 1..Len(s) /\ DOMAIN t = 1..Len(t)
      /\ t[Len(s) + 1] = e /\ \A i \in 1..Len(s) : t[i] = s[i]
  BY <1>1
<1>3. ASSUME NEW x, NEW y, Precedes(s, x, y) PROVE Precedes(t, x, y)
  <2>1. PICK i \in 1..Len(s) : \E j \in 1..Len(s) : i < j /\ s[i] = x /\ s[j] = y
    BY <1>2, <1>3 DEF Precedes
  <2>2. PICK j \in 1..Len(s) : i < j /\ s[i] = x /\ s[j] = y
    BY <2>1
  <2>3. i \in 1..Len(t) /\ j \in 1..Len(t) /\ t[i] = x /\ t[j] = y
    BY <1>2, <2>2
  <2> QED
    BY <1>2, <2>2, <2>3 DEF Precedes
<1>4. ASSUME NEW x \in Range(s) PROVE Precedes(t, x, e)
  <2>1. PICK i \in 1..Len(s) : x = s[i]
    BY RangeIsImage
  <2>2. i \in 1..Len(t) /\ Len(t) \in 1..Len(t) /\ i < Len(t) /\ t[i] = x /\ t[Len(t)] = e
    BY <1>2, <2>1
  <2> QED
    BY <1>2, <2>2 DEF Precedes
<1>5. ASSUME NEW x, NEW y, Precedes(t, x, y) PROVE Precedes(s, x, y) \/ (x \in Range(s) /\ y = e)
  <2>1. PICK i \in 1..Len(t) : \E j \in 1..Len(t) : i < j /\ t[i] = x /\ t[j] = y
    BY <1>2, <1>5 DEF Precedes
  <2>2. PICK j \in 1..Len(t) : i < j /\ t[i] = x /\ t[j] = y
    BY <2>1
  <2>3. i \in 1..Len(s) /\ s[i] = x
    BY <1>2, <2>2
  <2>4. CASE j \in 1..Len(s)
    <3>1. s[j] = y
      BY <1>2, <2>2, <2>4
    <3> QED
      BY <1>2, <2>2, <2>3, <2>4, <3>1 DEF Precedes
  <2>5. CASE j = Len(s) + 1
    <3>1. x \in Range(s) /\ y = e
      BY <1>2, <2>2, <2>3, <2>5, RangeIsImage
    <3> QED
      BY <3>1
  <2> QED
    BY <1>2, <2>4, <2>5
<1> QED
  BY <1>1, <1>3, <1>4, <1>5

\* Of what does not repeat itself.
LEMMA WithoutRange ==
    ASSUME NEW s \in Seq(Rids), NEW r, NoDup(s)
    PROVE  Without(s, r) \in Seq(Rids) /\ NoDup(Without(s, r)) /\ Range(Without(s, r)) = Range(s) \ {r}
<1>1. CASE r \notin Range(s)
  BY <1>1 DEF Without
<1>2. CASE r \in Range(s)
  <2>1. \E i \in DOMAIN s : s[i] = r
    BY <1>2 DEF Range
  <2>2. PICK i : i = CHOOSE k \in DOMAIN s : s[k] = r
    OBVIOUS
  <2>3. i \in 1..Len(s) /\ s[i] = r
    BY <2>1, <2>2
  <2>4. Without(s, r) = SubSeq(s, 1, i - 1) \o SubSeq(s, i + 1, Len(s))
    BY <1>2, <2>2 DEF Without
  <2> QED
    BY <2>3, <2>4, NoDupCut
<1> QED
  BY <1>1, <1>2

LEMMA WithoutHead ==
    ASSUME NEW s \in Seq(Rids), s # <<>>, NoDup(s)
    PROVE  Without(s, Head(s)) = Tail(s)
<1>1. Len(s) \in Nat \ {0} /\ Head(s) = s[1] /\ DOMAIN s = 1..Len(s) /\ Head(s) \in Range(s)
  BY RangeTail
<1>a. PICK r : r = Head(s)
  OBVIOUS
<1>2. PICK i : i = CHOOSE k \in DOMAIN s : s[k] = r
  OBVIOUS
<1>3. i \in DOMAIN s /\ s[i] = s[1]
  <2>1. 1 \in DOMAIN s /\ s[1] = r
    BY <1>1, <1>a
  <2> QED
    BY <1>1, <1>a, <1>2, <2>1
<1>4. i = 1
  BY <1>1, <1>3 DEF NoDup
<1>5. Without(s, r) = SubSeq(s, 1, i - 1) \o SubSeq(s, i + 1, Len(s))
  BY <1>1, <1>a, <1>2 DEF Without
<1>6. SubSeq(s, 1, 0) = <<>> /\ SubSeq(s, 2, Len(s)) = Tail(s) /\ Tail(s) \in Seq(Rids)
  BY <1>1
<1>7. Without(s, r) = SubSeq(s, 1, 0) \o SubSeq(s, 2, Len(s))
  BY <1>4, <1>5
<1> QED
  BY <1>a, <1>6, <1>7, ConcatNone

LEMMA WithNoDup ==
    ASSUME NEW s \in Seq(Rids), NEW r \in Rids, NoDup(s)
    PROVE  With(s, r) \in Seq(Rids) /\ NoDup(With(s, r)) /\ Range(With(s, r)) = Range(s) \cup {r}
  BY WithAdds, NoDupAppend DEF With

-----------------------------------------------------------------------------
(* The invariant *)

Fitted ==
    /\ spec \in [Workers -> SUBSET Rids] /\ failed \in [Workers -> SUBSET Rids]
    /\ freed \in [Workers -> Seq(Rids)]

\* What w has been told of r by the conductor, and what it has had of it.
New(w, r) == Msg("new", r) \in Range(fromC[w])
Leaving(w, r) == Msg("remove", r) \in Range(fromC[w])
Met(w, r) == r \in held[w] \cup torn[w]
Known(w, r) == Met(w, r) \/ r \in acked[w]
Manned(w, r) == work[w][r] # "none" \/ r \in spec[w] => r \in held[w]

(***************************************************************************)
(* Of one request at one worker: it is sent to the worker once, before its *)
(* removal, and nobody counts on the worker for it before the worker has   *)
(* it or has said that it does not read for it.                            *)
(***************************************************************************)
Row(w, r) ==
    /\ Manned(w, r)
    /\ Msg("remove", r) \in Range(tpq[w]) \/ r \in Range(pendRemove[w]) => Met(w, r)
    /\ Polite(fromC[w], r) /\ (Met(w, r) => ~New(w, r))
    /\ DoneBy(w, r) \/ (Running(r) /\ w \in reported[r]) => Met(w, r)
    /\ r \in draining /\ w \notin expected[r] => Known(w, r)
    /\ Leaving(w, r) /\ r \notin forced => Known(w, r)
    /\ Ending(r) /\ New(w, r) => Leaving(w, r)

\* Rank 0 is sent nothing by a rank 0.
Alone(w) == fwd[w] = <<>> /\ tpq[w] = <<>> /\ parked[w] = {}

\* Rank 0 w starts no step of r any more.
Shut(w, r) ==
    IF r \in held[w] THEN r \in failed[w] \cup pendDrain[w] \cup Range(pendRemove[w])
    ELSE r \in drain[w] \/ (~New(w, r) /\ r \notin Before)

Steps(r) == {Msg("step", r), Msg("spec", r)}
Ends(r) == {Msg("drain", r), Msg("remove", r)}

(***************************************************************************)
(* Follower f has a drain or a removal that rank 0 sent, or is through     *)
(* with r.  No step that rank 0 sent comes after that.                     *)
(***************************************************************************)
Drained(f, r) == r \in drain[f] \cup pendDrain[f] \cup parked[f] \/ Msg("remove", r) \in Range(tpq[f])
Over(f, r) == r \in Range(pendRemove[f]) \/ (r \notin forced /\ r \in torn[f] \cup acked[f])
Warned(f, r) == (\E n \in Ends(r) : n \in Range(fwd[f])) \/ Drained(f, r) \/ Over(f, r)

Overtaken(f, r) == \E m \in Steps(r) :
    \/ \E n \in Ends(r) : Precedes(fwd[f], n, m)
    \/ Precedes(tpq[f], Msg("remove", r), m)
    \/ Drained(f, r) /\ m \in Range(fwd[f])
    \/ Over(f, r) /\ m \in Range(fwd[f]) \cup Range(tpq[f])

Following(f, r) == ~Overtaken(f, r) /\ (Warned(f, r) => Shut(Leader[f], r))

(***************************************************************************)
(* The removals at follower f, in order: done, deferred, behind the steps  *)
(* that f has fetched, and on their way from rank 0.                       *)
(***************************************************************************)
Freed(f, r) == r \in Range(freed[f])
Deferred(f, r) == r \in Range(pendRemove[f])
Stands(f, r) == Msg("remove", r) \in Range(tpq[f])
Comes(f, r) == Msg("remove", r) \in Range(fwd[f])
InLine(f, r) == Freed(f, r) \/ Deferred(f, r) \/ Stands(f, r) \/ Comes(f, r)

Ahead(f, q, r) ==
    \/ Precedes(freed[f], q, r) \/ Precedes(pendRemove[f], q, r)
    \/ Precedes(tpq[f], Msg("remove", q), Msg("remove", r))
    \/ Precedes(fwd[f], Msg("remove", q), Msg("remove", r))
    \/ Freed(f, q) /\ (Deferred(f, r) \/ Stands(f, r) \/ Comes(f, r))
    \/ Deferred(f, q) /\ (Stands(f, r) \/ Comes(f, r))
    \/ Stands(f, q) /\ Comes(f, r)

\* They are in the order in which rank 0 freed the requests.
Ordered(f) ==
    /\ \A r \in Rids \ forced : InLine(f, r) => r \in Range(freed[Leader[f]])
    /\ \A q, r \in Rids \ forced : Ahead(f, q, r) => Precedes(freed[Leader[f]], q, r)

Rows == \A w \in Workers :
    /\ NoDup(pendRemove[w]) /\ (Leads(w) => Alone(w))
    /\ \A r \in Rids : Row(w, r)

Line(f) == Ordered(f) /\ \A r \in Rids : Following(f, r)

Lined == Fitted /\ Rows /\ \A f \in Workers : ~Leads(f) => Line(f)

-----------------------------------------------------------------------------
(* What a worker's step does to one request, at the worker ... *)

\* The worker has and has lost the same requests.
Still(w) ==
    /\ held'[w] = held[w] /\ torn'[w] = torn[w] /\ pendRemove'[w] = pendRemove[w] /\ freed'[w] = freed[w]
    /\ failed[w] \subseteq failed'[w]

Rests(w) ==
    /\ Still(w) /\ drain'[w] = drain[w] /\ acked'[w] = acked[w]
    /\ pendDrain'[w] = pendDrain[w] /\ parked'[w] = parked[w]

Confirms(w, r) == acked'[w] = acked[w] \cup {r} /\ ~Awaits(w, r)

AcksLate(w, r) ==
    /\ Still(w) /\ drain'[w] = drain[w] /\ pendDrain'[w] = pendDrain[w] /\ parked'[w] = parked[w]
    /\ r \in drain[w] /\ Confirms(w, r)

PutsOff(w, r) ==
    /\ Still(w) /\ drain'[w] = drain[w] /\ acked'[w] = acked[w] /\ parked'[w] = parked[w]
    /\ pendDrain'[w] = pendDrain[w] \cup {r}

DrainsNow(w, r) ==
    /\ Still(w) /\ parked'[w] = parked[w] /\ drain'[w] = drain[w] \cup {r}
    /\ acked'[w] = acked[w] \/ Confirms(w, r)
    /\ pendDrain'[w] = pendDrain[w] \/ pendDrain'[w] = pendDrain[w] \ {r}
    /\ r \in held[w] => r \in failed'[w]

Parks(w, r) ==
    /\ Still(w) /\ drain'[w] = drain[w] /\ acked'[w] = acked[w] /\ pendDrain'[w] = pendDrain[w]
    /\ parked'[w] = parked[w] \cup {r}

Greets(w, r) ==
    /\ held'[w] = held[w] \cup {r} /\ failed[w] \subseteq failed'[w]
    /\ torn'[w] = torn[w] /\ pendRemove'[w] = pendRemove[w] /\ freed'[w] = freed[w]
    /\ drain'[w] = drain[w] /\ acked'[w] = acked[w] /\ pendDrain'[w] = pendDrain[w]

Marks(w, r) ==
    /\ torn'[w] = torn[w] \cup {r} /\ drain'[w] = drain[w] \ {r} /\ acked'[w] = acked[w] \ {r}
    /\ pendDrain'[w] = pendDrain[w] \ {r} /\ parked'[w] = parked[w] \ {r}

Slips(w, r) ==
    Marks(w, r) /\ held'[w] = held[w] /\ failed'[w] = failed[w] /\ pendRemove'[w] = pendRemove[w] /\ freed'[w] = freed[w]

Defers(w, r) ==
    /\ held'[w] = held[w] /\ torn'[w] = torn[w] /\ freed'[w] = freed[w] /\ failed'[w] = failed[w]
    /\ drain'[w] = drain[w] /\ acked'[w] = acked[w] /\ pendDrain'[w] = pendDrain[w] /\ parked'[w] = parked[w]
    /\ pendRemove'[w] = With(pendRemove[w], r)

Frees(w, r) ==
    /\ Marks(w, r) /\ ~Behind(w, r)
    /\ held'[w] = held[w] \ {r} /\ failed'[w] = failed[w] \ {r}
    /\ pendRemove'[w] = Without(pendRemove[w], r) /\ freed'[w] = Append(freed[w], r)

(* ... and with the messages it takes and sends. *)
Pops(w, m) == tpq[w] # <<>> /\ Head(tpq[w]) = m /\ tpq' = [tpq EXCEPT ![w] = Tail(@)]
Fetches(w, m) == fwd[w] # <<>> /\ Head(fwd[w]) = m /\ fwd' = [fwd EXCEPT ![w] = Tail(@)]
Queues(w, m) == tpq' = [tpq EXCEPT ![w] = Append(@, m)]

\* Only w's own has changed, and what the followers of w hear.
Own(w) ==
    /\ \A v \in Workers \ {w} :
         /\ drain'[v] = drain[v] /\ acked'[v] = acked[v] /\ torn'[v] = torn[v] /\ held'[v] = held[v]
         /\ work'[v] = work[v] /\ spec'[v] = spec[v] /\ failed'[v] = failed[v] /\ parked'[v] = parked[v]
         /\ pendDrain'[v] = pendDrain[v] /\ pendRemove'[v] = pendRemove[v] /\ freed'[v] = freed[v]
    /\ Fitted' /\ \A q \in Rids : Manned(w, q)'

Turned(w, r) ==
    /\ fromC' = fromC
    /\ \/ Rests(w) /\ fwd' = fwd /\ (tpq' = tpq \/ \E m \in Steps(r) : Pops(w, m))
       \/ Rests(w) /\ tpq' = tpq /\ Leads(w) /\ ~Shut(w, r) /\ \E k \in {"step", "spec"} : Forward(w, k, r)
       \/ AcksLate(w, r) /\ UNCHANGED <<tpq, fwd>>

Applied(w, r) ==
    /\ UNCHANGED <<fromC, tpq>>
    /\ \/ DrainsNow(w, r) /\ r \in pendDrain[w] /\ Forward(w, "drain", r)
       \/ Frees(w, r) /\ r \in Range(pendRemove[w]) /\ Forward(w, "remove", r)

Received(w, r) ==
    \/ UNCHANGED <<tpq, fwd>> /\ Rests(w) /\ \E k \in Kinds : Takes(w, k, r)
    \/ /\ Takes(w, "new", r) /\ fwd' = fwd
       /\ \/ /\ Greets(w, r) /\ UNCHANGED tpq /\ parked'[w] = parked[w]
             /\ r \in drain[w] /\ Followers(w) # {} => r \in failed'[w]
          \/ r \in parked[w] \ acked[w] /\ Slips(w, r) /\ UNCHANGED tpq
          \/ r \in parked[w] \ acked[w] /\ Greets(w, r) /\ parked'[w] = parked[w] \ {r} /\ Queues(w, Msg("remove", r))
    \/ /\ Takes(w, "drain", r) /\ Leads(w) /\ UNCHANGED tpq
       /\ \/ PutsOff(w, r) /\ fwd' = fwd
          \/ DrainsNow(w, r) /\ (fwd' = fwd \/ (r \in held[w] /\ Forward(w, "drain", r)))
    \/ /\ Takes(w, "remove", r) /\ UNCHANGED tpq
       /\ \/ r \notin held[w] /\ Slips(w, r) /\ fwd' = fwd
          \/ r \in held[w] /\ Leads(w) /\ Defers(w, r) /\ fwd' = fwd
          \/ r \in held[w] /\ Leads(w) /\ Frees(w, r) /\ Forward(w, "remove", r)

Followed(w, r) ==
    /\ fromC' = fromC
    /\ \/ Rests(w) /\ \E m \in Steps(r) : Fetches(w, m) /\ Queues(w, m)
       \/ Fetches(w, Msg("drain", r)) /\ UNCHANGED tpq /\ (PutsOff(w, r) \/ DrainsNow(w, r))
       \/ Fetches(w, Msg("remove", r)) /\ UNCHANGED tpq /\ (Rests(w) \/ Parks(w, r))
       \/ Fetches(w, Msg("remove", r)) /\ Rests(w) /\ r \in held[w] /\ Queues(w, Msg("remove", r))
       \/ /\ Fetches(w, Msg("remove", r)) /\ UNCHANGED tpq /\ tpq[w] = <<>> /\ r \in held[w]
          /\ Defers(w, r) \/ Frees(w, r)

Reached(w, r) == UNCHANGED <<fromC, fwd>> /\ Pops(w, Msg("remove", r)) /\ (Defers(w, r) \/ Frees(w, r))

Acts(w, r) ==
    /\ r \in Rids /\ Own(w)
    /\ Turned(w, r) \/ Applied(w, r) \/ Received(w, r) \/ Followed(w, r) \/ Reached(w, r)

LEMMA RemovalFrees ==
    ASSUME Shaped, Fitted, Rows, NEW w \in Workers, NEW r \in Rids, Removal(w, r), ~InStep(w, r), ~Behind(w, r)
    PROVE  Own(w) /\ Frees(w, r)
<1>1. w \in Entities /\ \A v \in Workers : v \in Entities
  BY Cast
<1>2. Marks(w, r) /\ \A v \in Workers \ {w} : /\ drain'[v] = drain[v] /\ acked'[v] = acked[v] /\ torn'[v] = torn[v]
                                             /\ pendDrain'[v] = pendDrain[v] /\ parked'[v] = parked[v]
  BY <1>1 DEF Removal, MarkRemoved, Marks, Add, Del, Shaped
<1>3. /\ held'[w] = held[w] \ {r} /\ failed'[w] = failed[w] \ {r} /\ freed'[w] = Append(freed[w], r)
      /\ spec' = spec /\ failed' \in [Workers -> SUBSET Rids]
      /\ \A v \in Workers \ {w} : held'[v] = held[v] /\ failed'[v] = failed[v] /\ freed'[v] = freed[v]
  BY DEF Removal, Del, Shaped, Fitted
<1>4. pendRemove'[w] = Without(pendRemove[w], r) /\ \A v \in Workers \ {w} : pendRemove'[v] = pendRemove[v]
  BY DEF Removal, Shaped
<1>5. /\ \A v \in Workers \ {w} : work'[v] = work[v]
      /\ \A q \in Rids : work'[w][q] = IF q = r THEN "none" ELSE work[w][q]
  BY DEF Removal, Shaped
<1>6. freed' \in [Workers -> Seq(Rids)]
  <2>1. freed[w] \in Seq(Rids)
    BY DEF Fitted
  <2>2. Append(freed[w], r) \in Seq(Rids)
    BY <2>1
  <2> QED
    BY <2>2 DEF Removal, Fitted
<1>7. Fitted'
  BY <1>3, <1>6 DEF Fitted
<1>8. \A q \in Rids : Manned(w, q)'
  BY <1>3, <1>5 DEF Rows, Row, Manned, InStep
<1> QED
  BY <1>2, <1>3, <1>4, <1>5, <1>7, <1>8 DEF Own, Frees

LEMMA RemoveHeldDoes ==
    ASSUME Shaped, Fitted, Rows, NEW w \in Workers, NEW r \in Rids, RemoveHeld(w, r)
    PROVE  Own(w) /\ (Defers(w, r) \/ Frees(w, r))
<1>1. CASE InStep(w, r) \/ Behind(w, r)
  <2>1. /\ pendRemove' = [pendRemove EXCEPT ![w] = With(@, r)]
        /\ UNCHANGED <<torn, drain, acked, pendDrain, parked, held, work, spec, failed, freed>>
    BY <1>1 DEF RemoveHeld
  <2>2. Defers(w, r) /\ \A v \in Workers \ {w} : pendRemove'[v] = pendRemove[v]
    BY <2>1 DEF Defers, Shaped
  <2>3. Fitted' /\ \A q \in Rids : Manned(w, q)'
    BY <2>1 DEF Fitted, Rows, Row, Manned
  <2> QED
    BY <2>1, <2>2, <2>3 DEF Own
<1>2. CASE ~(InStep(w, r) \/ Behind(w, r))
  BY <1>2, RemovalFrees DEF RemoveHeld
<1> QED
  BY <1>1, <1>2

LEMMA BeginDrainDoes ==
    ASSUME Shaped, Fitted, Rows, NEW w \in Workers, NEW r \in Rids, BeginDrain(w, r),
           pendDrain' = pendDrain \/ pendDrain' = Del(pendDrain, w, r),
           UNCHANGED <<torn, held, work, spec, pendRemove, parked, freed>>
    PROVE  Own(w) /\ DrainsNow(w, r)
<1>1. w \in Entities /\ \A v \in Workers : v \in Entities
  BY Cast
<1>2. /\ drain'[w] = drain[w] \cup {r} /\ \A v \in Workers \ {w} : drain'[v] = drain[v]
      /\ acked'[w] = acked[w] \/ Confirms(w, r)
      /\ \A v \in Workers \ {w} : acked'[v] = acked[v]
  BY <1>1 DEF BeginDrain, CompleteDrain, Quiet, Confirms, Add, Shaped
<1>3. /\ failed' \in [Workers -> SUBSET Rids] /\ failed[w] \subseteq failed'[w] /\ (r \in held[w] => r \in failed'[w])
      /\ \A v \in Workers \ {w} : failed'[v] = failed[v]
  BY DEF BeginDrain, Add, Fitted
<1>4. /\ pendDrain'[w] = pendDrain[w] \/ pendDrain'[w] = pendDrain[w] \ {r}
      /\ \A v \in Workers \ {w} : pendDrain'[v] = pendDrain[v]
  BY DEF Del, Shaped
<1>5. Fitted' /\ \A q \in Rids : Manned(w, q)'
  BY <1>3 DEF Fitted, Rows, Row, Manned
<1> QED
  BY <1>2, <1>3, <1>4, <1>5 DEF Own, DrainsNow, Still

LEMMA DrainRequestDoes ==
    ASSUME Shaped, Fitted, Rows, NEW w \in Workers, NEW r \in Rids, DrainRequest(w, r)
    PROVE  Own(w) /\ (PutsOff(w, r) \/ DrainsNow(w, r))
<1>1. CASE InStep(w, r)
  <2>1. pendDrain' = Add(pendDrain, w, r) /\ UNCHANGED <<failed, drain, acked, torn, held, work, spec, pendRemove, parked, freed>>
    BY <1>1 DEF DrainRequest
  <2>2. pendDrain'[w] = pendDrain[w] \cup {r} /\ \A v \in Workers \ {w} : pendDrain'[v] = pendDrain[v]
    BY <2>1 DEF Add, Shaped
  <2>3. Fitted' /\ \A q \in Rids : Manned(w, q)'
    BY <2>1 DEF Fitted, Rows, Row, Manned
  <2> QED
    BY <2>1, <2>2, <2>3 DEF Own, PutsOff, Still
<1>2. CASE ~InStep(w, r)
  BY <1>2, BeginDrainDoes DEF DrainRequest
<1> QED
  BY <1>1, <1>2

LEMMA MarkRemovedDoes ==
    ASSUME Shaped, Fitted, Rows, NEW w \in Workers, NEW r \in Rids, MarkRemoved(w, r),
           UNCHANGED <<held, work, spec, failed, pendRemove, freed>>
    PROVE  Own(w) /\ Slips(w, r)
<1>1. w \in Entities /\ \A v \in Workers : v \in Entities
  BY Cast
<1>2. Marks(w, r) /\ \A v \in Workers \ {w} : /\ drain'[v] = drain[v] /\ acked'[v] = acked[v] /\ torn'[v] = torn[v]
                                             /\ pendDrain'[v] = pendDrain[v] /\ parked'[v] = parked[v]
  BY <1>1 DEF MarkRemoved, Marks, Add, Del, Shaped
<1>3. Fitted' /\ \A q \in Rids : Manned(w, q)'
  BY DEF Fitted, Rows, Row, Manned
<1> QED
  BY <1>2, <1>3 DEF Own, Slips

\* Where nothing of the worker's requests has changed but perhaps their work.
LEMMA NothingDoes ==
    ASSUME Fitted, Rows, NEW w \in Workers,
           UNCHANGED <<drain, acked, torn, held, failed, pendDrain, pendRemove, parked, freed>>, spec' \in [Workers -> SUBSET Rids],
           \A v \in Workers \ {w} : work'[v] = work[v] /\ spec'[v] = spec[v],
           \A q \in Rids : (work'[w][q] # "none" => work[w][q] # "none" \/ q \in held[w]) /\ (q \in spec'[w] => q \in spec[w] \/ q \in held[w])
    PROVE  Own(w) /\ Rests(w)
<1>1. Fitted'
  BY DEF Fitted
<1>2. \A q \in Rids : Manned(w, q)'
  BY DEF Rows, Row, Manned
<1> QED
  BY <1>1, <1>2 DEF Own, Rests, Still

LEMMA NoFollowers == ASSUME NEW w \in Workers, ~Leads(w) PROVE Followers(w) = {} /\ \A k, r : fwd \in [Workers -> Seq(Notes)] /\ Forward(w, k, r) => fwd' = fwd
<1>1. Followers(w) = {}
  BY TeardownAssumption DEF Followers, Leads
<1> QED
  BY <1>1 DEF Forward

LEMMA NewDoes ==
    ASSUME Shaped, Fitted, Rows, NEW w \in Workers, NEW r \in Rids, NewRequest(w, r)
    PROVE  /\ Own(w)
           /\ \/ UNCHANGED tpq /\ Rests(w)
              \/ /\ Greets(w, r) /\ UNCHANGED tpq /\ parked'[w] = parked[w]
                 /\ r \in drain[w] /\ Followers(w) # {} => r \in failed'[w]
              \/ r \in parked[w] \ acked[w] /\ Slips(w, r) /\ UNCHANGED tpq
              \/ r \in parked[w] \ acked[w] /\ Greets(w, r) /\ parked'[w] = parked[w] \ {r} /\ Queues(w, Msg("remove", r))
<1>1. CASE NewRefused(w, r)
  <2>1. UNCHANGED <<partVars, workVars>>
    BY <1>1 DEF NewRefused
  <2> QED
    BY <2>1, NothingDoes DEF partVars, workVars, Fitted
<1>2. CASE NewTaken(w, r)
  <2>1. /\ held' = Add(held, w, r) /\ work' = [work EXCEPT ![w][r] = "inputs"]
        /\ failed' = (IF r \in drain[w] THEN Add(failed, w, r) ELSE failed)
        /\ UNCHANGED <<drain, acked, torn, spec, pendDrain, pendRemove, tpq, parked, freed>>
    BY <1>2 DEF NewTaken, TakeInputs
  <2>2. held'[w] = held[w] \cup {r} /\ \A v \in Workers \ {w} : held'[v] = held[v] /\ work'[v] = work[v]
    BY <2>1 DEF Add, Shaped
  <2>3. /\ failed' \in [Workers -> SUBSET Rids] /\ failed[w] \subseteq failed'[w] /\ (r \in drain[w] => r \in failed'[w])
        /\ \A v \in Workers \ {w} : failed'[v] = failed[v]
    BY <2>1 DEF Add, Fitted
  <2>4. \A q \in Rids : q # r => work'[w][q] = work[w][q]
    BY <2>1 DEF Shaped
  <2>5. Fitted' /\ \A q \in Rids : Manned(w, q)'
    BY <2>1, <2>2, <2>3, <2>4 DEF Fitted, Rows, Row, Manned
  <2> QED
    BY <2>1, <2>2, <2>3, <2>5 DEF Own, Greets
<1>3. CASE NewFails(w, r)
  <2>1. /\ held' = Add(held, w, r) /\ failed' = Add(failed, w, r)
        /\ UNCHANGED <<drain, acked, torn, work, spec, pendDrain, pendRemove, tpq, parked, freed>>
    BY <1>3 DEF NewFails, Fail, partVars
  <2>2. held'[w] = held[w] \cup {r} /\ \A v \in Workers \ {w} : held'[v] = held[v]
    BY <2>1 DEF Add, Shaped
  <2>3. /\ failed' \in [Workers -> SUBSET Rids] /\ failed[w] \subseteq failed'[w] /\ r \in failed'[w]
        /\ \A v \in Workers \ {w} : failed'[v] = failed[v]
    BY <2>1 DEF Add, Fitted
  <2>5. Fitted' /\ \A q \in Rids : Manned(w, q)'
    BY <2>1, <2>2, <2>3 DEF Fitted, Rows, Row, Manned
  <2> QED
    BY <2>1, <2>2, <2>3, <2>5 DEF Own, Greets
<1>4. CASE NewParked(w, r)
  <2>1. CASE tpq[w] = <<>> /\ ~Behind(w, r)
    <3>1. MarkRemoved(w, r) /\ UNCHANGED <<held, tpq, work, spec, failed, pendRemove, freed>> /\ r \in parked[w] \ acked[w]
      BY <1>4, <2>1 DEF NewParked
    <3> QED
      BY <3>1, MarkRemovedDoes
  <2>2. CASE ~(tpq[w] = <<>> /\ ~Behind(w, r))
    <3>1. /\ held' = Add(held, w, r) /\ parked' = Del(parked, w, r) /\ Queues(w, Msg("remove", r))
          /\ r \in parked[w] \ acked[w]
          /\ UNCHANGED <<torn, drain, acked, pendDrain, work, spec, failed, pendRemove, freed>>
      BY <1>4, <2>2 DEF NewParked, Queues
    <3>2. /\ held'[w] = held[w] \cup {r} /\ parked'[w] = parked[w] \ {r}
          /\ \A v \in Workers \ {w} : held'[v] = held[v] /\ parked'[v] = parked[v]
      BY <3>1 DEF Add, Del, Shaped
    <3>3. Fitted' /\ \A q \in Rids : Manned(w, q)'
      BY <3>1, <3>2 DEF Fitted, Rows, Row, Manned
    <3> QED
      BY <3>1, <3>2, <3>3 DEF Own, Greets
  <2> QED
    BY <2>1, <2>2
<1> QED
  BY <1>1, <1>2, <1>3, <1>4 DEF NewRequest

LEMMA TurnActs ==
    ASSUME Shaped, Fitted, Rows, NEW w \in Workers, NEW r \in Rids,
           \/ DrainTurn(w, r) \/ StepStarts(w, r) \/ StepFollows(w, r) \/ StepEnds(w, r)
           \/ SpecFollows(w, r) \/ SpecEnds(w, r) \/ ReadEnds(w, r) \/ WorkerItem(w, r)
           \/ StepFails(w, r) \/ ReadFails(w, r)
    PROVE  Acts(w, r)
<1>1. Manned(w, r)
  BY DEF Rows, Row
<1>2. CASE DrainTurn(w, r)
  <2>1. /\ UNCHANGED <<drain, torn, held, work, spec, failed, pendDrain, pendRemove, parked, freed, tpq, fromC, fwd>>
        /\ r \in drain[w] \ acked[w] /\ Quiet(w, r) /\ acked' = Add(acked, w, r)
    BY <1>2 DEF DrainTurn, CompleteDrain, workVars
  <2>2. acked'[w] = acked[w] \cup {r} /\ \A v \in Workers \ {w} : acked'[v] = acked[v]
    BY <2>1, Cast DEF Add, Shaped
  <2>3. Own(w)
    BY <2>1, <2>2 DEF Own, Fitted, Rows, Row, Manned
  <2> QED
    BY <2>1, <2>2, <2>3 DEF Acts, Turned, AcksLate, Still, Confirms, Quiet
<1>3. CASE StepStarts(w, r)
  <2>1. /\ UNCHANGED <<drain, acked, torn, held, spec, failed, pendDrain, pendRemove, parked, freed, tpq, fromC>>
        /\ work' = [work EXCEPT ![w][r] = "step"] /\ r \in held[w] /\ Forward(w, "step", r) /\ Leads(w)
        /\ r \notin failed[w] \cup spec[w] /\ work[w][r] = "inputs" /\ Settled(w)
    BY <1>3 DEF StepStarts, Ready, partVars
  <2>2. ~InStep(w, r)
    BY <2>1 DEF InStep
  <2>3. r \notin pendDrain[w]
    BY <2>1, <2>2 DEF Settled, DrainsDue
  <2>4. r \notin Range(pendRemove[w])
    <3> SUFFICES ASSUME r \in Range(pendRemove[w]) PROVE FALSE
      OBVIOUS
    <3>1. PICK i \in DOMAIN pendRemove[w] : r = pendRemove[w][i]
      BY DEF Range
    <3>2. r \in RemovesDue(w)
      BY <2>1, <2>2, <3>1 DEF RemovesDue
    <3> QED
      BY <2>1, <3>2 DEF Settled
  <2>5. ~Shut(w, r)
    BY <2>1, <2>3, <2>4 DEF Shut
  <2>6. Own(w) /\ Rests(w)
    BY <2>1, NothingDoes DEF Shaped, Fitted
  <2> QED
    BY <2>1, <2>5, <2>6 DEF Acts, Turned
<1>4. CASE StepFollows(w, r)
  <2>1. /\ UNCHANGED <<drain, acked, torn, held, spec, failed, pendDrain, pendRemove, parked, freed, fromC, fwd>>
        /\ work' = [work EXCEPT ![w][r] = "step"] /\ r \in held[w] /\ Pops(w, Msg("step", r))
    BY <1>4 DEF StepFollows, Ready, partVars, Pops
  <2>2. Own(w) /\ Rests(w)
    BY <2>1, NothingDoes DEF Shaped, Fitted
  <2> QED
    BY <2>1, <2>2 DEF Acts, Turned, Steps
<1>5. CASE StepEnds(w, r)
  <2>1. /\ UNCHANGED <<drain, acked, torn, held, failed, pendDrain, pendRemove, parked, freed, tpq, fromC>>
        /\ work' = [work EXCEPT ![w][r] = "none"] /\ r \in held[w]
        /\ UNCHANGED <<spec, fwd>> \/ Speculate(w, r)
    BY <1>1, <1>5 DEF StepEnds, partVars, Manned
  <2>2. CASE UNCHANGED <<spec, fwd>>
    <3>1. Own(w) /\ Rests(w)
      BY <2>1, <2>2, NothingDoes DEF Shaped, Fitted
    <3> QED
      BY <2>1, <2>2, <3>1 DEF Acts, Turned
  <2>3. CASE Speculate(w, r)
    <3>1. spec' = Add(spec, w, r) /\ Forward(w, "spec", r) /\ Leads(w) /\ ~TearingDown(w, r)
      BY <2>3 DEF Speculate
    <3>2. /\ spec' \in [Workers -> SUBSET Rids] /\ spec'[w] = spec[w] \cup {r}
          /\ \A v \in Workers \ {w} : spec'[v] = spec[v]
      BY <3>1 DEF Add, Fitted
    <3>3. Own(w) /\ Rests(w)
      BY <2>1, <3>2, NothingDoes DEF Shaped
    <3>4. ~Shut(w, r)
      BY <2>1, <3>1 DEF Shut, TearingDown
    <3> QED
      BY <2>1, <3>1, <3>3, <3>4 DEF Acts, Turned
  <2> QED
    BY <2>1, <2>2, <2>3
<1>6. CASE SpecFollows(w, r)
  <2>1. /\ UNCHANGED <<drain, acked, torn, held, work, failed, pendDrain, pendRemove, parked, freed, fromC, fwd>>
        /\ spec' = Add(spec, w, r) /\ r \in held[w] /\ Pops(w, Msg("spec", r))
    BY <1>6 DEF SpecFollows, partVars, Pops
  <2>2. /\ spec' \in [Workers -> SUBSET Rids] /\ spec'[w] = spec[w] \cup {r}
        /\ \A v \in Workers \ {w} : spec'[v] = spec[v]
    BY <2>1 DEF Add, Fitted
  <2>3. Own(w) /\ Rests(w)
    BY <2>1, <2>2, NothingDoes DEF Shaped
  <2> QED
    BY <2>1, <2>3 DEF Acts, Turned, Steps
<1>7. CASE SpecEnds(w, r)
  <2>1. /\ UNCHANGED <<drain, acked, torn, held, work, failed, pendDrain, pendRemove, parked, freed, tpq, fromC, fwd>>
        /\ spec' = Del(spec, w, r)
    BY <1>7 DEF SpecEnds, partVars
  <2>2. /\ spec' \in [Workers -> SUBSET Rids] /\ spec'[w] = spec[w] \ {r}
        /\ \A v \in Workers \ {w} : spec'[v] = spec[v]
    BY <2>1 DEF Del, Fitted
  <2>3. Own(w) /\ Rests(w)
    BY <2>1, <2>2, NothingDoes DEF Shaped
  <2> QED
    BY <2>1, <2>3 DEF Acts, Turned
<1>8. CASE ReadEnds(w, r) \/ WorkerItem(w, r)
  <2>1. UNCHANGED <<drain, acked, torn, held, work, spec, failed, pendDrain, pendRemove, parked, freed, tpq, fromC, fwd>>
    BY <1>8 DEF ReadEnds, WorkerItem, workVars
  <2>2. Own(w) /\ Rests(w)
    BY <2>1, NothingDoes DEF Fitted
  <2> QED
    BY <2>1, <2>2 DEF Acts, Turned
<1>9. CASE StepFails(w, r) \/ ReadFails(w, r)
  <2>1. /\ UNCHANGED <<drain, acked, torn, held, spec, pendDrain, pendRemove, parked, freed, tpq, fromC, fwd>>
        /\ work' = [work EXCEPT ![w][r] = "none"] /\ (failed' = failed \/ failed' = Add(failed, w, r))
    BY <1>9 DEF StepFails, ReadFails, Fail, partVars
  <2>2. /\ failed' \in [Workers -> SUBSET Rids] /\ failed[w] \subseteq failed'[w]
        /\ \A v \in Workers \ {w} : failed'[v] = failed[v]
    BY <2>1 DEF Add, Fitted
  <2>3. /\ \A v \in Workers \ {w} : work'[v] = work[v]
        /\ \A q \in Rids : q # r => work'[w][q] = work[w][q]
        /\ work'[w][r] = "none"
    BY <2>1 DEF Shaped
  <2>4. \A q \in Rids : Manned(w, q)'
    BY <2>1, <2>3 DEF Rows, Row, Manned
  <2>5. Own(w) /\ Rests(w)
    BY <2>1, <2>2, <2>3, <2>4 DEF Own, Rests, Still, Fitted
  <2> QED
    BY <2>1, <2>5 DEF Acts, Turned
<1> QED
  BY <1>2, <1>3, <1>4, <1>5, <1>6, <1>7, <1>8, <1>9

LEMMA ApplyActs ==
    ASSUME Shaped, Fitted, Rows, NEW w \in Workers, ApplyRemove(w) \/ ApplyDrain(w)
    PROVE  \E r : Acts(w, r)
<1>1. CASE ApplyRemove(w)
  <2>1. PICK r \in RemovesDue(w) : Removal(w, r) /\ Forward(w, "remove", r)
    BY <1>1 DEF ApplyRemove
  <2>2. pendRemove[w] \in Seq(Rids)
    BY DEF Shaped
  <2>3. PICK i \in DOMAIN pendRemove[w] : r = pendRemove[w][i] /\ ~InStep(w, r) /\ (Leads(w) \/ i = 1)
    BY <2>1 DEF RemovesDue
  <2>4. r \in Range(pendRemove[w]) /\ r \in Rids
    BY <2>2, <2>3, RangeIsImage DEF Range
  <2>5. ~Behind(w, r)
    BY <2>2, <2>3 DEF Behind
  <2>6. Own(w) /\ Frees(w, r)
    BY <2>1, <2>3, <2>4, <2>5, RemovalFrees
  <2> QED
    BY <1>1, <2>1, <2>4, <2>6 DEF ApplyRemove, Acts, Applied
<1>2. CASE ApplyDrain(w)
  <2>1. PICK r \in DrainsDue(w) : BeginDrain(w, r) /\ pendDrain' = Del(pendDrain, w, r) /\ Forward(w, "drain", r)
    BY <1>2 DEF ApplyDrain
  <2>2. r \in pendDrain[w] /\ r \in Rids
    BY <2>1 DEF DrainsDue, Shaped
  <2>3. UNCHANGED <<torn, held, work, spec, pendRemove, tpq, parked, freed, fromC>>
    BY <1>2 DEF ApplyDrain
  <2>4. Own(w) /\ DrainsNow(w, r)
    BY <2>1, <2>2, <2>3, BeginDrainDoes
  <2> QED
    BY <2>1, <2>2, <2>3, <2>4 DEF Acts, Applied
<1> QED
  BY <1>1, <1>2

LEMMA ReachedActs ==
    ASSUME Shaped, Fitted, Rows, NEW w \in Workers, FollowerRemoves(w)
    PROVE  \E r : Acts(w, r)
<1>1. PICK m : m = Head(tpq[w])
  OBVIOUS
<1>2. tpq[w] \in Seq(Notes) /\ tpq[w] # <<>>
  BY DEF Shaped, FollowerRemoves
<1>3. m \in Notes /\ m = Msg(m.kind, m.rid) /\ m.rid \in Rids /\ m.kind = "remove"
  BY <1>1, <1>2, RangeTail, NoteIsMsg DEF FollowerRemoves
<1>4. PICK r \in Rids : r = m.rid
  BY <1>3
<1>5. RemoveHeld(w, r) /\ Pops(w, Msg("remove", r)) /\ UNCHANGED <<fromC, fwd>>
  BY <1>1, <1>2, <1>3, <1>4 DEF FollowerRemoves, Pops
<1>6. Own(w) /\ (Defers(w, r) \/ Frees(w, r))
  BY <1>5, RemoveHeldDoes
<1> QED
  BY <1>5, <1>6 DEF Acts, Reached

LEMMA FollowedActs ==
    ASSUME Shaped, Fitted, Rows, NEW w \in Workers, FollowerReceive(w)
    PROVE  \E r : Acts(w, r)
<1>1. PICK m : m = Head(fwd[w])
  OBVIOUS
<1>2. fwd[w] \in Seq(Notes) /\ fwd[w] # <<>>
  BY DEF Shaped, FollowerReceive
<1>3. m \in Notes /\ m = Msg(m.kind, m.rid) /\ m.rid \in Rids
  BY <1>1, <1>2, RangeTail, NoteIsMsg
<1>4. PICK r \in Rids : r = m.rid
  BY <1>3
<1>5. Fetches(w, m) /\ fromC' = fromC
  BY <1>1, <1>2 DEF FollowerReceive, Fetches
<1>6. CASE /\ m.kind \in {"step", "spec"} /\ tpq' = [tpq EXCEPT ![w] = Append(@, m)]
           /\ UNCHANGED <<partVars, held, work, spec, failed, pendDrain, pendRemove, parked, freed, toC>>
  <2>1. Own(w) /\ Rests(w)
    BY <1>6, NothingDoes DEF Fitted, partVars
  <2>2. m \in Steps(r)
    BY <1>3, <1>4, <1>6 DEF Steps
  <2> QED
    BY <1>5, <1>6, <2>1, <2>2 DEF Acts, Followed, Queues
<1>7. CASE m.kind = "drain" /\ DrainRequest(w, r)
  <2>1. Own(w) /\ (PutsOff(w, r) \/ DrainsNow(w, r)) /\ UNCHANGED tpq
    BY <1>7, DrainRequestDoes DEF DrainRequest
  <2>2. Fetches(w, Msg("drain", r))
    BY <1>3, <1>4, <1>5, <1>7
  <2> QED
    BY <1>5, <2>1, <2>2 DEF Acts, Followed
<1>8. CASE m.kind = "remove" /\ FollowRemove(w, r)
  <2>1. Fetches(w, Msg("remove", r))
    BY <1>3, <1>4, <1>5, <1>8
  <2>2. CASE r \notin held[w] /\ r \in torn[w] /\ UNCHANGED <<partVars, workVars, toC>>
    <3>1. Own(w) /\ Rests(w)
      BY <2>2, NothingDoes DEF Fitted, partVars, workVars
    <3> QED
      BY <1>5, <2>1, <2>2, <3>1 DEF Acts, Followed, workVars
  <2>3. CASE /\ parked' = Add(parked, w, r)
             /\ UNCHANGED <<partVars, held, work, spec, failed, pendDrain, pendRemove, tpq, freed, toC>>
    <3>1. parked'[w] = parked[w] \cup {r} /\ \A v \in Workers \ {w} : parked'[v] = parked[v]
      BY <2>3 DEF Add, Shaped
    <3>2. Own(w) /\ Parks(w, r)
      BY <2>3, <3>1 DEF Own, Parks, Still, partVars, Fitted, Rows, Row, Manned
    <3> QED
      BY <1>5, <2>1, <2>3, <3>2 DEF Acts, Followed
  <2>4. CASE /\ r \in held[w] /\ tpq' = [tpq EXCEPT ![w] = Append(@, Msg("remove", r))]
             /\ UNCHANGED <<partVars, held, work, spec, failed, pendDrain, pendRemove, parked, freed, toC>>
    <3>1. Own(w) /\ Rests(w)
      BY <2>4, NothingDoes DEF Fitted, partVars
    <3> QED
      BY <1>5, <2>1, <2>4, <3>1 DEF Acts, Followed, Queues
  <2>5. CASE r \in held[w] /\ tpq[w] = <<>> /\ RemoveHeld(w, r) /\ UNCHANGED <<reads, tpq, toC>>
    <3>1. Own(w) /\ (Defers(w, r) \/ Frees(w, r))
      BY <2>5, RemoveHeldDoes
    <3> QED
      BY <1>5, <2>1, <2>5, <3>1 DEF Acts, Followed
  <2> QED
    BY <1>8, <2>2, <2>3, <2>4, <2>5 DEF FollowRemove
<1> QED
  BY <1>1, <1>4, <1>6, <1>7, <1>8 DEF FollowerReceive

LEMMA ReceivedActs ==
    ASSUME Shaped, Fitted, Rows, NEW w \in Workers, WorkerReceive(w)
    PROVE  \E r : Acts(w, r)
<1>1. PICK m : m = Head(fromC[w])
  OBVIOUS
<1>2. fromC[w] \in Seq(Notes) /\ fromC[w] # <<>>
  BY Cast DEF Shaped, WorkerReceive
<1>3. m \in Notes /\ m = Msg(m.kind, m.rid) /\ m.rid \in Rids /\ m.kind \in Kinds
  BY <1>1, <1>2, RangeTail, NoteIsMsg
<1>4. PICK r \in Rids : r = m.rid
  BY <1>3
<1>5. Takes(w, m.kind, r) /\ PassOn(w, r) /\ m.kind \in Kinds
  BY <1>1, <1>2, <1>3, <1>4 DEF WorkerReceive, Takes
<1>6. fwd' = fwd \/ (Forward(w, "drain", r) /\ r \in held[w] /\ r \in drain'[w] \ drain[w])
                 \/ (Forward(w, "remove", r) /\ r \in held[w] \ held'[w])
  BY <1>5 DEF PassOn
<1>b. r \in held[w] \ held'[w] => Forward(w, "remove", r)
  BY <1>5 DEF PassOn
<1>7. CASE m.kind = "new" /\ NewRequest(w, r)
  <2>1. /\ Own(w)
        /\ \/ UNCHANGED tpq /\ Rests(w)
           \/ /\ Greets(w, r) /\ UNCHANGED tpq /\ parked'[w] = parked[w]
              /\ r \in drain[w] /\ Followers(w) # {} => r \in failed'[w]
           \/ r \in parked[w] \ acked[w] /\ Slips(w, r) /\ UNCHANGED tpq
           \/ r \in parked[w] \ acked[w] /\ Greets(w, r) /\ parked'[w] = parked[w] \ {r} /\ Queues(w, Msg("remove", r))
    BY <1>7, NewDoes
  <2>2. fwd' = fwd
    <3>1. held[w] \subseteq held'[w] /\ drain'[w] \subseteq drain[w]
      BY <2>1 DEF Rests, Still, Greets, Slips, Marks
    <3> QED
      BY <1>6, <3>1
  <2> QED
    BY <1>5, <1>7, <2>1, <2>2 DEF Acts, Received
<1>8. CASE \/ m.kind = "inputs" /\ NewInputs(w, r)
           \/ m.kind = "drain" /\ ~Leads(w) /\ UNCHANGED <<partVars, workVars, toC>>
  <2>1. /\ UNCHANGED <<drain, acked, torn, held, spec, failed, pendDrain, pendRemove, parked, freed, tpq>>
        /\ work' = work \/ (r \in held[w] /\ work' = [work EXCEPT ![w][r] = "inputs"])
    BY <1>8 DEF NewInputs, TakeInputs, partVars, workVars
  <2>2. /\ \A v \in Workers \ {w} : work'[v] = work[v]
        /\ \A q \in Rids : work'[w][q] # "none" => work[w][q] # "none" \/ q \in held[w]
    BY <2>1 DEF Shaped
  <2>4. Own(w) /\ Rests(w)
    BY <2>1, <2>2, NothingDoes DEF Fitted
  <2>3. fwd' = fwd
    BY <1>6, <2>1
  <2> QED
    BY <1>5, <2>1, <2>3, <2>4 DEF Acts, Received
<1>9. CASE m.kind = "drain" /\ Leads(w) /\ DrainRequest(w, r)
  <2>1. Own(w) /\ (PutsOff(w, r) \/ DrainsNow(w, r)) /\ UNCHANGED tpq
    BY <1>9, DrainRequestDoes DEF DrainRequest
  <2>2. PutsOff(w, r) => fwd' = fwd
    BY <1>6 DEF PutsOff, Still
  <2>3. DrainsNow(w, r) => fwd' = fwd \/ (r \in held[w] /\ Forward(w, "drain", r))
    BY <1>6 DEF DrainsNow, Still
  <2> QED
    BY <1>5, <1>9, <2>1, <2>2, <2>3 DEF Acts, Received
<1>10. CASE m.kind = "remove" /\ RemoveMessage(w, r)
  <2>1. CASE r \notin held[w] /\ MarkRemoved(w, r) /\ UNCHANGED <<held, work, spec, failed, pendRemove, freed, reads, tpq, toC>>
    <3>1. Own(w) /\ Slips(w, r)
      BY <2>1, MarkRemovedDoes
    <3>2. fwd' = fwd
      BY <1>6, <3>1 DEF Slips, Marks
    <3> QED
      BY <1>5, <1>10, <2>1, <3>1, <3>2 DEF Acts, Received
  <2>2. CASE r \in held[w] /\ Leads(w) /\ RemoveHeld(w, r) /\ UNCHANGED <<reads, tpq, toC>>
    <3>1. Own(w) /\ (Defers(w, r) \/ Frees(w, r))
      BY <2>2, RemoveHeldDoes
    <3>2. Defers(w, r) => fwd' = fwd
      BY <1>6 DEF Defers
    <3>3. Frees(w, r) => Forward(w, "remove", r)
      BY <1>b, <2>2 DEF Frees
    <3> QED
      BY <1>5, <1>10, <2>2, <3>1, <3>2, <3>3 DEF Acts, Received
  <2>3. CASE /\ UNCHANGED <<torn, drain, acked, pendDrain, parked, held, work, spec, failed, pendRemove, freed>>
             /\ UNCHANGED <<reads, tpq, toC>>
    <3>1. Own(w) /\ Rests(w)
      BY <2>3, NothingDoes DEF Fitted
    <3>2. fwd' = fwd
      BY <1>6, <2>3
    <3> QED
      BY <1>5, <2>3, <3>1, <3>2 DEF Acts, Received
  <2> QED
    BY <1>10, <2>1, <2>2, <2>3 DEF RemoveMessage
<1> QED
  BY <1>1, <1>4, <1>7, <1>8, <1>9, <1>10 DEF WorkerReceive

LEMMA WorkerActs ==
    ASSUME Shaped, Fitted, Rows, NEW w \in Workers,
           WorkerNext(w) \/ \E r \in Rids : StepFails(w, r) \/ ReadFails(w, r)
    PROVE  \E r : Acts(w, r)
  BY TurnActs, ApplyActs, ReachedActs, FollowedActs, ReceivedActs DEF WorkerNext

-----------------------------------------------------------------------------
(* A worker's step, and what is said of each request at each worker *)

LEMMA TakesOne ==
    ASSUME Shaped, NEW w \in Workers, NEW r, fromC' = fromC \/ \E k \in Kinds : Takes(w, k, r),
           NEW v \in Workers, NEW q, Polite(fromC[v], q)
    PROVE  /\ Polite(fromC'[v], q) /\ (New(v, q)' => New(v, q)) /\ (Leaving(v, q)' => Leaving(v, q))
           /\ Leaving(v, q) /\ New(v, q)' => Leaving(v, q)'
           /\ v = w /\ q = r /\ (Takes(w, "new", r) \/ Takes(w, "remove", r)) => ~New(v, q)'
<1>1. CASE fromC'[v] = fromC[v] /\ ~(v = w /\ \E k \in Kinds : Takes(w, k, r))
  BY <1>1 DEF New, Leaving, Kinds
<1>2. ASSUME v = w, NEW k \in Kinds, Takes(w, k, r)
      PROVE  /\ Polite(fromC'[v], q) /\ (New(v, q)' => New(v, q)) /\ (Leaving(v, q)' => Leaving(v, q))
             /\ Leaving(v, q) /\ New(v, q)' => Leaving(v, q)'
             /\ v = w /\ q = r /\ (Takes(w, "new", r) \/ Takes(w, "remove", r)) => ~New(v, q)'
  <2>1. PICK s \in Seq(Notes) : s = fromC[v]
    BY Cast DEF Shaped
  <2>2. s # <<>> /\ Head(s) = Msg(k, r) /\ fromC'[v] = Tail(s)
    BY <1>2, <2>1, Cast DEF Takes, Shaped
  <2>3. /\ Tail(s) \in Seq(Notes) /\ \A x : x \in Range(s) <=> x = Head(s) \/ x \in Range(Tail(s))
        /\ \A x, y : Precedes(Tail(s), x, y) => Precedes(s, x, y)
        /\ \A y \in Range(Tail(s)) : Precedes(s, Head(s), y)
    BY <2>2, RangeTail, PrecedesTail
  <2>4. Polite(s, q)
    BY <2>1
  <2>5. Polite(Tail(s), q)
    BY <2>3, <2>4 DEF Polite
  <2>6. Head(s) \in {Msg("new", q), Msg("remove", q)} => Msg("new", q) \notin Range(Tail(s))
    BY <2>3, <2>4 DEF Polite
  <2>7. v = w /\ q = r /\ (Takes(w, "new", r) \/ Takes(w, "remove", r)) => Head(s) \in {Msg("new", q), Msg("remove", q)}
    BY <2>1 DEF Takes
  <2> QED
    BY <2>1, <2>2, <2>3, <2>5, <2>6, <2>7 DEF New, Leaving
<1>3. CASE v # w
  <2>1. fromC'[v] = fromC[v]
    BY <1>3, Cast DEF Takes, Shaped
  <2> QED
    BY <1>1, <1>3, <2>1
<1> QED
  BY <1>1, <1>2, <1>3

LEMMA PoppedFrom ==
    ASSUME Shaped, NEW w \in Workers, NEW m, Pops(w, m)
    PROVE  /\ tpq[w] \in Seq(Notes) /\ tpq'[w] = Tail(tpq[w]) /\ m = Head(tpq[w]) /\ m \in Range(tpq[w])
           /\ \A n : n \in Range(tpq[w]) <=> n = m \/ n \in Range(tpq'[w])
           /\ \A x, y : Precedes(tpq'[w], x, y) => Precedes(tpq[w], x, y)
           /\ \A y \in Range(tpq'[w]) : Precedes(tpq[w], m, y)
           /\ \A v \in Workers \ {w} : tpq'[v] = tpq[v]
<1>1. PICK s \in Seq(Notes) : s = tpq[w]
  BY DEF Shaped
<1>2. s # <<>> /\ Head(s) = m /\ tpq'[w] = Tail(s) /\ \A v \in Workers \ {w} : tpq'[v] = tpq[v]
  BY <1>1 DEF Pops, Shaped
<1> QED
  BY <1>1, <1>2, RangeTail, PrecedesTail

LEMMA FetchedFrom ==
    ASSUME Shaped, NEW w \in Workers, NEW m, Fetches(w, m)
    PROVE  /\ fwd[w] \in Seq(Notes) /\ fwd'[w] = Tail(fwd[w]) /\ m = Head(fwd[w]) /\ m \in Range(fwd[w])
           /\ \A n : n \in Range(fwd[w]) <=> n = m \/ n \in Range(fwd'[w])
           /\ \A x, y : Precedes(fwd'[w], x, y) => Precedes(fwd[w], x, y)
           /\ \A y \in Range(fwd'[w]) : Precedes(fwd[w], m, y)
           /\ \A v \in Workers \ {w} : fwd'[v] = fwd[v]
<1>1. PICK s \in Seq(Notes) : s = fwd[w]
  BY DEF Shaped
<1>2. s # <<>> /\ Head(s) = m /\ fwd'[w] = Tail(s) /\ \A v \in Workers \ {w} : fwd'[v] = fwd[v]
  BY <1>1 DEF Fetches, Shaped
<1> QED
  BY <1>1, <1>2, RangeTail, PrecedesTail

LEMMA QueuedOn ==
    ASSUME Shaped, NEW w \in Workers, NEW m \in Notes, Queues(w, m)
    PROVE  /\ tpq[w] \in Seq(Notes) /\ Range(tpq'[w]) = Range(tpq[w]) \cup {m}
           /\ \A x, y : Precedes(tpq'[w], x, y) => Precedes(tpq[w], x, y) \/ (x \in Range(tpq[w]) /\ y = m)
           /\ \A v \in Workers \ {w} : tpq'[v] = tpq[v]
<1>1. PICK s \in Seq(Notes) : s = tpq[w]
  BY DEF Shaped
<1>2. tpq'[w] = Append(s, m) /\ \A v \in Workers \ {w} : tpq'[v] = tpq[v]
  BY <1>1 DEF Queues, Shaped
<1> QED
  BY <1>1, <1>2, RangeAppend, PrecedesAppend

\* What the step does, by what it changes.
LEMMA ActsShape ==
    ASSUME Shaped, Fitted, Rows, NEW w \in Workers, NEW r, Acts(w, r)
    PROVE  /\ \/ Still(w)
              \/ Greets(w, r) /\ Takes(w, "new", r)
              \/ Slips(w, r) /\ (Takes(w, "new", r) \/ Takes(w, "remove", r))
              \/ Met(w, r) /\ (Defers(w, r) \/ Frees(w, r))
           /\ \/ tpq' = tpq \/ \E m : Pops(w, m)
              \/ \E m \in Steps(r) : Fetches(w, m) /\ Queues(w, m)
              \/ /\ Queues(w, Msg("remove", r)) /\ r \in held'[w]
                 /\ r \in parked[w] \/ \E m : Fetches(w, m)
           /\ \/ fwd' = fwd \/ \E m : Fetches(w, m)
              \/ \E k \in {"step", "spec", "drain", "remove"} : Forward(w, k, r)
           /\ fromC' = fromC \/ \E k \in Kinds : Takes(w, k, r)
           /\ parked'[w] \subseteq parked[w] \/ \E m : Fetches(w, m)
<1>1. r \in Rids /\ Own(w)
  BY DEF Acts
<1>2. CASE Turned(w, r)
  <2>1. CASE Rests(w) /\ fwd' = fwd
    BY <1>2, <2>1 DEF Turned, Rests
  <2>2. CASE Rests(w) /\ tpq' = tpq /\ \E k \in {"step", "spec"} : Forward(w, k, r)
    BY <1>2, <2>2 DEF Turned, Rests
  <2>3. CASE AcksLate(w, r) /\ UNCHANGED <<tpq, fwd>>
    BY <1>2, <2>3 DEF Turned, AcksLate
  <2> QED
    BY <1>2, <2>1, <2>2, <2>3 DEF Turned
<1>3. CASE Applied(w, r)
  <2>1. CASE DrainsNow(w, r)
    BY <1>3, <2>1 DEF Applied, DrainsNow
  <2>2. CASE Frees(w, r) /\ r \in Range(pendRemove[w])
    <3>1. Met(w, r)
      BY <1>1, <2>2 DEF Rows, Row
    <3> QED
      BY <1>3, <2>2, <3>1 DEF Applied, Frees, Marks
  <2> QED
    BY <1>3, <2>1, <2>2 DEF Applied
<1>4. CASE Received(w, r)
  <2>1. CASE Rests(w) /\ UNCHANGED <<tpq, fwd>> /\ \E k \in Kinds : Takes(w, k, r)
    BY <2>1 DEF Rests
  <2>2. CASE Takes(w, "new", r) /\ fwd' = fwd /\ Greets(w, r) /\ UNCHANGED tpq /\ parked'[w] = parked[w]
    BY <2>2 DEF Kinds
  <2>3. CASE Takes(w, "new", r) /\ fwd' = fwd /\ r \in parked[w] /\ Slips(w, r) /\ UNCHANGED tpq
    BY <2>3 DEF Kinds, Slips, Marks
  <2>4. CASE Takes(w, "new", r) /\ fwd' = fwd /\ r \in parked[w] /\ Greets(w, r) /\ parked'[w] = parked[w] \ {r} /\ Queues(w, Msg("remove", r))
    BY <2>4 DEF Kinds, Greets
  <2>5. CASE Takes(w, "drain", r) /\ UNCHANGED tpq /\ PutsOff(w, r) /\ fwd' = fwd
    BY <2>5 DEF Kinds, PutsOff
  <2>6. CASE Takes(w, "drain", r) /\ UNCHANGED tpq /\ DrainsNow(w, r) /\ (fwd' = fwd \/ Forward(w, "drain", r))
    BY <2>6 DEF Kinds, DrainsNow
  <2>7. CASE Takes(w, "remove", r) /\ UNCHANGED tpq /\ Slips(w, r) /\ fwd' = fwd
    BY <2>7 DEF Kinds, Slips, Marks
  <2>8. CASE Takes(w, "remove", r) /\ UNCHANGED tpq /\ r \in held[w] /\ Defers(w, r) /\ fwd' = fwd
    BY <2>8 DEF Kinds, Defers, Met
  <2>9. CASE Takes(w, "remove", r) /\ UNCHANGED tpq /\ r \in held[w] /\ Frees(w, r) /\ Forward(w, "remove", r)
    BY <2>9 DEF Kinds, Frees, Marks, Met
  <2> QED
    <3>1. CASE UNCHANGED <<tpq, fwd>> /\ Rests(w) /\ \E k \in Kinds : Takes(w, k, r)
      BY <2>1, <3>1
    <3>2. CASE /\ Takes(w, "new", r) /\ fwd' = fwd
               /\ \/ /\ Greets(w, r) /\ UNCHANGED tpq /\ parked'[w] = parked[w]
                     /\ r \in drain[w] /\ Followers(w) # {} => r \in failed'[w]
                  \/ r \in parked[w] \ acked[w] /\ Slips(w, r) /\ UNCHANGED tpq
                  \/ r \in parked[w] \ acked[w] /\ Greets(w, r) /\ parked'[w] = parked[w] \ {r} /\ Queues(w, Msg("remove", r))
      BY <2>2, <2>3, <2>4, <3>2
    <3>3. CASE /\ Takes(w, "drain", r) /\ Leads(w) /\ UNCHANGED tpq
               /\ \/ PutsOff(w, r) /\ fwd' = fwd
                  \/ DrainsNow(w, r) /\ (fwd' = fwd \/ (r \in held[w] /\ Forward(w, "drain", r)))
      BY <2>5, <2>6, <3>3
    <3>4. CASE /\ Takes(w, "remove", r) /\ UNCHANGED tpq
               /\ \/ r \notin held[w] /\ Slips(w, r) /\ fwd' = fwd
                  \/ r \in held[w] /\ Leads(w) /\ Defers(w, r) /\ fwd' = fwd
                  \/ r \in held[w] /\ Leads(w) /\ Frees(w, r) /\ Forward(w, "remove", r)
      BY <2>7, <2>8, <2>9, <3>4
    <3> QED
      BY <1>4, <3>1, <3>2, <3>3, <3>4 DEF Received
<1>5. CASE Followed(w, r)
  <2>1. CASE Rests(w) /\ \E m \in Steps(r) : Fetches(w, m) /\ Queues(w, m)
    BY <1>5, <2>1 DEF Followed, Rests
  <2>2. CASE (\E m : Fetches(w, m)) /\ UNCHANGED tpq /\ (PutsOff(w, r) \/ DrainsNow(w, r) \/ Rests(w) \/ Parks(w, r))
    BY <1>5, <2>2 DEF Followed, Rests, PutsOff, DrainsNow, Parks
  <2>3. CASE Fetches(w, Msg("remove", r)) /\ Rests(w) /\ r \in held[w] /\ Queues(w, Msg("remove", r))
    BY <1>5, <2>3 DEF Followed, Rests, Still
  <2>4. CASE Fetches(w, Msg("remove", r)) /\ UNCHANGED tpq /\ r \in held[w] /\ (Defers(w, r) \/ Frees(w, r))
    BY <1>5, <2>4 DEF Followed, Met
  <2> QED
    BY <1>5, <2>1, <2>2, <2>3, <2>4 DEF Followed
<1>6. CASE Reached(w, r)
  <2>1. Pops(w, Msg("remove", r)) /\ UNCHANGED <<fromC, fwd>> /\ (Defers(w, r) \/ Frees(w, r))
    BY <1>6 DEF Reached
  <2>2. Met(w, r)
    BY <1>1, <2>1, PoppedFrom DEF Rows, Row
  <2> QED
    BY <2>1, <2>2 DEF Defers, Frees, Marks
<1> QED
  BY <1>2, <1>3, <1>4, <1>5, <1>6 DEF Acts

\* Everybody else's part of it.
LEMMA ActsElsewhere ==
    ASSUME Shaped, Fitted, Rows, NEW w \in Workers, NEW r, Acts(w, r), NEW v \in Workers, v # w
    PROVE  tpq'[v] = tpq[v] /\ (v \notin Followers(w) => fwd'[v] = fwd[v])
<1>1. tpq'[v] = tpq[v]
  BY ActsShape DEF Shaped, Pops, Queues
<1>2. ASSUME v \notin Followers(w) PROVE fwd'[v] = fwd[v]
  <2>1. ASSUME NEW m, Fetches(w, m) PROVE fwd'[v] = fwd[v]
    BY <2>1 DEF Shaped, Fetches
  <2>2. ASSUME NEW k, Forward(w, k, r) PROVE fwd'[v] = fwd[v]
    BY <1>2, <2>2 DEF Forward
  <2> QED
    BY <2>1, <2>2, ActsShape
<1> QED
  BY <1>1, <1>2

LEMMA ActsHere ==
    ASSUME Shaped, Fitted, Rows, NEW w \in Workers, NEW r, Acts(w, r), \A q \in Rids : AtWorker(w, q)
    PROVE  /\ \A q \in Rids : /\ Met(w, q) => Met(w, q)'
                              /\ Met(w, q)' => Met(w, q) \/ (q = r /\ (Takes(w, "new", r) \/ Takes(w, "remove", r)))
                              /\ Stands(w, q)' \/ Deferred(w, q)' => Met(w, q)'
           /\ NoDup(pendRemove'[w]) /\ (Leads(w) => Alone(w)')
<1>1. r \in Rids
  BY DEF Acts
<1>2. \A q \in Rids : Met(w, q) => Met(w, q)'
  BY DEF Met, AtWorker
<1>3. pendRemove[w] \in Seq(Rids) /\ NoDup(pendRemove[w])
  BY DEF Shaped, Rows
<1>4. /\ \A q : q \in Range(pendRemove'[w]) => q \in Range(pendRemove[w]) \/ (q = r /\ Met(w, r))
      /\ NoDup(pendRemove'[w])
  <2>1. CASE pendRemove'[w] = pendRemove[w]
    BY <1>3, <2>1
  <2>2. CASE Met(w, r) /\ Defers(w, r)
    BY <1>1, <1>3, <2>2, WithNoDup DEF Defers
  <2>3. CASE Frees(w, r)
    BY <1>3, <2>3, WithoutRange DEF Frees
  <2> QED
    BY <2>1, <2>2, <2>3, ActsShape DEF Still, Greets, Slips
<1>5. \A q : Msg("remove", q) \in Range(tpq'[w]) => Msg("remove", q) \in Range(tpq[w]) \/ (q = r /\ r \in held'[w])
  <2>1. CASE \E m : Pops(w, m)
    BY <2>1, PoppedFrom
  <2>2. CASE \E m \in Steps(r) : Queues(w, m)
    <3>1. PICK m \in Steps(r) : Queues(w, m)
      BY <2>2
    <3>2. m \in Notes /\ \A q : m # Msg("remove", q)
      BY <1>1, <3>1, AnyNote, MsgsDiffer DEF Steps, Kinds
    <3> QED
      BY <3>1, <3>2, QueuedOn
  <2>3. CASE Queues(w, Msg("remove", r)) /\ r \in held'[w]
    <3>1. Msg("remove", r) \in Notes /\ \A q : Msg("remove", q) = Msg("remove", r) => q = r
      BY <1>1, MsgIsNote, MsgsDiffer DEF Kinds
    <3> QED
      BY <2>3, <3>1, QueuedOn
  <2> QED
    BY <2>1, <2>2, <2>3, ActsShape
<1>6. \A q \in Rids : Stands(w, q)' \/ Deferred(w, q)' => Met(w, q)'
  BY <1>2, <1>4, <1>5 DEF Rows, Row, Stands, Deferred, Met
<1>7. ASSUME NEW q \in Rids, Met(w, q)'
      PROVE  Met(w, q) \/ (q = r /\ (Takes(w, "new", r) \/ Takes(w, "remove", r)))
  BY <1>7, ActsShape DEF Still, Greets, Slips, Defers, Frees, Marks, Met
<1>8. Leads(w) => Alone(w)'
  <2> SUFFICES ASSUME Leads(w) PROVE Alone(w)'
    OBVIOUS
  <2>1. Alone(w) /\ w \notin Followers(w)
    BY DEF Rows, Followers
  <2>2. (\A m : ~Fetches(w, m)) /\ (\A m : ~Pops(w, m)) /\ r \notin parked[w]
    BY <2>1 DEF Alone, Fetches, Pops
  <2>3. tpq'[w] = tpq[w] /\ fwd'[w] = fwd[w] /\ parked'[w] \subseteq parked[w]
    BY <2>1, <2>2, ActsShape DEF Forward
  <2> QED
    BY <2>1, <2>3 DEF Alone
<1> QED
  BY <1>2, <1>4, <1>6, <1>7, <1>8

LEMMA ActsRow ==
    ASSUME Shaped, Fitted, Rows, NEW w \in Workers, NEW r, Acts(w, r), UNCHANGED condUsed, \A q \in Rids : Local(q),
           NEW v \in Workers, NEW q \in Rids
    PROVE  Row(v, q)'
<1>1. Row(v, q) /\ r \in Rids
  BY DEF Rows, Acts
<1>2. AtWorker(v, q) /\ (Ending(q)' => Ending(q)) /\ \A p \in Rids : AtWorker(w, p)
  BY DEF Local
<1>3. /\ Met(v, q) => Met(v, q)'
      /\ Met(v, q)' => Met(v, q) \/ (v = w /\ q = r /\ (Takes(w, "new", r) \/ Takes(w, "remove", r)))
      /\ Stands(v, q)' \/ Deferred(v, q)' => Met(v, q)'
      /\ Manned(v, q)'
  <2>1. CASE v = w
    BY <1>2, <2>1, ActsHere DEF Acts, Own
  <2>2. CASE v # w
    <3>1. /\ held'[v] = held[v] /\ torn'[v] = torn[v] /\ pendRemove'[v] = pendRemove[v] /\ tpq'[v] = tpq[v]
          /\ work'[v] = work[v] /\ spec'[v] = spec[v]
      BY <2>2, ActsElsewhere DEF Acts, Own
    <3> QED
      BY <1>1, <3>1 DEF Row, Met, Stands, Deferred, Manned
  <2> QED
    BY <2>1, <2>2
<1>4. fromC' = fromC \/ \E k \in Kinds : Takes(w, k, r)
  BY ActsShape
<1>5. Polite(fromC[v], q)
  BY <1>1 DEF Row
<1>6. /\ Polite(fromC'[v], q) /\ (New(v, q)' => New(v, q)) /\ (Leaving(v, q)' => Leaving(v, q))
      /\ Leaving(v, q) /\ New(v, q)' => Leaving(v, q)'
      /\ v = w /\ q = r /\ (Takes(w, "new", r) \/ Takes(w, "remove", r)) => ~New(v, q)'
  BY <1>4, <1>5, TakesOne
<1>7. Met(v, q)' => ~New(v, q)'
  BY <1>1, <1>3, <1>6 DEF Row
<1>8. DoneBy(v, q)' => DoneBy(v, q) \/ work[v][q] # "none"
  BY <1>2 DEF AtWorker
<1>9. DoneBy(v, q)' \/ (Running(q)' /\ v \in reported'[q]) => Met(v, q)'
  BY <1>1, <1>3, <1>8 DEF Row, Manned, Met, condUsed, Running
<1>10. Known(v, q) => Known(v, q)'
  BY <1>2 DEF Known, Met, AtWorker
<1>11. Polite(fromC[v], q)'
  BY <1>6 DEF Polite, Precedes
<1> QED
  BY <1>1, <1>2, <1>3, <1>6, <1>7, <1>9, <1>10, <1>11 DEF Row, Stands, Deferred, condUsed

LEMMA ActsRows ==
    ASSUME Shaped, Fitted, Rows, NEW w \in Workers, NEW r, Acts(w, r), UNCHANGED condUsed, \A q \in Rids : Local(q)
    PROVE  Rows'
<1> SUFFICES ASSUME NEW v \in Workers
             PROVE  NoDup(pendRemove'[v]) /\ (Leads(v) => Alone(v)') /\ \A q \in Rids : Row(v, q)'
  BY DEF Rows, Leads, NoDup
<1>1. NoDup(pendRemove'[v]) /\ (Leads(v) => Alone(v)')
  <2>1. CASE v = w
    BY <2>1, ActsHere DEF Local
  <2>2. CASE v # w
    <3>1. pendRemove'[v] = pendRemove[v] /\ parked'[v] = parked[v] /\ tpq'[v] = tpq[v]
      BY <2>2, ActsElsewhere DEF Acts, Own
    <3>2. Leads(v) => fwd'[v] = fwd[v]
      BY <2>2, ActsElsewhere DEF Leads, Followers
    <3> QED
      BY <3>1, <3>2 DEF Rows, Alone
  <2> QED
    BY <2>1, <2>2
<1>2. \A q \in Rids : Row(v, q)'
  BY ActsRow
<1> QED
  BY <1>1, <1>2

-----------------------------------------------------------------------------
(* Rank 0's step, and what its followers are sent *)

LEMMA MetIsOut ==
    ASSUME Barrier, NEW w \in Workers, NEW r \in Rids, Met(w, r) \/ Leaving(w, r)
    PROVE  r \notin Before
<1>1. RemovedLate(r) /\ Clean(r)
  BY DEF Barrier, Kept
<1>2. r \in torn[w] \/ Leaving(w, r) => Ending(r)
  BY Cast DEF Ending, Leaving
<1> QED
  BY <1>1, <1>2 DEF Met, RemovedLate, Alive, Clean

LEMMA TakesHad ==
    ASSUME Shaped, NEW w \in Workers, NEW k, NEW r, Takes(w, k, r)
    PROVE  Msg(k, r) \in Range(fromC[w])
<1>1. fromC[w] \in Seq(Notes) /\ fromC[w] # <<>> /\ Head(fromC[w]) = Msg(k, r)
  BY Cast DEF Shaped, Takes
<1> QED
  BY <1>1, RangeTail

LEMMA DrainsShut == ASSUME NEW w \in Workers, NEW r, DrainsNow(w, r) PROVE Shut(w, r)'
  BY DEF DrainsNow, Still, Shut

LEMMA FreesShut ==
    ASSUME Barrier, NEW w \in Workers, NEW r \in Rids, Frees(w, r), Met(w, r), Row(w, r),
           New(w, r)' => New(w, r), r \in Before' => r \in Before
    PROVE  Shut(w, r)'
<1>1. r \notin held'[w]
  BY DEF Frees
<1>2. ~New(w, r)' /\ r \notin Before'
  BY MetIsOut DEF Row
<1> QED
  BY <1>1, <1>2 DEF Shut

LEMMA ActsShut ==
    ASSUME Barrier, Fitted, Rows, NEW w \in Workers, NEW r, Acts(w, r), \A q \in Rids : Local(q),
           Leads(w), Followers(w) # {}, NEW q \in Rids, Shut(w, q)
    PROVE  Shut(w, q)'
<1>1. Shaped /\ r \in Rids /\ Alone(w) /\ Row(w, q) /\ Row(w, r) /\ (\A p \in Rids : p \in Before' => p \in Before)
  BY DEF Barrier, Rows, Acts, Local
<1>2. /\ New(w, q)' => New(w, q)
      /\ q = r /\ (Takes(w, "new", r) \/ Takes(w, "remove", r)) => ~New(w, q)'
  <2>1. fromC' = fromC \/ \E k \in Kinds : Takes(w, k, r)
    BY <1>1, ActsShape
  <2> QED
    BY <1>1, <2>1, TakesOne DEF Row
<1>3. pendRemove[w] \in Seq(Rids) /\ NoDup(pendRemove[w])
  BY <1>1 DEF Shaped, Rows
<1>4. CASE Rests(w) \/ AcksLate(w, r) \/ PutsOff(w, r) \/ Parks(w, r)
  BY <1>1, <1>2, <1>4 DEF Rests, AcksLate, PutsOff, Parks, Still, Shut
<1>5. CASE DrainsNow(w, r)
  <2>1. CASE q = r
    BY <1>5, <2>1, DrainsShut
  <2>2. CASE q # r
    BY <1>1, <1>2, <1>5, <2>2 DEF DrainsNow, Still, Shut
  <2> QED
    BY <2>1, <2>2
<1>6. CASE Defers(w, r)
  <2>1. Range(pendRemove[w]) \subseteq Range(pendRemove'[w])
    BY <1>1, <1>3, <1>6, WithNoDup DEF Defers
  <2> QED
    BY <1>1, <1>2, <1>6, <2>1 DEF Defers, Shut
<1>7. CASE Frees(w, r)
  <2>1. CASE q = r /\ Met(w, r)
    BY <1>1, <1>2, <1>7, <2>1, FreesShut
  <2>2. CASE q = r /\ ~Met(w, r)
    <3>1. r \notin held[w] /\ r \notin held'[w]
      BY <1>7, <2>2 DEF Met, Frees
    <3>2. Still(w) \/ Greets(w, r) \/ Slips(w, r)
      BY <1>1, <2>2, ActsShape
    <3>3. ~Still(w) /\ ~Greets(w, r) /\ ~Slips(w, r)
      <4>1. freed[w] \in Seq(Rids) /\ freed'[w] = Append(freed[w], r)
        BY <1>7 DEF Frees, Fitted
      <4>2. freed'[w] # freed[w]
        BY <1>1, <4>1
      <4> QED
        BY <4>2 DEF Still, Greets, Slips
    <3> QED
      BY <3>2, <3>3
  <2>3. CASE q # r
    <3>1. q \in Range(pendRemove[w]) => q \in Range(pendRemove'[w])
      BY <1>3, <1>7, <2>3, WithoutRange DEF Frees
    <3> QED
      BY <1>1, <1>2, <1>7, <2>3, <3>1 DEF Frees, Marks, Shut
  <2> QED
    BY <2>1, <2>2, <2>3
<1>8. CASE Slips(w, r) /\ Takes(w, "remove", r) /\ r \notin held[w]
  <2>1. q = r => ~New(w, r)' /\ r \notin Before'
    BY <1>1, <1>2, <1>8, MetIsOut, TakesHad DEF Leaving
  <2> QED
    BY <1>1, <1>2, <1>8, <2>1 DEF Slips, Marks, Shut
<1>9. CASE Greets(w, r) /\ Takes(w, "new", r) /\ (r \in drain[w] => r \in failed'[w])
  <2>1. New(w, r) /\ r \notin held[w]
    BY <1>1, <1>9, TakesHad DEF New, Row, Met
  <2>2. CASE q = r
    BY <1>9, <2>1, <2>2 DEF Greets, Shut
  <2>3. CASE q # r
    BY <1>1, <1>2, <1>9, <2>3 DEF Greets, Shut
  <2> QED
    BY <2>2, <2>3
<1>10. CASE Turned(w, r)
  BY <1>4, <1>10 DEF Turned
<1>11. CASE Applied(w, r)
  BY <1>5, <1>7, <1>11 DEF Applied
<1>12. CASE Received(w, r)
  <2>1. r \notin parked[w]
    BY <1>1 DEF Alone
  <2> QED
    BY <1>4, <1>5, <1>6, <1>7, <1>8, <1>9, <1>12, <2>1 DEF Received
<1>13. CASE Followed(w, r) \/ Reached(w, r)
  <2>1. (\A m : ~Fetches(w, m)) /\ (\A m : ~Pops(w, m))
    BY <1>1 DEF Alone, Fetches, Pops
  <2> QED
    BY <1>13, <2>1 DEF Followed, Reached
<1> QED
  BY <1>10, <1>11, <1>12, <1>13 DEF Acts

\* What rank 0 sends: no step of a request that it has shut, and a drain or a removal of one that it has.
Sent(w, r) ==
    \/ (\A f \in Followers(w) : fwd'[f] = fwd[f]) /\ freed'[w] = freed[w]
    \/ \E k \in {"step", "spec"} : Forward(w, k, r) /\ ~Shut(w, r) /\ freed'[w] = freed[w]
    \/ Forward(w, "drain", r) /\ Shut(w, r)' /\ freed'[w] = freed[w]
    \/ Forward(w, "remove", r) /\ Shut(w, r)' /\ freed'[w] = Append(freed[w], r)

LEMMA ActsSent ==
    ASSUME Barrier, Fitted, Rows, NEW w \in Workers, NEW r, Acts(w, r), \A q \in Rids : Local(q), Leads(w)
    PROVE  Sent(w, r)
<1>1. Shaped /\ r \in Rids /\ Alone(w) /\ Row(w, r) /\ (r \in Before' => r \in Before)
  BY DEF Barrier, Rows, Acts, Local
<1>2. New(w, r)' => New(w, r)
  <2>1. fromC' = fromC \/ \E k \in Kinds : Takes(w, k, r)
    BY <1>1, ActsShape
  <2> QED
    BY <1>1, <2>1, TakesOne DEF Row
<1>3. Followers(w) \subseteq Workers /\ (fwd' = fwd => \A f \in Followers(w) : fwd'[f] = fwd[f])
  BY DEF Followers
<1>4. CASE Turned(w, r)
  <2>1. freed'[w] = freed[w]
    BY <1>4 DEF Turned, Rests, AcksLate, Still
  <2> QED
    BY <1>3, <1>4, <2>1 DEF Turned, Sent
<1>5. CASE Applied(w, r)
  <2>1. CASE DrainsNow(w, r) /\ Forward(w, "drain", r)
    BY <2>1, DrainsShut DEF DrainsNow, Still, Sent
  <2>2. CASE Frees(w, r) /\ r \in Range(pendRemove[w]) /\ Forward(w, "remove", r)
    <3>1. Met(w, r)
      BY <1>1, <2>2 DEF Row
    <3> QED
      BY <1>1, <1>2, <2>2, <3>1, FreesShut DEF Frees, Sent
  <2> QED
    BY <1>5, <2>1, <2>2 DEF Applied
<1>6. CASE Received(w, r)
  <2>1. CASE fwd' = fwd /\ (Rests(w) \/ Greets(w, r) \/ Slips(w, r) \/ PutsOff(w, r) \/ DrainsNow(w, r) \/ Defers(w, r))
    BY <1>3, <2>1 DEF Rests, Greets, Slips, PutsOff, DrainsNow, Still, Defers, Sent
  <2>2. CASE DrainsNow(w, r) /\ Forward(w, "drain", r)
    BY <2>2, DrainsShut DEF DrainsNow, Still, Sent
  <2>3. CASE Frees(w, r) /\ r \in held[w] /\ Forward(w, "remove", r)
    <3>1. Met(w, r)
      BY <2>3 DEF Met
    <3> QED
      BY <1>1, <1>2, <2>3, <3>1, FreesShut DEF Frees, Sent
  <2> QED
    BY <1>6, <2>1, <2>2, <2>3 DEF Received
<1>7. CASE Followed(w, r) \/ Reached(w, r)
  <2>1. (\A m : ~Fetches(w, m)) /\ (\A m : ~Pops(w, m))
    BY <1>1 DEF Alone, Fetches, Pops
  <2> QED
    BY <1>7, <2>1 DEF Followed, Reached
<1> QED
  BY <1>4, <1>5, <1>6, <1>7 DEF Acts

LEMMA ShutSame ==
    ASSUME NEW w \in Workers, NEW q, held'[w] = held[w], failed'[w] = failed[w], drain'[w] = drain[w],
           pendDrain'[w] = pendDrain[w], pendRemove'[w] = pendRemove[w], New(w, q)' => New(w, q) \/ q \in Before,
           q \in Before' => q \in Before, Shut(w, q)
    PROVE  Shut(w, q)'
  BY DEF Shut

\* Nothing is closer to rank 0 than f: what f has and is sent has not changed.
AsWas(f) ==
    /\ freed'[f] = freed[f] /\ pendRemove'[f] = pendRemove[f] /\ tpq'[f] = tpq[f]
    /\ drain'[f] = drain[f] /\ pendDrain'[f] = pendDrain[f] /\ parked'[f] = parked[f]
    /\ torn'[f] = torn[f] /\ acked'[f] = acked[f]

LEMMA LineSame ==
    ASSUME NEW f \in Workers, Line(f), AsWas(f), fwd'[f] = fwd[f], freed'[Leader[f]] = freed[Leader[f]],
           forced \subseteq forced', \A q \in Rids : Shut(Leader[f], q) => Shut(Leader[f], q)'
    PROVE  Line(f)'
<1>1. ASSUME NEW q \in Rids PROVE Following(f, q)'
  <2>1. Over(f, q)' => Over(f, q)
    BY DEF Over, AsWas
  <2>2. Drained(f, q)' <=> Drained(f, q)
    BY DEF Drained, AsWas
  <2>3. Warned(f, q)' => Warned(f, q)
    BY <2>1, <2>2 DEF Warned
  <2>4. Overtaken(f, q)' => Overtaken(f, q)
    BY <2>1, <2>2 DEF Overtaken, AsWas, Precedes
  <2> QED
    BY <2>3, <2>4 DEF Line, Following
<1>2. Ordered(f)'
  <2>1. \A q : InLine(f, q)' <=> InLine(f, q)
    BY DEF InLine, Freed, Deferred, Stands, Comes, AsWas
  <2>2. \A q, r : Ahead(f, q, r)' <=> Ahead(f, q, r)
    BY DEF Ahead, Freed, Deferred, Stands, Comes, AsWas, Precedes
  <2>3. \A q, r : Precedes(freed[Leader[f]], q, r) => Precedes(freed[Leader[f]], q, r)'
    BY DEF Precedes
  <2> QED
    BY <2>1, <2>2, <2>3 DEF Line, Ordered
<1> QED
  BY <1>1, <1>2 DEF Line

\* Rank 0 sends f something of r.
LEMMA SentFollowing ==
    ASSUME Shaped, NEW f \in Workers, NEW r \in Rids, NEW k \in {"step", "spec", "drain", "remove"},
           AsWas(f), fwd'[f] = Append(fwd[f], Msg(k, r)), forced' = forced,
           k \in {"step", "spec"} => ~Shut(Leader[f], r), k \in {"drain", "remove"} => Shut(Leader[f], r)',
           NEW q \in Rids, Following(f, q), Shut(Leader[f], q) => Shut(Leader[f], q)'
    PROVE  Following(f, q)'
<1>1. PICK s \in Seq(Notes) : s = fwd[f]
  BY DEF Shaped
<1>2. PICK m \in Notes : m = Msg(k, r)
  BY AnyNote DEF Kinds
<1>3. /\ fwd'[f] = Append(s, m) /\ Range(fwd'[f]) = Range(s) \cup {m}
      /\ \A x, y : Precedes(fwd'[f], x, y) => Precedes(s, x, y) \/ (x \in Range(s) /\ y = m)
  BY <1>1, <1>2, RangeAppend, PrecedesAppend
<1>4. Drained(f, q)' <=> Drained(f, q)
  BY DEF Drained, AsWas
<1>5. Over(f, q)' <=> Over(f, q)
  BY DEF Over, AsWas
<1>6. m \in Steps(q) => k \in {"step", "spec"} /\ q = r
  BY <1>2, MsgsDiffer DEF Steps
<1>7. m \in Ends(q) => k \in {"drain", "remove"} /\ q = r
  BY <1>2, MsgsDiffer DEF Ends
<1>8. Warned(f, q)' => Warned(f, q) \/ m \in Ends(q)
  BY <1>1, <1>3, <1>4, <1>5 DEF Warned
<1>9. ASSUME Overtaken(f, q)' PROVE FALSE
  <2>1. PICK x \in Steps(q) :
           \/ \E n \in Ends(q) : Precedes(fwd'[f], n, x)
           \/ Precedes(tpq[f], Msg("remove", q), x)
           \/ Drained(f, q) /\ x \in Range(fwd'[f])
           \/ Over(f, q) /\ x \in Range(fwd'[f]) \cup Range(tpq[f])
    BY <1>4, <1>5, <1>9 DEF Overtaken, AsWas, Precedes
  <2>2. x = m => ~Warned(f, q)
    BY <1>6 DEF Following
  <2>3. x # m
    <3> SUFFICES ASSUME x = m PROVE FALSE
      OBVIOUS
    <3>1. ~Warned(f, q)
      BY <2>2
    <3>2. ~Drained(f, q) /\ ~Over(f, q) /\ \A n \in Ends(q) : n \notin Range(s)
      BY <1>1, <3>1 DEF Warned
    <3>3. Msg("remove", q) \notin Range(tpq[f])
      BY <3>2 DEF Drained
    <3>4. ~Precedes(tpq[f], Msg("remove", q), x)
      BY <3>3, PrecedesBound DEF Shaped
    <3>5. \A n \in Ends(q) : ~Precedes(fwd'[f], n, x)
      BY <1>3, <3>2, PrecedesBound
    <3> QED
      BY <2>1, <3>2, <3>4, <3>5
  <2>4. Overtaken(f, q)
    BY <1>1, <1>3, <2>1, <2>3 DEF Overtaken
  <2> QED
    BY <2>4 DEF Following
<1> QED
  BY <1>7, <1>8, <1>9 DEF Following

LEMMA SentOrdered ==
    ASSUME Shaped, Fitted, NEW f \in Workers, NEW r \in Rids, NEW k \in {"step", "spec", "drain", "remove"},
           AsWas(f), fwd'[f] = Append(fwd[f], Msg(k, r)), forced' = forced, Ordered(f),
           freed'[Leader[f]] = IF k = "remove" THEN Append(freed[Leader[f]], r) ELSE freed[Leader[f]]
    PROVE  Ordered(f)'
<1>1. PICK s \in Seq(Notes) : s = fwd[f]
  BY DEF Shaped
<1>2. PICK m \in Notes : m = Msg(k, r)
  BY AnyNote DEF Kinds
<1>3. /\ fwd'[f] = Append(s, m) /\ Range(fwd'[f]) = Range(s) \cup {m}
      /\ \A x, y : Precedes(fwd'[f], x, y) => Precedes(s, x, y) \/ (x \in Range(s) /\ y = m)
  BY <1>1, <1>2, RangeAppend, PrecedesAppend
<1>4. PICK l \in Seq(Rids) : l = freed[Leader[f]]
  BY TeardownAssumption DEF Fitted
<1>5. /\ \A x \in Range(l) : x \in Range(freed'[Leader[f]])
      /\ \A x, y : Precedes(l, x, y) => Precedes(freed'[Leader[f]], x, y)
      /\ k = "remove" => r \in Range(freed'[Leader[f]]) /\ \A x \in Range(l) : Precedes(freed'[Leader[f]], x, r)
  <2>1. CASE k = "remove"
    BY <1>4, <2>1, RangeAppend, PrecedesAppend
  <2>2. CASE k # "remove"
    BY <1>4, <2>2
  <2> QED
    BY <2>1, <2>2
<1>6. \A q : Msg("remove", q) = m => k = "remove" /\ q = r
  BY <1>2, MsgsDiffer
<1>7. \A q : /\ (Freed(f, q)' <=> Freed(f, q)) /\ (Deferred(f, q)' <=> Deferred(f, q)) /\ (Stands(f, q)' <=> Stands(f, q))
             /\ Comes(f, q)' => Comes(f, q) \/ (k = "remove" /\ q = r)
  BY <1>1, <1>3, <1>6 DEF Freed, Deferred, Stands, Comes, AsWas
<1>8. \A q : InLine(f, q)' => InLine(f, q) \/ (k = "remove" /\ q = r)
  BY <1>7 DEF InLine
<1>9. ASSUME NEW p, NEW q, Ahead(f, p, q)' PROVE Ahead(f, p, q) \/ (k = "remove" /\ q = r /\ InLine(f, p))
  <2>1. CASE Precedes(fwd'[f], Msg("remove", p), Msg("remove", q))
    <3>1. Precedes(s, Msg("remove", p), Msg("remove", q)) \/ (Msg("remove", p) \in Range(s) /\ Msg("remove", q) = m)
      BY <1>3, <2>1
    <3> QED
      BY <1>1, <1>6, <3>1 DEF Ahead, InLine, Comes
  <2>2. CASE ~Precedes(fwd'[f], Msg("remove", p), Msg("remove", q))
    <3>1. \/ Precedes(freed[f], p, q) \/ Precedes(pendRemove[f], p, q)
          \/ Precedes(tpq[f], Msg("remove", p), Msg("remove", q))
          \/ Freed(f, p) /\ (Deferred(f, q) \/ Stands(f, q) \/ Comes(f, q)')
          \/ Deferred(f, p) /\ (Stands(f, q) \/ Comes(f, q)')
          \/ Stands(f, p) /\ Comes(f, q)'
      BY <1>7, <1>9, <2>2 DEF Ahead, AsWas, Precedes
    <3> QED
      BY <1>7, <3>1 DEF Ahead, InLine
  <2> QED
    BY <2>1, <2>2
<1>10. ASSUME NEW q \in Rids \ forced', InLine(f, q)' PROVE q \in Range(freed'[Leader[f]])
  BY <1>4, <1>5, <1>8, <1>10 DEF Ordered
<1>11. ASSUME NEW p \in Rids \ forced', NEW q \in Rids \ forced', Ahead(f, p, q)' PROVE Precedes(freed'[Leader[f]], p, q)
  BY <1>4, <1>5, <1>9, <1>11 DEF Ordered
<1> QED
  BY <1>10, <1>11 DEF Ordered, Precedes

LEMMA LeaderLine ==
    ASSUME Barrier, Fitted, Rows, NEW w \in Workers, NEW r, Acts(w, r), \A q \in Rids : Local(q), UNCHANGED condUsed,
           NEW f \in Followers(w), Line(f)
    PROVE  Line(f)'
<1>1. f \in Workers /\ Leader[f] = w /\ f # w /\ Leads(w) /\ Shaped /\ r \in Rids
  BY TeardownAssumption DEF Followers, Leads, Barrier, Acts
<1>2. AsWas(f) /\ forced' = forced
  BY <1>1, ActsElsewhere DEF Acts, Own, AsWas, condUsed
<1>3. \A q \in Rids : Shut(w, q) => Shut(w, q)'
  BY <1>1, ActsShut
<1>4. Sent(w, r)
  BY <1>1, ActsSent
<1>5. CASE fwd'[f] = fwd[f] /\ freed'[w] = freed[w]
  BY <1>1, <1>2, <1>3, <1>5, LineSame
<1>6. ASSUME NEW k \in {"step", "spec", "drain", "remove"}, Forward(w, k, r),
             k \in {"step", "spec"} => ~Shut(w, r), k \in {"drain", "remove"} => Shut(w, r)',
             freed'[w] = IF k = "remove" THEN Append(freed[w], r) ELSE freed[w]
      PROVE  Line(f)'
  <2>1. fwd'[f] = Append(fwd[f], Msg(k, r))
    BY <1>1, <1>6 DEF Forward
  <2>2. \A q \in Rids : Following(f, q)'
    BY <1>1, <1>2, <1>3, <1>6, <2>1, SentFollowing DEF Line
  <2>3. Ordered(f)'
    BY <1>1, <1>2, <1>6, <2>1, SentOrdered DEF Line
  <2> QED
    BY <2>2, <2>3 DEF Line
<1> QED
  BY <1>4, <1>5, <1>6 DEF Sent

-----------------------------------------------------------------------------
(* A follower's step, and what it has left of rank 0's messages *)

\* Nothing has come in from rank 0, and nothing has changed places.
Shorter(f) ==
    /\ \A x : x \in Range(fwd'[f]) => x \in Range(fwd[f])
    /\ \A x, y : Precedes(fwd'[f], x, y) => Precedes(fwd[f], x, y)

\* A drain or a removal of q that takes effect was there, with no step of q behind it.
Tighter(f, q) ==
    /\ Shorter(f)
    /\ \A x \in Steps(q) :
          /\ x \in Range(tpq'[f]) => x \in Range(tpq[f]) \cup Range(fwd[f])
          /\ Precedes(tpq'[f], Msg("remove", q), x) => Precedes(tpq[f], Msg("remove", q), x) \/ Overtaken(f, q)
    /\ Drained(f, q)' => \/ Drained(f, q)
                         \/ Warned(f, q) /\ \A x \in Steps(q) : x \in Range(fwd'[f]) => Overtaken(f, q)
    /\ Over(f, q)' => \/ Over(f, q)
                      \/ Warned(f, q) /\ \A x \in Steps(q) : x \in Range(fwd'[f]) \cup Range(tpq'[f]) => Overtaken(f, q)

LEMMA TighterFollows ==
    ASSUME NEW f \in Workers, NEW q \in Rids, Following(f, q), Tighter(f, q), Shut(Leader[f], q) => Shut(Leader[f], q)'
    PROVE  Following(f, q)'
<1>1. Warned(f, q)' => Warned(f, q)
  BY DEF Tighter, Shorter, Warned
<1>2. ASSUME Overtaken(f, q)' PROVE Overtaken(f, q)
  <2>1. PICK x \in Steps(q) :
           \/ \E n \in Ends(q) : Precedes(fwd'[f], n, x)
           \/ Precedes(tpq'[f], Msg("remove", q), x)
           \/ Drained(f, q)' /\ x \in Range(fwd'[f])
           \/ Over(f, q)' /\ x \in Range(fwd'[f]) \cup Range(tpq'[f])
    BY <1>2 DEF Overtaken, Precedes
  <2>2. CASE \E n \in Ends(q) : Precedes(fwd'[f], n, x)
    BY <2>2 DEF Tighter, Shorter, Overtaken
  <2>3. CASE Precedes(tpq'[f], Msg("remove", q), x)
    BY <2>3 DEF Tighter, Overtaken
  <2>4. CASE Drained(f, q)' /\ x \in Range(fwd'[f])
    BY <2>4 DEF Tighter, Shorter, Overtaken
  <2>5. CASE Over(f, q)' /\ x \in Range(fwd'[f]) \cup Range(tpq'[f])
    BY <2>5 DEF Tighter, Shorter, Overtaken
  <2> QED
    BY <2>1, <2>2, <2>3, <2>4, <2>5
<1> QED
  BY <1>1, <1>2 DEF Following

\* No removal has been put off or done.
LEMMA OrderSame ==
    ASSUME NEW f \in Workers, Ordered(f), forced' = forced, freed'[Leader[f]] = freed[Leader[f]],
           freed'[f] = freed[f], pendRemove'[f] = pendRemove[f], Shorter(f),
           \A q \in Rids \ forced : Stands(f, q)' => Stands(f, q) \/ Comes(f, q),
           \A p, q \in Rids \ forced :
               Precedes(tpq'[f], Msg("remove", p), Msg("remove", q)) \/ (Stands(f, p)' /\ Comes(f, q)') => Ahead(f, p, q)
    PROVE  Ordered(f)'
<1>1. \A q : (Freed(f, q)' <=> Freed(f, q)) /\ (Deferred(f, q)' <=> Deferred(f, q)) /\ (Comes(f, q)' => Comes(f, q))
  BY DEF Freed, Deferred, Comes, Shorter
<1>2. ASSUME NEW q \in Rids \ forced, InLine(f, q)' PROVE InLine(f, q)
  BY <1>1, <1>2 DEF InLine
<1>3. ASSUME NEW p \in Rids \ forced, NEW q \in Rids \ forced, Ahead(f, p, q)' PROVE Ahead(f, p, q)
  <2>1. \/ Precedes(freed[f], p, q) \/ Precedes(pendRemove[f], p, q)
        \/ Precedes(tpq'[f], Msg("remove", p), Msg("remove", q)) \/ (Stands(f, p)' /\ Comes(f, q)')
        \/ Precedes(fwd'[f], Msg("remove", p), Msg("remove", q))
        \/ Freed(f, p) /\ (Deferred(f, q) \/ Stands(f, q)' \/ Comes(f, q)')
        \/ Deferred(f, p) /\ (Stands(f, q)' \/ Comes(f, q)')
    BY <1>1, <1>3 DEF Ahead, Precedes
  <2>2. CASE Precedes(tpq'[f], Msg("remove", p), Msg("remove", q)) \/ (Stands(f, p)' /\ Comes(f, q)')
    BY <2>2
  <2>3. CASE \/ Precedes(freed[f], p, q) \/ Precedes(pendRemove[f], p, q)
             \/ Precedes(fwd'[f], Msg("remove", p), Msg("remove", q))
             \/ Freed(f, p) /\ (Deferred(f, q) \/ Stands(f, q)' \/ Comes(f, q)')
             \/ Deferred(f, p) /\ (Stands(f, q)' \/ Comes(f, q)')
    BY <1>1, <2>3 DEF Ahead, Shorter
  <2> QED
    BY <2>1, <2>2, <2>3
<1> QED
  BY <1>2, <1>3 DEF Ordered, Precedes

\* One is put off or done that was the first of them.
LEMMA OrderEnds ==
    ASSUME Shaped, Fitted, NEW f \in Workers, NEW r \in Rids, ~Leads(f), NoDup(pendRemove[f]),
           Ordered(f), forced' = forced, freed'[Leader[f]] = freed[Leader[f]], Shorter(f),
           \A q : Stands(f, q)' => Stands(f, q),
           \A p, q : Precedes(tpq'[f], Msg("remove", p), Msg("remove", q)) => Precedes(tpq[f], Msg("remove", p), Msg("remove", q)),
           InLine(f, r), \A p : Freed(f, p) => Ahead(f, p, r),
           \A q : Stands(f, q)' \/ Comes(f, q)' => Ahead(f, r, q),
           Frees(f, r) \/ (Defers(f, r) /\ \A p : Deferred(f, p) => Ahead(f, p, r))
    PROVE  Ordered(f)'
<1>1. \A q : Comes(f, q)' => Comes(f, q)
  BY DEF Comes, Shorter
<1>2. PICK d \in Seq(Rids) : d = pendRemove[f] /\ NoDup(d)
  BY DEF Shaped
<1>3. PICK e \in Seq(Rids) : e = freed[f]
  BY DEF Fitted
<1>4. CASE Frees(f, r)
  <2>1. /\ freed'[f] = Append(e, r) /\ pendRemove'[f] = Without(d, r) /\ (d # <<>> => Head(d) = r)
    BY <1>2, <1>3, <1>4 DEF Frees, Behind
  <2>2. /\ \A q : q \in Range(freed'[f]) => q \in Range(e) \/ q = r
        /\ \A x, y : Precedes(freed'[f], x, y) => Precedes(e, x, y) \/ (x \in Range(e) /\ y = r)
    BY <2>1, RangeAppend, PrecedesAppend
  <2>3. /\ \A q : q \in Range(pendRemove'[f]) => q \in Range(d) /\ Precedes(d, r, q)
        /\ \A x, y : Precedes(pendRemove'[f], x, y) => Precedes(d, x, y)
    <3>1. CASE d = <<>>
      <4>1. Range(d) = {} /\ pendRemove'[f] = d
        BY <2>1, <3>1, RangeOne DEF Without
      <4> QED
        BY <4>1
    <3>2. CASE d # <<>>
      <4>1. pendRemove'[f] = Tail(d)
        BY <1>2, <2>1, <3>2, WithoutHead
      <4>2. Range(d) = {r} \cup Range(Tail(d)) /\ (\A x, y : Precedes(Tail(d), x, y) => Precedes(d, x, y))
            /\ \A y \in Range(Tail(d)) : Precedes(d, r, y)
        BY <2>1, <3>2, RangeTail, PrecedesTail
      <4> QED
        BY <4>1, <4>2
    <3> QED
      BY <3>1, <3>2
  <2>4. ASSUME NEW q, InLine(f, q)' PROVE InLine(f, q)
    BY <1>1, <1>2, <1>3, <2>2, <2>3, <2>4 DEF InLine, Freed, Deferred
  <2>5. ASSUME NEW p, NEW q, Ahead(f, p, q)' PROVE Ahead(f, p, q)
    <3>1. \/ Precedes(freed'[f], p, q) \/ Precedes(pendRemove'[f], p, q)
          \/ Precedes(tpq'[f], Msg("remove", p), Msg("remove", q)) \/ Precedes(fwd'[f], Msg("remove", p), Msg("remove", q))
          \/ Freed(f, p)' /\ (Deferred(f, q)' \/ Stands(f, q)' \/ Comes(f, q)')
          \/ Deferred(f, p)' /\ (Stands(f, q)' \/ Comes(f, q)')
          \/ Stands(f, p)' /\ Comes(f, q)'
      BY <2>5 DEF Ahead, Precedes
    <3>2. CASE Precedes(freed'[f], p, q)
      BY <1>3, <2>2, <3>2 DEF Ahead, Freed
    <3>3. CASE Precedes(pendRemove'[f], p, q)
      BY <1>2, <2>3, <3>3 DEF Ahead
    <3>4. CASE \/ Precedes(tpq'[f], Msg("remove", p), Msg("remove", q))
               \/ Precedes(fwd'[f], Msg("remove", p), Msg("remove", q)) \/ (Stands(f, p)' /\ Comes(f, q)')
      BY <1>1, <3>4 DEF Ahead, Shorter
    <3>5. CASE Freed(f, p)' /\ (Deferred(f, q)' \/ Stands(f, q)' \/ Comes(f, q)')
      <4>1. Freed(f, p) \/ p = r
        BY <1>3, <2>2, <3>5 DEF Freed
      <4>2. Deferred(f, q)' => Deferred(f, q) /\ Precedes(pendRemove[f], r, q)
        BY <1>2, <2>3 DEF Deferred
      <4> QED
        BY <1>1, <3>5, <4>1, <4>2 DEF Ahead
    <3>6. CASE Deferred(f, p)' /\ (Stands(f, q)' \/ Comes(f, q)')
      BY <1>1, <1>2, <2>3, <3>6 DEF Ahead, Deferred
    <3> QED
      BY <3>1, <3>2, <3>3, <3>4, <3>5, <3>6
  <2> QED
    BY <2>4, <2>5 DEF Ordered, Precedes
<1>5. CASE Defers(f, r) /\ \A p : Deferred(f, p) => Ahead(f, p, r)
  <2>1. freed'[f] = freed[f] /\ pendRemove'[f] = With(d, r)
    BY <1>2, <1>5 DEF Defers
  <2>2. /\ \A q : q \in Range(pendRemove'[f]) => q \in Range(d) \/ q = r
        /\ \A x, y : Precedes(pendRemove'[f], x, y) => Precedes(d, x, y) \/ (x \in Range(d) /\ y = r)
    <3>1. CASE r \in Range(d)
      BY <2>1, <3>1 DEF With
    <3>2. CASE r \notin Range(d)
      BY <2>1, <3>2, RangeAppend, PrecedesAppend DEF With
    <3> QED
      BY <3>1, <3>2
  <2>3. \A q : (Freed(f, q)' <=> Freed(f, q)) /\ (Deferred(f, q)' => Deferred(f, q) \/ q = r)
    BY <1>2, <2>1, <2>2 DEF Freed, Deferred
  <2>4. ASSUME NEW q, InLine(f, q)' PROVE InLine(f, q)
    BY <1>1, <2>3, <2>4 DEF InLine
  <2>5. ASSUME NEW p, NEW q, Ahead(f, p, q)' PROVE Ahead(f, p, q)
    <3>1. \/ Precedes(freed[f], p, q) \/ Precedes(pendRemove'[f], p, q)
          \/ Precedes(tpq'[f], Msg("remove", p), Msg("remove", q)) \/ Precedes(fwd'[f], Msg("remove", p), Msg("remove", q))
          \/ Freed(f, p) /\ (Deferred(f, q)' \/ Stands(f, q)' \/ Comes(f, q)')
          \/ Deferred(f, p)' /\ (Stands(f, q)' \/ Comes(f, q)')
          \/ Stands(f, p)' /\ Comes(f, q)'
      BY <2>1, <2>3, <2>5 DEF Ahead, Precedes
    <3>2. CASE Precedes(pendRemove'[f], p, q)
      BY <1>2, <1>5, <2>2, <3>2 DEF Ahead, Deferred
    <3>3. CASE \/ Precedes(freed[f], p, q) \/ Precedes(tpq'[f], Msg("remove", p), Msg("remove", q))
               \/ Precedes(fwd'[f], Msg("remove", p), Msg("remove", q)) \/ (Stands(f, p)' /\ Comes(f, q)')
      BY <1>1, <3>3 DEF Ahead, Shorter
    <3>4. CASE Freed(f, p) /\ (Deferred(f, q)' \/ Stands(f, q)' \/ Comes(f, q)')
      BY <1>1, <2>3, <3>4 DEF Ahead
    <3>5. CASE Deferred(f, p)' /\ (Stands(f, q)' \/ Comes(f, q)')
      BY <1>1, <2>3, <3>5 DEF Ahead
    <3> QED
      BY <3>1, <3>2, <3>3, <3>4, <3>5
  <2> QED
    BY <2>4, <2>5 DEF Ordered, Precedes
<1> QED
  BY <1>4, <1>5

LEMMA FollowerShorter ==
    ASSUME Shaped, Fitted, Rows, NEW f \in Workers, ~Leads(f), NEW r, Acts(f, r)
    PROVE  Shorter(f)
<1>1. CASE fwd' = fwd
  BY <1>1 DEF Shorter
<1>2. ASSUME NEW m, Fetches(f, m) PROVE Shorter(f)
  BY <1>2, FetchedFrom DEF Shorter
<1>3. ASSUME NEW k, Forward(f, k, r) PROVE fwd' = fwd
  BY <1>3, NoFollowers DEF Shaped
<1> QED
  BY <1>1, <1>2, <1>3, ActsShape

\* Of the other requests.
LEMMA FollowerOthers ==
    ASSUME Shaped, Fitted, Rows, NEW f \in Workers, ~Leads(f), NEW r, Acts(f, r), forced' = forced, NEW q \in Rids, q # r
    PROVE  Tighter(f, q)
<1>1. r \in Rids
  BY DEF Acts
<1>2. pendRemove[f] \in Seq(Rids) /\ NoDup(pendRemove[f])
  BY DEF Shaped, Rows
<1>3. \A x \in Steps(q) \cup {Msg("remove", q)} :
        /\ x \in Range(tpq'[f]) => x \in Range(tpq[f])
        /\ Precedes(tpq'[f], Msg("remove", q), x) => Precedes(tpq[f], Msg("remove", q), x)
  <2>1. ASSUME NEW m, Pops(f, m)
        PROVE  (\A x : x \in Range(tpq'[f]) => x \in Range(tpq[f])) /\ \A x, y : Precedes(tpq'[f], x, y) => Precedes(tpq[f], x, y)
    BY <2>1, PoppedFrom
  <2>2. ASSUME NEW m \in Steps(r) \cup {Msg("remove", r)}, Queues(f, m),
               NEW x \in Steps(q) \cup {Msg("remove", q)}
        PROVE  /\ x \in Range(tpq'[f]) => x \in Range(tpq[f])
               /\ Precedes(tpq'[f], Msg("remove", q), x) => Precedes(tpq[f], Msg("remove", q), x)
    <3>1. m \in Notes
      BY <1>1, AnyNote DEF Steps, Kinds
    <3>2. x # m
      BY MsgsDiffer DEF Steps
    <3> QED
      BY <2>2, <3>1, <3>2, QueuedOn
  <2> QED
    BY <2>1, <2>2, ActsShape
<1>4. q \in Range(pendRemove'[f]) <=> q \in Range(pendRemove[f])
  <2>1. CASE Defers(f, r)
    BY <1>1, <1>2, <2>1, WithNoDup DEF Defers
  <2>2. CASE Frees(f, r)
    BY <1>2, <2>2, WithoutRange DEF Frees
  <2> QED
    BY <2>1, <2>2, ActsShape DEF Still, Greets, Slips
<1>5. torn'[f] \ {r} = torn[f] \ {r}
  BY ActsShape DEF Still, Greets, Slips, Defers, Frees, Marks
<1>6. /\ q \in drain'[f] <=> q \in drain[f]
      /\ q \in pendDrain'[f] <=> q \in pendDrain[f]
      /\ q \in parked'[f] <=> q \in parked[f]
      /\ q \in acked'[f] <=> q \in acked[f]
  <2>1. CASE Rests(f) \/ AcksLate(f, r) \/ PutsOff(f, r) \/ DrainsNow(f, r) \/ Parks(f, r)
    BY <2>1 DEF Rests, AcksLate, PutsOff, DrainsNow, Parks, Confirms
  <2>2. CASE Slips(f, r) \/ Defers(f, r) \/ Frees(f, r)
    BY <2>2 DEF Slips, Defers, Frees, Marks
  <2>3. CASE Greets(f, r) /\ (parked'[f] = parked[f] \/ parked'[f] = parked[f] \ {r})
    BY <2>3 DEF Greets
  <2>4. Turned(f, r) => Rests(f) \/ AcksLate(f, r)
    BY DEF Turned
  <2>5. Applied(f, r) => DrainsNow(f, r) \/ Frees(f, r)
    BY DEF Applied
  <2>6. Received(f, r) => \/ Rests(f) \/ PutsOff(f, r) \/ DrainsNow(f, r) \/ Slips(f, r) \/ Defers(f, r) \/ Frees(f, r)
                          \/ Greets(f, r) /\ (parked'[f] = parked[f] \/ parked'[f] = parked[f] \ {r})
    BY DEF Received
  <2>7. Followed(f, r) => \/ Rests(f) \/ PutsOff(f, r) \/ DrainsNow(f, r) \/ Parks(f, r) \/ Defers(f, r) \/ Frees(f, r)
    BY DEF Followed
  <2>8. Reached(f, r) => Defers(f, r) \/ Frees(f, r)
    BY DEF Reached
  <2> QED
    BY <2>1, <2>2, <2>3, <2>4, <2>5, <2>6, <2>7, <2>8 DEF Acts
<1>7. Drained(f, q)' => Drained(f, q)
  BY <1>3, <1>6 DEF Drained
<1>8. Over(f, q)' => Over(f, q)
  BY <1>4, <1>5, <1>6 DEF Over
<1> QED
  BY <1>3, <1>7, <1>8, FollowerShorter DEF Tighter

LEMMA FollowerBase ==
    ASSUME Shaped, Fitted, Rows, NEW f \in Workers, ~Leads(f), NEW r, Acts(f, r), \A q \in Rids : Local(q)
    PROVE  freed'[Leader[f]] = freed[Leader[f]] /\ \A q \in Rids : Shut(Leader[f], q) => Shut(Leader[f], q)'
<1>1. PICK l \in Workers : l = Leader[f] /\ l # f
  BY TeardownAssumption DEF Leads
<1>2. /\ held'[l] = held[l] /\ failed'[l] = failed[l] /\ drain'[l] = drain[l]
      /\ pendDrain'[l] = pendDrain[l] /\ pendRemove'[l] = pendRemove[l] /\ freed'[l] = freed[l]
  BY <1>1 DEF Acts, Own
<1>3. ASSUME NEW q \in Rids, Shut(l, q) PROVE Shut(l, q)'
  <2>1. Row(l, q) /\ (q \in Before' => q \in Before)
    BY DEF Rows, Local
  <2>2. New(l, q)' => New(l, q)
    <3>1. fromC' = fromC \/ \E k \in Kinds : Takes(f, k, r)
      BY ActsShape
    <3> QED
      BY <2>1, <3>1, TakesOne DEF Row
  <2> QED
    BY <1>2, <1>3, <2>1, <2>2, ShutSame
<1> QED
  BY <1>1, <1>2, <1>3

LEMMA OrderKept ==
    ASSUME NEW f \in Workers, Ordered(f), forced' = forced, freed'[Leader[f]] = freed[Leader[f]],
           freed'[f] = freed[f], pendRemove'[f] = pendRemove[f], Shorter(f),
           \A p : Msg("remove", p) \in Range(tpq'[f]) => Msg("remove", p) \in Range(tpq[f]),
           \A p, q : Precedes(tpq'[f], Msg("remove", p), Msg("remove", q)) => Precedes(tpq[f], Msg("remove", p), Msg("remove", q))
    PROVE  Ordered(f)'
<1>1. \A q : (Stands(f, q)' => Stands(f, q)) /\ (Comes(f, q)' => Comes(f, q))
  BY DEF Stands, Comes, Shorter
<1>2. \A p, q : Precedes(tpq'[f], Msg("remove", p), Msg("remove", q)) \/ (Stands(f, p)' /\ Comes(f, q)') => Ahead(f, p, q)
  BY <1>1 DEF Ahead
<1> QED
  BY <1>1, <1>2, OrderSame

\* READS_DONE of r is sent where no step of it waits any more, unless it was removed.
LEMMA ConfirmsOver ==
    ASSUME NEW f \in Workers, NEW r, Confirms(f, r) \/ acked'[f] = acked[f], torn'[f] = torn[f], pendRemove'[f] = pendRemove[f],
           forced' = forced, Over(f, r)'
    PROVE  Over(f, r) \/ \A x \in Steps(r) : x \notin Range(tpq[f])
  BY DEF Over, Confirms, Awaits, Steps

\* A removal that was parked for r, still to come from the conductor, comes from a deadline.
LEMMA ParkedIsForced ==
    ASSUME Barrier, Rows, NEW f \in Workers, NEW r \in Rids, Takes(f, "new", r), r \in parked[f] \ acked[f]
    PROVE  r \in forced
<1>1. New(f, r) /\ Row(f, r)
  BY TakesHad DEF New, Barrier, Rows
<1>2. Ending(r)
  BY DEF Ending, Due
<1> QED
  BY <1>1, <1>2 DEF Row, Known

LEMMA FollowerTurns ==
    ASSUME Barrier, Fitted, Rows, NEW f \in Workers, ~Leads(f), NEW r \in Rids, Line(f), forced' = forced,
           freed'[Leader[f]] = freed[Leader[f]], Shorter(f), Turned(f, r)
    PROVE  Tighter(f, r) /\ Ordered(f)'
<1>1. Shaped /\ Ordered(f)
  BY DEF Barrier, Line
<1>2. CASE Rests(f) /\ (tpq' = tpq \/ \E m \in Steps(r) : Pops(f, m))
  <2>1. /\ \A x : x \in Range(tpq'[f]) => x \in Range(tpq[f])
        /\ \A x, y : Precedes(tpq'[f], x, y) => Precedes(tpq[f], x, y)
    BY <1>1, <1>2, PoppedFrom
  <2>2. (Drained(f, r)' => Drained(f, r)) /\ (Over(f, r)' => Over(f, r))
    BY <1>2, <2>1 DEF Rests, Still, Drained, Over
  <2>3. freed'[f] = freed[f] /\ pendRemove'[f] = pendRemove[f]
    BY <1>2 DEF Rests, Still
  <2>4. Ordered(f)'
    BY <1>1, <2>1, <2>3, OrderKept
  <2> QED
    BY <2>1, <2>2, <2>4 DEF Tighter
<1>3. CASE AcksLate(f, r) /\ UNCHANGED <<tpq, fwd>>
  <2>1. Drained(f, r) /\ Drained(f, r)'
    BY <1>3 DEF AcksLate, Drained
  <2>2. Over(f, r)' => Over(f, r) \/ \A x \in Steps(r) : x \notin Range(tpq[f])
    BY <1>3, ConfirmsOver DEF AcksLate, Still
  <2>3. \A x \in Steps(r) : x \in Range(fwd'[f]) => Overtaken(f, r)
    BY <1>3, <2>1 DEF Overtaken
  <2>4. Ordered(f)'
    BY <1>1, <1>3, OrderKept DEF AcksLate, Still
  <2> QED
    BY <1>3, <2>1, <2>2, <2>3, <2>4 DEF Tighter, Warned
<1> QED
  BY <1>2, <1>3 DEF Turned

LEMMA FollowerApplies ==
    ASSUME Barrier, Fitted, Rows, NEW f \in Workers, ~Leads(f), NEW r \in Rids, Line(f), forced' = forced,
           freed'[Leader[f]] = freed[Leader[f]], Shorter(f), Applied(f, r)
    PROVE  Tighter(f, r) /\ Ordered(f)'
<1>1. Shaped /\ Ordered(f) /\ NoDup(pendRemove[f])
  BY DEF Barrier, Line, Rows
<1>2. UNCHANGED <<tpq, fwd>>
  <2>1. \A k : Forward(f, k, r) => fwd' = fwd
    BY <1>1, NoFollowers DEF Shaped
  <2> QED
    BY <2>1 DEF Applied
<1>3. CASE DrainsNow(f, r) /\ r \in pendDrain[f]
  <2>1. Drained(f, r)
    BY <1>3 DEF Drained
  <2>2. Over(f, r)' => Over(f, r) \/ \A x \in Steps(r) : x \notin Range(tpq[f])
    BY <1>3, ConfirmsOver DEF DrainsNow, Still
  <2>3. \A x \in Steps(r) : x \in Range(fwd'[f]) => Overtaken(f, r)
    BY <1>2, <2>1 DEF Overtaken
  <2>4. Ordered(f)'
    BY <1>1, <1>2, <1>3, OrderKept DEF DrainsNow, Still
  <2> QED
    BY <1>2, <2>1, <2>2, <2>3, <2>4 DEF Tighter, Warned
<1>4. CASE Frees(f, r) /\ r \in Range(pendRemove[f])
  <2>1. Over(f, r) /\ Deferred(f, r)
    BY <1>4 DEF Over, Deferred
  <2>2. Drained(f, r)' => Drained(f, r)
    BY <1>2, <1>4 DEF Drained, Frees, Marks
  <2>3. \A q : Stands(f, q)' <=> Stands(f, q)
    BY <1>2 DEF Stands
  <2>4. \A q : Stands(f, q)' \/ Comes(f, q)' => Ahead(f, r, q)
    BY <1>2, <2>1 DEF Ahead, Stands, Comes
  <2>5. InLine(f, r) /\ \A p : Freed(f, p) => Ahead(f, p, r)
    BY <2>1 DEF InLine, Ahead
  <2>6. Ordered(f)'
    BY <1>1, <1>2, <1>4, <2>3, <2>4, <2>5, OrderEnds
  <2> QED
    BY <1>2, <2>1, <2>2, <2>6 DEF Tighter
<1> QED
  BY <1>3, <1>4 DEF Applied

LEMMA FollowerReceives ==
    ASSUME Barrier, Fitted, Rows, NEW f \in Workers, ~Leads(f), NEW r \in Rids, Line(f), forced' = forced,
           freed'[Leader[f]] = freed[Leader[f]], Shorter(f), Received(f, r)
    PROVE  Tighter(f, r) /\ Ordered(f)'
<1>1. Shaped /\ Ordered(f) /\ Row(f, r)
  BY DEF Barrier, Line, Rows
<1>2. CASE UNCHANGED <<tpq, fwd>> /\ (Rests(f) \/ (Greets(f, r) /\ parked'[f] = parked[f]))
  <2>1. (Drained(f, r)' => Drained(f, r)) /\ (Over(f, r)' => Over(f, r))
    BY <1>2 DEF Rests, Still, Greets, Drained, Over
  <2>2. Ordered(f)'
    BY <1>1, <1>2, OrderKept DEF Rests, Still, Greets
  <2> QED
    BY <1>2, <2>1, <2>2 DEF Tighter
<1>3. CASE UNCHANGED <<tpq, fwd>> /\ Slips(f, r) /\ (Over(f, r)' => Over(f, r))
  <2>1. Drained(f, r)' => Drained(f, r)
    BY <1>3 DEF Slips, Marks, Drained
  <2>2. Ordered(f)'
    BY <1>1, <1>3, OrderKept DEF Slips
  <2> QED
    BY <1>3, <2>1, <2>2 DEF Tighter
<1>4. CASE Takes(f, "new", r) /\ fwd' = fwd /\ r \in parked[f] \ acked[f] /\ Slips(f, r) /\ UNCHANGED tpq
  <2>1. r \in forced
    BY <1>4, ParkedIsForced
  <2>2. Over(f, r)' => Over(f, r)
    BY <1>4, <2>1 DEF Over, Slips
  <2> QED
    BY <1>3, <1>4, <2>2
<1>5. CASE Takes(f, "remove", r) /\ UNCHANGED tpq /\ r \notin held[f] /\ Slips(f, r) /\ fwd' = fwd
  <2>1. Leaving(f, r)
    BY <1>1, <1>5, TakesHad DEF Leaving
  <2>2. r \notin forced => r \in torn[f] \cup acked[f]
    BY <1>1, <1>5, <2>1 DEF Row, Known, Met
  <2>3. Over(f, r)' => Over(f, r)
    BY <1>5, <2>2 DEF Over, Slips
  <2> QED
    BY <1>3, <1>5, <2>3
<1>6. CASE /\ Takes(f, "new", r) /\ fwd' = fwd /\ r \in parked[f] \ acked[f]
           /\ Greets(f, r) /\ parked'[f] = parked[f] \ {r} /\ Queues(f, Msg("remove", r))
  <2>1. r \in forced /\ Drained(f, r)
    BY <1>6, ParkedIsForced DEF Drained
  <2>2. Over(f, r)' => Over(f, r)
    BY <1>6 DEF Over, Greets
  <2>3. PICK n \in Notes : n = Msg("remove", r)
    BY AnyNote DEF Kinds
  <2>4. /\ Range(tpq'[f]) = Range(tpq[f]) \cup {n}
        /\ \A x, y : Precedes(tpq'[f], x, y) => Precedes(tpq[f], x, y) \/ (x \in Range(tpq[f]) /\ y = n)
    BY <1>1, <1>6, <2>3, QueuedOn
  <2>5. n \notin Steps(r) /\ \A q \in Rids \ forced : n # Msg("remove", q)
    BY <2>1, <2>3, MsgsDiffer DEF Steps
  <2>6. Tighter(f, r)
    BY <1>6, <2>1, <2>2, <2>4, <2>5 DEF Tighter
  <2>7. \A q \in Rids \ forced : (Stands(f, q)' => Stands(f, q)) /\ (Comes(f, q)' => Comes(f, q))
    BY <1>6, <2>4, <2>5 DEF Stands, Comes
  <2>8. \A p, q \in Rids \ forced :
            Precedes(tpq'[f], Msg("remove", p), Msg("remove", q)) \/ (Stands(f, p)' /\ Comes(f, q)') => Ahead(f, p, q)
    BY <2>4, <2>5, <2>7 DEF Ahead
  <2>9. Ordered(f)'
    BY <1>1, <1>6, <2>7, <2>8, OrderSame DEF Greets
  <2> QED
    BY <2>6, <2>9
<1> QED
  BY <1>2, <1>4, <1>5, <1>6 DEF Received

LEMMA FollowerFollows ==
    ASSUME Barrier, Fitted, Rows, NEW f \in Workers, ~Leads(f), NEW r \in Rids, Line(f), forced' = forced,
           freed'[Leader[f]] = freed[Leader[f]], Shorter(f), Followed(f, r)
    PROVE  Tighter(f, r) /\ Ordered(f)'
<1>1. Shaped /\ Ordered(f) /\ NoDup(pendRemove[f])
  BY DEF Barrier, Line, Rows
<1>2. CASE Rests(f) /\ \E m \in Steps(r) : Fetches(f, m) /\ Queues(f, m)
  <2>1. PICK m \in Steps(r) : Fetches(f, m) /\ Queues(f, m)
    BY <1>2
  <2>2. m \in Notes /\ (\A q : m # Msg("remove", q))
    BY AnyNote, MsgsDiffer DEF Steps, Kinds
  <2>3. m \in Range(fwd[f])
    BY <1>1, <2>1, FetchedFrom
  <2>4. /\ Range(tpq'[f]) = Range(tpq[f]) \cup {m}
        /\ \A x, y : Precedes(tpq'[f], x, y) => Precedes(tpq[f], x, y) \/ (x \in Range(tpq[f]) /\ y = m)
    BY <1>1, <2>1, <2>2, QueuedOn
  <2>5. (Drained(f, r)' => Drained(f, r)) /\ (Over(f, r)' => Over(f, r))
    BY <1>2, <2>2, <2>4 DEF Rests, Still, Drained, Over
  <2>6. \A x \in Steps(r) : Precedes(tpq'[f], Msg("remove", r), x) => Precedes(tpq[f], Msg("remove", r), x) \/ Overtaken(f, r)
    BY <2>3, <2>4 DEF Overtaken, Drained
  <2>7. Tighter(f, r)
    BY <2>3, <2>4, <2>5, <2>6 DEF Tighter
  <2>8. Ordered(f)'
    <3>1. \A p : Msg("remove", p) \in Range(tpq'[f]) => Msg("remove", p) \in Range(tpq[f])
      BY <2>2, <2>4
    <3>2. \A p, q : Precedes(tpq'[f], Msg("remove", p), Msg("remove", q)) => Precedes(tpq[f], Msg("remove", p), Msg("remove", q))
      BY <2>2, <2>4
    <3> QED
      BY <1>1, <1>2, <3>1, <3>2, OrderKept DEF Rests, Still
  <2> QED
    BY <2>7, <2>8
<1>3. CASE /\ \E n \in Ends(r) : Fetches(f, n)
           /\ UNCHANGED tpq /\ (PutsOff(f, r) \/ DrainsNow(f, r) \/ Rests(f) \/ Parks(f, r))
  <2>1. PICK n \in Ends(r) : Fetches(f, n)
    BY <1>3
  <2>2. /\ n \in Range(fwd[f]) /\ \A x : x \in Range(fwd'[f]) => Precedes(fwd[f], n, x)
    BY <1>1, <2>1, FetchedFrom
  <2>3. Warned(f, r) /\ \A x \in Steps(r) : x \in Range(fwd'[f]) => Overtaken(f, r)
    BY <2>2 DEF Warned, Overtaken
  <2>4. Over(f, r)' => Over(f, r) \/ \A x \in Steps(r) : x \notin Range(tpq[f])
    BY <1>3, ConfirmsOver DEF PutsOff, DrainsNow, Rests, Parks, Still
  <2>5. Tighter(f, r)
    BY <1>3, <2>3, <2>4 DEF Tighter
  <2>6. Ordered(f)'
    BY <1>1, <1>3, OrderKept DEF PutsOff, DrainsNow, Rests, Parks, Still
  <2> QED
    BY <2>5, <2>6
<1>4. CASE Fetches(f, Msg("remove", r)) /\ Rests(f) /\ Queues(f, Msg("remove", r))
  <2>1. PICK n \in Notes : n = Msg("remove", r)
    BY AnyNote DEF Kinds
  <2>2. /\ n \in Range(fwd[f]) /\ \A x : x \in Range(fwd'[f]) => Precedes(fwd[f], n, x)
    BY <1>1, <1>4, <2>1, FetchedFrom
  <2>3. /\ Range(tpq'[f]) = Range(tpq[f]) \cup {n}
        /\ \A x, y : Precedes(tpq'[f], x, y) => Precedes(tpq[f], x, y) \/ (x \in Range(tpq[f]) /\ y = n)
    BY <1>1, <1>4, <2>1, QueuedOn
  <2>4. n \in Ends(r) /\ n \notin Steps(r) /\ \A q : n = Msg("remove", q) => q = r
    BY <2>1, MsgsDiffer DEF Steps, Ends
  <2>5. Warned(f, r) /\ (\A x \in Steps(r) : x \in Range(fwd'[f]) => Overtaken(f, r)) /\ Comes(f, r)
    BY <2>1, <2>2, <2>4 DEF Warned, Overtaken, Comes
  <2>6. Over(f, r)' => Over(f, r)
    BY <1>4 DEF Rests, Still, Over
  <2>7. Tighter(f, r)
    BY <2>3, <2>4, <2>5, <2>6 DEF Tighter
  <2>8. \A q : (Stands(f, q)' => Stands(f, q) \/ q = r) /\ (Comes(f, q)' => Comes(f, q) /\ Ahead(f, r, q))
    <3> SUFFICES ASSUME NEW q
                 PROVE  (Stands(f, q)' => Stands(f, q) \/ q = r) /\ (Comes(f, q)' => Comes(f, q) /\ Ahead(f, r, q))
      OBVIOUS
    <3>1. Stands(f, q)' => Stands(f, q) \/ q = r
      BY <2>3, <2>4 DEF Stands
    <3>2. Comes(f, q)' => Comes(f, q)
      BY DEF Comes, Shorter
    <3>3. Comes(f, q)' => Ahead(f, r, q)
      BY <2>1, <2>2 DEF Comes, Ahead
    <3> QED
      BY <3>1, <3>2, <3>3
  <2>9. \A p, q : Precedes(tpq'[f], Msg("remove", p), Msg("remove", q)) =>
                      Precedes(tpq[f], Msg("remove", p), Msg("remove", q)) \/ (Stands(f, p) /\ q = r)
    BY <2>3, <2>4 DEF Stands
  <2>10. \A p, q \in Rids \ forced :
            Precedes(tpq'[f], Msg("remove", p), Msg("remove", q)) \/ (Stands(f, p)' /\ Comes(f, q)') => Ahead(f, p, q)
    BY <2>5, <2>8, <2>9 DEF Ahead
  <2>11. \A q \in Rids \ forced : Stands(f, q)' => Stands(f, q) \/ Comes(f, q)
    BY <2>5, <2>8
  <2>12. Ordered(f)'
    BY <1>1, <1>4, <2>10, <2>11, OrderSame DEF Rests, Still
  <2> QED
    BY <2>7, <2>12
<1>5. CASE /\ Fetches(f, Msg("remove", r)) /\ UNCHANGED tpq /\ tpq[f] = <<>>
           /\ Defers(f, r) \/ Frees(f, r)
  <2>1. PICK n \in Notes : n = Msg("remove", r)
    BY AnyNote DEF Kinds
  <2>2. /\ n \in Range(fwd[f]) /\ \A x : x \in Range(fwd'[f]) => Precedes(fwd[f], n, x)
    BY <1>1, <1>5, <2>1, FetchedFrom
  <2>3. n \in Ends(r)
    BY <2>1 DEF Ends
  <2>4. Warned(f, r) /\ (\A x \in Steps(r) : x \in Range(fwd'[f]) => Overtaken(f, r)) /\ Comes(f, r)
    BY <2>1, <2>2, <2>3 DEF Warned, Overtaken, Comes
  <2>5. Range(tpq[f]) = {} /\ tpq'[f] = tpq[f]
    BY <1>5, RangeOne
  <2>6. Drained(f, r)' => Drained(f, r)
    BY <1>5 DEF Drained, Defers, Frees, Marks
  <2>7. Tighter(f, r)
    BY <2>4, <2>5, <2>6 DEF Tighter
  <2>8. \A q : ~Stands(f, q)' /\ (Stands(f, q)' => Stands(f, q)) /\ (Comes(f, q)' => Ahead(f, r, q))
    BY <2>1, <2>2, <2>5 DEF Stands, Comes, Ahead
  <2>9. InLine(f, r) /\ (\A p : Freed(f, p) \/ Deferred(f, p) => Ahead(f, p, r))
    BY <2>4 DEF InLine, Ahead
  <2>10. Ordered(f)'
    BY <1>1, <1>5, <2>5, <2>8, <2>9, OrderEnds
  <2> QED
    BY <2>7, <2>10
<1>6. Msg("drain", r) \in Ends(r) /\ Msg("remove", r) \in Ends(r)
  BY DEF Ends
<1> QED
  BY <1>2, <1>3, <1>4, <1>5, <1>6 DEF Followed

LEMMA FollowerReaches ==
    ASSUME Barrier, Fitted, Rows, NEW f \in Workers, ~Leads(f), NEW r \in Rids, Line(f), forced' = forced,
           freed'[Leader[f]] = freed[Leader[f]], Shorter(f), Reached(f, r)
    PROVE  Tighter(f, r) /\ Ordered(f)'
<1>1. Shaped /\ Ordered(f) /\ NoDup(pendRemove[f])
  BY DEF Barrier, Line, Rows
<1>2. PICK n \in Notes : n = Msg("remove", r)
  BY AnyNote DEF Kinds
<1>3. Pops(f, n) /\ UNCHANGED fwd /\ (Defers(f, r) \/ Frees(f, r))
  BY <1>2 DEF Reached
<1>4. /\ n \in Range(tpq[f]) /\ \A x : x \in Range(tpq'[f]) => x \in Range(tpq[f]) /\ Precedes(tpq[f], n, x)
      /\ \A x, y : Precedes(tpq'[f], x, y) => Precedes(tpq[f], x, y)
  BY <1>1, <1>3, PoppedFrom
<1>5. Stands(f, r) /\ Drained(f, r) /\ Warned(f, r)
  BY <1>2, <1>4 DEF Stands, Drained, Warned
<1>6. \A x \in Steps(r) : x \in Range(fwd'[f]) \cup Range(tpq'[f]) => Overtaken(f, r)
  BY <1>2, <1>3, <1>4, <1>5 DEF Overtaken
<1>7. Tighter(f, r)
  BY <1>4, <1>5, <1>6 DEF Tighter
<1>8. \A q : (Stands(f, q)' => Stands(f, q)) /\ (Stands(f, q)' \/ Comes(f, q)' => Ahead(f, r, q))
  BY <1>2, <1>3, <1>4, <1>5 DEF Stands, Comes, Ahead
<1>9. InLine(f, r) /\ (\A p : Freed(f, p) \/ Deferred(f, p) => Ahead(f, p, r))
  BY <1>5 DEF InLine, Ahead
<1>10. Ordered(f)'
  BY <1>1, <1>3, <1>4, <1>8, <1>9, OrderEnds
<1> QED
  BY <1>7, <1>10

LEMMA FollowerLine ==
    ASSUME Barrier, Fitted, Rows, NEW f \in Workers, ~Leads(f), NEW r, Acts(f, r), \A q \in Rids : Local(q), UNCHANGED condUsed, Line(f)
    PROVE  Line(f)'
<1>1. Shaped /\ r \in Rids /\ forced' = forced
  BY DEF Barrier, Acts, condUsed
<1>2. freed'[Leader[f]] = freed[Leader[f]] /\ (\A q \in Rids : Shut(Leader[f], q) => Shut(Leader[f], q)') /\ Shorter(f)
  BY <1>1, FollowerBase, FollowerShorter
<1>3. Tighter(f, r) /\ Ordered(f)'
  BY <1>1, <1>2, FollowerTurns, FollowerApplies, FollowerReceives, FollowerFollows, FollowerReaches DEF Acts
<1>4. ASSUME NEW q \in Rids PROVE Tighter(f, q)
  BY <1>1, <1>3, FollowerOthers
<1>5. \A q \in Rids : Following(f, q)'
  BY <1>2, <1>4, TighterFollows DEF Line
<1> QED
  BY <1>3, <1>5 DEF Line

LEMMA ActsLined ==
    ASSUME Barrier, Lined, NEW w \in Workers, NEW r, Acts(w, r), \A q \in Rids : Local(q), UNCHANGED condUsed
    PROVE  Lined'
<1>1. Shaped /\ Fitted /\ Rows
  BY DEF Barrier, Lined
<1>2. Fitted' /\ Rows'
  BY <1>1, ActsRows DEF Acts, Own
<1>3. ASSUME NEW f \in Workers, ~Leads(f) PROVE Line(f)'
  <2>1. Line(f)
    BY <1>3 DEF Lined
  <2>2. CASE f = w
    BY <1>1, <1>3, <2>1, <2>2, FollowerLine
  <2>3. CASE f \in Followers(w)
    BY <1>1, <2>1, <2>3, LeaderLine
  <2>4. CASE f # w /\ f \notin Followers(w)
    <3>1. PICK l \in Workers : l = Leader[f] /\ l # w
      BY <2>4, TeardownAssumption DEF Followers
    <3>2. AsWas(f) /\ fwd'[f] = fwd[f] /\ forced' = forced
      BY <1>1, <2>4, ActsElsewhere DEF Acts, Own, AsWas, condUsed
    <3>3. /\ held'[l] = held[l] /\ failed'[l] = failed[l] /\ drain'[l] = drain[l]
          /\ pendDrain'[l] = pendDrain[l] /\ pendRemove'[l] = pendRemove[l] /\ freed'[l] = freed[l]
      BY <3>1 DEF Acts, Own
    <3>4. ASSUME NEW q \in Rids, Shut(l, q) PROVE Shut(l, q)'
      <4>1. Row(l, q) /\ (q \in Before' => q \in Before)
        BY <1>1 DEF Rows, Local
      <4>2. New(l, q)' => New(l, q)
        <5>1. fromC' = fromC \/ \E k \in Kinds : Takes(w, k, r)
          BY <1>1, ActsShape
        <5> QED
          BY <1>1, <4>1, <5>1, TakesOne DEF Row
      <4> QED
        BY <3>3, <3>4, <4>1, <4>2, ShutSame
    <3> QED
      BY <2>1, <3>1, <3>2, <3>3, <3>4, LineSame
  <2> QED
    BY <2>2, <2>3, <2>4
<1> QED
  BY <1>2, <1>3 DEF Lined, Leads

-----------------------------------------------------------------------------
(* The steps of the others *)

\* The workers have what they had.
Untouched ==
    /\ Fitted'
    /\ \A w \in Workers :
         /\ AsWas(w) /\ fwd'[w] = fwd[w] /\ held'[w] = held[w] /\ failed'[w] = failed[w]
         /\ work'[w] = work[w] /\ spec'[w] = spec[w]

LEMMA UntouchedLined ==
    ASSUME Lined, Untouched, forced \subseteq forced', \A q \in Rids : q \in Before' => q \in Before,
           \A w \in Workers : \A q \in Rids : Row(w, q)' /\ (New(w, q)' => New(w, q) \/ q \in Before)
    PROVE  Lined'
<1>1. Rows'
  <2> SUFFICES ASSUME NEW w \in Workers PROVE NoDup(pendRemove'[w]) /\ (Leads(w) => Alone(w)')
    BY DEF Rows, Leads, NoDup
  <2>1. pendRemove'[w] = pendRemove[w] /\ fwd'[w] = fwd[w] /\ tpq'[w] = tpq[w] /\ parked'[w] = parked[w]
    BY DEF Untouched, AsWas
  <2> QED
    BY <2>1 DEF Lined, Rows, Alone
<1>2. ASSUME NEW f \in Workers, ~Leads(f) PROVE Line(f)'
  <2>1. PICK l \in Workers : l = Leader[f]
    BY TeardownAssumption
  <2>2. Line(f) /\ AsWas(f) /\ fwd'[f] = fwd[f] /\ freed'[l] = freed[l]
    BY <1>2 DEF Lined, Untouched, AsWas
  <2>3. /\ held'[l] = held[l] /\ failed'[l] = failed[l] /\ drain'[l] = drain[l]
        /\ pendDrain'[l] = pendDrain[l] /\ pendRemove'[l] = pendRemove[l]
    BY DEF Untouched, AsWas
  <2>4. \A q \in Rids : Shut(l, q) => Shut(l, q)'
    BY <2>3, ShutSame
  <2> QED
    BY <2>1, <2>2, <2>4, LineSame
<1> QED
  BY <1>1, <1>2 DEF Lined, Untouched, Leads

LEMMA UntouchedRow ==
    ASSUME Untouched, NEW w \in Workers, NEW q \in Rids, Row(w, q),
           Polite(fromC'[w], q), Met(w, q) => ~New(w, q)', DoneBy(w, q)' => DoneBy(w, q),
           Running(q)' /\ w \in reported'[q] => Met(w, q),
           q \in draining' /\ w \notin expected'[q] => Known(w, q),
           Leaving(w, q)' /\ q \notin forced' => Known(w, q),
           Ending(q)' /\ New(w, q)' => Leaving(w, q)'
    PROVE  Row(w, q)'
<1>1. /\ Met(w, q)' <=> Met(w, q)
      /\ Known(w, q)' <=> Known(w, q)
      /\ Manned(w, q)' <=> Manned(w, q)
      /\ tpq'[w] = tpq[w] /\ pendRemove'[w] = pendRemove[w]
  BY DEF Untouched, AsWas, Met, Known, Manned
<1>2. Polite(fromC[w], q)'
  BY DEF Polite, Precedes
<1> QED
  BY <1>1, <1>2 DEF Row

LEMMA AloofLined ==
    ASSUME Lined, Untouched, UNCHANGED condUsed, \A w \in Workers : fromC'[w] = fromC[w] /\ toC'[w] = toC[w],
           \A q \in Rids : Local(q)
    PROVE  Lined'
<1>1. ASSUME NEW w \in Workers, NEW q \in Rids PROVE Row(w, q)' /\ (New(w, q)' => New(w, q))
  <2>1. Row(w, q) /\ (Ending(q)' => Ending(q))
    BY DEF Lined, Rows, Local
  <2>2. /\ Polite(fromC'[w], q) /\ (New(w, q)' <=> New(w, q)) /\ (Leaving(w, q)' <=> Leaving(w, q))
        /\ DoneBy(w, q)' <=> DoneBy(w, q)
    BY <2>1 DEF Row, New, Leaving, DoneBy
  <2> QED
    BY <2>1, <2>2, UntouchedRow DEF Row, condUsed, Running
<1> QED
  BY <1>1, UntouchedLined DEF Local, condUsed

\* What the API server and the data worker do.
LEMMA ServesLined ==
    ASSUME Barrier, Lined, UNCHANGED barrierVars \/ \E r : Serves(r), \A q \in Rids : Local(q)
    PROVE  Lined'
<1>1. Shaped
  BY DEF Barrier
<1>2. CASE UNCHANGED barrierVars
  <2>1. Untouched /\ UNCHANGED condUsed /\ \A w \in Workers : fromC'[w] = fromC[w] /\ toC'[w] = toC[w]
    BY <1>2 DEF barrierVars, Untouched, AsWas, Lined, Fitted
  <2> QED
    BY <2>1, AloofLined
<1>3. ASSUME NEW r, Serves(r) PROVE Lined'
  <2>1. UNCHANGED <<held, work, spec, failed, parked, pendDrain, pendRemove, tpq, freed, fwd, condUsed>> /\ Acks(r) /\ Says(r)
    BY <1>3 DEF Serves
  <2>2. ASSUME NEW w \in Workers PROVE drain'[w] = drain[w] /\ acked'[w] = acked[w] /\ torn'[w] = torn[w]
    BY <1>1, <2>1, Cast DEF Acks, Add, Del, Shaped
  <2>3. \A w \in Workers : fromC'[w] = fromC[w]
    BY <1>1, <1>3, Cast DEF Serves, Shaped
  <2>4. Untouched
    BY <2>1, <2>2 DEF Untouched, AsWas, Lined, Fitted
  <2> QED
    BY <2>1, <2>3, <2>4, AloofLined DEF Says
<1> QED
  BY <1>2, <1>3

-----------------------------------------------------------------------------
(* The conductor's steps *)

LEMMA ConductsUntouched == ASSUME Lined, NEW r, Conducts(r) PROVE Untouched
  BY DEF Conducts, partSame, Untouched, AsWas, Lined, Fitted

\* What a worker hears of a request.
LEMMA ConductsMail ==
    ASSUME Barrier, Rows, NEW r, Conducts(r), NEW w \in Workers, NEW q \in Rids
    PROVE  /\ Polite(fromC'[w], q) /\ (Met(w, q) => ~New(w, q)')
           /\ New(w, q)' => New(w, q) \/ (q = r /\ r \in Before /\ r \notin Before')
           /\ Leaving(w, q) => Leaving(w, q)'
<1>1. Shaped /\ Row(w, q) /\ Clean(q) /\ r \in Rids
  BY DEF Barrier, Rows, Kept, Conducts
<1>2. PICK s \in Seq(Notes) :
         /\ fromC'[w] = fromC[w] \o s /\ Polite(s, r) /\ \A m \in Range(s) : m.rid = r
         /\ Msg("new", r) \in Range(s) => r \in Before /\ r \notin Before'
  BY DEF Conducts, Mails
<1>3. PICK c \in Seq(Notes) : c = fromC[w]
  BY <1>1, Cast DEF Shaped
<1>4. Range(c \o s) = Range(c) \cup Range(s)
  BY <1>3, RangeConcat
<1>5. \A x, y : Precedes(c \o s, x, y) => Precedes(c, x, y) \/ Precedes(s, x, y) \/ (x \in Range(c) /\ y \in Range(s))
  BY <1>3, PrecedesConcat
<1>6. \A k : Msg(k, q) \in Range(s) => q = r
  <2>1. \A k : Msg(k, q).rid = q
    BY DEF Msg
  <2> QED
    BY <1>2, <2>1
<1>7. New(w, q)' => New(w, q) \/ (q = r /\ r \in Before /\ r \notin Before')
  BY <1>2, <1>3, <1>4, <1>6 DEF New
<1>8. Leaving(w, q) => Leaving(w, q)'
  BY <1>2, <1>3, <1>4 DEF Leaving
<1>9. Met(w, q) => ~New(w, q)'
  BY <1>1, <1>7, MetIsOut DEF Row
<1>10. Polite(s, q)
  <2>1. CASE q = r
    BY <1>2, <2>1
  <2>2. CASE q # r
    BY <1>6, <2>2, PrecedesBound DEF Polite
  <2> QED
    BY <2>1, <2>2
<1>11. Msg("new", q) \in Range(s) => Msg("new", q) \notin Range(c) /\ Msg("remove", q) \notin Range(c)
  <2> SUFFICES ASSUME Msg("new", q) \in Range(s) PROVE ~New(w, q) /\ ~Leaving(w, q)
    BY <1>3 DEF New, Leaving
  <2>1. q \in Before
    BY <1>2, <1>6
  <2> QED
    BY <1>1, <2>1, MetIsOut DEF Clean, NewsFor, New
<1>12. Polite(c, q)
  BY <1>1, <1>3 DEF Row
<1>13. Polite(c \o s, q)
  BY <1>5, <1>10, <1>11, <1>12 DEF Polite
<1> QED
  BY <1>2, <1>3, <1>7, <1>8, <1>9, <1>13

\* A request that the conductor keeps, and that nothing is said of.
LEMMA RemainsRow ==
    ASSUME Barrier, Lined, NEW r, Conducts(r), forced \subseteq forced', NEW w \in Workers, NEW q \in Rids, Hears(q), CondAs(q)
    PROVE  Row(w, q)'
<1>1. Shaped /\ Rows /\ Row(w, q) /\ Clean(q) /\ Untouched
  BY ConductsUntouched DEF Barrier, Lined, Rows, Kept
<1>2. /\ Polite(fromC'[w], q) /\ (Met(w, q) => ~New(w, q)')
      /\ New(w, q)' => New(w, q) \/ q \in Before
      /\ Leaving(w, q) => Leaving(w, q)'
  BY <1>1, ConductsMail
<1>3. /\ Leaving(w, q)' => Leaving(w, q)
      /\ NewsFor(w, q)' => NewsFor(w, q)
      /\ Ending(q)' => Ending(q)
  BY <1>1, Cast, ConductsLocal DEF Hears, NoRemoval, NoNews, Leaving, Local
<1>4. New(w, q)' => New(w, q)
  BY <1>1, <1>2, <1>3 DEF Clean, NewsFor, New
<1>5. DoneBy(w, q)' => DoneBy(w, q)
  BY <1>1, Cast, ConductsSaid DEF DoneBy
<1>6. Running(q)' /\ w \in reported'[q] => Met(w, q)
  BY <1>1 DEF CondAs, Running, Row
<1>7. q \in draining' /\ w \notin expected'[q] => Known(w, q)
  <2>1. Quitted(w, q) => Known(w, q)
    BY DEF Quitted, Known, Met
  <2> QED
    BY <1>1, <2>1, Cast DEF CondAs, Row
<1>8. Leaving(w, q)' /\ q \notin forced' => Known(w, q)
  BY <1>1, <1>3 DEF Row
<1>9. Ending(q)' /\ New(w, q)' => Leaving(w, q)'
  BY <1>1, <1>2, <1>3, <1>4 DEF Row
<1> QED
  BY <1>1, <1>2, <1>5, <1>6, <1>7, <1>8, <1>9, UntouchedRow

LEMMA BecomesRow ==
    ASSUME Barrier, Lined, NEW r, Conducts(r), Becomes(r), forced \subseteq forced', NEW w \in Workers
    PROVE  Row(w, r)'
<1>1. Shaped /\ Rows /\ r \in Rids /\ Row(w, r) /\ Clean(r) /\ RemovedLate(r) /\ Untouched
  BY ConductsUntouched DEF Barrier, Lined, Rows, Kept, Conducts
<1>2. /\ Polite(fromC'[w], r) /\ (Met(w, r) => ~New(w, r)')
      /\ DoneBy(w, r)' => DoneBy(w, r)
  BY <1>1, Cast, ConductsMail, ConductsSaid DEF DoneBy
<1>3. Leaving(w, r) => r \notin Alive
  <2>1. Leaving(w, r) => Ending(r)
    BY Cast DEF Leaving, Ending
  <2> QED
    BY <1>1, <2>1 DEF RemovedLate
<1>4. requests \subseteq Alive /\ Before \subseteq Alive /\ requests' \subseteq Alive'
  BY DEF Alive
<1>5. ASSUME Running(r)' /\ w \in reported'[r] => Met(w, r),
             r \in draining' /\ w \notin expected'[r] => Known(w, r),
             Leaving(w, r)' /\ r \notin forced' => Known(w, r),
             Ending(r)' /\ New(w, r)' => Leaving(w, r)'
      PROVE  Row(w, r)'
  BY <1>1, <1>2, <1>5, UntouchedRow
<1>6. ASSUME r \in Alive, NoRemoval(r) PROVE ~Leaving(w, r)' /\ ~Ending(r)'
  <2>1. ~Ending(r)'
    BY <1>1, <1>6, StaysEnding
  <2>2. ~Leaving(w, r)'
    BY <1>3, <1>6, Cast DEF NoRemoval, Leaving
  <2> QED
    BY <2>1, <2>2
<1>7. CASE Remains(r)
  BY <1>1, <1>7, RemainsRow DEF Remains
<1>8. CASE Entered(r)
  <2>1. reported'[r] = {} /\ r \notin draining' /\ NoRemoval(r) /\ r \in Alive
    BY <1>1, <1>4, <1>8 DEF Entered, Clean
  <2> QED
    BY <1>5, <1>6, <2>1
<1>9. CASE Dropped(r)
  <2>1. r \notin requests' /\ r \notin draining' /\ r \in Alive /\ fromC'[w] = fromC[w]
    BY <1>4, <1>9 DEF Dropped
  <2>2. ~New(w, r)' /\ ~Leaving(w, r)'
    BY <1>1, <1>3, <1>9, <2>1 DEF Dropped, Clean, NewsFor, New, Leaving
  <2> QED
    BY <1>5, <2>1, <2>2 DEF Running
<1>10. CASE Barred(r)
  <2>1. r \in Alive /\ NoRemoval(r) /\ ~Running(r)'
    BY <1>10 DEF Barred, Running
  <2>2. Spared(w, r) => Known(w, r)
    BY <1>1, Cast DEF Spared, Excused, Quitted, Row, Known, Met
  <2>3. w \notin expected'[r] => Known(w, r)
    BY <1>10, <2>2, Cast DEF Barred
  <2> QED
    BY <1>5, <1>6, <2>1, <2>3
<1>11. CASE Finished(r)
  <2>1. ~Running(r)' /\ r \notin draining' /\ Leaving(w, r)'
    BY <1>4, <1>11 DEF Finished, Running, Leaving
  <2>2. Spared(w, r) => Known(w, r)
    BY <1>1, Cast DEF Spared, Excused, Quitted, Row, Known, Met
  <2>3. r \notin forced' => Known(w, r)
    BY <1>11, <2>2, Cast DEF Finished
  <2> QED
    BY <1>5, <2>1, <2>3
<1>12. CASE Passes(r)
  <2>1. r \in Alive /\ NoRemoval(r) /\ r \notin draining' /\ reported'[r] = {}
    BY <1>4, <1>12 DEF Passes, Running
  <2> QED
    BY <1>5, <1>6, <2>1
<1>13. CASE Reports(r)
  <2>1. r \in Alive /\ r \notin draining' /\ Running(r) /\ fromC' = fromC
    BY <1>4, <1>13 DEF Reports, Running
  <2>2. NoRemoval(r)
    BY <2>1 DEF NoRemoval
  <2>3. PICK v \in Workers : /\ toC[v] # <<>> /\ Head(toC[v]) = Msg("done", r)
                             /\ reported'[r] = reported[r] \cup {v}
    BY <1>13 DEF Reports
  <2>4. DoneBy(v, r)
    <3>1. toC[v] \in Seq(Notes)
      BY <1>1, Cast DEF Shaped
    <3> QED
      BY <2>3, <3>1, RangeTail DEF DoneBy
  <2>5. w \in reported'[r] => Met(w, r)
    BY <1>1, <2>1, <2>3, <2>4 DEF Row
  <2> QED
    BY <1>5, <1>6, <2>1, <2>2, <2>5
<1> QED
  BY <1>7, <1>8, <1>9, <1>10, <1>11, <1>12, <1>13 DEF Becomes

LEMMA ForcedGrows == ASSUME ConductorNext \/ \E r \in Rids : ExpireDrain(r) PROVE forced \subseteq forced'
<1>1. ASSUME ReceiveNew \/ AdmitWaiting \/ ReceiveAbort PROVE forced' = forced
  BY <1>1 DEF ReceiveNew, AdmitWaiting, ReceiveAbort
<1>2. ASSUME NEW e \in Entities, ReceiveReadsDone(e) PROVE forced' = forced
  BY <1>2 DEF ReceiveReadsDone
<1>3. ASSUME NEW w \in Workers, ReceiveFail(w) \/ ReceiveDone(w) PROVE forced' = forced
  BY <1>3 DEF ReceiveFail, ReceiveDone, hist
<1>4. ASSUME NEW r \in Rids, Advance(r) \/ ExpireEarly(r) PROVE forced' = forced
  BY <1>4 DEF Advance, ExpireEarly, hist
<1>5. ASSUME NEW r \in Rids, ExpireDrain(r) PROVE forced \subseteq forced'
  BY <1>5 DEF ExpireDrain
<1> QED
  BY <1>1, <1>2, <1>3, <1>4, <1>5 DEF ConductorNext

LEMMA ConductorLined ==
    ASSUME Inv, Barrier, Lined, ConductorNext \/ \E r \in Rids : ExpireDrain(r)
    PROVE  Lined'
<1>1. ConductorMoves /\ forced \subseteq forced'
  BY ConductorSteps, ForcedGrows
<1>2. CASE UNCHANGED barrierVars
  BY <1>2, IdleLocal, ServesLined
<1>3. ASSUME NEW r, Conducts(r), Becomes(r) PROVE Lined'
  <2>1. ASSUME NEW w \in Workers, NEW q \in Rids PROVE Row(w, q)' /\ (New(w, q)' => New(w, q) \/ q \in Before)
    <3>1. New(w, q)' => New(w, q) \/ q \in Before
      BY <1>3, ConductsMail DEF Lined
    <3>2. CASE q = r
      BY <1>1, <1>3, <3>1, <3>2, BecomesRow
    <3>3. CASE q # r
      <4>1. Hears(q) /\ CondAs(q)
        BY <1>3, <3>3 DEF Conducts, Posts
      <4> QED
        BY <1>1, <1>3, <3>1, <4>1, RemainsRow
    <3> QED
      BY <3>2, <3>3
  <2>2. Untouched /\ \A q \in Rids : q \in Before' => q \in Before
    BY <1>3, ConductsUntouched DEF Conducts
  <2> QED
    BY <1>1, <2>1, <2>2, UntouchedLined
<1> QED
  BY <1>1, <1>2, <1>3 DEF ConductorMoves

-----------------------------------------------------------------------------
(* Every reachable state *)

LEMMA PrecedesNone == ASSUME NEW x, NEW y PROVE ~Precedes(<<>>, x, y)
<1>1. <<>> \in Seq({}) /\ ~(Len(<<>>) > 1)
  OBVIOUS
<1> QED
  BY <1>1, PrecedesBound

LEMMA LinedBegins == Init => Lined
<1> SUFFICES ASSUME Init PROVE Lined
  OBVIOUS
<1>1. Fitted /\ requests = {} /\ draining = {}
  BY DEF Init, Fitted
<1>2. /\ \A e \in Entities : torn[e] = {} /\ fromC[e] = <<>> /\ toC[e] = <<>> /\ drain[e] = {} /\ acked[e] = {}
      /\ \A w \in Workers : /\ fwd[w] = <<>> /\ tpq[w] = <<>> /\ freed[w] = <<>> /\ pendRemove[w] = <<>>
                            /\ held[w] = {} /\ spec[w] = {} /\ parked[w] = {} /\ pendDrain[w] = {}
                            /\ \A r \in Rids : work[w][r] = "none"
  BY DEF Init
<1>3. Range(<<>>) = {} /\ (\A x, y : ~Precedes(<<>>, x, y)) /\ (\A w \in Workers : w \in Entities)
  BY RangeOne, PrecedesNone, Cast
<1>4. ASSUME NEW w \in Workers PROVE NoDup(pendRemove[w]) /\ (Leads(w) => Alone(w))
  <2>1. Len(<<>>) = 0
    OBVIOUS
  <2> QED
    BY <1>2, <2>1 DEF NoDup, Alone
<1>5. ASSUME NEW w \in Workers, NEW r \in Rids PROVE Row(w, r)
  <2>1. ~Ending(r)
    BY <1>2, <1>3 DEF Ending, Due
  <2>2. Polite(fromC[w], r) /\ ~New(w, r) /\ ~Leaving(w, r) /\ ~DoneBy(w, r)
    BY <1>2, <1>3 DEF Polite, New, Leaving, DoneBy
  <2> QED
    BY <1>1, <1>2, <1>3, <2>1, <2>2 DEF Row, Manned, Running
<1>6. ASSUME NEW f \in Workers PROVE Line(f)
  <2>1. Ordered(f)
    BY <1>2, <1>3 DEF Ordered, InLine, Ahead, Freed, Deferred, Stands, Comes
  <2>2. ASSUME NEW r \in Rids PROVE Following(f, r)
    <3>1. ~Drained(f, r) /\ ~Over(f, r)
      BY <1>2, <1>3 DEF Drained, Over
    <3>2. ~Warned(f, r) /\ ~Overtaken(f, r)
      BY <1>2, <1>3, <3>1 DEF Warned, Overtaken
    <3> QED
      BY <3>2 DEF Following
  <2> QED
    BY <2>1, <2>2 DEF Line
<1> QED
  BY <1>1, <1>4, <1>5, <1>6 DEF Lined, Rows

LEMMA LinedStep == Inv /\ Barrier /\ Lined /\ [Next]_vars => Lined'
<1> SUFFICES ASSUME Inv, Barrier, Lined, [Next]_vars PROVE Lined'
  OBVIOUS
<1>1. CASE ConductorNext \/ \E r \in Rids : ExpireDrain(r)
  BY <1>1, ConductorLined
<1>2. CASE ~ConductorNext /\ \A r \in Rids : ~ExpireDrain(r)
  <2>1. Shaped /\ Fitted /\ Rows /\ \A r \in Rids : Reading(r)
    BY DEF Barrier, Kept, Lined
  <2>2. \A q \in Rids : Local(q)
    BY <1>2, LocalSteps
  <2>3. ASSUME NEW w \in Workers, WorkerNext(w) \/ \E r \in Rids : StepFails(w, r) \/ ReadFails(w, r)
        PROVE  Lined'
    <3>1. PICK r : Acts(w, r)
      BY <2>1, <2>3, WorkerActs
    <3>2. \E q : Works(w, q)
      BY <2>1, <2>3, WorkerWorks, TurnWorks
    <3>3. UNCHANGED condUsed
      BY <3>2 DEF Works
    <3> QED
      BY <2>2, <3>1, <3>3, ActsLined
  <2>4. CASE UNCHANGED barrierVars \/ \E r : Serves(r)
    BY <2>2, <2>4, ServesLined
  <2>5. CASE ApiNext
    <3>1. UNCHANGED barrierVars \/ \E r : Serves(r)
      BY <2>1, <2>5, IdleSteps, ApiResultServes, PruneServes DEF ApiNext
    <3> QED
      BY <2>4, <3>1
  <2>6. CASE DataNext
    <3>1. \E r : Serves(r)
      BY <2>1, <2>6, DataAbortServes, DataReleaseServes, DataResultServes, DataReadEndsServes,
         DataInputServes, DataPreparedServes, DataReceiveServes DEF DataNext
    <3> QED
      BY <2>4, <3>1
  <2>7. CASE Environment
    <3>1. CASE \E r \in Rids : Submit(r) \/ DataAppend(r) \/ DataResultFails(r) \/ DataReadFails(r)
      BY <2>1, <2>4, <3>1, SubmitServes, DataAppendServes, DataFailsServes
    <3>2. CASE WorkerDies \/ \E r \in Rids : ClientAborts(r) \/ ServerFails(r)
      BY <2>4, <3>2, IdleSteps
    <3> QED
      BY <1>2, <2>3, <2>7, <3>1, <3>2 DEF Environment
  <2>8. CASE UNCHANGED vars
    BY <2>4, <2>8, IdleSteps
  <2> QED
    BY <1>2, <2>3, <2>5, <2>6, <2>7, <2>8 DEF Next
<1> QED
  BY <1>1, <1>2

LEMMA LinedHolds == Spec => [](Inv /\ Barrier /\ Lined)
<1>1. Init => Inv /\ Barrier /\ Lined
  BY Begins, BarrierBegins, LinedBegins
<1>2. Inv /\ Barrier /\ Lined /\ [Next]_vars => (Inv /\ Barrier /\ Lined)'
  BY NextKeeps, StutterKeeps, BarrierStep, LinedStep
<1> QED
  BY <1>1, <1>2, PTL DEF Spec

(***************************************************************************)
(* Once a follower has removed a request, no step that rank 0 sent and the *)
(* follower has yet to run names it: the follower does not wait for good   *)
(* in pop_ready_rids, unless a deadline forced the removal.                *)
(***************************************************************************)
THEOREM NoStepIsLeft == Spec => []StepsNameHeld
<1>1. Inv /\ Barrier /\ Lined => StepsNameHeld
  <2> SUFFICES ASSUME Inv, Barrier, Lined, NEW w \in Workers, NEW r \in torn[w] \ forced
               PROVE  Steps(r) \cap (Range(tpq[w]) \cup Range(fwd[w])) = {}
    BY DEF StepsNameHeld, Steps
  <2>1. CASE Leads(w)
    <3>1. fwd[w] = <<>> /\ tpq[w] = <<>>
      BY <2>1 DEF Lined, Rows, Alone
    <3> QED
      BY <3>1, RangeOne
  <2>2. CASE ~Leads(w)
    <3>1. r \in Rids
      BY Cast DEF Barrier, Shaped
    <3>2. ~Overtaken(w, r) /\ Over(w, r)
      BY <2>2, <3>1 DEF Lined, Line, Following, Over
    <3> QED
      BY <3>2 DEF Overtaken
  <2> QED
    BY <2>1, <2>2
<1> QED
  BY <1>1, LinedHolds, PTL

(***************************************************************************)
(* A follower frees what rank 0 has freed, in rank 0's order, whatever it  *)
(* defers in between (_remove_request, "behind"), so that the free lists   *)
(* of the ranks hand out the same pages, unless a deadline forced it.      *)
(***************************************************************************)
THEOREM RanksFreeAlike == Spec => []SameOrder
<1>1. Lined => SameOrder
  <2> SUFFICES ASSUME Lined, NEW w \in Workers, NEW r \in Range(freed[w]) \ forced
               PROVE  /\ r \in Range(freed[Leader[w]])
                      /\ \A q \in Range(freed[w]) \ forced :
                           Precedes(freed[w], q, r) => Precedes(freed[Leader[w]], q, r)
    BY DEF SameOrder
  <2>1. CASE Leads(w)
    BY <2>1 DEF Leads
  <2>2. CASE ~Leads(w)
    <3>1. Ordered(w) /\ Range(freed[w]) \subseteq Rids
      BY <2>2, RangeIsImage DEF Lined, Line, Fitted
    <3> QED
      BY <3>1 DEF Ordered, InLine, Freed, Ahead
  <2> QED
    BY <2>1, <2>2
<1> QED
  BY <1>1, LinedHolds, PTL

-----------------------------------------------------------------------------
(* Every variable has its type *)

Plain ==
    /\ done \subseteq Rids /\ counts \subseteq Rids /\ errors \subseteq Rids
    /\ live \subseteq Rids /\ routed \subseteq Rids /\ completed \subseteq Rids
    /\ ended \subseteq Rids /\ forced \subseteq Rids
    /\ passes \in [Rids -> 0..MaxPasses] /\ up \in BOOLEAN

plainVars == <<done, counts, errors, live, routed, completed, ended, forced, passes, up>>

LEMMA PlainSame == ASSUME Plain, UNCHANGED plainVars PROVE Plain'
  BY DEF Plain, plainVars

LEMMA WorkersPlain ==
    ASSUME NEW w \in Workers, WorkerNext(w) \/ \E r \in Rids : StepFails(w, r) \/ ReadFails(w, r)
    PROVE  UNCHANGED plainVars
<1> USE DEF plainVars, workerUnchanged, apiVars, dataVars, streamVars, condVars, outVars, hist
<1>1. CASE ApplyRemove(w) \/ ApplyDrain(w) \/ WorkerReceive(w) \/ FollowerReceive(w) \/ FollowerRemoves(w)
  BY <1>1 DEF ApplyRemove, ApplyDrain, WorkerReceive, FollowerReceive, FollowerRemoves
<1>2. ASSUME NEW r \in Rids, DrainTurn(w, r) \/ StepStarts(w, r) \/ StepFollows(w, r) \/ StepEnds(w, r)
      PROVE  UNCHANGED plainVars
  BY <1>2 DEF DrainTurn, StepStarts, StepFollows, StepEnds
<1>3. ASSUME NEW r \in Rids, \/ SpecFollows(w, r) \/ SpecEnds(w, r) \/ ReadEnds(w, r) \/ WorkerItem(w, r)
                             \/ StepFails(w, r) \/ ReadFails(w, r)
      PROVE  UNCHANGED plainVars
  BY <1>3 DEF SpecFollows, SpecEnds, ReadEnds, WorkerItem, StepFails, ReadFails
<1> QED
  BY <1>1, <1>2, <1>3 DEF WorkerNext

LEMMA ServerPlain ==
    ASSUME Inv, Plain, ApiNext \/ \E r \in Rids : Submit(r) \/ ClientAborts(r) \/ ServerFails(r)
    PROVE  Plain'
<1> USE DEF Plain, dataVars, streamVars, condVars, outVars, apiVars, hist
<1>1. pend \subseteq Rids
  BY DEF Inv, Typed
<1>2. ASSUME NEW r \in Rids, Submit(r) \/ ClientAborts(r) \/ ServerFails(r) PROVE Plain'
  BY <1>2 DEF Submit, ClientAborts, ServerFails
<1>3. ASSUME NEW r \in Rids, ClientLeaves(r) \/ ApiResult(r) \/ ApiError(r) \/ Prune(r) PROVE Plain'
  BY <1>3 DEF ClientLeaves, ApiResult, ApiError, Prune
<1>4. CASE ApiVerdict
  BY <1>1, <1>4 DEF ApiVerdict
<1>5. CASE ConductorExited
  BY <1>1, <1>5 DEF ConductorExited
<1> QED
  BY <1>2, <1>3, <1>4, <1>5 DEF ApiNext

LEMMA DataPlain ==
    ASSUME Inv, Plain,
           DataNext \/ \E r \in Rids : DataAppend(r) \/ DataResultFails(r) \/ DataReadFails(r)
    PROVE  Plain'
<1> USE DEF Plain, dataVars, streamVars, condVars, outVars, apiVars, hist
<1>1. ASSUME NEW r \in Rids, DataAbort(r) \/ DataRelease(r) \/ DataResult(r) \/ DataReadEnds(r) \/ DataAppend(r)
      PROVE  Plain'
  BY <1>1 DEF DataAbort, DataRelease, DataResult, DataReadEnds, DataAppend
<1>2. ASSUME NEW r \in Rids, DataResultFails(r) \/ DataReadFails(r) PROVE Plain'
  BY <1>2 DEF DataResultFails, DataReadFails, DataFails
<1>3. CASE DataInput
  <2>1. Head(inq) \in Rids
    BY <1>3 DEF DataInput, Inv, Typed
  <2> QED
    BY <1>3, <2>1 DEF DataInput, FinishInput, InputFailed, DataForget
<1>4. CASE DataPrepared
  <2>1. Head(prep) \in Rids
    BY <1>4 DEF DataPrepared, Inv, Typed
  <2> QED
    BY <1>4, <2>1 DEF DataPrepared, FinishInput, InputFailed, DataForget
<1>5. CASE DataReceive
  BY <1>5 DEF DataReceive, DataForget
<1> QED
  BY <1>1, <1>2, <1>3, <1>4, <1>5 DEF DataNext

LEMMA ConductorPlain ==
    ASSUME Inv, Plain, ConductorNext \/ WorkerDies \/ \E r \in Rids : ExpireDrain(r)
    PROVE  Plain'
<1> USE DEF Plain, dataVars, streamVars, outVars, apiVars
<1>1. CASE ReceiveNew \/ AdmitWaiting \/ ReceiveAbort
  BY <1>1 DEF ReceiveNew, AdmitWaiting, ReceiveAbort
<1>2. ASSUME NEW e \in Entities, ReceiveReadsDone(e) PROVE Plain'
  BY <1>2 DEF ReceiveReadsDone
<1>3. ASSUME NEW w \in Workers, ReceiveFail(w) PROVE Plain'
  BY <1>3 DEF ReceiveFail
<1>4. ASSUME NEW w \in Workers, ReceiveDone(w) PROVE Plain'
  <2>1. requests \subseteq Rids
    BY DEF Inv, Typed
  <2> QED
    BY <1>4, <2>1 DEF ReceiveDone, Running, hist
<1>5. ASSUME NEW r \in Rids, Advance(r) PROVE Plain'
  <2>1. /\ ended' \subseteq Rids /\ UNCHANGED <<done, counts, errors, live, routed, forced, up>>
    BY <1>5 DEF Advance
  <2>2. CASE UNCHANGED <<passes, completed>>
    BY <2>1, <2>2
  <2>3. CASE NextPass(r)
    <3>1. passes[r] + 1 \in 0..MaxPasses /\ completed' = completed
      BY <2>3, TeardownAssumption DEF NextPass
    <3> QED
      BY <2>1, <2>3, <3>1 DEF NextPass
  <2>4. CASE completed' = completed \cup {r} /\ UNCHANGED passes
    BY <2>1, <2>4
  <2> QED
    BY <1>5, <2>2, <2>3, <2>4 DEF Advance, Skip, ForwardRaises, RequestDone, DoneRaises
<1>6. ASSUME NEW r \in Rids, ExpireEarly(r) PROVE Plain'
  BY <1>6 DEF ExpireEarly, hist
<1>7. ASSUME NEW r \in Rids, ExpireDrain(r) PROVE Plain'
  BY <1>7 DEF ExpireDrain
<1>8. CASE WorkerDies
  BY <1>8 DEF WorkerDies
<1> QED
  BY <1>1, <1>2, <1>3, <1>4, <1>5, <1>6, <1>7, <1>8 DEF ConductorNext

LEMMA PlainStep == ASSUME Inv, Plain, [Next]_vars PROVE Plain'
<1>1. CASE UNCHANGED vars
  BY <1>1, PlainSame DEF vars, plainVars, dataVars, streamVars, condVars, outVars, apiVars, hist
<1>2. CASE \E w \in Workers : WorkerNext(w)
  BY <1>2, WorkersPlain, PlainSame
<1>3. CASE Environment
  BY <1>3, WorkersPlain, PlainSame, ServerPlain, DataPlain, ConductorPlain DEF Environment
<1> QED
  BY <1>1, <1>2, <1>3, ServerPlain, DataPlain, ConductorPlain DEF Next

\* What each process hears is of the kinds that its sender sends.
ToConductor == {"new", "abort", "reads_done", "fail", "done"}
FromConductor == {"new", "inputs", "drain", "remove", "route", "unroute"}
ToClients == {"complete", "failed"}
FromRank0 == {"step", "spec", "drain", "remove"}
Turns == {"step", "spec", "remove"}

LEMMA MsgTyped == ASSUME NEW K, NEW k \in K, NEW r \in Rids PROVE Msg(k, r) \in [kind : K, rid : Rids]
  BY DEF Msg

LEMMA MessagesTyped ==
    ASSUME NEW K, NEW s \in Messages(K)
    PROVE  /\ \A m \in [kind : K, rid : Rids] : Append(s, m) \in Messages(K)
           /\ s # <<>> => Tail(s) \in Messages(K) /\ Head(s) \in [kind : K, rid : Rids]
<1>1. PICK S : S = [kind : K, rid : Rids]
  OBVIOUS
<1>2. Messages(K) = Seq(S)
  BY <1>1 DEF Messages
<1>3. s \in Seq(S)
  BY <1>2
<1>4. (\A m \in S : Append(s, m) \in Seq(S)) /\ (s # <<>> => Tail(s) \in Seq(S) /\ Head(s) \in S)
  BY <1>3
<1> QED
  BY <1>1, <1>2, <1>4

LEMMA AppendTyped ==
    ASSUME NEW D, NEW K, NEW f \in [D -> Messages(K)], NEW e, NEW m \in [kind : K, rid : Rids]
    PROVE  [f EXCEPT ![e] = Append(@, m)] \in [D -> Messages(K)]
<1>1. \A d \in D : Append(f[d], m) \in Messages(K)
  BY MessagesTyped
<1> QED
  BY <1>1

LEMMA TailTyped ==
    ASSUME NEW D, NEW K, NEW f \in [D -> Messages(K)], NEW e \in D, f[e] # <<>>
    PROVE  [f EXCEPT ![e] = Tail(@)] \in [D -> Messages(K)] /\ Head(f[e]) \in [kind : K, rid : Rids]
<1>1. Tail(f[e]) \in Messages(K) /\ Head(f[e]) \in [kind : K, rid : Rids]
  BY MessagesTyped
<1> QED
  BY <1>1

LEMMA ForwardTyped ==
    ASSUME fwd \in [Workers -> Messages(FromRank0)], NEW w, NEW k \in FromRank0, NEW r \in Rids, Forward(w, k, r)
    PROVE  fwd' \in [Workers -> Messages(FromRank0)]
<1>1. Msg(k, r) \in [kind : FromRank0, rid : Rids]
  BY MsgTyped
<1>2. \A f \in Workers : Append(fwd[f], Msg(k, r)) \in Messages(FromRank0)
  BY <1>1, MessagesTyped
<1> QED
  BY <1>2 DEF Forward

LEMMA PostTyped ==
    ASSUME fromC \in [Entities -> Messages(FromConductor)],
           NEW sent \in [Entities -> Messages(FromConductor)], Post(sent)
    PROVE  fromC' \in [Entities -> Messages(FromConductor)]
<1>1. \A e \in Entities : fromC[e] \o sent[e] \in Messages(FromConductor)
  <2> SUFFICES ASSUME NEW e \in Entities PROVE fromC[e] \o sent[e] \in Messages(FromConductor)
    OBVIOUS
  <2>1. fromC[e] \in Messages(FromConductor) /\ sent[e] \in Messages(FromConductor)
    OBVIOUS
  <2> QED
    BY <2>1 DEF Messages
<1> QED
  BY <1>1 DEF Post

LEMMA ThenTyped ==
    ASSUME NEW a \in [Entities -> Messages(FromConductor)], NEW b \in [Entities -> Messages(FromConductor)]
    PROVE  Then(a, b) \in [Entities -> Messages(FromConductor)]
<1>1. \A e \in Entities : a[e] \o b[e] \in Messages(FromConductor)
  <2> SUFFICES ASSUME NEW e \in Entities PROVE a[e] \o b[e] \in Messages(FromConductor)
    OBVIOUS
  <2>1. a[e] \in Messages(FromConductor) /\ b[e] \in Messages(FromConductor)
    OBVIOUS
  <2> QED
    BY <2>1 DEF Messages
<1> QED
  BY <1>1 DEF Then

LEMMA SentTyped ==
    ASSUME NEW k \in FromConductor, NEW r \in Rids
    PROVE  /\ Nothing \in [Entities -> Messages(FromConductor)]
           /\ ToAll(k, r) \in [Entities -> Messages(FromConductor)]
           /\ ToWorkers(k, r) \in [Entities -> Messages(FromConductor)]
           /\ ToData(k, r) \in [Entities -> Messages(FromConductor)]
           /\ \A S : [e \in Entities |-> IF e \in S THEN <<Msg(k, r)>> ELSE <<>>] \in [Entities -> Messages(FromConductor)]
<1>1. <<>> \in Messages(FromConductor) /\ <<Msg(k, r)>> \in Messages(FromConductor)
  BY MsgTyped DEF Messages
<1> QED
  BY <1>1 DEF Nothing, ToAll, ToWorkers, ToData

Spoken ==
    /\ toC \in [Entities -> Messages(ToConductor)] /\ fromC \in [Entities -> Messages(FromConductor)]
    /\ toApi \in Messages(ToClients)
    /\ fwd \in [Workers -> Messages(FromRank0)] /\ tpq \in [Workers -> Messages(Turns)]

LEMMA SpokenSame == ASSUME Spoken, UNCHANGED <<toC, fromC, toApi, fwd, tpq>> PROVE Spoken'
  BY DEF Spoken

LEMMA WorksSpoken ==
    ASSUME Shaped, Spoken, NEW w \in Workers, NEW r, Works(w, r), toApi' = toApi
    PROVE  Spoken'
<1>1. r \in Rids /\ w \in Entities
  BY Cast DEF Works
<1>2. toC' \in [Entities -> Messages(ToConductor)]
  <2>1. CASE toC' = toC
    BY <2>1 DEF Spoken
  <2>2. ASSUME NEW k \in {"reads_done", "fail", "done"}, Tell(w, k, r) PROVE toC' \in [Entities -> Messages(ToConductor)]
    <3>1. Msg(k, r) \in [kind : ToConductor, rid : Rids]
      BY <1>1, <2>2, MsgTyped DEF ToConductor
    <3> QED
      BY <2>2, <3>1, AppendTyped DEF Spoken, Tell
  <2> QED
    BY <2>1, <2>2 DEF Works, Handled
<1>3. fromC' \in [Entities -> Messages(FromConductor)]
  <2>1. fromC' = fromC \/ (fromC[w] # <<>> /\ fromC' = [fromC EXCEPT ![w] = Tail(@)])
    BY DEF Works, Marked
  <2>2. CASE fromC' = fromC
    BY <2>2 DEF Spoken
  <2>3. CASE fromC[w] # <<>> /\ fromC' = [fromC EXCEPT ![w] = Tail(@)]
    BY <1>1, <2>3, TailTyped DEF Spoken
  <2> QED
    BY <2>1, <2>2, <2>3
<1>4. fwd' \in [Workers -> Messages(FromRank0)]
  <2>1. CASE fwd' = fwd
    BY <2>1 DEF Spoken
  <2>2. CASE fwd[w] # <<>> /\ fwd' = [fwd EXCEPT ![w] = Tail(@)]
    BY <2>2, TailTyped DEF Spoken
  <2>3. ASSUME NEW k \in FromRank0, Forward(w, k, r) PROVE fwd' \in [Workers -> Messages(FromRank0)]
    BY <1>1, <2>3, ForwardTyped DEF Spoken
  <2> QED
    BY <2>1, <2>2, <2>3 DEF Works, Marked, FromRank0
<1>5. tpq' \in [Workers -> Messages(Turns)]
  <2>1. CASE tpq' = tpq
    BY <2>1 DEF Spoken
  <2>2. CASE tpq[w] # <<>> /\ tpq' = [tpq EXCEPT ![w] = Tail(@)]
    BY <2>2, TailTyped DEF Spoken
  <2>3. ASSUME NEW k \in Turns, tpq' = [tpq EXCEPT ![w] = Append(@, Msg(k, r))] PROVE tpq' \in [Workers -> Messages(Turns)]
    <3>1. Msg(k, r) \in [kind : Turns, rid : Rids]
      BY <1>1, MsgTyped
    <3> QED
      BY <2>3, <3>1, AppendTyped DEF Spoken
  <2> QED
    BY <2>1, <2>2, <2>3 DEF Works, Marked, Turns
<1> QED
  BY <1>2, <1>3, <1>4, <1>5 DEF Spoken

LEMMA ConcatTyped ==
    ASSUME NEW K, NEW s \in Messages(K), NEW t \in Messages(K)
    PROVE  s \o t \in Messages(K)
<1>1. PICK S : S = [kind : K, rid : Rids]
  OBVIOUS
<1>2. Messages(K) = Seq(S)
  BY <1>1 DEF Messages
<1> QED
  BY <1>2

LEMMA ShortTyped ==
    ASSUME NEW K
    PROVE  <<>> \in Messages(K) /\ \A k \in K : \A r \in Rids : <<Msg(k, r)>> \in Messages(K)
  BY MsgTyped DEF Messages

\* The data worker speaks to the conductor.
LEMMA DataTellTyped ==
    ASSUME Spoken, NEW r \in Rids, NEW first \in Messages(ToConductor), DataTell(r, first)
    PROVE  toC' \in [Entities -> Messages(ToConductor)]
<1>1. PICK s : s = toC[Data]
  OBVIOUS
<1>2. PICK last : last = IF r \in reads[Data] \/ r \in acked[Data] THEN <<>> ELSE <<Msg("reads_done", r)>>
  OBVIOUS
<1>3. s \in Messages(ToConductor) /\ last \in Messages(ToConductor)
  BY <1>1, <1>2, Cast, ShortTyped DEF Spoken, ToConductor
<1>4. s \o first \o last \in Messages(ToConductor)
  <2>1. s \o first \in Messages(ToConductor)
    BY <1>3, ConcatTyped
  <2> QED
    BY <1>3, <2>1, ConcatTyped
<1>5. toC' = [toC EXCEPT ![Data] = s \o first \o last]
  BY <1>1, <1>2 DEF DataTell
<1> QED
  BY <1>4, <1>5 DEF Spoken

LEMMA TellTyped ==
    ASSUME Spoken, NEW e, NEW k \in ToConductor, NEW r \in Rids, Tell(e, k, r)
    PROVE  toC' \in [Entities -> Messages(ToConductor)]
<1>1. Msg(k, r) \in [kind : ToConductor, rid : Rids]
  BY MsgTyped
<1> QED
  BY <1>1, AppendTyped DEF Spoken, Tell

LEMMA SendAbortTyped ==
    ASSUME Spoken, NEW r \in Rids, SendAbort(r)
    PROVE  toC' \in [Entities -> Messages(ToConductor)]
<1>1. "abort" \in ToConductor /\ <<Msg("abort", r)>> \in Messages(ToConductor)
  BY ShortTyped DEF ToConductor
<1> QED
  BY <1>1, DataTellTyped, TellTyped DEF SendAbort

LEMMA DataSpoken ==
    ASSUME Inv, Spoken,
           DataNext \/ \E r \in Rids : DataAppend(r) \/ DataResultFails(r) \/ DataReadFails(r)
    PROVE  Spoken'
<1>1. /\ toC' \in [Entities -> Messages(ToConductor)] /\ UNCHANGED <<fromC, toApi, fwd, tpq>> => Spoken'
      /\ toC' = toC => toC' \in [Entities -> Messages(ToConductor)]
  BY DEF Spoken
<1>2. "new" \in ToConductor /\ "reads_done" \in ToConductor /\ <<>> \in Messages(ToConductor)
  BY ShortTyped DEF ToConductor
<1>3. ASSUME NEW r \in Rids, DataAbort(r) \/ DataResultFails(r) \/ DataReadFails(r) PROVE Spoken'
  <2>1. UNCHANGED <<fromC, toApi, fwd, tpq>> /\ (toC' = toC \/ SendAbort(r))
    BY <1>3 DEF DataAbort, DataResultFails, DataReadFails, DataFails, workVars
  <2> QED
    BY <1>1, <2>1, SendAbortTyped
<1>4. ASSUME NEW r \in Rids, DataRelease(r) PROVE Spoken'
  <2>1. UNCHANGED <<fromC, toApi, fwd, tpq>> /\ (toC' = toC \/ DataTell(r, <<>>))
    BY <1>4 DEF DataRelease, workVars
  <2> QED
    BY <1>1, <1>2, <2>1, DataTellTyped
<1>5. ASSUME NEW r \in Rids, DataResult(r) \/ DataAppend(r) PROVE Spoken'
  BY <1>5, SpokenSame DEF DataResult, DataAppend, workVars
<1>6. ASSUME NEW r \in Rids, DataReadEnds(r) PROVE Spoken'
  <2>1. UNCHANGED <<fromC, toApi, fwd, tpq>> /\ (toC' = toC \/ Tell(Data, "reads_done", r))
    BY <1>6 DEF DataReadEnds, workVars
  <2> QED
    BY <1>1, <1>2, <2>1, TellTyped
<1>7. CASE DataInput
  <2>1. Head(inq) \in Rids
    BY <1>7 DEF DataInput, Inv, Typed
  <2>2. UNCHANGED <<fromC, toApi, fwd, tpq>> /\ (toC' = toC \/ Tell(Data, "new", Head(inq)))
    BY <1>7 DEF DataInput, FinishInput, InputFailed, workVars
  <2> QED
    BY <1>1, <1>2, <2>1, <2>2, TellTyped
<1>8. CASE DataPrepared
  <2>1. Head(prep) \in Rids
    BY <1>8 DEF DataPrepared, Inv, Typed
  <2>2. UNCHANGED <<fromC, toApi, fwd, tpq>> /\ (toC' = toC \/ Tell(Data, "new", Head(prep)))
    BY <1>8 DEF DataPrepared, FinishInput, InputFailed, workVars
  <2> QED
    BY <1>1, <1>2, <2>1, <2>2, TellTyped
<1>9. CASE DataReceive
  <2>1. /\ fromC[Data] # <<>> /\ fromC' = [fromC EXCEPT ![Data] = Tail(@)] /\ UNCHANGED <<toApi, fwd, tpq>>
        /\ toC' = toC \/ DataTell(Head(fromC[Data]).rid, <<>>)
    BY <1>9 DEF DataReceive, workVars
  <2>2. fromC' \in [Entities -> Messages(FromConductor)] /\ Head(fromC[Data]) \in [kind : FromConductor, rid : Rids]
    BY <2>1, Cast, TailTyped DEF Spoken
  <2>3. Head(fromC[Data]).rid \in Rids
    BY <2>2
  <2>4. toC' \in [Entities -> Messages(ToConductor)]
    BY <1>1, <1>2, <2>1, <2>3, DataTellTyped
  <2> QED
    BY <2>1, <2>2, <2>4 DEF Spoken
<1> QED
  BY <1>3, <1>4, <1>5, <1>6, <1>7, <1>8, <1>9 DEF DataNext

LEMMA ServerSpoken ==
    ASSUME Spoken, ApiNext \/ \E r \in Rids : Submit(r) \/ ClientAborts(r) \/ ServerFails(r)
    PROVE  Spoken'
<1> USE DEF workVars
<1>1. ASSUME NEW r \in Rids, Submit(r) \/ ClientAborts(r) \/ ServerFails(r) PROVE Spoken'
  BY <1>1, SpokenSame DEF Submit, ClientAborts, ServerFails
<1>2. ASSUME NEW r \in Rids, ClientLeaves(r) \/ ApiResult(r) \/ ApiError(r) \/ Prune(r) PROVE Spoken'
  BY <1>2, SpokenSame DEF ClientLeaves, ApiResult, ApiError, Prune
<1>3. CASE ApiVerdict
  <2>1. toApi # <<>> /\ toApi' = Tail(toApi) /\ UNCHANGED <<toC, fromC, fwd, tpq>>
    BY <1>3 DEF ApiVerdict
  <2>2. Tail(toApi) \in Messages(ToClients)
    BY <2>1, MessagesTyped DEF Spoken
  <2> QED
    BY <2>1, <2>2 DEF Spoken
<1>4. CASE ConductorExited
  BY <1>4, SpokenSame DEF ConductorExited
<1> QED
  BY <1>1, <1>2, <1>3, <1>4 DEF ApiNext

\* The conductor speaks to the participants and to the API server.
Speaks ==
    /\ fromC' \in [Entities -> Messages(FromConductor)] /\ toApi' \in Messages(ToClients)

LEMMA SpeaksNot == ASSUME Spoken, UNCHANGED <<fromC, toApi>> PROVE Speaks
  BY DEF Spoken, Speaks

LEMMA SayTyped ==
    ASSUME Spoken, NEW said \in Messages(ToClients), Say(said)
    PROVE  toApi' \in Messages(ToClients)
  BY ConcatTyped DEF Spoken, Say

LEMMA FinalizeSpeaks ==
    ASSUME Spoken, NEW r \in Rids, NEW fails, NEW sent \in [Entities -> Messages(FromConductor)],
           NEW said \in Messages(ToClients), Finalize(r, fails, sent, said)
    PROVE  Speaks
<1>1. "remove" \in FromConductor /\ "failed" \in ToClients
  BY DEF FromConductor, ToClients
<1>2. Then(sent, ToAll("remove", r)) \in [Entities -> Messages(FromConductor)]
  BY <1>1, SentTyped, ThenTyped
<1>3. Append(said, Msg("failed", r)) \in Messages(ToClients)
  BY <1>1, MsgTyped, MessagesTyped
<1>4. PICK all \in Messages(ToClients) : Say(all)
  BY <1>3 DEF Finalize
<1> QED
  BY <1>2, <1>4, PostTyped, SayTyped DEF Finalize, Speaks, Spoken

LEMMA RegisterSpeaks ==
    ASSUME Spoken, NEW r \in Rids, NEW acks, NEW fails, NEW sent \in [Entities -> Messages(FromConductor)],
           NEW said \in Messages(ToClients), RegisterDraining(r, acks, fails, sent, said)
    PROVE  Speaks
<1>1. Finalize(r, fails, sent, said) \/ (Post(sent) /\ Say(said))
  BY DEF RegisterDraining
<1> QED
  BY <1>1, FinalizeSpeaks, PostTyped, SayTyped DEF Speaks, Spoken

LEMMA RemoveSpeaks ==
    ASSUME Spoken, NEW r \in Rids, NEW fails, NEW sent \in [Entities -> Messages(FromConductor)],
           NEW said \in Messages(ToClients), RemoveRequest(r, fails, sent, said)
    PROVE  Speaks
<1>1. "drain" \in FromConductor
  BY DEF FromConductor
<1>2. Then(sent, ToAll("drain", r)) \in [Entities -> Messages(FromConductor)]
  BY <1>1, SentTyped, ThenTyped
<1> QED
  BY <1>2, RegisterSpeaks DEF RemoveRequest

LEMMA RejectSpeaks == ASSUME Spoken, NEW r \in Rids, Reject(r) PROVE Speaks
<1>1. "remove" \in FromConductor /\ "failed" \in ToClients
  BY DEF FromConductor, ToClients
<1>2. ToData("remove", r) \in [Entities -> Messages(FromConductor)] /\ <<Msg("failed", r)>> \in Messages(ToClients)
  BY <1>1, SentTyped, ShortTyped
<1> QED
  BY <1>2, PostTyped, SayTyped DEF Reject, Speaks, Spoken

LEMMA AdmitSpeaks == ASSUME Spoken, NEW r \in Rids, Admit(r) PROVE Speaks
<1>1. "new" \in FromConductor /\ "route" \in FromConductor /\ <<>> \in Messages(ToClients)
  BY ShortTyped DEF FromConductor
<1>2. CASE Dispatch(r)
  <2>1. ToWorkers("new", r) \in [Entities -> Messages(FromConductor)] /\ ToData("route", r) \in [Entities -> Messages(FromConductor)]
    BY <1>1, SentTyped
  <2>2. Then(ToWorkers("new", r), ToData("route", r)) \in [Entities -> Messages(FromConductor)]
    BY <2>1, ThenTyped
  <2>3. PICK sent \in [Entities -> Messages(FromConductor)] : Post(sent)
    BY <1>2, <2>1, <2>2 DEF Dispatch
  <2> QED
    BY <1>2, <2>3, PostTyped DEF Dispatch, Speaks, Spoken
<1>3. CASE DispatchRefused(r)
  BY <1>3, RejectSpeaks DEF DispatchRefused
<1>4. CASE DispatchFails(r)
  <2>1. PICK heard \in SUBSET Workers :
            RemoveRequest(r, TRUE, [e \in Entities |-> IF e \in heard THEN <<Msg("new", r)>> ELSE <<>>], <<>>)
    BY <1>4 DEF DispatchFails
  <2>2. [e \in Entities |-> IF e \in heard THEN <<Msg("new", r)>> ELSE <<>>] \in [Entities -> Messages(FromConductor)]
    BY <1>1, SentTyped
  <2> QED
    BY <1>1, <2>1, <2>2, RemoveSpeaks
<1> QED
  BY <1>2, <1>3, <1>4 DEF Admit

LEMMA DropSpeaks == ASSUME Spoken, NEW r \in Rids, Post(ToData("remove", r)), UNCHANGED toApi PROVE Speaks
<1>1. "remove" \in FromConductor
  BY DEF FromConductor
<1>2. ToData("remove", r) \in [Entities -> Messages(FromConductor)]
  BY <1>1, SentTyped
<1> QED
  BY <1>2, PostTyped DEF Speaks, Spoken

LEMMA QuietlyTyped ==
    ASSUME NEW r \in Rids
    PROVE  /\ Nothing \in [Entities -> Messages(FromConductor)] /\ <<>> \in Messages(ToClients)
           /\ <<Msg("complete", r)>> \in Messages(ToClients)
           /\ Unroute(r) \in [Entities -> Messages(FromConductor)]
           /\ Then(Unroute(r), ToWorkers("drain", r)) \in [Entities -> Messages(FromConductor)]
<1>1. "unroute" \in FromConductor /\ "drain" \in FromConductor /\ "complete" \in ToClients
  BY DEF FromConductor, ToClients
<1>2. /\ Nothing \in [Entities -> Messages(FromConductor)] /\ ToData("unroute", r) \in [Entities -> Messages(FromConductor)]
      /\ ToWorkers("drain", r) \in [Entities -> Messages(FromConductor)]
  BY <1>1, SentTyped
<1>3. Unroute(r) \in [Entities -> Messages(FromConductor)]
  BY <1>2 DEF Unroute
<1> QED
  BY <1>1, <1>2, <1>3, ThenTyped, ShortTyped

LEMMA HearsSpeaks ==
    ASSUME Inv, Spoken, ReceiveNew \/ AdmitWaiting \/ ReceiveAbort
    PROVE  Speaks
<1>1. toC[Data] # <<>> => Head(toC[Data]).rid \in Rids
  BY Cast, TailTyped DEF Spoken
<1>2. CASE ReceiveNew
  <2>1. PICK r \in Rids : IngestRequest(r)
    BY <1>1, <1>2 DEF ReceiveNew
  <2>2. \/ Post(ToData("remove", r)) /\ UNCHANGED toApi
        \/ UNCHANGED <<fromC, toApi>> \/ Reject(r) \/ Admit(r)
    BY <2>1 DEF IngestRequest
  <2> QED
    BY <2>2, DropSpeaks, SpeaksNot, RejectSpeaks, AdmitSpeaks
<1>3. CASE AdmitWaiting
  <2>1. UNCHANGED <<fromC, toApi>> \/ (waiting # <<>> /\ Admit(Head(waiting)))
    BY <1>3 DEF AdmitWaiting
  <2>2. waiting # <<>> => Head(waiting) \in Rids
    BY DEF Inv, Typed
  <2> QED
    BY <2>1, <2>2, SpeaksNot, AdmitSpeaks
<1>4. CASE ReceiveAbort
  <2>1. PICK r \in Rids : AbortRequest(r)
    BY <1>1, <1>4 DEF ReceiveAbort
  <2>2. \/ Post(ToData("remove", r)) /\ UNCHANGED toApi
        \/ UNCHANGED <<fromC, toApi>> \/ RemoveRequest(r, FALSE, Nothing, <<>>)
    BY <2>1 DEF AbortRequest
  <2> QED
    BY <2>2, DropSpeaks, SpeaksNot, QuietlyTyped, RemoveSpeaks
<1> QED
  BY <1>2, <1>3, <1>4

LEMMA ReportSpeaks ==
    ASSUME Spoken, NEW e \in Entities,
           ReceiveReadsDone(e) \/ (e \in Workers /\ (ReceiveFail(e) \/ ReceiveDone(e)))
    PROVE  Speaks
<1>1. toC[e] # <<>>
  BY DEF ReceiveReadsDone, ReceiveFail, ReceiveDone
<1>2. PICK r \in Rids : r = Head(toC[e]).rid
  BY <1>1, TailTyped DEF Spoken
<1>3. /\ Nothing \in [Entities -> Messages(FromConductor)] /\ <<>> \in Messages(ToClients)
  BY QuietlyTyped
<1>4. \/ UNCHANGED <<fromC, toApi>> \/ Finalize(r, r \in failing, Nothing, <<>>)
      \/ RemoveRequest(r, TRUE, Nothing, <<>>)
  BY <1>2 DEF ReceiveReadsDone, ReceiveFail, ReceiveDone, ReadsDone
<1> QED
  BY <1>3, <1>4, SpeaksNot, FinalizeSpeaks, RemoveSpeaks

LEMMA AdvanceSpeaks == ASSUME Spoken, NEW r \in Rids, Advance(r) PROVE Speaks
<1>1. PICK said : said = <<Msg("complete", r)>>
  OBVIOUS
<1>2. /\ Nothing \in [Entities -> Messages(FromConductor)] /\ <<>> \in Messages(ToClients) /\ said \in Messages(ToClients)
      /\ Unroute(r) \in [Entities -> Messages(FromConductor)]
      /\ Then(Unroute(r), ToWorkers("drain", r)) \in [Entities -> Messages(FromConductor)]
  BY <1>1, QuietlyTyped
<1>3. CASE Skip(r)
  BY <1>3, SpeaksNot DEF Skip
<1>4. CASE NextPass(r)
  <2>1. "inputs" \in FromConductor
    BY DEF FromConductor
  <2>2. ToWorkers("inputs", r) \in [Entities -> Messages(FromConductor)]
    BY <2>1, SentTyped
  <2> QED
    BY <1>4, <2>2, PostTyped DEF NextPass, Speaks, Spoken
<1>5. CASE ForwardRaises(r)
  BY <1>2, <1>5, RemoveSpeaks DEF ForwardRaises
<1>6. CASE RequestDone(r)
  <2>1. \E sent \in [Entities -> Messages(FromConductor)] : RegisterDraining(r, Readers, FALSE, sent, said)
    BY <1>1, <1>2, <1>6 DEF RequestDone
  <2> QED
    BY <1>2, <2>1, RegisterSpeaks
<1>7. CASE DoneRaises(r)
  <2>1. \E fails : RemoveRequest(r, fails, Unroute(r), said)
    BY <1>1, <1>7 DEF DoneRaises
  <2> QED
    BY <1>2, <2>1, RemoveSpeaks
<1> QED
  BY <1>3, <1>4, <1>5, <1>6, <1>7 DEF Advance

LEMMA DeadSpeaks == ASSUME Inv, Spoken, WorkerDies PROVE Speaks
<1>1. PICK n, order : n = Cardinality(Unanswered) /\ order \in [1..n -> Unanswered]
                      /\ Say([i \in DOMAIN order |-> Msg("failed", order[i])])
  BY DEF WorkerDies
<1>2. Unanswered \subseteq Rids /\ n \in Nat
  <2>1. Range(waiting) \subseteq Rids /\ requests \subseteq Rids
    BY RangeIsImage DEF Inv, Typed
  <2>2. Unanswered \subseteq Rids
    BY <2>1 DEF Unanswered
  <2> QED
    BY <1>1, <2>2, TeardownAssumption, FS_Subset, FS_CardinalityType
<1>3. PICK S : S = [kind : ToClients, rid : Rids]
  OBVIOUS
<1>4. \A i \in 1..n : Msg("failed", order[i]) \in S
  BY <1>1, <1>2, <1>3, MsgTyped DEF ToClients
<1>5. [i \in DOMAIN order |-> Msg("failed", order[i])] \in Seq(S)
  BY <1>1, <1>2, <1>4
<1>6. Seq(S) = Messages(ToClients)
  BY <1>3 DEF Messages
<1>7. fromC' = fromC
  BY DEF WorkerDies
<1> QED
  BY <1>1, <1>5, <1>6, <1>7, SayTyped DEF Speaks, Spoken

LEMMA ConductorSpoken ==
    ASSUME Inv, Spoken, ConductorNext \/ WorkerDies \/ \E r \in Rids : ExpireDrain(r)
    PROVE  Spoken'
<1> USE DEF workVars
<1>1. Speaks /\ UNCHANGED <<toC, fwd, tpq>> => Spoken'
  BY DEF Speaks, Spoken
<1>2. ASSUME NEW e \in Entities, Speaks, toC[e] # <<>>, Take(e), UNCHANGED <<fwd, tpq>> PROVE Spoken'
  <2>1. toC' \in [Entities -> Messages(ToConductor)]
    BY <1>2, TailTyped DEF Spoken, Take
  <2> QED
    BY <1>2, <2>1 DEF Speaks, Spoken
<1>3. CASE ReceiveNew \/ ReceiveAbort
  BY <1>2, <1>3, HearsSpeaks, Cast DEF ReceiveNew, ReceiveAbort
<1>4. CASE AdmitWaiting
  BY <1>1, <1>4, HearsSpeaks DEF AdmitWaiting
<1>5. ASSUME NEW e \in Entities, ReceiveReadsDone(e) \/ (e \in Workers /\ (ReceiveFail(e) \/ ReceiveDone(e))) PROVE Spoken'
  BY <1>2, <1>5, ReportSpeaks DEF ReceiveReadsDone, ReceiveFail, ReceiveDone
<1>6. ASSUME NEW r \in Rids, Advance(r) PROVE Spoken'
  BY <1>1, <1>6, AdvanceSpeaks DEF Advance
<1>7. ASSUME NEW r \in Rids, ExpireEarly(r) PROVE Spoken'
  BY <1>7, SpokenSame DEF ExpireEarly
<1>8. ASSUME NEW r \in Rids, ExpireDrain(r) PROVE Spoken'
  BY <1>1, <1>8, QuietlyTyped, FinalizeSpeaks DEF ExpireDrain
<1>9. CASE WorkerDies
  BY <1>1, <1>9, DeadSpeaks DEF WorkerDies
<1> QED
  BY <1>3, <1>4, <1>5, <1>6, <1>7, <1>8, <1>9, Cast DEF ConductorNext

LEMMA SpokenStep == ASSUME Inv, Shaped, Spoken, [Next]_vars PROVE Spoken'
<1>1. CASE UNCHANGED vars
  BY <1>1, SpokenSame DEF vars, workVars
<1>2. ASSUME NEW w \in Workers, WorkerNext(w) \/ \E r \in Rids : StepFails(w, r) \/ ReadFails(w, r)
      PROVE  Spoken'
  <2>1. PICK r : Works(w, r)
    BY <1>2, WorkerWorks, TurnWorks
  <2>2. toApi' = toApi
    <3> USE DEF workerUnchanged
    <3>1. CASE ApplyRemove(w) \/ ApplyDrain(w) \/ WorkerReceive(w) \/ FollowerReceive(w) \/ FollowerRemoves(w)
      BY <3>1 DEF ApplyRemove, ApplyDrain, WorkerReceive, FollowerReceive, FollowerRemoves
    <3>2. ASSUME NEW q \in Rids, \/ DrainTurn(w, q) \/ StepStarts(w, q) \/ StepFollows(w, q) \/ StepEnds(w, q)
                                 \/ SpecFollows(w, q) \/ SpecEnds(w, q) \/ ReadEnds(w, q) \/ WorkerItem(w, q)
                                 \/ StepFails(w, q) \/ ReadFails(w, q)
          PROVE  toApi' = toApi
      BY <3>2 DEF DrainTurn, StepStarts, StepFollows, StepEnds, SpecFollows, SpecEnds, ReadEnds, WorkerItem,
         StepFails, ReadFails
    <3> QED
      BY <1>2, <3>1, <3>2 DEF WorkerNext
  <2> QED
    BY <2>1, <2>2, WorksSpoken
<1>3. CASE Environment
  BY <1>2, <1>3, ServerSpoken, DataSpoken, ConductorSpoken DEF Environment
<1> QED
  BY <1>1, <1>2, <1>3, ServerSpoken, DataSpoken, ConductorSpoken DEF Next

(***************************************************************************)
(* Every process hears only messages that its sender sends it, and the     *)
(* sets and maps of every process (the request table, _draining_rids,      *)
(* _pending_removes, expected_acks) stay what they are.                    *)
(***************************************************************************)
THEOREM TeardownTyped == Spec => []TypeOK
<1>1. Init => Plain /\ Spoken
  <2> SUFFICES ASSUME Init PROVE Plain /\ Spoken
    OBVIOUS
  <2>1. \A K : <<>> \in Messages(K)
    BY ShortTyped
  <2> QED
    BY <2>1, TeardownAssumption DEF Init, Plain, Spoken
<1>2. Inv /\ Barrier /\ Plain /\ Spoken /\ [Next]_vars => (Plain /\ Spoken)'
  BY PlainStep, SpokenStep DEF Barrier
<1>3. Inv /\ Barrier /\ Lined /\ Plain /\ Spoken => TypeOK
  BY DEF Inv, Typed, Barrier, Shaped, Lined, Fitted, Plain, Spoken, TypeOK,
     ToConductor, FromConductor, ToClients, FromRank0, Turns
<1> QED
  BY <1>1, <1>2, <1>3, LinedHolds, PTL DEF Spec

=============================================================================
