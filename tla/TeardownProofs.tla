--------------------------- MODULE TeardownProofs ---------------------------
(***************************************************************************)
(* Proofs about Teardown.                                                  *)
(*                                                                         *)
(* Inv: a request is in one place at a time on its way from the API server *)
(* into the conductor.  From it: the conductor tells a client the end of   *)
(* its request at most once, a request waits only for a slot, and no       *)
(* request follows its own abort into the conductor.                       *)
(*                                                                         *)
(* Barrier: of each request, who reads its tensors, who may still come to  *)
(* read them, who has said READS_DONE, and who is told to remove it.  From *)
(* it: what a participant has said it no longer reads it does not read,    *)
(* and nobody removes what another still reads.                            *)
(***************************************************************************)
EXTENDS Teardown, FiniteSetTheorems, TLAPS

-----------------------------------------------------------------------------
(* Sequences *)

NoDup(s) == \A i, j \in 1..Len(s) : s[i] = s[j] => i = j

LEMMA RangeIsImage ==
    ASSUME NEW S, NEW s \in Seq(S)
    PROVE  /\ Range(s) \subseteq S
           /\ \A x : x \in Range(s) <=> \E i \in 1..Len(s) : x = s[i]
  BY DEF Range

LEMMA RangeAppend ==
    ASSUME NEW S, NEW s \in Seq(S), NEW x \in S
    PROVE  Append(s, x) \in Seq(S) /\ Range(Append(s, x)) = Range(s) \cup {x}
<1>1. Append(s, x) \in Seq(S) /\ Len(Append(s, x)) = Len(s) + 1
  OBVIOUS
<1>2. Append(s, x)[Len(s) + 1] = x /\ \A i \in 1..Len(s) : Append(s, x)[i] = s[i]
  OBVIOUS
<1>3. QED
  BY <1>1, <1>2 DEF Range

LEMMA RangeConcat ==
    ASSUME NEW S, NEW s \in Seq(S), NEW t \in Seq(S)
    PROVE  s \o t \in Seq(S) /\ Range(s \o t) = Range(s) \cup Range(t)
<1>1. s \o t \in Seq(S) /\ Len(s \o t) = Len(s) + Len(t)
  OBVIOUS
<1>2. \A i \in 1..Len(s) : i \in 1..Len(s \o t) /\ (s \o t)[i] = s[i]
  BY <1>1
<1>3. \A i \in 1..Len(t) : Len(s) + i \in 1..Len(s \o t) /\ (s \o t)[Len(s) + i] = t[i]
  BY <1>1
<1>4. \A i \in 1..Len(s \o t) : i \in 1..Len(s) \/ (i - Len(s) \in 1..Len(t) /\ (s \o t)[i] = t[i - Len(s)])
  BY <1>1
<1>a. \A x : x \in Range(s \o t) <=> \E i \in 1..Len(s \o t) : x = (s \o t)[i]
  BY <1>1, RangeIsImage
<1>b. /\ \A x : x \in Range(s) <=> \E i \in 1..Len(s) : x = s[i]
      /\ \A x : x \in Range(t) <=> \E i \in 1..Len(t) : x = t[i]
  BY RangeIsImage
<1>5. ASSUME NEW x \in Range(s \o t) PROVE x \in Range(s) \cup Range(t)
  <2>1. PICK i \in 1..Len(s \o t) : x = (s \o t)[i]
    BY <1>5, <1>a
  <2>2. QED
    BY <2>1, <1>2, <1>4, <1>b
<1>6. ASSUME NEW x \in Range(s) PROVE x \in Range(s \o t)
  <2>1. PICK i \in 1..Len(s) : x = s[i]
    BY <1>6, <1>b
  <2>2. QED
    BY <2>1, <1>2, <1>a
<1>7. ASSUME NEW x \in Range(t) PROVE x \in Range(s \o t)
  <2>1. PICK i \in 1..Len(t) : x = t[i]
    BY <1>7, <1>b
  <2>2. QED
    BY <2>1, <1>3, <1>a
<1>8. QED
  BY <1>1, <1>5, <1>6, <1>7

LEMMA RangeTail ==
    ASSUME NEW S, NEW s \in Seq(S), s # <<>>
    PROVE  /\ Tail(s) \in Seq(S) /\ Head(s) \in S /\ Head(s) \in Range(s)
           /\ Range(s) = {Head(s)} \cup Range(Tail(s))
<1>1. Len(s) \in Nat \ {0} /\ Tail(s) \in Seq(S) /\ Len(Tail(s)) = Len(s) - 1 /\ Head(s) = s[1] /\ Head(s) \in S
  OBVIOUS
<1>2. \A i \in 1..Len(Tail(s)) : i + 1 \in 1..Len(s) /\ Tail(s)[i] = s[i + 1]
  BY <1>1
<1>3. \A i \in 1..Len(s) : i = 1 \/ (i - 1 \in 1..Len(Tail(s)) /\ s[i] = Tail(s)[i - 1])
  BY <1>1, <1>2
<1>4. /\ \A x : x \in Range(s) <=> \E i \in 1..Len(s) : x = s[i]
      /\ \A x : x \in Range(Tail(s)) <=> \E i \in 1..Len(Tail(s)) : x = Tail(s)[i]
  BY ZenonT(60), <1>1, RangeIsImage
<1>5. ASSUME NEW x \in Range(s) PROVE x = Head(s) \/ x \in Range(Tail(s))
  <2>1. PICK i \in 1..Len(s) : x = s[i]
    BY <1>5, <1>4
  <2>2. QED
    BY <2>1, <1>1, <1>3, <1>4
<1>6. ASSUME NEW x \in Range(Tail(s)) PROVE x \in Range(s)
  <2>1. PICK i \in 1..Len(Tail(s)) : x = Tail(s)[i]
    BY <1>6, <1>4
  <2>2. QED
    BY <2>1, <1>2, <1>4
<1>7. Head(s) \in Range(s)
  BY <1>1, <1>4
<1>8. QED
  BY <1>1, <1>5, <1>6, <1>7

LEMMA NoDupAppend ==
    ASSUME NEW S, NEW s \in Seq(S), NEW x \in S, NoDup(s), x \notin Range(s)
    PROVE  NoDup(Append(s, x))
<1>1. Len(Append(s, x)) = Len(s) + 1 /\ \A i \in 1..Len(s) : Append(s, x)[i] = s[i] /\ s[i] # x
  BY DEF Range
<1>2. Append(s, x)[Len(s) + 1] = x
  OBVIOUS
<1>3. QED
  BY <1>1, <1>2 DEF NoDup

LEMMA NoDupTail ==
    ASSUME NEW S, NEW s \in Seq(S), s # <<>>, NoDup(s)
    PROVE  NoDup(Tail(s)) /\ Head(s) \notin Range(Tail(s))
<1>1. Len(s) \in Nat \ {0} /\ Len(Tail(s)) = Len(s) - 1 /\ Head(s) = s[1]
  OBVIOUS
<1>2. \A i \in 1..Len(Tail(s)) : i + 1 \in 1..Len(s) /\ Tail(s)[i] = s[i + 1]
  BY <1>1
<1>3. QED
  BY <1>1, <1>2 DEF NoDup, Range

\* What is left of a queue that an element was taken out of the middle of.
LEMMA NoDupLeft ==
    ASSUME NEW S, NEW s \in Seq(S), NoDup(s), NEW i \in 1..Len(s), NEW t \in Seq(S),
           Len(t) = Len(s) - 1,
           \A j \in 1..Len(t) : t[j] = s[IF j < i THEN j ELSE j + 1]
    PROVE  NoDup(t) /\ Range(t) = Range(s) \ {s[i]}
<1>1. ASSUME NEW j \in 1..Len(t)
      PROVE  /\ (IF j < i THEN j ELSE j + 1) \in 1..Len(s)
             /\ (IF j < i THEN j ELSE j + 1) # i
  OBVIOUS
<1>2. NoDup(t)
  <2> SUFFICES ASSUME NEW j \in 1..Len(t), NEW k \in 1..Len(t), t[j] = t[k] PROVE j = k
    BY DEF NoDup
  <2>1. (IF j < i THEN j ELSE j + 1) = (IF k < i THEN k ELSE k + 1)
    BY <1>1 DEF NoDup
  <2>2. QED
    BY <2>1
<1>3. \A x : x \in Range(t) <=> \E j \in 1..Len(t) : x = t[j]
  BY RangeIsImage
<1>4. \A x : x \in Range(s) <=> \E j \in 1..Len(s) : x = s[j]
  BY RangeIsImage
<1>5. ASSUME NEW j \in 1..Len(t) PROVE t[j] # s[i] /\ t[j] \in Range(s)
  <2>1. PICK k \in 1..Len(s) : k # i /\ t[j] = s[k]
    BY <1>1
  <2>2. QED
    BY <2>1, <1>4 DEF NoDup
<1>6. ASSUME NEW j \in 1..Len(s), j # i PROVE s[j] \in Range(t)
  <2>1. CASE j < i
    <3>1. j \in 1..Len(t) /\ t[j] = s[j]
      BY <2>1
    <3>2. QED
      BY <3>1, <1>3
  <2>2. CASE j > i
    <3>1. j - 1 \in 1..Len(t) /\ ~(j - 1 < i) /\ (j - 1) + 1 = j
      BY <2>2
    <3>2. t[j - 1] = s[j]
      BY <3>1
    <3>3. QED
      BY <3>1, <3>2, <1>3
  <2>3. QED
    BY <2>1, <2>2, <1>6
<1>7. QED
  BY <1>2, <1>3, <1>4, <1>5, <1>6

LEMMA NoDupCut ==
    ASSUME NEW S, NEW s \in Seq(S), NoDup(s), NEW i \in 1..Len(s)
    PROVE  LET t == SubSeq(s, 1, i - 1) \o SubSeq(s, i + 1, Len(s))
           IN  t \in Seq(S) /\ NoDup(t) /\ Range(t) = Range(s) \ {s[i]}
<1>1. PICK a : a = SubSeq(s, 1, i - 1)
  OBVIOUS
<1>2. PICK b : b = SubSeq(s, i + 1, Len(s))
  OBVIOUS
<1>3. a \in Seq(S) /\ Len(a) = i - 1 /\ \A j \in 1..Len(a) : a[j] = s[j]
  BY <1>1
<1>4. b \in Seq(S) /\ Len(b) = Len(s) - i /\ \A j \in 1..Len(b) : b[j] = s[i + j]
  BY <1>2
<1>5. PICK t : t = a \o b
  OBVIOUS
<1>6. t \in Seq(S) /\ Len(t) = Len(a) + Len(b)
  <2>1. a \in Seq(S) /\ b \in Seq(S)
    BY <1>3, <1>4
  <2>2. QED
    BY <2>1, <1>5
<1>7. Len(t) = Len(s) - 1
  BY <1>3, <1>4, <1>6
<1>8. \A j \in 1..Len(t) : t[j] = IF j <= Len(a) THEN a[j] ELSE b[j - Len(a)]
  BY <1>3, <1>4, <1>5, <1>6
<1>9. ASSUME NEW j \in 1..Len(t) PROVE t[j] = s[IF j < i THEN j ELSE j + 1]
  <2>1. CASE j < i
    <3>1. j \in 1..Len(a) /\ j <= Len(a)
      BY <2>1, <1>3
    <3>2. QED
      BY <3>1, <2>1, <1>3, <1>8
  <2>2. CASE ~(j < i)
    <3>1. j - Len(a) \in 1..Len(b) /\ i + (j - Len(a)) = j + 1 /\ ~(j <= Len(a))
      BY <2>2, <1>3, <1>4, <1>6
    <3>2. b[j - Len(a)] = s[j + 1]
      BY <3>1, <1>4
    <3>3. QED
      BY <3>1, <3>2, <2>2, <1>8
  <2>3. QED
    BY <2>1, <2>2
<1>10. NoDup(t) /\ Range(t) = Range(s) \ {s[i]}
  BY SMTT(30), <1>6, <1>7, <1>9, NoDupLeft
<1>11. QED
  BY <1>1, <1>2, <1>5, <1>6, <1>10

-----------------------------------------------------------------------------
(* Messages *)

Kinds == {"new", "abort", "reads_done", "fail", "done", "inputs", "drain", "remove", "route",
          "unroute", "complete", "failed", "step", "spec"}

Notes == [kind : Kinds, rid : Rids]

\* The requests of the messages of a kind in s, and of all its messages.
Of(s, k) == {r \in Rids : Msg(k, r) \in Range(s)}
About(s) == {m.rid : m \in Range(s)}

\* A request is sent once, and not behind its own abort.
Orderly(s) ==
    \A i, j \in 1..Len(s) :
        s[j].kind = "new" /\ s[i].rid = s[j].rid =>
            /\ s[i].kind = "new" => i = j
            /\ s[i].kind = "abort" => j < i

LEMMA MsgIsNote ==
    ASSUME NEW r \in Rids
    PROVE  /\ Msg("new", r) \in Notes /\ Msg("abort", r) \in Notes /\ Msg("reads_done", r) \in Notes
           /\ Msg("inputs", r) \in Notes /\ Msg("drain", r) \in Notes /\ Msg("remove", r) \in Notes
           /\ Msg("route", r) \in Notes /\ Msg("unroute", r) \in Notes
           /\ Msg("complete", r) \in Notes /\ Msg("failed", r) \in Notes
  BY DEF Msg, Notes, Kinds

LEMMA MsgsDiffer == \A k, l, r, q : Msg(k, r) = Msg(l, q) <=> k = l /\ r = q
<1>1. \A k, r : Msg(k, r).kind = k /\ Msg(k, r).rid = r
  BY DEF Msg
<1>2. QED
  BY <1>1

LEMMA NoteIsMsg == \A m \in Notes : m = Msg(m.kind, m.rid) /\ m.kind \in Kinds /\ m.rid \in Rids
  BY DEF Msg, Notes

LEMMA OfAppend ==
    ASSUME NEW s \in Seq(Notes), NEW k, NEW r \in Rids, Msg(k, r) \in Notes, NEW l
    PROVE  /\ Append(s, Msg(k, r)) \in Seq(Notes)
           /\ Of(Append(s, Msg(k, r)), l) = Of(s, l) \cup (IF k = l THEN {r} ELSE {})
<1>1. Msg(k, r) \in Notes
  OBVIOUS
<1>2. PICK m \in Notes : m = Msg(k, r)
  BY <1>1
<1>3. Append(s, m) \in Seq(Notes) /\ Range(Append(s, m)) = Range(s) \cup {m}
  BY RangeAppend
<1>4. \A q : q \in Of(Append(s, m), l) <=> q \in Rids /\ (Msg(l, q) \in Range(s) \/ Msg(l, q) = m)
  BY <1>3 DEF Of
<1>a. ASSUME NEW q PROVE Msg(l, q) = Msg(k, r) <=> l = k /\ q = r
  <2>1. Msg(l, q).kind = l /\ Msg(l, q).rid = q /\ Msg(k, r).kind = k /\ Msg(k, r).rid = r
    BY DEF Msg
  <2>2. QED
    BY <2>1
<1>5. \A q : Msg(l, q) = m <=> k = l /\ q = r
  BY <1>2, <1>a
<1>6. \A q : q \in Of(Append(s, m), l) <=> q \in Of(s, l) \cup (IF k = l THEN {r} ELSE {})
  BY <1>4, <1>5 DEF Of
<1>7. Of(Append(s, m), l) = Of(s, l) \cup (IF k = l THEN {r} ELSE {})
  BY <1>6
<1>8. QED
  BY <1>2, <1>3, <1>7

LEMMA OfTail ==
    ASSUME NEW s \in Seq(Notes), s # <<>>, NEW l
    PROVE  /\ Tail(s) \in Seq(Notes) /\ Head(s) \in Notes
           /\ Of(s, l) = Of(Tail(s), l) \cup (IF Head(s).kind = l THEN {Head(s).rid} ELSE {})
<1>1. Tail(s) \in Seq(Notes) /\ Head(s) \in Notes /\ Range(s) = {Head(s)} \cup Range(Tail(s))
  BY RangeTail
<1>2. \A r : Msg(l, r) = Head(s) <=> Head(s).kind = l /\ Head(s).rid = r
  BY <1>1, NoteIsMsg, MsgsDiffer
<1>3. Head(s).rid \in Rids
  BY <1>1, NoteIsMsg
<1>4. QED
  BY <1>1, <1>2, <1>3 DEF Of

LEMMA OrderlyAppend ==
    ASSUME NEW s \in Seq(Notes), Orderly(s), NEW k, NEW r \in Rids, Msg(k, r) \in Notes,
           k = "new" => r \notin Of(s, "new") \cup Of(s, "abort")
    PROVE  Orderly(Append(s, Msg(k, r)))
<1>1. PICK t : t = Append(s, Msg(k, r))
  OBVIOUS
<1>2. /\ Len(t) = Len(s) + 1 /\ t[Len(t)] = Msg(k, r)
      /\ \A i \in 1..Len(s) : t[i] = s[i]
  BY <1>1
<1>3. t[Len(t)].kind = k /\ t[Len(t)].rid = r
  BY <1>2 DEF Msg
<1>4. ASSUME k = "new", NEW i \in 1..Len(s), s[i].rid = r PROVE s[i].kind # "new" /\ s[i].kind # "abort"
  <2>1. s[i] \in Notes /\ s[i] \in Range(s)
    BY RangeIsImage
  <2>2. s[i] = Msg(s[i].kind, r)
    BY <1>4, <2>1, NoteIsMsg
  <2>3. QED
    BY <1>4, <2>1, <2>2 DEF Of
<1>5. Orderly(t)
  <2> SUFFICES ASSUME NEW i \in 1..Len(t), NEW j \in 1..Len(t), t[j].kind = "new", t[i].rid = t[j].rid
               PROVE  (t[i].kind = "new" => i = j) /\ (t[i].kind = "abort" => j < i)
    BY DEF Orderly
  <2>1. CASE i = Len(t) /\ j = Len(t)
    BY <2>1, <1>3
  <2>2. CASE i \in 1..Len(s) /\ j \in 1..Len(s)
    BY <2>2, <1>2 DEF Orderly
  <2>3. CASE i \in 1..Len(s) /\ j = Len(t)
    BY <2>3, <1>2, <1>3, <1>4
  <2>4. CASE i = Len(t) /\ j \in 1..Len(s)
    <3>1. s[j].kind = "new" /\ s[j].rid = r /\ j < i
      BY <2>4, <1>2, <1>3
    <3>2. k # "new"
      BY <3>1, <2>4, <1>4
    <3>3. QED
      BY <3>1, <3>2, <2>4, <1>3
  <2>5. QED
    BY <2>1, <2>2, <2>3, <2>4, <1>2
<1>6. QED
  BY <1>1, <1>5

LEMMA OrderlyTail ==
    ASSUME NEW s \in Seq(Notes), s # <<>>, Orderly(s)
    PROVE  /\ Orderly(Tail(s))
           /\ Head(s).kind \in {"new", "abort"} => Head(s).rid \notin Of(Tail(s), "new")
<1>1. /\ Len(s) \in Nat \ {0} /\ Tail(s) \in Seq(Notes) /\ Len(Tail(s)) = Len(s) - 1
      /\ Head(s) = s[1]
  OBVIOUS
<1>2. \A i \in 1..Len(Tail(s)) : i + 1 \in 1..Len(s) /\ Tail(s)[i] = s[i + 1]
  BY <1>1
<1>3. Orderly(Tail(s))
  BY <1>1, <1>2 DEF Orderly
<1>4. ASSUME Head(s).kind \in {"new", "abort"}, Head(s).rid \in Of(Tail(s), "new")
      PROVE  FALSE
  <2>1. Msg("new", Head(s).rid) \in Range(Tail(s))
    BY <1>4 DEF Of
  <2>a. \A x : x \in Range(Tail(s)) <=> \E i \in 1..Len(Tail(s)) : x = Tail(s)[i]
    BY <1>1, RangeIsImage
  <2>2. PICK i \in 1..Len(Tail(s)) : Msg("new", Head(s).rid) = Tail(s)[i]
    BY <2>1, <2>a
  <2>3. i + 1 \in 1..Len(s) /\ s[i + 1].kind = "new" /\ s[i + 1].rid = s[1].rid /\ 1 \in 1..Len(s)
    BY <2>2, <1>1, <1>2 DEF Msg
  <2>4. (s[1].kind = "new" => 1 = i + 1) /\ (s[1].kind = "abort" => i + 1 < 1)
    BY <2>3 DEF Orderly
  <2>5. QED
    BY <2>4, <1>1, <1>4
<1>5. QED
  BY <1>3, <1>4

LEMMA ConcatOne ==
    ASSUME NEW S, NEW s \in Seq(S), NEW x \in S
    PROVE  s \o <<x>> = Append(s, x)
  OBVIOUS

LEMMA ConcatNone == ASSUME NEW S, NEW s \in Seq(S) PROVE s \o <<>> = s /\ <<>> \o s = s
  OBVIOUS

LEMMA AboutConcat ==
    ASSUME NEW s \in Seq(Notes), NEW t \in Seq(Notes)
    PROVE  s \o t \in Seq(Notes) /\ About(s \o t) = About(s) \cup About(t)
<1>1. s \o t \in Seq(Notes) /\ Range(s \o t) = Range(s) \cup Range(t)
  BY RangeConcat
<1>2. QED
  BY <1>1 DEF About

LEMMA AboutTail ==
    ASSUME NEW s \in Seq(Notes), s # <<>>
    PROVE  /\ Tail(s) \in Seq(Notes) /\ Head(s).rid \in About(s) /\ Head(s).rid \in Rids
           /\ About(Tail(s)) \subseteq About(s)
<1>1. /\ Tail(s) \in Seq(Notes) /\ Head(s) \in Notes /\ Head(s) \in Range(s)
      /\ Range(s) = {Head(s)} \cup Range(Tail(s))
  BY RangeTail
<1>2. QED
  BY <1>1, NoteIsMsg DEF About

LEMMA AboutOne ==
    ASSUME NEW k, NEW r \in Rids, Msg(k, r) \in Notes
    PROVE  <<Msg(k, r)>> \in Seq(Notes) /\ About(<<Msg(k, r)>>) = {r}
<1>1. Msg(k, r) \in Notes /\ Msg(k, r).rid = r
  BY DEF Msg
<1>2. <<Msg(k, r)>> \in Seq(Notes) /\ Range(<<Msg(k, r)>>) = {Msg(k, r)}
  BY <1>1 DEF Range
<1>3. QED
  BY <1>1, <1>2 DEF About

LEMMA AboutNone == <<>> \in Seq(Notes) /\ About(<<>>) = {}
<1>1. <<>> \in Seq(Notes) /\ Range(<<>>) = {}
  BY DEF Range
<1>2. QED
  BY <1>1 DEF About

-----------------------------------------------------------------------------
(* What the conductor's handlers send *)

\* Messages to the participants that are all about r.
Sendable(sent, r) ==
    sent \in [Entities -> Seq(Notes)] /\ \A e \in Entities : About(sent[e]) \subseteq {r}

\* The participants' channels have grown by messages about r, if at all.
Posted(r) ==
    /\ fromC' \in [Entities -> Seq(Notes)]
    /\ \A e \in Entities : About(fromC'[e]) \subseteq About(fromC[e]) \cup {r}

LEMMA SendNothing == ASSUME NEW r \in Rids PROVE Sendable(Nothing, r)
  BY AboutNone DEF Sendable, Nothing

LEMMA SendAll == ASSUME NEW k, NEW r \in Rids, Msg(k, r) \in Notes PROVE Sendable(ToAll(k, r), r)
<1>1. <<Msg(k, r)>> \in Seq(Notes) /\ About(<<Msg(k, r)>>) = {r}
  BY AboutOne
<1>2. QED
  BY <1>1 DEF Sendable, ToAll

\* To some of the participants.
LEMMA SendSome ==
    ASSUME NEW k, NEW r \in Rids, Msg(k, r) \in Notes, NEW S
    PROVE  Sendable([e \in Entities |-> IF e \in S THEN <<Msg(k, r)>> ELSE <<>>], r)
<1>1. <<Msg(k, r)>> \in Seq(Notes) /\ About(<<Msg(k, r)>>) = {r}
  BY AboutOne
<1>2. QED
  BY <1>1, AboutNone DEF Sendable

LEMMA SendWorkers == ASSUME NEW k, NEW r \in Rids, Msg(k, r) \in Notes PROVE Sendable(ToWorkers(k, r), r)
<1>1. <<Msg(k, r)>> \in Seq(Notes) /\ About(<<Msg(k, r)>>) = {r}
  BY AboutOne
<1>2. QED
  BY <1>1, AboutNone DEF Sendable, ToWorkers

LEMMA SendData == ASSUME NEW k, NEW r \in Rids, Msg(k, r) \in Notes PROVE Sendable(ToData(k, r), r)
<1>1. <<Msg(k, r)>> \in Seq(Notes) /\ About(<<Msg(k, r)>>) = {r}
  BY AboutOne
<1>2. ToData(k, r) = [e \in Entities |-> IF e = Data THEN <<Msg(k, r)>> ELSE <<>>]
  BY DEF ToData, Nothing
<1>3. QED
  BY <1>1, <1>2, AboutNone DEF Sendable

LEMMA SendThen ==
    ASSUME NEW r \in Rids, NEW a, NEW b, Sendable(a, r), Sendable(b, r)
    PROVE  Sendable(Then(a, b), r)
<1>1. ASSUME NEW e \in Entities
      PROVE  a[e] \o b[e] \in Seq(Notes) /\ About(a[e] \o b[e]) \subseteq {r}
  <2>1. a[e] \in Seq(Notes) /\ b[e] \in Seq(Notes) /\ About(a[e]) \subseteq {r} /\ About(b[e]) \subseteq {r}
    BY DEF Sendable
  <2>2. QED
    BY <2>1, AboutConcat
<1>2. QED
  BY <1>1 DEF Sendable, Then

LEMMA PostGrows ==
    ASSUME NEW r \in Rids, NEW sent, Sendable(sent, r), fromC \in [Entities -> Seq(Notes)], Post(sent)
    PROVE  Posted(r)
<1>1. ASSUME NEW e \in Entities
      PROVE  /\ fromC[e] \o sent[e] \in Seq(Notes)
             /\ About(fromC[e] \o sent[e]) \subseteq About(fromC[e]) \cup {r}
  <2>1. fromC[e] \in Seq(Notes) /\ sent[e] \in Seq(Notes) /\ About(sent[e]) \subseteq {r}
    BY DEF Sendable
  <2>2. QED
    BY <2>1, AboutConcat
<1>2. QED
  BY <1>1 DEF Post, Posted

LEMMA PostsNothing == ASSUME NEW r \in Rids, fromC \in [Entities -> Seq(Notes)], UNCHANGED fromC PROVE Posted(r)
  BY DEF Posted

\* The client of r has heard its end once more, or nobody has heard anything.
Bumped(r) == verdicts' = [verdicts EXCEPT ![r] = @ + 1]

LEMMA SayNothing ==
    ASSUME verdicts \in [Rids -> Nat], Say(<<>>)
    PROVE  verdicts' = verdicts
<1>1. \A r \in Rids : {i \in DOMAIN <<>> : <<>>[i].rid = r} = {}
  OBVIOUS
<1>2. Cardinality({}) = 0
  BY FS_EmptySet
<1>3. \A r \in Rids : Cardinality({i \in DOMAIN <<>> : <<>>[i].rid = r}) = 0
  BY <1>1, <1>2
<1>4. QED
  BY <1>3 DEF Say

LEMMA SayOne ==
    ASSUME verdicts \in [Rids -> Nat], NEW k, NEW r \in Rids, Msg(k, r) \in Notes, Say(<<Msg(k, r)>>)
    PROVE  Bumped(r)
<1>1. DOMAIN <<Msg(k, r)>> = {1} /\ <<Msg(k, r)>>[1].rid = r
  BY DEF Msg
<1>2. \A q \in Rids : {i \in DOMAIN <<Msg(k, r)>> : <<Msg(k, r)>>[i].rid = q} = IF q = r THEN {1} ELSE {}
  BY <1>1
<1>3. Cardinality({}) = 0 /\ Cardinality({1}) = 1
  BY FS_EmptySet, FS_Singleton
<1>4. \A q \in Rids : Cardinality({i \in DOMAIN <<Msg(k, r)>> : <<Msg(k, r)>>[i].rid = q}) = IF q = r THEN 1 ELSE 0
  BY <1>2, <1>3
<1>5. verdicts' = [q \in Rids |-> verdicts[q] + IF q = r THEN 1 ELSE 0]
  BY <1>4 DEF Say
<1>6. \A q \in Rids : verdicts[q] + (IF q = r THEN 1 ELSE 0) = IF q = r THEN verdicts[r] + 1 ELSE verdicts[q]
  OBVIOUS
<1>7. verdicts' = [q \in Rids |-> IF q = r THEN verdicts[r] + 1 ELSE verdicts[q]]
  BY <1>5, <1>6
<1>8. QED
  BY <1>7 DEF Bumped

(***************************************************************************)
(* What becomes of a request at the conductor: it stays as it is, enters,  *)
(* is refused, drains or leaves.                                           *)
(***************************************************************************)
Stays == UNCHANGED <<requests, draining, failing, admitting, verdicts>>

Enters(r) == requests' = requests \cup {r} /\ UNCHANGED <<draining, failing, admitting, verdicts>>

Refused(r) == UNCHANGED <<requests, draining, failing, admitting>> /\ Bumped(r)

Drains(r) ==
    /\ requests' = requests \cup {r} /\ draining' = draining \cup {r} /\ UNCHANGED admitting
    /\ \/ failing' = failing \cup {r} /\ verdicts' = verdicts
       \/ failing' = failing /\ verdicts' = verdicts
       \/ failing' = failing /\ Bumped(r)

Leaves(r) ==
    /\ requests' = requests \ {r} /\ draining' = draining \ {r} /\ failing' = failing \ {r}
    /\ admitting' = TRUE
    /\ verdicts' = verdicts \/ Bumped(r)

\* What Finalize says where the client has not been told before.
LEMMA FinalizeLeaves ==
    ASSUME verdicts \in [Rids -> Nat], fromC \in [Entities -> Seq(Notes)],
           NEW r \in Rids, NEW fails \in BOOLEAN, NEW sent, Sendable(sent, r), NEW said,
           Finalize(r, fails, sent, said),
           said = <<>> \/ (said = <<Msg("complete", r)>> /\ ~fails)
    PROVE  Posted(r) /\ Leaves(r) /\ (said = <<>> /\ ~fails => verdicts' = verdicts)
<1>1. Posted(r)
  <2>1. Sendable(Then(sent, ToAll("remove", r)), r)
    <3>1. Sendable(ToAll("remove", r), r)
      BY MsgIsNote, SendAll
    <3>2. QED
      BY <3>1, SendThen
  <2>2. Post(Then(sent, ToAll("remove", r)))
    BY DEF Finalize
  <2>3. QED
    BY <2>1, <2>2, PostGrows
<1>2. Say(IF fails THEN Append(said, Msg("failed", r)) ELSE said)
  BY DEF Finalize
<1>3. verdicts' = verdicts \/ Bumped(r)
  <2>1. CASE ~fails /\ said = <<>>
    BY <2>1, <1>2, SayNothing
  <2>2. CASE ~fails /\ said = <<Msg("complete", r)>>
    <3>1. Say(<<Msg("complete", r)>>)
      BY <2>2, <1>2
    <3>2. QED
      BY <3>1, MsgIsNote, SayOne
  <2>3. CASE fails
    <3>1. said = <<>> /\ Append(<<>>, Msg("failed", r)) = <<Msg("failed", r)>>
      BY <2>3
    <3>2. Say(<<Msg("failed", r)>>)
      BY <3>1, <2>3, <1>2
    <3>3. QED
      BY <3>2, MsgIsNote, SayOne
  <2>4. QED
    BY <2>1, <2>2, <2>3
<1>4. said = <<>> /\ ~fails => verdicts' = verdicts
  BY <1>2, SayNothing
<1>5. QED
  BY <1>1, <1>3, <1>4 DEF Finalize, Leaves

LEMMA RegisterDrains ==
    ASSUME verdicts \in [Rids -> Nat], fromC \in [Entities -> Seq(Notes)],
           NEW r \in Rids, NEW acks, NEW fails \in BOOLEAN, NEW sent, Sendable(sent, r), NEW said,
           RegisterDraining(r, acks, fails, sent, said),
           said = <<>> \/ (said = <<Msg("complete", r)>> /\ ~fails)
    PROVE  Posted(r) /\ (Drains(r) \/ Leaves(r))
<1>1. CASE acks \ earlyDone[r] = {}
  <2>1. Finalize(r, fails, sent, said)
    BY <1>1 DEF RegisterDraining
  <2>2. QED
    BY <2>1, FinalizeLeaves
<1>2. CASE acks \ earlyDone[r] # {}
  <2>1. /\ draining' = draining \cup {r}
        /\ failing' = IF fails THEN failing \cup {r} ELSE failing
        /\ requests' = requests \cup {r}
        /\ Post(sent) /\ Say(said) /\ admitting' = admitting
    BY <1>2 DEF RegisterDraining
  <2>2. Posted(r)
    BY <2>1, PostGrows
  <2>3. CASE said = <<>>
    <3>1. verdicts' = verdicts
      BY <2>1, <2>3, SayNothing
    <3>2. QED
      BY <2>1, <2>2, <3>1 DEF Drains
  <2>4. CASE said = <<Msg("complete", r)>> /\ ~fails
    <3>1. Bumped(r)
      BY <2>1, <2>4, MsgIsNote, SayOne
    <3>2. QED
      BY <2>1, <2>2, <2>4, <3>1 DEF Drains
  <2>5. QED
    BY <2>3, <2>4
<1>3. QED
  BY <1>1, <1>2

LEMMA RemoveDrains ==
    ASSUME verdicts \in [Rids -> Nat], fromC \in [Entities -> Seq(Notes)],
           NEW r \in Rids, NEW fails \in BOOLEAN, NEW sent, Sendable(sent, r), NEW said,
           RemoveRequest(r, fails, sent, said),
           said = <<>> \/ (said = <<Msg("complete", r)>> /\ ~fails)
    PROVE  Posted(r) /\ (Drains(r) \/ Leaves(r))
<1>1. Sendable(Then(sent, ToAll("drain", r)), r)
  <2>1. Sendable(ToAll("drain", r), r)
    BY MsgIsNote, SendAll
  <2>2. QED
    BY <2>1, SendThen
<1>2. RegisterDraining(r, Entities, fails, Then(sent, ToAll("drain", r)), said)
  BY DEF RemoveRequest
<1>3. QED
  BY <1>1, <1>2, RegisterDrains

LEMMA RejectRefuses ==
    ASSUME verdicts \in [Rids -> Nat], fromC \in [Entities -> Seq(Notes)], NEW r \in Rids, Reject(r)
    PROVE  Posted(r) /\ Bumped(r)
<1>1. Post(ToData("remove", r)) /\ Say(<<Msg("failed", r)>>)
  BY DEF Reject
<1>2. Sendable(ToData("remove", r), r)
  BY MsgIsNote, SendData
<1>3. Posted(r)
  BY <1>1, <1>2, PostGrows
<1>4. Bumped(r)
  BY <1>1, MsgIsNote, SayOne
<1>5. QED
  BY <1>3, <1>4

\* Whichever way a request is admitted.
LEMMA AdmitOutcomes ==
    ASSUME verdicts \in [Rids -> Nat], fromC \in [Entities -> Seq(Notes)], NEW r \in Rids, Admit(r)
    PROVE  Posted(r) /\ (Enters(r) \/ Refused(r) \/ Drains(r) \/ Leaves(r))
<1>1. CASE Dispatch(r)
  <2>1. Sendable(Then(ToWorkers("new", r), ToData("route", r)), r) /\ Sendable(ToWorkers("new", r), r)
    <3>1. Sendable(ToWorkers("new", r), r)
      BY MsgIsNote, SendWorkers
    <3>2. Sendable(ToData("route", r), r)
      BY MsgIsNote, SendData
    <3>3. QED
      BY <3>1, <3>2, SendThen
  <2>2. Posted(r)
    BY <1>1, <2>1, PostGrows DEF Dispatch
  <2>3. QED
    BY <1>1, <2>2 DEF Dispatch, Enters
<1>2. CASE DispatchRefused(r)
  BY <1>2, RejectRefuses DEF DispatchRefused, Refused
<1>3. CASE DispatchFails(r)
  <2>1. PICK heard : RemoveRequest(r, TRUE, [e \in Entities |->
                         IF e \in heard THEN <<Msg("new", r)>> ELSE <<>>], <<>>)
    BY <1>3 DEF DispatchFails
  <2>2. Sendable([e \in Entities |-> IF e \in heard THEN <<Msg("new", r)>> ELSE <<>>], r)
    BY MsgIsNote, SendSome
  <2>3. Posted(r) /\ (Drains(r) \/ Leaves(r))
    BY <2>1, <2>2, RemoveDrains
  <2>4. QED
    BY <2>3
<1>4. QED
  BY <1>1, <1>2, <1>3 DEF Admit

-----------------------------------------------------------------------------
(* The invariant *)

\* Where a request can be on its way into the conductor.
Queued == Range(inq)
Prepping == Range(prep)
Announced == Of(toC[Data], "new")
Waits == Range(waiting)

Aborted == Of(toC[Data], "abort")

\* Requests the data worker has sent off or dropped.
Passed == Rids \ (fresh \cup Queued \cup Prepping)

\* An abort of r cannot overtake it: r has passed, or the data worker will drop it.
Late(r) == r \notin fresh /\ (~IsPending(r) \/ r \in Passed)

\* The part of the types that the proofs need.
Typed ==
    /\ fresh \subseteq Rids /\ pend \subseteq Rids /\ recent \subseteq Rids
    /\ inq \in Seq(Rids) /\ prep \in Seq(Rids) /\ waiting \in Seq(Rids)
    /\ aborts \in [Rids -> Nat] /\ verdicts \in [Rids -> Nat]
    /\ draining \subseteq requests /\ requests \subseteq Rids /\ failing \subseteq draining
    /\ earlyAbort \subseteq Rids /\ admitting \in BOOLEAN
    /\ DOMAIN toC = Entities /\ toC[Data] \in Seq(Notes) /\ fromC \in [Entities -> Seq(Notes)]
    /\ DOMAIN reads = Entities /\ DOMAIN chunk = Rids
    /\ DOMAIN work = Workers /\ \A w \in Workers : DOMAIN work[w] = Rids

Distinct == NoDup(inq) /\ NoDup(prep) /\ NoDup(waiting) /\ Orderly(toC[Data])

\* A request is in one place.
OnePlace ==
    /\ fresh \cap (Queued \cup Prepping \cup Announced \cup Waits \cup requests) = {}
    /\ Queued \cap (Prepping \cup Announced \cup Waits \cup requests) = {}
    /\ Prepping \cap (Announced \cup Waits \cup requests) = {}
    /\ Announced \cap (Waits \cup requests) = {}
    /\ Waits \cap requests = {}

\* Who has heard its end is in no place from which it would be told again.
Told ==
    /\ ToldOnce
    /\ up => \A r \in Rids : verdicts[r] # 0 =>
         r \notin fresh \cup Queued \cup Prepping \cup Announced \cup Waits
                  \cup (requests \ draining) \cup failing

Unsubmitted == fresh \cap (pend \cup recent) = {}

AbortsLate == \A r \in Rids : aborts[r] > 0 \/ r \in Aborted \/ r \in earlyAbort => Late(r)

\* The participants and their outputs are only of requests that have passed.
Active ==
    /\ \A e \in Entities : About(fromC[e]) \subseteq Passed
    /\ \A r \in Rids : chunk[r] # "none" => r \in Passed
    /\ \A w \in Workers : \A r \in Rids : work[w][r] # "none" => r \in Passed
    /\ reads[Data] \cap Rids \subseteq Passed

Inv ==
    /\ Typed /\ Distinct /\ OnePlace /\ Told /\ NoIdleSlot
    /\ Unsubmitted /\ AbortsLate /\ NewBeforeAbort /\ Active

LEMMA Cast == Data \in Entities /\ (\A w \in Workers : w \in Entities /\ w # Data)
  BY TeardownAssumption DEF Entities

LEMMA EarlyAreAbsent ==
    ASSUME earlyAbort \subseteq Rids
    PROVE  NewBeforeAbort <=> earlyAbort \cap (Announced \cup Waits \cup requests) = {}
  BY DEF NewBeforeAbort, Announced, Waits, Of

LEMMA Begins == Init => Inv
<1> SUFFICES ASSUME Init PROVE Inv
  OBVIOUS
<1>1. /\ toC[Data] = <<>> /\ \A e \in Entities : fromC[e] = <<>>
      /\ fromC = [e \in Entities |-> <<>>] /\ DOMAIN toC = Entities /\ reads[Data] = {}
  BY Cast DEF Init
<1>2. Range(<<>>) = {} /\ NoDup(<<>>) /\ Orderly(<<>>)
  BY DEF Range, NoDup, Orderly
<1>3. Queued = {} /\ Prepping = {} /\ Waits = {} /\ Announced = {} /\ Aborted = {}
  BY <1>1, <1>2 DEF Init, Queued, Prepping, Waits, Announced, Aborted, Of
<1>4. Typed
  <2>1. <<>> \in Seq(Rids) /\ <<>> \in Seq(Notes)
    OBVIOUS
  <2>2. inq \in Seq(Rids) /\ prep \in Seq(Rids) /\ waiting \in Seq(Rids)
    BY <2>1 DEF Init
  <2>3. toC[Data] \in Seq(Notes) /\ fromC \in [Entities -> Seq(Notes)]
    BY <2>1, <1>1
  <2>4. aborts \in [Rids -> Nat] /\ verdicts \in [Rids -> Nat]
    BY DEF Init
  <2>5. DOMAIN reads = Entities /\ DOMAIN chunk = Rids /\ DOMAIN work = Workers
    BY DEF Init
  <2>6. \A w \in Workers : DOMAIN work[w] = Rids
    BY DEF Init
  <2>7. QED
    BY <1>1, <2>2, <2>3, <2>4, <2>5, <2>6 DEF Init, Typed
<1>5. Distinct
  BY <1>1, <1>2 DEF Init, Distinct
<1>6. OnePlace
  BY <1>3 DEF Init, OnePlace
<1>7. Told
  BY DEF Init, Told, ToldOnce
<1>8. NoIdleSlot
  BY TeardownAssumption, FS_EmptySet DEF Init, NoIdleSlot
<1>9. Unsubmitted
  BY DEF Init, Unsubmitted
<1>10. AbortsLate
  BY <1>3 DEF Init, AbortsLate
<1>11. NewBeforeAbort
  BY DEF Init, NewBeforeAbort
<1>12. Active
  BY <1>1, AboutNone DEF Init, Active
<1>13. QED
  BY <1>4, <1>5, <1>6, <1>7, <1>8, <1>9, <1>10, <1>11, <1>12 DEF Inv

-----------------------------------------------------------------------------
(* Steps that leave every request in its place *)

\* The data worker's channel to the conductor has lost or gained no request and gained no abort.
Calm ==
    /\ DOMAIN toC' = Entities /\ toC'[Data] \in Seq(Notes) /\ Orderly(toC'[Data])
    /\ Announced' = Announced /\ Aborted' \subseteq Aborted

\* Nothing begins for a request that has not passed.
Tame ==
    /\ DOMAIN reads' = Entities /\ DOMAIN chunk' = Rids
    /\ DOMAIN work' = Workers /\ \A w \in Workers : DOMAIN work'[w] = Rids
    /\ fromC' \in [Entities -> Seq(Notes)]
    /\ \A e \in Entities : About(fromC'[e]) \subseteq About(fromC[e])
    /\ \A r \in Rids : chunk'[r] # "none" => r \in Passed
    /\ \A w \in Workers : \A r \in Rids : work'[w][r] # "none" => r \in Passed
    /\ reads'[Data] \cap Rids \subseteq Passed

Frame ==
    /\ UNCHANGED <<fresh, inq, prep, waiting, aborts, requests, draining, failing, admitting, up, verdicts>>
    /\ pend' \subseteq pend /\ done \subseteq done' /\ recent' \subseteq recent \cup pend
    /\ earlyAbort' \subseteq earlyAbort
    /\ Calm /\ Tame

LEMMA FrameKeeps == Inv /\ Frame => Inv'
<1> SUFFICES ASSUME Inv, Frame PROVE Inv'
  OBVIOUS
<1>1. /\ fresh' = fresh /\ Queued' = Queued /\ Prepping' = Prepping /\ Announced' = Announced
      /\ Waits' = Waits /\ requests' = requests /\ draining' = draining /\ failing' = failing
      /\ Passed' = Passed /\ Aborted' \subseteq Aborted /\ earlyAbort' \subseteq earlyAbort
  BY DEF Frame, Calm, Queued, Prepping, Waits, Passed
<1>2. Typed'
  BY DEF Inv, Typed, Frame, Calm, Tame
<1>3. Distinct'
  BY DEF Inv, Distinct, Frame, Calm
<1>4. OnePlace'
  BY <1>1 DEF Inv, OnePlace
<1>5. Told'
  BY <1>1 DEF Inv, Told, ToldOnce, Frame
<1>6. NoIdleSlot'
  BY DEF Inv, NoIdleSlot, Full, Frame
<1>7. Unsubmitted'
  BY <1>1 DEF Inv, Unsubmitted, Frame
<1>8. AbortsLate'
  <2>1. \A r \in Rids : Late(r) => Late(r)'
    BY <1>1 DEF Late, IsPending, Frame
  <2>2. QED
    BY <1>1, <2>1 DEF Inv, AbortsLate, Frame
<1>9. NewBeforeAbort'
  <2>1. earlyAbort \subseteq Rids /\ earlyAbort' \subseteq Rids
    BY <1>1 DEF Inv, Typed
  <2>2. earlyAbort \cap (Announced \cup Waits \cup requests) = {}
    BY <2>1, EarlyAreAbsent DEF Inv
  <2>3. \A r \in earlyAbort' : r \notin Announced' \cup Waits' \cup requests'
    BY <2>2, <1>1
  <2>4. QED
    BY <2>1, <2>3 DEF NewBeforeAbort, Announced, Waits, Of
<1>10. Active'
  BY <1>1 DEF Inv, Active, Frame, Tame
<1>11. QED
  BY <1>2, <1>3, <1>4, <1>5, <1>6, <1>7, <1>8, <1>9, <1>10 DEF Inv

-----------------------------------------------------------------------------
(* The channel of the data worker *)

LEMMA CalmSame == ASSUME Inv, toC' = toC PROVE Calm
  BY DEF Calm, Inv, Typed, Distinct, Announced, Aborted

LEMMA CalmElsewhere ==
    ASSUME Inv, DOMAIN toC' = Entities, toC'[Data] = toC[Data]
    PROVE  Calm
  BY DEF Calm, Inv, Typed, Distinct, Announced, Aborted

LEMMA CalmTell ==
    ASSUME Inv, NEW w \in Workers, NEW k, NEW r, Tell(w, k, r)
    PROVE  Calm
<1>1. DOMAIN toC' = Entities /\ toC'[Data] = toC[Data]
  BY Cast DEF Inv, Typed, Tell
<1>2. QED
  BY <1>1, CalmElsewhere

LEMMA CalmTake ==
    ASSUME Inv, NEW w \in Workers, Take(w)
    PROVE  Calm
<1>1. DOMAIN toC' = Entities /\ toC'[Data] = toC[Data]
  BY Cast DEF Inv, Typed, Take
<1>2. QED
  BY <1>1, CalmElsewhere

LEMMA CalmReadsDone ==
    ASSUME Inv, NEW r \in Rids, DOMAIN toC' = Entities,
           toC'[Data] = Append(toC[Data], Msg("reads_done", r))
    PROVE  Calm
<1>1. toC[Data] \in Seq(Notes) /\ Orderly(toC[Data]) /\ Msg("reads_done", r) \in Notes
  BY MsgIsNote DEF Inv, Typed, Distinct
<1>2. Orderly(toC'[Data])
  BY <1>1, OrderlyAppend
<1>3. /\ toC'[Data] \in Seq(Notes) /\ Of(toC'[Data], "new") = Of(toC[Data], "new")
      /\ Of(toC'[Data], "abort") = Of(toC[Data], "abort")
  <2>1. \A l : Of(toC'[Data], l) = Of(toC[Data], l) \cup (IF "reads_done" = l THEN {r} ELSE {})
    BY <1>1, OfAppend
  <2>2. toC'[Data] \in Seq(Notes)
    BY <1>1, OfAppend
  <2>3. QED
    BY <2>1, <2>2
<1>4. QED
  BY <1>2, <1>3 DEF Calm, Announced, Aborted

LEMMA DataTells ==
    ASSUME Inv, NEW r \in Rids, DataTell(r, <<>>)
    PROVE  Calm
<1>1. toC[Data] \in Seq(Notes) /\ Msg("reads_done", r) \in Notes /\ DOMAIN toC = Entities /\ Data \in Entities
  BY MsgIsNote, Cast DEF Inv, Typed
<1>2. toC[Data] \o <<>> = toC[Data] /\ toC[Data] \o <<Msg("reads_done", r)>> = Append(toC[Data], Msg("reads_done", r))
  BY <1>1, ConcatNone, ConcatOne
<1>3. DOMAIN toC' = Entities
  BY <1>1 DEF DataTell
<1>4. toC'[Data] = toC[Data] \/ toC'[Data] = Append(toC[Data], Msg("reads_done", r))
  BY <1>1, <1>2 DEF DataTell
<1>5. QED
  BY <1>3, <1>4, CalmReadsDone, CalmElsewhere

-----------------------------------------------------------------------------
(* The workers *)

\* What a worker's handlers do to the state the invariant is about.
Handles(w, r) ==
    /\ reads' = reads \/ reads' = Add(reads, w, r) \/ reads' = Del(reads, w, r)
    /\ \/ work' = work
       \/ work' = [work EXCEPT ![w][r] = "none"]
       \/ work' = [work EXCEPT ![w][r] = "inputs"] /\ r \in About(fromC[w])
       \/ work' = [work EXCEPT ![w][r] = "step"] /\ work[w][r] = "inputs" /\ r \in Rids
    /\ toC' = toC \/ \E k : Tell(w, k, r)

LEMMA DrainHandles == ASSUME NEW w \in Workers, NEW r, DrainRequest(w, r) PROVE Handles(w, r)
  BY DEF DrainRequest, BeginDrain, CompleteDrain, Handles

LEMMA RemovalHandles ==
    ASSUME NEW w \in Workers, NEW r, UNCHANGED <<reads, toC>>, Removal(w, r) \/ RemoveHeld(w, r)
    PROVE  Handles(w, r)
<1>1. work' = work \/ work' = [work EXCEPT ![w][r] = "none"]
  BY DEF RemoveHeld, Removal
<1>2. QED
  BY <1>1 DEF Handles

LEMMA NewHandles ==
    ASSUME NEW w \in Workers, NEW r \in About(fromC[w]),
           NewRequest(w, r) \/ NewInputs(w, r) \/ RemoveMessage(w, r)
    PROVE  Handles(w, r)
<1>1. CASE NewRefused(w, r)
  BY <1>1 DEF NewRefused, Handles, partVars, workVars
<1>2. CASE NewTaken(w, r)
  BY <1>2 DEF NewTaken, TakeInputs, Handles
<1>3. CASE NewFails(w, r)
  BY <1>3 DEF NewFails, Fail, partVars, Handles
<1>4. CASE NewParked(w, r)
  BY <1>4 DEF NewParked, Handles
<1>5. CASE NewInputs(w, r)
  BY <1>5 DEF NewInputs, TakeInputs, Handles
<1>6. CASE RemoveMessage(w, r)
  <2>1. reads' = reads /\ toC' = toC
    BY <1>6 DEF RemoveMessage
  <2>2. work' = work \/ RemoveHeld(w, r)
    BY <1>6 DEF RemoveMessage
  <2>3. QED
    BY <2>1, <2>2, RemovalHandles DEF Handles
<1>7. QED
  BY <1>1, <1>2, <1>3, <1>4, <1>5, <1>6 DEF NewRequest

LEMMA FollowHandles == ASSUME NEW w \in Workers, NEW r, FollowRemove(w, r) PROVE Handles(w, r)
<1>1. reads' = reads /\ toC' = toC
  BY DEF FollowRemove, partVars
<1>2. work' = work \/ RemoveHeld(w, r)
  BY DEF FollowRemove, workVars
<1>3. QED
  BY <1>1, <1>2, RemovalHandles DEF Handles

LEMMA HandledFrame ==
    ASSUME Inv, NEW w \in Workers, NEW r, Handles(w, r),
           chunk' = chunk \/ (r \in Rids /\ work[w][r] = "step" /\ chunk' = [chunk EXCEPT ![r] = "sent"]),
           fromC' = fromC \/ (fromC[w] # <<>> /\ fromC' = [fromC EXCEPT ![w] = Tail(@)]),
           UNCHANGED <<fresh, pend, done, recent, inq, prep, aborts, requests, waiting, draining,
                       failing, admitting, earlyAbort, up, verdicts>>
    PROVE  Frame
<1>1. Calm
  BY CalmSame, CalmTell DEF Handles
<1>2. DOMAIN reads' = Entities /\ reads'[Data] = reads[Data]
  BY Cast DEF Handles, Add, Del, Inv, Typed
<1>3. \A e \in Entities : fromC'[e] \in Seq(Notes) /\ About(fromC'[e]) \subseteq About(fromC[e])
  <2>1. fromC[w] # <<>> => Tail(fromC[w]) \in Seq(Notes) /\ About(Tail(fromC[w])) \subseteq About(fromC[w])
    BY Cast, AboutTail DEF Inv, Typed
  <2>2. QED
    BY <2>1 DEF Inv, Typed
<1>4. fromC' \in [Entities -> Seq(Notes)]
  BY <1>3 DEF Inv, Typed
<1>5. DOMAIN work' = Workers /\ \A v \in Workers : DOMAIN work'[v] = Rids
  BY DEF Handles, Inv, Typed
<1>6. \A v \in Workers : \A q \in Rids : work'[v][q] # "none" => q \in Passed
  <2> SUFFICES ASSUME NEW v \in Workers, NEW q \in Rids, work'[v][q] # "none" PROVE q \in Passed
    OBVIOUS
  <2>1. /\ DOMAIN work = Workers /\ DOMAIN work[v] = Rids /\ DOMAIN work[w] = Rids
        /\ work[v][q] # "none" => q \in Passed
        /\ About(fromC[w]) \subseteq Passed
    BY Cast DEF Inv, Typed, Active
  <2>2. work'[v][q] = work[v][q] \/ (q = r /\ v = w)
    BY <2>1 DEF Handles
  <2>3. CASE q = r /\ v = w
    BY <2>1, <2>3 DEF Handles
  <2>4. QED
    BY <2>1, <2>2, <2>3
<1>7. DOMAIN chunk' = Rids /\ \A q \in Rids : chunk'[q] # "none" => q \in Passed
  <2>1. /\ DOMAIN chunk = Rids
        /\ \A q \in Rids : (chunk[q] # "none" => q \in Passed) /\ (work[w][q] # "none" => q \in Passed)
    BY DEF Inv, Typed, Active
  <2>2. QED
    BY <2>1
<1>8. Tame
  BY <1>2, <1>3, <1>4, <1>5, <1>6, <1>7 DEF Tame, Inv, Active
<1>9. QED
  BY <1>1, <1>8 DEF Frame

LEMMA WorkerReceiveFrame == ASSUME Inv, NEW w \in Workers, WorkerReceive(w) PROVE Frame
<1>1. PICK m : m = Head(fromC[w])
  OBVIOUS
<1>2. fromC[w] \in Seq(Notes) /\ fromC[w] # <<>>
  BY Cast DEF Inv, Typed, WorkerReceive
<1>3. m.rid \in About(fromC[w])
  BY <1>1, <1>2, AboutTail
<1>4. \/ NewRequest(w, m.rid) \/ NewInputs(w, m.rid) \/ DrainRequest(w, m.rid) \/ RemoveMessage(w, m.rid)
      \/ UNCHANGED <<partVars, workVars, toC>>
  BY <1>1 DEF WorkerReceive
<1>5. Handles(w, m.rid)
  BY <1>3, <1>4, NewHandles, DrainHandles DEF Handles, partVars, workVars
<1>6. QED
  BY <1>2, <1>5, HandledFrame DEF WorkerReceive, workerUnchanged, apiVars, dataVars, condVars, hist, outVars

LEMMA FollowerReceiveFrame == ASSUME Inv, NEW w \in Workers, FollowerReceive(w) PROVE Frame
<1>1. PICK m : m = Head(fwd[w])
  OBVIOUS
<1>2. \/ UNCHANGED <<partVars, held, work, spec, failed, pendDrain, pendRemove, parked, freed, toC>>
      \/ DrainRequest(w, m.rid) \/ FollowRemove(w, m.rid)
  BY <1>1 DEF FollowerReceive
<1>3. Handles(w, m.rid)
  BY <1>2, DrainHandles, FollowHandles DEF Handles, partVars
<1>4. QED
  BY <1>3, HandledFrame DEF FollowerReceive, workerUnchanged, apiVars, dataVars, condVars, hist, outVars

LEMMA HeldBackFrame ==
    ASSUME Inv, NEW w \in Workers, ApplyRemove(w) \/ ApplyDrain(w) \/ FollowerRemoves(w)
    PROVE  Frame
<1>1. CASE ApplyRemove(w)
  <2>1. PICK r : Removal(w, r)
    BY <1>1 DEF ApplyRemove
  <2>2. Handles(w, r)
    BY <1>1, <2>1, RemovalHandles DEF ApplyRemove
  <2>3. QED
    BY <1>1, <2>2, HandledFrame DEF ApplyRemove, workerUnchanged, apiVars, dataVars, condVars, hist, outVars
<1>2. CASE ApplyDrain(w)
  <2>1. PICK r : BeginDrain(w, r)
    BY <1>2 DEF ApplyDrain
  <2>2. Handles(w, r)
    BY <1>2, <2>1 DEF ApplyDrain, BeginDrain, CompleteDrain, Handles
  <2>3. QED
    BY <1>2, <2>2, HandledFrame DEF ApplyDrain, workerUnchanged, apiVars, dataVars, condVars, hist, outVars
<1>3. CASE FollowerRemoves(w)
  <2>1. PICK r : r = Head(tpq[w]).rid
    OBVIOUS
  <2>2. Handles(w, r)
    BY <1>3, <2>1, RemovalHandles DEF FollowerRemoves
  <2>3. QED
    BY <1>3, <2>2, HandledFrame DEF FollowerRemoves, workerUnchanged, apiVars, dataVars, condVars, hist, outVars
<1>4. QED
  BY <1>1, <1>2, <1>3

LEMMA TurnFrame ==
    ASSUME Inv, NEW w \in Workers, NEW r \in Rids,
           \/ DrainTurn(w, r) \/ StepStarts(w, r) \/ StepFollows(w, r) \/ StepEnds(w, r)
           \/ SpecFollows(w, r) \/ SpecEnds(w, r) \/ ReadEnds(w, r) \/ WorkerItem(w, r)
           \/ StepFails(w, r) \/ ReadFails(w, r)
    PROVE  Frame
<1>1. CASE DrainTurn(w, r)
  <2>1. Handles(w, r)
    BY <1>1 DEF DrainTurn, CompleteDrain, Handles, partVars, workVars
  <2>2. chunk' = chunk \/ (work[w][r] = "step" /\ chunk' = [chunk EXCEPT ![r] = "sent"])
    BY <1>1 DEF DrainTurn, outVars
  <2>3. QED
    BY <1>1, <2>1, <2>2, HandledFrame DEF DrainTurn, workerUnchanged, apiVars, dataVars, condVars, hist
<1>2. CASE StepStarts(w, r)
  <2>1. Handles(w, r)
    BY <1>2 DEF StepStarts, Ready, Handles, partVars, workVars
  <2>2. chunk' = chunk \/ (work[w][r] = "step" /\ chunk' = [chunk EXCEPT ![r] = "sent"])
    BY <1>2 DEF StepStarts, outVars
  <2>3. QED
    BY <1>2, <2>1, <2>2, HandledFrame DEF StepStarts, workerUnchanged, apiVars, dataVars, condVars, hist
<1>3. CASE StepFollows(w, r)
  <2>1. Handles(w, r)
    BY <1>3 DEF StepFollows, Ready, Handles, partVars, workVars
  <2>2. chunk' = chunk \/ (work[w][r] = "step" /\ chunk' = [chunk EXCEPT ![r] = "sent"])
    BY <1>3 DEF StepFollows, outVars
  <2>3. QED
    BY <1>3, <2>1, <2>2, HandledFrame DEF StepFollows, workerUnchanged, apiVars, dataVars, condVars, hist
<1>4. CASE StepEnds(w, r)
  <2>1. Handles(w, r)
    BY <1>4 DEF StepEnds, Handles, partVars, workVars
  <2>2. chunk' = chunk \/ (work[w][r] = "step" /\ chunk' = [chunk EXCEPT ![r] = "sent"])
    BY <1>4 DEF StepEnds, outVars
  <2>3. QED
    BY <1>4, <2>1, <2>2, HandledFrame DEF StepEnds, workerUnchanged, apiVars, dataVars, condVars, hist
<1>5. CASE SpecFollows(w, r)
  <2>1. Handles(w, r)
    BY <1>5 DEF SpecFollows, Handles, partVars, workVars
  <2>2. chunk' = chunk \/ (work[w][r] = "step" /\ chunk' = [chunk EXCEPT ![r] = "sent"])
    BY <1>5 DEF SpecFollows, outVars
  <2>3. QED
    BY <1>5, <2>1, <2>2, HandledFrame DEF SpecFollows, workerUnchanged, apiVars, dataVars, condVars, hist
<1>6. CASE SpecEnds(w, r)
  <2>1. Handles(w, r)
    BY <1>6 DEF SpecEnds, Handles, partVars, workVars
  <2>2. chunk' = chunk \/ (work[w][r] = "step" /\ chunk' = [chunk EXCEPT ![r] = "sent"])
    BY <1>6 DEF SpecEnds, outVars
  <2>3. QED
    BY <1>6, <2>1, <2>2, HandledFrame DEF SpecEnds, workerUnchanged, apiVars, dataVars, condVars, hist
<1>7. CASE ReadEnds(w, r)
  <2>1. Handles(w, r)
    BY <1>7 DEF ReadEnds, Handles, partVars, workVars
  <2>2. chunk' = chunk \/ (work[w][r] = "step" /\ chunk' = [chunk EXCEPT ![r] = "sent"])
    BY <1>7 DEF ReadEnds, outVars
  <2>3. QED
    BY <1>7, <2>1, <2>2, HandledFrame DEF ReadEnds, workerUnchanged, apiVars, dataVars, condVars, hist
<1>8. CASE WorkerItem(w, r)
  <2>1. Handles(w, r)
    BY <1>8 DEF WorkerItem, Handles, partVars, workVars
  <2>2. chunk' = chunk \/ (work[w][r] = "step" /\ chunk' = [chunk EXCEPT ![r] = "sent"])
    BY <1>8 DEF WorkerItem, outVars
  <2>3. QED
    BY <1>8, <2>1, <2>2, HandledFrame DEF WorkerItem, workerUnchanged, apiVars, dataVars, condVars, hist
<1>9. CASE StepFails(w, r)
  <2>1. Handles(w, r)
    BY <1>9 DEF StepFails, Fail, Handles, partVars, workVars
  <2>2. chunk' = chunk \/ (work[w][r] = "step" /\ chunk' = [chunk EXCEPT ![r] = "sent"])
    BY <1>9 DEF StepFails, outVars
  <2>3. QED
    BY <1>9, <2>1, <2>2, HandledFrame DEF StepFails, workerUnchanged, apiVars, dataVars, condVars, hist
<1>10. CASE ReadFails(w, r)
  <2>1. Handles(w, r)
    BY <1>10 DEF ReadFails, Fail, Handles, partVars, workVars
  <2>2. chunk' = chunk \/ (work[w][r] = "step" /\ chunk' = [chunk EXCEPT ![r] = "sent"])
    BY <1>10 DEF ReadFails, outVars
  <2>3. QED
    BY <1>10, <2>1, <2>2, HandledFrame DEF ReadFails, workerUnchanged, apiVars, dataVars, condVars, hist
<1>11. QED
  BY <1>1, <1>2, <1>3, <1>4, <1>5, <1>6, <1>7, <1>8, <1>9, <1>10

LEMMA WorkerFrame == ASSUME Inv, NEW w \in Workers, WorkerNext(w) PROVE Frame
  BY WorkerReceiveFrame, FollowerReceiveFrame, HeldBackFrame, TurnFrame DEF WorkerNext

-----------------------------------------------------------------------------
(* The API server and the data worker, where they move no request *)

LEMMA TameSame ==
    ASSUME Inv, UNCHANGED <<chunk, work, reads, fromC>>
    PROVE  Tame
  BY DEF Tame, Inv, Typed, Active

LEMMA ClientLeavesFrame == ASSUME Inv, NEW r \in Rids, ClientLeaves(r) PROVE Frame
<1>1. Calm
  BY CalmSame DEF ClientLeaves
<1>2. Tame
  BY TameSame DEF ClientLeaves, outVars, partVars, workVars
<1>3. QED
  BY <1>1, <1>2 DEF Frame, ClientLeaves, apiVars, dataVars, condVars, hist

LEMMA ApiVerdictFrame == ASSUME Inv, ApiVerdict PROVE Frame
<1>1. Calm
  BY CalmSame DEF ApiVerdict
<1>2. Tame
  BY TameSame DEF ApiVerdict, outVars, partVars, workVars
<1>3. QED
  BY <1>1, <1>2 DEF Frame, ApiVerdict, apiVars, dataVars, condVars, hist

LEMMA ApiErrorFrame == ASSUME Inv, NEW r \in Rids, ApiError(r) PROVE Frame
<1>1. Calm
  BY CalmSame DEF ApiError
<1>2. Tame
  BY TameSame DEF ApiError, outVars, partVars, workVars
<1>3. QED
  BY <1>1, <1>2 DEF Frame, ApiError, apiVars, dataVars, condVars, hist

LEMMA PruneFrame == ASSUME Inv, NEW r \in Rids, Prune(r) PROVE Frame
<1>1. Calm
  BY CalmSame DEF Prune
<1>2. Tame
  BY TameSame DEF Prune, outVars, partVars, workVars
<1>3. QED
  BY <1>1, <1>2 DEF Frame, Prune, apiVars, dataVars, condVars, hist

LEMMA ConductorExitedFrame == ASSUME Inv, ConductorExited PROVE Frame
<1>1. Calm
  BY CalmSame DEF ConductorExited
<1>2. Tame
  BY TameSame DEF ConductorExited, outVars, partVars, workVars
<1>3. QED
  BY <1>1, <1>2 DEF Frame, ConductorExited, apiVars, dataVars, condVars, hist

\* An output that is there already moves on.
LEMMA TameChunk ==
    ASSUME Inv, NEW r \in Rids, chunk[r] # "none" \/ r \in reads[Data],
           \E v : chunk' = [chunk EXCEPT ![r] = v],
           reads' = reads \/ reads' = Add(reads, Data, r) \/ reads' = Del(reads, Data, r),
           UNCHANGED <<work, fromC>>
    PROVE  Tame
<1>1. r \in Passed
  BY DEF Inv, Active
<1>2. DOMAIN chunk' = Rids /\ \A q \in Rids : q = r \/ chunk'[q] = chunk[q]
  BY DEF Inv, Typed
<1>3. DOMAIN reads' = Entities /\ reads'[Data] \subseteq reads[Data] \cup {r}
  BY Cast DEF Inv, Typed, Add, Del
<1>4. QED
  BY <1>1, <1>2, <1>3 DEF Tame, Inv, Typed, Active

LEMMA ApiResultFrame == ASSUME Inv, NEW r \in Rids, ApiResult(r) PROVE Frame
<1>1. Calm
  BY CalmSame DEF ApiResult
<1>2. Tame
  BY TameChunk DEF ApiResult, partVars, workVars
<1>3. QED
  BY <1>1, <1>2 DEF Frame, ApiResult, apiVars, dataVars, condVars, hist

LEMMA DataResultFrame == ASSUME Inv, NEW r \in Rids, DataResult(r) PROVE Frame
<1>1. Calm
  BY CalmSame DEF DataResult
<1>2. Tame
  BY TameChunk DEF DataResult, workVars
<1>3. QED
  BY <1>1, <1>2 DEF Frame, DataResult, apiVars, dataVars, condVars, hist

LEMMA DataReadEndsFrame == ASSUME Inv, NEW r \in Rids, DataReadEnds(r) PROVE Frame
<1>1. Calm
  <2>1. CASE toC' = toC
    BY <2>1, CalmSame
  <2>2. CASE Tell(Data, "reads_done", r)
    <3>1. DOMAIN toC' = Entities /\ toC'[Data] = Append(toC[Data], Msg("reads_done", r))
      BY <2>2, Cast DEF Tell, Inv, Typed
    <3>2. QED
      BY <3>1, CalmReadsDone
  <2>3. QED
    BY <2>1, <2>2 DEF DataReadEnds
<1>2. Tame
  BY TameChunk DEF DataReadEnds, workVars
<1>3. QED
  BY <1>1, <1>2 DEF Frame, DataReadEnds, apiVars, dataVars, condVars, hist

LEMMA DataReleaseFrame == ASSUME Inv, NEW r \in Rids, DataRelease(r) PROVE Frame
<1>1. Calm
  BY CalmSame, DataTells DEF DataRelease
<1>2. Tame
  BY TameSame DEF DataRelease, outVars, workVars
<1>3. QED
  BY <1>1, <1>2 DEF Frame, DataRelease, apiVars, condVars, hist

LEMMA DataAppendFrame == ASSUME Inv, NEW r \in Rids, DataAppend(r) PROVE Frame
<1>1. Calm
  BY CalmSame DEF DataAppend
<1>2. Tame
  BY TameSame DEF DataAppend, outVars, partVars, workVars
<1>3. QED
  BY <1>1, <1>2 DEF Frame, DataAppend, apiVars, condVars, hist

LEMMA DataReceiveFrame == ASSUME Inv, DataReceive PROVE Frame
<1>1. fromC[Data] \in Seq(Notes) /\ fromC[Data] # <<>>
  BY Cast DEF Inv, Typed, DataReceive
<1>2. PICK r \in Rids : r = Head(fromC[Data]).rid
  BY <1>1, AboutTail
<1>3. Calm
  <2>1. toC' = toC \/ DataTell(r, <<>>)
    BY <1>2 DEF DataReceive
  <2>2. QED
    BY <2>1, CalmSame, DataTells
<1>4. Tail(fromC[Data]) \in Seq(Notes) /\ About(Tail(fromC[Data])) \subseteq About(fromC[Data])
  BY <1>1, AboutTail
<1>5. fromC' = [fromC EXCEPT ![Data] = Tail(@)] /\ UNCHANGED <<chunk, work, reads>>
  BY DEF DataReceive, outVars, workVars
<1>6. fromC' \in [Entities -> Seq(Notes)] /\ \A e \in Entities : About(fromC'[e]) \subseteq About(fromC[e])
  BY <1>4, <1>5 DEF Inv, Typed
<1>7. Tame
  BY <1>5, <1>6 DEF Tame, Inv, Typed, Active
<1>8. QED
  BY <1>3, <1>7 DEF Frame, DataReceive, apiVars, condVars, hist

-----------------------------------------------------------------------------
(* The conductor *)

ConductorSame == UNCHANGED <<fresh, pend, done, recent, inq, prep, aborts, chunk, work, reads, up>>

\* r is neither announced nor waiting any more, and nothing else came.
Quits(r) ==
    /\ waiting' \in Seq(Rids) /\ NoDup(waiting')
    /\ DOMAIN toC' = Entities /\ toC'[Data] \in Seq(Notes) /\ Orderly(toC'[Data])
    /\ Aborted' \subseteq Aborted
    /\ Announced' \subseteq Announced \ {r} /\ Waits' \subseteq Waits \ {r}

LEMMA ConductorCommon ==
    ASSUME Inv, ConductorSame, NEW r \in Rids, Posted(r), fromC' = fromC \/ r \in Passed
    PROVE  /\ fresh' = fresh /\ Queued' = Queued /\ Prepping' = Prepping /\ Passed' = Passed
           /\ Unsubmitted' /\ Active'
           /\ \A q \in Rids : Late(q) => Late(q)'
<1>1. fresh' = fresh /\ Queued' = Queued /\ Prepping' = Prepping /\ Passed' = Passed
  BY DEF ConductorSame, Queued, Prepping, Passed
<1>2. Unsubmitted'
  BY DEF ConductorSame, Inv, Unsubmitted
<1>3. Active'
  <2>1. \A e \in Entities : About(fromC'[e]) \subseteq Passed
    BY DEF Posted, Inv, Active
  <2>2. QED
    BY <1>1, <2>1 DEF Inv, Active, ConductorSame
<1>4. \A q \in Rids : Late(q) => Late(q)'
  BY <1>1 DEF Late, IsPending, ConductorSame
<1>5. QED
  BY <1>1, <1>2, <1>3, <1>4

LEMMA PlacesOfPassed ==
    ASSUME Inv, NEW r \in Rids, r \in Announced \cup Waits \cup requests
    PROVE  r \in Passed
  BY DEF Inv, OnePlace, Passed

LEMMA NoWaits == ASSUME waiting \in Seq(Rids) PROVE waiting # <<>> <=> Waits # {}
<1>1. CASE waiting # <<>>
  <2>1. Head(waiting) \in Range(waiting)
    BY <1>1, RangeTail
  <2>2. QED
    BY <1>1, <2>1 DEF Waits
<1>2. CASE waiting = <<>>
  BY <1>2 DEF Waits, Range
<1>3. QED
  BY <1>1, <1>2

\* The slots of the conductor are counted.
LEMMA SlotTaken ==
    ASSUME Inv, NEW r \in Rids, ~Full \/ r \in requests
    PROVE  Cardinality(requests \cup {r}) <= Capacity
<1>1. IsFiniteSet(requests) /\ Capacity \in Nat /\ Cardinality(requests) \in Nat
  BY TeardownAssumption, FS_Subset, FS_CardinalityType DEF Inv, Typed
<1>2. CASE r \in requests
  <2>1. requests \cup {r} = requests
    BY <1>2
  <2>2. QED
    BY <2>1 DEF Inv, NoIdleSlot
<1>3. CASE r \notin requests
  <2>1. Cardinality(requests \cup {r}) = Cardinality(requests) + 1
    BY <1>1, <1>3, FS_AddElement
  <2>2. QED
    BY <1>1, <1>3, <2>1 DEF Full
<1>4. QED
  BY <1>2, <1>3

LEMMA SlotFreed == ASSUME Inv, NEW r \in Rids PROVE Cardinality(requests \ {r}) <= Capacity
<1>1. IsFiniteSet(requests) /\ Capacity \in Nat /\ Cardinality(requests) \in Nat
  BY TeardownAssumption, FS_Subset, FS_CardinalityType DEF Inv, Typed
<1>2. Cardinality(requests \ {r}) <= Cardinality(requests) /\ Cardinality(requests \ {r}) \in Nat
  BY <1>1, FS_Subset, FS_CardinalityType
<1>3. QED
  BY <1>1, <1>2 DEF Inv, NoIdleSlot

(***************************************************************************)
(* A request that has not been answered and leaves its place enters the    *)
(* conductor's table, is refused, drains or leaves.                        *)
(***************************************************************************)
LEMMA OutcomeKeeps ==
    ASSUME Inv, ConductorSame, up, NEW r \in Rids, Quits(r), Posted(r), earlyAbort' = earlyAbort,
           r \in Announced \cup Waits \cup (requests \ draining),
           \/ r \notin requests /\ Refused(r)
           \/ r \notin requests /\ ~Full /\ (Enters(r) \/ Drains(r) \/ Leaves(r))
           \/ r \in requests /\ (Drains(r) \/ Leaves(r))
    PROVE  Inv'
<1>1. r \in Passed
  BY PlacesOfPassed
<1>2. /\ fresh' = fresh /\ Queued' = Queued /\ Prepping' = Prepping
      /\ Unsubmitted' /\ Active' /\ \A q \in Rids : Late(q) => Late(q)'
  BY <1>1, ConductorCommon
<1>3. requests' \subseteq requests \cup {r}
  BY DEF Enters, Refused, Drains, Leaves
<1>4. verdicts' \in [Rids -> Nat]
  BY DEF Enters, Refused, Drains, Leaves, Bumped, Inv, Typed
<1>5. Typed'
  <2>1. requests' \subseteq Rids /\ draining' \subseteq requests' /\ failing' \subseteq draining' /\ admitting' \in BOOLEAN
    BY DEF Enters, Refused, Drains, Leaves, Inv, Typed
  <2>2. QED
    BY <1>4, <2>1 DEF Inv, Typed, ConductorSame, Quits, Posted
<1>6. Distinct'
  BY DEF Inv, Distinct, ConductorSame, Quits
<1>7. OnePlace'
  <2>1. requests' \subseteq requests \cup {r} /\ Announced' \subseteq Announced \ {r} /\ Waits' \subseteq Waits \ {r}
    BY <1>3 DEF Quits
  <2>2. QED
    BY <1>1, <1>2, <2>1 DEF Inv, OnePlace, Passed
<1>8. Told'
  <2>1. verdicts[r] = 0
    BY DEF Inv, Told, Typed
  <2>2. \A q \in Rids : q # r => verdicts'[q] = verdicts[q]
    BY DEF Enters, Refused, Drains, Leaves, Bumped, Inv, Typed
  <2>3. verdicts'[r] = 0 \/ verdicts'[r] = 1
    BY <2>1 DEF Enters, Refused, Drains, Leaves, Bumped, Inv, Typed
  <2>4. ToldOnce'
    BY <2>2, <2>3 DEF Inv, Told, ToldOnce
  <2>5. /\ Announced' \subseteq Announced /\ Waits' \subseteq Waits
        /\ requests' \ draining' \subseteq (requests \ draining) \cup {r} /\ failing' \subseteq failing \cup {r}
    BY <1>3 DEF Quits, Enters, Refused, Drains, Leaves
  <2>6. ASSUME NEW q \in Rids, q # r, verdicts'[q] # 0
        PROVE  q \notin fresh' \cup Queued' \cup Prepping' \cup Announced' \cup Waits'
                        \cup (requests' \ draining') \cup failing'
    BY <1>2, <2>2, <2>5, <2>6 DEF Inv, Told
  <2>7. ASSUME verdicts'[r] # 0
        PROVE  r \notin fresh' \cup Queued' \cup Prepping' \cup Announced' \cup Waits'
                        \cup (requests' \ draining') \cup failing'
    <3>1. r \notin fresh' \cup Queued' \cup Prepping' \cup Announced' \cup Waits'
      BY <1>1, <1>2 DEF Quits, Passed
    <3>2. verdicts' # verdicts
      BY <2>1, <2>7
    <3>3. r \in requests \ draining \/ r \notin requests
      BY DEF Inv, OnePlace
    <3>4. r \notin failing
      BY <3>3 DEF Inv, Typed
    <3>5. r \notin (requests' \ draining') \cup failing'
      <4>1. CASE Refused(r)
        <5>1. CASE r \notin requests
          BY <5>1, <3>4, <4>1 DEF Refused
        <5>2. CASE r \in requests /\ (Drains(r) \/ Leaves(r))
          BY <5>2, <3>2, <3>4 DEF Drains, Leaves
        <5>3. QED
          BY <5>1, <5>2
      <4>2. CASE Drains(r)
        BY <3>2, <3>4, <4>2 DEF Drains
      <4>3. CASE Leaves(r)
        BY <4>3 DEF Leaves
      <4>4. CASE Enters(r)
        BY <4>4, <3>2 DEF Enters
      <4>5. QED
        BY <4>1, <4>2, <4>3, <4>4
    <3>6. QED
      BY <3>1, <3>5
  <2>8. QED
    BY <2>4, <2>6, <2>7 DEF Told
<1>9. NoIdleSlot'
  <2>1. CASE Leaves(r)
    BY <2>1, SlotFreed DEF Leaves, NoIdleSlot
  <2>2. CASE ~Leaves(r)
    <3>1. admitting' = admitting /\ (requests' = requests \/ (requests' = requests \cup {r} /\ (r \in requests \/ ~Full)))
      BY <2>2 DEF Enters, Refused, Drains
    <3>2. Cardinality(requests') <= Capacity
      BY <3>1, SlotTaken DEF Inv, NoIdleSlot
    <3>3. ASSUME ~admitting', waiting' # <<>> PROVE Full'
      <4>1. Waits' # {}
        <5>1. Head(waiting') \in Range(waiting')
          BY <3>3, RangeTail DEF Quits
        <5>2. QED
          BY <5>1 DEF Waits
      <4>2. waiting # <<>>
        BY <4>1, NoWaits DEF Quits, Inv, Typed
      <4>3. Full
        BY <3>1, <3>3, <4>2 DEF Inv, NoIdleSlot
      <4>4. requests' = requests
        BY <3>1, <4>3
      <4>5. QED
        BY <4>3, <4>4 DEF Full
    <3>4. QED
      BY <3>2, <3>3 DEF NoIdleSlot
  <2>3. QED
    BY <2>1, <2>2
<1>10. AbortsLate'
  BY <1>2 DEF Inv, AbortsLate, Quits, ConductorSame
<1>11. NewBeforeAbort'
  <2>1. earlyAbort \subseteq Rids /\ earlyAbort \cap (Announced \cup Waits \cup requests) = {}
    BY EarlyAreAbsent DEF Inv, Typed
  <2>2. \A q \in earlyAbort' : q \notin Announced' \cup Waits' \cup requests'
    BY <1>3, <2>1 DEF Quits
  <2>3. QED
    BY <2>1, <2>2 DEF NewBeforeAbort, Announced, Waits, Of
<1>12. QED
  BY <1>2, <1>5, <1>6, <1>7, <1>8, <1>9, <1>10, <1>11 DEF Inv

\* A barrier is over: the client hears a failure that waited for it.
LEMMA BarrierEnds ==
    ASSUME Inv, ConductorSame, up, NEW r \in draining, Calm, Posted(r), UNCHANGED <<waiting, earlyAbort>>,
           Leaves(r), r \notin failing => verdicts' = verdicts
    PROVE  Inv'
<1>1. r \in Rids /\ r \in requests
  BY DEF Inv, Typed
<1>2. r \in Passed
  BY <1>1, PlacesOfPassed
<1>3. /\ fresh' = fresh /\ Queued' = Queued /\ Prepping' = Prepping
      /\ Unsubmitted' /\ Active' /\ \A q \in Rids : Late(q) => Late(q)'
  BY <1>1, <1>2, ConductorCommon
<1>4. Waits' = Waits /\ Announced' = Announced /\ Aborted' \subseteq Aborted /\ requests' \subseteq requests
  BY DEF Waits, Calm, Leaves
<1>5. verdicts' \in [Rids -> Nat] /\ \A q \in Rids : q # r => verdicts'[q] = verdicts[q]
  <2>1. verdicts \in [Rids -> Nat] /\ (verdicts' = verdicts \/ Bumped(r))
    BY DEF Leaves, Inv, Typed
  <2>2. QED
    BY <1>1, <2>1 DEF Bumped
<1>6. Typed'
  <2>1. requests' \subseteq Rids /\ draining' \subseteq requests' /\ failing' \subseteq draining' /\ admitting' \in BOOLEAN
    BY DEF Leaves, Inv, Typed
  <2>2. QED
    BY <1>5, <2>1 DEF Inv, Typed, ConductorSame, Calm, Posted
<1>7. Distinct'
  BY DEF Inv, Distinct, ConductorSame, Calm
<1>8. OnePlace'
  BY <1>3, <1>4 DEF Inv, OnePlace
<1>9. Told'
  <2>1. verdicts'[r] <= 1
    <3>1. CASE r \in failing
      <4>1. verdicts[r] = 0
        BY <1>1, <3>1 DEF Inv, Told, Typed
      <4>2. QED
        BY <1>1, <4>1 DEF Leaves, Bumped, Inv, Typed
    <3>2. CASE r \notin failing
      BY <1>1, <3>2 DEF Inv, Told, ToldOnce
    <3>3. QED
      BY <3>1, <3>2
  <2>2. ToldOnce'
    BY <1>5, <2>1 DEF Inv, Told, ToldOnce
  <2>3. requests' \ draining' \subseteq requests \ draining /\ failing' \subseteq failing \ {r}
    BY DEF Leaves
  <2>4. r \notin fresh' \cup Queued' \cup Prepping' \cup Announced' \cup Waits' \cup (requests' \ draining') \cup failing'
    BY <1>1, <1>3, <1>4, <2>3 DEF Inv, OnePlace
  <2>5. ASSUME NEW q \in Rids, q # r, verdicts'[q] # 0
        PROVE  q \notin fresh' \cup Queued' \cup Prepping' \cup Announced' \cup Waits'
                        \cup (requests' \ draining') \cup failing'
    BY <1>3, <1>4, <1>5, <2>3, <2>5 DEF Inv, Told
  <2>6. QED
    BY <2>2, <2>4, <2>5 DEF Told
<1>10. NoIdleSlot'
  BY <1>1, SlotFreed DEF Leaves, NoIdleSlot
<1>11. AbortsLate'
  BY <1>3, <1>4 DEF Inv, AbortsLate, ConductorSame
<1>12. NewBeforeAbort'
  <2>1. earlyAbort \subseteq Rids /\ earlyAbort \cap (Announced \cup Waits \cup requests) = {}
    BY EarlyAreAbsent DEF Inv, Typed
  <2>2. \A q \in earlyAbort' : q \notin Announced' \cup Waits' \cup requests'
    BY <1>4, <2>1
  <2>3. QED
    BY <2>1, <2>2 DEF NewBeforeAbort, Announced, Waits, Of
<1>13. QED
  BY <1>3, <1>6, <1>7, <1>8, <1>9, <1>10, <1>11, <1>12 DEF Inv

\* Requests leave the channel and the queue, and r may go from the one to the other.
Shifts(r) ==
    /\ waiting' \in Seq(Rids) /\ NoDup(waiting')
    /\ DOMAIN toC' = Entities /\ toC'[Data] \in Seq(Notes) /\ Orderly(toC'[Data])
    /\ Aborted' \subseteq Aborted /\ Announced' \subseteq Announced
    /\ \/ Waits' \subseteq Waits
       \/ Waits' = Waits \cup {r} /\ r \in Announced /\ r \notin Announced' /\ Full

\* An abort that comes when r is nowhere is kept.
KeepsAbort(r) ==
    \/ earlyAbort' = earlyAbort
    \/ earlyAbort' = earlyAbort \cup {r} /\ Late(r) /\ r \notin Announced' \cup Waits' \cup requests

LEMMA StayKeeps ==
    ASSUME Inv, ConductorSame, NEW r \in Rids, Stays, Posted(r), fromC' = fromC \/ r \in Passed,
           Shifts(r), KeepsAbort(r)
    PROVE  Inv'
<1>3. /\ fresh' = fresh /\ Queued' = Queued /\ Prepping' = Prepping
      /\ Unsubmitted' /\ Active' /\ \A q \in Rids : Late(q) => Late(q)'
  BY ConductorCommon
<1>4. requests' = requests /\ draining' = draining /\ failing' = failing /\ verdicts' = verdicts
      /\ admitting' = admitting /\ up' = up /\ Full' = Full
  BY DEF Stays, ConductorSame, Full
<1>5. earlyAbort' \subseteq Rids
  BY DEF Inv, Typed, KeepsAbort
<1>6. Typed'
  BY <1>4, <1>5 DEF Inv, Typed, ConductorSame, Posted, Shifts
<1>7. Distinct'
  BY DEF Inv, Distinct, ConductorSame, Shifts
<1>8. OnePlace'
  BY <1>3, <1>4 DEF Inv, OnePlace, Shifts
<1>9. Told'
  <2>1. Announced' \cup Waits' \subseteq Announced \cup Waits
    BY DEF Shifts
  <2>2. QED
    BY <1>3, <1>4, <2>1 DEF Inv, Told, ToldOnce
<1>10. NoIdleSlot'
  <2>1. waiting' # <<>> => waiting # <<>> \/ Full
    <3>1. CASE Waits' \subseteq Waits
      <4>1. ASSUME waiting' # <<>> PROVE Waits' # {}
        <5>1. Head(waiting') \in Range(waiting')
          BY <4>1, RangeTail DEF Shifts
        <5>2. QED
          BY <5>1 DEF Waits
      <4>2. QED
        BY <4>1, <3>1, NoWaits DEF Inv, Typed
    <3>2. QED
      BY <3>1 DEF Shifts
  <2>2. QED
    BY <1>4, <2>1 DEF Inv, NoIdleSlot
<1>11. AbortsLate'
  BY <1>3 DEF Inv, AbortsLate, ConductorSame, Shifts, KeepsAbort
<1>12. NewBeforeAbort'
  <2>1. earlyAbort \subseteq Rids /\ earlyAbort \cap (Announced \cup Waits \cup requests) = {}
    BY EarlyAreAbsent DEF Inv, Typed
  <2>2. \A q \in earlyAbort' : q \notin Announced' \cup Waits' \cup requests'
    BY <1>4, <2>1 DEF Shifts, KeepsAbort
  <2>3. QED
    BY <1>5, <2>2 DEF NewBeforeAbort, Announced, Waits, Of
<1>13. QED
  BY <1>3, <1>6, <1>7, <1>8, <1>9, <1>10, <1>11, <1>12 DEF Inv

\* The first message of the data worker is taken.
LEMMA TakeData ==
    ASSUME Inv, toC[Data] # <<>>, Take(Data), NEW r, NEW k, Head(toC[Data]).kind = k, Head(toC[Data]).rid = r
    PROVE  /\ r \in Rids
           /\ DOMAIN toC' = Entities /\ toC'[Data] \in Seq(Notes) /\ Orderly(toC'[Data])
           /\ Aborted' \subseteq Aborted /\ Announced' \subseteq Announced
           /\ k = "new" => r \in Announced /\ r \notin Announced'
           /\ k = "abort" => r \in Aborted /\ r \notin Announced'
           /\ k \notin {"new", "abort"} => Calm
<1>1. toC[Data] \in Seq(Notes) /\ Orderly(toC[Data]) /\ DOMAIN toC = Entities /\ Data \in Entities
  BY Cast DEF Inv, Typed, Distinct
<1>2. DOMAIN toC' = Entities /\ toC'[Data] = Tail(toC[Data])
  BY <1>1 DEF Take
<1>3. \A l : Of(toC[Data], l) = Of(Tail(toC[Data]), l) \cup (IF Head(toC[Data]).kind = l THEN {Head(toC[Data]).rid} ELSE {})
  BY <1>1, OfTail
<1>4. Tail(toC[Data]) \in Seq(Notes) /\ Head(toC[Data]) \in Notes
  BY <1>1, RangeTail
<1>5. /\ Orderly(Tail(toC[Data]))
      /\ k \in {"new", "abort"} => r \notin Of(Tail(toC[Data]), "new")
  BY <1>1, OrderlyTail
<1>6. r \in Rids
  BY <1>4, NoteIsMsg
<1>7. /\ Announced = Announced' \cup (IF k = "new" THEN {r} ELSE {})
      /\ Aborted = Aborted' \cup (IF k = "abort" THEN {r} ELSE {})
  BY <1>2, <1>3 DEF Announced, Aborted
<1>8. r \in Announced' => k \notin {"new", "abort"}
  BY <1>2, <1>5 DEF Announced
<1>9. QED
  BY <1>2, <1>4, <1>5, <1>6, <1>7, <1>8 DEF Calm

LEMMA TakeAny ==
    ASSUME Inv, NEW e \in Entities, toC[e] # <<>>, Take(e), Head(toC[e]).kind \notin {"new", "abort"}
    PROVE  Calm
<1>1. CASE e = Data
  BY <1>1, TakeData
<1>2. CASE e # Data
  BY <1>2, CalmTake DEF Entities
<1>3. QED
  BY <1>1, <1>2

LEMMA ReceiveNewKeeps == ASSUME Inv, ReceiveNew PROVE Inv'
<1>1. PICK r : r = Head(toC[Data]).rid
  OBVIOUS
<1>2. /\ up /\ toC[Data] # <<>> /\ Head(toC[Data]).kind = "new" /\ IngestRequest(r) /\ Take(Data)
      /\ ConductorSame
  BY <1>1 DEF ReceiveNew, Idle, ConductorSame, apiVars, outVars, dataVars, partVars, workVars
<1>3. /\ r \in Rids /\ r \in Announced /\ r \notin Announced'
      /\ DOMAIN toC' = Entities /\ toC'[Data] \in Seq(Notes) /\ Orderly(toC'[Data])
      /\ Aborted' \subseteq Aborted /\ Announced' \subseteq Announced
  BY <1>1, <1>2, TakeData
<1>4. r \notin requests /\ r \notin Waits /\ r \notin earlyAbort /\ r \in Passed
  BY <1>3, PlacesOfPassed, EarlyAreAbsent DEF Inv, OnePlace, Typed
<1>5. /\ verdicts \in [Rids -> Nat] /\ fromC \in [Entities -> Seq(Notes)] /\ waiting \in Seq(Rids)
      /\ NoDup(waiting)
  BY DEF Inv, Typed, Distinct
<1>6. earlyAbort' = earlyAbort
  BY <1>2, <1>4 DEF IngestRequest
<1>7. CASE Full /\ waiting' = Append(waiting, r)
            /\ UNCHANGED <<requests, draining, failing, admitting, fromC, verdicts>>
  <2>1. waiting' \in Seq(Rids) /\ Waits' = Waits \cup {r} /\ NoDup(waiting')
    BY <1>3, <1>4, <1>5, <1>7, RangeAppend, NoDupAppend DEF Waits
  <2>2. Stays /\ Posted(r)
    BY <1>3, <1>5, <1>7, PostsNothing DEF Stays
  <2>3. Shifts(r) /\ KeepsAbort(r)
    BY <1>3, <1>6, <1>7, <2>1 DEF Shifts, KeepsAbort
  <2>4. QED
    BY <1>2, <1>3, <1>7, <2>2, <2>3, StayKeeps
<1>8. ASSUME waiting' = waiting, Posted(r), Refused(r) \/ (~Full /\ (Enters(r) \/ Drains(r) \/ Leaves(r)))
      PROVE  Inv'
  <2>1. Quits(r)
    BY <1>3, <1>4, <1>5, <1>8 DEF Quits, Waits
  <2>2. QED
    BY <1>2, <1>3, <1>4, <1>6, <1>8, <2>1, OutcomeKeeps
<1>9. CASE Full /\ Reject(r) /\ UNCHANGED <<requests, waiting, draining, failing, admitting>>
  <2>1. Posted(r) /\ Refused(r)
    BY <1>3, <1>5, <1>9, RejectRefuses DEF Refused
  <2>2. QED
    BY <1>8, <1>9, <2>1
<1>10. CASE ~Full /\ Admit(r) /\ waiting' = waiting
  <2>1. Posted(r) /\ (Enters(r) \/ Refused(r) \/ Drains(r) \/ Leaves(r))
    BY <1>3, <1>5, <1>10, AdmitOutcomes
  <2>2. QED
    BY <1>8, <1>10, <2>1
<1>11. \/ Full /\ waiting' = Append(waiting, r)
            /\ UNCHANGED <<requests, draining, failing, admitting, fromC, verdicts>>
       \/ Full /\ Reject(r) /\ UNCHANGED <<requests, waiting, draining, failing, admitting>>
       \/ ~Full /\ Admit(r) /\ waiting' = waiting
  BY <1>2, <1>4 DEF IngestRequest
<1>12. QED
  BY <1>7, <1>9, <1>10, <1>11

LEMMA AdmitWaitingKeeps == ASSUME Inv, AdmitWaiting PROVE Inv'
<1>1. up /\ admitting /\ ConductorSame /\ toC' = toC /\ earlyAbort' = earlyAbort
  BY DEF AdmitWaiting, ConductorSame, apiVars, outVars, dataVars, partVars, workVars
<1>2. /\ verdicts \in [Rids -> Nat] /\ fromC \in [Entities -> Seq(Notes)] /\ waiting \in Seq(Rids)
      /\ NoDup(waiting)
  BY DEF Inv, Typed, Distinct
<1>3. CASE waiting = <<>> \/ Full
  <2>1. /\ admitting' = FALSE
        /\ UNCHANGED <<requests, waiting, draining, failing, fromC, verdicts>>
    BY <1>3 DEF AdmitWaiting
  <2>2. /\ fresh' = fresh /\ Queued' = Queued /\ Prepping' = Prepping /\ Announced' = Announced
        /\ Waits' = Waits /\ Passed' = Passed /\ Aborted' = Aborted
    BY <1>1, <2>1 DEF ConductorSame, Queued, Prepping, Waits, Passed, Announced, Aborted
  <2>3. Typed' /\ Distinct' /\ OnePlace'
    BY <1>1, <2>1, <2>2 DEF Inv, Typed, Distinct, OnePlace, ConductorSame
  <2>4. Told' /\ Unsubmitted'
    BY <1>1, <2>1, <2>2 DEF Inv, Told, ToldOnce, Unsubmitted, ConductorSame
  <2>5. NoIdleSlot'
    BY <1>3, <2>1 DEF Inv, NoIdleSlot, Full
  <2>6. AbortsLate'
    BY <1>1, <2>2 DEF Inv, AbortsLate, Late, IsPending, ConductorSame
  <2>7. NewBeforeAbort'
    BY <1>1, <2>1 DEF Inv, NewBeforeAbort
  <2>8. Active'
    BY <1>1, <2>1, <2>2 DEF Inv, Active, ConductorSame
  <2>9. QED
    BY <2>3, <2>4, <2>5, <2>6, <2>7, <2>8 DEF Inv
<1>4. CASE waiting # <<>> /\ ~Full
  <2>1. PICK r : r = Head(waiting)
    OBVIOUS
  <2>2. waiting' = Tail(waiting) /\ Admit(r)
    BY <1>4, <2>1 DEF AdmitWaiting
  <2>3. /\ r \in Rids /\ Tail(waiting) \in Seq(Rids) /\ Range(waiting) = {r} \cup Range(Tail(waiting))
        /\ NoDup(Tail(waiting)) /\ r \notin Range(Tail(waiting))
    BY <1>2, <1>4, <2>1, RangeTail, NoDupTail
  <2>4. r \in Waits /\ Waits' = Waits \ {r}
    BY <2>2, <2>3 DEF Waits
  <2>5. r \notin requests /\ r \notin Announced
    BY <2>4 DEF Inv, OnePlace
  <2>6. Quits(r)
    BY <1>1, <2>2, <2>3, <2>4, <2>5 DEF Quits, Announced, Aborted, Inv, Typed, Distinct
  <2>7. Posted(r) /\ (Enters(r) \/ Refused(r) \/ Drains(r) \/ Leaves(r))
    BY <1>2, <2>2, <2>3, AdmitOutcomes
  <2>8. QED
    BY <1>1, <1>4, <2>3, <2>4, <2>5, <2>6, <2>7, OutcomeKeeps
<1>5. QED
  BY <1>3, <1>4

\* A running request is torn down, with what its client is told first.
LEMMA RunningKeeps ==
    ASSUME Inv, ConductorSame, up, NEW r \in Rids, Running(r), Calm, UNCHANGED <<waiting, earlyAbort>>,
           Posted(r), Drains(r) \/ Leaves(r)
    PROVE  Inv'
<1>1. r \in requests /\ r \notin draining
  BY DEF Running
<1>2. Quits(r)
  <2>1. r \notin Announced /\ r \notin Waits
    BY <1>1 DEF Inv, OnePlace
  <2>2. QED
    BY <2>1 DEF Quits, Calm, Waits, Inv, Typed, Distinct
<1>3. QED
  BY <1>1, <1>2, OutcomeKeeps

LEMMA ReceiveAbortKeeps == ASSUME Inv, ReceiveAbort PROVE Inv'
<1>1. PICK r : r = Head(toC[Data]).rid
  OBVIOUS
<1>2. /\ up /\ toC[Data] # <<>> /\ Head(toC[Data]).kind = "abort" /\ AbortRequest(r) /\ Take(Data)
      /\ ConductorSame
  BY <1>1 DEF ReceiveAbort, Idle, ConductorSame, apiVars, outVars, dataVars, partVars, workVars
<1>3. /\ r \in Rids /\ r \in Aborted /\ r \notin Announced'
      /\ DOMAIN toC' = Entities /\ toC'[Data] \in Seq(Notes) /\ Orderly(toC'[Data])
      /\ Aborted' \subseteq Aborted /\ Announced' \subseteq Announced
  BY <1>1, <1>2, TakeData
<1>4. /\ verdicts \in [Rids -> Nat] /\ fromC \in [Entities -> Seq(Notes)] /\ waiting \in Seq(Rids)
      /\ NoDup(waiting)
  BY DEF Inv, Typed, Distinct
<1>5. ASSUME NEW i \in DOMAIN waiting, waiting[i] = r,
             waiting' = SubSeq(waiting, 1, i - 1) \o SubSeq(waiting, i + 1, Len(waiting)),
             Post(ToData("remove", r)),
             UNCHANGED <<requests, draining, failing, admitting, earlyAbort, verdicts>>
      PROVE  Inv'
  <2>1. i \in 1..Len(waiting)
    BY <1>4
  <2>2. waiting' \in Seq(Rids) /\ NoDup(waiting') /\ Range(waiting') = Range(waiting) \ {waiting[i]}
    BY <1>4, <1>5, <2>1, NoDupCut
  <2>3. r \in Waits /\ Waits' \subseteq Waits
    BY <1>5, <2>2 DEF Waits, Range
  <2>4. r \in Passed
    BY <1>3, <2>3, PlacesOfPassed
  <2>5. Posted(r)
    <3>1. Sendable(ToData("remove", r), r)
      BY <1>3, MsgIsNote, SendData
    <3>2. QED
      BY <1>3, <1>4, <1>5, <3>1, PostGrows
  <2>6. Stays
    BY <1>5 DEF Stays
  <2>7. Shifts(r) /\ KeepsAbort(r)
    BY <1>3, <1>5, <2>2, <2>3 DEF Shifts, KeepsAbort
  <2>8. QED
    BY <1>2, <1>3, <2>4, <2>5, <2>6, <2>7, StayKeeps
<1>6. CASE /\ r \notin requests /\ \A i \in DOMAIN waiting : waiting[i] # r
           /\ earlyAbort' = earlyAbort \cup {r}
           /\ UNCHANGED <<requests, waiting, draining, failing, admitting, fromC, verdicts>>
  <2>1. r \notin Waits /\ Waits' = Waits
    BY <1>6 DEF Waits, Range
  <2>2. Late(r)
    BY <1>3 DEF Inv, AbortsLate
  <2>3. Stays /\ Posted(r)
    BY <1>3, <1>4, <1>6, PostsNothing DEF Stays
  <2>4. Shifts(r) /\ KeepsAbort(r)
    BY <1>3, <1>4, <1>6, <2>1, <2>2 DEF Shifts, KeepsAbort
  <2>5. QED
    BY <1>2, <1>3, <1>6, <2>3, <2>4, StayKeeps
<1>7. CASE /\ r \in requests
           /\ UNCHANGED <<requests, waiting, draining, failing, admitting, earlyAbort, fromC, verdicts>>
  <2>1. Stays /\ Posted(r) /\ Waits' = Waits
    BY <1>3, <1>4, <1>7, PostsNothing DEF Stays, Waits
  <2>2. Shifts(r) /\ KeepsAbort(r)
    BY <1>3, <1>4, <1>7, <2>1 DEF Shifts, KeepsAbort
  <2>3. QED
    BY <1>2, <1>3, <1>7, <2>1, <2>2, StayKeeps
<1>8. CASE Running(r) /\ RemoveRequest(r, FALSE, Nothing, <<>>) /\ UNCHANGED <<waiting, earlyAbort>>
  <2>1. Posted(r) /\ (Drains(r) \/ Leaves(r))
    BY <1>3, <1>4, <1>8, SendNothing, RemoveDrains
  <2>2. r \in requests /\ r \notin draining
    BY <1>8 DEF Running
  <2>3. Quits(r)
    <3>1. r \notin Waits /\ Waits' = Waits
      BY <1>8, <2>2 DEF Inv, OnePlace, Waits
    <3>2. QED
      BY <1>3, <1>4, <1>8, <3>1 DEF Quits
  <2>4. QED
    BY <1>2, <1>3, <1>8, <2>1, <2>2, <2>3, OutcomeKeeps
<1>9. r \in draining => r \in requests
  BY DEF Inv, Typed
<1>10. QED
  BY <1>2, <1>5, <1>6, <1>7, <1>8, <1>9 DEF AbortRequest

LEMMA ReceiveReadsDoneKeeps == ASSUME Inv, NEW e \in Entities, ReceiveReadsDone(e) PROVE Inv'
<1>1. PICK r : r = Head(toC[e]).rid
  OBVIOUS
<1>2. /\ up /\ toC[e] # <<>> /\ Head(toC[e]).kind = "reads_done" /\ ReadsDone(e, r) /\ Take(e)
      /\ ConductorSame /\ UNCHANGED <<waiting, earlyAbort>>
  BY <1>1 DEF ReceiveReadsDone, Idle, ConductorSame, apiVars, outVars, dataVars, partVars, workVars
<1>3. Calm
  BY <1>2, TakeAny
<1>4. verdicts \in [Rids -> Nat] /\ fromC \in [Entities -> Seq(Notes)]
  BY DEF Inv, Typed
<1>5. CASE r \in draining /\ Finalize(r, r \in failing, Nothing, <<>>)
  <2>1. r \in Rids /\ (r \in failing) \in BOOLEAN
    BY <1>5 DEF Inv, Typed
  <2>2. Posted(r) /\ Leaves(r) /\ (r \notin failing => verdicts' = verdicts)
    BY <1>4, <1>5, <2>1, SendNothing, FinalizeLeaves
  <2>3. QED
    BY <1>2, <1>3, <1>5, <2>2, BarrierEnds
<1>6. CASE UNCHANGED <<requests, draining, failing, admitting, fromC, verdicts>>
  <2>1. Tame
    BY <1>2, <1>6, TameSame DEF ConductorSame
  <2>2. Frame
    BY <1>2, <1>3, <1>6, <2>1 DEF Frame, ConductorSame
  <2>3. QED
    BY <2>2, FrameKeeps
<1>7. QED
  BY <1>2, <1>5, <1>6 DEF ReadsDone

LEMMA ReceiveFailKeeps == ASSUME Inv, NEW w \in Workers, ReceiveFail(w) PROVE Inv'
<1>1. PICK r : r = Head(toC[w]).rid
  OBVIOUS
<1>2. /\ up /\ Take(w) /\ ConductorSame /\ UNCHANGED <<waiting, earlyAbort>>
      /\ \/ Running(r) /\ RemoveRequest(r, TRUE, Nothing, <<>>)
         \/ UNCHANGED <<requests, draining, failing, admitting, fromC, verdicts>>
  BY <1>1 DEF ReceiveFail, Idle, ConductorSame, apiVars, outVars, dataVars, partVars, workVars
<1>3. Calm
  BY <1>2, CalmTake
<1>4. verdicts \in [Rids -> Nat] /\ fromC \in [Entities -> Seq(Notes)]
  BY DEF Inv, Typed
<1>5. CASE Running(r) /\ RemoveRequest(r, TRUE, Nothing, <<>>)
  <2>1. r \in Rids
    BY <1>5 DEF Running, Inv, Typed
  <2>2. Posted(r) /\ (Drains(r) \/ Leaves(r))
    BY <1>4, <1>5, <2>1, SendNothing, RemoveDrains
  <2>3. QED
    BY <1>2, <1>3, <1>5, <2>1, <2>2, RunningKeeps
<1>6. CASE UNCHANGED <<requests, draining, failing, admitting, fromC, verdicts>>
  <2>1. Tame
    BY <1>2, <1>6, TameSame DEF ConductorSame
  <2>2. Frame
    BY <1>2, <1>3, <1>6, <2>1 DEF Frame, ConductorSame
  <2>3. QED
    BY <2>2, FrameKeeps
<1>7. QED
  BY <1>2, <1>5, <1>6

LEMMA ReceiveDoneKeeps == ASSUME Inv, NEW w \in Workers, ReceiveDone(w) PROVE Inv'
<1>1. Calm
  BY CalmTake DEF ReceiveDone
<1>2. Tame
  BY TameSame DEF ReceiveDone, outVars, partVars, workVars
<1>3. Frame
  BY <1>1, <1>2 DEF Frame, ReceiveDone, apiVars, dataVars, hist
<1>4. QED
  BY <1>3, FrameKeeps

LEMMA ExpireEarlyKeeps == ASSUME Inv, NEW r \in Rids, ExpireEarly(r) PROVE Inv'
<1>1. Calm
  BY CalmSame DEF ExpireEarly
<1>2. Tame
  BY TameSame DEF ExpireEarly, outVars, partVars, workVars
<1>3. Frame
  BY <1>1, <1>2 DEF Frame, ExpireEarly, apiVars, dataVars, hist
<1>4. QED
  BY <1>3, FrameKeeps

LEMMA ExpireDrainKeeps == ASSUME Inv, NEW r \in Rids, ExpireDrain(r) PROVE Inv'
<1>1. /\ up /\ r \in draining /\ Finalize(r, r \in failing, Nothing, <<>>)
      /\ ConductorSame /\ UNCHANGED <<waiting, earlyAbort>> /\ toC' = toC
  BY DEF ExpireDrain, CycleEnd, Idle, ConductorSame, apiVars, outVars, dataVars, partVars, workVars
<1>2. Calm
  BY <1>1, CalmSame
<1>3. verdicts \in [Rids -> Nat] /\ fromC \in [Entities -> Seq(Notes)] /\ (r \in failing) \in BOOLEAN
  BY DEF Inv, Typed
<1>4. Posted(r) /\ Leaves(r) /\ (r \notin failing => verdicts' = verdicts)
  BY <1>1, <1>3, SendNothing, FinalizeLeaves
<1>5. QED
  BY <1>1, <1>2, <1>4, BarrierEnds

LEMMA AdvanceKeeps == ASSUME Inv, NEW r \in Rids, Advance(r) PROVE Inv'
<1>1. up /\ ConductorSame /\ UNCHANGED <<waiting, earlyAbort>> /\ toC' = toC
  BY DEF Advance, Idle, ConductorSame, apiVars, outVars, dataVars, partVars, workVars
<1>2. Calm
  BY <1>1, CalmSame
<1>3. verdicts \in [Rids -> Nat] /\ fromC \in [Entities -> Seq(Notes)]
  BY DEF Inv, Typed
<1>4. CASE Skip(r)
  <2>1. Tame
    BY <1>1, <1>4, TameSame DEF ConductorSame, Skip
  <2>2. Frame
    BY <1>1, <1>2, <1>4, <2>1 DEF Frame, ConductorSame, Skip
  <2>3. QED
    BY <2>2, FrameKeeps
<1>5. CASE Running(r) /\ NextPass(r)
  <2>1. Posted(r)
    <3>1. Sendable(ToWorkers("inputs", r), r)
      BY MsgIsNote, SendWorkers
    <3>2. QED
      BY <1>3, <1>5, <3>1, PostGrows DEF NextPass
  <2>2. r \in Passed
    BY <1>5, PlacesOfPassed DEF Running
  <2>3. Stays /\ Waits' = Waits
    BY <1>1, <1>5 DEF NextPass, Stays, Waits
  <2>4. Shifts(r) /\ KeepsAbort(r)
    BY <1>1, <1>2, <2>3 DEF Shifts, KeepsAbort, Calm, Inv, Typed, Distinct
  <2>5. QED
    BY <1>1, <2>1, <2>2, <2>3, <2>4, StayKeeps
<1>6. CASE Running(r) /\ (ForwardRaises(r) \/ RequestDone(r) \/ DoneRaises(r))
  <2>1. Sendable(Unroute(r), r)
    <3>1. Sendable(ToData("unroute", r), r)
      BY MsgIsNote, SendData
    <3>2. QED
      BY <3>1, SendNothing DEF Unroute
  <2>2. Posted(r) /\ (Drains(r) \/ Leaves(r))
    <3>1. CASE ForwardRaises(r)
      BY <1>3, <3>1, SendNothing, RemoveDrains DEF ForwardRaises
    <3>2. CASE RequestDone(r)
      <4>1. PICK sent : sent = IF ClientStreams THEN Then(Unroute(r), ToWorkers("drain", r)) ELSE Nothing
        OBVIOUS
      <4>2. Sendable(sent, r)
        <5>1. Sendable(ToWorkers("drain", r), r)
          BY MsgIsNote, SendWorkers
        <5>2. QED
          BY <4>1, <5>1, <2>1, SendThen, SendNothing
      <4>3. RegisterDraining(r, Readers, FALSE, sent, <<Msg("complete", r)>>)
        BY <3>2, <4>1 DEF RequestDone
      <4>4. QED
        BY <1>3, <4>2, <4>3, RegisterDrains
    <3>3. CASE DoneRaises(r)
      <4>1. r \in completed'
        BY <3>3 DEF DoneRaises
      <4>2. RemoveRequest(r, FALSE, Unroute(r), <<Msg("complete", r)>>)
        BY <3>3, <4>1 DEF DoneRaises
      <4>3. QED
        BY <1>3, <2>1, <4>2, RemoveDrains
    <3>4. QED
      BY <1>6, <3>1, <3>2, <3>3
  <2>3. QED
    BY <1>1, <1>2, <1>6, <2>2, RunningKeeps
<1>7. QED
  BY <1>4, <1>5, <1>6 DEF Advance

-----------------------------------------------------------------------------
(* The API server and the data worker, where they move a request or abort it *)

LEMMA SubmitKeeps == ASSUME Inv, NEW r \in Rids, Submit(r) PROVE Inv'
<1>1. /\ r \in fresh /\ fresh' = fresh \ {r} /\ pend' = pend \cup {r} /\ inq' = Append(inq, r)
      /\ UNCHANGED <<done, recent, prep, aborts, waiting, requests, draining, failing, admitting,
                     earlyAbort, up, verdicts, toC, fromC, chunk, work, reads>>
  BY DEF Submit, outVars, partVars, condVars, workVars, hist
<1>2. inq \in Seq(Rids) /\ NoDup(inq) /\ r \notin Range(inq)
  BY <1>1 DEF Inv, Typed, Distinct, OnePlace, Queued
<1>3. inq' \in Seq(Rids) /\ NoDup(inq') /\ Queued' = Queued \cup {r}
  BY <1>1, <1>2, RangeAppend, NoDupAppend DEF Queued
<1>4. /\ Prepping' = Prepping /\ Announced' = Announced /\ Aborted' = Aborted /\ Waits' = Waits
      /\ Full' = Full
  BY <1>1 DEF Prepping, Announced, Aborted, Waits, Full
<1>5. Passed' = Passed
  BY <1>1, <1>3, <1>4 DEF Passed
<1>6. Typed'
  BY <1>1, <1>3 DEF Inv, Typed
<1>7. Distinct'
  BY <1>1, <1>3 DEF Inv, Distinct
<1>8. OnePlace'
  BY <1>1, <1>3, <1>4 DEF Inv, OnePlace
<1>9. Told'
  BY <1>1, <1>3, <1>4 DEF Inv, Told, ToldOnce
<1>10. NoIdleSlot'
  BY <1>1, <1>4 DEF Inv, NoIdleSlot
<1>11. Unsubmitted'
  BY <1>1 DEF Inv, Unsubmitted
<1>12. AbortsLate'
  <2>1. \A q \in Rids : Late(q) => Late(q)'
    BY <1>1, <1>5 DEF Late, IsPending
  <2>2. QED
    BY <1>1, <1>4, <2>1 DEF Inv, AbortsLate
<1>13. NewBeforeAbort'
  BY <1>1 DEF Inv, NewBeforeAbort
<1>14. Active'
  BY <1>1, <1>5 DEF Inv, Active
<1>15. QED
  BY <1>6, <1>7, <1>8, <1>9, <1>10, <1>11, <1>12, <1>13, <1>14 DEF Inv

(***************************************************************************)
(* An abort of r goes one step further: from the API server to the data    *)
(* worker, or from there to the conductor.                                 *)
(***************************************************************************)
AbortMoves(r) ==
    /\ UNCHANGED <<fresh, inq, prep, waiting, earlyAbort, requests, draining, failing, admitting, up, verdicts>>
    /\ pend' \subseteq pend /\ done \subseteq done' /\ recent' \subseteq recent \cup pend
    /\ aborts' \in [Rids -> Nat] /\ \A q \in Rids : q # r => aborts'[q] = aborts[q]
    /\ DOMAIN toC' = Entities /\ toC'[Data] \in Seq(Notes) /\ Orderly(toC'[Data])
    /\ Announced' = Announced /\ Aborted' \subseteq Aborted \cup {r}
    /\ r \notin fresh /\ (~IsPending(r)' \/ Late(r))
    /\ Tame

LEMMA AbortMoveKeeps == ASSUME Inv, NEW r \in Rids, AbortMoves(r) PROVE Inv'
<1>1. /\ fresh' = fresh /\ Queued' = Queued /\ Prepping' = Prepping /\ Announced' = Announced
      /\ Waits' = Waits /\ requests' = requests /\ draining' = draining /\ failing' = failing
      /\ Passed' = Passed /\ earlyAbort' = earlyAbort /\ Full' = Full
  BY DEF AbortMoves, Queued, Prepping, Waits, Passed, Full
<1>2. Typed'
  BY DEF Inv, Typed, AbortMoves, Tame
<1>3. Distinct'
  BY DEF Inv, Distinct, AbortMoves
<1>4. OnePlace'
  BY <1>1 DEF Inv, OnePlace
<1>5. Told'
  BY <1>1 DEF Inv, Told, ToldOnce, AbortMoves
<1>6. NoIdleSlot'
  BY <1>1 DEF Inv, NoIdleSlot, AbortMoves
<1>7. Unsubmitted'
  BY <1>1 DEF Inv, Unsubmitted, AbortMoves
<1>8. AbortsLate'
  <2>1. \A q \in Rids : Late(q) => Late(q)'
    BY <1>1 DEF Late, IsPending, AbortMoves
  <2>2. Late(r)'
    BY <1>1, <2>1 DEF Late, AbortMoves
  <2>3. QED
    BY <1>1, <2>1, <2>2 DEF Inv, AbortsLate, AbortMoves
<1>9. NewBeforeAbort'
  <2>1. earlyAbort \subseteq Rids /\ earlyAbort \cap (Announced \cup Waits \cup requests) = {}
    BY EarlyAreAbsent DEF Inv, Typed
  <2>2. \A q \in earlyAbort' : q \notin Announced' \cup Waits' \cup requests'
    BY <1>1, <2>1
  <2>3. QED
    BY <1>1, <2>1, <2>2 DEF NewBeforeAbort, Announced, Waits, Of
<1>10. Active'
  BY <1>1 DEF Inv, Active, AbortMoves, Tame
<1>11. QED
  BY <1>2, <1>3, <1>4, <1>5, <1>6, <1>7, <1>8, <1>9, <1>10 DEF Inv

LEMMA AbortRaisedKeeps == ASSUME Inv, NEW r \in Rids, ClientAborts(r) \/ ServerFails(r) PROVE Inv'
<1>1. /\ UNCHANGED <<fresh, inq, prep, waiting, earlyAbort, requests, draining, failing, admitting,
                     up, verdicts, toC, fromC, chunk, work, reads>>
      /\ pend' \subseteq pend /\ done \subseteq done' /\ recent' \subseteq recent \cup pend
      /\ r \in pend \cup recent /\ aborts' = [aborts EXCEPT ![r] = @ + 1]
      /\ ~IsPending(r)'
  BY DEF ClientAborts, ServerFails, IsPending, outVars, partVars, condVars, workVars, hist
<1>2. aborts' \in [Rids -> Nat] /\ \A q \in Rids : q # r => aborts'[q] = aborts[q]
  BY <1>1 DEF Inv, Typed
<1>3. Calm
  BY <1>1, CalmSame
<1>4. Tame
  BY <1>1, TameSame
<1>5. r \notin fresh
  BY <1>1 DEF Inv, Unsubmitted
<1>6. AbortMoves(r)
  BY <1>1, <1>2, <1>3, <1>4, <1>5 DEF AbortMoves, Calm
<1>7. QED
  BY <1>6, AbortMoveKeeps

LEMMA AbortSent ==
    ASSUME Inv, NEW r \in Rids, SendAbort(r)
    PROVE  /\ DOMAIN toC' = Entities /\ toC'[Data] \in Seq(Notes) /\ Orderly(toC'[Data])
           /\ Announced' = Announced /\ Aborted' \subseteq Aborted \cup {r}
<1>1. /\ toC[Data] \in Seq(Notes) /\ Orderly(toC[Data]) /\ DOMAIN toC = Entities /\ Data \in Entities
      /\ Msg("abort", r) \in Notes /\ Msg("reads_done", r) \in Notes
  BY Cast, MsgIsNote DEF Inv, Typed, Distinct
<1>2. PICK s : s = Append(toC[Data], Msg("abort", r))
  OBVIOUS
<1>3. s \in Seq(Notes) /\ Orderly(s)
  BY <1>1, <1>2, OfAppend, OrderlyAppend
<1>4. Of(s, "new") = Of(toC[Data], "new") /\ Of(s, "abort") \subseteq Of(toC[Data], "abort") \cup {r}
  <2>1. \A l : Of(s, l) = Of(toC[Data], l) \cup (IF "abort" = l THEN {r} ELSE {})
    BY <1>1, <1>2, OfAppend
  <2>2. QED
    BY <2>1
<1>5. PICK t : t = Append(s, Msg("reads_done", r))
  OBVIOUS
<1>6. t \in Seq(Notes) /\ Orderly(t)
  BY <1>1, <1>3, <1>5, OfAppend, OrderlyAppend
<1>7. Of(t, "new") = Of(s, "new") /\ Of(t, "abort") = Of(s, "abort")
  <2>1. \A l : Of(t, l) = Of(s, l) \cup (IF "reads_done" = l THEN {r} ELSE {})
    BY <1>1, <1>3, <1>5, OfAppend
  <2>2. QED
    BY <2>1
<1>8. toC'[Data] = s \/ toC'[Data] = t
  <2>1. CASE Tell(Data, "abort", r)
    BY <1>1, <1>2, <2>1 DEF Tell
  <2>2. CASE DataTell(r, <<Msg("abort", r)>>)
    <3>1. toC[Data] \o <<Msg("abort", r)>> = s
      BY <1>1, <1>2, ConcatOne
    <3>2. s \o <<>> = s /\ s \o <<Msg("reads_done", r)>> = t
      BY <1>1, <1>3, <1>5, ConcatNone, ConcatOne
    <3>3. toC'[Data] = s \o (IF r \in reads[Data] \/ r \in acked[Data] THEN <<>> ELSE <<Msg("reads_done", r)>>)
      BY <1>1, <2>2, <3>1 DEF DataTell
    <3>4. QED
      BY <3>2, <3>3
  <2>3. QED
    BY <2>1, <2>2 DEF SendAbort
<1>9. DOMAIN toC' = Entities
  BY <1>1 DEF SendAbort, Tell, DataTell
<1>10. QED
  BY <1>3, <1>4, <1>6, <1>7, <1>8, <1>9 DEF Announced, Aborted

LEMMA DataAbortKeeps == ASSUME Inv, NEW r \in Rids, DataAbort(r) PROVE Inv'
<1>1. /\ UNCHANGED <<fresh, pend, done, recent, inq, prep, waiting, earlyAbort, requests, draining, failing,
                     admitting, up, verdicts, fromC, chunk, work, reads>>
      /\ aborts[r] > 0 /\ aborts' = [aborts EXCEPT ![r] = @ - 1] /\ SendAbort(r)
  BY DEF DataAbort, apiVars, outVars, condVars, workVars, hist
<1>2. aborts' \in [Rids -> Nat] /\ \A q \in Rids : q # r => aborts'[q] = aborts[q]
  BY <1>1 DEF Inv, Typed
<1>3. Tame
  BY <1>1, TameSame
<1>4. Late(r) /\ r \notin fresh
  BY <1>1 DEF Inv, AbortsLate, Late
<1>5. AbortMoves(r)
  BY <1>1, <1>2, <1>3, <1>4, AbortSent DEF AbortMoves
<1>6. QED
  BY <1>5, AbortMoveKeeps

LEMMA DataFailsKeeps == ASSUME Inv, NEW r \in Rids, DataResultFails(r) \/ DataReadFails(r) PROVE Inv'
<1>1. /\ UNCHANGED <<fresh, pend, done, recent, inq, prep, aborts, waiting, earlyAbort, requests, draining, failing,
                     admitting, up, verdicts, fromC, work, reads>>
      /\ chunk[r] # "none" /\ chunk' = [chunk EXCEPT ![r] = "got"]
      /\ toC' = toC \/ SendAbort(r)
  BY DEF DataResultFails, DataReadFails, DataFails, apiVars, dataVars, condVars, workVars, hist
<1>2. Tame
  BY <1>1, TameChunk
<1>3. r \in Passed /\ r \notin fresh /\ Late(r)
  BY <1>1 DEF Inv, Active, Passed, Late
<1>4. CASE SendAbort(r)
  <2>1. AbortMoves(r)
    BY <1>1, <1>2, <1>3, <1>4, AbortSent DEF AbortMoves, Inv, Typed
  <2>2. QED
    BY <2>1, AbortMoveKeeps
<1>5. CASE toC' = toC
  <2>1. Calm
    BY <1>5, CalmSame
  <2>2. Frame
    BY <1>1, <1>2, <2>1 DEF Frame
  <2>3. QED
    BY <2>2, FrameKeeps
<1>6. QED
  BY <1>1, <1>4, <1>5

\* r moves on at the data worker: to the pool, to the conductor, or it is dropped.
Proceeds(r) ==
    /\ UNCHANGED <<fresh, pend, done, recent, aborts, waiting, earlyAbort, requests, draining, failing,
                   admitting, up, verdicts, fromC, chunk, work, reads>>
    /\ inq' \in Seq(Rids) /\ NoDup(inq') /\ prep' \in Seq(Rids) /\ NoDup(prep')
    /\ r \in Queued \cup Prepping /\ Queued' = Queued \ {r}
    /\ \/ r \in Queued /\ Prepping' = Prepping \cup {r} /\ toC' = toC
       \/ Prepping' = Prepping \ {r} /\ (toC' = toC \/ (IsPending(r) /\ Tell(Data, "new", r)))

LEMMA ProceedKeeps == ASSUME Inv, NEW r \in Rids, Proceeds(r) PROVE Inv'
<1>1. Waits' = Waits /\ Full' = Full /\ fresh' = fresh /\ requests' = requests
  BY DEF Proceeds, Waits, Full
<1>2. Passed \subseteq Passed'
  <2>1. Queued' \cup Prepping' \subseteq Queued \cup Prepping
    BY DEF Proceeds
  <2>2. QED
    BY <1>1, <2>1 DEF Passed
<1>3. /\ DOMAIN toC' = Entities /\ toC'[Data] \in Seq(Notes) /\ Orderly(toC'[Data])
      /\ Aborted' = Aborted
      /\ \/ Announced' = Announced
         \/ Announced' = Announced \cup {r} /\ IsPending(r) /\ Prepping' = Prepping \ {r}
  <2>1. CASE toC' = toC
    BY <2>1 DEF Inv, Typed, Distinct, Announced, Aborted
  <2>2. CASE toC' # toC
    <3>1. IsPending(r) /\ Tell(Data, "new", r) /\ Prepping' = Prepping \ {r}
      BY <2>2 DEF Proceeds
    <3>2. /\ toC[Data] \in Seq(Notes) /\ Orderly(toC[Data]) /\ DOMAIN toC = Entities /\ Data \in Entities
          /\ Msg("new", r) \in Notes
      BY Cast, MsgIsNote DEF Inv, Typed, Distinct
    <3>3. DOMAIN toC' = Entities /\ toC'[Data] = Append(toC[Data], Msg("new", r))
      BY <3>1, <3>2 DEF Tell
    <3>4. r \notin Of(toC[Data], "new")
      BY DEF Proceeds, Inv, OnePlace, Announced
    <3>5. r \notin Of(toC[Data], "abort")
      BY <3>1 DEF Proceeds, Inv, AbortsLate, Late, Passed, Aborted
    <3>6. Orderly(toC'[Data])
      BY <3>2, <3>3, <3>4, <3>5, OrderlyAppend
    <3>7. \A l : Of(toC'[Data], l) = Of(toC[Data], l) \cup (IF "new" = l THEN {r} ELSE {})
      BY <3>2, <3>3, OfAppend
    <3>8. toC'[Data] \in Seq(Notes)
      BY <3>2, <3>3, OfAppend
    <3>9. QED
      BY <3>1, <3>3, <3>6, <3>7, <3>8 DEF Announced, Aborted
  <2>3. QED
    BY <2>1, <2>2
<1>4. Queued' = Queued \ {r} /\ (Prepping' = Prepping \cup {r} \/ Prepping' = Prepping \ {r}) /\ r \in Queued \cup Prepping
      /\ (Prepping' = Prepping \cup {r} => r \in Queued \/ Prepping' = Prepping \ {r})
  BY DEF Proceeds
<1>5. /\ r \notin fresh \cup Announced \cup Waits \cup requests
      /\ ~(r \in Queued /\ r \in Prepping)
  BY <1>4 DEF Inv, OnePlace
<1>6. Typed'
  BY <1>3 DEF Inv, Typed, Proceeds
<1>7. Distinct'
  BY <1>3 DEF Inv, Distinct, Proceeds
<1>8. OnePlace'
  BY <1>1, <1>3, <1>4, <1>5 DEF Inv, OnePlace
<1>9. Told'
  <2>1. \A q \in Queued' \cup Prepping' \cup Announced' : q \in Queued \cup Prepping \cup Announced
    BY <1>3, <1>4
  <2>2. QED
    BY <1>1, <2>1 DEF Inv, Told, ToldOnce, Proceeds
<1>10. NoIdleSlot'
  BY <1>1 DEF Inv, NoIdleSlot, Proceeds
<1>11. Unsubmitted'
  BY DEF Inv, Unsubmitted, Proceeds
<1>12. AbortsLate'
  <2>1. \A q \in Rids : Late(q) => Late(q)'
    BY <1>1, <1>2 DEF Late, IsPending, Proceeds
  <2>2. QED
    BY <1>3, <2>1 DEF Inv, AbortsLate, Proceeds
<1>13. NewBeforeAbort'
  <2>1. earlyAbort \subseteq Rids /\ earlyAbort \cap (Announced \cup Waits \cup requests) = {}
    BY EarlyAreAbsent DEF Inv, Typed
  <2>2. IsPending(r) => r \notin earlyAbort
    BY <1>4 DEF Inv, AbortsLate, Late, Passed
  <2>3. earlyAbort' = earlyAbort
    BY DEF Proceeds
  <2>4. \A q \in earlyAbort' : q \notin Announced' \cup Waits' \cup requests'
    BY <1>1, <1>3, <2>1, <2>2, <2>3
  <2>5. QED
    BY <2>1, <2>3, <2>4 DEF NewBeforeAbort, Announced, Waits, Of
<1>14. Active'
  BY <1>2 DEF Inv, Active, Proceeds
<1>15. QED
  BY <1>6, <1>7, <1>8, <1>9, <1>10, <1>11, <1>12, <1>13, <1>14 DEF Inv

LEMMA DataInputKeeps == ASSUME Inv, DataInput PROVE Inv'
<1>1. PICK r : r = Head(inq)
  OBVIOUS
<1>2. /\ inq # <<>> /\ inq' = Tail(inq)
      /\ UNCHANGED <<fresh, pend, done, recent, aborts, waiting, earlyAbort, requests, draining, failing,
                     admitting, up, verdicts, fromC, chunk, work, reads>>
      /\ \/ prep' = prep /\ toC' = toC
         \/ prep' = Append(prep, r) /\ toC' = toC
         \/ prep' = prep /\ IsPending(r) /\ Tell(Data, "new", r)
  BY <1>1 DEF DataInput, FinishInput, InputFailed, apiVars, condVars, workVars, hist
<1>3. inq \in Seq(Rids) /\ NoDup(inq) /\ prep \in Seq(Rids) /\ NoDup(prep)
  BY DEF Inv, Typed, Distinct
<1>4. /\ r \in Rids /\ inq' \in Seq(Rids) /\ Range(inq) = {r} \cup Range(inq')
      /\ NoDup(inq') /\ r \notin Range(inq')
  BY <1>1, <1>2, <1>3, RangeTail, NoDupTail
<1>5. r \in Queued /\ Queued' = Queued \ {r} /\ r \notin Range(prep)
  <2>1. r \in Queued /\ Queued' = Queued \ {r}
    BY <1>4 DEF Queued
  <2>2. QED
    BY <2>1 DEF Inv, OnePlace, Prepping
<1>6. prep' = Append(prep, r) => prep' \in Seq(Rids) /\ NoDup(prep') /\ Prepping' = Prepping \cup {r}
  BY <1>3, <1>4, <1>5, RangeAppend, NoDupAppend DEF Prepping
<1>7. prep' = prep => Prepping' = Prepping \ {r}
  BY <1>5 DEF Prepping
<1>8. Proceeds(r)
  BY <1>2, <1>3, <1>4, <1>5, <1>6, <1>7 DEF Proceeds
<1>9. QED
  BY <1>4, <1>8, ProceedKeeps

LEMMA DataPreparedKeeps == ASSUME Inv, DataPrepared PROVE Inv'
<1>1. PICK r : r = Head(prep)
  OBVIOUS
<1>2. /\ prep # <<>> /\ prep' = Tail(prep)
      /\ UNCHANGED <<fresh, pend, done, recent, inq, aborts, waiting, earlyAbort, requests, draining, failing,
                     admitting, up, verdicts, fromC, chunk, work, reads>>
      /\ toC' = toC \/ (IsPending(r) /\ Tell(Data, "new", r))
  BY <1>1 DEF DataPrepared, FinishInput, InputFailed, apiVars, condVars, workVars, hist
<1>3. inq \in Seq(Rids) /\ NoDup(inq) /\ prep \in Seq(Rids) /\ NoDup(prep)
  BY DEF Inv, Typed, Distinct
<1>4. /\ r \in Rids /\ prep' \in Seq(Rids) /\ Range(prep) = {r} \cup Range(prep')
      /\ NoDup(prep') /\ r \notin Range(prep')
  BY <1>1, <1>2, <1>3, RangeTail, NoDupTail
<1>5. r \in Prepping /\ Prepping' = Prepping \ {r} /\ Queued' = Queued \ {r}
  <2>1. r \in Prepping /\ Prepping' = Prepping \ {r}
    BY <1>4 DEF Prepping
  <2>2. r \notin Queued
    BY <2>1 DEF Inv, OnePlace
  <2>3. QED
    BY <1>2, <2>1, <2>2 DEF Queued
<1>6. Proceeds(r)
  BY <1>2, <1>3, <1>4, <1>5 DEF Proceeds
<1>7. QED
  BY <1>4, <1>6, ProceedKeeps

-----------------------------------------------------------------------------
(* The death of a worker: everybody who is not answered hears of it once *)

LEMMA WorkerDiesKeeps == ASSUME Inv, WorkerDies PROVE Inv'
<1>1. PICK order \in [1..Cardinality(Unanswered) -> Unanswered] :
          Range(order) = Unanswered /\ Say([i \in DOMAIN order |-> Msg("failed", order[i])])
  BY DEF WorkerDies
<1>2. /\ up /\ up' = FALSE
      /\ UNCHANGED <<fresh, pend, done, recent, inq, prep, aborts, chunk, work, reads, requests, waiting,
                     draining, failing, admitting, earlyAbort, toC, fromC>>
  BY DEF WorkerDies, CycleEnd, Idle, apiVars, outVars, dataVars, partVars, workVars
<1>3. Unanswered \subseteq Waits \cup (requests \ draining) \cup failing /\ Unanswered \subseteq Rids
  BY RangeIsImage DEF Unanswered, Waits, Inv, Typed
<1>4. PICK n \in Nat : n = Cardinality(Unanswered)
  BY <1>3, TeardownAssumption, FS_Subset, FS_CardinalityType
<1>5. order \in [1..n -> Unanswered] /\ \A q \in Unanswered : \E i \in 1..n : order[i] = q
  BY <1>1, <1>4 DEF Range
<1>6. \A i, j \in 1..n : order[i] = order[j] => i = j
  <2>1. IsFiniteSet(1..n) /\ Cardinality(1..n) = n
    BY FS_Interval
  <2>2. order \in Surjection(1..n, Unanswered)
    BY <1>5 DEF Surjection
  <2>3. order \in Injection(1..n, Unanswered)
    BY <1>4, <2>1, <2>2, FS_SurjSameCardinalityImpliesInj
  <2>4. QED
    BY <1>5, <2>3 DEF Injection, IsInjective
<1>7. PICK said : said = [i \in 1..n |-> Msg("failed", order[i])]
  OBVIOUS
<1>8. DOMAIN said = 1..n /\ \A i \in 1..n : said[i].rid = order[i]
  BY <1>7 DEF Msg
<1>9. Say(said)
  BY <1>1, <1>5, <1>7
<1>10. ASSUME NEW q \in Rids
       PROVE  /\ Cardinality({i \in DOMAIN said : said[i].rid = q}) \in {0, 1}
              /\ q \notin Unanswered => Cardinality({i \in DOMAIN said : said[i].rid = q}) = 0
  <2>1. {i \in DOMAIN said : said[i].rid = q} = {i \in 1..n : order[i] = q}
    BY <1>8
  <2>2. CASE \E i \in 1..n : order[i] = q
    <3>1. PICK i \in 1..n : order[i] = q
      BY <2>2
    <3>2. q \in Unanswered
      BY <1>5, <3>1
    <3>3. {j \in 1..n : order[j] = q} = {i}
      BY <1>6, <3>1
    <3>4. Cardinality({i}) = 1
      BY FS_Singleton
    <3>5. QED
      BY <2>1, <3>2, <3>3, <3>4
  <2>3. CASE ~\E i \in 1..n : order[i] = q
    <3>1. {i \in 1..n : order[i] = q} = {}
      BY <2>3
    <3>2. QED
      BY <2>1, <3>1, FS_EmptySet
  <2>4. QED
    BY <2>2, <2>3
<1>11. ASSUME NEW q \in Rids PROVE verdicts'[q] \in Nat /\ verdicts'[q] <= 1
  <2>1. /\ verdicts[q] \in Nat /\ verdicts[q] <= 1
        /\ q \in Unanswered => verdicts[q] = 0
    BY <1>2, <1>3 DEF Inv, Typed, Told, ToldOnce
  <2>2. verdicts'[q] = verdicts[q] + Cardinality({i \in DOMAIN said : said[i].rid = q})
    BY <1>9 DEF Say
  <2>3. QED
    BY <1>10, <2>1, <2>2
<1>12. verdicts' \in [Rids -> Nat]
  BY <1>9, <1>11 DEF Say
<1>13. /\ fresh' = fresh /\ Queued' = Queued /\ Prepping' = Prepping /\ Announced' = Announced
       /\ Waits' = Waits /\ Passed' = Passed /\ Aborted' = Aborted
  BY <1>2 DEF Queued, Prepping, Waits, Passed, Announced, Aborted
<1>14. Typed' /\ Distinct' /\ OnePlace'
  BY <1>2, <1>12, <1>13 DEF Inv, Typed, Distinct, OnePlace
<1>15. Told'
  BY <1>2, <1>11 DEF Told, ToldOnce
<1>16. NoIdleSlot' /\ Unsubmitted'
  BY <1>2 DEF Inv, NoIdleSlot, Unsubmitted
<1>17. AbortsLate'
  BY <1>2, <1>13 DEF Inv, AbortsLate, Late, IsPending
<1>18. NewBeforeAbort' /\ Active'
  BY <1>2, <1>13 DEF Inv, NewBeforeAbort, Active
<1>19. QED
  BY <1>14, <1>15, <1>16, <1>17, <1>18 DEF Inv

-----------------------------------------------------------------------------
(* The theorems *)

LEMMA StutterKeeps == Inv /\ UNCHANGED vars => Inv'
<1> SUFFICES ASSUME Inv, UNCHANGED vars PROVE Inv'
  OBVIOUS
<1>1. Calm
  BY CalmSame DEF vars
<1>2. Tame
  BY TameSame DEF vars, outVars, partVars, workVars
<1>3. Frame
  BY <1>1, <1>2 DEF Frame, vars, apiVars, dataVars, condVars, hist
<1>4. QED
  BY <1>3, FrameKeeps

LEMMA NextKeeps == Inv /\ Next => Inv'
<1> SUFFICES ASSUME Inv, Next PROVE Inv'
  OBVIOUS
<1>1. CASE ApiNext
  <2>1. Frame
    BY <1>1, ClientLeavesFrame, ApiResultFrame, ApiErrorFrame, PruneFrame, ApiVerdictFrame,
       ConductorExitedFrame DEF ApiNext
  <2>2. QED
    BY <2>1, FrameKeeps
<1>2. CASE DataNext
  BY <1>2, FrameKeeps, DataAbortKeeps, DataReleaseFrame, DataResultFrame, DataReadEndsFrame,
     DataInputKeeps, DataPreparedKeeps, DataReceiveFrame DEF DataNext
<1>3. CASE ConductorNext
  BY <1>3, ReceiveNewKeeps, AdmitWaitingKeeps, ReceiveAbortKeeps, ReceiveReadsDoneKeeps,
     ReceiveFailKeeps, ReceiveDoneKeeps, AdvanceKeeps, ExpireEarlyKeeps DEF ConductorNext
<1>4. CASE \E w \in Workers : WorkerNext(w)
  BY <1>4, WorkerFrame, FrameKeeps
<1>5. CASE Environment
  BY <1>5, SubmitKeeps, AbortRaisedKeeps, DataAppendFrame, DataFailsKeeps, ExpireDrainKeeps,
     TurnFrame, FrameKeeps, WorkerDiesKeeps DEF Environment
<1>6. QED
  BY <1>1, <1>2, <1>3, <1>4, <1>5 DEF Next

\* The invariant holds in every state of the protocol: a request is in one place, and so on.
THEOREM Invariance == Spec => []Inv
<1>1. Inv /\ [Next]_vars => Inv'
  BY NextKeeps, StutterKeeps
<1>2. QED
  BY Begins, <1>1, PTL DEF Spec

(***************************************************************************)
(* The conductor tells a client the end of its request at most once        *)
(* (_process_request_done, _fail_requests, _fail_all_requests), whatever   *)
(* fails and in whatever order.                                            *)
(***************************************************************************)
THEOREM EndsAreToldOnce == Spec => []ToldOnce
<1>1. Inv => ToldOnce
  BY DEF Inv, Told
<1>2. QED
  BY Invariance, <1>1, PTL

(***************************************************************************)
(* The conductor never runs more requests than max_concurrent_requests,    *)
(* and leaves none waiting while a slot is free (_try_admit_waiting).      *)
(***************************************************************************)
THEOREM SlotsAreUsed == Spec => []NoIdleSlot
<1>1. Inv => NoIdleSlot
  BY DEF Inv
<1>2. QED
  BY Invariance, <1>1, PTL

(***************************************************************************)
(* A request whose abort the conductor has kept (_abort_request) is not on *)
(* its way to the conductor, which would then drop a live request.         *)
(***************************************************************************)
THEOREM AbortsFollow == Spec => []NewBeforeAbort
<1>1. Inv => NewBeforeAbort
  BY DEF Inv
<1>2. QED
  BY Invariance, <1>1, PTL

-----------------------------------------------------------------------------
(* Sequences, once more *)

\* What is left of a queue that an element was taken out of.
LEMMA CutWithin ==
    ASSUME NEW S, NEW s \in Seq(S), NEW i \in 1..Len(s)
    PROVE  LET t == SubSeq(s, 1, i - 1) \o SubSeq(s, i + 1, Len(s))
           IN  t \in Seq(S) /\ Range(t) \subseteq Range(s)
<1>1. PICK a : a = SubSeq(s, 1, i - 1)
  OBVIOUS
<1>2. PICK b : b = SubSeq(s, i + 1, Len(s))
  OBVIOUS
<1>3. a \in Seq(S) /\ Len(a) = i - 1 /\ \A j \in 1..Len(a) : a[j] = s[j]
  BY <1>1
<1>4. b \in Seq(S) /\ Len(b) = Len(s) - i /\ \A j \in 1..Len(b) : b[j] = s[i + j]
  BY <1>2
<1>5. \A x : x \in Range(s) <=> \E j \in 1..Len(s) : x = s[j]
  BY RangeIsImage
<1>6. ASSUME NEW x \in Range(a) PROVE x \in Range(s)
  <2>1. PICK j \in 1..Len(a) : x = a[j]
    BY <1>3, <1>6, RangeIsImage
  <2>2. j \in 1..Len(s) /\ x = s[j]
    BY <1>3, <2>1
  <2> QED
    BY <1>5, <2>2
<1>7. ASSUME NEW x \in Range(b) PROVE x \in Range(s)
  <2>1. PICK j \in 1..Len(b) : x = b[j]
    BY <1>4, <1>7, RangeIsImage
  <2>2. i + j \in 1..Len(s) /\ x = s[i + j]
    BY <1>4, <2>1
  <2> QED
    BY <1>5, <2>2
<1>8. a \o b \in Seq(S) /\ Range(a \o b) = Range(a) \cup Range(b)
  BY <1>3, <1>4, RangeConcat
<1> QED
  BY <1>1, <1>2, <1>6, <1>7, <1>8

LEMMA WithAdds ==
    ASSUME NEW s \in Seq(Rids), NEW r \in Rids
    PROVE  With(s, r) \in Seq(Rids) /\ Range(With(s, r)) = Range(s) \cup {r}
  BY RangeAppend DEF With

LEMMA WithoutDrops ==
    ASSUME NEW s \in Seq(Rids), NEW r
    PROVE  Without(s, r) \in Seq(Rids) /\ Range(Without(s, r)) \subseteq Range(s)
<1>1. CASE r \notin Range(s)
  BY <1>1 DEF Without
<1>2. CASE r \in Range(s)
  <2>1. \E i \in DOMAIN s : s[i] = r
    BY <1>2 DEF Range
  <2>2. PICK i : i = CHOOSE k \in DOMAIN s : s[k] = r
    OBVIOUS
  <2>3. i \in 1..Len(s)
    BY <2>1, <2>2
  <2>4. Without(s, r) = SubSeq(s, 1, i - 1) \o SubSeq(s, i + 1, Len(s))
    BY <1>2, <2>2 DEF Without
  <2> QED
    BY <2>3, <2>4, CutWithin
<1> QED
  BY <1>1, <1>2

\* At most one element of s is in S.
Single(s, S) == \A i, j \in 1..Len(s) : s[i] \in S /\ s[j] \in S => i = j

LEMMA SingleTail ==
    ASSUME NEW s \in Seq(Notes), s # <<>>, NEW S, Single(s, S)
    PROVE  Single(Tail(s), S) /\ (Head(s) \in S => \A x \in S : x \notin Range(Tail(s)))
<1>1. Len(s) \in Nat \ {0} /\ Len(Tail(s)) = Len(s) - 1 /\ Head(s) = s[1] /\ Tail(s) \in Seq(Notes)
  OBVIOUS
<1>2. \A i \in 1..Len(Tail(s)) : i + 1 \in 1..Len(s) /\ Tail(s)[i] = s[i + 1]
  BY <1>1
<1>3. \A x : x \in Range(Tail(s)) <=> \E i \in 1..Len(Tail(s)) : x = Tail(s)[i]
  BY <1>1, RangeIsImage
<1>4. 1 \in 1..Len(s) /\ \A i \in 1..Len(Tail(s)) : i + 1 # 1
  BY <1>1
<1>5. Single(Tail(s), S)
  BY <1>1, <1>2 DEF Single
<1>6. ASSUME Head(s) \in S, NEW x \in S, x \in Range(Tail(s)) PROVE FALSE
  <2>1. PICK i \in 1..Len(Tail(s)) : x = Tail(s)[i]
    BY <1>3, <1>6
  <2> QED
    BY <1>1, <1>2, <1>4, <1>6, <2>1 DEF Single
<1> QED
  BY <1>5, <1>6

LEMMA SingleAppend ==
    ASSUME NEW s \in Seq(Notes), NEW m \in Notes, NEW S, Single(s, S),
           m \in S => \A x \in S : x \notin Range(s)
    PROVE  Single(Append(s, m), S)
<1>1. Len(Append(s, m)) = Len(s) + 1 /\ \A i \in 1..Len(s) : Append(s, m)[i] = s[i] /\ s[i] \in Range(s)
  BY DEF Range
<1>2. Append(s, m)[Len(s) + 1] = m
  OBVIOUS
<1> QED
  BY <1>1, <1>2 DEF Single

LEMMA SingleConcat ==
    ASSUME NEW s \in Seq(Notes), NEW t \in Seq(Notes), NEW S, Single(s, S), \A x \in S : x \notin Range(t)
    PROVE  Single(s \o t, S)
<1>1. Len(s \o t) = Len(s) + Len(t) /\ \A i \in 1..Len(s) : (s \o t)[i] = s[i]
  OBVIOUS
<1>2. \A i \in 1..Len(s \o t) : i \in 1..Len(s) \/ (i - Len(s) \in 1..Len(t) /\ (s \o t)[i] = t[i - Len(s)])
  BY <1>1
<1>3. \A i \in 1..Len(t) : t[i] \in Range(t)
  BY RangeIsImage
<1>4. \A i \in 1..Len(s \o t) : (s \o t)[i] \in S => i \in 1..Len(s)
  BY <1>2, <1>3
<1> QED
  BY <1>1, <1>4 DEF Single

LEMMA LastConcat ==
    ASSUME NEW S, NEW s \in Seq(S), NEW t \in Seq(S), NEW u \in Seq(S), NEW x \in Range(u)
    PROVE  x \in Range(s \o (t \o u))
<1>1. PICK v : v = t \o u
  OBVIOUS
<1>2. v \in Seq(S) /\ Range(v) = Range(t) \cup Range(u)
  BY <1>1, RangeConcat
<1>3. Range(s \o v) = Range(s) \cup Range(v)
  BY <1>2, RangeConcat
<1> QED
  BY <1>1, <1>2, <1>3

LEMMA PrecedesConcat ==
    ASSUME NEW S, NEW s \in Seq(S), NEW t \in Seq(S), NEW x, NEW y, Precedes(s \o t, x, y)
    PROVE  Precedes(s, x, y) \/ Precedes(t, x, y) \/ (x \in Range(s) /\ y \in Range(t))
<1>1. /\ Len(s) \in Nat /\ Len(t) \in Nat /\ Len(s \o t) = Len(s) + Len(t)
      /\ DOMAIN s = 1..Len(s) /\ DOMAIN t = 1..Len(t) /\ DOMAIN (s \o t) = 1..Len(s \o t)
  OBVIOUS
<1>2. \A k \in 1..Len(s \o t) : (s \o t)[k] = IF k \leq Len(s) THEN s[k] ELSE t[k - Len(s)]
  BY <1>1
<1>3. PICK i \in 1..Len(s \o t) : \E j \in 1..Len(s \o t) : i < j /\ (s \o t)[i] = x /\ (s \o t)[j] = y
  BY <1>1 DEF Precedes
<1>4. PICK j \in 1..Len(s \o t) : i < j /\ (s \o t)[i] = x /\ (s \o t)[j] = y
  BY <1>3
<1>5. i \in Int /\ j \in Int /\ Len(s) \in Int
  BY <1>1
<1>6. CASE j \leq Len(s)
  <2>1. i \in 1..Len(s) /\ j \in 1..Len(s)
    BY <1>1, <1>4, <1>5, <1>6
  <2>2. s[i] = x /\ s[j] = y
    BY <1>2, <1>4, <2>1
  <2> QED
    BY <1>1, <1>4, <2>1, <2>2 DEF Precedes
<1>7. CASE i > Len(s)
  <2>1. i - Len(s) \in 1..Len(t) /\ j - Len(s) \in 1..Len(t) /\ i - Len(s) < j - Len(s)
    BY <1>1, <1>4, <1>5, <1>7
  <2>2. t[i - Len(s)] = x /\ t[j - Len(s)] = y
    BY <1>2, <1>4, <1>5, <1>7
  <2> QED
    BY <1>1, <2>1, <2>2 DEF Precedes
<1>8. CASE i \leq Len(s) /\ j > Len(s)
  <2>1. i \in 1..Len(s) /\ j - Len(s) \in 1..Len(t)
    BY <1>1, <1>5, <1>8
  <2>2. s[i] = x /\ t[j - Len(s)] = y
    BY <1>2, <1>4, <1>5, <1>8
  <2> QED
    BY <2>1, <2>2, RangeIsImage
<1> QED
  BY <1>5, <1>6, <1>7, <1>8

LEMMA PrecedesBound ==
    ASSUME NEW S, NEW s \in Seq(S), NEW x, NEW y, Precedes(s, x, y)
    PROVE  x \in Range(s) /\ y \in Range(s) /\ Len(s) > 1
<1>1. DOMAIN s = 1..Len(s) /\ Len(s) \in Nat
  OBVIOUS
<1>2. PICK i \in 1..Len(s) : \E j \in 1..Len(s) : i < j /\ s[i] = x /\ s[j] = y
  BY <1>1 DEF Precedes
<1>3. PICK j \in 1..Len(s) : i < j /\ s[i] = x /\ s[j] = y
  BY <1>2
<1> QED
  BY <1>1, <1>2, <1>3, RangeIsImage

-----------------------------------------------------------------------------
(* The barrier: what the proofs about it need of the types *)

Shaped ==
    /\ drain \in [Entities -> SUBSET Rids] /\ acked \in [Entities -> SUBSET Rids]
    /\ reads \in [Entities -> SUBSET Rids] /\ torn \in [Entities -> SUBSET Rids]
    /\ held \in [Workers -> SUBSET Rids] /\ parked \in [Workers -> SUBSET Rids]
    /\ pendDrain \in [Workers -> SUBSET Rids] /\ items \in [Workers -> SUBSET Rids]
    /\ work \in [Workers -> [Rids -> {"none", "inputs", "step"}]]
    /\ pendRemove \in [Workers -> Seq(Rids)]
    /\ tpq \in [Workers -> Seq(Notes)] /\ fwd \in [Workers -> Seq(Notes)]
    /\ toC \in [Entities -> Seq(Notes)] /\ fromC \in [Entities -> Seq(Notes)]
    /\ chunk \in [Rids -> {"none", "sent", "queued", "reading", "got", "lost"}]
    /\ releases \in [Rids -> Seq(BOOLEAN)]
    /\ expected \in [Rids -> SUBSET Entities] /\ earlyDone \in [Rids -> SUBSET Entities]
    /\ reported \in [Rids -> SUBSET Workers]

\* What the barrier takes of the conductor's state.
condUsed == <<requests, draining, expected, earlyDone, reported, ended, forced>>

\* A removal of r has reached w, or is on its way to it.
Due(w, r) ==
    \/ r \in parked[w] \cup Range(pendRemove[w])
    \/ Msg("remove", r) \in Range(fromC[w]) \cup Range(fwd[w]) \cup Range(tpq[w])

\* w takes a message from the conductor; it brings inputs to read.
Takes(w, k, r) == fromC[w] # <<>> /\ Head(fromC[w]) = Msg(k, r) /\ fromC' = [fromC EXCEPT ![w] = Tail(@)]
Fresh(w, r) == Takes(w, "new", r) \/ Takes(w, "inputs", r)

(***************************************************************************)
(* What a step of worker w does to request r: its own state ...            *)
(***************************************************************************)
Handled(w, r) ==
    /\ torn' = torn \/ (torn' = Add(torn, w, r) /\ Due(w, r))
    /\ \/ held' = held
       \/ held' = Add(held, w, r) /\ Takes(w, "new", r) /\ r \notin acked[w]
       \/ held' = Del(held, w, r) /\ torn' = Add(torn, w, r)
    /\ \/ reads' = reads
       \/ reads' = Del(reads, w, r)
       \/ /\ reads' = Add(reads, w, r) /\ r \notin acked[w]
          /\ Fresh(w, r) \/ (r \in held[w] /\ r \in items[w])
          /\ held' = Add(held, w, r) \/ (r \in held[w] /\ held' = held) \/ torn' = Add(torn, w, r)
    /\ \/ acked' = acked
       \/ acked' = Del(acked, w, r) /\ torn' = Add(torn, w, r)
       \/ /\ acked' = Add(acked, w, r) /\ ~(r \in held[w] /\ r \in reads[w])
          /\ held' = held /\ reads' = reads /\ Tell(w, "reads_done", r)
    /\ drain' = drain \/ drain' = Add(drain, w, r) \/ drain' = Del(drain, w, r)
    /\ \/ toC' = toC
       \/ Tell(w, "reads_done", r) /\ acked' = Add(acked, w, r) /\ r \notin acked[w]
       \/ Tell(w, "fail", r)
       \/ /\ Tell(w, "done", r) /\ work[w][r] = "step"
          /\ work' = [work EXCEPT ![w][r] = "none"] /\ UNCHANGED <<reads, fromC>>
    /\ \/ work' = work
       \/ work' = [work EXCEPT ![w][r] = "none"]
       \/ work' = [work EXCEPT ![w][r] = "inputs"] /\ Fresh(w, r) /\ toC' = toC
       \/ /\ work' = [work EXCEPT ![w][r] = "step"] /\ work[w][r] = "inputs" /\ r \notin reads[w]
          /\ UNCHANGED <<reads, toC, fromC>>
    /\ items' = items \/ items' = Del(items, w, r)
    /\ pendDrain' = pendDrain \/ pendDrain' = Add(pendDrain, w, r) \/ pendDrain' = Del(pendDrain, w, r)

(* ... and the messages and the removals put off. *)
Marked(w, r) ==
    /\ \/ parked' = parked
       \/ parked' = Del(parked, w, r)
       \/ parked' = Add(parked, w, r) /\ Due(w, r)
    /\ \/ pendRemove' = pendRemove
       \/ pendRemove' = [pendRemove EXCEPT ![w] = Without(@, r)]
       \/ pendRemove' = [pendRemove EXCEPT ![w] = With(@, r)] /\ Due(w, r)
    /\ \/ tpq' = tpq
       \/ tpq[w] # <<>> /\ tpq' = [tpq EXCEPT ![w] = Tail(@)]
       \/ \E k \in {"step", "spec", "remove"} :
             /\ tpq' = [tpq EXCEPT ![w] = Append(@, Msg(k, r))]
             /\ k = "remove" => Due(w, r)
    /\ \/ fwd' = fwd
       \/ fwd[w] # <<>> /\ fwd' = [fwd EXCEPT ![w] = Tail(@)]
       \/ \E k \in {"step", "spec", "drain", "remove"} : Forward(w, k, r) /\ (k = "remove" => Due(w, r))
    /\ fromC' = fromC \/ (fromC[w] # <<>> /\ fromC' = [fromC EXCEPT ![w] = Tail(@)])

Works(w, r) ==
    /\ r \in Rids /\ Handled(w, r) /\ Marked(w, r)
    /\ chunk' = chunk \/ (work[w][r] = "step" /\ chunk[r] = "none" /\ chunk' = [chunk EXCEPT ![r] = "sent"])
    /\ UNCHANGED <<fresh, inq, prep, waiting, releases, condUsed>>

-----------------------------------------------------------------------------
(* The steps of a worker *)

LEMMA DrainHandled ==
    ASSUME NEW w \in Workers, NEW r, DrainRequest(w, r), UNCHANGED items
    PROVE  Handled(w, r)
  BY DEF DrainRequest, BeginDrain, CompleteDrain, Quiet, Handled

LEMMA RemovalHandled ==
    ASSUME NEW w \in Workers, NEW r, UNCHANGED <<reads, toC, items>>, Due(w, r),
           Removal(w, r) \/ RemoveHeld(w, r)
    PROVE  /\ Handled(w, r)
           /\ parked' = parked \/ parked' = Del(parked, w, r)
           /\ \/ pendRemove' = [pendRemove EXCEPT ![w] = Without(@, r)]
              \/ pendRemove' = [pendRemove EXCEPT ![w] = With(@, r)]
  BY DEF RemoveHeld, Removal, MarkRemoved, Handled

LEMMA NewHandled ==
    ASSUME NEW w \in Workers, NEW r, Takes(w, "new", r), NewRequest(w, r), UNCHANGED items
    PROVE  /\ Handled(w, r)
           /\ parked' = parked \/ parked' = Del(parked, w, r)
           /\ pendRemove' = pendRemove
           /\ tpq' = tpq \/ (Due(w, r) /\ tpq' = [tpq EXCEPT ![w] = Append(@, Msg("remove", r))])
<1>1. CASE NewRefused(w, r)
  BY <1>1 DEF NewRefused, Handled, partVars, workVars
<1>2. CASE NewTaken(w, r)
  BY <1>2 DEF NewTaken, TakeInputs, Handled, Fresh
<1>3. CASE NewFails(w, r)
  BY <1>3 DEF NewFails, Fail, partVars, Handled
<1>4. CASE NewParked(w, r)
  <2>1. Due(w, r)
    BY <1>4 DEF NewParked, Due
  <2>2. CASE MarkRemoved(w, r) /\ UNCHANGED <<held, tpq>>
    BY <1>4, <2>1, <2>2 DEF NewParked, MarkRemoved, Handled, Fresh
  <2>3. CASE /\ held' = Add(held, w, r) /\ parked' = Del(parked, w, r)
             /\ tpq' = [tpq EXCEPT ![w] = Append(@, Msg("remove", r))]
             /\ UNCHANGED <<torn, drain, acked, pendDrain>>
    BY <1>4, <2>1, <2>3 DEF NewParked, Handled, Fresh
  <2>4. QED
    BY <1>4, <2>2, <2>3 DEF NewParked
<1>5. QED
  BY <1>1, <1>2, <1>3, <1>4 DEF NewRequest

LEMMA InputsHandled ==
    ASSUME NEW w \in Workers, NEW r, Takes(w, "inputs", r), NewInputs(w, r), UNCHANGED items
    PROVE  Handled(w, r)
  BY DEF NewInputs, TakeInputs, Handled, Fresh

LEMMA RemoveMessageHandled ==
    ASSUME NEW w \in Workers, NEW r, Due(w, r), RemoveMessage(w, r), UNCHANGED items
    PROVE  /\ Handled(w, r)
           /\ parked' = parked \/ parked' = Del(parked, w, r)
           /\ \/ pendRemove' = pendRemove
              \/ pendRemove' = [pendRemove EXCEPT ![w] = Without(@, r)]
              \/ pendRemove' = [pendRemove EXCEPT ![w] = With(@, r)]
<1>1. CASE MarkRemoved(w, r) /\ UNCHANGED <<held, work, spec, failed, pendRemove, freed>>
  BY <1>1 DEF RemoveMessage, MarkRemoved, Handled
<1>2. CASE RemoveHeld(w, r)
  BY <1>2, RemovalHandled DEF RemoveMessage
<1>3. CASE UNCHANGED <<torn, drain, acked, pendDrain, parked, held, work, spec, failed, pendRemove, freed>>
  BY <1>3 DEF RemoveMessage, Handled
<1>4. QED
  BY <1>1, <1>2, <1>3 DEF RemoveMessage

LEMMA FollowHandled ==
    ASSUME NEW w \in Workers, NEW r, Due(w, r), FollowRemove(w, r), UNCHANGED items
    PROVE  /\ Handled(w, r)
           /\ parked' = parked \/ parked' = Del(parked, w, r) \/ parked' = Add(parked, w, r)
           /\ \/ pendRemove' = pendRemove
              \/ pendRemove' = [pendRemove EXCEPT ![w] = Without(@, r)]
              \/ pendRemove' = [pendRemove EXCEPT ![w] = With(@, r)]
           /\ tpq' = tpq \/ tpq' = [tpq EXCEPT ![w] = Append(@, Msg("remove", r))]
<1>1. CASE UNCHANGED <<partVars, held, work, toC>>
  BY <1>1 DEF FollowRemove, Handled, partVars, workVars, RemoveHeld, Removal, MarkRemoved
<1>2. CASE RemoveHeld(w, r) /\ UNCHANGED <<reads, tpq, toC>>
  BY <1>2, RemovalHandled
<1>3. QED
  BY <1>1, <1>2 DEF FollowRemove, workVars

\* What PassOn sends, where the worker has just begun a drain or removed the request.
LEMMA PassedOn ==
    ASSUME NEW w \in Workers, NEW r, Due(w, r) \/ held' = held \/ held' = Add(held, w, r), PassOn(w, r),
           held \in [Workers -> SUBSET Rids]
    PROVE  \/ fwd' = fwd
           \/ \E k \in {"step", "spec", "drain", "remove"} : Forward(w, k, r) /\ (k = "remove" => Due(w, r))
  BY DEF PassOn, Add

LEMMA WorkerReceiveWorks == ASSUME Shaped, NEW w \in Workers, WorkerReceive(w) PROVE \E r : Works(w, r)
<1>1. PICK m : m = Head(fromC[w])
  OBVIOUS
<1>2. fromC[w] \in Seq(Notes) /\ fromC[w] # <<>> /\ held \in [Workers -> SUBSET Rids]
  BY Cast DEF Shaped, WorkerReceive
<1>3. m \in Notes /\ m = Msg(m.kind, m.rid) /\ m.rid \in Rids /\ m \in Range(fromC[w])
  BY <1>1, <1>2, RangeTail, NoteIsMsg
<1>4. PICK r \in Rids : r = m.rid
  BY <1>3
<1>5. Takes(w, m.kind, r) /\ (m.kind = "remove" => Due(w, r))
  BY <1>1, <1>2, <1>3, <1>4 DEF WorkerReceive, Takes, Due
<1>6. /\ UNCHANGED <<chunk, fresh, inq, prep, waiting, releases, condUsed, items>>
      /\ PassOn(w, r)
  BY <1>1, <1>4 DEF WorkerReceive, workerUnchanged, apiVars, dataVars, streamVars, outVars, condUsed, condVars, hist
<1>7. fromC' = fromC \/ (fromC[w] # <<>> /\ fromC' = [fromC EXCEPT ![w] = Tail(@)])
  BY <1>2 DEF WorkerReceive
<1>8. CASE m.kind = "new" /\ NewRequest(w, r)
  <2>1. /\ Handled(w, r)
        /\ parked' = parked \/ parked' = Del(parked, w, r)
        /\ pendRemove' = pendRemove
        /\ tpq' = tpq \/ (Due(w, r) /\ tpq' = [tpq EXCEPT ![w] = Append(@, Msg("remove", r))])
    BY <1>5, <1>6, <1>8, NewHandled
  <2>2. held' = held \/ held' = Add(held, w, r)
    BY <1>8 DEF NewRequest, NewRefused, NewTaken, NewFails, NewParked, workVars
  <2>3. \/ fwd' = fwd
        \/ \E k \in {"step", "spec", "drain", "remove"} : Forward(w, k, r) /\ (k = "remove" => Due(w, r))
    BY <1>2, <1>6, <2>2, PassedOn
  <2> QED
    BY <1>6, <1>7, <2>1, <2>3 DEF Works, Marked
<1>9. CASE m.kind = "inputs" /\ NewInputs(w, r)
  <2>1. Handled(w, r)
    BY <1>5, <1>6, <1>9, InputsHandled
  <2>2. UNCHANGED <<held, parked, pendRemove, tpq>>
    BY <1>9 DEF NewInputs
  <2>3. \/ fwd' = fwd
        \/ \E k \in {"step", "spec", "drain", "remove"} : Forward(w, k, r) /\ (k = "remove" => Due(w, r))
    BY <1>2, <1>6, <2>2, PassedOn
  <2> QED
    BY <1>6, <1>7, <2>1, <2>2, <2>3 DEF Works, Marked
<1>10. CASE DrainRequest(w, r) \/ UNCHANGED <<partVars, workVars, toC>>
  <2>1. Handled(w, r)
    BY <1>6, <1>10, DrainHandled DEF Handled, partVars, workVars
  <2>2. UNCHANGED <<held, parked, pendRemove, tpq>>
    BY <1>10 DEF DrainRequest, workVars
  <2>3. \/ fwd' = fwd
        \/ \E k \in {"step", "spec", "drain", "remove"} : Forward(w, k, r) /\ (k = "remove" => Due(w, r))
    BY <1>2, <1>6, <2>2, PassedOn
  <2> QED
    BY <1>6, <1>7, <2>1, <2>2, <2>3 DEF Works, Marked
<1>11. CASE m.kind = "remove" /\ RemoveMessage(w, r)
  <2>1. /\ Handled(w, r)
        /\ parked' = parked \/ parked' = Del(parked, w, r)
        /\ \/ pendRemove' = pendRemove
           \/ pendRemove' = [pendRemove EXCEPT ![w] = Without(@, r)]
           \/ pendRemove' = [pendRemove EXCEPT ![w] = With(@, r)]
    BY <1>5, <1>6, <1>11, RemoveMessageHandled
  <2>2. tpq' = tpq
    BY <1>11 DEF RemoveMessage
  <2>3. \/ fwd' = fwd
        \/ \E k \in {"step", "spec", "drain", "remove"} : Forward(w, k, r) /\ (k = "remove" => Due(w, r))
    BY <1>2, <1>5, <1>6, <1>11, PassedOn
  <2> QED
    BY <1>5, <1>6, <1>7, <1>11, <2>1, <2>2, <2>3 DEF Works, Marked
<1> QED
  BY <1>1, <1>4, <1>8, <1>9, <1>10, <1>11 DEF WorkerReceive

LEMMA FollowerReceiveWorks == ASSUME Shaped, NEW w \in Workers, FollowerReceive(w) PROVE \E r : Works(w, r)
<1>1. PICK m : m = Head(fwd[w])
  OBVIOUS
<1>2. fwd[w] \in Seq(Notes) /\ fwd[w] # <<>>
  BY DEF Shaped, FollowerReceive
<1>3. m \in Notes /\ m = Msg(m.kind, m.rid) /\ m.rid \in Rids /\ m \in Range(fwd[w])
  BY <1>1, <1>2, RangeTail, NoteIsMsg
<1>4. PICK r \in Rids : r = m.rid
  BY <1>3
<1>5. m.kind = "remove" => Due(w, r)
  BY <1>3, <1>4 DEF Due
<1>6. /\ UNCHANGED <<chunk, fresh, inq, prep, waiting, releases, condUsed, items, fromC>>
      /\ fwd' = [fwd EXCEPT ![w] = Tail(@)]
  BY <1>1, <1>4 DEF FollowerReceive, workerUnchanged, apiVars, dataVars, streamVars, outVars, condUsed, condVars, hist
<1>7. CASE /\ m.kind \in {"step", "spec"}
           /\ tpq' = [tpq EXCEPT ![w] = Append(@, m)]
           /\ UNCHANGED <<partVars, held, work, spec, failed, pendDrain, pendRemove, parked, freed, toC>>
  <2>1. Handled(w, r)
    BY <1>6, <1>7 DEF Handled, partVars
  <2>2. \E k \in {"step", "spec", "remove"} : tpq' = [tpq EXCEPT ![w] = Append(@, Msg(k, r))] /\ k # "remove"
    BY <1>3, <1>4, <1>7
  <2> QED
    BY <1>2, <1>6, <1>7, <2>1, <2>2 DEF Works, Marked
<1>8. CASE DrainRequest(w, r)
  <2>1. Handled(w, r)
    BY <1>6, <1>8, DrainHandled
  <2> QED
    BY <1>2, <1>6, <1>8, <2>1 DEF DrainRequest, Works, Marked
<1>9. CASE m.kind = "remove" /\ FollowRemove(w, r)
  <2>1. /\ Handled(w, r)
        /\ parked' = parked \/ parked' = Del(parked, w, r) \/ parked' = Add(parked, w, r)
        /\ \/ pendRemove' = pendRemove
           \/ pendRemove' = [pendRemove EXCEPT ![w] = Without(@, r)]
           \/ pendRemove' = [pendRemove EXCEPT ![w] = With(@, r)]
        /\ tpq' = tpq \/ tpq' = [tpq EXCEPT ![w] = Append(@, Msg("remove", r))]
    BY <1>5, <1>6, <1>9, FollowHandled
  <2> QED
    BY <1>2, <1>5, <1>6, <1>9, <2>1 DEF Works, Marked
<1> QED
  BY <1>1, <1>4, <1>7, <1>8, <1>9 DEF FollowerReceive

LEMMA HeldBackWorks ==
    ASSUME Shaped, NEW w \in Workers, ApplyRemove(w) \/ ApplyDrain(w) \/ FollowerRemoves(w)
    PROVE  \E r : Works(w, r)
<1>1. CASE ApplyRemove(w)
  <2>1. PICK r \in RemovesDue(w) : Removal(w, r) /\ Forward(w, "remove", r)
    BY <1>1 DEF ApplyRemove
  <2>2. r \in Range(pendRemove[w]) /\ r \in Rids
    <3>1. PICK i \in DOMAIN pendRemove[w] : r = pendRemove[w][i]
      BY <2>1 DEF RemovesDue
    <3> QED
      BY <3>1, RangeIsImage DEF Shaped, Range
  <2>3. Due(w, r)
    BY <2>2 DEF Due
  <2>4. UNCHANGED <<reads, tpq, toC, fromC, items, chunk, fresh, inq, prep, waiting, releases, condUsed>>
    BY <1>1 DEF ApplyRemove, workerUnchanged, apiVars, dataVars, streamVars, outVars, condUsed, condVars, hist
  <2>5. Handled(w, r)
    BY <2>1, <2>3, <2>4, RemovalHandled
  <2> QED
    BY <2>1, <2>2, <2>3, <2>4, <2>5 DEF Removal, MarkRemoved, Works, Marked
<1>2. CASE ApplyDrain(w)
  <2>1. PICK r \in DrainsDue(w) : BeginDrain(w, r) /\ pendDrain' = Del(pendDrain, w, r) /\ Forward(w, "drain", r)
    BY <1>2 DEF ApplyDrain
  <2>2. r \in Rids
    <3>1. r \in pendDrain[w]
      BY <2>1 DEF DrainsDue
    <3> QED
      BY <3>1 DEF Shaped
  <2>3. UNCHANGED <<reads, torn, held, work, pendRemove, tpq, parked, fromC, items, chunk, fresh, inq, prep,
                    waiting, releases, condUsed>>
    BY <1>2 DEF ApplyDrain, workerUnchanged, apiVars, dataVars, streamVars, outVars, condUsed, condVars, hist
  <2>4. Handled(w, r)
    BY <2>1, <2>3 DEF BeginDrain, CompleteDrain, Quiet, Handled
  <2> QED
    BY <2>1, <2>2, <2>3, <2>4 DEF Works, Marked
<1>3. CASE FollowerRemoves(w)
  <2>1. PICK m : m = Head(tpq[w])
    OBVIOUS
  <2>2. tpq[w] \in Seq(Notes) /\ tpq[w] # <<>>
    BY <1>3 DEF Shaped, FollowerRemoves
  <2>3. m \in Notes /\ m = Msg(m.kind, m.rid) /\ m.rid \in Rids /\ m \in Range(tpq[w]) /\ m.kind = "remove"
    BY <1>3, <2>1, <2>2, RangeTail, NoteIsMsg DEF FollowerRemoves
  <2>4. PICK r \in Rids : r = m.rid
    BY <2>3
  <2>5. Due(w, r)
    BY <2>3, <2>4 DEF Due
  <2>6. /\ UNCHANGED <<reads, toC, fromC, fwd, items, chunk, fresh, inq, prep, waiting, releases, condUsed>>
        /\ tpq' = [tpq EXCEPT ![w] = Tail(@)] /\ RemoveHeld(w, r)
    BY <1>3, <2>1, <2>4 DEF FollowerRemoves, workerUnchanged, apiVars, dataVars, streamVars, outVars, condUsed, condVars, hist
  <2>7. /\ Handled(w, r)
        /\ parked' = parked \/ parked' = Del(parked, w, r)
        /\ \/ pendRemove' = [pendRemove EXCEPT ![w] = Without(@, r)]
           \/ pendRemove' = [pendRemove EXCEPT ![w] = With(@, r)]
    BY <2>5, <2>6, RemovalHandled
  <2> QED
    BY <2>2, <2>5, <2>6, <2>7 DEF Works, Marked
<1> QED
  BY <1>1, <1>2, <1>3

LEMMA TurnWorks ==
    ASSUME Shaped, NEW w \in Workers, NEW r \in Rids,
           \/ DrainTurn(w, r) \/ StepStarts(w, r) \/ StepFollows(w, r) \/ StepEnds(w, r)
           \/ SpecFollows(w, r) \/ SpecEnds(w, r) \/ ReadEnds(w, r) \/ WorkerItem(w, r)
           \/ StepFails(w, r) \/ ReadFails(w, r)
    PROVE  Works(w, r)
<1>1. UNCHANGED <<fresh, inq, prep, waiting, releases, condUsed>>
  BY DEF DrainTurn, StepStarts, StepFollows, StepEnds, SpecFollows, SpecEnds, ReadEnds, WorkerItem, StepFails,
         ReadFails, workerUnchanged, apiVars, dataVars, streamVars, condUsed, condVars, hist
<1>2. CASE DrainTurn(w, r)
  <2>1. UNCHANGED <<pendDrain, items, chunk, drain, reads, torn, held, work, parked, pendRemove, tpq, fromC, fwd>>
    BY <1>2 DEF DrainTurn, workerUnchanged, dataVars, streamVars, outVars, workVars
  <2>2. CompleteDrain(w, r) /\ Quiet(w, r)
    BY <1>2 DEF DrainTurn
  <2>3. Handled(w, r)
    BY <2>1, <2>2 DEF CompleteDrain, Quiet, Handled
  <2> QED
    BY <1>1, <2>1, <2>3 DEF Works, Marked
<1>3. CASE StepStarts(w, r)
  <2>1. /\ UNCHANGED <<pendDrain, items, chunk, drain, acked, reads, torn, held, toC, parked, pendRemove, tpq, fromC>>
        /\ work' = [work EXCEPT ![w][r] = "step"] /\ work[w][r] = "inputs" /\ r \notin reads[w]
        /\ Forward(w, "step", r)
    BY <1>3 DEF StepStarts, Ready, workerUnchanged, dataVars, streamVars, outVars, partVars
  <2>2. Handled(w, r)
    BY <2>1 DEF Handled
  <2> QED
    BY <1>1, <2>1, <2>2 DEF Works, Marked
<1>4. CASE StepFollows(w, r)
  <2>1. /\ UNCHANGED <<pendDrain, items, chunk, drain, acked, reads, torn, held, toC, parked, pendRemove, fromC, fwd>>
        /\ work' = [work EXCEPT ![w][r] = "step"] /\ work[w][r] = "inputs" /\ r \notin reads[w]
        /\ tpq[w] # <<>> /\ tpq' = [tpq EXCEPT ![w] = Tail(@)]
    BY <1>4 DEF StepFollows, Ready, workerUnchanged, dataVars, streamVars, outVars, partVars
  <2>2. Handled(w, r)
    BY <2>1 DEF Handled
  <2> QED
    BY <1>1, <2>1, <2>2 DEF Works, Marked
<1>5. CASE StepEnds(w, r)
  <2>1. /\ UNCHANGED <<pendDrain, items, drain, acked, reads, torn, held, parked, pendRemove, tpq, fromC>>
        /\ work' = [work EXCEPT ![w][r] = "none"] /\ work[w][r] = "step" /\ Tell(w, "done", r)
        /\ fwd' = fwd \/ Forward(w, "spec", r)
        /\ chunk' = chunk \/ (chunk[r] = "none" /\ chunk' = [chunk EXCEPT ![r] = "sent"])
    BY <1>5 DEF StepEnds, Speculate, workerUnchanged, dataVars, streamVars, partVars
  <2>2. Handled(w, r)
    BY <2>1 DEF Handled
  <2> QED
    BY <1>1, <2>1, <2>2 DEF Works, Marked
<1>6. CASE SpecFollows(w, r) \/ SpecEnds(w, r)
  <2>1. /\ UNCHANGED <<pendDrain, items, chunk, drain, acked, reads, torn, held, work, toC, parked, pendRemove, fromC, fwd>>
        /\ tpq' = tpq \/ (tpq[w] # <<>> /\ tpq' = [tpq EXCEPT ![w] = Tail(@)])
    BY <1>6 DEF SpecFollows, SpecEnds, workerUnchanged, dataVars, streamVars, outVars, partVars
  <2>2. Handled(w, r)
    BY <2>1 DEF Handled
  <2> QED
    BY <1>1, <2>1, <2>2 DEF Works, Marked
<1>7. CASE ReadEnds(w, r)
  <2>1. /\ UNCHANGED <<pendDrain, items, chunk, drain, acked, torn, held, work, toC, parked, pendRemove, tpq, fromC, fwd>>
        /\ reads' = Del(reads, w, r)
    BY <1>7 DEF ReadEnds, workerUnchanged, dataVars, streamVars, outVars, workVars
  <2>2. Handled(w, r)
    BY <2>1 DEF Handled
  <2> QED
    BY <1>1, <2>1, <2>2 DEF Works, Marked
<1>8. CASE WorkerItem(w, r)
  <2>1. /\ UNCHANGED <<pendDrain, chunk, drain, acked, torn, held, work, toC, parked, pendRemove, tpq, fromC, fwd>>
        /\ r \in items[w] /\ items' = Del(items, w, r)
        /\ reads' = IF r \in held[w] \ acked[w] THEN Add(reads, w, r) ELSE reads
    BY <1>8 DEF WorkerItem, outVars, workVars
  <2>2. Handled(w, r)
    BY <2>1 DEF Handled
  <2> QED
    BY <1>1, <2>1, <2>2 DEF Works, Marked
<1>9. CASE StepFails(w, r) \/ ReadFails(w, r)
  <2>1. /\ UNCHANGED <<pendDrain, items, chunk, drain, acked, reads, torn, held, parked, pendRemove, tpq, fromC, fwd>>
        /\ work' = [work EXCEPT ![w][r] = "none"] /\ (toC' = toC \/ Tell(w, "fail", r))
    BY <1>9 DEF StepFails, ReadFails, Fail, workerUnchanged, dataVars, streamVars, outVars, partVars
  <2>2. Handled(w, r)
    BY <2>1 DEF Handled
  <2> QED
    BY <1>1, <2>1, <2>2 DEF Works, Marked
<1> QED
  BY <1>2, <1>3, <1>4, <1>5, <1>6, <1>7, <1>8, <1>9

LEMMA WorkerWorks == ASSUME Shaped, NEW w \in Workers, WorkerNext(w) PROVE \E r : Works(w, r)
  BY WorkerReceiveWorks, FollowerReceiveWorks, HeldBackWorks, TurnWorks DEF WorkerNext

-----------------------------------------------------------------------------
(* The barrier: its inductive invariant, one request at a time *)

\* Before the conductor has it, and for as long as it has.
Before == fresh \cup Queued \cup Prepping \cup Announced \cup Waits
Alive == Before \cup requests

NewsOf(r) == {Msg("new", r), Msg("inputs", r)}

\* Inputs of r are on their way to w; a report of w is on its way to the conductor.
NewsFor(w, r) == Msg("new", r) \in Range(fromC[w]) \/ Msg("inputs", r) \in Range(fromC[w])
DoneBy(w, r) == Msg("done", r) \in Range(toC[w])
SaidBy(e, r) == Msg("reads_done", r) \in Range(toC[e])

Ending(r) ==
    \/ \E e \in Entities : r \in torn[e] \/ Msg("remove", r) \in Range(fromC[e])
    \/ \E w \in Workers : Due(w, r)

\* A removal is on its way only once the conductor is through with the request.
RemovedLate(r) == Ending(r) => r \notin Alive

\* Nothing has happened to a request that the conductor has not taken up.
Clean(r) == r \in Before =>
    /\ \A w \in Workers : /\ ~NewsFor(w, r) /\ r \notin held[w] /\ r \notin reads[w]
                          /\ work[w][r] = "none" /\ ~DoneBy(w, r)
    /\ reported[r] = {} /\ r \notin ended /\ chunk[r] = "none" /\ r \notin reads[Data]

\* A worker reads for the requests it has a handle of; it says so once it does no more.
ReadsHeld(r) == \A w \in Workers :
    /\ r \in reads[w] => r \in held[w] \/ r \in torn[w]
    /\ ~(r \in acked[w] /\ r \in held[w] /\ r \in reads[w])

\* The data worker reads the one output, and releases it once it has it.
Reading(r) ==
    /\ TRUE \in Range(releases[r]) => chunk[r] = "got"
    /\ r \in acked[Data] => r \notin reads[Data]
    /\ r \in acked[Data] /\ r \notin drain[Data] => chunk[r] = "got"
    /\ r \in reads[Data] => chunk[r] \in {"reading", "got"}

(***************************************************************************)
(* Where participant e neither reads for r nor ever will: it has removed   *)
(* r, has said that its reads are done, or has nothing left to read.       *)
(***************************************************************************)
SafeAt(w, r) ==
    \/ r \in torn[w]
    \/ r \notin reads[w] /\ r \in acked[w]
    \/ r \notin reads[w] /\ ~NewsFor(w, r) /\ (r \notin held[w] \/ ~ClientStreams)

SafeData(r) ==
    \/ r \in torn[Data]
    \/ /\ r \notin reads[Data]
       /\ \/ r \in drain[Data] \/ chunk[r] \in {"got", "lost"}
          \/ chunk[r] = "none" /\ \A w \in Workers : work[w][r] = "none" /\ ~NewsFor(w, r)

Safe(r) == SafeData(r) /\ \A w \in Workers : SafeAt(w, r)
SafeFor(e, r) == (e = Data => SafeData(r)) /\ (e \in Workers => SafeAt(e, r))

\* What READS_DONE stands for.
Quitted(e, r) == r \in torn[e] \/ (r \in acked[e] /\ r \notin reads[e])
Vouched(r) == r \in Alive => \A e \in Entities : SaidBy(e, r) \/ e \in earlyDone[r] => Quitted(e, r)

\* Whom the barrier does not wait for, and who may remove the request, is safe.
DrainSafe(r) == r \in draining => \A e \in Entities : e \notin expected[r] => SafeFor(e, r)
EndSafe(r) == Ending(r) /\ r \notin forced => Safe(r)

\* One pass of a running request at a time: at a worker it is on its way, there, or reported.
Token(w, r) ==
    /\ Single(fromC[w], NewsOf(r)) /\ Single(toC[w], {Msg("done", r)})
    /\ work[w][r] # "none" => ~NewsFor(w, r) /\ ~DoneBy(w, r) /\ w \notin reported[r]
    /\ work[w][r] = "step" => ClientStreams \/ r \notin reads[w]
    /\ DoneBy(w, r) \/ w \in reported[r] => ~NewsFor(w, r) /\ (ClientStreams \/ r \notin reads[w])
    /\ w \in reported[r] => ~DoneBy(w, r)
Tokens(r) == Running(r) => (r \in ended => reported[r] = Workers) /\ \A w \in Workers : Token(w, r)

Kept(r) ==
    /\ RemovedLate(r) /\ Clean(r) /\ ReadsHeld(r) /\ Reading(r)
    /\ Vouched(r) /\ DrainSafe(r) /\ EndSafe(r) /\ Tokens(r)

ItemsOnly == ~ClientStreams => \A w \in Workers : items[w] = {}

Barrier == Shaped /\ ItemsOnly /\ \A r \in Rids : Kept(r)

-----------------------------------------------------------------------------
(* Steps of the participants, as one request sees them *)

AtWorker(w, q) ==
    /\ q \in torn[w] => q \in torn'[w]
    /\ q \in held'[w] => q \in held[w] \/ (NewsFor(w, q) /\ q \notin acked[w])
    /\ q \in held[w] => q \in held'[w] \/ q \in torn'[w]
    /\ q \in reads'[w] =>
         \/ q \in reads[w]
         \/ /\ q \notin acked[w] /\ (q \in held'[w] \/ q \in torn'[w])
            /\ NewsFor(w, q) \/ (ClientStreams /\ q \in held[w])
    /\ q \in acked[w] => q \in acked'[w] \/ q \in torn'[w]
    /\ q \in acked'[w] => q \in acked[w] \/ ~(q \in held'[w] /\ q \in reads'[w])
    /\ SaidBy(w, q)' => SaidBy(w, q) \/ (q \in acked'[w] /\ ~(q \in held'[w] /\ q \in reads'[w]))
    /\ NewsFor(w, q)' => NewsFor(w, q)
    /\ Single(fromC[w], NewsOf(q)) => Single(fromC'[w], NewsOf(q))
    /\ DoneBy(w, q)' => \/ DoneBy(w, q)
                        \/ /\ work[w][q] = "step" /\ work'[w][q] = "none"
                           /\ q \in reads'[w] => q \in reads[w]
    /\ Single(toC[w], {Msg("done", q)}) /\ (work[w][q] = "step" => ~DoneBy(w, q))
         => Single(toC'[w], {Msg("done", q)})
    /\ \/ work'[w][q] = work[w][q] \/ work'[w][q] = "none"
       \/ /\ work'[w][q] = "inputs" /\ NewsFor(w, q)
          /\ Single(fromC[w], NewsOf(q)) => ~NewsFor(w, q)'
       \/ work'[w][q] = "step" /\ work[w][q] = "inputs" /\ q \notin reads'[w]

AtData(q) ==
    /\ q \in torn[Data] => q \in torn'[Data]
    /\ chunk'[q] = "none" => chunk[q] = "none"
    /\ chunk[q] = "none" => chunk'[q] = "none" \/ \E w \in Workers : work[w][q] = "step"
    /\ chunk[q] = "got" => chunk'[q] = "got"
    /\ chunk[q] = "lost" => chunk'[q] \in {"got", "lost"}
    /\ chunk[q] = "reading" => chunk'[q] \in {"reading", "got"}
    /\ q \in reads'[Data] => \/ q \in reads[Data]
                             \/ /\ q \notin drain[Data] /\ chunk[q] = "queued" /\ chunk'[q] = "reading"
                                /\ q \in acked'[Data] => q \in acked[Data]
    /\ q \in acked[Data] => q \in acked'[Data] \/ q \in torn'[Data] \/ q \notin Alive'
    /\ q \in acked'[Data] => \/ q \in acked[Data]
                             \/ q \notin reads'[Data] /\ (q \in drain'[Data] \/ TRUE \in Range(releases[q]))
    /\ q \in drain[Data] => \/ q \in drain'[Data]
                            \/ q \notin acked'[Data] /\ (q \in torn'[Data] \/ q \in Before)
    /\ SaidBy(Data, q)' => SaidBy(Data, q) \/ (q \in acked'[Data] /\ q \notin reads'[Data])
    /\ TRUE \in Range(releases'[q]) => TRUE \in Range(releases[q]) \/ chunk[q] = "got"

\* The conductor has of q what it had, or has counted what it was told.
CondAs(q) ==
    /\ (q \in requests' <=> q \in requests) /\ (q \in draining' <=> q \in draining)
    /\ q \in forced => q \in forced'
    /\ \A e \in Entities : e \in expected[q] => e \in expected'[q] \/ (Quitted(e, q) /\ SafeFor(e, q))
    /\ \A e \in Entities : e \in earlyDone'[q] => e \in earlyDone[q] \/ SaidBy(e, q)
    /\ \/ reported'[q] = reported[q] /\ (q \in ended' <=> q \in ended)
       \/ ~Running(q) /\ reported'[q] = {} /\ q \notin ended'

Local(q) ==
    /\ CondAs(q) /\ (q \in Before' => q \in Before) /\ (Ending(q)' => Ending(q))
    /\ AtData(q) /\ \A w \in Workers : AtWorker(w, q)

LEMMA CondSame == ASSUME UNCHANGED condUsed, NEW q PROVE CondAs(q)
  BY DEF condUsed, CondAs

LEMMA ReadsHeldStays ==
    ASSUME NEW q, ReadsHeld(q), \A w \in Workers : AtWorker(w, q)
    PROVE  ReadsHeld(q)'
  BY DEF ReadsHeld, AtWorker

LEMMA ReadingStays == ASSUME NEW q, Reading(q), AtData(q) PROVE Reading(q)'
<1>1. q \in acked'[Data] => q \notin reads'[Data]
  BY DEF Reading, AtData
<1>2. q \in acked'[Data] /\ q \notin drain'[Data] => chunk'[q] = "got"
  BY DEF Reading, AtData
<1>3. q \in reads'[Data] => chunk'[q] \in {"reading", "got"}
  BY DEF Reading, AtData
<1>4. TRUE \in Range(releases'[q]) => chunk'[q] = "got"
  BY DEF Reading, AtData
<1> QED
  BY <1>1, <1>2, <1>3, <1>4 DEF Reading

LEMMA CleanStays == ASSUME NEW q, Clean(q), Local(q) PROVE Clean(q)'
<1> SUFFICES ASSUME q \in Before'
             PROVE  /\ \A w \in Workers : /\ ~NewsFor(w, q)' /\ q \notin held'[w] /\ q \notin reads'[w]
                                          /\ work'[w][q] = "none" /\ ~DoneBy(w, q)'
                    /\ reported'[q] = {} /\ q \notin ended' /\ chunk'[q] = "none" /\ q \notin reads'[Data]
  BY DEF Clean
<1>1. /\ \A w \in Workers : /\ ~NewsFor(w, q) /\ q \notin held[w] /\ q \notin reads[w]
                            /\ work[w][q] = "none" /\ ~DoneBy(w, q)
      /\ reported[q] = {} /\ q \notin ended /\ chunk[q] = "none" /\ q \notin reads[Data]
  BY DEF Clean, Local
<1>2. ASSUME NEW w \in Workers
      PROVE  /\ ~NewsFor(w, q)' /\ q \notin held'[w] /\ q \notin reads'[w]
             /\ work'[w][q] = "none" /\ ~DoneBy(w, q)'
  <2>1. AtWorker(w, q)
    BY DEF Local
  <2> QED
    BY <1>1, <2>1 DEF AtWorker
<1>3. reported'[q] = {} /\ q \notin ended'
  BY <1>1 DEF Local, CondAs
<1>4. chunk'[q] = "none" /\ q \notin reads'[Data]
  BY <1>1 DEF Local, AtData
<1> QED
  BY <1>2, <1>3, <1>4

LEMMA SafeAtStays == ASSUME NEW q, NEW w \in Workers, AtWorker(w, q), SafeAt(w, q) PROVE SafeAt(w, q)'
<1>1. CASE q \in torn[w]
  BY <1>1 DEF AtWorker, SafeAt
<1>2. CASE q \notin reads[w] /\ q \in acked[w]
  BY <1>2 DEF AtWorker, SafeAt
<1>3. CASE q \notin reads[w] /\ ~NewsFor(w, q) /\ (q \notin held[w] \/ ~ClientStreams)
  <2>1. q \notin reads'[w] /\ ~NewsFor(w, q)' /\ (q \notin held'[w] \/ ~ClientStreams)
    BY <1>3 DEF AtWorker
  <2> QED
    BY <2>1 DEF SafeAt
<1> QED
  BY <1>1, <1>2, <1>3 DEF SafeAt

LEMMA SafeDataStays == ASSUME NEW q, q \notin Before, Local(q), SafeData(q) PROVE SafeData(q)'
<1>1. CASE q \in torn[Data]
  BY <1>1 DEF Local, AtData, SafeData
<1>2. CASE q \notin reads[Data] /\ q \in drain[Data]
  BY <1>2 DEF Local, AtData, SafeData
<1>3. CASE q \notin reads[Data] /\ chunk[q] \in {"got", "lost"}
  BY <1>3 DEF Local, AtData, SafeData
<1>4. CASE q \notin reads[Data] /\ chunk[q] = "none" /\ \A w \in Workers : work[w][q] = "none" /\ ~NewsFor(w, q)
  <2>1. ASSUME NEW w \in Workers PROVE work'[w][q] = "none" /\ ~NewsFor(w, q)'
    BY <1>4 DEF Local, AtWorker
  <2>2. q \notin reads'[Data] /\ chunk'[q] = "none"
    BY <1>4 DEF Local, AtData
  <2> QED
    BY <2>1, <2>2 DEF SafeData
<1> QED
  BY <1>1, <1>2, <1>3, <1>4 DEF SafeData

LEMMA QuittedStays ==
    ASSUME NEW q, ReadsHeld(q)', Reading(q), Local(q), q \in Alive', NEW e \in Entities, Quitted(e, q)
    PROVE  Quitted(e, q)'
<1>1. CASE e = Data
  BY <1>1 DEF Local, AtData, Reading, Quitted
<1>2. CASE e \in Workers
  BY <1>2 DEF Local, AtWorker, Quitted
<1> QED
  BY <1>1, <1>2 DEF Entities

LEMMA VouchedStays ==
    ASSUME NEW q, ReadsHeld(q)', Reading(q), Vouched(q), Local(q)
    PROVE  Vouched(q)'
<1> SUFFICES ASSUME q \in Alive', NEW e \in Entities, SaidBy(e, q)' \/ e \in earlyDone'[q]
             PROVE  Quitted(e, q)'
  BY DEF Vouched
<1>1. q \in Alive
  BY DEF Local, Alive, CondAs
<1>2. CASE SaidBy(e, q) \/ e \in earlyDone'[q]
  <2>1. Quitted(e, q)
    BY <1>1, <1>2 DEF Vouched, Local, CondAs
  <2> QED
    BY <2>1, QuittedStays
<1>3. CASE SaidBy(e, q)' /\ ~SaidBy(e, q)
  <2>1. CASE e = Data
    BY <1>3, <2>1 DEF Local, AtData, Quitted
  <2>2. CASE e \in Workers
    BY <1>3, <2>2 DEF Local, AtWorker, Quitted, ReadsHeld
  <2> QED
    BY <2>1, <2>2 DEF Entities
<1> QED
  BY <1>2, <1>3

LEMMA TokenStays ==
    ASSUME NEW q, NEW w \in Workers, Token(w, q), AtWorker(w, q), reported'[q] = reported[q]
    PROVE  Token(w, q)'
<1>1. Single(fromC[w], NewsOf(q)) /\ Single(toC[w], {Msg("done", q)})
  BY DEF Token
<1>2. Single(fromC'[w], NewsOf(q)) /\ Single(toC'[w], {Msg("done", q)})
  BY <1>1 DEF Token, AtWorker
<1>3. reported'[q] = reported[q]
  OBVIOUS
<1>4. work'[w][q] # "none" => ~NewsFor(w, q)' /\ ~DoneBy(w, q)' /\ w \notin reported'[q]
  <2> SUFFICES ASSUME work'[w][q] # "none" PROVE ~NewsFor(w, q)' /\ ~DoneBy(w, q)' /\ w \notin reported'[q]
    OBVIOUS
  <2>1. CASE work'[w][q] = work[w][q] \/ (work'[w][q] = "step" /\ work[w][q] = "inputs")
    BY <1>3, <2>1 DEF Token, AtWorker
  <2>2. CASE work'[w][q] = "inputs" /\ NewsFor(w, q) /\ ~NewsFor(w, q)'
    BY <1>3, <2>2 DEF Token, AtWorker
  <2> QED
    BY <1>1, <2>1, <2>2 DEF AtWorker
<1>5. work'[w][q] = "step" => ClientStreams \/ q \notin reads'[w]
  BY DEF Token, AtWorker
<1>6. DoneBy(w, q)' \/ w \in reported'[q] => ~NewsFor(w, q)' /\ (ClientStreams \/ q \notin reads'[w])
  BY <1>3 DEF Token, AtWorker
<1>7. w \in reported'[q] => ~DoneBy(w, q)'
  BY <1>3 DEF Token, AtWorker
<1> QED
  BY <1>2, <1>4, <1>5, <1>6, <1>7 DEF Token

LEMMA LocalKeeps ==
    ASSUME NEW q, Inv, Kept(q), Local(q)
    PROVE  Kept(q)'
<1>1. /\ RemovedLate(q) /\ Clean(q) /\ ReadsHeld(q) /\ Reading(q)
      /\ Vouched(q) /\ DrainSafe(q) /\ EndSafe(q) /\ Tokens(q)
  BY DEF Kept
<1>2. ReadsHeld(q)' /\ Reading(q)' /\ Clean(q)'
  BY <1>1, ReadsHeldStays, ReadingStays, CleanStays DEF Local
<1>3. Vouched(q)'
  BY <1>1, <1>2, VouchedStays
<1>4. RemovedLate(q)'
  BY <1>1 DEF RemovedLate, Local, Alive, CondAs
<1>5. DrainSafe(q)'
  <2> SUFFICES ASSUME q \in draining', NEW e \in Entities, e \notin expected'[q] PROVE SafeFor(e, q)'
    BY DEF DrainSafe
  <2>1. SafeFor(e, q) /\ q \in draining
    BY <1>1 DEF DrainSafe, Local, CondAs
  <2>2. q \notin Before
    BY <2>1 DEF Inv, OnePlace, Typed, Before
  <2> QED
    BY <2>1, <2>2, SafeAtStays, SafeDataStays DEF SafeFor, Local
<1>6. EndSafe(q)'
  <2> SUFFICES ASSUME Ending(q)', q \notin forced' PROVE Safe(q)'
    BY DEF EndSafe
  <2>1. Ending(q) /\ Safe(q)
    BY <1>1 DEF EndSafe, Local, CondAs
  <2>2. q \notin Before
    BY <1>1, <2>1 DEF RemovedLate, Alive
  <2>3. SafeData(q)'
    BY <2>1, <2>2, SafeDataStays DEF Safe
  <2>4. \A w \in Workers : SafeAt(w, q)'
    BY <2>1, SafeAtStays DEF Safe, Local
  <2> QED
    BY <2>3, <2>4 DEF Safe
<1>7. Tokens(q)'
  <2> SUFFICES ASSUME Running(q)' PROVE (q \in ended' => reported'[q] = Workers) /\ \A w \in Workers : Token(w, q)'
    BY DEF Tokens
  <2>1. Running(q) /\ reported'[q] = reported[q] /\ (q \in ended' <=> q \in ended)
    BY DEF Running, Local, CondAs
  <2>2. \A w \in Workers : Token(w, q)'
    BY <1>1, <2>1, TokenStays DEF Tokens, Local
  <2> QED
    BY <1>1, <2>1, <2>2 DEF Tokens
<1> QED
  BY <1>2, <1>3, <1>4, <1>5, <1>6, <1>7 DEF Kept

-----------------------------------------------------------------------------
(* What a worker's step is to each request *)

LEMMA AnyNote == \A k \in Kinds, r \in Rids : Msg(k, r) \in Notes
  BY DEF Msg, Notes

LEMMA HandledShaped ==
    ASSUME Shaped, NEW w \in Workers, NEW r \in Rids, Handled(w, r)
    PROVE  /\ drain' \in [Entities -> SUBSET Rids] /\ acked' \in [Entities -> SUBSET Rids]
           /\ reads' \in [Entities -> SUBSET Rids] /\ torn' \in [Entities -> SUBSET Rids]
           /\ held' \in [Workers -> SUBSET Rids] /\ items' \in [Workers -> SUBSET Rids]
           /\ pendDrain' \in [Workers -> SUBSET Rids]
           /\ work' \in [Workers -> [Rids -> {"none", "inputs", "step"}]]
           /\ toC' \in [Entities -> Seq(Notes)]
<1>1. w \in Entities
  BY Cast
<1>2. /\ drain' = drain \/ drain' = Add(drain, w, r) \/ drain' = Del(drain, w, r)
      /\ acked' = acked \/ acked' = Add(acked, w, r) \/ acked' = Del(acked, w, r)
      /\ reads' = reads \/ reads' = Add(reads, w, r) \/ reads' = Del(reads, w, r)
      /\ torn' = torn \/ torn' = Add(torn, w, r)
      /\ held' = held \/ held' = Add(held, w, r) \/ held' = Del(held, w, r)
      /\ items' = items \/ items' = Del(items, w, r)
      /\ pendDrain' = pendDrain \/ pendDrain' = Add(pendDrain, w, r) \/ pendDrain' = Del(pendDrain, w, r)
      /\ \/ work' = work
         \/ \E v \in {"none", "inputs", "step"} : work' = [work EXCEPT ![w][r] = v]
  BY DEF Handled
<1>3. /\ \A f \in {drain, acked, reads, torn} : f \in [Entities -> SUBSET Rids]
      /\ \A f \in {held, items, pendDrain} : f \in [Workers -> SUBSET Rids]
      /\ work \in [Workers -> [Rids -> {"none", "inputs", "step"}]]
  BY DEF Shaped
<1>4. \A f \in [Entities -> SUBSET Rids] : Add(f, w, r) \in [Entities -> SUBSET Rids] /\ Del(f, w, r) \in [Entities -> SUBSET Rids]
  BY <1>1 DEF Add, Del
<1>5. \A f \in [Workers -> SUBSET Rids] : Add(f, w, r) \in [Workers -> SUBSET Rids] /\ Del(f, w, r) \in [Workers -> SUBSET Rids]
  BY DEF Add, Del
<1>6. /\ drain' \in [Entities -> SUBSET Rids] /\ acked' \in [Entities -> SUBSET Rids]
      /\ reads' \in [Entities -> SUBSET Rids] /\ torn' \in [Entities -> SUBSET Rids]
  BY <1>2, <1>3, <1>4
<1>7. held' \in [Workers -> SUBSET Rids] /\ items' \in [Workers -> SUBSET Rids] /\ pendDrain' \in [Workers -> SUBSET Rids]
  BY <1>2, <1>3, <1>5
<1>8. work' \in [Workers -> [Rids -> {"none", "inputs", "step"}]]
  <2>1. ASSUME NEW v \in {"none", "inputs", "step"}
        PROVE  [work EXCEPT ![w][r] = v] \in [Workers -> [Rids -> {"none", "inputs", "step"}]]
    BY <1>3
  <2> QED
    BY <1>2, <1>3, <2>1
<1>9. toC' \in [Entities -> Seq(Notes)]
  <2>1. toC' = toC \/ \E k \in {"reads_done", "fail", "done"} : Tell(w, k, r)
    BY DEF Handled
  <2>2. CASE toC' = toC
    BY <2>2 DEF Shaped
  <2>3. ASSUME NEW k \in {"reads_done", "fail", "done"}, Tell(w, k, r) PROVE toC' \in [Entities -> Seq(Notes)]
    <3>1. Msg(k, r) \in Notes
      BY AnyNote DEF Kinds
    <3>2. PICK m \in Notes : m = Msg(k, r)
      BY <3>1
    <3>3. toC' = [toC EXCEPT ![w] = Append(@, m)]
      BY <2>3, <3>2 DEF Tell
    <3> QED
      BY <1>1, <3>3 DEF Shaped
  <2> QED
    BY <2>1, <2>2, <2>3
<1> QED
  BY <1>6, <1>7, <1>8, <1>9

LEMMA MarkedShaped ==
    ASSUME Shaped, NEW w \in Workers, NEW r \in Rids, Marked(w, r)
    PROVE  /\ parked' \in [Workers -> SUBSET Rids] /\ pendRemove' \in [Workers -> Seq(Rids)]
           /\ tpq' \in [Workers -> Seq(Notes)] /\ fwd' \in [Workers -> Seq(Notes)]
           /\ fromC' \in [Entities -> Seq(Notes)]
<1>1. w \in Entities
  BY Cast
<1>2. parked' \in [Workers -> SUBSET Rids]
  <2>1. parked' = parked \/ parked' = Add(parked, w, r) \/ parked' = Del(parked, w, r)
    BY DEF Marked
  <2>2. parked \in [Workers -> SUBSET Rids]
    BY DEF Shaped
  <2> QED
    BY <2>1, <2>2 DEF Add, Del
<1>3. pendRemove' \in [Workers -> Seq(Rids)]
  <2>1. With(pendRemove[w], r) \in Seq(Rids) /\ Without(pendRemove[w], r) \in Seq(Rids)
    BY WithAdds, WithoutDrops DEF Shaped
  <2>2. pendRemove \in [Workers -> Seq(Rids)]
    BY DEF Shaped
  <2>3. \/ pendRemove' = pendRemove
        \/ pendRemove' = [pendRemove EXCEPT ![w] = Without(@, r)]
        \/ pendRemove' = [pendRemove EXCEPT ![w] = With(@, r)]
    BY DEF Marked
  <2> QED
    BY <2>1, <2>2, <2>3
<1>4. tpq' \in [Workers -> Seq(Notes)]
  <2>0. tpq \in [Workers -> Seq(Notes)]
    BY DEF Shaped
  <2>1. CASE tpq' = tpq \/ (tpq[w] # <<>> /\ tpq' = [tpq EXCEPT ![w] = Tail(@)])
    <3>1. tpq[w] # <<>> => Tail(tpq[w]) \in Seq(Notes)
      BY <2>0, RangeTail
    <3> QED
      BY <2>0, <2>1, <3>1
  <2>2. ASSUME NEW k \in {"step", "spec", "remove"}, tpq' = [tpq EXCEPT ![w] = Append(@, Msg(k, r))]
        PROVE  tpq' \in [Workers -> Seq(Notes)]
    <3>1. PICK m \in Notes : m = Msg(k, r)
      BY AnyNote DEF Kinds
    <3> QED
      BY <2>2, <3>1 DEF Shaped
  <2> QED
    BY <2>1, <2>2 DEF Marked
<1>5. fwd' \in [Workers -> Seq(Notes)]
  <2>0. fwd \in [Workers -> Seq(Notes)]
    BY DEF Shaped
  <2>1. CASE fwd' = fwd \/ (fwd[w] # <<>> /\ fwd' = [fwd EXCEPT ![w] = Tail(@)])
    <3>1. fwd[w] # <<>> => Tail(fwd[w]) \in Seq(Notes)
      BY <2>0, RangeTail
    <3> QED
      BY <2>0, <2>1, <3>1
  <2>2. ASSUME NEW k \in {"step", "spec", "drain", "remove"}, Forward(w, k, r)
        PROVE  fwd' \in [Workers -> Seq(Notes)]
    <3>1. PICK m \in Notes : m = Msg(k, r)
      BY AnyNote DEF Kinds
    <3>2. fwd' = [f \in Workers |-> IF f \in Followers(w) THEN Append(fwd[f], m) ELSE fwd[f]]
      BY <2>2, <3>1 DEF Forward
    <3>3. \A f \in Workers : (IF f \in Followers(w) THEN Append(fwd[f], m) ELSE fwd[f]) \in Seq(Notes)
      BY DEF Shaped
    <3> QED
      BY <3>2, <3>3
  <2> QED
    BY <2>1, <2>2 DEF Marked
<1>6. fromC' \in [Entities -> Seq(Notes)]
  <2>1. fromC \in [Entities -> Seq(Notes)]
    BY DEF Shaped
  <2>2. fromC' = fromC \/ (fromC[w] # <<>> /\ fromC' = [fromC EXCEPT ![w] = Tail(@)])
    BY DEF Marked
  <2>3. fromC[w] # <<>> => Tail(fromC[w]) \in Seq(Notes)
    BY <1>1, <2>1, RangeTail
  <2> QED
    BY <2>1, <2>2, <2>3
<1> QED
  BY <1>2, <1>3, <1>4, <1>5, <1>6

LEMMA WorksShaped == ASSUME Shaped, NEW w \in Workers, NEW r, Works(w, r) PROVE Shaped'
<1>1. r \in Rids /\ Handled(w, r) /\ Marked(w, r)
  BY DEF Works
<1>2. /\ drain' \in [Entities -> SUBSET Rids] /\ acked' \in [Entities -> SUBSET Rids]
      /\ reads' \in [Entities -> SUBSET Rids] /\ torn' \in [Entities -> SUBSET Rids]
      /\ held' \in [Workers -> SUBSET Rids] /\ items' \in [Workers -> SUBSET Rids]
      /\ pendDrain' \in [Workers -> SUBSET Rids]
      /\ work' \in [Workers -> [Rids -> {"none", "inputs", "step"}]]
      /\ toC' \in [Entities -> Seq(Notes)]
  BY <1>1, HandledShaped
<1>3. /\ parked' \in [Workers -> SUBSET Rids] /\ pendRemove' \in [Workers -> Seq(Rids)]
      /\ tpq' \in [Workers -> Seq(Notes)] /\ fwd' \in [Workers -> Seq(Notes)]
      /\ fromC' \in [Entities -> Seq(Notes)]
  BY <1>1, MarkedShaped
<1>4. chunk' \in [Rids -> {"none", "sent", "queued", "reading", "got", "lost"}]
  BY DEF Works, Shaped
<1>5. /\ releases' \in [Rids -> Seq(BOOLEAN)] /\ expected' \in [Rids -> SUBSET Entities]
      /\ earlyDone' \in [Rids -> SUBSET Entities] /\ reported' \in [Rids -> SUBSET Workers]
  BY DEF Works, Shaped, condUsed
<1> QED
  BY <1>2, <1>3, <1>4, <1>5 DEF Shaped

\* A channel's other messages are still what they were; one that was taken is gone.
LEMMA ChannelTaken ==
    ASSUME NEW s \in Seq(Notes), s # <<>>
    PROVE  \A m \in Range(Tail(s)) : m \in Range(s)
  BY RangeTail

LEMMA ChannelGrown ==
    ASSUME NEW s \in Seq(Notes), NEW k \in Kinds, NEW r \in Rids
    PROVE  /\ Range(Append(s, Msg(k, r))) = Range(s) \cup {Msg(k, r)}
           /\ \A S : Single(s, S) /\ (Msg(k, r) \in S => \A m \in S : m \notin Range(s)) => Single(Append(s, Msg(k, r)), S)
<1>1. PICK m \in Notes : m = Msg(k, r)
  BY AnyNote
<1>2. Range(Append(s, m)) = Range(s) \cup {m}
  BY RangeAppend
<1>3. ASSUME NEW S, Single(s, S), m \in S => \A x \in S : x \notin Range(s) PROVE Single(Append(s, m), S)
  BY <1>3, SingleAppend
<1> QED
  BY <1>1, <1>2, <1>3

\* What comes from the conductor.
LEMMA WorksNews ==
    ASSUME Shaped, NEW w \in Workers, NEW r, Works(w, r), NEW v \in Workers, NEW q
    PROVE  /\ \A m \in Range(fromC'[v]) : m \in Range(fromC[v])
           /\ NewsFor(v, q)' => NewsFor(v, q)
           /\ Single(fromC[v], NewsOf(q)) => Single(fromC'[v], NewsOf(q))
           /\ Fresh(w, r) /\ v = w /\ q = r =>
                 NewsFor(v, q) /\ (Single(fromC[v], NewsOf(q)) => ~NewsFor(v, q)')
<1>1. fromC \in [Entities -> Seq(Notes)] /\ w \in Entities /\ v \in Entities
  BY Cast DEF Shaped
<1>2. fromC' = fromC \/ (fromC[w] # <<>> /\ fromC' = [fromC EXCEPT ![w] = Tail(@)])
  BY DEF Works, Marked
<1>3. fromC'[v] = fromC[v] \/ (fromC[v] # <<>> /\ fromC'[v] = Tail(fromC[v]))
  BY <1>1, <1>2
<1>4. PICK s \in Seq(Notes) : s = fromC[v]
  BY <1>1
<1>5. PICK S : S = NewsOf(q)
  OBVIOUS
<1>6. s # <<>> => Head(s) \in Range(s) /\ \A m \in Range(Tail(s)) : m \in Range(s)
  BY RangeTail
<1>7. s # <<>> /\ Single(s, S) => Single(Tail(s), S) /\ (Head(s) \in S => \A m \in S : m \notin Range(Tail(s)))
  BY SingleTail
<1>8. \A m \in Range(fromC'[v]) : m \in Range(fromC[v])
  BY <1>3, <1>4, <1>6
<1>9. Single(fromC[v], S) => Single(fromC'[v], S)
  BY <1>3, <1>4, <1>7
<1>10. NewsFor(v, q)' => NewsFor(v, q)
  BY <1>8 DEF NewsFor
<1>11. ASSUME Fresh(w, r), v = w, q = r PROVE NewsFor(v, q) /\ (Single(fromC[v], S) => ~NewsFor(v, q)')
  <2>1. s # <<>> /\ fromC'[v] = Tail(s) /\ Head(s) \in S /\ Head(s) \in NewsOf(q)
    BY <1>1, <1>4, <1>5, <1>11 DEF Fresh, Takes, NewsOf
  <2>2. NewsFor(v, q)
    BY <1>4, <1>6, <2>1 DEF NewsOf, NewsFor
  <2>3. ASSUME Single(s, S) PROVE ~NewsFor(v, q)'
    <3>1. \A m \in NewsOf(q) : m \notin Range(fromC'[v])
      BY <1>5, <1>7, <2>1, <2>3
    <3> QED
      BY <3>1 DEF NewsOf, NewsFor
  <2> QED
    BY <1>4, <2>2, <2>3
<1> QED
  BY <1>5, <1>8, <1>9, <1>10, <1>11

\* What goes to the conductor.
LEMMA WorksSaid ==
    ASSUME Shaped, NEW w \in Workers, NEW r, Works(w, r), NEW v \in Workers, NEW q
    PROVE  /\ SaidBy(v, q)' => SaidBy(v, q) \/ (v = w /\ q = r /\ Tell(w, "reads_done", r))
           /\ DoneBy(v, q)' => DoneBy(v, q) \/ (v = w /\ q = r /\ Tell(w, "done", r))
           /\ Single(toC[v], {Msg("done", q)}) /\ (v = w /\ q = r /\ Tell(w, "done", r) => ~DoneBy(v, q))
                => Single(toC'[v], {Msg("done", q)})
<1>1. toC \in [Entities -> Seq(Notes)] /\ w \in Entities /\ v \in Entities /\ r \in Rids
  BY Cast DEF Shaped, Works
<1>2. toC' = toC \/ \E k \in {"reads_done", "fail", "done"} : Tell(w, k, r)
  BY DEF Works, Handled
<1>3. CASE toC'[v] = toC[v]
  BY <1>3 DEF SaidBy, DoneBy
<1>4. ASSUME v = w, NEW k \in {"reads_done", "fail", "done"}, Tell(w, k, r)
      PROVE  /\ SaidBy(v, q)' => SaidBy(v, q) \/ (q = r /\ k = "reads_done")
             /\ DoneBy(v, q)' => DoneBy(v, q) \/ (q = r /\ k = "done")
             /\ Single(toC[v], {Msg("done", q)}) /\ (q = r /\ k = "done" => ~DoneBy(v, q))
                  => Single(toC'[v], {Msg("done", q)})
  <2>1. toC'[v] = Append(toC[v], Msg(k, r)) /\ toC[v] \in Seq(Notes) /\ k \in Kinds
    BY <1>1, <1>4 DEF Tell, Kinds
  <2>2. /\ Range(toC'[v]) = Range(toC[v]) \cup {Msg(k, r)}
        /\ \A S : Single(toC[v], S) /\ (Msg(k, r) \in S => \A m \in S : m \notin Range(toC[v])) => Single(toC'[v], S)
    BY <1>1, <2>1, ChannelGrown
  <2>3. \A l : Msg(l, q) = Msg(k, r) <=> l = k /\ q = r
    BY MsgsDiffer
  <2>4. (SaidBy(v, q)' => SaidBy(v, q) \/ (q = r /\ k = "reads_done")) /\ (DoneBy(v, q)' => DoneBy(v, q) \/ (q = r /\ k = "done"))
    BY <2>2, <2>3 DEF SaidBy, DoneBy
  <2>5. Single(toC[v], {Msg("done", q)}) /\ (q = r /\ k = "done" => ~DoneBy(v, q)) => Single(toC'[v], {Msg("done", q)})
    BY <2>2, <2>3 DEF DoneBy
  <2> QED
    BY <2>4, <2>5
<1>5. CASE v # w
  BY <1>1, <1>2, <1>3, <1>5 DEF Tell
<1>6. CASE toC' = toC
  BY <1>3, <1>6
<1> QED
  BY <1>2, <1>4, <1>5, <1>6

LEMMA WorksElsewhere ==
    ASSUME Shaped, NEW w \in Workers, NEW r, Works(w, r), NEW v \in Workers, NEW q, v # w \/ q # r
    PROVE  /\ q \in torn'[v] <=> q \in torn[v]
           /\ q \in held'[v] <=> q \in held[v]
           /\ q \in reads'[v] <=> q \in reads[v]
           /\ q \in acked'[v] <=> q \in acked[v]
           /\ work'[v][q] = work[v][q]
<1>1. v \in Entities /\ w \in Entities
  BY Cast
<1>2. /\ acked' = acked \/ acked' = Add(acked, w, r) \/ acked' = Del(acked, w, r)
      /\ reads' = reads \/ reads' = Add(reads, w, r) \/ reads' = Del(reads, w, r)
      /\ torn' = torn \/ torn' = Add(torn, w, r)
      /\ held' = held \/ held' = Add(held, w, r) \/ held' = Del(held, w, r)
      /\ work' = work \/ \E x : work' = [work EXCEPT ![w][r] = x]
  BY DEF Works, Handled
<1>3. /\ \A f \in {acked, reads, torn} : f \in [Entities -> SUBSET Rids]
      /\ held \in [Workers -> SUBSET Rids]
      /\ work \in [Workers -> [Rids -> {"none", "inputs", "step"}]]
  BY DEF Shaped
<1>4. \A f \in [Entities -> SUBSET Rids] : (q \in Add(f, w, r)[v] <=> q \in f[v]) /\ (q \in Del(f, w, r)[v] <=> q \in f[v])
  BY <1>1 DEF Add, Del
<1>5. (q \in Add(held, w, r)[v] <=> q \in held[v]) /\ (q \in Del(held, w, r)[v] <=> q \in held[v])
  BY <1>3 DEF Add, Del
<1>6. work'[v][q] = work[v][q]
  <2>1. ASSUME NEW x, work' = [work EXCEPT ![w][r] = x] PROVE work'[v][q] = work[v][q]
    BY <1>3, <2>1
  <2> QED
    BY <1>2, <2>1
<1>7. q \in held'[v] <=> q \in held[v]
  BY <1>2, <1>5
<1> QED
  BY <1>2, <1>3, <1>4, <1>6, <1>7

LEMMA WorksHere ==
    ASSUME Shaped, ItemsOnly, NEW w \in Workers, NEW r, Works(w, r)
    PROVE  /\ r \in torn[w] => r \in torn'[w]
           /\ r \in held'[w] => r \in held[w] \/ (Takes(w, "new", r) /\ r \notin acked[w])
           /\ r \in held[w] => r \in held'[w] \/ r \in torn'[w]
           /\ r \in reads'[w] =>
                \/ r \in reads[w]
                \/ /\ r \notin acked[w] /\ (r \in held'[w] \/ r \in torn'[w])
                   /\ Fresh(w, r) \/ (ClientStreams /\ r \in held[w])
           /\ r \in acked[w] => r \in acked'[w] \/ r \in torn'[w]
           /\ r \in acked'[w] => r \in acked[w] \/ ~(r \in held'[w] /\ r \in reads'[w])
           /\ Tell(w, "reads_done", r) => r \in acked'[w] /\ ~(r \in held'[w] /\ r \in reads'[w])
           /\ Tell(w, "done", r) => /\ work[w][r] = "step" /\ work'[w][r] = "none"
                                    /\ r \in reads'[w] => r \in reads[w]
           /\ \/ work'[w][r] = work[w][r] \/ work'[w][r] = "none"
              \/ work'[w][r] = "inputs" /\ Fresh(w, r)
              \/ work'[w][r] = "step" /\ work[w][r] = "inputs" /\ r \notin reads'[w]
<1>1. w \in Entities /\ r \in Rids /\ Handled(w, r)
  BY Cast DEF Works
<1>2. /\ \A f \in {acked, reads, torn} : f \in [Entities -> SUBSET Rids]
      /\ held \in [Workers -> SUBSET Rids] /\ toC \in [Entities -> Seq(Notes)]
      /\ work \in [Workers -> [Rids -> {"none", "inputs", "step"}]]
  BY DEF Shaped
<1>3. \A f \in [Entities -> SUBSET Rids] : r \in Add(f, w, r)[w] /\ r \notin Del(f, w, r)[w]
  BY <1>1 DEF Add, Del
<1>4. r \in Add(held, w, r)[w] /\ r \notin Del(held, w, r)[w]
  BY <1>2 DEF Add, Del
<1>5. r \in items[w] => ClientStreams
  BY DEF ItemsOnly
<1>6. torn' = torn \/ torn' = Add(torn, w, r)
  BY <1>1 DEF Handled
<1>7. r \in torn[w] => r \in torn'[w]
  BY <1>2, <1>3, <1>6
<1>8. torn' = Add(torn, w, r) => r \in torn'[w]
  BY <1>2, <1>3
<1>9. \/ held' = held
      \/ held' = Add(held, w, r) /\ Takes(w, "new", r) /\ r \notin acked[w]
      \/ held' = Del(held, w, r) /\ torn' = Add(torn, w, r)
  BY <1>1 DEF Handled
<1>10. /\ r \in held'[w] => r \in held[w] \/ (Takes(w, "new", r) /\ r \notin acked[w])
       /\ r \in held[w] => r \in held'[w] \/ r \in torn'[w]
  BY <1>4, <1>8, <1>9
<1>11. \/ reads' = reads
       \/ reads' = Del(reads, w, r)
       \/ /\ reads' = Add(reads, w, r) /\ r \notin acked[w]
          /\ Fresh(w, r) \/ (r \in held[w] /\ r \in items[w])
          /\ held' = Add(held, w, r) \/ (r \in held[w] /\ held' = held) \/ torn' = Add(torn, w, r)
  BY <1>1 DEF Handled
<1>12. r \in reads'[w] =>
         \/ r \in reads[w]
         \/ /\ r \notin acked[w] /\ (r \in held'[w] \/ r \in torn'[w])
            /\ Fresh(w, r) \/ (ClientStreams /\ r \in held[w])
  BY <1>2, <1>3, <1>4, <1>5, <1>8, <1>11
<1>13. \/ acked' = acked
       \/ acked' = Del(acked, w, r) /\ torn' = Add(torn, w, r)
       \/ /\ acked' = Add(acked, w, r) /\ ~(r \in held[w] /\ r \in reads[w])
          /\ held' = held /\ reads' = reads
  BY <1>1 DEF Handled
<1>14. /\ r \in acked[w] => r \in acked'[w] \/ r \in torn'[w]
       /\ r \in acked'[w] => r \in acked[w] \/ ~(r \in held'[w] /\ r \in reads'[w])
  BY <1>2, <1>3, <1>8, <1>13
<1>15. \A k, l : Tell(w, k, r) /\ Tell(w, l, r) => k = l
  <2> SUFFICES ASSUME NEW k, NEW l, Tell(w, k, r), Tell(w, l, r) PROVE k = l
    OBVIOUS
  <2>1. Append(toC[w], Msg(k, r)) = Append(toC[w], Msg(l, r))
    BY <1>1, <1>2 DEF Tell
  <2>2. toC[w] \in Seq(Notes)
    BY <1>1, <1>2
  <2>3. Msg(k, r) = Msg(l, r)
    <3>1. /\ Append(toC[w], Msg(k, r))[Len(toC[w]) + 1] = Msg(k, r)
          /\ Append(toC[w], Msg(l, r))[Len(toC[w]) + 1] = Msg(l, r)
      BY <2>2
    <3> QED
      BY <2>1, <3>1
  <2> QED
    BY <2>3, MsgsDiffer
<1>16. \A k : Tell(w, k, r) => toC' # toC
  <2> SUFFICES ASSUME NEW k, Tell(w, k, r) PROVE toC' # toC
    OBVIOUS
  <2>1. toC'[w] = Append(toC[w], Msg(k, r)) /\ toC[w] \in Seq(Notes)
    BY <1>1, <1>2 DEF Tell
  <2>2. Len(toC'[w]) = Len(toC[w]) + 1 /\ Len(toC[w]) \in Nat
    BY <2>1
  <2> QED
    BY <2>2
<1>17. \/ toC' = toC
       \/ Tell(w, "reads_done", r) /\ acked' = Add(acked, w, r) /\ r \notin acked[w]
       \/ Tell(w, "fail", r)
       \/ /\ Tell(w, "done", r) /\ work[w][r] = "step"
          /\ work' = [work EXCEPT ![w][r] = "none"] /\ reads' = reads
  BY <1>1 DEF Handled
<1>18. Tell(w, "reads_done", r) => r \in acked'[w] /\ r \notin acked[w]
  BY <1>2, <1>3, <1>15, <1>16, <1>17
<1>19. Tell(w, "reads_done", r) => r \in acked'[w] /\ ~(r \in held'[w] /\ r \in reads'[w])
  BY <1>14, <1>18
<1>20. Tell(w, "done", r) => /\ work[w][r] = "step" /\ work'[w][r] = "none"
                             /\ r \in reads'[w] => r \in reads[w]
  BY <1>1, <1>2, <1>15, <1>16, <1>17
<1>21. \/ work'[w][r] = work[w][r] \/ work'[w][r] = "none"
       \/ work'[w][r] = "inputs" /\ Fresh(w, r)
       \/ work'[w][r] = "step" /\ work[w][r] = "inputs" /\ r \notin reads'[w]
  BY <1>1, <1>2 DEF Handled
<1> QED
  BY <1>7, <1>10, <1>12, <1>14, <1>19, <1>20, <1>21

LEMMA WorksAtWorker ==
    ASSUME Shaped, ItemsOnly, NEW w \in Workers, NEW r, Works(w, r), NEW v \in Workers, NEW q
    PROVE  AtWorker(v, q)
<1>1. /\ NewsFor(v, q)' => NewsFor(v, q)
      /\ Single(fromC[v], NewsOf(q)) => Single(fromC'[v], NewsOf(q))
      /\ Fresh(w, r) /\ v = w /\ q = r =>
                 NewsFor(v, q) /\ (Single(fromC[v], NewsOf(q)) => ~NewsFor(v, q)')
  BY WorksNews
<1>2. /\ SaidBy(v, q)' => SaidBy(v, q) \/ (v = w /\ q = r /\ Tell(w, "reads_done", r))
      /\ DoneBy(v, q)' => DoneBy(v, q) \/ (v = w /\ q = r /\ Tell(w, "done", r))
      /\ Single(toC[v], {Msg("done", q)}) /\ (v = w /\ q = r /\ Tell(w, "done", r) => ~DoneBy(v, q))
           => Single(toC'[v], {Msg("done", q)})
  BY WorksSaid
<1>3. CASE v # w \/ q # r
  BY <1>1, <1>2, <1>3, WorksElsewhere DEF AtWorker
<1>4. CASE v = w /\ q = r
  <2>1. Takes(w, "new", r) => Fresh(w, r)
    BY DEF Fresh
  <2> QED
    BY <1>1, <1>2, <1>4, <2>1, WorksHere DEF AtWorker
<1> QED
  BY <1>3, <1>4

LEMMA WorksEnding ==
    ASSUME Shaped, NEW w \in Workers, NEW r, Works(w, r), NEW q
    PROVE  Ending(q)' => Ending(q)
<1>1. w \in Entities /\ r \in Rids /\ Handled(w, r) /\ Marked(w, r)
  BY Cast DEF Works
<1>2. /\ torn \in [Entities -> SUBSET Rids] /\ parked \in [Workers -> SUBSET Rids]
      /\ pendRemove \in [Workers -> Seq(Rids)]
      /\ tpq \in [Workers -> Seq(Notes)] /\ fwd \in [Workers -> Seq(Notes)]
      /\ fromC \in [Entities -> Seq(Notes)]
  BY DEF Shaped
<1>3. Due(w, r) => Ending(r)
  BY DEF Ending
<1>4. ASSUME NEW e \in Entities, q \in torn'[e] PROVE Ending(q)
  <2>1. torn' = torn \/ (torn' = Add(torn, w, r) /\ Ending(r))
    BY <1>1, <1>3 DEF Handled
  <2>2. torn' = Add(torn, w, r) => q \in torn[e] \/ q = r
    BY <1>2, <1>4 DEF Add
  <2> QED
    BY <1>4, <2>1, <2>2 DEF Ending
<1>5. ASSUME NEW e \in Entities, Msg("remove", q) \in Range(fromC'[e]) PROVE Ending(q)
  <2>1. fromC'[e] = fromC[e] \/ (fromC[e] # <<>> /\ fromC'[e] = Tail(fromC[e]))
    BY <1>1, <1>2 DEF Marked
  <2>2. Msg("remove", q) \in Range(fromC[e])
    BY <1>2, <1>5, <2>1, ChannelTaken
  <2> QED
    BY <2>2 DEF Ending
<1>6. ASSUME NEW v \in Workers, q \in parked'[v] PROVE Ending(q)
  <2>1. \/ parked' = parked \/ parked' = Del(parked, w, r)
        \/ parked' = Add(parked, w, r) /\ Ending(r)
    BY <1>1, <1>3 DEF Marked
  <2>2. (parked' = Del(parked, w, r) => q \in parked[v]) /\ (parked' = Add(parked, w, r) => q \in parked[v] \/ q = r)
    BY <1>2, <1>6 DEF Add, Del
  <2> QED
    BY <1>6, <2>1, <2>2 DEF Ending, Due
<1>7. ASSUME NEW v \in Workers, q \in Range(pendRemove'[v]) PROVE Ending(q)
  <2>1. \/ pendRemove' = pendRemove
        \/ pendRemove' = [pendRemove EXCEPT ![w] = Without(@, r)]
        \/ pendRemove' = [pendRemove EXCEPT ![w] = With(@, r)] /\ Ending(r)
    BY <1>1, <1>3 DEF Marked
  <2>2. pendRemove[w] \in Seq(Rids)
    BY <1>2
  <2>3. Range(Without(pendRemove[w], r)) \subseteq Range(pendRemove[w]) /\ Range(With(pendRemove[w], r)) = Range(pendRemove[w]) \cup {r}
    BY <1>1, <2>2, WithAdds, WithoutDrops
  <2>4. q \in Range(pendRemove[v]) \/ (q = r /\ Ending(r))
    <3>1. CASE pendRemove' = pendRemove \/ v # w
      BY <1>2, <1>7, <2>1, <3>1
    <3>2. CASE v = w /\ pendRemove' = [pendRemove EXCEPT ![w] = Without(@, r)]
      BY <1>2, <1>7, <2>3, <3>2
    <3>3. CASE v = w /\ pendRemove' = [pendRemove EXCEPT ![w] = With(@, r)] /\ Ending(r)
      BY <1>2, <1>7, <2>3, <3>3
    <3> QED
      BY <2>1, <3>1, <3>2, <3>3
  <2> QED
    BY <2>4 DEF Ending, Due
<1>8. ASSUME NEW v \in Workers, Msg("remove", q) \in Range(tpq'[v]) PROVE Ending(q)
  <2>1. tpq[v] \in Seq(Notes)
    BY <1>2
  <2>2. CASE tpq'[v] = tpq[v] \/ (tpq[v] # <<>> /\ tpq'[v] = Tail(tpq[v]))
    <3>1. Msg("remove", q) \in Range(tpq[v])
      BY <1>8, <2>1, <2>2, ChannelTaken
    <3> QED
      BY <3>1 DEF Ending, Due
  <2>3. ASSUME NEW k \in {"step", "spec", "remove"}, k = "remove" => Due(w, r),
               tpq'[v] = Append(tpq[v], Msg(k, r))
        PROVE  Ending(q)
    <3>1. Range(tpq'[v]) = Range(tpq[v]) \cup {Msg(k, r)}
      BY <1>1, <2>1, <2>3, ChannelGrown DEF Kinds
    <3>2. Msg("remove", q) = Msg(k, r) => k = "remove" /\ q = r
      BY MsgsDiffer
    <3> QED
      BY <1>3, <1>8, <2>3, <3>1, <3>2 DEF Ending, Due
  <2>4. \/ tpq' = tpq
        \/ tpq[w] # <<>> /\ tpq' = [tpq EXCEPT ![w] = Tail(@)]
        \/ \E k \in {"step", "spec", "remove"} :
              /\ tpq' = [tpq EXCEPT ![w] = Append(@, Msg(k, r))]
              /\ k = "remove" => Due(w, r)
    BY <1>1 DEF Marked
  <2>5. CASE tpq' = tpq \/ v # w
    <3>1. tpq'[v] = tpq[v]
      BY <1>2, <2>4, <2>5
    <3> QED
      BY <2>2, <3>1
  <2>6. CASE v = w /\ tpq[w] # <<>> /\ tpq' = [tpq EXCEPT ![w] = Tail(@)]
    BY <1>2, <2>2, <2>6
  <2>7. CASE v = w /\ \E k \in {"step", "spec", "remove"} :
                         /\ tpq' = [tpq EXCEPT ![w] = Append(@, Msg(k, r))]
                         /\ k = "remove" => Due(w, r)
    BY <1>2, <2>3, <2>7
  <2> QED
    BY <2>4, <2>5, <2>6, <2>7
<1>9. ASSUME NEW v \in Workers, Msg("remove", q) \in Range(fwd'[v]) PROVE Ending(q)
  <2>1. fwd[v] \in Seq(Notes)
    BY <1>2
  <2>2. CASE fwd'[v] = fwd[v] \/ (fwd[v] # <<>> /\ fwd'[v] = Tail(fwd[v]))
    <3>1. Msg("remove", q) \in Range(fwd[v])
      BY <1>9, <2>1, <2>2, ChannelTaken
    <3> QED
      BY <3>1 DEF Ending, Due
  <2>3. ASSUME NEW k \in {"step", "spec", "drain", "remove"}, k = "remove" => Due(w, r), Forward(w, k, r)
        PROVE  Ending(q)
    <3>1. CASE fwd'[v] = fwd[v]
      BY <2>2, <3>1
    <3>2. CASE fwd'[v] = Append(fwd[v], Msg(k, r))
      <4>1. Range(fwd'[v]) = Range(fwd[v]) \cup {Msg(k, r)}
        BY <1>1, <2>1, <2>3, <3>2, ChannelGrown DEF Kinds
      <4>2. Msg("remove", q) = Msg(k, r) => k = "remove" /\ q = r
        BY MsgsDiffer
      <4> QED
        BY <1>3, <1>9, <2>3, <4>1, <4>2 DEF Ending, Due
    <3> QED
      BY <2>3, <3>1, <3>2 DEF Forward
  <2>4. \/ fwd' = fwd
        \/ fwd[w] # <<>> /\ fwd' = [fwd EXCEPT ![w] = Tail(@)]
        \/ \E k \in {"step", "spec", "drain", "remove"} : Forward(w, k, r) /\ (k = "remove" => Due(w, r))
    BY <1>1 DEF Marked
  <2>5. fwd[w] # <<>> /\ fwd' = [fwd EXCEPT ![w] = Tail(@)] =>
           fwd'[v] = fwd[v] \/ (fwd[v] # <<>> /\ fwd'[v] = Tail(fwd[v]))
    BY <1>2
  <2> QED
    BY <2>2, <2>3, <2>4, <2>5
<1> SUFFICES ASSUME Ending(q)' PROVE Ending(q)
  OBVIOUS
<1>10. \/ \E e \in Entities : q \in torn'[e] \/ Msg("remove", q) \in Range(fromC'[e])
       \/ \E v \in Workers : \/ q \in parked'[v] \/ q \in Range(pendRemove'[v])
                             \/ Msg("remove", q) \in Range(fromC'[v]) \/ Msg("remove", q) \in Range(fwd'[v])
                             \/ Msg("remove", q) \in Range(tpq'[v])
  BY DEF Ending, Due
<1> QED
  BY <1>4, <1>5, <1>6, <1>7, <1>8, <1>9, <1>10, Cast

LEMMA WorksLocal ==
    ASSUME Shaped, ItemsOnly, NEW w \in Workers, NEW r, Works(w, r), NEW q \in Rids
    PROVE  Local(q)
<1>1. w \in Entities /\ w # Data /\ Data \in Entities /\ r \in Rids
  BY Cast DEF Works
<1>2. \A v \in Workers : AtWorker(v, q)
  BY WorksAtWorker
<1>3. Ending(q)' => Ending(q)
  BY WorksEnding
<1>4. /\ toC'[Data] = toC[Data] /\ drain'[Data] = drain[Data] /\ acked'[Data] = acked[Data]
      /\ reads'[Data] = reads[Data] /\ torn'[Data] = torn[Data]
  <2>1. /\ drain' = drain \/ drain' = Add(drain, w, r) \/ drain' = Del(drain, w, r)
        /\ acked' = acked \/ acked' = Add(acked, w, r) \/ acked' = Del(acked, w, r)
        /\ reads' = reads \/ reads' = Add(reads, w, r) \/ reads' = Del(reads, w, r)
        /\ torn' = torn \/ torn' = Add(torn, w, r)
        /\ toC' = toC \/ \E k : Tell(w, k, r)
    BY DEF Works, Handled
  <2>2. /\ \A f \in {drain, acked, reads, torn} : f \in [Entities -> SUBSET Rids]
        /\ toC \in [Entities -> Seq(Notes)]
    BY DEF Shaped
  <2>3. toC'[Data] = toC[Data]
    BY <1>1, <2>1, <2>2 DEF Tell
  <2> QED
    BY <1>1, <2>1, <2>2, <2>3 DEF Add, Del
<1>5. /\ UNCHANGED condUsed /\ releases' = releases
      /\ fresh' = fresh /\ Queued' = Queued /\ Prepping' = Prepping /\ Waits' = Waits
  BY DEF Works, Queued, Prepping, Waits
<1>6. Announced' = Announced
  BY <1>4 DEF Announced
<1>7. Before' = Before
  BY <1>5, <1>6 DEF Before
<1>8. chunk' = chunk \/ (work[w][r] = "step" /\ chunk[r] = "none" /\ chunk' = [chunk EXCEPT ![r] = "sent"])
  BY DEF Works
<1>9. /\ chunk'[q] = "none" => chunk[q] = "none"
      /\ chunk[q] = "none" => chunk'[q] = "none" \/ \E v \in Workers : work[v][q] = "step"
      /\ chunk[q] # "none" => chunk'[q] = chunk[q]
  BY <1>1, <1>8 DEF Shaped
<1>10. AtData(q)
  BY <1>4, <1>5, <1>9 DEF AtData, SaidBy
<1> QED
  BY <1>2, <1>3, <1>5, <1>7, <1>10, CondSame DEF Local

-----------------------------------------------------------------------------
(* The API server and the data worker *)

barrierVars == <<fresh, inq, prep, waiting, chunk, releases, items, drain, acked, reads, torn, held, work, spec,
                 failed, parked, pendDrain, pendRemove, tpq, freed, fwd, toC, fromC, condUsed>>

(* What a step of theirs does to request r: the output and its read ... *)
Outputs(r) ==
    \/ UNCHANGED <<chunk, reads>>
    \/ /\ reads' = reads
       /\ \/ chunk[r] = "sent" /\ \E v \in {"queued", "lost"} : chunk' = [chunk EXCEPT ![r] = v]
          \/ chunk[r] = "queued" /\ \E v \in {"lost", "got"} : chunk' = [chunk EXCEPT ![r] = v]
          \/ chunk[r] = "reading" /\ chunk' = [chunk EXCEPT ![r] = "got"]
    \/ /\ chunk[r] = "queued" /\ r \notin drain[Data] /\ acked' = acked
       /\ chunk' = [chunk EXCEPT ![r] = "reading"] /\ reads' = Add(reads, Data, r)
    \/ /\ chunk[r] \in {"reading", "got"}
       /\ chunk' = [chunk EXCEPT ![r] = "got"] /\ reads' = Del(reads, Data, r)

(* ... what the data worker has acknowledged ... *)
Acks(r) ==
    \/ UNCHANGED <<drain, acked, torn>>
    \/ UNCHANGED <<acked, torn>> /\ drain' = Add(drain, Data, r)
    \/ /\ torn' = torn /\ (drain' = drain \/ drain' = Add(drain, Data, r))
       /\ acked' = Add(acked, Data, r) /\ r \notin reads'[Data]
       /\ r \in drain'[Data] \/ TRUE \in Range(releases[r])
    \/ /\ drain' = Del(drain, Data, r) /\ acked' = Del(acked, Data, r)
       /\ \/ torn' = Add(torn, Data, r) /\ Msg("remove", r) \in Range(fromC[Data])
          \/ torn' = torn /\ r \in Before /\ r \notin Alive'

(* ... and what it says to the conductor and hears from it. *)
Says(r) ==
    /\ toC' \in [Entities -> Seq(Notes)] /\ \A w \in Workers : toC'[w] = toC[w]
    /\ \A q : SaidBy(Data, q)' => SaidBy(Data, q) \/ (q = r /\ r \in acked'[Data] /\ r \notin reads'[Data])

Serves(r) ==
    /\ r \in Rids /\ Outputs(r) /\ Acks(r) /\ Says(r)
    /\ \/ releases' = releases
       \/ \E b \in BOOLEAN : releases' = [releases EXCEPT ![r] = Append(@, b)] /\ (b => chunk[r] = "got")
       \/ releases[r] # <<>> /\ releases' = [releases EXCEPT ![r] = Tail(@)]
    /\ fromC' = fromC \/ (fromC[Data] # <<>> /\ fromC' = [fromC EXCEPT ![Data] = Tail(@)])
    /\ Before' \subseteq Before
    /\ items' = items \/ (ClientStreams /\ items' \in [Workers -> SUBSET Rids])
    /\ UNCHANGED <<held, work, spec, failed, parked, pendDrain, pendRemove, tpq, freed, fwd, condUsed>>

LEMMA ServesShaped == ASSUME Shaped, NEW r, Serves(r) PROVE Shaped'
<1>1. r \in Rids /\ Data \in Entities
  BY Cast DEF Serves
<1>2. /\ \A f \in {drain, acked, reads, torn} : f \in [Entities -> SUBSET Rids]
      /\ chunk \in [Rids -> {"none", "sent", "queued", "reading", "got", "lost"}]
      /\ releases \in [Rids -> Seq(BOOLEAN)] /\ fromC \in [Entities -> Seq(Notes)]
  BY DEF Shaped
<1>3. \A f \in [Entities -> SUBSET Rids] : Add(f, Data, r) \in [Entities -> SUBSET Rids] /\ Del(f, Data, r) \in [Entities -> SUBSET Rids]
  BY <1>1 DEF Add, Del
<1>4. /\ drain' = drain \/ drain' = Add(drain, Data, r) \/ drain' = Del(drain, Data, r)
      /\ acked' = acked \/ acked' = Add(acked, Data, r) \/ acked' = Del(acked, Data, r)
      /\ torn' = torn \/ torn' = Add(torn, Data, r)
  BY DEF Serves, Acks
<1>5. /\ reads' = reads \/ reads' = Add(reads, Data, r) \/ reads' = Del(reads, Data, r)
      /\ chunk' = chunk \/ \E v \in {"queued", "lost", "reading", "got"} : chunk' = [chunk EXCEPT ![r] = v]
  BY DEF Serves, Outputs
<1>6. /\ drain' \in [Entities -> SUBSET Rids] /\ acked' \in [Entities -> SUBSET Rids]
      /\ reads' \in [Entities -> SUBSET Rids] /\ torn' \in [Entities -> SUBSET Rids]
  <2>1. drain' \in [Entities -> SUBSET Rids]
    BY <1>2, <1>3, <1>4
  <2>2. acked' \in [Entities -> SUBSET Rids]
    BY <1>2, <1>3, <1>4
  <2>3. reads' \in [Entities -> SUBSET Rids]
    BY <1>2, <1>3, <1>5
  <2>4. torn' \in [Entities -> SUBSET Rids]
    BY <1>2, <1>3, <1>4
  <2> QED
    BY <2>1, <2>2, <2>3, <2>4
<1>7. chunk' \in [Rids -> {"none", "sent", "queued", "reading", "got", "lost"}]
  BY <1>1, <1>2, <1>5
<1>8. releases' \in [Rids -> Seq(BOOLEAN)]
  <2>1. releases[r] \in Seq(BOOLEAN)
    BY <1>1, <1>2
  <2>2. (\A b \in BOOLEAN : Append(releases[r], b) \in Seq(BOOLEAN)) /\ (releases[r] # <<>> => Tail(releases[r]) \in Seq(BOOLEAN))
    BY <2>1, RangeAppend, RangeTail
  <2>3. CASE releases' = releases
    BY <1>2, <2>3
  <2>4. ASSUME NEW b \in BOOLEAN, releases' = [releases EXCEPT ![r] = Append(@, b)] PROVE releases' \in [Rids -> Seq(BOOLEAN)]
    BY <1>2, <2>2, <2>4
  <2>5. CASE releases[r] # <<>> /\ releases' = [releases EXCEPT ![r] = Tail(@)]
    BY <1>2, <2>2, <2>5
  <2> QED
    BY <2>3, <2>4, <2>5 DEF Serves
<1>9. fromC' \in [Entities -> Seq(Notes)]
  <2>1. fromC[Data] # <<>> => Tail(fromC[Data]) \in Seq(Notes)
    BY <1>1, <1>2, RangeTail
  <2>2. fromC' = fromC \/ (fromC[Data] # <<>> /\ fromC' = [fromC EXCEPT ![Data] = Tail(@)])
    BY DEF Serves
  <2> QED
    BY <1>2, <2>1, <2>2
<1>10. /\ held' \in [Workers -> SUBSET Rids] /\ parked' \in [Workers -> SUBSET Rids]
       /\ pendDrain' \in [Workers -> SUBSET Rids] /\ items' \in [Workers -> SUBSET Rids]
       /\ work' \in [Workers -> [Rids -> {"none", "inputs", "step"}]]
       /\ pendRemove' \in [Workers -> Seq(Rids)]
       /\ tpq' \in [Workers -> Seq(Notes)] /\ fwd' \in [Workers -> Seq(Notes)]
       /\ toC' \in [Entities -> Seq(Notes)]
  BY DEF Shaped, Serves, Says
<1>11. /\ expected' \in [Rids -> SUBSET Entities]
       /\ earlyDone' \in [Rids -> SUBSET Entities] /\ reported' \in [Rids -> SUBSET Workers]
  BY DEF Shaped, Serves, condUsed
<1> QED
  BY <1>6, <1>7, <1>8, <1>9, <1>10, <1>11 DEF Shaped

LEMMA ServesAtWorker ==
    ASSUME Shaped, NEW r, Serves(r), NEW v \in Workers, NEW q
    PROVE  AtWorker(v, q)
<1>1. v \in Entities /\ v # Data /\ Data \in Entities
  BY Cast
<1>2. /\ \A f \in {drain, acked, reads, torn} : f \in [Entities -> SUBSET Rids]
      /\ fromC \in [Entities -> Seq(Notes)]
  BY DEF Shaped
<1>3. \A f \in [Entities -> SUBSET Rids] : Add(f, Data, r)[v] = f[v] /\ Del(f, Data, r)[v] = f[v]
  BY <1>1 DEF Add, Del
<1>4. /\ drain' = drain \/ drain' = Add(drain, Data, r) \/ drain' = Del(drain, Data, r)
      /\ acked' = acked \/ acked' = Add(acked, Data, r) \/ acked' = Del(acked, Data, r)
      /\ torn' = torn \/ torn' = Add(torn, Data, r)
  BY DEF Serves, Acks
<1>5. reads' = reads \/ reads' = Add(reads, Data, r) \/ reads' = Del(reads, Data, r)
  BY DEF Serves, Outputs
<1>6. acked'[v] = acked[v] /\ reads'[v] = reads[v] /\ torn'[v] = torn[v]
  BY <1>2, <1>3, <1>4, <1>5
<1>7. fromC'[v] = fromC[v] /\ toC'[v] = toC[v] /\ held' = held /\ work' = work
  BY <1>1, <1>2 DEF Serves, Says
<1> QED
  BY <1>6, <1>7 DEF AtWorker, NewsFor, DoneBy, SaidBy

LEMMA ServesAtData ==
    ASSUME Shaped, NEW r, Serves(r), NEW q \in Rids
    PROVE  AtData(q)
<1>1. r \in Rids /\ Data \in Entities
  BY Cast DEF Serves
<1>2. /\ \A f \in {drain, acked, reads, torn} : f \in [Entities -> SUBSET Rids]
      /\ chunk \in [Rids -> {"none", "sent", "queued", "reading", "got", "lost"}]
      /\ releases \in [Rids -> Seq(BOOLEAN)]
  BY DEF Shaped
<1>3. \A f \in [Entities -> SUBSET Rids] : /\ q \in Add(f, Data, r)[Data] <=> q \in f[Data] \/ q = r
                                           /\ q \in Del(f, Data, r)[Data] <=> q \in f[Data] /\ q # r
  BY <1>1 DEF Add, Del
<1>4. /\ chunk'[q] = "none" => chunk[q] = "none"
      /\ chunk[q] = "none" => chunk'[q] = "none"
      /\ chunk[q] = "got" => chunk'[q] = "got"
      /\ chunk[q] = "lost" => chunk'[q] \in {"got", "lost"}
      /\ chunk[q] = "reading" => chunk'[q] \in {"reading", "got"}
  BY <1>1, <1>2 DEF Serves, Outputs
<1>5. q \in reads'[Data] => \/ q \in reads[Data]
                            \/ /\ q \notin drain[Data] /\ chunk[q] = "queued" /\ chunk'[q] = "reading"
                               /\ q \in acked'[Data] => q \in acked[Data]
  BY <1>1, <1>2, <1>3 DEF Serves, Outputs
<1>6. CASE q # r
  <2>1. (q \in torn'[Data] <=> q \in torn[Data]) /\ (q \in acked'[Data] <=> q \in acked[Data])
        /\ (q \in drain'[Data] <=> q \in drain[Data])
    BY <1>2, <1>3, <1>6 DEF Serves, Acks
  <2>2. SaidBy(Data, q)' => SaidBy(Data, q)
    BY <1>6 DEF Serves, Says
  <2>3. releases'[q] = releases[q]
    BY <1>2, <1>6 DEF Serves
  <2> QED
    BY <1>4, <1>5, <2>1, <2>2, <2>3 DEF AtData
<1>7. CASE q = r
  <2>1. q \in torn[Data] => q \in torn'[Data]
    BY <1>2, <1>3, <1>7 DEF Serves, Acks
  <2>2. /\ q \in acked[Data] => q \in acked'[Data] \/ q \in torn'[Data] \/ q \notin Alive'
        /\ q \in acked'[Data] => \/ q \in acked[Data]
                                 \/ q \notin reads'[Data] /\ (q \in drain'[Data] \/ TRUE \in Range(releases[q]))
    BY <1>2, <1>3, <1>7 DEF Serves, Acks
  <2>3. q \in drain[Data] => \/ q \in drain'[Data]
                             \/ q \notin acked'[Data] /\ (q \in torn'[Data] \/ q \in Before)
    BY <1>2, <1>3, <1>7 DEF Serves, Acks
  <2>4. SaidBy(Data, q)' => SaidBy(Data, q) \/ (q \in acked'[Data] /\ q \notin reads'[Data])
    BY <1>7 DEF Serves, Says
  <2>5. TRUE \in Range(releases'[q]) => TRUE \in Range(releases[q]) \/ chunk[q] = "got"
    <3>1. PICK s \in Seq(BOOLEAN) : s = releases[r]
      BY <1>1, <1>2
    <3>2. \A b \in BOOLEAN : Range(Append(s, b)) = Range(s) \cup {b}
      BY RangeAppend
    <3>3. s # <<>> => Range(Tail(s)) \subseteq Range(s)
      BY RangeTail
    <3>4. \/ releases'[r] = s
          \/ \E b \in BOOLEAN : releases'[r] = Append(s, b) /\ (b => chunk[r] = "got")
          \/ s # <<>> /\ releases'[r] = Tail(s)
      BY <1>1, <1>2, <3>1 DEF Serves
    <3> QED
      BY <1>7, <3>1, <3>2, <3>3, <3>4
  <2> QED
    BY <1>4, <1>5, <2>1, <2>2, <2>3, <2>4, <2>5 DEF AtData
<1> QED
  BY <1>6, <1>7

LEMMA ServesLocal == ASSUME Shaped, NEW r, Serves(r), NEW q \in Rids PROVE Local(q)
<1>1. AtData(q) /\ \A w \in Workers : AtWorker(w, q)
  BY ServesAtData, ServesAtWorker
<1>2. Ending(q)' => Ending(q)
  <2>1. Data \in Entities /\ \A w \in Workers : w \in Entities
    BY Cast
  <2>2. torn \in [Entities -> SUBSET Rids] /\ fromC \in [Entities -> Seq(Notes)]
    BY DEF Shaped
  <2>3. ASSUME NEW e \in Entities, q \in torn'[e] PROVE Ending(q)
    <3>1. torn' = torn \/ (torn' = Add(torn, Data, r) /\ Ending(r))
      BY <2>1 DEF Serves, Acks, Ending
    <3>2. torn' = Add(torn, Data, r) => q \in torn[e] \/ q = r
      BY <2>2, <2>3 DEF Add
    <3> QED
      BY <2>3, <3>1, <3>2 DEF Ending
  <2>4. ASSUME NEW e \in Entities, Msg("remove", q) \in Range(fromC'[e]) PROVE Msg("remove", q) \in Range(fromC[e])
    <3>1. fromC'[e] = fromC[e] \/ (fromC[e] # <<>> /\ fromC'[e] = Tail(fromC[e]))
      BY <2>2 DEF Serves
    <3> QED
      BY <2>2, <2>4, <3>1, ChannelTaken
  <2>5. ASSUME NEW w \in Workers, Due(w, q)' PROVE Due(w, q)
    BY <2>1, <2>4, <2>5 DEF Due, Serves
  <2> QED
    BY <2>3, <2>4, <2>5 DEF Ending
<1> QED
  BY <1>1, <1>2, CondSame DEF Local, Serves

LEMMA IdleLocal == ASSUME UNCHANGED barrierVars, NEW q PROVE Local(q)
<1>1. AtData(q)
  BY DEF barrierVars, AtData, SaidBy
<1>2. \A w \in Workers : AtWorker(w, q)
  BY DEF barrierVars, AtWorker, SaidBy, NewsFor, DoneBy
<1>3. Before' = Before
  BY DEF barrierVars, Before, Queued, Prepping, Announced, Waits
<1>4. Ending(q)' = Ending(q)
  BY DEF barrierVars, Ending, Due
<1> QED
  BY <1>1, <1>2, <1>3, <1>4, CondSame DEF Local, barrierVars

LEMMA IdleShaped == ASSUME Shaped, UNCHANGED barrierVars PROVE Shaped' /\ (ItemsOnly => ItemsOnly')
  BY DEF Shaped, ItemsOnly, barrierVars, condUsed

LEMMA WorksItems == ASSUME NEW w \in Workers, NEW r, Works(w, r), Shaped, ItemsOnly PROVE ItemsOnly'
<1>1. (items' = items \/ items' = Del(items, w, r)) /\ items \in [Workers -> SUBSET Rids]
  BY DEF Works, Handled, Shaped
<1>2. \A v \in Workers : items'[v] \subseteq items[v]
  BY <1>1 DEF Del
<1> QED
  BY <1>2 DEF ItemsOnly

LEMMA ServesItems == ASSUME NEW r, Serves(r), ItemsOnly PROVE ItemsOnly'
  BY DEF ItemsOnly, Serves

-----------------------------------------------------------------------------
(* The steps of the API server and of the data worker *)

LEMMA BeforeSame ==
    ASSUME Announced' \subseteq Announced, UNCHANGED <<fresh, inq, prep, waiting>>
    PROVE  Before' \subseteq Before
  BY DEF Before, Queued, Prepping, Waits

LEMMA AnnouncedSame == ASSUME UNCHANGED toC PROVE Announced' = Announced
  BY DEF Announced, Of

LEMMA SaysNothing == ASSUME Shaped, NEW r, UNCHANGED toC PROVE Says(r)
  BY DEF Says, Shaped, SaidBy

\* What is new in the data worker's channel is about r, and true.
LEMMA SaysGrown ==
    ASSUME Shaped, NEW r \in Rids, NEW s \in Seq(Notes), toC' = [toC EXCEPT ![Data] = s],
           \A q : Msg("reads_done", q) \in Range(s) =>
               \/ Msg("reads_done", q) \in Range(toC[Data])
               \/ q = r /\ r \in acked'[Data] /\ r \notin reads'[Data]
    PROVE  Says(r)
<1>1. toC \in [Entities -> Seq(Notes)]
  BY DEF Shaped
<1>2. /\ toC' \in [Entities -> Seq(Notes)] /\ toC'[Data] = s
      /\ \A w \in Workers : toC'[w] = toC[w]
  BY <1>1, Cast
<1> QED
  BY <1>2 DEF Says, SaidBy

LEMMA SaysTell ==
    ASSUME Shaped, NEW r \in Rids, NEW k \in Kinds, Tell(Data, k, r),
           k = "reads_done" => r \in acked'[Data] /\ r \notin reads'[Data]
    PROVE  Says(r)
<1>1. toC[Data] \in Seq(Notes)
  BY Cast DEF Shaped
<1>2. PICK s : s = Append(toC[Data], Msg(k, r))
  OBVIOUS
<1>3. s \in Seq(Notes) /\ Range(s) = Range(toC[Data]) \cup {Msg(k, r)}
  BY <1>1, <1>2, AnyNote, RangeAppend
<1>4. \A q : Msg("reads_done", q) = Msg(k, r) => k = "reads_done" /\ q = r
  BY MsgsDiffer
<1>5. toC' = [toC EXCEPT ![Data] = s]
  BY <1>2 DEF Tell
<1> QED
  BY <1>3, <1>4, <1>5, SaysGrown

LEMMA SaysDataTell ==
    ASSUME Shaped, NEW r \in Rids, NEW first, first = <<>> \/ first = <<Msg("abort", r)>>, DataTell(r, first),
           UNCHANGED reads, r \in acked'[Data] \/ r \in reads[Data]
    PROVE  Says(r)
<1>1. toC[Data] \in Seq(Notes)
  BY Cast DEF Shaped
<1>2. "abort" \in Kinds /\ "reads_done" \in Kinds
  BY DEF Kinds
<1>3. PICK a \in Notes : a = Msg("abort", r)
  BY <1>2, AnyNote
<1>4. PICK b \in Notes : b = Msg("reads_done", r)
  BY <1>2, AnyNote
<1>5. PICK last : last = IF r \in reads[Data] \/ r \in acked[Data] THEN <<>> ELSE <<b>>
  OBVIOUS
<1>6. toC' = [toC EXCEPT ![Data] = @ \o first \o last]
  BY <1>4, <1>5 DEF DataTell
<1>7. /\ <<>> \in Seq(Notes) /\ <<a>> \in Seq(Notes) /\ <<b>> \in Seq(Notes)
      /\ Range(<<>>) = {} /\ Range(<<a>>) = {a} /\ Range(<<b>>) = {b}
  BY DEF Range
<1>8. first \in Seq(Notes) /\ Range(first) \subseteq {a} /\ last \in Seq(Notes) /\ Range(last) \subseteq {b}
  BY <1>3, <1>5, <1>7
<1>9. b \in Range(last) => r \notin reads[Data]
  BY <1>5, <1>7
<1>10. PICK t : t = toC[Data] \o first
  OBVIOUS
<1>11. t \in Seq(Notes) /\ Range(t) = Range(toC[Data]) \cup Range(first)
  BY <1>1, <1>8, <1>10, RangeConcat
<1>12. PICK s : s = t \o last
  OBVIOUS
<1>13. s \in Seq(Notes) /\ Range(s) = Range(t) \cup Range(last)
  BY <1>8, <1>11, <1>12, RangeConcat
<1>14. toC' = [toC EXCEPT ![Data] = s]
  BY <1>6, <1>10, <1>12
<1>15. \A q : Msg("reads_done", q) # a /\ (Msg("reads_done", q) = b => q = r)
  BY <1>3, <1>4, MsgsDiffer
<1>16. \A q : Msg("reads_done", q) \in Range(s) =>
           Msg("reads_done", q) \in Range(toC[Data]) \/ (q = r /\ r \in acked'[Data] /\ r \notin reads'[Data])
  BY <1>8, <1>9, <1>11, <1>13, <1>15
<1> QED
  BY <1>13, <1>14, <1>16, SaysGrown

LEMMA AcksDrain ==
    ASSUME Shaped, NEW r, DataDrain(r), UNCHANGED <<reads, torn>>
    PROVE  Acks(r) /\ (r \in acked'[Data] \/ r \in reads[Data])
<1>1. /\ drain \in [Entities -> SUBSET Rids] /\ acked \in [Entities -> SUBSET Rids]
  BY DEF Shaped
<1>2. r \in Add(drain, Data, r)[Data] /\ r \in Add(acked, Data, r)[Data]
  BY <1>1, Cast DEF Add
<1> QED
  BY <1>2 DEF DataDrain, Acks

LEMMA SendAbortServes ==
    ASSUME Inv, Shaped, NEW r \in Rids, SendAbort(r), UNCHANGED <<reads, torn>>
    PROVE  Acks(r) /\ Says(r) /\ Announced' = Announced
<1>1. Announced' = Announced
  BY AbortSent
<1>2. CASE DataDrain(r) /\ DataTell(r, <<Msg("abort", r)>>)
  BY <1>1, <1>2, AcksDrain, SaysDataTell
<1>3. CASE Tell(Data, "abort", r) /\ UNCHANGED <<drain, acked>>
  <2>1. Says(r)
    BY <1>3, SaysTell DEF Kinds
  <2> QED
    BY <1>1, <1>3, <2>1 DEF Acks
<1> QED
  BY <1>2, <1>3 DEF SendAbort

\* The parts of Serves that most steps share.
LEMMA ServesUsual ==
    ASSUME NEW r \in Rids, Outputs(r), Acks(r), Says(r), Announced' = Announced, UNCHANGED releases,
           UNCHANGED <<fresh, inq, prep, waiting, items, workVars, fwd, fromC, condUsed>>
    PROVE  Serves(r)
  BY BeforeSame DEF Serves, workVars

LEMMA DataAbortServes == ASSUME Inv, Shaped, NEW r \in Rids, DataAbort(r) PROVE Serves(r)
<1>1. Acks(r) /\ Says(r) /\ Announced' = Announced
  BY SendAbortServes DEF DataAbort
<1>2. Outputs(r)
  BY DEF Outputs, DataAbort, outVars
<1> QED
  BY <1>1, <1>2, ServesUsual DEF DataAbort, apiVars, streamVars, condVars, condUsed, workVars, hist

LEMMA DataFailsServes ==
    ASSUME Inv, Shaped, NEW r \in Rids, DataResultFails(r) \/ DataReadFails(r)
    PROVE  Serves(r)
<1>1. UNCHANGED <<reads, torn>> /\ DataFails(r)
  BY DEF DataResultFails, DataReadFails
<1>2. Acks(r) /\ Says(r) /\ Announced' = Announced
  <2>1. CASE UNCHANGED <<drain, acked, toC>>
    BY <1>1, <2>1, SaysNothing, AnnouncedSame DEF Acks
  <2> QED
    BY <1>1, <2>1, SendAbortServes DEF DataFails
<1>3. Outputs(r)
  BY DEF Outputs, DataResultFails, DataReadFails
<1>4. UNCHANGED <<apiVars, dataVars, condVars, workVars, fromC, toApi, fwd, hist>>
  BY DEF DataResultFails, DataReadFails
<1> QED
  BY <1>2, <1>3, <1>4, ServesUsual DEF apiVars, dataVars, streamVars, condVars, condUsed, workVars, hist

LEMMA ApiResultServes == ASSUME Shaped, NEW r \in Rids, ApiResult(r) PROVE Serves(r)
<1>1. Says(r) /\ Announced' = Announced
  BY SaysNothing, AnnouncedSame DEF ApiResult
<1>2. Outputs(r)
  BY DEF Outputs, ApiResult, partVars
<1>3. Acks(r)
  BY DEF Acks, ApiResult, partVars
<1> QED
  BY <1>1, <1>2, <1>3, ServesUsual DEF ApiResult, apiVars, dataVars, streamVars, condVars, condUsed, workVars, hist

LEMMA DataResultServes == ASSUME Shaped, NEW r \in Rids, DataResult(r) PROVE Serves(r)
<1>1. Says(r) /\ Announced' = Announced
  BY SaysNothing, AnnouncedSame DEF DataResult
<1>2. Outputs(r)
  BY DEF Outputs, DataResult
<1>3. Acks(r)
  BY DEF Acks, DataResult
<1> QED
  BY <1>1, <1>2, <1>3, ServesUsual DEF DataResult, apiVars, dataVars, streamVars, condVars, condUsed, workVars, hist

LEMMA DataReadEndsServes == ASSUME Inv, Shaped, NEW r \in Rids, Reading(r), DataReadEnds(r) PROVE Serves(r)
<1>1. /\ r \notin reads'[Data] /\ r \in Add(acked, Data, r)[Data]
      /\ r \in drain[Data] \ acked[Data] => r \in drain'[Data]
  BY Cast DEF DataReadEnds, Shaped, Del, Add
<1>2. Outputs(r)
  BY DEF Outputs, DataReadEnds, Reading
<1>3. Acks(r)
  BY <1>1 DEF Acks, DataReadEnds
<1>4. Says(r)
  <2>1. CASE UNCHANGED <<acked, toC>>
    BY <2>1, SaysNothing
  <2>2. CASE acked' = Add(acked, Data, r) /\ Tell(Data, "reads_done", r)
    BY <1>1, <2>2, SaysTell DEF Kinds
  <2> QED
    BY <2>1, <2>2 DEF DataReadEnds
<1>5. Announced' = Announced
  BY DataReadEndsFrame DEF Frame, Calm
<1> QED
  BY <1>2, <1>3, <1>4, <1>5, ServesUsual DEF DataReadEnds, apiVars, dataVars, streamVars, condVars, condUsed, workVars, hist

LEMMA PruneServes == ASSUME Inv, Shaped, NEW r \in Rids, Prune(r) PROVE Serves(r)
<1>1. Says(r) /\ Announced' = Announced
  BY SaysNothing, AnnouncedSame DEF Prune
<1>2. Outputs(r) /\ Acks(r)
  BY DEF Outputs, Acks, Prune, outVars, partVars
<1>3. \E b \in BOOLEAN : releases' = [releases EXCEPT ![r] = Append(@, b)] /\ (b => chunk[r] = "got")
  <2>1. (r \in pend /\ chunk[r] = "got" /\ Counted(r)) \in BOOLEAN
    OBVIOUS
  <2> QED
    BY <2>1 DEF Prune
<1>4. Before' \subseteq Before
  BY <1>1, BeforeSame DEF Prune, condVars
<1> QED
  BY <1>1, <1>2, <1>3, <1>4 DEF Serves, Prune, streamVars, condVars, condUsed, workVars, hist

LEMMA DataReleaseServes == ASSUME Inv, Shaped, NEW r \in Rids, DataRelease(r) PROVE Serves(r)
<1>1. releases[r] \in Seq(BOOLEAN) /\ releases[r] # <<>>
  BY DEF Shaped, DataRelease
<1>2. Head(releases[r]) \in Range(releases[r]) /\ Head(releases[r]) \in BOOLEAN
  BY <1>1, RangeTail
<1>3. UNCHANGED <<reads, torn>>
  BY DEF DataRelease
<1>4. ASSUME UNCHANGED <<drain, acked, toC>> PROVE Acks(r) /\ Says(r)
  BY <1>3, <1>4, SaysNothing DEF Acks
<1>5. ASSUME DataDrain(r) /\ DataTell(r, <<>>) PROVE Acks(r) /\ Says(r)
  BY <1>3, <1>5, AcksDrain, SaysDataTell
<1>6. ASSUME Head(releases[r]), r \notin reads[Data], acked' = Add(acked, Data, r), UNCHANGED drain, DataTell(r, <<>>)
      PROVE  Acks(r) /\ Says(r)
  <2>1. r \in acked'[Data]
    BY <1>6, Cast DEF Shaped, Add
  <2>2. Head(releases[r]) = TRUE
    BY <1>2, <1>6
  <2>3. Acks(r)
    BY <1>2, <1>3, <1>6, <2>2 DEF Acks
  <2> QED
    BY <1>3, <1>6, <2>1, <2>3, SaysDataTell
<1>7. Acks(r) /\ Says(r)
  BY <1>4, <1>5, <1>6 DEF DataRelease, Released
<1>8. Outputs(r)
  BY <1>3 DEF Outputs, DataRelease, outVars
<1>9. Before' \subseteq Before
  <2>1. Announced' = Announced
    BY DataReleaseFrame DEF Frame, Calm
  <2> QED
    BY <2>1, BeforeSame DEF DataRelease, apiVars, condVars
<1> QED
  BY <1>1, <1>7, <1>8, <1>9 DEF Serves, DataRelease, streamVars, condVars, condUsed, workVars, hist

LEMMA DataAppendServes == ASSUME Shaped, NEW r \in Rids, DataAppend(r) PROVE Serves(r)
<1>1. Says(r) /\ Announced' = Announced
  BY SaysNothing, AnnouncedSame DEF DataAppend
<1>2. Outputs(r) /\ Acks(r)
  BY DEF Outputs, Acks, DataAppend, outVars, partVars
<1>3. ClientStreams /\ items' \in [Workers -> SUBSET Rids]
  BY DEF DataAppend, Shaped
<1>4. Before' \subseteq Before
  BY <1>1, BeforeSame DEF DataAppend, apiVars, condVars
<1> QED
  BY <1>1, <1>2, <1>3, <1>4 DEF Serves, DataAppend, condVars, condUsed, workVars, hist

LEMMA SubmitServes == ASSUME Inv, Shaped, NEW r \in Rids, Submit(r) PROVE Serves(r)
<1>1. Says(r) /\ Announced' = Announced
  BY SaysNothing, AnnouncedSame DEF Submit
<1>2. Outputs(r) /\ Acks(r)
  BY DEF Outputs, Acks, Submit, outVars, partVars
<1>3. Queued' = Queued \cup {r}
  BY RangeAppend DEF Queued, Submit, Inv, Typed
<1>4. Before' \subseteq Before
  BY <1>1, <1>3 DEF Before, Submit, Prepping, Waits, condVars
<1> QED
  BY <1>1, <1>2, <1>4 DEF Serves, Submit, streamVars, condVars, condUsed, workVars, hist

LEMMA DataReceiveServes == ASSUME Inv, Shaped, DataReceive PROVE \E r : Serves(r)
<1>1. fromC[Data] \in Seq(Notes) /\ fromC[Data] # <<>>
  BY Cast DEF Inv, Typed, DataReceive
<1>2. PICK m \in Notes : m = Head(fromC[Data]) /\ m \in Range(fromC[Data])
  BY <1>1, RangeTail
<1>3. PICK r \in Rids : r = m.rid
  BY DEF Notes
<1>4. m = Msg(m.kind, r)
  BY <1>3, NoteIsMsg
<1>5. UNCHANGED reads
  BY DEF DataReceive
<1>6. ASSUME UNCHANGED <<drain, acked, torn, toC>> PROVE Acks(r) /\ Says(r)
  BY <1>6, SaysNothing DEF Acks
<1>7. ASSUME DataDrain(r) /\ DataTell(r, <<>>) /\ UNCHANGED torn PROVE Acks(r) /\ Says(r)
  BY <1>5, <1>7, AcksDrain, SaysDataTell
<1>8. ASSUME m.kind = "remove" /\ DataForget(r) /\ torn' = Add(torn, Data, r) /\ UNCHANGED toC PROVE Acks(r) /\ Says(r)
  <2>1. Msg("remove", r) \in Range(fromC[Data])
    BY <1>2, <1>4, <1>8
  <2> QED
    BY <1>8, <2>1, SaysNothing DEF Acks, DataForget
<1>9. Acks(r) /\ Says(r)
  BY <1>2, <1>3, <1>6, <1>7, <1>8 DEF DataReceive
<1>10. Outputs(r)
  BY DEF Outputs, DataReceive, outVars
<1>11. Before' \subseteq Before
  <2>1. Announced' = Announced
    BY DataReceiveFrame DEF Frame, Calm
  <2> QED
    BY <2>1, BeforeSame DEF DataReceive, apiVars, condVars
<1>12. fromC' = fromC \/ (fromC[Data] # <<>> /\ fromC' = [fromC EXCEPT ![Data] = Tail(@)])
  BY DEF DataReceive
<1>13. Serves(r)
  BY <1>9, <1>10, <1>11, <1>12 DEF Serves, DataReceive, condVars, condUsed, workVars, hist
<1> QED
  BY <1>13

\* The oldest request of a queue leaves it.
LEMMA Oldest ==
    ASSUME NEW s \in Seq(Rids), s # <<>>, NoDup(s)
    PROVE  /\ Head(s) \in Rids /\ Head(s) \in Range(s) /\ Range(Tail(s)) = Range(s) \ {Head(s)}
<1>1. Head(s) \in Rids /\ Head(s) \in Range(s) /\ Range(s) = {Head(s)} \cup Range(Tail(s))
  BY RangeTail
<1>2. Head(s) \notin Range(Tail(s))
  BY NoDupTail
<1> QED
  BY <1>1, <1>2

LEMMA FinishServes ==
    ASSUME Inv, Shaped, NEW r \in Rids, FinishInput(r)
    PROVE  Says(r) /\ Announced' = Announced \cup {r} /\ UNCHANGED <<drain, acked>>
<1>1. Says(r)
  BY SaysTell DEF FinishInput, Kinds
<1>2. toC'[Data] = Append(toC[Data], Msg("new", r)) /\ toC[Data] \in Seq(Notes) /\ Msg("new", r) \in Notes
  BY Cast, MsgIsNote DEF FinishInput, Tell, Inv, Typed
<1>3. Announced' = Announced \cup {r}
  BY <1>2, OfAppend DEF Announced
<1> QED
  BY <1>1, <1>3 DEF FinishInput

LEMMA DataInputServes == ASSUME Inv, Shaped, DataInput PROVE \E r : Serves(r)
<1>1. inq \in Seq(Rids) /\ inq # <<>> /\ NoDup(inq) /\ prep \in Seq(Rids)
  BY DEF Inv, Typed, Distinct, DataInput
<1>2. PICK r \in Rids : r = Head(inq) /\ r \in Queued /\ Queued' = Queued \ {r}
  BY <1>1, Oldest DEF Queued, DataInput
<1>3. Outputs(r) /\ UNCHANGED <<fresh, waiting, torn, requests>>
  BY DEF Outputs, DataInput, apiVars, condVars
<1>4. CASE UNCHANGED <<prep, toC, drain, acked>>
  <2>1. Says(r) /\ Acks(r)
    BY <1>3, <1>4, SaysNothing DEF Acks
  <2>2. Before' \subseteq Before
    BY <1>2, <1>3, <1>4, AnnouncedSame DEF Before, Prepping, Waits
  <2> QED
    BY <1>3, <2>1, <2>2 DEF Serves, DataInput, condVars, condUsed, workVars, hist
<1>5. CASE prep' = Append(prep, r) /\ UNCHANGED <<toC, drain, acked>>
  <2>1. Says(r) /\ Acks(r)
    BY <1>3, <1>5, SaysNothing DEF Acks
  <2>2. Prepping' = Prepping \cup {r}
    BY <1>1, <1>5, RangeAppend DEF Prepping
  <2>3. Before' \subseteq Before
    BY <1>2, <1>3, <1>5, <2>2, AnnouncedSame DEF Before, Waits
  <2> QED
    BY <1>3, <2>1, <2>3 DEF Serves, DataInput, condVars, condUsed, workVars, hist
<1>6. CASE FinishInput(r) /\ UNCHANGED prep
  <2>1. Says(r) /\ Acks(r) /\ Announced' = Announced \cup {r}
    BY <1>3, <1>6, FinishServes DEF Acks
  <2>2. Before' \subseteq Before
    BY <1>2, <1>3, <1>6, <2>1 DEF Before, Prepping, Waits
  <2> QED
    BY <1>3, <2>1, <2>2 DEF Serves, DataInput, condVars, condUsed, workVars, hist
<1>7. CASE InputFailed(r) /\ UNCHANGED prep
  <2>1. r \notin Alive' /\ Before' \subseteq Before
    BY <1>2, <1>3, <1>7, AnnouncedSame DEF Before, Alive, Prepping, Waits, InputFailed, Inv, OnePlace
  <2>2. Says(r)
    BY <1>7, SaysNothing DEF InputFailed
  <2>3. Acks(r)
    BY <1>2, <1>3, <1>7, <2>1 DEF Acks, InputFailed, DataForget, Before
  <2> QED
    BY <1>3, <2>1, <2>2, <2>3 DEF Serves, DataInput, condVars, condUsed, workVars, hist
<1> QED
  BY <1>2, <1>4, <1>5, <1>6, <1>7 DEF DataInput

LEMMA DataPreparedServes == ASSUME Inv, Shaped, DataPrepared PROVE \E r : Serves(r)
<1>1. prep \in Seq(Rids) /\ prep # <<>> /\ NoDup(prep)
  BY DEF Inv, Typed, Distinct, DataPrepared
<1>2. PICK r \in Rids : r = Head(prep) /\ r \in Prepping /\ Prepping' = Prepping \ {r}
  BY <1>1, Oldest DEF Prepping, DataPrepared
<1>3. Outputs(r) /\ UNCHANGED <<fresh, waiting, torn, requests, inq>>
  BY DEF Outputs, DataPrepared, apiVars, condVars
<1>4. CASE FinishInput(r)
  <2>1. Says(r) /\ Acks(r) /\ Announced' = Announced \cup {r}
    BY <1>3, <1>4, FinishServes DEF Acks
  <2>2. Before' \subseteq Before
    BY <1>2, <1>3, <2>1 DEF Before, Queued, Waits
  <2> QED
    BY <1>3, <2>1, <2>2 DEF Serves, DataPrepared, condVars, condUsed, workVars, hist
<1>5. CASE DataForget(r) /\ UNCHANGED toC
  <2>1. r \notin Alive' /\ Before' \subseteq Before
    BY <1>2, <1>3, <1>5, AnnouncedSame DEF Before, Alive, Queued, Waits, Inv, OnePlace
  <2>2. Says(r)
    BY <1>5, SaysNothing
  <2>3. Acks(r)
    BY <1>2, <1>3, <1>5, <2>1 DEF Acks, DataForget, Before
  <2> QED
    BY <1>3, <2>1, <2>2, <2>3 DEF Serves, DataPrepared, condVars, condUsed, workVars, hist
<1> QED
  BY <1>2, <1>4, <1>5 DEF DataPrepared, InputFailed

LEMMA IdleSteps ==
    ASSUME \/ \E r \in Rids : ClientLeaves(r) \/ ApiError(r) \/ ClientAborts(r) \/ ServerFails(r)
           \/ ApiVerdict \/ ConductorExited \/ WorkerDies \/ UNCHANGED vars
    PROVE  UNCHANGED barrierVars
  BY DEF ClientLeaves, ApiError, ClientAborts, ServerFails, ApiVerdict, ConductorExited, WorkerDies, vars,
         barrierVars, apiVars, outVars, dataVars, streamVars, partVars, condVars, condUsed, workVars, hist

(***************************************************************************)
(* Every step but the conductor's: one participant's, for one request, or  *)
(* nothing that the barrier is about.                                      *)
(***************************************************************************)
LEMMA Participants ==
    ASSUME Inv, Barrier, [Next]_vars, ~ConductorNext, \A r \in Rids : ~ExpireDrain(r)
    PROVE  \/ UNCHANGED barrierVars
           \/ \E r : Serves(r)
           \/ \E w \in Workers : \E r : Works(w, r)
<1>1. Shaped /\ \A r \in Rids : Reading(r)
  BY DEF Barrier, Kept
<1>2. CASE ApiNext
  BY <1>1, <1>2, IdleSteps, ApiResultServes, PruneServes DEF ApiNext
<1>3. CASE DataNext
  BY <1>1, <1>3, DataAbortServes, DataReleaseServes, DataResultServes, DataReadEndsServes,
     DataInputServes, DataPreparedServes, DataReceiveServes DEF DataNext
<1>4. CASE \E w \in Workers : WorkerNext(w)
  BY <1>1, <1>4, WorkerWorks
<1>5. CASE Environment
  <2>1. ASSUME NEW r \in Rids, NEW w \in Workers, StepFails(w, r) \/ ReadFails(w, r)
        PROVE  \E q : Works(w, q)
    BY <1>1, <2>1, TurnWorks
  <2>2. CASE \E r \in Rids : Submit(r) \/ DataAppend(r) \/ DataResultFails(r) \/ DataReadFails(r)
    BY <1>1, <2>2, SubmitServes, DataAppendServes, DataFailsServes
  <2>3. CASE WorkerDies \/ \E r \in Rids : ClientAborts(r) \/ ServerFails(r)
    BY <2>3, IdleSteps
  <2> QED
    BY <1>5, <2>1, <2>2, <2>3 DEF Environment
<1>6. CASE UNCHANGED vars
  BY <1>6, IdleSteps
<1> QED
  BY <1>2, <1>3, <1>4, <1>5, <1>6 DEF Next

-----------------------------------------------------------------------------
(* The conductor's messages, kind by kind *)

\* A participant hears of r's arrival at most once, and not after its removal.
Polite(s, r) == ~Precedes(s, Msg("new", r), Msg("new", r)) /\ ~Precedes(s, Msg("remove", r), Msg("new", r))

\* What is sent is about r, and of the kinds K.
Carries(sent, r, K) ==
    /\ sent \in [Entities -> Seq(Notes)]
    /\ \A e \in Entities : Polite(sent[e], r) /\ \A m \in Range(sent[e]) : \E k \in K : m = Msg(k, r)

LEMMA RangeOne == ASSUME NEW x PROVE Range(<<x>>) = {x} /\ Range(<<>>) = {}
  BY DEF Range

LEMMA PoliteNone == ASSUME NEW r PROVE <<>> \in Seq(Notes) /\ Range(<<>>) = {} /\ Polite(<<>>, r)
<1>1. <<>> \in Seq(Notes) /\ Range(<<>>) = {} /\ ~(Len(<<>>) > 1)
  BY DEF Range
<1> QED
  BY <1>1, PrecedesBound DEF Polite

LEMMA PoliteOne == ASSUME NEW m \in Notes, NEW r PROVE Polite(<<m>>, r)
<1>1. <<m>> \in Seq(Notes) /\ ~(Len(<<m>>) > 1)
  OBVIOUS
<1> QED
  BY <1>1, PrecedesBound DEF Polite

LEMMA CarriesNothing == ASSUME NEW r, NEW K PROVE Carries(Nothing, r, K)
<1>1. <<>> \in Seq(Notes) /\ Range(<<>>) = {} /\ Polite(<<>>, r)
  BY PoliteNone
<1>2. Nothing \in [Entities -> Seq(Notes)] /\ \A e \in Entities : Range(Nothing[e]) = {} /\ Polite(Nothing[e], r)
  BY <1>1 DEF Nothing
<1> QED
  BY <1>2 DEF Carries

LEMMA CarriesSome ==
    ASSUME NEW k \in Kinds, NEW r \in Rids, NEW S, NEW K, k \in K
    PROVE  Carries([e \in Entities |-> IF e \in S THEN <<Msg(k, r)>> ELSE <<>>], r, K)
<1>1. PICK m \in Notes : m = Msg(k, r)
  BY AnyNote
<1>2. /\ <<m>> \in Seq(Notes) /\ <<>> \in Seq(Notes) /\ Range(<<m>>) = {m} /\ Range(<<>>) = {}
      /\ Polite(<<m>>, r) /\ Polite(<<>>, r)
  BY RangeOne, PoliteOne, PoliteNone
<1> QED
  BY <1>1, <1>2 DEF Carries

LEMMA CarriesAll ==
    ASSUME NEW k \in Kinds, NEW r \in Rids, NEW K, k \in K
    PROVE  Carries(ToAll(k, r), r, K)
<1>1. ToAll(k, r) = [e \in Entities |-> IF e \in Entities THEN <<Msg(k, r)>> ELSE <<>>]
  BY DEF ToAll
<1>2. Carries([e \in Entities |-> IF e \in Entities THEN <<Msg(k, r)>> ELSE <<>>], r, K)
  BY CarriesSome
<1> QED
  BY <1>1, <1>2

LEMMA CarriesWorkers ==
    ASSUME NEW k \in Kinds, NEW r \in Rids, NEW K, k \in K
    PROVE  Carries(ToWorkers(k, r), r, K) /\ \A w \in Workers : ToWorkers(k, r)[w] = <<Msg(k, r)>>
<1>1. ToWorkers(k, r) = [e \in Entities |-> IF e \in Workers THEN <<Msg(k, r)>> ELSE <<>>]
  BY Cast DEF ToWorkers, Entities
<1>2. Carries([e \in Entities |-> IF e \in Workers THEN <<Msg(k, r)>> ELSE <<>>], r, K)
  BY CarriesSome
<1> QED
  BY <1>1, <1>2, Cast

LEMMA CarriesData ==
    ASSUME NEW k \in Kinds, NEW r \in Rids, NEW K, k \in K
    PROVE  Carries(ToData(k, r), r, K) /\ \A w \in Workers : ToData(k, r)[w] = <<>>
<1>1. ToData(k, r) = [e \in Entities |-> IF e \in {Data} THEN <<Msg(k, r)>> ELSE <<>>]
  BY DEF ToData, Nothing
<1>2. Carries([e \in Entities |-> IF e \in {Data} THEN <<Msg(k, r)>> ELSE <<>>], r, K)
  BY CarriesSome
<1> QED
  BY <1>1, <1>2, Cast

\* What follows does not speak of the arrival.
LEMMA CarriesThen ==
    ASSUME NEW r, NEW K, NEW L \in SUBSET K, "new" \notin L, NEW a, NEW b, Carries(a, r, K), Carries(b, r, L)
    PROVE  Carries(Then(a, b), r, K)
<1> SUFFICES ASSUME NEW e \in Entities
             PROVE  /\ a[e] \o b[e] \in Seq(Notes) /\ Polite(a[e] \o b[e], r)
                    /\ \A m \in Range(a[e] \o b[e]) : \E k \in K : m = Msg(k, r)
  BY DEF Carries, Then
<1>1. /\ a[e] \in Seq(Notes) /\ b[e] \in Seq(Notes) /\ Polite(a[e], r) /\ Polite(b[e], r)
      /\ \A m \in Range(a[e]) : \E k \in K : m = Msg(k, r)
      /\ \A m \in Range(b[e]) : \E k \in L : m = Msg(k, r)
  BY DEF Carries
<1>2. a[e] \o b[e] \in Seq(Notes) /\ Range(a[e] \o b[e]) = Range(a[e]) \cup Range(b[e])
  BY <1>1, RangeConcat
<1>3. Msg("new", r) \notin Range(b[e])
  BY <1>1, MsgsDiffer
<1>4. Polite(a[e] \o b[e], r)
  BY <1>1, <1>3, PrecedesConcat DEF Polite
<1> QED
  BY <1>1, <1>2, <1>4

\* What q is told of stays as it was.
NoRemoval(q) ==
    \A e \in Entities : Msg("remove", q) \in Range(fromC'[e]) => Msg("remove", q) \in Range(fromC[e])
NoNews(q) == \A w \in Workers : NewsFor(w, q)' => NewsFor(w, q)
Hears(q) ==
    /\ NoRemoval(q) /\ NoNews(q)
    /\ \A w \in Workers : Single(fromC[w], NewsOf(q)) => Single(fromC'[w], NewsOf(q))

Posts(r) == fromC' \in [Entities -> Seq(Notes)] /\ \A q \in Rids \ {r} : Hears(q)

\* What a worker is sent, all of it about r; of its arrival only while it waits.
Mails(r) == \A w \in Workers : \E s \in Seq(Notes) :
    /\ fromC'[w] = fromC[w] \o s /\ Polite(s, r) /\ \A m \in Range(s) : m.rid = r
    /\ Msg("new", r) \in Range(s) => r \in Before /\ r \notin Before'

LEMMA PostsSame == ASSUME Shaped, NEW r, UNCHANGED fromC PROVE Posts(r) /\ Hears(r) /\ Mails(r)
<1>1. Posts(r) /\ Hears(r)
  BY DEF Shaped, Posts, Hears, NoRemoval, NoNews, NewsFor
<1>2. ASSUME NEW w \in Workers PROVE fromC'[w] = fromC[w] \o <<>>
  <2>1. fromC[w] \in Seq(Notes)
    BY Cast DEF Shaped
  <2> QED
    BY <2>1, ConcatNone
<1>3. <<>> \in Seq(Notes) /\ Range(<<>>) = {} /\ Polite(<<>>, r)
  BY PoliteNone
<1> QED
  BY <1>1, <1>2, <1>3 DEF Mails

LEMMA PostCarries ==
    ASSUME Shaped, NEW r \in Rids, NEW K, NEW sent, Carries(sent, r, K), Post(sent)
    PROVE  /\ Posts(r)
           /\ "remove" \notin K => NoRemoval(r)
           /\ "new" \notin K /\ "inputs" \notin K => NoNews(r)
           /\ {"remove", "new", "inputs"} \cap K = {} => Hears(r)
           /\ ("new" \in K => r \in Before /\ r \notin Before') => Mails(r)
<1>1. ASSUME NEW e \in Entities
      PROVE  /\ fromC[e] \in Seq(Notes) /\ sent[e] \in Seq(Notes) /\ fromC'[e] = fromC[e] \o sent[e]
             /\ fromC'[e] \in Seq(Notes) /\ Range(fromC'[e]) = Range(fromC[e]) \cup Range(sent[e])
  <2>1. fromC[e] \in Seq(Notes) /\ sent[e] \in Seq(Notes) /\ fromC'[e] = fromC[e] \o sent[e]
    BY DEF Shaped, Carries, Post
  <2> QED
    BY <2>1, RangeConcat
<1>2. fromC' \in [Entities -> Seq(Notes)]
  <2>1. fromC' = [e \in Entities |-> fromC[e] \o sent[e]]
    BY DEF Post
  <2> QED
    BY <1>1, <2>1
<1>3. ASSUME NEW e \in Entities, NEW k, NEW q, Msg(k, q) \in Range(sent[e]) PROVE q = r /\ k \in K
  <2>1. PICK l \in K : Msg(k, q) = Msg(l, r)
    BY <1>3 DEF Carries
  <2> QED
    BY <2>1, MsgsDiffer
<1>4. ASSUME NEW e \in Entities, NEW k, NEW q, q # r \/ k \notin K, Msg(k, q) \in Range(fromC'[e])
      PROVE  Msg(k, q) \in Range(fromC[e])
  <2>1. Msg(k, q) \in Range(fromC[e]) \cup Range(sent[e])
    BY <1>1, <1>4
  <2>2. Msg(k, q) \notin Range(sent[e])
    BY <1>3, <1>4
  <2> QED
    BY <2>1, <2>2
<1>5. \A q : q # r \/ "remove" \notin K => NoRemoval(q)
  BY <1>4 DEF NoRemoval
<1>6. \A q : q # r \/ ("new" \notin K /\ "inputs" \notin K) => NoNews(q)
  BY <1>4, Cast DEF NoNews, NewsFor
<1>7. ASSUME NEW q, q # r \/ ("new" \notin K /\ "inputs" \notin K), NEW w \in Workers, Single(fromC[w], NewsOf(q))
      PROVE  Single(fromC'[w], NewsOf(q))
  <2>1. w \in Entities
    BY Cast
  <2>2. \A x \in NewsOf(q) : x \notin Range(sent[w])
    BY <1>3, <1>7, <2>1 DEF NewsOf
  <2>3. PICK t \in Seq(Notes) : t = sent[w] /\ fromC'[w] = fromC[w] \o t
    BY <1>1, <2>1
  <2> QED
    BY <1>1, <1>7, <2>1, <2>2, <2>3, SingleConcat
<1>8. \A q : q # r \/ {"remove", "new", "inputs"} \cap K = {} => Hears(q)
  BY <1>5, <1>6, <1>7 DEF Hears
<1>9. ASSUME "new" \in K => r \in Before /\ r \notin Before', NEW w \in Workers
      PROVE  \E s \in Seq(Notes) :
                 /\ fromC'[w] = fromC[w] \o s /\ Polite(s, r) /\ \A m \in Range(s) : m.rid = r
                 /\ Msg("new", r) \in Range(s) => r \in Before /\ r \notin Before'
  <2>1. PICK s \in Seq(Notes) : s = sent[w] /\ fromC'[w] = fromC[w] \o s /\ Polite(s, r)
    BY <1>1, Cast DEF Carries
  <2>2. \A m \in Range(s) : m.rid = r
    BY <2>1, Cast DEF Carries, Msg
  <2>3. Msg("new", r) \in Range(s) => "new" \in K
    BY <1>3, <2>1, Cast
  <2> QED
    BY <1>9, <2>1, <2>2, <2>3
<1> QED
  BY <1>2, <1>5, <1>6, <1>8, <1>9 DEF Posts, Mails

LEMMA SingleNone == ASSUME NEW s \in Seq(Notes), NEW S, \A x \in S : x \notin Range(s) PROVE Single(s, S)
<1>1. \A i \in 1..Len(s) : s[i] \in Range(s)
  BY RangeIsImage
<1> QED
  BY <1>1 DEF Single

LEMMA PostOne ==
    ASSUME Shaped, NEW r \in Rids, NEW k \in Kinds, NEW sent, Post(sent), NEW w \in Workers, sent[w] = <<Msg(k, r)>>,
           ~NewsFor(w, r)
    PROVE  Single(fromC'[w], NewsOf(r))
<1>1. fromC[w] \in Seq(Notes)
  BY Cast DEF Shaped
<1>2. PICK m \in Notes : m = Msg(k, r)
  BY AnyNote
<1>3. fromC'[w] = fromC[w] \o <<m>>
  BY <1>2, Cast DEF Post
<1>4. fromC'[w] = Append(fromC[w], m)
  BY <1>1, <1>3, ConcatOne
<1>5. \A x \in NewsOf(r) : x \notin Range(fromC[w])
  BY DEF NewsOf, NewsFor
<1> QED
  BY <1>1, <1>4, <1>5, SingleNone, SingleAppend

-----------------------------------------------------------------------------
(* A step of the conductor, about one request *)

partSame == UNCHANGED <<chunk, releases, items, drain, acked, reads, torn, held, work, spec, failed, parked,
                        pendDrain, pendRemove, tpq, freed, fwd>>

Conducts(r) ==
    /\ r \in Rids /\ partSame /\ Posts(r) /\ Mails(r) /\ Before' \subseteq Before
    /\ toC' = toC \/ \E e \in Entities : toC[e] # <<>> /\ Take(e)
    /\ expected' \in [Rids -> SUBSET Entities] /\ earlyDone' \in [Rids -> SUBSET Entities]
    /\ reported' \in [Rids -> SUBSET Workers]
    /\ \A q \in Rids \ {r} : CondAs(q)

LEMMA ConductsSaid ==
    ASSUME Shaped, NEW r, Conducts(r)
    PROVE  /\ toC' \in [Entities -> Seq(Notes)]
           /\ \A e \in Entities : \A m \in Range(toC'[e]) : m \in Range(toC[e])
           /\ \A e \in Entities : \A S : Single(toC[e], S) => Single(toC'[e], S)
<1>1. toC \in [Entities -> Seq(Notes)]
  BY DEF Shaped
<1>2. CASE toC' = toC
  BY <1>1, <1>2
<1>3. ASSUME NEW e \in Entities, toC[e] # <<>>, Take(e)
      PROVE  /\ toC' \in [Entities -> Seq(Notes)]
             /\ \A v \in Entities : \A m \in Range(toC'[v]) : m \in Range(toC[v])
             /\ \A v \in Entities : \A S : Single(toC[v], S) => Single(toC'[v], S)
  <2>1. PICK s \in Seq(Notes) : s = toC[e] /\ s # <<>>
    BY <1>1, <1>3
  <2>2. toC' = [toC EXCEPT ![e] = Tail(s)]
    BY <1>3, <2>1 DEF Take
  <2>3. /\ Tail(s) \in Seq(Notes) /\ \A m \in Range(Tail(s)) : m \in Range(s)
        /\ \A S : Single(s, S) => Single(Tail(s), S)
    BY <2>1, RangeTail, SingleTail
  <2> QED
    BY <1>1, <2>1, <2>2, <2>3
<1> QED
  BY <1>2, <1>3 DEF Conducts

LEMMA ConductsShaped == ASSUME Shaped, NEW r, Conducts(r) PROVE Shaped'
<1>1. toC' \in [Entities -> Seq(Notes)]
  BY ConductsSaid
<1> QED
  BY <1>1 DEF Shaped, Conducts, Posts, partSame

\* For a request that nothing is said of and that the conductor keeps, it is no step at all.
LEMMA ConductsLocal ==
    ASSUME Shaped, NEW r, Conducts(r), NEW q \in Rids, Hears(q), CondAs(q)
    PROVE  Local(q)
<1>1. /\ \A e \in Entities : SaidBy(e, q)' => SaidBy(e, q)
      /\ \A w \in Workers : DoneBy(w, q)' => DoneBy(w, q)
      /\ \A w \in Workers : Single(toC[w], {Msg("done", q)}) => Single(toC'[w], {Msg("done", q)})
  BY ConductsSaid, Cast DEF SaidBy, DoneBy
<1>2. partSame
  BY DEF Conducts
<1>3. AtData(q)
  <2>1. SaidBy(Data, q)' => SaidBy(Data, q)
    BY <1>1, Cast
  <2>2. chunk'[q] = chunk[q] /\ releases'[q] = releases[q] /\ torn' = torn /\ reads' = reads /\ acked' = acked /\ drain' = drain
    BY <1>2 DEF partSame
  <2>3. q \in reads'[Data] => q \in reads[Data]
    BY <2>2
  <2> QED
    BY <2>1, <2>2, <2>3 DEF AtData
<1>4. ASSUME NEW w \in Workers PROVE AtWorker(w, q)
  <2>1. SaidBy(w, q)' => SaidBy(w, q)
    BY <1>1, Cast
  <2> QED
    BY <1>1, <1>2, <2>1 DEF AtWorker, Hears, NoNews, partSame
<1>5. Ending(q)' => Ending(q)
  <2>1. ASSUME NEW w \in Workers, Due(w, q)' PROVE Due(w, q)
    BY <1>2, <2>1, Cast DEF Due, Hears, NoRemoval, partSame
  <2> QED
    BY <1>2, <2>1 DEF Ending, Hears, NoRemoval, partSame
<1> QED
  BY <1>3, <1>4, <1>5 DEF Local, Conducts

LEMMA ConductsElsewhere ==
    ASSUME Inv, Barrier, NEW r, Conducts(r), NEW q \in Rids, q # r
    PROVE  Kept(q)'
  BY ConductsLocal, LocalKeeps DEF Barrier, Conducts, Posts

(* What becomes of r itself: nothing, ... *)
Remains(r) == Hears(r) /\ CondAs(r)

(* ... it is sent to the workers, ... *)
Entered(r) ==
    /\ r \in Before /\ r \notin Before' /\ r \notin draining' /\ NoRemoval(r)
    /\ UNCHANGED <<earlyDone, reported, ended>>
    /\ \A w \in Workers : ~NewsFor(w, r) => Single(fromC'[w], NewsOf(r))

(* ... it is refused or dropped before any worker heard of it, ... *)
Dropped(r) ==
    /\ r \in Before /\ r \notin Alive' /\ r \notin draining' /\ NoNews(r)
    /\ \A w \in Workers : fromC'[w] = fromC[w]

(* ... its barrier goes up, with whoever does not take part safe, ... *)
Excused(e, r) == (Running(r) /\ e \in reported[r]) \/ (r \in draining /\ e \notin expected[r])
Spared(e, r) == Quitted(e, r) \/ (NoNews(r) /\ SafeFor(e, r) /\ Excused(e, r))

Barred(r) ==
    /\ r \in Alive /\ r \in draining' /\ r \notin Before' /\ NoRemoval(r) /\ earlyDone'[r] = {}
    /\ \A e \in Entities : e \notin expected'[r] => Spared(e, r)

(* ... it is removed, ... *)
Finished(r) ==
    /\ r \notin Alive' /\ r \notin draining'
    /\ \A w \in Workers : Msg("remove", r) \in Range(fromC'[w])
    /\ r \in forced' \/ \A e \in Entities : Spared(e, r)

(* ... its next pass begins, or a worker has reported. *)
Passes(r) ==
    /\ Running(r) /\ r \in ended /\ r \notin Before' /\ r \notin draining' /\ NoRemoval(r)
    /\ earlyDone' = earlyDone /\ reported'[r] = {} /\ r \notin ended'
    /\ \A w \in Workers : ~NewsFor(w, r) => Single(fromC'[w], NewsOf(r))

Reports(r) ==
    /\ Running(r) /\ r \notin Before' /\ r \notin draining' /\ fromC' = fromC /\ earlyDone' = earlyDone
    /\ \E w \in Workers :
          /\ toC[w] # <<>> /\ Head(toC[w]) = Msg("done", r) /\ Take(w)
          /\ reported'[r] = reported[r] \cup {w}
    /\ r \in ended' => r \in ended \/ reported'[r] = Workers

Becomes(r) ==
    Remains(r) \/ Entered(r) \/ Dropped(r) \/ Barred(r) \/ Finished(r) \/ Passes(r) \/ Reports(r)

(* The request itself, after each of these *)

LEMMA SparedIsSafe ==
    ASSUME NEW r, Reading(r), partSame, NEW e \in Entities, Spared(e, r)
    PROVE  SafeFor(e, r)'
<1>1. UNCHANGED <<chunk, drain, acked, reads, torn, held, work>>
  BY DEF partSame
<1>2. CASE Quitted(e, r)
  BY <1>1, <1>2 DEF SafeFor, SafeAt, SafeData, Quitted, Reading
<1>3. CASE NoNews(r) /\ SafeFor(e, r)
  <2>1. e \in Workers => SafeAt(e, r)'
    BY <1>1, <1>3 DEF SafeFor, SafeAt, NoNews
  <2>2. e = Data => SafeData(r)'
    BY <1>1, <1>3 DEF SafeFor, SafeData, NoNews
  <2> QED
    BY <2>1, <2>2 DEF SafeFor
<1> QED
  BY <1>2, <1>3 DEF Spared

LEMMA EveryoneSafe == ASSUME NEW r, \A e \in Entities : SafeFor(e, r)' PROVE Safe(r)'
  BY Cast DEF SafeFor, Safe

LEMMA SaidLess ==
    ASSUME Shaped, NEW r, Conducts(r), Vouched(r), r \in Alive,
           earlyDone' = earlyDone \/ earlyDone'[r] = {}
    PROVE  Vouched(r)'
<1>1. ASSUME NEW e \in Entities, SaidBy(e, r)' PROVE SaidBy(e, r)
  BY <1>1, ConductsSaid DEF SaidBy
<1>2. UNCHANGED <<torn, acked, reads>>
  BY DEF Conducts, partSame
<1> QED
  BY <1>1, <1>2 DEF Vouched, Quitted

LEMMA StaysEnding ==
    ASSUME NEW r, Conducts(r), NoRemoval(r), RemovedLate(r), r \in Alive
    PROVE  ~Ending(r)'
<1>1. UNCHANGED <<torn, parked, pendRemove, fwd, tpq>>
  BY DEF Conducts, partSame
<1>2. ASSUME NEW w \in Workers, Due(w, r)' PROVE Due(w, r)
  BY <1>1, <1>2, Cast DEF Due, NoRemoval
<1> QED
  BY <1>1, <1>2 DEF Ending, NoRemoval, RemovedLate

\* What a step of the conductor leaves as it was.
LEMMA ConductsHold ==
    ASSUME NEW r, Conducts(r), Kept(r), r \notin Before'
    PROVE  ReadsHeld(r)' /\ Reading(r)' /\ Clean(r)'
<1>1. UNCHANGED <<chunk, releases, drain, acked, reads, torn, held>>
  BY DEF Conducts, partSame
<1>2. ReadsHeld(r) /\ Reading(r)
  BY DEF Kept
<1>3. ReadsHeld(r)'
  BY <1>1, <1>2 DEF ReadsHeld
<1>4. Reading(r)'
  BY <1>1, <1>2 DEF Reading
<1> QED
  BY <1>3, <1>4 DEF Clean

LEMMA DroppedKeeps == ASSUME Shaped, NEW r, Conducts(r), Kept(r), Dropped(r) PROVE Kept(r)'
<1>1. r \notin Alive' /\ r \notin Before' /\ r \notin draining' /\ ~Running(r)'
  BY DEF Dropped, Alive, Running
<1>2. ReadsHeld(r)' /\ Reading(r)' /\ Clean(r)'
  BY <1>1, ConductsHold
<1>3. UNCHANGED <<chunk, reads, torn, held, work, drain>>
  BY DEF Conducts, partSame
<1>4. /\ \A w \in Workers : ~NewsFor(w, r)' /\ r \notin held[w] /\ r \notin reads[w] /\ work[w][r] = "none"
      /\ chunk[r] = "none" /\ r \notin reads[Data]
  BY DEF Kept, Clean, Dropped, NoNews
<1>5. SafeData(r)' /\ \A w \in Workers : SafeAt(w, r)'
  BY <1>3, <1>4 DEF SafeData, SafeAt
<1> QED
  BY <1>1, <1>2, <1>5 DEF Kept, RemovedLate, Vouched, DrainSafe, EndSafe, Tokens, Safe

LEMMA FinishedKeeps == ASSUME Shaped, NEW r, Conducts(r), Kept(r), Finished(r) PROVE Kept(r)'
<1>1. r \notin Alive' /\ r \notin Before' /\ r \notin draining' /\ ~Running(r)'
  BY DEF Finished, Alive, Running
<1>2. ReadsHeld(r)' /\ Reading(r)' /\ Clean(r)'
  BY <1>1, ConductsHold
<1>3. r \in forced' \/ Safe(r)'
  BY SparedIsSafe, EveryoneSafe DEF Finished, Conducts, Kept
<1> QED
  BY <1>1, <1>2, <1>3 DEF Kept, RemovedLate, Vouched, DrainSafe, EndSafe, Tokens

LEMMA BarredKeeps == ASSUME Shaped, NEW r, Conducts(r), Kept(r), Barred(r) PROVE Kept(r)'
<1>1. r \in draining' /\ r \notin Before' /\ ~Running(r)' /\ r \in Alive
  BY DEF Barred, Running
<1>2. ReadsHeld(r)' /\ Reading(r)' /\ Clean(r)'
  BY <1>1, ConductsHold
<1>3. Vouched(r)'
  BY <1>1, SaidLess DEF Barred, Kept
<1>4. ~Ending(r)'
  BY <1>1, StaysEnding DEF Barred, Kept
<1>5. DrainSafe(r)'
  BY SparedIsSafe DEF Barred, Conducts, Kept, DrainSafe
<1> QED
  BY <1>1, <1>2, <1>3, <1>4, <1>5 DEF Kept, RemovedLate, EndSafe, Tokens

LEMMA EnteredKeeps == ASSUME Shaped, NEW r, Conducts(r), Kept(r), Entered(r) PROVE Kept(r)'
<1>1. r \notin draining' /\ r \notin Before' /\ r \in Before /\ r \in Alive
  BY DEF Entered, Alive
<1>2. ReadsHeld(r)' /\ Reading(r)' /\ Clean(r)'
  BY <1>1, ConductsHold
<1>3. Vouched(r)'
  BY <1>1, SaidLess DEF Entered, Kept
<1>4. ~Ending(r)'
  BY <1>1, StaysEnding DEF Entered, Kept
<1>5. /\ \A w \in Workers : ~NewsFor(w, r) /\ r \notin reads[w] /\ work[w][r] = "none" /\ ~DoneBy(w, r)
      /\ reported[r] = {} /\ r \notin ended
  BY <1>1 DEF Kept, Clean
<1>6. UNCHANGED <<reads, work>> /\ reported'[r] = {} /\ r \notin ended'
  BY <1>5 DEF Conducts, partSame, Entered
<1>7. ASSUME NEW w \in Workers PROVE Token(w, r)'
  <2>1. Single(fromC'[w], NewsOf(r))
    BY <1>5 DEF Entered
  <2>2. ~DoneBy(w, r)' /\ toC'[w] \in Seq(Notes)
    BY <1>5, ConductsSaid, Cast DEF DoneBy
  <2>3. Single(toC'[w], {Msg("done", r)})
    BY <2>2, SingleNone DEF DoneBy
  <2> QED
    BY <1>5, <1>6, <2>1, <2>2, <2>3 DEF Token
<1> QED
  BY <1>1, <1>2, <1>3, <1>4, <1>6, <1>7 DEF Kept, RemovedLate, DrainSafe, EndSafe, Tokens

LEMMA PassesKeeps == ASSUME Shaped, NEW r, Conducts(r), Kept(r), Passes(r) PROVE Kept(r)'
<1>1. r \notin draining' /\ r \notin Before' /\ Running(r) /\ r \in Alive
  BY DEF Passes, Alive, Running
<1>2. ReadsHeld(r)' /\ Reading(r)' /\ Clean(r)'
  BY <1>1, ConductsHold
<1>3. Vouched(r)'
  BY <1>1, SaidLess DEF Passes, Kept
<1>4. ~Ending(r)'
  BY <1>1, StaysEnding DEF Passes, Kept
<1>5. reported[r] = Workers /\ \A w \in Workers : Token(w, r)
  BY DEF Kept, Tokens, Passes
<1>6. UNCHANGED <<reads, work>> /\ reported'[r] = {} /\ r \notin ended'
  BY DEF Conducts, partSame, Passes
<1>7. ASSUME NEW w \in Workers PROVE Token(w, r)'
  <2>1. ~NewsFor(w, r) /\ ~DoneBy(w, r) /\ work[w][r] = "none"
    BY <1>5 DEF Token
  <2>2. Single(fromC'[w], NewsOf(r))
    BY <2>1 DEF Passes
  <2>3. ~DoneBy(w, r)' /\ Single(toC'[w], {Msg("done", r)})
    BY <1>5, <2>1, ConductsSaid, Cast DEF DoneBy, Token
  <2> QED
    BY <1>6, <2>1, <2>2, <2>3 DEF Token
<1> QED
  BY <1>1, <1>2, <1>3, <1>4, <1>6, <1>7 DEF Kept, RemovedLate, DrainSafe, EndSafe, Tokens

LEMMA ReportsKeeps == ASSUME Shaped, NEW r, Conducts(r), Kept(r), Reports(r) PROVE Kept(r)'
<1>1. r \notin draining' /\ r \notin Before' /\ Running(r) /\ r \in Alive
  BY DEF Reports, Alive, Running
<1>2. ReadsHeld(r)' /\ Reading(r)' /\ Clean(r)'
  BY <1>1, ConductsHold
<1>3. Vouched(r)'
  BY <1>1, SaidLess DEF Reports, Kept
<1>4. ~Ending(r)'
  BY <1>1, StaysEnding DEF Reports, Kept, NoRemoval
<1>5. (r \in ended => reported[r] = Workers) /\ \A v \in Workers : Token(v, r)
  BY <1>1 DEF Kept, Tokens
<1>6. PICK w \in Workers : /\ toC[w] # <<>> /\ Head(toC[w]) = Msg("done", r) /\ Take(w)
                           /\ reported'[r] = reported[r] \cup {w}
  BY DEF Reports
<1>7. UNCHANGED <<reads, work, fromC>>
  BY DEF Conducts, partSame, Reports
<1>8. DoneBy(w, r) /\ ~DoneBy(w, r)'
  <2>1. PICK s \in Seq(Notes) : s = toC[w] /\ s # <<>>
    BY <1>6, Cast DEF Shaped
  <2>2. Head(s) \in Range(s)
    BY <2>1, RangeTail
  <2>3. Single(s, {Msg("done", r)})
    BY <1>5, <2>1 DEF Token
  <2>4. Msg("done", r) \notin Range(Tail(s))
    BY <1>6, <2>1, <2>3, SingleTail
  <2>5. toC'[w] = Tail(s)
    BY <1>6, <2>1, Cast DEF Take, Shaped
  <2> QED
    BY <1>6, <2>1, <2>2, <2>4, <2>5 DEF DoneBy
<1>9. ASSUME NEW v \in Workers PROVE Token(v, r)'
  <2>1. Single(toC'[v], {Msg("done", r)}) /\ (DoneBy(v, r)' => DoneBy(v, r)) /\ (NewsFor(v, r)' <=> NewsFor(v, r))
    BY <1>5, <1>7, ConductsSaid, Cast DEF DoneBy, NewsFor, Token
  <2>2. CASE v = w
    BY <1>5, <1>6, <1>7, <1>8, <2>1, <2>2 DEF Token
  <2>3. CASE v # w
    BY <1>5, <1>6, <1>7, <2>1, <2>3 DEF Token
  <2> QED
    BY <2>2, <2>3
<1>10. r \in ended' => reported'[r] = Workers
  BY <1>5, <1>6 DEF Reports
<1> QED
  BY <1>1, <1>2, <1>3, <1>4, <1>9, <1>10 DEF Kept, RemovedLate, DrainSafe, EndSafe, Tokens

LEMMA ConductsKeeps == ASSUME Inv, Barrier, NEW r, Conducts(r), Becomes(r) PROVE Barrier'
<1>1. Shaped /\ r \in Rids /\ Kept(r) /\ ItemsOnly
  BY DEF Barrier, Conducts
<1>2. Shaped'
  BY <1>1, ConductsShaped
<1>3. ItemsOnly'
  BY <1>1 DEF ItemsOnly, Conducts, partSame
<1>4. Kept(r)'
  <2>1. CASE Remains(r)
    BY <1>1, <2>1, ConductsLocal, LocalKeeps DEF Remains
  <2> QED
    BY <1>1, <2>1, EnteredKeeps, DroppedKeeps, BarredKeeps, FinishedKeeps, PassesKeeps, ReportsKeeps DEF Becomes
<1>5. \A q \in Rids : Kept(q)'
  BY <1>4, ConductsElsewhere
<1> QED
  BY <1>2, <1>3, <1>5 DEF Barrier

-----------------------------------------------------------------------------
(* What the conductor's handlers do to a request *)

\* The handler leaves the participants and the other requests alone; what it took in
\* was from a socket or the waiting list.
Turn(r) ==
    /\ partSame /\ UNCHANGED <<fresh, inq, prep>>
    /\ toC' = toC \/ \E e \in Entities : toC[e] # <<>> /\ Take(e)
    /\ Before' \subseteq Before
    /\ reported' \in [Rids -> SUBSET Workers]
    /\ \A q \in Rids \ {r} : /\ reported'[q] = reported[q] /\ (q \in ended' <=> q \in ended)
                             /\ q \in forced => q \in forced'

LEMMA QuittedIsSafe == ASSUME NEW r, Reading(r), NEW e \in Entities, Quitted(e, r) PROVE SafeFor(e, r)
  BY DEF SafeFor, SafeAt, SafeData, Quitted, Reading

LEMMA FinalizeBecomes ==
    ASSUME Inv, Barrier, NEW r \in Rids, Turn(r), r \notin Before',
           NEW K \in SUBSET Kinds, "new" \in K => r \in Before,
           NEW sent, Carries(sent, r, K), NEW fails, NEW said, Finalize(r, fails, sent, said),
           earlyDone' = earlyDone \/ earlyDone' = [earlyDone EXCEPT ![r] = {}],
           \/ r \in forced'
           \/ \A e \in Entities : Quitted(e, r) \/ ({"new", "inputs"} \cap K = {} /\ SafeFor(e, r) /\ Excused(e, r))
    PROVE  Conducts(r) /\ Becomes(r)
<1>1. PICK after : after = Then(sent, ToAll("remove", r))
  OBVIOUS
<1>2. PICK L \in SUBSET Kinds : L = K \cup {"remove"}
  BY DEF Kinds
<1>3. Carries(after, r, L)
  <2>1. Carries(sent, r, L)
    BY <1>2 DEF Carries
  <2>2. Carries(ToAll("remove", r), r, {"remove"})
    BY CarriesAll DEF Kinds
  <2> QED
    BY <1>1, <1>2, <2>1, <2>2, CarriesThen
<1>4. Shaped /\ Post(after)
  BY <1>1 DEF Barrier, Finalize
<1>5. Posts(r) /\ Mails(r) /\ ("new" \notin L /\ "inputs" \notin L => NoNews(r))
  BY <1>2, <1>3, <1>4, PostCarries
<1>6. /\ requests' = requests \ {r} /\ draining' = draining \ {r}
      /\ expected' = [expected EXCEPT ![r] = {}]
  BY DEF Finalize
<1>7. /\ expected' \in [Rids -> SUBSET Entities] /\ earlyDone' \in [Rids -> SUBSET Entities]
      /\ \A q \in Rids \ {r} : expected'[q] = expected[q] /\ earlyDone'[q] = earlyDone[q]
  BY <1>4, <1>6 DEF Shaped
<1>8. ASSUME NEW q \in Rids \ {r} PROVE CondAs(q)
  BY <1>6, <1>7 DEF CondAs, Turn
<1>9. Conducts(r)
  BY <1>5, <1>7, <1>8 DEF Conducts, Turn
<1>10. r \in forced' \/ \A e \in Entities : Spared(e, r)
  BY <1>2, <1>5 DEF Spared
<1>11. ASSUME NEW w \in Workers PROVE Msg("remove", r) \in Range(fromC'[w])
  <2>1. PICK m \in Notes : m = Msg("remove", r)
    BY MsgIsNote
  <2>2. PICK s \in Seq(Notes) : s = fromC[w]
    BY <1>4, Cast DEF Shaped
  <2>3. PICK t \in Seq(Notes) : t = sent[w]
    BY Cast DEF Carries
  <2>4. PICK u \in Seq(Notes) : u = <<m>> /\ m \in Range(u)
    <3>1. <<m>> \in Seq(Notes) /\ m \in Range(<<m>>)
      BY RangeOne
    <3> QED
      BY <3>1
  <2>5. fromC'[w] = s \o (t \o u)
    BY <1>1, <1>4, <2>1, <2>2, <2>3, <2>4, Cast DEF Post, Then, ToAll
  <2> QED
    BY <2>1, <2>4, <2>5, LastConcat
<1>12. Finished(r)
  BY <1>6, <1>10, <1>11 DEF Finished, Alive
<1> QED
  BY <1>9, <1>12 DEF Becomes

LEMMA RegisterBecomes ==
    ASSUME Inv, Barrier, NEW r \in Rids, Turn(r), r \in Alive, r \notin Before',
           NEW K \in SUBSET Kinds, "remove" \notin K, "new" \in K => r \in Before, NEW sent, Carries(sent, r, K),
           NEW acks \in SUBSET Entities, NEW fails, NEW said, RegisterDraining(r, acks, fails, sent, said),
           \A e \in Entities \ acks : {"new", "inputs"} \cap K = {} /\ SafeFor(e, r) /\ Excused(e, r)
    PROVE  Conducts(r) /\ Becomes(r)
<1>1. Shaped /\ Vouched(r)
  BY DEF Barrier, Kept
<1>2. PICK left \in SUBSET Entities : left = acks \ earlyDone[r]
  OBVIOUS
<1>3. earlyDone' = [earlyDone EXCEPT ![r] = {}]
  BY DEF RegisterDraining
<1>4. \A e \in Entities \ left : Quitted(e, r) \/ ({"new", "inputs"} \cap K = {} /\ SafeFor(e, r) /\ Excused(e, r))
  BY <1>1, <1>2 DEF Vouched
<1>5. CASE left = {}
  <2>1. Finalize(r, fails, sent, said)
    BY <1>2, <1>5 DEF RegisterDraining
  <2> QED
    BY <1>3, <1>4, <1>5, <2>1, FinalizeBecomes
<1>6. CASE left # {}
  <2>1. /\ draining' = draining \cup {r} /\ expected' = [expected EXCEPT ![r] = left]
        /\ requests' = requests \cup {r} /\ Post(sent)
    BY <1>2, <1>6 DEF RegisterDraining
  <2>2. Posts(r) /\ Mails(r) /\ NoRemoval(r) /\ ("new" \notin K /\ "inputs" \notin K => NoNews(r))
    BY <1>1, <2>1, PostCarries
  <2>3. /\ expected' \in [Rids -> SUBSET Entities] /\ earlyDone' \in [Rids -> SUBSET Entities]
        /\ \A q \in Rids \ {r} : expected'[q] = expected[q] /\ earlyDone'[q] = earlyDone[q]
        /\ expected'[r] = left /\ earlyDone'[r] = {}
    BY <1>1, <1>3, <2>1 DEF Shaped
  <2>4. ASSUME NEW q \in Rids \ {r} PROVE CondAs(q)
    BY <2>1, <2>3 DEF CondAs, Turn
  <2>5. Conducts(r)
    BY <2>2, <2>3, <2>4 DEF Conducts, Turn
  <2>6. \A e \in Entities : e \notin expected'[r] => Spared(e, r)
    BY <1>4, <2>2, <2>3 DEF Spared
  <2>7. Barred(r)
    BY <2>1, <2>2, <2>3, <2>6 DEF Barred
  <2> QED
    BY <2>5, <2>7 DEF Becomes
<1> QED
  BY <1>5, <1>6

LEMMA RemoveBecomes ==
    ASSUME Inv, Barrier, NEW r \in Rids, Turn(r), r \in Alive, r \notin Before',
           NEW K \in SUBSET Kinds, "remove" \notin K, "new" \in K => r \in Before, NEW sent, Carries(sent, r, K),
           NEW fails, NEW said, RemoveRequest(r, fails, sent, said)
    PROVE  Conducts(r) /\ Becomes(r)
<1>1. PICK L \in SUBSET Kinds : L = K \cup {"drain"} /\ "remove" \notin L /\ ("new" \in L => "new" \in K)
  BY DEF Kinds
<1>2. PICK after : after = Then(sent, ToAll("drain", r))
  OBVIOUS
<1>3. Carries(after, r, L)
  <2>1. Carries(sent, r, L)
    BY <1>1 DEF Carries
  <2>2. Carries(ToAll("drain", r), r, {"drain"})
    BY CarriesAll DEF Kinds
  <2> QED
    BY <1>1, <1>2, <2>1, <2>2, CarriesThen
<1>4. RegisterDraining(r, Entities, fails, after, said)
  BY <1>2 DEF RemoveRequest
<1> QED
  BY <1>1, <1>3, <1>4, RegisterBecomes

\* Refused, or dropped: only the data worker hears of it.
LEMMA DropBecomes ==
    ASSUME Inv, Barrier, NEW r \in Rids, Turn(r), r \in Before, r \notin Before', r \notin requests,
           Post(ToData("remove", r)), earlyDone' = [earlyDone EXCEPT ![r] = {}],
           UNCHANGED <<requests, draining, expected>>
    PROVE  Conducts(r) /\ Becomes(r)
<1>1. Shaped
  BY DEF Barrier
<1>2. Carries(ToData("remove", r), r, {"remove"})
  BY CarriesData DEF Kinds
<1>3. Posts(r) /\ Mails(r) /\ NoNews(r)
  BY <1>1, <1>2, PostCarries
<1>4. /\ expected' \in [Rids -> SUBSET Entities] /\ earlyDone' \in [Rids -> SUBSET Entities]
      /\ \A q \in Rids \ {r} : expected'[q] = expected[q] /\ earlyDone'[q] = earlyDone[q]
  BY <1>1 DEF Shaped
<1>5. ASSUME NEW q \in Rids \ {r} PROVE CondAs(q)
  BY <1>4 DEF CondAs, Turn
<1>6. Conducts(r)
  BY <1>3, <1>4, <1>5 DEF Conducts, Turn
<1>7. ASSUME NEW w \in Workers PROVE fromC'[w] = fromC[w]
  <2>1. ToData("remove", r)[w] = <<>> /\ fromC[w] \in Seq(Notes)
    BY <1>1, CarriesData, Cast DEF Kinds, Shaped
  <2>2. fromC'[w] = fromC[w] \o <<>>
    BY <2>1, Cast DEF Post
  <2> QED
    BY <2>1, <2>2, ConcatNone
<1>8. Dropped(r)
  BY <1>3, <1>7 DEF Dropped, Alive, Inv, Typed
<1> QED
  BY <1>6, <1>8 DEF Becomes

LEMMA AdmitBecomes ==
    ASSUME Inv, Barrier, NEW r \in Rids, Turn(r), r \in Before, r \notin Before', r \notin requests, Admit(r),
           UNCHANGED <<reported, ended>>
    PROVE  Conducts(r) /\ Becomes(r)
<1>1. Shaped
  BY DEF Barrier
<1>2. CASE Dispatch(r)
  <2>1. PICK K : K = {"new", "route"}
    OBVIOUS
  <2>2. PICK sent : sent = IF ClientStreams THEN Then(ToWorkers("new", r), ToData("route", r)) ELSE ToWorkers("new", r)
    OBVIOUS
  <2>3. /\ Carries(ToWorkers("new", r), r, K) /\ Carries(ToData("route", r), r, {"route"})
        /\ \A w \in Workers : ToWorkers("new", r)[w] = <<Msg("new", r)>> /\ ToData("route", r)[w] = <<>>
    BY <2>1, CarriesWorkers, CarriesData DEF Kinds
  <2>4. Carries(sent, r, K)
    BY <2>1, <2>2, <2>3, CarriesThen
  <2>5. Post(sent)
    BY <1>2, <2>2 DEF Dispatch
  <2>6. ASSUME NEW w \in Workers PROVE sent[w] = <<Msg("new", r)>>
    <3>1. <<Msg("new", r)>> \o <<>> = <<Msg("new", r)>>
      <4>1. <<Msg("new", r)>> \in Seq(Notes)
        BY MsgIsNote
      <4> QED
        BY <4>1, ConcatNone
    <3> QED
      BY <2>2, <2>3, <3>1, Cast DEF Then
  <2>7. \A w \in Workers : ~NewsFor(w, r) => Single(fromC'[w], NewsOf(r))
    BY <1>1, <2>5, <2>6, PostOne DEF Kinds
  <2>8. Posts(r) /\ Mails(r) /\ NoRemoval(r)
    BY <1>1, <2>1, <2>4, <2>5, PostCarries
  <2>9. requests' = requests \cup {r} /\ UNCHANGED <<draining, expected, earlyDone>>
    BY <1>2 DEF Dispatch
  <2>10. ASSUME NEW q \in Rids \ {r} PROVE CondAs(q)
    BY <2>9 DEF CondAs, Turn
  <2>11. Conducts(r)
    BY <1>1, <2>8, <2>9, <2>10 DEF Conducts, Turn, Shaped
  <2>12. Entered(r)
    BY <2>7, <2>8, <2>9 DEF Entered, Inv, Typed
  <2> QED
    BY <2>11, <2>12 DEF Becomes
<1>3. CASE DispatchRefused(r)
  BY <1>3, DropBecomes DEF DispatchRefused, Reject
<1>4. CASE DispatchFails(r)
  <2>1. PICK heard \in SUBSET Workers :
            RemoveRequest(r, TRUE, [e \in Entities |-> IF e \in heard THEN <<Msg("new", r)>> ELSE <<>>], <<>>)
    BY <1>4 DEF DispatchFails
  <2>2. Carries([e \in Entities |-> IF e \in heard THEN <<Msg("new", r)>> ELSE <<>>], r, {"new"})
    BY CarriesSome DEF Kinds
  <2>3. {"new"} \in SUBSET Kinds /\ "remove" \notin {"new"} /\ r \in Alive
    BY DEF Kinds, Alive
  <2> QED
    BY <2>1, <2>2, <2>3, RemoveBecomes
<1> QED
  BY <1>2, <1>3, <1>4 DEF Admit

\* The conductor does nothing to r that the barrier is about.
LEMMA RestBecomes ==
    ASSUME Barrier, NEW r \in Rids, Turn(r), UNCHANGED fromC, UNCHANGED <<requests, draining>>, CondAs(r),
           expected' \in [Rids -> SUBSET Entities], earlyDone' \in [Rids -> SUBSET Entities],
           \A q \in Rids \ {r} : expected'[q] = expected[q] /\ earlyDone'[q] = earlyDone[q]
    PROVE  Conducts(r) /\ Becomes(r)
<1>1. Posts(r) /\ Hears(r) /\ Mails(r)
  BY PostsSame DEF Barrier
<1>2. ASSUME NEW q \in Rids \ {r} PROVE CondAs(q)
  BY DEF CondAs, Turn
<1>3. Conducts(r)
  BY <1>1, <1>2 DEF Conducts, Turn
<1> QED
  BY <1>1, <1>3 DEF Becomes, Remains

-----------------------------------------------------------------------------
(* The conductor's steps *)

ConductorMoves == UNCHANGED barrierVars \/ \E r : Conducts(r) /\ Becomes(r)

LEMMA NothingBecomes ==
    ASSUME Barrier, NEW r \in Rids, Turn(r), UNCHANGED <<fromC, condUsed>>
    PROVE  Conducts(r) /\ Becomes(r)
<1>1. CondAs(r)
  BY CondSame
<1> QED
  BY <1>1, RestBecomes DEF condUsed, Barrier, Shaped

LEMMA RunningIsOut ==
    ASSUME Inv, NEW r \in requests, Before' \subseteq Before
    PROVE  r \in Rids /\ r \in Alive /\ r \notin Before'
  BY DEF Inv, Typed, OnePlace, Before, Alive

\* A message that is neither a request nor an abort moves no request.
LEMMA TakeStill ==
    ASSUME Inv, NEW e \in Entities, toC[e] # <<>>, Take(e), Head(toC[e]).kind \notin {"new", "abort"},
           UNCHANGED <<fresh, inq, prep, waiting>>
    PROVE  Before' \subseteq Before
<1>1. Announced' = Announced
  BY TakeAny DEF Calm
<1> QED
  BY <1>1, BeforeSame

LEMMA HeadNote ==
    ASSUME Shaped, NEW e \in Entities, toC[e] # <<>>
    PROVE  LET m == Head(toC[e]) IN m \in Notes /\ m \in Range(toC[e]) /\ m.rid \in Rids /\ m = Msg(m.kind, m.rid)
<1>1. toC[e] \in Seq(Notes)
  BY DEF Shaped
<1>2. Head(toC[e]) \in Notes /\ Head(toC[e]) \in Range(toC[e])
  BY <1>1, RangeTail
<1> QED
  BY <1>2, NoteIsMsg

LEMMA ReceiveNewMoves == ASSUME Inv, Barrier, ReceiveNew PROVE ConductorMoves
<1>1. PICK r : r = Head(toC[Data]).rid
  OBVIOUS
<1>2. toC[Data] # <<>> /\ Head(toC[Data]).kind = "new" /\ IngestRequest(r) /\ Take(Data)
  BY <1>1 DEF ReceiveNew
<1>3. partSame /\ UNCHANGED <<fresh, inq, prep, reported, ended, forced>>
  BY DEF ReceiveNew, partSame, apiVars, outVars, dataVars, streamVars, partVars, workVars
<1>4. r \in Rids /\ Announced' \subseteq Announced /\ r \in Announced /\ r \notin Announced'
  BY <1>1, <1>2, TakeData
<1>5. r \notin requests /\ r \notin Waits /\ r \notin earlyAbort /\ r \in Before
  BY <1>4, EarlyAreAbsent DEF Inv, OnePlace, Typed, Before
<1>6. Shaped /\ waiting \in Seq(Rids)
  BY DEF Barrier, Inv, Typed
<1>7. ASSUME Before' \subseteq Before PROVE Turn(r)
  BY <1>2, <1>3, <1>6, <1>7, Cast DEF Turn, Shaped
<1>8. CASE waiting' = Append(waiting, r) /\ UNCHANGED <<requests, draining, expected, earlyDone, fromC>>
  <2>1. Waits' = Waits \cup {r}
    BY <1>4, <1>6, <1>8, RangeAppend DEF Waits
  <2>2. Before' \subseteq Before
    BY <1>3, <1>4, <2>1 DEF Before, Queued, Prepping
  <2>3. UNCHANGED condUsed
    BY <1>3, <1>8 DEF condUsed
  <2> QED
    BY <1>4, <1>7, <1>8, <2>2, <2>3, NothingBecomes DEF ConductorMoves
<1>9. ASSUME waiting' = waiting PROVE Before' \subseteq Before /\ r \notin Before'
  BY <1>3, <1>4, <1>5, <1>9 DEF Before, Queued, Prepping, Waits, Inv, OnePlace
<1>10. CASE Reject(r) /\ UNCHANGED <<requests, waiting, draining, expected>>
  BY <1>4, <1>5, <1>7, <1>9, <1>10, DropBecomes DEF ConductorMoves, Reject
<1>11. CASE Admit(r) /\ UNCHANGED waiting
  BY <1>3, <1>4, <1>5, <1>7, <1>9, <1>11, AdmitBecomes DEF ConductorMoves
<1> QED
  BY <1>2, <1>5, <1>8, <1>10, <1>11 DEF IngestRequest

LEMMA AdmitWaitingMoves == ASSUME Inv, Barrier, AdmitWaiting PROVE ConductorMoves
<1>1. partSame /\ UNCHANGED <<fresh, inq, prep, reported, ended, forced, toC>>
  BY DEF AdmitWaiting, partSame, apiVars, outVars, dataVars, streamVars, partVars, workVars
<1>2. CASE waiting = <<>> \/ Full
  BY <1>1, <1>2 DEF AdmitWaiting, ConductorMoves, barrierVars, condUsed, partSame
<1>3. CASE waiting # <<>> /\ ~Full
  <2>1. waiting \in Seq(Rids) /\ NoDup(waiting)
    BY DEF Inv, Typed, Distinct
  <2>2. PICK r \in Rids : r = Head(waiting) /\ r \in Waits /\ Range(Tail(waiting)) = Waits \ {r}
    BY <1>3, <2>1, Oldest DEF Waits
  <2>3. waiting' = Tail(waiting) /\ Admit(r)
    BY <1>3, <2>2 DEF AdmitWaiting
  <2>4. Waits' = Waits \ {r} /\ Announced' = Announced
    BY <1>1, <2>2, <2>3, AnnouncedSame DEF Waits
  <2>5. r \in Before /\ r \notin Before' /\ r \notin requests /\ Before' \subseteq Before
    BY <1>1, <2>2, <2>4 DEF Before, Queued, Prepping, Inv, OnePlace
  <2>6. Turn(r)
    BY <1>1, <2>5 DEF Turn, Barrier, Shaped
  <2> QED
    BY <1>1, <2>3, <2>5, <2>6, AdmitBecomes DEF ConductorMoves
<1> QED
  BY <1>2, <1>3

LEMMA ReceiveAbortMoves == ASSUME Inv, Barrier, ReceiveAbort PROVE ConductorMoves
<1>1. PICK r : r = Head(toC[Data]).rid
  OBVIOUS
<1>2. toC[Data] # <<>> /\ Head(toC[Data]).kind = "abort" /\ AbortRequest(r) /\ Take(Data)
  BY <1>1 DEF ReceiveAbort
<1>3. partSame /\ UNCHANGED <<fresh, inq, prep, reported, ended, forced>>
  BY DEF ReceiveAbort, partSame, apiVars, outVars, dataVars, streamVars, partVars, workVars
<1>4. r \in Rids /\ Announced' \subseteq Announced /\ r \notin Announced'
  BY <1>1, <1>2, TakeData
<1>5. Shaped /\ waiting \in Seq(Rids) /\ NoDup(waiting)
  BY DEF Barrier, Inv, Typed, Distinct
<1>6. ASSUME Before' \subseteq Before PROVE Turn(r)
  BY <1>2, <1>3, <1>5, <1>6, Cast DEF Turn, Shaped
<1>7. ASSUME waiting' = waiting PROVE Before' \subseteq Before
  BY <1>3, <1>4, <1>7, BeforeSame
<1>8. ASSUME NEW i \in DOMAIN waiting, waiting[i] = r,
             waiting' = SubSeq(waiting, 1, i - 1) \o SubSeq(waiting, i + 1, Len(waiting)),
             earlyDone' = [earlyDone EXCEPT ![r] = {}], Post(ToData("remove", r)),
             UNCHANGED <<requests, draining, expected>>
      PROVE  ConductorMoves
  <2>1. i \in 1..Len(waiting)
    BY <1>5
  <2>2. Range(waiting') = Range(waiting) \ {r}
    BY <1>5, <1>8, <2>1, NoDupCut
  <2>3. r \in Waits /\ Waits' = Waits \ {r}
    BY <1>8, <2>2 DEF Waits, Range
  <2>4. r \in Before /\ r \notin Before' /\ r \notin requests /\ Before' \subseteq Before
    BY <1>3, <1>4, <2>3 DEF Before, Queued, Prepping, Inv, OnePlace
  <2> QED
    BY <1>4, <1>6, <1>8, <2>4, DropBecomes DEF ConductorMoves
<1>9. CASE UNCHANGED <<requests, waiting, draining, expected, earlyDone, fromC>>
  <2>1. UNCHANGED condUsed
    BY <1>3, <1>9 DEF condUsed
  <2> QED
    BY <1>4, <1>6, <1>7, <1>9, <2>1, NothingBecomes DEF ConductorMoves
<1>10. CASE Running(r) /\ RemoveRequest(r, FALSE, Nothing, <<>>) /\ UNCHANGED waiting
  <2>1. r \in requests /\ Before' \subseteq Before
    BY <1>7, <1>10 DEF Running
  <2>2. r \in Alive /\ r \notin Before'
    BY <2>1, RunningIsOut
  <2>3. Carries(Nothing, r, {})
    BY CarriesNothing
  <2> QED
    BY <1>4, <1>6, <1>10, <2>1, <2>2, <2>3, RemoveBecomes DEF ConductorMoves
<1> QED
  BY <1>2, <1>8, <1>9, <1>10 DEF AbortRequest

LEMMA ReceiveReadsDoneMoves == ASSUME Inv, Barrier, NEW e \in Entities, ReceiveReadsDone(e) PROVE ConductorMoves
<1>1. PICK r : r = Head(toC[e]).rid
  OBVIOUS
<1>2. toC[e] # <<>> /\ Head(toC[e]).kind = "reads_done" /\ ReadsDone(e, r) /\ Take(e)
  BY <1>1 DEF ReceiveReadsDone
<1>3. partSame /\ UNCHANGED <<fresh, inq, prep, waiting, reported, ended, forced>>
  BY DEF ReceiveReadsDone, partSame, apiVars, outVars, dataVars, streamVars, partVars, workVars
<1>4. Shaped
  BY DEF Barrier
<1>5. r \in Rids /\ SaidBy(e, r)
  BY <1>1, <1>2, <1>4, HeadNote DEF SaidBy
<1>6. Before' \subseteq Before
  BY <1>2, <1>3, TakeStill
<1>7. Turn(r)
  BY <1>2, <1>3, <1>4, <1>6 DEF Turn, Shaped
<1>8. CASE r \notin draining
  <2>1. earlyDone' = [earlyDone EXCEPT ![r] = @ \cup {e}] /\ UNCHANGED <<requests, draining, expected, fromC>>
    BY <1>2, <1>8 DEF ReadsDone
  <2>2. /\ earlyDone' \in [Rids -> SUBSET Entities] /\ earlyDone'[r] = earlyDone[r] \cup {e}
        /\ \A q \in Rids \ {r} : earlyDone'[q] = earlyDone[q]
    BY <1>4, <1>5, <2>1 DEF Shaped
  <2>3. CondAs(r)
    BY <1>3, <1>5, <2>1, <2>2 DEF CondAs
  <2> QED
    BY <1>4, <1>5, <1>7, <2>1, <2>2, <2>3, RestBecomes DEF ConductorMoves, Shaped
<1>9. CASE r \in draining
  <2>1. r \in requests
    BY <1>9 DEF Inv, Typed
  <2>2. r \in Alive /\ r \notin Before'
    BY <1>6, <2>1, RunningIsOut
  <2>3. Kept(r)
    BY <1>5 DEF Barrier
  <2>4. Quitted(e, r) /\ SafeFor(e, r) /\ \A v \in Entities : v \notin expected[r] => SafeFor(v, r)
    BY <1>5, <1>9, <2>2, <2>3, QuittedIsSafe DEF Kept, Vouched, DrainSafe
  <2>5. earlyDone' = earlyDone
    BY <1>2, <1>9 DEF ReadsDone
  <2>6. CASE expected[r] \subseteq {e}
    <3>1. Finalize(r, r \in failing, Nothing, <<>>)
      BY <1>2, <1>9, <2>6 DEF ReadsDone
    <3>2. Carries(Nothing, r, {})
      BY CarriesNothing
    <3>3. \A v \in Entities : Quitted(v, r) \/ (SafeFor(v, r) /\ Excused(v, r))
      BY <1>9, <2>4, <2>6 DEF Excused
    <3> QED
      BY <1>5, <1>7, <2>2, <2>5, <3>1, <3>2, <3>3, FinalizeBecomes DEF ConductorMoves
  <2>7. CASE ~(expected[r] \subseteq {e})
    <3>1. expected' = [expected EXCEPT ![r] = @ \ {e}] /\ UNCHANGED <<requests, draining, fromC>>
      BY <1>2, <1>9, <2>7 DEF ReadsDone
    <3>2. /\ expected' \in [Rids -> SUBSET Entities] /\ expected'[r] = expected[r] \ {e}
          /\ \A q \in Rids \ {r} : expected'[q] = expected[q]
      BY <1>4, <1>5, <3>1 DEF Shaped
    <3>3. CondAs(r)
      BY <1>3, <2>4, <2>5, <3>1, <3>2 DEF CondAs
    <3> QED
      BY <1>4, <1>5, <1>7, <2>5, <3>1, <3>2, <3>3, RestBecomes DEF ConductorMoves, Shaped
  <2> QED
    BY <2>6, <2>7
<1> QED
  BY <1>8, <1>9

LEMMA ReceiveFailMoves == ASSUME Inv, Barrier, NEW w \in Workers, ReceiveFail(w) PROVE ConductorMoves
<1>1. PICK r : r = Head(toC[w]).rid
  OBVIOUS
<1>2. toC[w] # <<>> /\ Head(toC[w]).kind = "fail" /\ Take(w) /\ w \in Entities
  BY <1>1, Cast DEF ReceiveFail
<1>3. partSame /\ UNCHANGED <<fresh, inq, prep, waiting, reported, ended, forced>>
  BY DEF ReceiveFail, partSame, apiVars, outVars, dataVars, streamVars, partVars, workVars
<1>4. Shaped
  BY DEF Barrier
<1>5. r \in Rids
  BY <1>1, <1>2, <1>4, HeadNote
<1>6. Before' \subseteq Before
  BY <1>2, <1>3, TakeStill
<1>7. Turn(r)
  BY <1>2, <1>3, <1>4, <1>6 DEF Turn, Shaped
<1>8. CASE Running(r)
  <2>1. RemoveRequest(r, TRUE, Nothing, <<>>)
    BY <1>1, <1>8 DEF ReceiveFail
  <2>2. r \in Alive /\ r \notin Before'
    BY <1>6, <1>8, RunningIsOut DEF Running
  <2>3. Carries(Nothing, r, {})
    BY CarriesNothing
  <2> QED
    BY <1>5, <1>7, <2>1, <2>2, <2>3, RemoveBecomes DEF ConductorMoves
<1>9. CASE ~Running(r)
  <2>1. UNCHANGED <<requests, draining, expected, earlyDone, fromC>>
    BY <1>1, <1>9 DEF ReceiveFail
  <2>2. UNCHANGED condUsed
    BY <1>3, <2>1 DEF condUsed
  <2> QED
    BY <1>5, <1>7, <2>1, <2>2, NothingBecomes DEF ConductorMoves
<1> QED
  BY <1>8, <1>9

LEMMA ReceiveDoneMoves == ASSUME Inv, Barrier, NEW w \in Workers, ReceiveDone(w) PROVE ConductorMoves
<1>1. PICK r : r = Head(toC[w]).rid
  OBVIOUS
<1>2. toC[w] # <<>> /\ Head(toC[w]).kind = "done" /\ Take(w) /\ w \in Entities
  BY <1>1, Cast DEF ReceiveDone
<1>3. /\ partSame
      /\ UNCHANGED <<fresh, inq, prep, waiting, forced, requests, draining, expected, earlyDone, fromC>>
  BY DEF ReceiveDone, partSame, apiVars, outVars, dataVars, streamVars, partVars, workVars, hist
<1>4. Shaped
  BY DEF Barrier
<1>5. r \in Rids /\ Head(toC[w]) = Msg("done", r)
  BY <1>1, <1>2, <1>4, HeadNote
<1>6. Before' \subseteq Before
  BY <1>2, <1>3, TakeStill
<1>7. CASE ~Running(r)
  <2>1. UNCHANGED <<reported, ended>>
    BY <1>1, <1>7 DEF ReceiveDone
  <2>2. Turn(r) /\ UNCHANGED condUsed
    BY <1>2, <1>3, <1>4, <1>6, <2>1 DEF Turn, Shaped, condUsed
  <2> QED
    BY <1>3, <1>5, <2>2, NothingBecomes DEF ConductorMoves
<1>8. CASE Running(r)
  <2>1. /\ reported' = [reported EXCEPT ![r] = reported[r] \cup {w}]
        /\ ended' = IF reported[r] \cup {w} = Workers THEN ended \cup {r} ELSE ended
    BY <1>1, <1>8 DEF ReceiveDone
  <2>2. /\ reported' \in [Rids -> SUBSET Workers] /\ reported'[r] = reported[r] \cup {w}
        /\ \A q \in Rids \ {r} : reported'[q] = reported[q]
    BY <1>4, <1>5, <2>1 DEF Shaped
  <2>3. \A q \in Rids \ {r} : q \in ended' <=> q \in ended
    BY <2>1
  <2>4. Posts(r) /\ Mails(r)
    BY <1>3, <1>4, PostsSame
  <2>5. ASSUME NEW q \in Rids \ {r} PROVE CondAs(q)
    BY <1>3, <2>2, <2>3 DEF CondAs
  <2>6. Conducts(r)
    BY <1>2, <1>3, <1>4, <1>5, <1>6, <2>2, <2>4, <2>5 DEF Conducts, Shaped
  <2>7. r \notin Before' /\ r \notin draining'
    BY <1>3, <1>6, <1>8, RunningIsOut DEF Running
  <2>8. r \in ended' => r \in ended \/ reported'[r] = Workers
    BY <2>1, <2>2
  <2>9. Reports(r)
    BY <1>2, <1>3, <1>5, <1>8, <2>2, <2>7, <2>8 DEF Reports
  <2> QED
    BY <2>6, <2>9 DEF ConductorMoves, Becomes
<1> QED
  BY <1>7, <1>8

LEMMA AdvanceMoves == ASSUME Inv, Barrier, NEW r \in Rids, Advance(r) PROVE ConductorMoves
<1>1. /\ partSame /\ UNCHANGED <<fresh, inq, prep, waiting, forced, toC>>
      /\ r \in ended /\ ended' = ended \ {r} /\ reported' = [reported EXCEPT ![r] = {}]
  BY DEF Advance, partSame, apiVars, outVars, dataVars, streamVars, partVars, workVars
<1>2. Shaped /\ Kept(r)
  BY DEF Barrier
<1>3. /\ reported' \in [Rids -> SUBSET Workers] /\ reported'[r] = {} /\ r \notin ended'
      /\ \A q \in Rids \ {r} : reported'[q] = reported[q] /\ (q \in ended' <=> q \in ended)
  BY <1>1, <1>2 DEF Shaped
<1>4. Before' \subseteq Before
  BY <1>1, AnnouncedSame, BeforeSame
<1>5. Turn(r)
  BY <1>1, <1>3, <1>4 DEF Turn
<1>6. CASE Skip(r)
  <2>1. ~Running(r) /\ UNCHANGED <<requests, draining, expected, earlyDone, fromC>>
    BY <1>6 DEF Skip
  <2>2. CondAs(r)
    BY <1>1, <1>3, <2>1 DEF CondAs
  <2> QED
    BY <1>2, <1>5, <2>1, <2>2, RestBecomes DEF ConductorMoves, Shaped
<1>7. CASE Running(r)
  <2>1. r \in Alive /\ r \notin Before' /\ r \in requests /\ r \notin draining
    BY <1>4, <1>7, RunningIsOut DEF Running
  <2>2. Carries(Nothing, r, {})
    BY CarriesNothing
  <2>3. CASE NextPass(r)
    <3>1. Post(ToWorkers("inputs", r)) /\ UNCHANGED <<requests, draining, expected, earlyDone>>
      BY <2>3 DEF NextPass
    <3>2. /\ Carries(ToWorkers("inputs", r), r, {"inputs"})
          /\ \A w \in Workers : ToWorkers("inputs", r)[w] = <<Msg("inputs", r)>>
      BY CarriesWorkers DEF Kinds
    <3>3. Posts(r) /\ Mails(r) /\ NoRemoval(r)
      BY <1>2, <3>1, <3>2, PostCarries
    <3>4. \A w \in Workers : ~NewsFor(w, r) => Single(fromC'[w], NewsOf(r))
      BY <1>2, <3>1, <3>2, PostOne DEF Kinds
    <3>5. ASSUME NEW q \in Rids \ {r} PROVE CondAs(q)
      BY <1>1, <1>3, <3>1 DEF CondAs
    <3>6. Conducts(r)
      BY <1>2, <1>5, <3>1, <3>3, <3>5 DEF Conducts, Turn, Shaped
    <3>7. Passes(r)
      BY <1>1, <1>3, <1>7, <2>1, <3>1, <3>3, <3>4 DEF Passes
    <3> QED
      BY <3>6, <3>7 DEF ConductorMoves, Becomes
  <2>4. CASE ForwardRaises(r)
    BY <1>5, <2>1, <2>2, <2>4, RemoveBecomes DEF ForwardRaises, ConductorMoves
  <2>5. CASE RequestDone(r)
    <3>1. PICK sent : sent = IF ClientStreams THEN Then(Unroute(r), ToWorkers("drain", r)) ELSE Nothing
      OBVIOUS
    <3>2. RegisterDraining(r, Readers, FALSE, sent, <<Msg("complete", r)>>)
      BY <2>5, <3>1 DEF RequestDone
    <3>3. PICK K \in SUBSET Kinds : K = {"unroute", "drain"}
      BY DEF Kinds
    <3>4. Carries(sent, r, K)
      <4>1. /\ Carries(ToData("unroute", r), r, K) /\ Carries(ToWorkers("drain", r), r, {"drain"})
            /\ Carries(Nothing, r, K)
        BY <3>3, CarriesData, CarriesWorkers, CarriesNothing DEF Kinds
      <4> QED
        BY <3>1, <3>3, <4>1, CarriesThen DEF Unroute
    <3>5. ASSUME NEW e \in Entities \ Readers PROVE SafeFor(e, r) /\ Excused(e, r)
      <4>1. ~ClientStreams /\ e \in Workers /\ e # Data
        BY <3>5, Cast DEF Readers, Entities
      <4>2. reported[r] = Workers /\ Token(e, r)
        BY <1>1, <1>2, <1>7, <4>1 DEF Kept, Tokens
      <4> QED
        BY <1>7, <4>1, <4>2 DEF Token, SafeFor, SafeAt, Excused
    <3>6. Readers \in SUBSET Entities /\ "remove" \notin K /\ {"new", "inputs"} \cap K = {}
      BY <3>3, Cast DEF Readers
    <3> QED
      BY <1>5, <2>1, <3>2, <3>4, <3>5, <3>6, RegisterBecomes DEF ConductorMoves
  <2>6. CASE DoneRaises(r)
    <3>1. RemoveRequest(r, r \notin completed', Unroute(r), <<Msg("complete", r)>>)
      BY <2>6 DEF DoneRaises
    <3>2. Carries(ToData("unroute", r), r, {"unroute"}) /\ Carries(Nothing, r, {"unroute"})
      BY CarriesData, CarriesNothing DEF Kinds
    <3>3. Carries(Unroute(r), r, {"unroute"})
      BY <3>2 DEF Unroute
    <3>4. {"unroute"} \in SUBSET Kinds
      BY DEF Kinds
    <3> QED
      BY <1>5, <2>1, <3>1, <3>3, <3>4, RemoveBecomes DEF ConductorMoves
  <2> QED
    BY <1>7, <2>3, <2>4, <2>5, <2>6 DEF Advance, Skip
<1> QED
  BY <1>6, <1>7 DEF Advance

LEMMA ExpireEarlyMoves == ASSUME Inv, Barrier, NEW r \in Rids, ExpireEarly(r) PROVE ConductorMoves
<1>1. /\ partSame /\ UNCHANGED <<fresh, inq, prep, waiting, forced, toC, fromC>>
      /\ UNCHANGED <<requests, draining, expected, reported, ended>>
      /\ earlyDone' = earlyDone \/ earlyDone' = [earlyDone EXCEPT ![r] = {}]
  BY DEF ExpireEarly, partSame, apiVars, outVars, dataVars, streamVars, partVars, workVars, hist
<1>2. Shaped
  BY DEF Barrier
<1>3. Before' \subseteq Before
  BY <1>1, AnnouncedSame, BeforeSame
<1>4. Turn(r)
  BY <1>1, <1>2, <1>3 DEF Turn, Shaped
<1>5. /\ earlyDone' \in [Rids -> SUBSET Entities] /\ earlyDone'[r] \subseteq earlyDone[r]
      /\ \A q \in Rids \ {r} : earlyDone'[q] = earlyDone[q]
  BY <1>1, <1>2 DEF Shaped
<1>6. CondAs(r)
  BY <1>1, <1>5 DEF CondAs
<1> QED
  BY <1>1, <1>2, <1>4, <1>5, <1>6, RestBecomes DEF ConductorMoves, Shaped

LEMMA ExpireDrainMoves == ASSUME Inv, Barrier, NEW r \in Rids, ExpireDrain(r) PROVE ConductorMoves
<1>1. /\ partSame /\ UNCHANGED <<fresh, inq, prep, waiting, toC, reported, ended, earlyDone>>
      /\ r \in draining /\ forced' = forced \cup {r} /\ Finalize(r, r \in failing, Nothing, <<>>)
  BY DEF ExpireDrain, partSame, apiVars, outVars, dataVars, streamVars, partVars, workVars
<1>2. Before' \subseteq Before
  BY <1>1, AnnouncedSame, BeforeSame
<1>3. Turn(r)
  BY <1>1, <1>2 DEF Turn, Barrier, Shaped
<1>4. r \notin Before'
  BY <1>1, <1>2, RunningIsOut DEF Inv, Typed
<1>5. Carries(Nothing, r, {})
  BY CarriesNothing
<1> QED
  BY <1>1, <1>3, <1>4, <1>5, FinalizeBecomes DEF ConductorMoves

LEMMA ConductorSteps ==
    ASSUME Inv, Barrier, ConductorNext \/ \E r \in Rids : ExpireDrain(r)
    PROVE  ConductorMoves
  BY ReceiveNewMoves, AdmitWaitingMoves, ReceiveAbortMoves, ReceiveReadsDoneMoves, ReceiveFailMoves,
     ReceiveDoneMoves, AdvanceMoves, ExpireEarlyMoves, ExpireDrainMoves DEF ConductorNext

-----------------------------------------------------------------------------
(* The barrier, in every reachable state *)

LEMMA BarrierBegins == Init => Barrier
<1> SUFFICES ASSUME Init PROVE Barrier
  OBVIOUS
<1>1. Shaped /\ ItemsOnly
  BY DEF Init, Shaped, ItemsOnly
<1>2. /\ \A e \in Entities : drain[e] = {} /\ acked[e] = {} /\ reads[e] = {} /\ torn[e] = {}
      /\ \A e \in Entities : Range(toC[e]) = {} /\ Range(fromC[e]) = {}
      /\ \A w \in Workers : /\ held[w] = {} /\ parked[w] = {} /\ Range(pendRemove[w]) = {}
                            /\ Range(fwd[w]) = {} /\ Range(tpq[w]) = {}
      /\ requests = {} /\ draining = {} /\ ended = {}
  BY RangeOne DEF Init
<1>3. ASSUME NEW r \in Rids
      PROVE  /\ chunk[r] = "none" /\ Range(releases[r]) = {} /\ earlyDone[r] = {} /\ reported[r] = {}
             /\ \A w \in Workers : work[w][r] = "none"
  BY RangeOne DEF Init
<1>4. ASSUME NEW r \in Rids PROVE Kept(r)
  <2>1. ~Ending(r)
    BY <1>2, Cast DEF Ending, Due
  <2>2. \A w \in Workers : ~NewsFor(w, r) /\ ~DoneBy(w, r)
    BY <1>2, Cast DEF NewsFor, DoneBy
  <2>3. Data \in Entities /\ \A w \in Workers : w \in Entities
    BY Cast
  <2>4. Clean(r)
    BY <1>2, <1>3, <2>2, <2>3 DEF Clean
  <2>5. ReadsHeld(r) /\ Reading(r)
    BY <1>2, <1>3, <2>3 DEF ReadsHeld, Reading
  <2>6. Vouched(r)
    BY <1>2, <1>3 DEF Vouched, SaidBy
  <2>7. DrainSafe(r) /\ EndSafe(r) /\ RemovedLate(r) /\ Tokens(r)
    BY <1>2, <2>1 DEF DrainSafe, EndSafe, RemovedLate, Tokens, Running
  <2> QED
    BY <2>4, <2>5, <2>6, <2>7 DEF Kept
<1> QED
  BY <1>1, <1>4 DEF Barrier

LEMMA MovesKeep == ASSUME Inv, Barrier, ConductorMoves PROVE Barrier' /\ torn' = torn
<1>1. CASE UNCHANGED barrierVars
  <2>1. Shaped' /\ ItemsOnly'
    BY <1>1, IdleShaped DEF Barrier
  <2>2. \A r \in Rids : Kept(r)'
    BY <1>1, IdleLocal, LocalKeeps DEF Barrier
  <2> QED
    BY <1>1, <2>1, <2>2 DEF Barrier, barrierVars
<1>2. CASE \E r : Conducts(r) /\ Becomes(r)
  BY <1>2, ConductsKeeps DEF Conducts, partSame
<1> QED
  BY <1>1, <1>2 DEF ConductorMoves

\* A step of anyone else is, for each request, one that the barrier allows.
LEMMA LocalSteps ==
    ASSUME Inv, Barrier, [Next]_vars, ~ConductorNext, \A r \in Rids : ~ExpireDrain(r)
    PROVE  Shaped' /\ ItemsOnly' /\ \A q \in Rids : Local(q)
<1>1. Shaped /\ ItemsOnly
  BY DEF Barrier
<1>2. CASE UNCHANGED barrierVars
  BY <1>1, <1>2, IdleShaped, IdleLocal
<1>3. ASSUME NEW r, Serves(r) PROVE Shaped' /\ ItemsOnly' /\ \A q \in Rids : Local(q)
  BY <1>1, <1>3, ServesShaped, ServesItems, ServesLocal
<1>4. ASSUME NEW w \in Workers, NEW r, Works(w, r) PROVE Shaped' /\ ItemsOnly' /\ \A q \in Rids : Local(q)
  BY <1>1, <1>4, WorksShaped, WorksItems, WorksLocal
<1> QED
  BY <1>2, <1>3, <1>4, Participants

LEMMA BarrierStep == Inv /\ Barrier /\ [Next]_vars => Barrier'
<1> SUFFICES ASSUME Inv, Barrier, [Next]_vars PROVE Barrier'
  OBVIOUS
<1>1. CASE ConductorNext \/ \E r \in Rids : ExpireDrain(r)
  BY <1>1, ConductorSteps, MovesKeep
<1>2. CASE ~ConductorNext /\ \A r \in Rids : ~ExpireDrain(r)
  <2>1. Shaped' /\ ItemsOnly' /\ \A q \in Rids : Local(q)
    BY <1>2, LocalSteps
  <2>2. \A q \in Rids : Kept(q)'
    BY <2>1, LocalKeeps DEF Barrier
  <2> QED
    BY <2>1, <2>2 DEF Barrier
<1> QED
  BY <1>1, <1>2

(***************************************************************************)
(* Of every request, in every reachable state: who reads for it, who has   *)
(* said that it no longer does (_complete_drain_if_ready,                  *)
(* _handle_reads_done), and whom the conductor has told to remove it       *)
(* (_finalize_draining).                                                   *)
(***************************************************************************)
THEOREM BarrierHolds == Spec => [](Inv /\ Barrier)
<1>1. Init => Inv /\ Barrier
  BY Begins, BarrierBegins
<1>2. Inv /\ Barrier /\ [Next]_vars => (Inv /\ Barrier)'
  BY NextKeeps, StutterKeeps, BarrierStep
<1> QED
  BY <1>1, <1>2, PTL DEF Spec

(***************************************************************************)
(* READS_DONE is true: between the time a participant has sent it and the  *)
(* time the conductor finalizes the request, the participant has no read   *)
(* of the request in flight (_begin_drain, _takes_input).                  *)
(***************************************************************************)
THEOREM SaidIsTrue == Spec => []AckedUnread
<1>1. Inv /\ Barrier => AckedUnread
  <2> SUFFICES ASSUME Inv, Barrier, NEW e \in Entities, NEW r \in (acked[e] \cap drain[e]) \cap draining
               PROVE  r \notin reads[e]
    BY DEF AckedUnread
  <2>1. r \in Alive /\ r \in Rids
    BY DEF Alive, Inv, Typed
  <2>2. Kept(r)
    BY <2>1 DEF Barrier
  <2>3. CASE e = Data
    BY <2>2, <2>3 DEF Kept, Reading
  <2>4. CASE e \in Workers
    <3>1. r \notin torn[e]
      BY <2>1, <2>2 DEF Kept, RemovedLate, Ending
    <3> QED
      BY <2>2, <2>4, <3>1 DEF Kept, ReadsHeld
  <2> QED
    BY <2>3, <2>4 DEF Entities
<1> QED
  BY <1>1, BarrierHolds, PTL

(***************************************************************************)
(* When a worker or the data worker removes a request (_remove_request),   *)
(* no other participant that still knows the request reads its tensors,    *)
(* unless a deadline of the conductor pushed the barrier through.          *)
(***************************************************************************)
THEOREM NoneReadsWhatGoes == Spec => RemovedUnread
<1>1. Inv /\ Barrier /\ [Next]_vars =>
          [\A e \in Entities : \A r \in (torn'[e] \ torn[e]) \ forced :
              \A other \in Entities \ {e} : r \in reads[other] => r \in torn[other]]_vars
  <2> SUFFICES ASSUME Inv, Barrier, [Next]_vars,
                      NEW e \in Entities, NEW r \in (torn'[e] \ torn[e]) \ forced,
                      NEW other \in Entities \ {e}, r \in reads[other]
               PROVE  r \in torn[other]
    OBVIOUS
  <2>1. ~ConductorNext /\ \A q \in Rids : ~ExpireDrain(q)
    BY ConductorSteps, MovesKeep
  <2>2. Shaped' /\ \A q \in Rids : Local(q)
    BY <2>1, LocalSteps
  <2>3. r \in Rids
    BY <2>2 DEF Shaped
  <2>4. Ending(r)
    BY <2>2, <2>3 DEF Local, Ending
  <2>5. Safe(r)
    BY <2>3, <2>4 DEF Barrier, Kept, EndSafe
  <2> QED
    BY <2>5 DEF Safe, SafeData, SafeAt, Entities
<1> QED
  BY <1>1, BarrierHolds, PTL DEF Spec, RemovedUnread

=============================================================================
