------------------------- MODULE StreamBufferProofs -------------------------
(***************************************************************************)
(* For every stream that the policies' constructors allow, of any length:  *)
(* each item reaches the consumer once as new and in order (InOrder), in   *)
(* the chunks that the policies document (ChunksAsDocumented); a step is   *)
(* told the place of the chunk it takes (StepIsOfChunk); and an item's     *)
(* tensor has the references it should (RefsExact).                        *)
(*                                                                         *)
(* Inv joins five parts.  BufferOK is why a cut never shows less than what *)
(* was shown before: what the buffer keeps fits the next window, and is    *)
(* all of one walk.  SlotsOK says where chunks can be, FlowOK that each    *)
(* begins where the one before it ends, RefsOK who refers to an item.      *)
(* PlacedOK adds, for streams without walks, that the k-th chunk is at the *)
(* k-th place (Place), in closed form what the policies compute step by    *)
(* step, until the stream has ended and all that follows is empty.         *)
(*                                                                         *)
(* The model counts with the folds of the library.  What they compute      *)
(* (SumStep), and that the ramp's recursion has a value (RampIs), is       *)
(* proved first, by the least number of a set (LeastOf).                   *)
(***************************************************************************)
EXTENDS StreamBuffer, FiniteSetTheorems, SequenceTheorems, WellFoundedInduction, TLAPS

-----------------------------------------------------------------------------
(* Numbers, and what a fold over a sequence of them adds up to. *)

\* The order of the numbers, as the library's minimal elements take it.
Less == {e \in Nat \X Nat : e[1] < e[2]}

\* No chain of numbers descends for ever.
LEMMA LessFounded == IsWellFoundedOn(Less, Nat)
BY NatLessThanWellFounded DEF OpToRel, Less

\* A set of numbers has a least one.
LEMMA LeastOf ==
    ASSUME NEW T \in SUBSET Nat, T # {}
    PROVE  \E n \in T : \A m \in T : n <= m
<1>1. PICK n \in T : \A y \in T : <<y, n>> \notin Less
    BY LessFounded, WFMin, Zenon
<1>2. \A y \in T : ~(y < n)
    BY <1>1 DEF Less
<1> QED
    BY <1>2

\* A set of numbers that holds 0 and goes on from each is all of them.
LEMMA AllNumbers ==
    ASSUME NEW T \in SUBSET Nat, 0 \in T, \A n \in T : n + 1 \in T
    PROVE  T = Nat
<1>1. SUFFICES ASSUME Nat \ T # {} PROVE FALSE
    OBVIOUS
<1>2. PICK n \in Nat \ T : \A m \in Nat \ T : n <= m
    BY <1>1, LeastOf
<1>3. n - 1 \in Nat /\ n - 1 \notin Nat \ T
    BY <1>2
<1> QED
    BY <1>2, <1>3

\* A bounded set of numbers has a greatest one.
LEMMA MaxIs ==
    ASSUME NEW n \in Nat, NEW t \in SUBSET (1..n), t # {}
    PROVE  Max(t) \in t /\ \A y \in t : y <= Max(t)
<1> DEFINE T == {n - y : y \in t}
<1>1. T \in SUBSET Nat /\ T # {}
    <2>1. \A y \in t : n - y \in Nat
        OBVIOUS
    <2> QED
        BY <2>1
<1>2. PICK m \in T : \A l \in T : m <= l
    BY <1>1, LeastOf
<1>3. PICK x \in t : m = n - x
    OBVIOUS
<1>4. \A y \in t : x >= y
    <2>1. ASSUME NEW y \in t PROVE x >= y
        <3>1. n - y \in T
            OBVIOUS
        <3>2. m <= n - y /\ y \in 1..n /\ x \in 1..n
            BY <1>2, <3>1
        <3> QED
            BY <1>3, <3>2
    <2> QED
        BY <2>1
<1> QED
    BY <1>4 DEF Max

\* What the fold of Sum computes on the way, for the positions 1..n of s.
Unfolds(g, s, n) ==
    g = [t \in SUBSET (1..n) |-> IF t = {} THEN 0 ELSE g[t \ {Max(t)}] + s[Max(t)]]

\* Sum is the last value of an unfolding, which the fold of the library picks.
LEMMA SumIs ==
    ASSUME NEW n \in Nat, NEW s, DOMAIN s = 1..n
    PROVE  Sum(s) = (CHOOSE g : Unfolds(g, s, n))[1..n]
<1>1. Sum(s) = MapThenFoldSet(LAMBDA x, y : y + x, 0, LAMBDA i : s[i], LAMBDA S : Max(S), DOMAIN s)
    BY DEF Sum, FoldLeft
<1>2. @ = (CHOOSE g : g = [t \in SUBSET DOMAIN s |-> IF t = {} THEN 0 ELSE g[t \ {Max(t)}] + s[Max(t)]])[DOMAIN s]
    BY DEF MapThenFoldSet
<1> QED
    BY <1>1, <1>2 DEF Unfolds

Below(t, n) == t \in SUBSET (1..n)

FoldAt(g, s, t) ==
    /\ t = {} => g[t] = 0
    /\ t # {} => Max(t) \in t /\ g[t] = g[t \ {Max(t)}] + s[Max(t)]

\* An unfolding at one set of positions.
LEMMA UnfoldsAt ==
    ASSUME NEW n \in Nat, NEW s, NEW g, Unfolds(g, s, n), NEW t, Below(t, n)
    PROVE  FoldAt(g, s, t)
<1> USE DEF Below, FoldAt
<1>1. g[t] = IF t = {} THEN 0 ELSE g[t \ {Max(t)}] + s[Max(t)]
    BY Zenon DEF Unfolds
<1> QED
    BY <1>1, MaxIs

\* Every sequence of numbers has an unfolding, in the numbers.
LEMMA UnfoldingsExist ==
    ASSUME NEW N \in Nat, NEW s \in [1..N -> Int]
    PROVE  \A n \in 0..N : \E g \in [SUBSET (1..n) -> Int] : Unfolds(g, s, n)
<1> DEFINE P(n) == n <= N => \E g \in [SUBSET (1..n) -> Int] : Unfolds(g, s, n)
<1>1. P(0)
    <2> DEFINE g == [t \in SUBSET (1..0) |-> 0]
    <2>1. g \in [SUBSET (1..0) -> Int] /\ Unfolds(g, s, 0)
        BY DEF Unfolds
    <2> QED
        BY <2>1
<1>2. ASSUME NEW n \in Nat, P(n) PROVE P(n + 1)
    <2>1. SUFFICES ASSUME n + 1 <= N PROVE \E h \in [SUBSET (1..(n + 1)) -> Int] : Unfolds(h, s, n + 1)
        OBVIOUS
    <2>2. PICK g \in [SUBSET (1..n) -> Int] : Unfolds(g, s, n)
        <3>1. n <= N
            BY <2>1
        <3> QED
            BY <1>2, <3>1, Zenon
    <2> DEFINE h == [t \in SUBSET (1..(n + 1)) |->
                       IF n + 1 \in t THEN g[t \ {n + 1}] + s[n + 1] ELSE g[t]]
    <2>3. \A t \in SUBSET (1..(n + 1)) : (n + 1 \in t => t \ {n + 1} \in SUBSET (1..n))
                                          /\ (n + 1 \notin t => t \in SUBSET (1..n))
        OBVIOUS
    <2>4. h \in [SUBSET (1..(n + 1)) -> Int]
        BY <2>1, <2>3
    <2>5. ASSUME NEW t \in SUBSET (1..(n + 1))
          PROVE  h[t] = IF t = {} THEN 0 ELSE h[t \ {Max(t)}] + s[Max(t)]
        <3>1. CASE n + 1 \in t
            <4>1. Max(t) \in t /\ \A y \in t : y <= Max(t)
                <5>1. t # {} /\ n + 1 \in Nat
                    BY <3>1
                <5> QED
                    BY <5>1, MaxIs
            <4>2. Max(t) = n + 1
                <5>1. Max(t) \in 1..(n + 1)
                    BY <4>1
                <5> QED
                    BY <3>1, <4>1, <5>1
            <4>3. h[t \ {n + 1}] = g[t \ {n + 1}]
                BY <2>3, <3>1
            <4> QED
                BY <3>1, <4>2, <4>3
        <3>2. CASE n + 1 \notin t /\ t # {}
            <4>1. Below(t, n)
                BY <2>3, <3>2 DEF Below
            <4>2. FoldAt(g, s, t)
                BY <1>2, <2>2, <4>1, UnfoldsAt
            <4>3. h[t] = g[t] /\ h[t \ {Max(t)}] = g[t \ {Max(t)}]
                BY <3>2
            <4> QED
                BY <3>2, <4>2, <4>3 DEF FoldAt
        <3>3. CASE t = {}
            <4>1. h[t] = g[{}] /\ Below({}, n)
                BY <3>3 DEF Below
            <4>2. FoldAt(g, s, {})
                BY <1>2, <2>2, <4>1, UnfoldsAt
            <4> QED
                BY <3>3, <4>1, <4>2 DEF FoldAt
        <3> QED
            BY <3>1, <3>2, <3>3
    <2>6. Unfolds(h, s, n + 1)
        BY <2>5, Zenon DEF Unfolds
    <2> QED
        BY <2>4, <2>6
<1> HIDE DEF P
<1> DEFINE T == {n \in Nat : P(n)}
<1>3. T \in SUBSET Nat /\ 0 \in T /\ \A n \in T : n + 1 \in T
    BY <1>1, <1>2
<1>4. T = Nat
    BY <1>3, AllNumbers
<1>5. \A n \in 0..N : n \in Nat /\ n <= N
    OBVIOUS
<1>6. \A n \in 0..N : P(n)
    BY <1>4, <1>5
<1> QED
    BY <1>5, <1>6 DEF P

\* An unfolding of a prefix agrees with one of the whole.
LEMMA UnfoldingsAgree ==
    ASSUME NEW n \in Nat, NEW m \in Nat, n <= m, NEW s, NEW p, NEW g, NEW h,
           Unfolds(g, p, n), Unfolds(h, s, m), \A i \in 1..n : p[i] = s[i]
    PROVE  \A t : Below(t, n) => g[t] = h[t]
<1> DEFINE P(k) == \A t \in SUBSET (1..n) : t \in SUBSET (1..k) => g[t] = h[t]
<1>0. \A t \in SUBSET (1..n) : t \in SUBSET (1..m)
    OBVIOUS
<1>1. P(0)
    <2>1. Below({}, n) /\ Below({}, m)
        BY DEF Below
    <2>2. FoldAt(g, p, {}) /\ FoldAt(h, s, {})
        BY <2>1, UnfoldsAt
    <2>3. \A t \in SUBSET (1..0) : t = {}
        OBVIOUS
    <2> QED
        BY <2>2, <2>3 DEF FoldAt
<1>2. ASSUME NEW k \in Nat, P(k) PROVE P(k + 1)
    <2>1. ASSUME NEW t \in SUBSET (1..n), t \in SUBSET (1..(k + 1)), t # {} PROVE g[t] = h[t]
        <3>1. Max(t) \in t /\ \A y \in t : y <= Max(t)
            BY <2>1, MaxIs
        <3>2. t \ {Max(t)} \in SUBSET (1..n)
            OBVIOUS
        <3>3. \A y \in t \ {Max(t)} : y \in 1..k
            <4>1. ASSUME NEW y \in t, y # Max(t) PROVE y \in 1..k
                <5>1. y \in 1..(k + 1) /\ Max(t) \in 1..(k + 1) /\ y <= Max(t)
                    BY <2>1, <3>1
                <5> QED
                    BY <4>1, <5>1
            <4> QED
                BY <4>1
        <3>4. g[t \ {Max(t)}] = h[t \ {Max(t)}] /\ p[Max(t)] = s[Max(t)]
            BY <1>2, <3>1, <3>2, <3>3
        <3>5. g[t] = g[t \ {Max(t)}] + p[Max(t)]
            <4>1. Below(t, n)
                BY DEF Below
            <4>2. FoldAt(g, p, t)
                BY <4>1, UnfoldsAt
            <4> QED
                BY <2>1, <4>2 DEF FoldAt
        <3>6. h[t] = h[t \ {Max(t)}] + s[Max(t)]
            <4>1. Below(t, m)
                BY <1>0 DEF Below
            <4>2. FoldAt(h, s, t)
                BY <4>1, UnfoldsAt
            <4> QED
                BY <2>1, <4>2 DEF FoldAt
        <3> QED
            BY <3>4, <3>5, <3>6
    <2>2. \A t \in SUBSET (1..n) : t = {} => g[t] = h[t]
        BY <1>1
    <2> QED
        BY <2>1, <2>2
<1> HIDE DEF P
<1> DEFINE T == {k \in Nat : P(k)}
<1>3. T \in SUBSET Nat /\ 0 \in T /\ \A k \in T : k + 1 \in T
    BY <1>1, <1>2
<1>4. T = Nat
    BY <1>3, AllNumbers
<1> QED
    BY <1>4 DEF P, Below

\* The sum of a sequence is that of all but its last plus the last.
LEMMA SumStep ==
    ASSUME NEW n \in Nat, NEW s \in [1..(n + 1) -> Int], NEW p \in [1..n -> Int],
           \A i \in 1..n : p[i] = s[i]
    PROVE  Sum(p) \in Int /\ Sum(s) = Sum(p) + s[n + 1]
<1>0. n + 1 \in Nat /\ n + 1 \in 0..(n + 1) /\ n \in 0..n
    OBVIOUS
<1>1. PICK h \in [SUBSET (1..(n + 1)) -> Int] : Unfolds(h, s, n + 1)
    BY <1>0, UnfoldingsExist
<1>2. PICK g \in [SUBSET (1..n) -> Int] : Unfolds(g, p, n)
    BY <1>0, UnfoldingsExist
<1> DEFINE H == CHOOSE f : Unfolds(f, s, n + 1)
           G == CHOOSE f : Unfolds(f, p, n)
<1>3. Unfolds(H, s, n + 1) /\ Unfolds(G, p, n)
    BY <1>1, <1>2
<1>4. Sum(s) = H[1..(n + 1)] /\ Sum(p) = G[1..n]
    <2>1. DOMAIN s = 1..(n + 1) /\ DOMAIN p = 1..n
        OBVIOUS
    <2> QED
        BY <1>0, <2>1, SumIs
<1> HIDE DEF H, G
<1>5. Below(1..n, n) /\ n <= n + 1 /\ n <= n /\ \A i \in 1..n : p[i] = p[i]
    BY DEF Below
<1>6. G[1..n] = H[1..n]
    BY <1>0, <1>3, <1>5, UnfoldingsAgree, SMTT(30)
<1>7. G[1..n] = g[1..n]
    <2>1. \A u : Below(u, n) => G[u] = g[u]
        BY <1>2, <1>3, <1>5, UnfoldingsAgree
    <2> QED
        BY <1>5, <2>1
<1> DEFINE t == 1..(n + 1)
<1>a. (1..(n + 1)) \ {n + 1} = 1..n
    OBVIOUS
<1>b. t \in SUBSET (1..(n + 1))
    OBVIOUS
<1>c. n + 1 \in t
    OBVIOUS
<1>8. t \in SUBSET (1..(n + 1)) /\ Below(t, n + 1) /\ t # {} /\ n + 1 \in t /\ t \ {n + 1} = 1..n
    BY Zenon, <1>a, <1>b, <1>c DEF Below
<1> HIDE DEF t
<1>9. Max(t) \in t /\ (\A y \in t : y <= Max(t)) /\ H[t] = H[t \ {Max(t)}] + s[Max(t)]
    <2>1. H[t] = H[t \ {Max(t)}] + s[Max(t)]
        <3>1. FoldAt(H, s, t)
            BY <1>0, <1>3, <1>8, UnfoldsAt
        <3> QED
            BY <1>8, <3>1 DEF FoldAt
    <2> QED
        BY <1>0, <1>8, <2>1, MaxIs
<1>10. Max(t) = n + 1
    <2>1. Max(t) \in 1..(n + 1) /\ n + 1 <= Max(t)
        BY <1>8, <1>9
    <2> QED
        BY <2>1
<1>11. H[t] = H[1..n] + s[n + 1] /\ Sum(s) = H[t]
    BY <1>4, <1>8, <1>9, <1>10 DEF t
<1>12. g[1..n] \in Int
    BY <1>2, <1>5 DEF Below
<1> QED
    BY <1>4, <1>6, <1>7, <1>11, <1>12

\* Nothing adds up to 0.
LEMMA SumEmpty ==
    ASSUME NEW s, DOMAIN s = 1..0
    PROVE  Sum(s) = 0
<1> DEFINE g == [t \in SUBSET (1..0) |-> 0]
<1>1. Unfolds(g, s, 0)
    BY DEF Unfolds
<1> DEFINE G == CHOOSE f : Unfolds(f, s, 0)
<1>2. Unfolds(G, s, 0)
    BY <1>1
<1>3. Sum(s) = G[1..0] /\ 1..0 = {}
    BY SumIs
<1> HIDE DEF G
<1>4. G[{}] = 0
    <2>1. Below({}, 0) /\ 0 \in Nat
        BY DEF Below
    <2>2. FoldAt(G, s, {})
        BY <1>2, <2>1, UnfoldsAt
    <2> QED
        BY <2>2 DEF FoldAt
<1> QED
    BY <1>3, <1>4

-----------------------------------------------------------------------------
(* The policies: what they cut is never more than they show, and what they keep of it *)
(* the next window shows again. *)

Window == [k \in Nat |-> WindowSize(k)]
Advance == [k \in Nat |-> NextChunkSize(k)]
After(k) == IF Policy.kind \in {"fixed", "sliding"} THEN k ELSE k + 1

\* The streams meet what is assumed of them, and so do their policies.
LEMMA PolicyIs == stream \in Streams => IsStream(stream) /\ IsPolicy(Policy)
BY StreamBufferAssumption DEF IsStream, Policy

\* A chunk of a schedule has new items.
LEMMA NewItemsIs ==
    ASSUME stream \in Streams, Policy.kind = "scheduled", NEW k \in Nat
    PROVE  NewItems(k) \in Positive
BY PolicyIs DEF NewItems, IsPolicy, Positive

\* A chunk of a schedule delivers its new items.
LEMMA DeliveredStep ==
    ASSUME stream \in Streams, Policy.kind = "scheduled", NEW k \in Nat
    PROVE  /\ Delivered(k) \in Int /\ Delivered(k + 1) = Delivered(k) + NewItems(k)
           /\ Sum([j \in 1..k |-> NewItems(j - 1)]) \in Int
<1> DEFINE s == [j \in 1..(k + 1) |-> NewItems(j - 1)]
           p == [j \in 1..k |-> NewItems(j - 1)]
<1>1. \A j \in 1..(k + 1) : NewItems(j - 1) \in Int
    <2>1. \A j \in 1..(k + 1) : j - 1 \in Nat
        OBVIOUS
    <2> QED
        BY <2>1, NewItemsIs DEF Positive
<1>2. s \in [1..(k + 1) -> Int] /\ p \in [1..k -> Int] /\ \A i \in 1..k : p[i] = s[i]
    BY <1>1
<1> HIDE DEF s, p
<1>3. Sum(p) \in Int /\ Sum(s) = Sum(p) + s[k + 1]
    BY <1>2, SumStep
<1>4. Delivered(k) = Lead + Sum(p) /\ Delivered(k + 1) = Lead + Sum(s) /\ s[k + 1] = NewItems(k)
    BY DEF Delivered, s, p
<1>5. Lead \in Nat /\ NewItems(k) \in Int
    BY PolicyIs, NewItemsIs DEF IsPolicy, Lead, Positive
<1> QED
    BY <1>3, <1>4, <1>5 DEF p

\* A schedule has delivered the lead before its first chunk, and never less than nothing.
LEMMA DeliveredIs ==
    ASSUME stream \in Streams, Policy.kind = "scheduled"
    PROVE  Delivered(0) = Lead /\ \A k \in Nat : Delivered(k) \in Nat
<1>1. Delivered(0) = Lead /\ Lead \in Nat
    <2>1. Sum([j \in 1..0 |-> NewItems(j - 1)]) = 0
        BY SumEmpty
    <2> QED
        BY <2>1, PolicyIs DEF Delivered, Lead, IsPolicy
<1> DEFINE T == {k \in Nat : Delivered(k) \in Nat}
<1>2. ASSUME NEW k \in T PROVE k + 1 \in T
    <2>1. k \in Nat /\ Delivered(k) \in Nat
        OBVIOUS
    <2>2. Delivered(k + 1) = Delivered(k) + NewItems(k)
        BY <2>1, DeliveredStep
    <2> QED
        BY <2>1, <2>2, NewItemsIs DEF Positive
<1>3. 0 \in T /\ T \in SUBSET Nat
    BY <1>1
<1> HIDE DEF T
<1>4. T = Nat
    BY <1>2, <1>3, AllNumbers
<1> QED
    BY <1>1, <1>4 DEF T

\* A function on the numbers given by its first value and its steps.
Goes(g, S) == g \in [Nat \X S -> S]
Iterates(f, S, a, g) == f \in [Nat -> S] /\ f[0] = a /\ \A n \in Nat : f[n + 1] = g[<<n, f[n]>>]

\* There is a function with a given first value and given steps.
LEMMA RecursionExists ==
    ASSUME NEW S, NEW a \in S, NEW g, Goes(g, S)
    PROVE  \E f : Iterates(f, S, a, g)
<1> USE DEF Goes
<1> DEFINE Part(h, n) == /\ h \in [0..n -> S] /\ h[0] = a
                         /\ \A k \in 0..(n - 1) : h[k + 1] = g[<<k, h[k]>>]
           P(n) == \E h : Part(h, n)
<1>1. P(0)
    <2>1. Part([k \in 0..0 |-> a], 0)
        OBVIOUS
    <2> QED
        BY <2>1
<1>2. ASSUME NEW n \in Nat, P(n) PROVE P(n + 1)
    <2>1. PICK h : Part(h, n)
        BY <1>2
    <2> DEFINE j == [k \in 0..(n + 1) |-> IF k = n + 1 THEN g[<<n, h[n]>>] ELSE h[k]]
    <2>2. h[n] \in S /\ g[<<n, h[n]>>] \in S
        BY <1>2, <2>1
    <2>3. j \in [0..(n + 1) -> S] /\ j[0] = a
        BY <1>2, <2>1, <2>2
    <2>4. ASSUME NEW k \in 0..n PROVE j[k + 1] = g[<<k, j[k]>>]
        <3>0. k \in 0..(n + 1) /\ k + 1 \in 0..(n + 1) /\ k # n + 1
            BY <1>2, <2>4
        <3>a. j[k] = h[k] /\ j[k + 1] = IF k + 1 = n + 1 THEN g[<<n, h[n]>>] ELSE h[k + 1]
            BY <3>0
        <3> HIDE DEF j
        <3>1. CASE k = n
            BY <3>1, <3>a
        <3>2. CASE k # n
            <4>1. k \in 0..(n - 1) /\ k + 1 \in 0..n
                BY <1>2, <2>4, <3>2
            <4>2. h[k + 1] = g[<<k, h[k]>>]
                BY <2>1, <4>1
            <4> QED
                BY <1>2, <2>4, <3>2, <3>a, <4>1, <4>2
        <3> QED
            BY <3>1, <3>2
    <2>5. Part(j, n + 1)
        <3>1. (n + 1) - 1 = n
            BY <1>2
        <3> HIDE DEF j
        <3> QED
            BY <2>3, <2>4, <3>1
    <2> QED
        BY <2>5
<1>3. \A n \in Nat : P(n)
    <2> HIDE DEF P
    <2> DEFINE T == {n \in Nat : P(n)}
    <2>1. T \in SUBSET Nat /\ 0 \in T /\ \A n \in T : n + 1 \in T
        BY <1>1, <1>2
    <2>2. T = Nat
        BY <2>1, AllNumbers
    <2> QED
        BY <2>2
<1>4. ASSUME NEW m \in Nat, NEW n \in Nat, m <= n, NEW h, NEW j, Part(h, m), Part(j, n)
      PROVE  h[m] = j[m]
    <2> DEFINE T == {k \in Nat : k <= m => h[k] = j[k]}
    <2>1. 0 \in T
        BY <1>4
    <2>2. ASSUME NEW k \in T PROVE k + 1 \in T
        <3>1. SUFFICES ASSUME k + 1 <= m PROVE h[k + 1] = j[k + 1]
            OBVIOUS
        <3>2. k \in 0..(m - 1) /\ k \in 0..(n - 1) /\ h[k] = j[k]
            BY <1>4, <2>2, <3>1
        <3>3. h[k + 1] = g[<<k, h[k]>>]
            BY <1>4, <3>2
        <3>4. j[k + 1] = g[<<k, j[k]>>]
            BY <1>4, <3>2
        <3> QED
            BY <3>2, <3>3, <3>4
    <2>3. T \in SUBSET Nat
        OBVIOUS
    <2> HIDE DEF T
    <2>4. T = Nat
        BY <2>1, <2>2, <2>3, AllNumbers
    <2> QED
        BY <1>4, <2>4 DEF T
<1> DEFINE H(n) == CHOOSE h : Part(h, n)
           f == [n \in Nat |-> H(n)[n]]
<1>5. \A n \in Nat : Part(H(n), n)
    BY <1>3
<1> HIDE DEF H
<1>6. f \in [Nat -> S] /\ f[0] = a
    BY <1>5
<1>7. ASSUME NEW n \in Nat PROVE f[n + 1] = g[<<n, f[n]>>]
    <2>1. Part(H(n + 1), n + 1) /\ Part(H(n), n)
        BY <1>5, <1>7
    <2>2. H(n)[n] = H(n + 1)[n]
        BY <1>4, <1>7, <2>1
    <2>3. H(n + 1)[n + 1] = g[<<n, H(n + 1)[n]>>]
        BY <1>7, <2>1
    <2> QED
        BY <1>7, <2>2, <2>3
<1> QED
    BY <1>6, <1>7 DEF Iterates

\* A ramp's chunks all have items.
LEMMA RampIs ==
    ASSUME stream \in Streams, Policy.kind = "ramp"
    PROVE  \A k \in Nat : Ramp(k) \in Positive
<1>1. /\ Policy.first \in Positive /\ Policy.growth \in Positive /\ Policy.max \in Positive
      /\ Policy.chunk \in Positive
    BY PolicyIs DEF IsPolicy
<1> DEFINE g == [e \in Nat \X Positive |->
                   IF e[1] = 0 THEN Policy.chunk ELSE Least(Policy.max, e[2] * Policy.growth)]
<1>2. \A e \in Nat \X Positive : e[2] * Policy.growth \in Positive
    BY <1>1 DEF Positive
<1>3. g \in [Nat \X Positive -> Positive]
    BY <1>1, <1>2 DEF Least
<1> HIDE DEF g
<1>4. \E f : Iterates(f, Positive, Policy.chunk, g)
    <2>1. Goes(g, Positive)
        BY <1>3 DEF Goes
    <2> QED
        BY <1>1, <2>1, RecursionExists
<1>a. PICK f : Iterates(f, Positive, Policy.chunk, g)
    BY <1>4
<1>b. f \in [Nat -> Positive] /\ f[0] = Policy.chunk /\ \A n \in Nat : f[n + 1] = g[<<n, f[n]>>]
    BY <1>a DEF Iterates
<1>5. ASSUME NEW k \in Nat
      PROVE  f[k] = IF k <= 1 THEN Policy.chunk ELSE Least(Policy.max, f[k - 1] * Policy.growth)
    <2>1. CASE k = 0
        BY <1>b, <2>1
    <2>2. CASE k # 0
        <3>1. k - 1 \in Nat /\ (k - 1) + 1 = k
            BY <2>2
        <3>2. f[k] = g[<<k - 1, f[k - 1]>>]
            BY <1>b, <3>1
        <3> QED
            BY <1>b, <2>2, <3>1, <3>2 DEF g
    <2> QED
        BY <2>1, <2>2
<1>6. f = [k \in Nat |-> IF k <= 1 THEN Policy.chunk ELSE Least(Policy.max, f[k - 1] * Policy.growth)]
    BY <1>b, <1>5
<1> DEFINE R == CHOOSE r : r = [k \in Nat |-> IF k <= 1 THEN Policy.chunk ELSE Least(Policy.max, r[k - 1] * Policy.growth)]
<1>7. R = [k \in Nat |-> IF k <= 1 THEN Policy.chunk ELSE Least(Policy.max, R[k - 1] * Policy.growth)]
    BY <1>6
<1>8. RampSize = R
    BY DEF RampSize
<1> HIDE DEF R
<1> DEFINE T == {k \in Nat : R[k] \in Positive}
<1>9. 0 \in T
    BY <1>1, <1>7
<1>10. ASSUME NEW k \in T PROVE k + 1 \in T
    <2>1. k \in Nat /\ R[k] \in Positive /\ (k + 1) - 1 = k
        BY <1>10
    <2>2. R[k] * Policy.growth \in Positive
        BY <1>1, <2>1 DEF Positive
    <2>3. R[k + 1] = IF k + 1 <= 1 THEN Policy.chunk ELSE Least(Policy.max, R[k] * Policy.growth)
        BY <1>7, <2>1
    <2> QED
        BY <1>1, <2>1, <2>2, <2>3 DEF Least
<1>11. T \in SUBSET Nat
    OBVIOUS
<1> HIDE DEF T
<1>12. T = Nat
    BY <1>9, <1>10, <1>11, AllNumbers
<1> QED
    BY <1>1, <1>8, <1>12 DEF T, Ramp

\* Every window has items, no more leave than are shown, and what is kept of a window fits
\* the next.
LEMMA PolicyFacts ==
    stream \in Streams =>
        \A k \in Nat : /\ Window[k] \in Positive /\ Advance[k] \in 0..Window[k]
                       /\ Window[k] - Advance[k] <= Window[After(k)]
<1>1. SUFFICES ASSUME stream \in Streams, NEW k \in Nat
               PROVE  /\ WindowSize(k) \in Positive /\ NextChunkSize(k) \in 0..WindowSize(k)
                      /\ WindowSize(k) - NextChunkSize(k) <= WindowSize(After(k))
    BY DEF Window, Advance, After
<1>2. IsPolicy(Policy)
    BY <1>1, PolicyIs
<1>3. CASE Policy.kind = "fixed"
    BY <1>2, <1>3 DEF IsPolicy, WindowSize, NextChunkSize, After, Positive
<1>4. CASE Policy.kind = "sliding"
    BY <1>2, <1>4 DEF IsPolicy, WindowSize, NextChunkSize, After, Positive
<1>5. CASE Policy.kind = "left"
    BY <1>1, <1>2, <1>5 DEF IsPolicy, WindowSize, NextChunkSize, After, Positive
<1>6. CASE Policy.kind = "ramp"
    <2>1. Ramp(k) \in Positive /\ Ramp(k + 1) \in Positive
        BY <1>1, <1>6, RampIs
    <2>2. /\ WindowSize(k) = Ramp(k) /\ NextChunkSize(k) = Ramp(k)
          /\ After(k) = k + 1 /\ WindowSize(k + 1) = Ramp(k + 1)
        BY <1>6 DEF WindowSize, NextChunkSize, After
    <2> QED
        BY <2>1, <2>2 DEF Positive
<1>7. CASE Policy.kind = "scheduled"
    <2>1. /\ Delivered(k) \in Nat /\ Delivered(k + 1) = Delivered(k) + NewItems(k)
          /\ NewItems(k) \in Positive /\ NewItems(k + 1) \in Positive /\ Policy.context \in Nat
          /\ Lead \in Nat
        <3>1. k + 1 \in Nat
            OBVIOUS
        <3> QED
          BY <3>1, <1>1, <1>2, <1>7, DeliveredStep, DeliveredIs, NewItemsIs DEF IsPolicy, Lead
    <2>2. /\ WindowSize(k) = Context(k) + NewItems(k)
          /\ WindowSize(After(k)) = Context(k + 1) + NewItems(k + 1)
          /\ NextChunkSize(k) = (Delivered(k + 1) - Least(Policy.context, Delivered(k + 1)))
                                - (Delivered(k) - Context(k))
        BY <1>7, <2>1 DEF WindowSize, NextChunkSize, After
    <2>3. /\ Context(k) \in 0..Delivered(k) /\ Context(k) >= Least(Policy.context, Delivered(k))
          /\ Context(k + 1) = Least(Policy.context, Delivered(k + 1))
        BY <1>1, <1>7, <2>1, DeliveredIs DEF Context, Least
    <2> HIDE DEF Context
    <2> QED
        BY <2>1, <2>2, <2>3 DEF Least, Positive
<1> QED
    BY <1>2, <1>3, <1>4, <1>5, <1>6, <1>7 DEF IsPolicy

-----------------------------------------------------------------------------
(* The buffer: what has entered it, and what its first run is. *)

Arrived == stream \in Streams /\ registered \in 0..Total

\* What the invariants need to know of a stream.
LEMMA StreamIs ==
    stream \in Streams => /\ Total \in Nat /\ Items = 1..Total /\ stream.pieces \in [1..Total -> Positive]
                          /\ Lead \in Nat /\ Lead <= Total /\ stream.loop \in BOOLEAN
                          /\ Tagged => DOMAIN stream.walks = 1..Total
                          /\ Tagged => \A i \in 1..Lead : stream.walks[i] = stream.walks[1]
BY PolicyIs DEF IsStream, IsPolicy, Policy, Lead, Total, Items, Tagged, Positive

\* _update_buffer: there is a first item that is not complete, and all before it are in.
LEMMA EnteredIs ==
    Arrived => /\ Entered \in 0..registered /\ \A i \in 1..Entered : Complete(i)
               /\ Entered < registered => ~Complete(Entered + 1)
<1>1. SUFFICES ASSUME Arrived
               PROVE  \E k \in 0..registered : /\ \A i \in 1..k : Complete(i)
                                               /\ k < registered => ~Complete(k + 1)
    BY DEF Entered
<1>2. registered \in Nat
    BY <1>1, StreamIs DEF Arrived
<1> DEFINE T == {k \in 0..registered : k < registered => ~Complete(k + 1)}
<1>3. registered \in T /\ T \in SUBSET Nat
    BY <1>2
<1>4. PICK k \in T : \A m \in T : k <= m
    BY <1>3, LeastOf
<1>5. ASSUME NEW i \in 1..k PROVE Complete(i)
    <2>1. i - 1 \in 0..registered /\ i - 1 < k /\ (i - 1) + 1 = i /\ k \in Nat
        BY <1>2, <1>3, <1>4, <1>5
    <2>2. i - 1 \notin T
        BY <1>4, <2>1
    <2> QED
        BY <2>1, <2>2
<1> QED
    BY <1>4, <1>5

\* An item adds its pieces.
LEMMA PiecesStep ==
    ASSUME stream \in Streams, NEW k \in Nat, k < Total
    PROVE  /\ PiecesOf(k) \in Int /\ stream.pieces[k + 1] \in Positive
           /\ PiecesOf(k + 1) = PiecesOf(k) + stream.pieces[k + 1]
<1> DEFINE s == SubSeq(stream.pieces, 1, k + 1)
           p == SubSeq(stream.pieces, 1, k)
<1>1. Total \in Nat /\ stream.pieces \in [1..Total -> Positive] /\ stream.pieces \in Seq(Positive)
    BY StreamIs, PolicyIs DEF IsStream
<1>2. s \in [1..(k + 1) -> Int] /\ p \in [1..k -> Int] /\ \A i \in 1..k : p[i] = s[i]
    <2>1. k + 1 \in 0..Len(stream.pieces) /\ k \in 0..Len(stream.pieces)
        BY <1>1 DEF Total
    <2>2. s = [i \in 1..(k + 1) |-> stream.pieces[i]] /\ p = [i \in 1..k |-> stream.pieces[i]]
        BY <1>1, <2>1, SubSeqRestrict
    <2>3. \A i \in 1..(k + 1) : stream.pieces[i] \in Int
        BY <1>1, <2>1 DEF Positive, Total
    <2> HIDE DEF s, p
    <2> QED
        BY <2>2, <2>3
<1>3. s[k + 1] = stream.pieces[k + 1] /\ stream.pieces[k + 1] \in Positive
    BY <1>1 DEF Total
<1> HIDE DEF s, p
<1>4. Sum(p) \in Int /\ Sum(s) = Sum(p) + s[k + 1]
    BY <1>2, SumStep
<1> QED
    BY <1>3, <1>4 DEF PiecesOf, s, p

\* Fewer items have fewer pieces.
LEMMA PiecesGrow ==
    ASSUME stream \in Streams, NEW k \in Nat, k < Total
    PROVE  PiecesOf(k) \in Int /\ PiecesOf(Total) \in Int /\ PiecesOf(k) < PiecesOf(Total)
<1> DEFINE T == {m \in Nat : k < m /\ m <= Total => PiecesOf(m) \in Int /\ PiecesOf(k) < PiecesOf(m)}
<1>0. Total \in Nat
    BY StreamIs
<1>1. 0 \in T
    OBVIOUS
<1>2. ASSUME NEW m \in T PROVE m + 1 \in T
    <2>1. SUFFICES ASSUME k < m + 1, m + 1 <= Total PROVE PiecesOf(m + 1) \in Int /\ PiecesOf(k) < PiecesOf(m + 1)
        OBVIOUS
    <2>2. m \in Nat /\ m < Total /\ (k = m \/ k < m)
        BY <1>0, <2>1
    <2>3. /\ PiecesOf(m) \in Int /\ stream.pieces[m + 1] \in Positive
          /\ PiecesOf(m + 1) = PiecesOf(m) + stream.pieces[m + 1]
        BY <2>2, PiecesStep
    <2>4. PiecesOf(k) \in Int
        BY PiecesStep
    <2> QED
        BY <1>0, <1>2, <2>1, <2>2, <2>3, <2>4 DEF Positive
<1>3. T \in SUBSET Nat
    OBVIOUS
<1> HIDE DEF T
<1>4. T = Nat
    BY <1>1, <1>2, <1>3, AllNumbers
<1> QED
    BY <1>0, <1>4, PiecesStep DEF T

\* _producer_done_and_all_read counts the pieces the producer sent, and so holds when every
\* item is in the buffer.
LEMMA AllReadIs ==
    Arrived => (AllRead => done /\ Entered = Total /\ registered = Total)
<1>1. SUFFICES ASSUME Arrived, AllRead PROVE Entered = Total /\ registered = Total
    BY DEF AllRead
<1>2. Total \in Nat /\ registered \in 0..Total /\ Entered \in 0..registered
    BY <1>1, EnteredIs, StreamIs DEF Arrived
<1>3. PiecesOf(registered) >= PiecesOf(Total) /\ PiecesOf(Entered) >= PiecesOf(registered)
    BY <1>1 DEF AllRead
<1>4. registered = Total
    BY <1>1, <1>2, <1>3, PiecesGrow DEF Arrived
<1> QED
    BY <1>1, <1>2, <1>3, <1>4, PiecesGrow DEF Arrived

\* _walk_run_len.
LEMMA RunIs ==
    ASSUME Arrived, start \in 0..Entered
    PROVE  /\ RunLen \in 0..BufLen /\ BufLen = Entered - start /\ (BufLen > 0 => RunLen > 0)
           /\ RunLen < BufLen => Tagged /\ stream.walks[start + RunLen + 1] # stream.walks[start + 1]
           /\ Tagged => \A j \in (start + 1)..(start + RunLen) : stream.walks[j] = stream.walks[start + 1]
<1>1. Total \in Nat /\ Entered \in 0..Total /\ start \in Nat
    BY EnteredIs, StreamIs DEF Arrived
<1>2. BufLen = Entered - start
    BY DEF BufLen
<1>3. CASE ~Tagged
    BY <1>1, <1>2, <1>3 DEF RunLen
<1>4. CASE Tagged
    <2> DEFINE same(j) == stream.walks[j] = stream.walks[start + 1]
               T == {j \in (start + 1)..(Entered + 1) : j <= Entered => ~same(j)}
               R == {i \in (start + 1)..Entered : \A j \in (start + 1)..i : same(j)}
    <2>1. Entered + 1 \in T /\ T \in SUBSET Nat
        BY <1>1
    <2>2. PICK m \in T : \A l \in T : m <= l
        BY <2>1, LeastOf
    <2>3. \A j \in (start + 1)..(m - 1) : same(j)
        <3>1. ASSUME NEW j \in (start + 1)..(m - 1) PROVE same(j)
            <4>1. j \in (start + 1)..(Entered + 1) /\ j < m /\ j <= Entered
                BY <1>1, <2>1, <2>2, <3>1
            <4> QED
                BY <1>1, <2>2, <4>1
        <3> QED
            BY <3>1
    <2>4. m \in (start + 1)..(Entered + 1) /\ (m <= Entered => ~same(m))
        BY <2>2
    <2>5. R = (start + 1)..(m - 1)
        <3>1. \A i \in R : i \in (start + 1)..(m - 1)
            BY <1>1, <2>4
        <3>2. \A i \in (start + 1)..(m - 1) : i \in R
            BY <1>1, <2>3, <2>4
        <3> QED
            BY <3>1, <3>2
    <2>6. RunLen = Cardinality(R)
        BY <1>4 DEF RunLen
    <2> HIDE DEF R
    <2>7. RunLen = m - 1 - start
        <3>1. start + 1 \in Int /\ m - 1 \in Int
            BY <1>1, <2>4
        <3>2. Cardinality((start + 1)..(m - 1)) = IF start + 1 > m - 1 THEN 0 ELSE (m - 1) - (start + 1) + 1
            BY <3>1, FS_Interval
        <3> QED
            BY <1>1, <2>4, <2>5, <2>6, <3>2
    <2>8. BufLen > 0 => m # start + 1
        BY <1>1, <1>2, <2>4
    <2>9. start + RunLen = m - 1 /\ start + RunLen + 1 = m
        BY <1>1, <2>4, <2>7
    <2> HIDE DEF T
    <2> QED
        BY <1>1, <1>2, <1>4, <2>3, <2>4, <2>7, <2>8, <2>9
<1> QED
    BY <1>3, <1>4

-----------------------------------------------------------------------------
(* Counting the chunks on their way that show an item. *)

In(i, c) == IF c # None /\ i \in ItemsOf(c) THEN 1 ELSE 0
Held == IF waiting = <<>> THEN None ELSE waiting[1]
Member(P, x) == IF x \in P THEN 1 ELSE 0

\* The number of a few slots, one by one.
LEMMA CountOfThree ==
    ASSUME NEW P \in SUBSET (1..3)
    PROVE  Cardinality(P) = Member(P, 1) + Member(P, 2) + Member(P, 3)
<1>1. IsFiniteSet(P)
    <2>1. IsFiniteSet(1..3)
        <3>1. 1 \in Int /\ 3 \in Int
            OBVIOUS
        <3> QED
            BY <3>1, FS_Interval
    <2> QED
        BY <2>1, FS_Subset
<1>2. ASSUME NEW A, IsFiniteSet(A), NEW x
      PROVE  IsFiniteSet(A \ {x}) /\ Cardinality(A) = Cardinality(A \ {x}) + Member(A, x)
    <2>1. /\ IsFiniteSet(A \ {x}) /\ Cardinality(A) \in Int
          /\ Cardinality(A \ {x}) = IF x \in A THEN Cardinality(A) - 1 ELSE Cardinality(A)
        BY <1>2, FS_RemoveElement, FS_CardinalityType
    <2> QED
        BY <2>1 DEF Member
<1> DEFINE Q == P \ {1}
           R == Q \ {2}
           S == R \ {3}
<1>3. S = {} /\ Member(Q, 2) = Member(P, 2) /\ Member(R, 3) = Member(P, 3)
    BY DEF Member
<1>4. IsFiniteSet(Q) /\ Cardinality(P) = Cardinality(Q) + Member(P, 1)
    BY <1>1, <1>2
<1>5. IsFiniteSet(R) /\ Cardinality(Q) = Cardinality(R) + Member(Q, 2)
    BY <1>2, <1>4
<1>6. Cardinality(R) = Cardinality(S) + Member(R, 3)
    BY <1>2, <1>5
<1>7. Cardinality(S) = 0
    BY <1>3, FS_EmptySet
<1> HIDE DEF Q, R, S
<1> QED
    BY <1>3, <1>4, <1>5, <1>6, <1>7 DEF Member

\* The slots that a step's end releases.
LEMMA CountSlots ==
    ASSUME NEW i, NEW c, NEW d
    PROVE  /\ Cardinality({s \in DOMAIN <<c>> : <<c>>[s] # None /\ i \in ItemsOf(<<c>>[s])}) = In(i, c)
           /\ Cardinality({s \in DOMAIN <<c, d>> : <<c, d>>[s] # None /\ i \in ItemsOf(<<c, d>>[s])})
                = In(i, c) + In(i, d)
<1> DEFINE P == {s \in DOMAIN <<c>> : <<c>>[s] # None /\ i \in ItemsOf(<<c>>[s])}
           Q == {s \in DOMAIN <<c, d>> : <<c, d>>[s] # None /\ i \in ItemsOf(<<c, d>>[s])}
<1> HIDE DEF ItemsOf
<1>1. P \in SUBSET (1..3) /\ Member(P, 1) = In(i, c) /\ Member(P, 2) = 0 /\ Member(P, 3) = 0
    BY DEF Member, In
<1>2. Q \in SUBSET (1..3) /\ Member(Q, 1) = In(i, c) /\ Member(Q, 2) = In(i, d) /\ Member(Q, 3) = 0
    BY DEF Member, In
<1>3. In(i, c) \in Int /\ In(i, d) \in Int
    BY DEF In
<1> HIDE DEF P, Q
<1>4. Cardinality(P) = In(i, c) /\ Cardinality(Q) = In(i, c) + In(i, d)
    BY <1>1, <1>2, <1>3, CountOfThree
<1> QED
    BY <1>4 DEF P, Q

\* The concatenations of at most one element each.
LEMMA Tuples ==
    ASSUME NEW a, NEW b, NEW c
    PROVE  /\ <<>> \o <<>> \o <<>> = <<>> /\ <<a>> \o <<>> \o <<>> = <<a>>
           /\ <<>> \o <<a>> \o <<>> = <<a>> /\ <<>> \o <<>> \o <<a>> = <<a>>
           /\ <<a>> \o <<b>> \o <<>> = <<a, b>> /\ <<a>> \o <<>> \o <<b>> = <<a, b>>
           /\ <<>> \o <<a>> \o <<b>> = <<a, b>> /\ <<a>> \o <<b>> \o <<c>> = <<a, b, c>>
<1> DEFINE S == {a, b, c}
<1>1. /\ <<>> \in Seq(S) /\ <<a>> \in Seq(S) /\ <<b>> \in Seq(S) /\ <<c>> \in Seq(S)
      /\ <<a, b>> \in Seq(S) /\ <<a, b, c>> \in Seq(S)
    OBVIOUS
<1>2. \A s \in Seq(S) : <<>> \o s = s /\ s \o <<>> = s
    BY ConcatEmptySeq
<1>3. <<a>> \o <<b>> = <<a, b>>
    <2>1. Append(<<a>>, b) = <<a>> \o <<b>>
        BY <1>1, AppendIsConcat
    <2>2. Append(<<a>>, b) = <<a, b>>
        <3> DEFINE t == Append(<<a>>, b)
                   u == <<a, b>>
        <3>1. t \in Seq(S) /\ Len(t) = 2 /\ t[1] = a /\ t[2] = b
            BY <1>1, AppendProperties
        <3>2. u \in Seq(S) /\ Len(u) = 2 /\ u[1] = a /\ u[2] = b
            BY <1>1
        <3>3. \A i \in 1..2 : t[i] = u[i]
            BY <3>1, <3>2
        <3> HIDE DEF t, u
        <3>4. t = u
            BY <3>1, <3>2, <3>3, SeqEqual
        <3> QED
            BY <3>4 DEF t, u
    <2> QED
        BY <2>1, <2>2
<1>4. <<a, b>> \o <<c>> = <<a, b, c>>
    <2>1. Append(<<a, b>>, c) = <<a, b>> \o <<c>>
        BY <1>1, AppendIsConcat
    <2>2. Append(<<a, b>>, c) = <<a, b, c>>
        <3> DEFINE t == Append(<<a, b>>, c)
                   u == <<a, b, c>>
        <3>1. t \in Seq(S) /\ Len(t) = 3 /\ t[1] = a /\ t[2] = b /\ t[3] = c
            BY <1>1, AppendProperties
        <3>2. u \in Seq(S) /\ Len(u) = 3 /\ u[1] = a /\ u[2] = b /\ u[3] = c
            BY <1>1
        <3>3. \A i \in 1..3 : t[i] = u[i]
            BY <3>1, <3>2
        <3> HIDE DEF t, u
        <3>4. t = u
            BY <3>1, <3>2, <3>3, SeqEqual
        <3> QED
            BY <3>4 DEF t, u
    <2> QED
        BY <2>1, <2>2
<1> HIDE DEF S
<1> QED
    BY <1>1, <1>2, <1>3, <1>4

\* The consumer's slots and the chunk that waits, one after the other.
LEMMA OutIs ==
    ASSUME waiting = <<>> \/ \E c : c # None /\ waiting = <<c>>
    PROVE  /\ Held = None <=> waiting = <<>>
           /\ cur = None /\ next = None /\ Held = None => Out = <<>>
           /\ cur # None /\ next = None /\ Held = None => Out = <<cur>>
           /\ cur = None /\ next # None /\ Held = None => Out = <<next>>
           /\ cur # None /\ next # None /\ Held = None => Out = <<cur, next>>
           /\ cur = None /\ next = None /\ Held # None => Out = <<Held>>
           /\ cur # None /\ next = None /\ Held # None => Out = <<cur, Held>>
           /\ cur = None /\ next # None /\ Held # None => Out = <<next, Held>>
           /\ cur # None /\ next # None /\ Held # None => Out = <<cur, next, Held>>
<1>1. waiting = (IF Held = None THEN <<>> ELSE <<Held>>) /\ (Held = None <=> waiting = <<>>)
    BY DEF Held
<1> HIDE DEF Held
<1>2. Out = Some(cur) \o Some(next) \o (IF Held = None THEN <<>> ELSE <<Held>>)
    BY <1>1 DEF Out
<1>3. \A x : (x = None => Some(x) = <<>>) /\ (x # None => Some(x) = <<x>>)
    BY DEF Some
<1> HIDE DEF Some
<1>4. ASSUME Held = None PROVE Out = Some(cur) \o Some(next) \o <<>>
    BY <1>2, <1>4
<1>5. ASSUME Held # None PROVE Out = Some(cur) \o Some(next) \o <<Held>>
    BY <1>2, <1>5
<1>6. /\ cur = None /\ next = None /\ Held = None => Out = <<>>
      /\ cur # None /\ next = None /\ Held = None => Out = <<cur>>
      /\ cur = None /\ next # None /\ Held = None => Out = <<next>>
      /\ cur # None /\ next # None /\ Held = None => Out = <<cur, next>>
    BY <1>3, <1>4, Tuples, ZenonT(30)
<1>7. cur = None /\ next = None /\ Held # None => Out = <<Held>>
    BY <1>3, <1>5, Tuples, ZenonT(30)
<1>8. cur # None /\ next = None /\ Held # None => Out = <<cur, Held>>
    BY <1>3, <1>5, Tuples, ZenonT(30)
<1>9. cur = None /\ next # None /\ Held # None => Out = <<next, Held>>
    BY <1>3, <1>5, Tuples, ZenonT(30)
<1>10. cur # None /\ next # None /\ Held # None => Out = <<cur, next, Held>>
    <2>1. SUFFICES ASSUME cur # None, next # None, Held # None
                   PROVE  Out = <<cur, next, Held>>
        OBVIOUS
    <2>2. Some(cur) = <<cur>> /\ Some(next) = <<next>>
        BY <1>3, <2>1
    <2>3. <<cur>> \o <<next>> \o <<Held>> = <<cur, next, Held>>
        BY Tuples
    <2> QED
        BY <1>5, <2>1, <2>2, <2>3
<1> QED
    BY <1>1, <1>6, <1>7, <1>8, <1>9, <1>10

\* The chunks on their way that show an item.
LEMMA CountOut ==
    ASSUME waiting = <<>> \/ \E c : c # None /\ waiting = <<c>>, NEW i
    PROVE  Cardinality({k \in DOMAIN Out : i \in ItemsOf(Out[k])}) = In(i, cur) + In(i, next) + In(i, Held)
<1> DEFINE P == {k \in DOMAIN Out : i \in ItemsOf(Out[k])}
<1> HIDE DEF ItemsOf
<1>3. In(i, cur) \in Int /\ In(i, next) \in Int /\ In(i, Held) \in Int
    BY DEF In
<1> HIDE DEF Out, Held
<1>4. P \in SUBSET (1..3) /\ Member(P, 1) + Member(P, 2) + Member(P, 3) = In(i, cur) + In(i, next) + In(i, Held)
    <2>1. CASE cur = None /\ next = None /\ Held = None
        BY <2>1, OutIs DEF Member, In
    <2>2. CASE cur # None /\ next = None /\ Held = None
        BY <2>2, OutIs DEF Member, In
    <2>3. CASE cur = None /\ next # None /\ Held = None
        BY <2>3, OutIs DEF Member, In
    <2>4. CASE cur # None /\ next # None /\ Held = None
        BY <2>4, OutIs DEF Member, In
    <2>5. CASE cur = None /\ next = None /\ Held # None
        BY <2>5, OutIs DEF Member, In
    <2>6. CASE cur # None /\ next = None /\ Held # None
        BY <2>6, OutIs DEF Member, In
    <2>7. CASE cur = None /\ next # None /\ Held # None
        BY <2>7, OutIs DEF Member, In
    <2>8. CASE cur # None /\ next # None /\ Held # None
        BY <2>8, OutIs DEF Member, In
    <2> QED
        BY <2>1, <2>2, <2>3, <2>4, <2>5, <2>6, <2>7, <2>8
<1> HIDE DEF P
<1>5. Cardinality(P) = In(i, cur) + In(i, next) + In(i, Held)
    BY <1>3, <1>4, CountOfThree
<1> QED
    BY <1>5 DEF P
-----------------------------------------------------------------------------
(* The invariant. *)

\* The buffer keeps what it has shown and will show again, which the next window holds and
\* which is all of one walk.  Only what the stream is primed with counts as shown before it
\* has come.  Once the final chunk is cut nothing is left to cut.
BufferOK ==
    /\ start \in 0..Entered /\ end \in Nat /\ popped \in Nat /\ start <= end
    /\ end <= Entered \/ (start = 0 /\ end = Lead)
    /\ end - start <= Window[popped]
    /\ Tagged => \A j \in (start + 1)..end : stream.walks[j] = stream.walks[start + 1]
    /\ closed \in BOOLEAN
    /\ closed => AllRead /\ start = Entered /\ ~Continues

\* A chunk that a step will take.
ChunkOK(c) ==
    /\ c \in Chunks /\ c.context <= c.n /\ c.first + c.n <= Entered
    /\ Tagged => \A i \in ItemsOf(c) : stream.walks[i] = walk
    /\ c.final => closed /\ NewTo(c) = Total

\* One chunk waits at most, and none behind a staged step; what the buffer noted as ingested
\* is the staged chunk, or the one in the current slot, which a step that runs is given.
SlotsOK ==
    /\ waiting = <<>> \/ \E c \in Chunks : waiting = <<c>>
    /\ \A c \in {cur, next, Held} : c # None => ChunkOK(c)
    /\ spec = None => next = None /\ (cur # None => ingested = cur)
    /\ spec # None => /\ next # None /\ spec = [chunk |-> next, info |-> next] /\ ingested = next
                      /\ waiting = <<>> /\ step # None /\ step.st = "running"
    /\ step # None => cur # None /\ step \in [chunk : {cur}, info : {cur}, st : {"submitted", "running"}]
    /\ ready => cur # None
    /\ stopped => cur = None /\ next = None /\ ~open

\* The end of the new items before a chunk's place, and past it.
EatenTo == IF eaten = <<>> THEN Lead ELSE NewTo(eaten[Len(eaten)])
Past(c, a) == IF c = None THEN a ELSE NewTo(c)

\* Each chunk goes on where the one before it ends, and the buffer where the last does.
EatenOK ==
    /\ eaten \in Seq(Chunks)
    /\ eaten # <<>> => NewFrom(eaten[1]) = Lead
    /\ \A i \in 1..(Len(eaten) - 1) : NewFrom(eaten[i + 1]) = NewTo(eaten[i])
    /\ \A i \in 1..Len(eaten) : eaten[i].final => i = Len(eaten) /\ closed /\ NewTo(eaten[i]) = Total
PlacesOK ==
    ~stopped =>    /\ cur # None => NewFrom(cur) = EatenTo
                   /\ next # None => NewFrom(next) = Past(cur, EatenTo)
                   /\ Held # None => NewFrom(Held) = Past(next, Past(cur, EatenTo))
                   /\ end = Past(Held, Past(next, Past(cur, EatenTo)))
                   /\ eaten # <<>> /\ eaten[Len(eaten)].final => cur = None /\ next = None /\ Held = None
                   /\ cur # None /\ cur.final => next = None /\ Held = None
FlowOK == EatenOK /\ PlacesOK

Buffered(i) == IF i \in (start + 1)..Entered THEN 1 ELSE IF i > Entered /\ Complete(i) THEN 1 ELSE 0

RefsOK ==
    /\ DOMAIN refs = Items
    /\ \A i \in Items : refs[i] = Buffered(i) + In(i, cur) + In(i, next) + In(i, Held)

Inv == Arrived /\ BufferOK /\ SlotsOK /\ FlowOK /\ RefsOK

-----------------------------------------------------------------------------
(* pop_chunk. *)

\* The windows are the stream's.
LEMMA WindowStays == stream' = stream => Window' = Window
<1>0. SUFFICES ASSUME stream' = stream PROVE Window' = Window
    OBVIOUS
<1>1. Policy' = Policy /\ Lead' = Lead
    BY <1>0 DEF Policy, Lead
<1>2. \A k : NewItems(k)' = NewItems(k)
    BY <1>1 DEF NewItems
<1>3. \A k : Delivered(k)' = Delivered(k)
    BY <1>1, <1>2 DEF Delivered
<1>4. RampSize' = RampSize
    BY <1>1 DEF RampSize
<1>5. \A k : Ramp(k)' = Ramp(k)
    BY <1>1, <1>4 DEF Ramp
<1>6. \A k : Context(k)' = Context(k)
    BY <1>1, <1>3 DEF Context
<1>7. \A k : WindowSize(k)' = WindowSize(k)
    BY <1>1, <1>2, <1>5, <1>6 DEF WindowSize
<1> QED
    BY <1>7 DEF Window

\* While nothing arrives the buffer has the same items.
LEMMA Unmoved ==
    ASSUME UNCHANGED <<stream, arrVars>>
    PROVE  /\ Entered' = Entered /\ AllRead' = AllRead /\ Arrived' = Arrived
           /\ Window' = Window /\ Chunks' = Chunks /\ Items' = Items /\ Total' = Total
           /\ Lead' = Lead /\ Tagged' = Tagged /\ Continues' = Continues
           /\ \A i : Complete(i)' = Complete(i)
<1>1. Entered' = Entered
    BY DEF arrVars, Entered, Complete
<1>2. AllRead' = AllRead
    BY <1>1 DEF arrVars, AllRead, PiecesOf, Total
<1>3. Window' = Window
    BY WindowStays
<1> QED
    BY <1>1, <1>2, <1>3 DEF arrVars, Arrived, Chunks, Items, Total, Lead, Policy, Tagged, Continues, Complete

\* A chunk that is cut shows at least what the buffer still keeps as shown, in one walk, and
\* leaves in the buffer no more of it than the next window holds.
LEMMA CutIs ==
    ASSUME Arrived, BufferOK, HasChunkReady
    PROVE  /\ ~closed /\ start \in 0..Entered /\ end \in Nat /\ BufLen = Entered - start
           /\ Shown \in 0..BufLen /\ Stride \in 0..Shown /\ end - start <= Shown
           /\ Shown - Stride <= Window[After(popped)]
           /\ Tagged => \A j \in (start + 1)..(start + Shown) : stream.walks[j] = stream.walks[start + 1]
           /\ AllRead /\ start + Stride = Entered => start + Shown = Total
<1>1. /\ Total \in Nat /\ registered \in 0..Total /\ Entered \in 0..Total /\ start \in 0..Entered
      /\ Lead \in Nat /\ Lead <= Total /\ stream \in Streams
    BY EnteredIs, StreamIs DEF Arrived, BufferOK
<1>2. /\ end \in Nat /\ start <= end /\ end - start <= Window[popped] /\ popped \in Nat
      /\ end <= Entered \/ (start = 0 /\ end = Lead)
    BY DEF BufferOK
<1>3. /\ Window[popped] \in Nat \ {0} /\ Advance[popped] \in 0..Window[popped]
      /\ Window[popped] - Advance[popped] <= Window[After(popped)]
      /\ Window[After(popped)] \in Nat /\ After(popped) \in Nat
    <2>1. After(popped) \in Nat
        BY <1>2 DEF After
    <2> QED
        BY <1>1, <1>2, <2>1, PolicyFacts DEF Positive
<1>4. WindowSize(popped) = Window[popped] /\ NextChunkSize(popped) = Advance[popped]
    BY <1>2 DEF Window, Advance
<1>5. /\ RunLen \in 0..BufLen /\ BufLen = Entered - start /\ (BufLen > 0 => RunLen > 0)
      /\ RunLen < BufLen => Tagged /\ stream.walks[start + RunLen + 1] # stream.walks[start + 1]
      /\ Tagged => \A j \in (start + 1)..(start + RunLen) : stream.walks[j] = stream.walks[start + 1]
    BY <1>1, RunIs
<1>6. AllRead => Entered = Total
    BY AllReadIs
<1>7. ~closed
    BY <1>1, <1>5, <1>6 DEF BufferOK, HasChunkReady
<1>8. CASE EndsRun
    <2>1. Shown = RunLen /\ Stride = RunLen /\ RunLen < BufLen
        BY <1>8 DEF Shown, Stride, EndsRun
    <2>2. end <= start + RunLen
        <3>1. SUFFICES ASSUME end > start + RunLen PROVE FALSE
            BY <1>1, <1>2, <1>5
        <3>2. start + RunLen + 1 \in (start + 1)..end
            BY <1>1, <1>2, <1>5, <3>1
        <3> QED
            BY <1>5, <2>1, <3>2 DEF BufferOK
    <2> QED
        BY <1>1, <1>2, <1>3, <1>5, <1>7, <2>1, <2>2
<1>9. CASE ~EndsRun /\ EndsStream
    <2>1. Shown = BufLen /\ Stride = BufLen /\ AllRead
        BY <1>9 DEF Shown, Stride, EndsStream
    <2>2. RunLen = BufLen
        BY <1>1, <1>3, <1>4, <1>5, <1>9 DEF EndsRun, EndsStream, IsReady
    <2> QED
        BY <1>1, <1>2, <1>3, <1>5, <1>6, <1>7, <2>1, <2>2
<1>10. CASE ~EndsRun /\ ~EndsStream
    <2>1. RunLen >= Window[popped]
        <3>1. CASE RunLen < BufLen
            BY <1>4, <1>10, <3>1 DEF EndsRun, IsReady
        <3>2. CASE RunLen = BufLen
            <4>1. AllRead => BufLen >= Window[popped]
                BY <1>4, <1>10 DEF EndsStream, IsReady
            <4>2. ~AllRead => BufLen >= Window[popped]
                BY <1>1, <1>4, <1>5, <3>2 DEF HasChunkReady, IsReady
            <4> QED
                BY <3>2, <4>1, <4>2
        <3> QED
            BY <1>1, <1>5, <3>1, <3>2
    <2>2. Shown = Window[popped] /\ Stride = Advance[popped]
        BY <1>1, <1>3, <1>4, <1>5, <1>10, <2>1 DEF Shown, Stride, Least
    <2> QED
        BY <1>1, <1>2, <1>3, <1>5, <1>6, <1>7, <2>1, <2>2
<1> QED
    BY <1>8, <1>9, <1>10

\* None is neither a chunk nor a staged step.
LEMMA NoChunk == stream \in Streams => /\ \A c \in Chunks : c # None
                                       /\ \A c, d \in Chunks : [chunk |-> c, info |-> d] # None
<1>1. SUFFICES ASSUME stream \in Streams
               PROVE  None \notin Chunks /\ None \notin [chunk : Chunks, info : Chunks]
    OBVIOUS
<1> QED
    BY <1>1, StreamBufferAssumption DEF Chunks

\* The fields of a chunk.
LEMMA ChunkIs ==
    ASSUME NEW c \in Chunks
    PROVE  /\ c.first \in Nat /\ c.n \in Nat /\ c.context \in Nat /\ c.final \in BOOLEAN
           /\ NewFrom(c) = c.first + c.context /\ NewTo(c) = c.first + c.n
           /\ ItemsOf(c) = (c.first + 1)..(c.first + c.n)
BY DEF Chunks, ChunksOf, NewFrom, NewTo, ItemsOf

\* What a cut gives: a chunk whose new items begin where the buffer had shown all, and end
\* where it now has.
LEMMA NextChunkIs ==
    ASSUME Arrived, BufferOK, HasChunkReady
    PROVE  /\ NextChunk \in Chunks /\ NextChunk.context <= NextChunk.n
           /\ NextChunk.first = start /\ NextChunk.n = Shown
           /\ NewFrom(NextChunk) = end
           /\ NextChunk.final <=> AllRead /\ start + Stride = Entered /\ ~Continues
           /\ Tagged => \A i \in ItemsOf(NextChunk) : stream.walks[i] = PeekWalk
<1> DEFINE c == NextChunk
<1>1. /\ start \in 0..Entered /\ end \in Nat /\ BufLen = Entered - start
      /\ Shown \in 0..BufLen /\ Stride \in 0..Shown /\ end - start <= Shown
      /\ Tagged => \A j \in (start + 1)..(start + Shown) : stream.walks[j] = stream.walks[start + 1]
    BY CutIs
<1>2. Entered \in 0..Total /\ Total \in Nat /\ start <= end
    BY EnteredIs, StreamIs DEF Arrived, BufferOK
<1>3. PeekWalk \in {None} \cup ToSet(stream.walks)
    BY <1>1, <1>2, StreamIs DEF PeekWalk, ToSet, Arrived
<1>4. c = [first |-> start, n |-> Shown, context |-> end - start, walk |-> PeekWalk, final |-> c.final]
    <2>1. Least(Most(end - start, 0), Shown) = end - start
        BY <1>1, <1>2 DEF Least, Most
    <2> QED
        BY <2>1 DEF NextChunk
<1>5. c.final <=> AllRead /\ start + Stride = Entered /\ ~Continues
    BY DEF NextChunk
<1>6. c.final \in BOOLEAN
    BY DEF NextChunk
<1>7. c \in Chunks
    BY <1>1, <1>2, <1>3, <1>4, <1>6 DEF Chunks, ChunksOf
<1>8. c.first = start /\ c.n = Shown /\ c.context = end - start
    BY <1>4
<1> HIDE DEF c
<1>9. NewFrom(c) = end /\ c.context <= c.n
    BY <1>1, <1>2, <1>8 DEF NewFrom
<1>10. Tagged => \A i \in ItemsOf(c) : stream.walks[i] = PeekWalk
    <2>1. SUFFICES ASSUME Tagged, NEW i \in ItemsOf(c) PROVE stream.walks[i] = PeekWalk
        OBVIOUS
    <2>2. i \in (start + 1)..(start + Shown) /\ BufLen > 0
        BY <1>1, <1>2, <1>8, <2>1 DEF ItemsOf
    <2> QED
        BY <1>1, <2>1, <2>2 DEF PeekWalk
<1> QED
    BY <1>5, <1>7, <1>8, <1>9, <1>10 DEF c

\* A cut keeps the buffer right, moves the references of what it shows and passes, and is
\* final only when it comes to the end.
LEMMA CutKeeps ==
    ASSUME Arrived, BufferOK, RefsOK, HasChunkReady, PopChunk, UNCHANGED <<stream, arrVars>>
    PROVE  /\ BufferOK' /\ ~closed /\ NewTo(NextChunk) = end' /\ NextChunk.first + NextChunk.n <= Entered
           /\ NextChunk.final => closed' /\ NewTo(NextChunk) = Total
           /\ DOMAIN refs' = Items
           /\ \A i \in Items : refs'[i] = refs[i] - Buffered(i) + Buffered(i)' + In(i, NextChunk)
<1> DEFINE c == NextChunk
<1>1. /\ ~closed /\ start \in 0..Entered /\ end \in Nat /\ BufLen = Entered - start
      /\ Shown \in 0..BufLen /\ Stride \in 0..Shown /\ end - start <= Shown
      /\ Shown - Stride <= Window[After(popped)]
      /\ Tagged => \A j \in (start + 1)..(start + Shown) : stream.walks[j] = stream.walks[start + 1]
      /\ AllRead /\ start + Stride = Entered => start + Shown = Total
    BY CutIs
<1>2. Entered \in 0..Total /\ Total \in Nat /\ start <= end /\ popped \in Nat /\ stream \in Streams
    BY EnteredIs, StreamIs DEF Arrived, BufferOK
<1>3. /\ c \in Chunks /\ c.first = start /\ c.n = Shown
      /\ c.final <=> AllRead /\ start + Stride = Entered /\ ~Continues
    BY NextChunkIs
<1> HIDE DEF c
<1>4. /\ start' = start + Stride /\ end' = start + Shown /\ popped' = After(popped)
      /\ closed' = (closed \/ c.final) /\ refs' = PopRefs
    <2>1. Most(end, start + Shown) = start + Shown
        BY <1>1, <1>2 DEF Most
    <2> QED
        BY <2>1 DEF PopChunk, RegisterChunk, After, c
<1>5. c # None /\ ItemsOf(c) = (start + 1)..(start + Shown) /\ NewTo(c) = start + Shown
    BY <1>2, <1>3, NoChunk DEF ItemsOf, NewTo
<1>6. BufferOK'
    <2>1. start' \in 0..Entered /\ end' \in Nat /\ start' <= end' /\ end' <= Entered /\ popped' \in Nat
        BY <1>1, <1>2, <1>4 DEF After
    <2>2. end' - start' <= Window[popped']
        BY <1>1, <1>2, <1>4
    <2>3. Tagged => \A j \in (start' + 1)..end' : stream.walks[j] = stream.walks[start' + 1]
        <3>1. SUFFICES ASSUME Tagged, NEW j \in (start' + 1)..end' PROVE stream.walks[j] = stream.walks[start' + 1]
            OBVIOUS
        <3>2. j \in (start + 1)..(start + Shown) /\ start' + 1 \in (start + 1)..(start + Shown)
            BY <1>1, <1>2, <1>4, <3>1
        <3> QED
            BY <1>1, <3>1, <3>2
    <2>4. closed' \in BOOLEAN /\ (closed' => AllRead /\ start' = Entered /\ ~Continues)
        BY <1>1, <1>3, <1>4, ChunkIs DEF BufferOK
    <2> QED
        BY <2>1, <2>2, <2>3, <2>4, Unmoved DEF BufferOK
<1>7. c.final => closed' /\ NewTo(c) = Total
    BY <1>1, <1>3, <1>4, <1>5
<1>8. DOMAIN refs' = Items
    BY <1>4 DEF PopRefs
<1>9. ASSUME NEW i \in Items PROVE refs'[i] = refs[i] - Buffered(i) + Buffered(i)' + In(i, c)
    <2>1. refs[i] \in Int /\ Items = 1..Total
        <3>1. Buffered(i) \in Int /\ In(i, cur) \in Int /\ In(i, next) \in Int /\ In(i, Held) \in Int
            BY DEF Buffered, In
        <3> QED
            BY <1>2, <1>9, <3>1, StreamIs DEF RefsOK
    <2> DEFINE left == IF i \in (start + 1)..(start + Stride) THEN 1 ELSE 0
    <2>2. refs'[i] = refs[i] + In(i, c) - left
        BY <1>4, <1>5, <1>9 DEF PopRefs, In, c
    <2>3. Buffered(i)' = Buffered(i) - left
        <3>1. Buffered(i)' = IF i \in (start' + 1)..Entered THEN 1 ELSE IF i > Entered /\ Complete(i) THEN 1 ELSE 0
            BY Unmoved DEF Buffered
        <3> QED
            BY <1>1, <1>2, <1>4, <2>1, <3>1 DEF Buffered
    <2>4. Buffered(i) \in Int /\ In(i, c) \in Int /\ left \in Int
        BY DEF Buffered, In
    <2> HIDE DEF left
    <2> DEFINE r == refs[i]  rr == refs'[i]  b == Buffered(i)  bb == Buffered(i)'  n == In(i, c)
    <2>5. r \in Int /\ b \in Int /\ n \in Int /\ left \in Int /\ rr = r + n - left /\ bb = b - left
        BY <2>1, <2>2, <2>3, <2>4
    <2> HIDE DEF r, rr, b, bb, n
    <2>6. rr = r - b + bb + n
        BY <2>5
    <2> QED
        BY <2>6 DEF r, rr, b, bb, n
<1> QED
    BY <1>1, <1>2, <1>3, <1>4, <1>5, <1>6, <1>7, <1>8, <1>9 DEF c

-----------------------------------------------------------------------------
(* What the actions share. *)

\* The buffer refers to each complete item it has not passed.
LEMMA BufferedIs ==
    (Arrived /\ start \in 0..Entered) =>
        \A i \in Items : Buffered(i) = IF i > start /\ Complete(i) THEN 1 ELSE 0
<1>1. SUFFICES ASSUME Arrived, start \in 0..Entered, NEW i \in Items
               PROVE  Buffered(i) = IF i > start /\ Complete(i) THEN 1 ELSE 0
    OBVIOUS
<1>2. Items = 1..Total /\ Total \in Nat /\ Entered \in 0..Total /\ \A k \in 1..Entered : Complete(k)
    BY <1>1, EnteredIs, StreamIs DEF Arrived
<1>3. CASE i \in 1..Entered
    BY <1>1, <1>2, <1>3 DEF Buffered
<1>4. CASE i > Entered
    BY <1>1, <1>2, <1>4 DEF Buffered
<1> QED
    BY <1>2, <1>3, <1>4

\* A chunk stays one that a step will take while its walk does.
LEMMA ChunkStays ==
    ASSUME NEW c, ChunkOK(c), Arrived, stream' = stream, walk' = walk, closed => closed',
           Entered' \in Nat, Entered <= Entered'
    PROVE  ChunkOK(c)'
<1>1. c \in Chunks /\ c.context <= c.n /\ c.first + c.n <= Entered /\ Entered \in Nat
    BY EnteredIs, StreamIs DEF ChunkOK, Arrived
<1>2. c.first \in Nat /\ c.n \in Nat
    BY <1>1, ChunkIs
<1>3. Chunks' = Chunks /\ Tagged' = Tagged /\ Total' = Total
    BY DEF Chunks, Tagged, Total
<1> QED
    BY <1>1, <1>2, <1>3 DEF ChunkOK

\* The order of the chunks is theirs alone.
LEMMA FlowStays ==
    ASSUME FlowOK, UNCHANGED <<stream, eaten, stopped, cur, next, waiting, end>>, closed => closed'
    PROVE  FlowOK'
<1>1. /\ EatenTo' = EatenTo /\ Held' = Held /\ Chunks' = Chunks /\ Lead' = Lead /\ Total' = Total
      /\ \A c, a : Past(c, a)' = Past(c, a)
    BY DEF EatenTo, Held, Chunks, Lead, Policy, Total, Past
<1> QED
    BY <1>1 DEF FlowOK, EatenOK, PlacesOK, Past

\* The slots stay right when only more arrives.
LEMMA SlotsStay ==
    ASSUME SlotsOK, Arrived, UNCHANGED <<stream, cur, next, waiting, ingested, spec, step, ready, stopped, open, walk>>,
           closed => closed', Entered' \in Nat, Entered <= Entered'
    PROVE  SlotsOK'
<1>1. Held' = Held /\ Chunks' = Chunks
    BY DEF Held, Chunks
<1>2. \A c \in {cur, next, Held} : c # None => ChunkOK(c)'
    BY ChunkStays DEF SlotsOK
<1>3. \A c \in {cur', next', Held'} : c # None => ChunkOK(c)'
    BY <1>1, <1>2
<1> QED
    BY <1>1, <1>3 DEF SlotsOK

\* What an item counts for in the buffer depends on its place and its pieces only.
LEMMA BufferedSame ==
    ASSUME Arrived, Arrived', BufferOK, BufferOK', UNCHANGED <<stream, put, start>>
    PROVE  \A i \in Items : Buffered(i)' = Buffered(i)
<1>1. \A i : Complete(i)' = Complete(i)
    BY DEF Complete
<1>2. \A i \in Items : Buffered(i) = IF i > start /\ Complete(i) THEN 1 ELSE 0
    BY BufferedIs DEF BufferOK
<1>3. \A i \in Items' : Buffered(i)' = IF i > start' /\ Complete(i)' THEN 1 ELSE 0
    <2>1. Arrived' /\ start' \in 0..Entered'
        BY DEF BufferOK
    <2>2. (Arrived /\ start \in 0..Entered => \A i \in Items : Buffered(i) = IF i > start /\ Complete(i) THEN 1 ELSE 0)'
        BY BufferedIs, PTL
    <2> QED
        BY <2>1, <2>2
<1>4. Items' = Items
    BY DEF Items, Total
<1> QED
    BY <1>1, <1>2, <1>3, <1>4

-----------------------------------------------------------------------------
(* The producer's messages. *)

\* More arrives: what was complete stays so, and what was read to the end too.
LEMMA ArrivalGrows ==
    ASSUME Inv, Arrived', stream' = stream, registered <= registered', put \subseteq put', done => done',
           UNCHANGED bufVars
    PROVE  /\ Entered' \in Nat /\ Entered <= Entered' /\ BufferOK'
           /\ \A i : Complete(i) => Complete(i)'
           /\ AllRead => AllRead' /\ Entered' = Entered
<1>1. \A i : Complete(i) => Complete(i)'
    BY DEF Complete
<1>2. /\ Total \in Nat /\ registered \in 0..Total /\ Entered \in 0..registered /\ Total' = Total
      /\ \A i \in 1..Entered : Complete(i)
    BY EnteredIs, StreamIs DEF Inv, Arrived, Total
<1>3. /\ registered' \in 0..Total /\ Entered' \in 0..registered'
      /\ Entered' < registered' => ~(Complete(Entered + 1)')
    <2>1. (Arrived => /\ Entered \in 0..registered /\ \A i \in 1..Entered : Complete(i)
                      /\ Entered < registered => ~Complete(Entered + 1))'
        BY EnteredIs, PTL
    <2> QED
        BY <1>2, <2>1 DEF Arrived
<1>4. Entered <= Entered'
    <2>1. SUFFICES ASSUME Entered' < Entered PROVE FALSE
        BY <1>2, <1>3
    <2>2. Entered' < registered'
        BY <1>2, <1>3, <2>1
    <2>3. PICK e \in Nat : e = Entered'
        BY <1>2, <1>3
    <2>4. e + 1 \in 1..Entered
        <3>1. Entered \in Int /\ e < Entered
            BY <1>2, <2>1, <2>3
        <3> QED
            BY <3>1
    <2>5. Complete(e + 1)'
        BY <1>1, <1>2, <2>4
    <2>6. ~(Complete(Entered + 1)')
        BY <1>3, <2>2
    <2> QED
        BY <2>3, <2>5, <2>6 DEF Complete
<1>5. AllRead => AllRead' /\ Entered' = Entered
    <2>1. SUFFICES ASSUME AllRead PROVE AllRead' /\ Entered' = Entered
        OBVIOUS
    <2>2. done /\ Entered = Total /\ registered = Total
        BY <2>1, AllReadIs DEF Inv
    <2>3. Entered' = Total /\ registered' = Total
        BY <1>2, <1>3, <1>4, <2>2
    <2>4. \A k : PiecesOf(k)' = PiecesOf(k)
        BY DEF PiecesOf
    <2>5. PiecesOf(Total) >= PiecesOf(Total)
        BY <2>1, <2>2 DEF AllRead
    <2> QED
        BY <1>2, <2>2, <2>3, <2>4, <2>5 DEF AllRead
<1>6. Window' = Window
    BY WindowStays
<1>7. Lead' = Lead /\ Tagged' = Tagged /\ Continues' = Continues
    BY DEF Lead, Tagged, Continues, Policy
<1>8. BufferOK
    BY DEF Inv
<1> QED
    BY <1>1, <1>2, <1>3, <1>4, <1>5, <1>6, <1>7, <1>8 DEF BufferOK, bufVars

\* What arrives has no references before it is complete.
LEMMA ArrivalKeeps ==
    ASSUME Inv, Arrived', stream' = stream, registered <= registered', put \subseteq put', done => done',
           UNCHANGED <<bufVars, waiting, ingested, nodeVars, walk, step, spec, eaten>>,
           DOMAIN refs' = Items,
           \A i \in Items : (Buffered(i)' = Buffered(i) /\ refs'[i] = refs[i])
                            \/ (i > Entered /\ Buffered(i) = 0 /\ refs[i] = 0 /\ refs'[i] = Buffered(i)')
    PROVE  Inv'
<1>1. Entered' \in Nat /\ Entered <= Entered' /\ BufferOK'
    BY ArrivalGrows
<1>2. SlotsOK'
    BY <1>1, SlotsStay DEF Inv, nodeVars, bufVars
<1>3. FlowOK'
    BY FlowStays DEF Inv, nodeVars, bufVars
<1>4. Items' = Items /\ Held' = Held /\ cur' = cur /\ next' = next
    BY DEF Items, Total, Held, nodeVars
<1>5. ASSUME NEW i \in Items, NEW c \in {cur, next, Held}, i > Entered PROVE In(i, c) = 0
    <2>1. CASE c = None
        BY <2>1 DEF In
    <2>2. CASE c # None
        <3>1. c \in Chunks /\ c.first + c.n <= Entered
            BY <2>2 DEF Inv, SlotsOK, ChunkOK
        <3>2. i \in Int /\ Entered \in Int
            BY StreamIs, EnteredIs DEF Inv, Arrived
        <3> QED
            BY <1>5, <3>1, <3>2, ChunkIs DEF In
    <2> QED
        BY <2>1, <2>2
<1>6. ASSUME NEW i \in Items PROVE refs'[i] = Buffered(i)' + In(i, cur) + In(i, next) + In(i, Held)
    <2>1. refs[i] = Buffered(i) + In(i, cur) + In(i, next) + In(i, Held)
        BY DEF Inv, RefsOK
    <2>2. Buffered(i)' \in Int
        BY DEF Buffered
    <2>3. CASE Buffered(i)' = Buffered(i) /\ refs'[i] = refs[i]
        BY <2>1, <2>3
    <2>4. CASE i > Entered /\ Buffered(i) = 0 /\ refs[i] = 0 /\ refs'[i] = Buffered(i)'
        BY <1>5, <2>2, <2>4
    <2> QED
        BY <2>3, <2>4
<1>7. RefsOK'
    <2>1. \A i \in Items : /\ In(i, cur)' = In(i, cur) /\ In(i, next)' = In(i, next)
                           /\ In(i, Held)' = In(i, Held)
        BY <1>4 DEF In, ItemsOf
    <2> QED
        BY <1>4, <1>6, <2>1 DEF RefsOK
<1> QED
    BY <1>1, <1>2, <1>3, <1>7 DEF Inv

\* An item is registered.
LEMMA RegisterKeeps == Inv /\ Register => Inv'
<1>1. SUFFICES ASSUME Inv, Register PROVE Inv'
    OBVIOUS
<1>2. /\ stream' = stream /\ registered' = registered + 1 /\ put' = put /\ done' = done /\ refs' = refs
      /\ UNCHANGED <<bufVars, waiting, ingested, nodeVars, walk, step, spec, eaten>>
    BY <1>1 DEF Register
<1>3. Arrived' /\ Total' = Total /\ registered <= registered'
    BY <1>1, <1>2, StreamIs DEF Register, Inv, Arrived, Total
<1>4. BufferOK /\ BufferOK'
    BY <1>1, <1>2, <1>3, ArrivalGrows DEF Inv
<1>5. \A i \in Items : Buffered(i)' = Buffered(i)
    BY <1>1, <1>2, <1>3, <1>4, BufferedSame DEF Inv, bufVars
<1>6. DOMAIN refs' = Items /\ \A i \in Items : Buffered(i)' = Buffered(i) /\ refs'[i] = refs[i]
    BY <1>1, <1>2, <1>5 DEF Inv, RefsOK
<1>7. \A i \in Items : (Buffered(i)' = Buffered(i) /\ refs'[i] = refs[i])
                       \/ (i > Entered /\ Buffered(i) = 0 /\ refs[i] = 0 /\ refs'[i] = Buffered(i)')
    BY <1>6
<1>8. put \subseteq put' /\ (done => done')
    BY <1>2
<1> QED
    BY <1>1, <1>2, <1>3, <1>6, <1>7, <1>8, ArrivalKeeps

\* The producer ends.
LEMMA SignalDoneKeeps == Inv /\ SignalDone => Inv'
<1>1. SUFFICES ASSUME Inv, SignalDone PROVE Inv'
    OBVIOUS
<1>2. /\ stream' = stream /\ registered' = registered /\ put' = put /\ done' = TRUE /\ refs' = refs
      /\ UNCHANGED <<bufVars, waiting, ingested, nodeVars, walk, step, spec, eaten>>
    BY <1>1 DEF SignalDone
<1>3. Arrived' /\ Total' = Total /\ registered <= registered'
    BY <1>1, <1>2, StreamIs DEF Inv, Arrived, Total
<1>4. BufferOK /\ BufferOK'
    BY <1>1, <1>2, <1>3, ArrivalGrows DEF Inv
<1>5. \A i \in Items : Buffered(i)' = Buffered(i)
    BY <1>1, <1>2, <1>3, <1>4, BufferedSame DEF Inv, bufVars
<1>6. DOMAIN refs' = Items /\ \A i \in Items : Buffered(i)' = Buffered(i) /\ refs'[i] = refs[i]
    BY <1>1, <1>2, <1>5 DEF Inv, RefsOK
<1>7. \A i \in Items : (Buffered(i)' = Buffered(i) /\ refs'[i] = refs[i])
                       \/ (i > Entered /\ Buffered(i) = 0 /\ refs[i] = 0 /\ refs'[i] = Buffered(i)')
    BY <1>6
<1>8. put \subseteq put' /\ (done => done')
    BY <1>2
<1> QED
    BY <1>1, <1>2, <1>3, <1>6, <1>7, <1>8, ArrivalKeeps

\* The read of a piece ends: with its last piece the item has the buffer's reference.
LEMMA PutKeeps == Inv /\ Puts => Inv'
<1>1. SUFFICES ASSUME Inv, NEW k \in Items, NEW j \in 1..stream.pieces[k], Put(k, j) PROVE Inv'
    BY DEF Puts
<1>2. /\ stream' = stream /\ registered' = registered /\ put' = put \cup {<<k, j>>} /\ done' = done
      /\ <<k, j>> \notin put
      /\ UNCHANGED <<bufVars, waiting, ingested, nodeVars, walk, step, spec, eaten>>
      /\ refs' = [refs EXCEPT ![k] = IF \A l \in 1..stream.pieces[k] : <<k, l>> \in put' THEN 1 ELSE 0]
    BY <1>1 DEF Put
<1>3. Arrived' /\ Total' = Total /\ registered <= registered' /\ Items' = Items
    BY <1>1, <1>2, StreamIs DEF Inv, Arrived, Total, Items
<1>4. BufferOK /\ BufferOK'
    BY <1>1, <1>2, <1>3, ArrivalGrows DEF Inv
<1>5. /\ ~Complete(k) /\ \A i \in Items \ {k} : Complete(i)' = Complete(i)
      /\ refs' = [refs EXCEPT ![k] = IF Complete(k)' THEN 1 ELSE 0]
    BY <1>1, <1>2 DEF Complete
<1>6. \A i \in Items : Buffered(i) = IF i > start /\ Complete(i) THEN 1 ELSE 0
    BY <1>1, <1>4, BufferedIs DEF Inv, BufferOK
<1>7. \A i \in Items : Buffered(i)' = IF i > start /\ Complete(i)' THEN 1 ELSE 0
    <2>1. \A i \in Items' : Buffered(i)' = IF i > start' /\ Complete(i)' THEN 1 ELSE 0
        <3>1. Arrived' /\ start' \in 0..Entered'
            BY <1>3, <1>4 DEF BufferOK
        <3>2. (Arrived /\ start \in 0..Entered =>
                  \A i \in Items : Buffered(i) = IF i > start /\ Complete(i) THEN 1 ELSE 0)'
            BY BufferedIs, PTL
        <3> QED
            BY <3>1, <3>2
    <2> QED
        BY <1>2, <1>3, <2>1 DEF bufVars
<1>8. k > Entered /\ k > start
    <2>1. Items = 1..Total /\ Entered \in Nat /\ start \in 0..Entered /\ \A i \in 1..Entered : Complete(i)
        BY <1>1, <1>4, EnteredIs, StreamIs DEF Inv, Arrived, BufferOK
    <2> QED
        BY <1>5, <2>1
<1>9. DOMAIN refs = Items
    BY <1>1 DEF Inv, RefsOK
<1>10. refs[k] = 0
    <2>1. ASSUME NEW c \in {cur, next, Held} PROVE In(k, c) = 0
        <3>1. CASE c = None
            BY <3>1 DEF In
        <3>2. CASE c # None
            <4>1. c \in Chunks /\ c.first + c.n <= Entered
                BY <1>1, <3>2 DEF Inv, SlotsOK, ChunkOK
            <4>2. k \in Int /\ Entered \in Int
                BY <1>1, StreamIs, EnteredIs DEF Inv, Arrived
            <4> QED
                BY <1>8, <4>1, <4>2, ChunkIs DEF In
        <3> QED
            BY <3>1, <3>2
    <2>2. refs[k] = Buffered(k) + In(k, cur) + In(k, next) + In(k, Held)
        BY <1>1 DEF Inv, RefsOK
    <2> QED
        BY <1>5, <1>6, <2>1, <2>2
<1>11. \A i \in Items : (Buffered(i)' = Buffered(i) /\ refs'[i] = refs[i])
                        \/ (i > Entered /\ Buffered(i) = 0 /\ refs[i] = 0 /\ refs'[i] = Buffered(i)')
    <2>1. ASSUME NEW i \in Items, i # k PROVE Buffered(i)' = Buffered(i) /\ refs'[i] = refs[i]
        BY <1>5, <1>6, <1>7, <1>9, <2>1
    <2>2. k > Entered /\ Buffered(k) = 0 /\ refs[k] = 0 /\ refs'[k] = Buffered(k)'
        BY <1>5, <1>6, <1>7, <1>8, <1>9, <1>10
    <2> QED
        BY <2>1, <2>2
<1> QED
    BY <1>1, <1>2, <1>3, <1>5, <1>9, <1>11, ArrivalKeeps

-----------------------------------------------------------------------------
(* pop_edge. *)

\* What waits is the chunk held, if any.
LEMMA WaitingIs ==
    ASSUME SlotsOK, stream \in Streams
    PROVE  /\ waiting # <<>> => /\ Held # None /\ Held \in Chunks /\ waiting = <<Held>>
                                /\ Head(waiting) = Held /\ Tail(waiting) = <<>>
           /\ waiting = <<>> => Held = None
<1>1. CASE waiting = <<>>
    BY <1>1 DEF Held
<1>2. CASE waiting # <<>>
    <2>1. PICK c \in Chunks : waiting = <<c>>
        BY <1>2 DEF SlotsOK
    <2>2. Held = c /\ Head(waiting) = c /\ Tail(waiting) = <<>>
        BY <2>1 DEF Held
    <2> QED
        BY <2>1, <2>2, NoChunk
<1> QED
    BY <1>1, <1>2

\* The chunk an edge yields goes on where those before it end, and is the last there is.
EdgeGoesOn(c) ==
    ~stopped => /\ NewFrom(c) = Past(cur, EatenTo) /\ NewTo(c) = end'
                /\ (eaten # <<>> => ~eaten[Len(eaten)].final)
                /\ (cur # None => ~cur.final)

\* A chunk that waits is offered again.
LEMMA EdgeHeld ==
    ASSUME Inv, AtTop, waiting # <<>>, UNCHANGED <<stream, arrVars, bufVars, refs, walk>>
    PROVE  /\ Held \in Chunks /\ Held # None /\ Head(waiting) = Held /\ Tail(waiting) = <<>>
           /\ BufferOK' /\ ChunkOK(Held) /\ EdgeGoesOn(Held)
           /\ DOMAIN refs' = Items
           /\ \A i \in Items : refs'[i] = Buffered(i)' + In(i, cur) + In(i, Held)
<1>1. Held \in Chunks /\ Held # None /\ Head(waiting) = Held /\ Tail(waiting) = <<>>
    BY WaitingIs DEF Inv, Arrived
<1>2. next = None
    BY DEF Inv, SlotsOK, AtTop
<1>3. BufferOK'
    BY Unmoved DEF Inv, BufferOK, bufVars
<1>4. ChunkOK(Held)
    BY <1>1 DEF Inv, SlotsOK
<1>5. EdgeGoesOn(Held)
    <2>1. end' = end
        BY DEF bufVars
    <2> QED
        BY <1>1, <1>2, <2>1 DEF EdgeGoesOn, Inv, FlowOK, EatenOK, PlacesOK, Past
<1>6. \A i \in Items : refs'[i] = Buffered(i)' + In(i, cur) + In(i, Held)
    <2>1. \A i : Buffered(i)' = Buffered(i)
        BY Unmoved DEF Buffered, bufVars
    <2>2. \A i : In(i, None) = 0
        BY DEF In
    <2>3. \A i : Buffered(i) \in Int /\ In(i, cur) \in Int /\ In(i, Held) \in Int
        BY DEF In, Buffered
    <2>4. \A i \in Items : refs[i] = Buffered(i) + In(i, cur) + In(i, next) + In(i, Held)
        BY DEF Inv, RefsOK
    <2> QED
        BY <1>2, <2>1, <2>2, <2>3, <2>4
<1> QED
    BY <1>1, <1>3, <1>4, <1>5, <1>6 DEF Inv, RefsOK

\* A new chunk is cut.
LEMMA EdgeCut ==
    ASSUME Inv, AtTop, waiting = <<>>, HasChunkReady, PopChunk, UNCHANGED <<stream, arrVars>>,
           NEW change \in BOOLEAN, MayEnter(change), walk' = IF PeekWalk = None THEN walk ELSE PeekWalk
    PROVE  /\ NextChunk \in Chunks /\ ~closed
           /\ BufferOK' /\ EdgeGoesOn(NextChunk)
           /\ NextChunk.context <= NextChunk.n /\ NextChunk.first + NextChunk.n <= Entered
           /\ Tagged => \A i \in ItemsOf(NextChunk) : stream.walks[i] = walk'
           /\ NextChunk.final => closed' /\ NewTo(NextChunk) = Total
           /\ (cur # None => walk' = walk)
           /\ DOMAIN refs' = Items
           /\ \A i \in Items : refs'[i] = Buffered(i)' + In(i, cur) + In(i, NextChunk)
<1> DEFINE c == NextChunk
<1>1. /\ c \in Chunks /\ c.context <= c.n /\ NewFrom(c) = end
      /\ Tagged => \A i \in ItemsOf(c) : stream.walks[i] = PeekWalk
      /\ c.first = start /\ c.n = Shown
    BY NextChunkIs DEF Inv
<1>2. /\ BufferOK' /\ ~closed /\ NewTo(c) = end' /\ c.first + c.n <= Entered
      /\ c.final => closed' /\ NewTo(c) = Total
      /\ DOMAIN refs' = Items
      /\ \A i \in Items : refs'[i] = refs[i] - Buffered(i) + Buffered(i)' + In(i, c)
    BY CutKeeps DEF Inv
<1>3. next = None /\ Held = None
    BY WaitingIs DEF Inv, Arrived, SlotsOK, AtTop
<1>4. Tagged => \A i \in ItemsOf(c) : stream.walks[i] = walk'
    <2>1. SUFFICES ASSUME Tagged, NEW i \in ItemsOf(c) PROVE stream.walks[i] = walk'
        OBVIOUS
    <2>2. PeekWalk # None
        <3>1. PeekWalk = stream.walks[i]
            BY <1>1, <2>1
        <3>2. i \in 1..Total
            <4>1. c.first \in Nat /\ c.n \in Nat /\ ItemsOf(c) = (c.first + 1)..(c.first + c.n)
                BY <1>1, ChunkIs
            <4>2. Entered \in 0..Total /\ Total \in Nat
                BY EnteredIs, StreamIs DEF Inv, Arrived
            <4> HIDE DEF c
            <4> QED
                BY <1>2, <2>1, <4>1, <4>2
        <3>3. stream.walks[i] \in ToSet(stream.walks)
            BY <2>1, <3>2, StreamIs DEF Inv, Arrived, ToSet
        <3> QED
            BY <3>1, <3>3, StreamBufferAssumption DEF Inv, Arrived
    <2> QED
        BY <1>1, <2>1, <2>2
<1>5. cur # None => walk' = walk
    BY DEF MayEnter, Idle
<1>6. EdgeGoesOn(c)
    <2>1. SUFFICES ASSUME ~stopped
                   PROVE  /\ NewFrom(c) = Past(cur, EatenTo) /\ NewTo(c) = end'
                          /\ (eaten # <<>> => ~eaten[Len(eaten)].final)
                          /\ (cur # None => ~cur.final)
        BY DEF EdgeGoesOn
    <2>2. NewFrom(c) = Past(cur, EatenTo)
        BY <1>1, <1>3, <2>1 DEF Inv, FlowOK, EatenOK, PlacesOK, Past
    <2>3. eaten # <<>> => ~eaten[Len(eaten)].final
        <3>1. eaten # <<>> => Len(eaten) \in 1..Len(eaten)
            BY DEF Inv, FlowOK, EatenOK, PlacesOK
        <3> QED
            BY <1>2, <3>1 DEF Inv, FlowOK, EatenOK, PlacesOK
    <2>4. cur # None => ~cur.final
        BY <1>2 DEF Inv, SlotsOK, ChunkOK
    <2> QED
        BY <1>2, <2>2, <2>3, <2>4
<1>7. ASSUME NEW i \in Items PROVE refs'[i] = Buffered(i)' + In(i, cur) + In(i, c)
    <2>1. refs[i] = Buffered(i) + In(i, cur) + In(i, next) + In(i, Held)
        BY DEF Inv, RefsOK
    <2>2. In(i, next) = 0 /\ In(i, Held) = 0 /\ Buffered(i) \in Int /\ In(i, cur) \in Int
        BY <1>3 DEF In, Buffered
    <2>3. Buffered(i)' \in Int /\ In(i, c) \in Int
        BY DEF In, Buffered
    <2>4. refs'[i] = refs[i] - Buffered(i) + Buffered(i)' + In(i, c)
        BY <1>2
    <2> HIDE DEF c
    <2> DEFINE r == refs[i]  rr == refs'[i]  b == Buffered(i)  bb == Buffered(i)'  n == In(i, c)  m == In(i, cur)
    <2>5. r = b + m /\ rr = r - b + bb + n /\ b \in Int /\ bb \in Int /\ n \in Int /\ m \in Int
        BY <2>1, <2>2, <2>3, <2>4
    <2> HIDE DEF r, rr, b, bb, n, m
    <2>6. rr = bb + m + n
        BY <2>5
    <2> QED
        BY <2>6 DEF rr, bb, n, m
<1> QED
    BY <1>1, <1>2, <1>4, <1>5, <1>6, <1>7

\* Either way a chunk that its taker can run, with the references it should have.
LEMMA EdgeIs ==
    ASSUME Inv, AtTop, NEW change \in BOOLEAN, PopEdge(Offered, Behind, change),
           UNCHANGED <<stream, arrVars>>, NEW c, c = Offered
    PROVE  /\ Behind = <<>> /\ c \in Chunks /\ c # None
           /\ BufferOK' /\ ChunkOK(c)' /\ EdgeGoesOn(c)
           /\ (closed => closed') /\ (cur # None => walk' = walk)
           /\ DOMAIN refs' = Items
           /\ \A i \in Items : refs'[i] = Buffered(i)' + In(i, cur) + In(i, c)
<1>1. CASE waiting # <<>>
    <2>1. UNCHANGED <<bufVars, refs, walk>>
        BY <1>1 DEF PopEdge
    <2>2. Offered = Head(waiting) /\ Behind = Tail(waiting)
        BY <1>1 DEF Offered, Behind
    <2>3. c = Held
        BY <1>1, <2>1, <2>2, EdgeHeld
    <2>4. /\ Behind = <<>> /\ c \in Chunks /\ c # None /\ BufferOK' /\ ChunkOK(c) /\ EdgeGoesOn(c)
          /\ DOMAIN refs' = Items
          /\ \A i \in Items : refs'[i] = Buffered(i)' + In(i, cur) + In(i, c)
        BY <1>1, <2>1, <2>2, <2>3, EdgeHeld
    <2>5. ChunkOK(c)'
        <3>1. Entered' = Entered /\ Entered \in Nat /\ Entered <= Entered /\ (closed => closed')
            BY <2>1, Unmoved, EnteredIs, StreamIs DEF Inv, Arrived, bufVars
        <3> QED
            BY <2>1, <2>4, <3>1, ChunkStays DEF Inv
    <2> QED
        BY <2>1, <2>4, <2>5 DEF bufVars
<1>2. CASE waiting = <<>>
    <2>1. /\ HasChunkReady /\ MayEnter(change) /\ PopChunk
          /\ walk' = IF PeekWalk = None THEN walk ELSE PeekWalk
        BY <1>2 DEF PopEdge
    <2>2. Offered = NextChunk /\ Behind = <<>>
        BY <1>2 DEF Offered, Behind
    <2>3. /\ c \in Chunks /\ ~closed /\ BufferOK' /\ EdgeGoesOn(c)
          /\ c.context <= c.n /\ c.first + c.n <= Entered
          /\ Tagged => \A i \in ItemsOf(c) : stream.walks[i] = walk'
          /\ c.final => closed' /\ NewTo(c) = Total
          /\ (cur # None => walk' = walk)
          /\ DOMAIN refs' = Items
          /\ \A i \in Items : refs'[i] = Buffered(i)' + In(i, cur) + In(i, c)
        BY <1>2, <2>1, <2>2, EdgeCut
    <2>4. c # None
        BY <2>3, NoChunk DEF Inv, Arrived
    <2>5. ChunkOK(c)'
        BY <2>3, Unmoved DEF ChunkOK
    <2> QED
        BY <2>2, <2>3, <2>4, <2>5
<1> QED
    BY <1>1, <1>2

\* What ran stays in order.
LEMMA EatenStays ==
    ASSUME EatenOK, stream' = stream, eaten' = eaten, closed => closed'
    PROVE  EatenOK' /\ EatenTo' = EatenTo
<1>1. Chunks' = Chunks /\ Lead' = Lead /\ Total' = Total
    BY DEF Chunks, Lead, Policy, Total
<1> QED
    BY <1>1 DEF EatenOK, EatenTo, Lead, Policy

-----------------------------------------------------------------------------
(* The poll. *)

\* The poll gives the node a chunk.
LEMMA PollTakesKeeps == Inv /\ PollTakes => Inv'
<1>1. SUFFICES ASSUME Inv, PollTakes PROVE Inv'
    OBVIOUS
<1>2. PICK c : c = Offered
    OBVIOUS
<1>3. /\ AtTop /\ open /\ cur = None /\ PopEdge(Offered, Behind, TRUE) /\ waiting' = Behind
      /\ cur' = c /\ ingested' = c /\ UNCHANGED <<stream, arrVars>>
      /\ next' = next /\ stopped' = stopped /\ step' = step /\ spec' = spec /\ eaten' = eaten
    BY <1>1, <1>2 DEF PollTakes
<1>4. /\ Behind = <<>> /\ c \in Chunks /\ c # None
      /\ BufferOK' /\ ChunkOK(c)' /\ EdgeGoesOn(c)
      /\ (closed => closed')
      /\ DOMAIN refs' = Items
      /\ \A i \in Items : refs'[i] = Buffered(i)' + In(i, cur) + In(i, c)
    BY <1>1, <1>2, <1>3, EdgeIs
<1>5. /\ spec = None /\ next = None /\ step = None /\ ~stopped
    BY <1>1, <1>3 DEF Inv, SlotsOK, AtTop
<1>6. /\ waiting' = <<>> /\ cur' = c /\ next' = None /\ Held' = None
    BY <1>3, <1>4, <1>5 DEF Held
<1>7. SlotsOK'
    <2>1. \A d \in {cur', next', Held'} : d # None => ChunkOK(d)'
        BY <1>4, <1>6
    <2> QED
        BY <1>3, <1>4, <1>5, <1>6, <2>1 DEF SlotsOK
<1>8. FlowOK'
    <2>1. EatenOK' /\ EatenTo' = EatenTo
        BY <1>1, <1>3, <1>4, EatenStays DEF Inv, FlowOK
    <2>2. PlacesOK'
        BY <1>3, <1>4, <1>5, <1>6, <2>1 DEF PlacesOK, Past, EdgeGoesOn
    <2> QED
        BY <2>1, <2>2 DEF FlowOK
<1>9. RefsOK'
    <2>1. Items' = Items
        BY <1>3, Unmoved
    <2>2. ASSUME NEW i \in Items PROVE refs'[i] = Buffered(i)' + In(i, cur') + In(i, next') + In(i, Held')
        <3>1. In(i, cur) = 0 /\ In(i, next') = 0 /\ In(i, Held') = 0
            BY <1>3, <1>6 DEF In
        <3>2. In(i, cur') = In(i, c) /\ In(i, c) \in Int /\ Buffered(i)' \in Int
            BY <1>6 DEF In, Buffered
        <3> QED
            BY <1>4, <3>1, <3>2
    <2> QED
        BY <1>4, <2>1, <2>2 DEF RefsOK, In, ItemsOf
<1> QED
    BY <1>1, <1>3, <1>4, <1>7, <1>8, <1>9, Unmoved DEF Inv

\* A refused chunk waits, and nothing else changes.
LEMMA ReturnedKeeps ==
    ASSUME Inv, AtTop, NEW change \in BOOLEAN, PopEdge(Offered, Behind, change), ReturnEdge(Offered, Behind),
           UNCHANGED <<stream, arrVars, ingested, nodeVars, step, spec, eaten>>
    PROVE  Inv'
<1>2. PICK c : c = Offered
    OBVIOUS
<1>4. /\ Behind = <<>> /\ c \in Chunks /\ c # None
      /\ BufferOK' /\ ChunkOK(c)' /\ EdgeGoesOn(c)
      /\ (closed => closed') /\ (cur # None => walk' = walk)
      /\ DOMAIN refs' = Items
      /\ \A i \in Items : refs'[i] = Buffered(i)' + In(i, cur) + In(i, c)
    BY <1>2, EdgeIs
<1>5. /\ spec = None /\ next = None
    BY DEF Inv, SlotsOK, AtTop
<1>6. waiting' = <<c>> /\ Held' = c /\ cur' = cur /\ next' = None
    <2>1. waiting' = Append(<<>>, c)
        BY <1>2, <1>4 DEF ReturnEdge
    <2>2. waiting' = <<c>>
        BY <2>1
    <2> QED
        BY <1>5, <2>2 DEF Held, nodeVars
<1>7. SlotsOK'
    <2>1. cur # None => ChunkOK(cur)'
        <3>1. SUFFICES ASSUME cur # None PROVE ChunkOK(cur)'
            OBVIOUS
        <3>2. PICK d : d = cur
            OBVIOUS
        <3>3. ChunkOK(d)
            BY <3>1, <3>2 DEF Inv, SlotsOK
        <3>4. Entered' = Entered /\ Entered \in Nat /\ Entered <= Entered
            BY Unmoved, EnteredIs, StreamIs DEF Inv, Arrived
        <3>5. ChunkOK(d)'
            BY <1>4, <3>1, <3>3, <3>4, ChunkStays DEF Inv
        <3> QED
            BY <1>6, <3>2, <3>5 DEF ChunkOK, ItemsOf, NewTo
    <2>2. \A d \in {cur', next', Held'} : d # None => ChunkOK(d)'
        <3>1. PICK d : d = cur
            OBVIOUS
        <3>2. d # None => ChunkOK(d)'
            BY <1>6, <2>1, <3>1 DEF ChunkOK, ItemsOf, NewTo
        <3> QED
            BY <1>4, <1>6, <3>1, <3>2
    <2>3. Chunks' = Chunks
        BY Unmoved
    <2> QED
        BY <1>4, <1>5, <1>6, <2>2, <2>3 DEF SlotsOK, nodeVars, Inv
<1>8. FlowOK'
    <2>1. EatenOK' /\ EatenTo' = EatenTo
        BY <1>4, EatenStays DEF Inv, FlowOK
    <2>2. PlacesOK'
        <3>1. stopped' = stopped
            BY DEF nodeVars
        <3>2. PlacesOK
            BY DEF Inv, FlowOK
        <3> QED
            BY <1>4, <1>5, <1>6, <2>1, <3>1, <3>2 DEF PlacesOK, Past, EdgeGoesOn, nodeVars
    <2> QED
        BY <2>1, <2>2 DEF FlowOK
<1>9. RefsOK'
    <2>1. Items' = Items
        BY Unmoved
    <2>2. ASSUME NEW i \in Items PROVE refs'[i] = Buffered(i)' + In(i, cur') + In(i, next') + In(i, Held')
        <3>1. In(i, cur') = In(i, cur) /\ In(i, next') = 0 /\ In(i, Held') = In(i, c)
            BY <1>6 DEF In
        <3>2. In(i, cur) \in Int /\ In(i, c) \in Int /\ Buffered(i)' \in Int
            BY DEF In, Buffered
        <3> QED
            BY <1>4, <3>1, <3>2
    <2> QED
        BY <1>4, <2>1, <2>2 DEF RefsOK, In, ItemsOf
<1> QED
    BY <1>4, <1>7, <1>8, <1>9, Unmoved DEF Inv

\* Nothing of what the invariant is about changes.
LEMMA NothingKeeps ==
    ASSUME Inv, UNCHANGED <<stream, bufVars, arrVars, waiting, ingested, refs, cur, next, open, stopped, walk, spec, eaten>>,
           step' = step \/ (AtTop /\ cur # None /\ step' = [chunk |-> cur, info |-> ingested, st |-> "submitted"])
                        \/ (step # None /\ step.st = "submitted"
                            /\ step' \in {None, [chunk |-> step.chunk, info |-> step.info, st |-> "running"]}),
           ready' => cur # None
    PROVE  Inv'
<1>1. Entered' = Entered /\ Entered \in Nat /\ Entered <= Entered
    BY Unmoved, EnteredIs, StreamIs DEF Inv, Arrived
<1>2. Arrived' /\ BufferOK'
    BY Unmoved DEF Inv, BufferOK, bufVars
<1>3. SlotsOK'
    <2>1. Held' = Held /\ Chunks' = Chunks /\ (closed => closed')
        BY Unmoved DEF Held, bufVars
    <2>2. \A c \in {cur, next, Held} : c # None => ChunkOK(c)'
        BY <1>1, <2>1, ChunkStays DEF Inv, SlotsOK
    <2>3. \A c \in {cur', next', Held'} : c # None => ChunkOK(c)'
        BY <2>1, <2>2
    <2>4. SlotsOK
        BY DEF Inv
    <2>5. /\ step' # None => cur # None /\ step' \in [chunk : {cur}, info : {cur}, st : {"submitted", "running"}]
          /\ spec # None => step' # None /\ step'.st = "running"
        BY <2>4 DEF SlotsOK, AtTop
    <2> QED
        BY <2>1, <2>3, <2>4, <2>5 DEF SlotsOK
<1>4. FlowOK'
    BY FlowStays DEF Inv, bufVars
<1>5. RefsOK'
    <2>1. Items' = Items /\ Held' = Held
        BY Unmoved DEF Held
    <2>2. \A i : Buffered(i)' = Buffered(i)
        BY Unmoved DEF Buffered, bufVars
    <2>3. \A i : In(i, cur)' = In(i, cur) /\ In(i, next)' = In(i, next) /\ In(i, Held)' = In(i, Held)
        BY <2>1 DEF In, ItemsOf
    <2> QED
        BY <2>1, <2>2, <2>3 DEF Inv, RefsOK
<1> QED
    BY <1>2, <1>3, <1>4, <1>5 DEF Inv

\* Nothing is found, or a step is built, admitted or refused.
LEMMA QuietKeeps ==
    Inv /\ (PollNothing \/ SpeculateNothing \/ Schedule \/ Admit \/ AdmitRefused \/ UNCHANGED vars) => Inv'
<1>1. ASSUME Inv, PollNothing \/ SpeculateNothing PROVE Inv'
    <2>1. /\ UNCHANGED <<stream, bufVars, arrVars, waiting, ingested, refs, cur, next, open, stopped, walk, spec, eaten>>
          /\ step' = step /\ ready' = ready
        BY <1>1 DEF PollNothing, SpeculateNothing, PopNothing, nodeVars
    <2>2. ready => cur # None
        BY <1>1 DEF Inv, SlotsOK
    <2> QED
        BY <1>1, <2>1, <2>2, NothingKeeps
<1>2. ASSUME Inv, Schedule PROVE Inv'
    <2>1. ready /\ cur # None
        BY <1>2 DEF Schedule, Inv, SlotsOK
    <2> QED
        BY <1>2, <2>1, NothingKeeps DEF Schedule
<1>3. ASSUME Inv, Admit PROVE Inv'
    <2>1. step' = [chunk |-> step.chunk, info |-> step.info, st |-> "running"]
        <3>1. step \in [chunk : {cur}, info : {cur}, st : {"submitted", "running"}]
            BY <1>3 DEF Inv, SlotsOK, Admit
        <3>2. step' = [step EXCEPT !.st = "running"]
            BY <1>3 DEF Admit
        <3> QED
            BY <3>1, <3>2
    <2> QED
        BY <1>3, <2>1, NothingKeeps DEF Admit, nodeVars, Inv, SlotsOK
<1>4. ASSUME Inv, AdmitRefused PROVE Inv'
    <2>1. cur # None
        BY <1>4 DEF Inv, SlotsOK, AdmitRefused
    <2> QED
        BY <1>4, <2>1, NothingKeeps DEF AdmitRefused
<1>5. ASSUME Inv, UNCHANGED vars PROVE Inv'
    BY <1>5, NothingKeeps DEF vars, nodeVars, Inv, SlotsOK
<1> QED
    BY <1>1, <1>2, <1>3, <1>4, <1>5

\* The node does not take the chunk.
LEMMA PollRefusedKeeps == Inv /\ (PollRefused \/ SpeculateRefused) => Inv'
BY ReturnedKeeps DEF PollRefused, SpeculateRefused

-----------------------------------------------------------------------------
(* Speculation. *)

\* A step is speculated: its chunk goes into the next slot.
LEMMA SpeculateKeeps == Inv /\ Speculate => Inv'
<1>1. SUFFICES ASSUME Inv, Speculate PROVE Inv'
    OBVIOUS
<1>2. PICK c : c = Offered
    OBVIOUS
<1>3. /\ AtTop /\ Running /\ PopEdge(Offered, Behind, FALSE) /\ waiting' = Behind
      /\ next' = c /\ ingested' = c /\ spec' = [chunk |-> c, info |-> c] /\ UNCHANGED <<stream, arrVars>>
      /\ cur' = cur /\ stopped' = stopped /\ step' = step /\ eaten' = eaten /\ ready' = ready /\ open' = open
    BY <1>1, <1>2 DEF Speculate
<1>4. /\ Behind = <<>> /\ c \in Chunks /\ c # None
      /\ BufferOK' /\ ChunkOK(c)' /\ EdgeGoesOn(c)
      /\ (closed => closed') /\ (cur # None => walk' = walk)
      /\ DOMAIN refs' = Items
      /\ \A i \in Items : refs'[i] = Buffered(i)' + In(i, cur) + In(i, c)
    BY <1>1, <1>2, <1>3, EdgeIs
<1>5. step # None /\ step.st = "running" /\ cur # None /\ ~stopped
    BY <1>1, <1>3 DEF Inv, SlotsOK, Running
<1>6. waiting' = <<>> /\ Held' = None
    BY <1>3, <1>4 DEF Held
<1>7. SlotsOK'
    <2>1. PICK d : d = cur
        OBVIOUS
    <2>2. ChunkOK(d)'
        <3>1. ChunkOK(d)
            BY <1>1, <1>5, <2>1 DEF Inv, SlotsOK
        <3>2. Entered' = Entered /\ Entered \in Nat /\ Entered <= Entered
            BY <1>1, <1>3, Unmoved, EnteredIs, StreamIs DEF Inv, Arrived
        <3> QED
            BY <1>1, <1>3, <1>4, <1>5, <3>1, <3>2, ChunkStays DEF Inv
    <2>3. \A e \in {cur', next', Held'} : e # None => ChunkOK(e)'
        BY <1>3, <1>4, <1>6, <2>1, <2>2
    <2>4. spec' # None
        BY <1>1, <1>3, <1>4, NoChunk DEF Inv, Arrived
    <2>5. step \in [chunk : {cur}, info : {cur}, st : {"submitted", "running"}]
        BY <1>1, <1>5 DEF Inv, SlotsOK
    <2> QED
        BY <1>3, <1>4, <1>5, <1>6, <2>3, <2>4, <2>5 DEF SlotsOK
<1>8. FlowOK'
    <2>1. EatenOK' /\ EatenTo' = EatenTo
        BY <1>1, <1>3, <1>4, EatenStays DEF Inv, FlowOK
    <2>2. PlacesOK'
        <3>1. PlacesOK
            BY <1>1 DEF Inv, FlowOK
        <3> QED
            BY <1>3, <1>4, <1>5, <1>6, <2>1, <3>1 DEF PlacesOK, Past, EdgeGoesOn
    <2> QED
        BY <2>1, <2>2 DEF FlowOK
<1>9. RefsOK'
    <2>1. Items' = Items
        BY <1>3, Unmoved
    <2>2. ASSUME NEW i \in Items PROVE refs'[i] = Buffered(i)' + In(i, cur') + In(i, next') + In(i, Held')
        <3>1. In(i, cur') = In(i, cur) /\ In(i, next') = In(i, c) /\ In(i, Held') = 0
            BY <1>3, <1>6 DEF In
        <3>2. In(i, cur) \in Int /\ In(i, c) \in Int /\ Buffered(i)' \in Int
            BY DEF In, Buffered
        <3> QED
            BY <1>4, <3>1, <3>2
    <2> QED
        BY <1>4, <2>1, <2>2 DEF RefsOK, In, ItemsOf
<1> QED
    BY <1>1, <1>3, <1>4, <1>7, <1>8, <1>9, Unmoved DEF Inv

-----------------------------------------------------------------------------
(* A step ends. *)

\* A step's chunk joins those that ran, where they end; an empty one that is dropped makes no
\* difference.
LEMMA RanIs ==
    ASSUME Inv, step # None, eaten' = Ran, UNCHANGED <<stream, bufVars, arrVars>>
    PROVE  /\ cur # None /\ ~stopped /\ step.chunk = cur
           /\ EatenOK' /\ EatenTo' = NewTo(cur)
           /\ eaten' # <<>> /\ eaten'[Len(eaten')].final => next = None /\ Held = None
<1>1. cur # None /\ step.chunk = cur /\ ~stopped /\ cur \in Chunks /\ cur.context <= cur.n
    BY DEF Inv, SlotsOK, ChunkOK
<1>2. /\ cur.first \in Nat /\ cur.n \in Nat /\ cur.context \in Nat
      /\ NewFrom(cur) = cur.first + cur.context /\ NewTo(cur) = cur.first + cur.n
    BY <1>1, ChunkIs
<1>3. NewFrom(cur) = EatenTo /\ EatenOK /\ (cur.final => next = None /\ Held = None)
    BY <1>1 DEF Inv, FlowOK, PlacesOK
<1>4. eaten # <<>> => ~eaten[Len(eaten)].final
    BY <1>1 DEF Inv, FlowOK, PlacesOK
<1>5. cur.final => closed /\ NewTo(cur) = Total
    BY <1>1 DEF Inv, SlotsOK, ChunkOK
<1>6. closed' = closed
    BY DEF bufVars
<1>7. CASE cur.n = 0 /\ ~cur.final
    <2>1. eaten' = eaten
        BY <1>1, <1>7 DEF Ran
    <2>2. EatenOK' /\ EatenTo' = EatenTo
        BY <1>3, <1>6, <2>1, EatenStays
    <2> QED
        BY <1>1, <1>2, <1>3, <1>4, <1>7, <2>1, <2>2
<1>8. CASE ~(cur.n = 0 /\ ~cur.final)
    <2> DEFINE m == Len(eaten)
    <2>1. eaten \in Seq(Chunks) /\ m \in Nat
        BY <1>3 DEF EatenOK
    <2>2. eaten' = Append(eaten, cur)
        BY <1>1, <1>8 DEF Ran
    <2>3. /\ eaten' \in Seq(Chunks) /\ Len(eaten') = m + 1 /\ eaten'[m + 1] = cur
          /\ \A i \in 1..m : eaten'[i] = eaten[i]
        BY <1>1, <2>1, <2>2, AppendProperties
    <2>4. eaten' # <<>>
        BY <2>1, <2>3
    <2>5. EatenTo' = NewTo(cur)
        BY <2>1, <2>3, <2>4 DEF EatenTo, NewTo
    <2>6. eaten = <<>> <=> m = 0
        BY <2>1
    <2>7. NewFrom(eaten'[1]) = Lead
        <3>1. CASE m = 0
            BY <1>3, <2>3, <2>6, <3>1 DEF EatenTo
        <3>2. CASE m # 0
            <4>1. eaten'[1] = eaten[1]
                BY <2>1, <2>3, <3>2
            <4> QED
                BY <1>3, <2>6, <3>2, <4>1 DEF EatenOK
        <3> QED
            BY <3>1, <3>2
    <2>8. ASSUME NEW i \in 1..m PROVE NewFrom(eaten'[i + 1]) = NewTo(eaten'[i])
        <3>1. CASE i = m
            BY <1>3, <2>1, <2>3, <2>6, <3>1 DEF EatenTo
        <3>2. CASE i # m
            <4>1. i \in 1..(m - 1) /\ i + 1 \in 1..m
                BY <2>1, <3>2
            <4>2. eaten'[i + 1] = eaten[i + 1] /\ eaten'[i] = eaten[i]
                BY <2>3, <4>1
            <4> QED
                BY <1>3, <4>1, <4>2 DEF EatenOK
        <3> QED
            BY <3>1, <3>2
    <2>9. ASSUME NEW i \in 1..(m + 1), eaten'[i].final
          PROVE  i = m + 1 /\ closed' /\ NewTo(eaten'[i]) = Total
        <3>1. i = m + 1
            <4>1. SUFFICES ASSUME i \in 1..m PROVE FALSE
                BY <2>1
            <4>2. eaten[i].final
                BY <2>3, <2>9, <4>1
            <4>3. i = m /\ m # 0
                BY <1>3, <2>1, <4>1, <4>2 DEF EatenOK
            <4> QED
                BY <1>4, <2>6, <4>2, <4>3
        <3> QED
            BY <1>5, <1>6, <2>3, <2>9, <3>1
    <2>10. EatenOK'
        <3>1. Chunks' = Chunks /\ Lead' = Lead /\ Total' = Total
            BY DEF Chunks, Lead, Policy, Total
        <3>2. \A i \in 1..(Len(eaten') - 1) : NewFrom(eaten'[i + 1]) = NewTo(eaten'[i])
            BY <2>1, <2>3, <2>8
        <3>3. \A i \in 1..Len(eaten') : eaten'[i].final => i = Len(eaten') /\ closed' /\ NewTo(eaten'[i]) = Total
            BY <2>3, <2>9
        <3>4. NewFrom(eaten'[1]) = Lead /\ eaten' \in Seq(Chunks)
            BY <2>3, <2>7
        <3> HIDE DEF m
        <3> QED
            BY <3>1, <3>2, <3>3, <3>4 DEF EatenOK, NewFrom, NewTo
    <2> QED
        BY <1>1, <1>3, <2>3, <2>5, <2>10
<1> QED
    BY <1>7, <1>8

\* What a step's end releases, and what it leaves.
LEMMA EndIs ==
    ASSUME Inv, UNCHANGED <<stream, bufVars, arrVars, walk>>
    PROVE  /\ Arrived' /\ BufferOK' /\ \A c \in {next, Held} : c # None => ChunkOK(c)'
           /\ DOMAIN Released(<<cur>>) = Items /\ DOMAIN Released(<<cur, next>>) = Items
           /\ \A i \in Items : Released(<<cur>>)[i] = Buffered(i)' + In(i, next) + In(i, Held)
           /\ \A i \in Items : Released(<<cur, next>>)[i] = Buffered(i)' + In(i, Held)
<1>1. Entered' = Entered /\ Entered \in Nat /\ Entered <= Entered
    BY Unmoved, EnteredIs, StreamIs DEF Inv, Arrived
<1>2. Arrived' /\ BufferOK'
    BY Unmoved DEF Inv, BufferOK, bufVars
<1>3. \A c \in {next, Held} : c # None => ChunkOK(c)'
    BY <1>1, ChunkStays DEF Inv, SlotsOK, bufVars
<1>4. ASSUME NEW i \in Items
      PROVE  /\ Released(<<cur>>)[i] = Buffered(i)' + In(i, next) + In(i, Held)
             /\ Released(<<cur, next>>)[i] = Buffered(i)' + In(i, Held)
    <2>1. Released(<<cur>>)[i] = refs[i] - In(i, cur) /\ Released(<<cur, next>>)[i] = refs[i] - (In(i, cur) + In(i, next))
        <3>1. /\ Released(<<cur>>)[i] = refs[i]
                   - Cardinality({s \in DOMAIN <<cur>> : <<cur>>[s] # None /\ i \in ItemsOf(<<cur>>[s])})
              /\ Released(<<cur, next>>)[i] = refs[i]
                   - Cardinality({s \in DOMAIN <<cur, next>> : <<cur, next>>[s] # None /\ i \in ItemsOf(<<cur, next>>[s])})
            BY DEF Released
        <3> QED
            BY <3>1, CountSlots
    <2>2. refs[i] = Buffered(i) + In(i, cur) + In(i, next) + In(i, Held)
        BY DEF Inv, RefsOK
    <2>3. Buffered(i)' = Buffered(i)
        BY Unmoved DEF Buffered, bufVars
    <2>4. Buffered(i) \in Int /\ In(i, cur) \in Int /\ In(i, next) \in Int /\ In(i, Held) \in Int
        BY DEF Buffered, In
    <2> QED
        BY <2>1, <2>2, <2>3, <2>4
<1> QED
    BY <1>2, <1>3, <1>4 DEF Released

\* However a step ends, what is left in the current slot and what waits are the chunks it
\* leaves over, in their order.
LEMMA EndKeeps ==
    ASSUME Inv, step # None, eaten' = Ran, UNCHANGED <<stream, bufVars, arrVars, walk>>,
           NEW c \in {None, next}, NEW h \in {None, next, Held},
           cur' = c, next' = None, spec' = None, h = None => waiting' = <<>>, h # None => waiting' = <<h>>,
           step' = None \/ (c # None /\ step' \in [chunk : {c}, info : {c}, st : {"submitted", "running"}]),
           ready' = FALSE, c # None => ingested' = c, stopped' => c = None /\ ~open',
           DOMAIN refs' = Items, \A i \in Items : refs'[i] = Buffered(i)' + In(i, c) + In(i, h),
           ~stopped' => (c = next /\ h = Held) \/ (c = None /\ Held = None /\ h = next)
    PROVE  Inv'
<1>1. Arrived' /\ BufferOK' /\ \A e \in {next, Held} : e # None => ChunkOK(e)'
    BY EndIs
<1>2. Held' = h
    <2>1. CASE h = None
        BY <2>1 DEF Held
    <2>2. CASE h # None
        BY <2>2 DEF Held
    <2> QED
        BY <2>1, <2>2
<1>3. Items' = Items /\ Chunks' = Chunks
    BY Unmoved
<1>4. SlotsOK'
    <2>1. \A e \in {cur', next', Held'} : e # None => ChunkOK(e)'
        BY <1>1, <1>2
    <2>2. waiting' = <<>> \/ \E d \in Chunks : waiting' = <<d>>
        <3>1. h # None => h \in Chunks
            BY DEF Inv, SlotsOK, ChunkOK
        <3> QED
            BY <3>1
    <2> QED
        BY <1>3, <2>1, <2>2 DEF SlotsOK
<1>5. FlowOK'
    <2>1. /\ cur # None /\ ~stopped /\ EatenOK' /\ EatenTo' = NewTo(cur)
          /\ eaten' # <<>> /\ eaten'[Len(eaten')].final => next = None /\ Held = None
        BY RanIs
    <2>2. PlacesOK
        BY DEF Inv, FlowOK
    <2>3. end' = end
        BY DEF bufVars
    <2>4. next # None /\ next.final => Held = None
        <3>1. next # None => spec # None
            BY DEF Inv, SlotsOK
        <3>2. spec # None => waiting = <<>>
            BY DEF Inv, SlotsOK
        <3> QED
            BY <3>1, <3>2 DEF Held
    <2>5. PlacesOK'
        <3>1. SUFFICES ASSUME ~stopped'
                       PROVE  /\ cur' # None => NewFrom(cur') = EatenTo'
                              /\ Held' # None => NewFrom(Held') = Past(cur', EatenTo')
                              /\ end' = Past(Held', Past(cur', EatenTo'))
                              /\ eaten' # <<>> /\ eaten'[Len(eaten')].final => cur' = None /\ Held' = None
                              /\ cur' # None /\ cur'.final => Held' = None
            BY DEF PlacesOK, Past, NewFrom, NewTo
        <3>2. CASE c = next /\ h = Held
            BY <1>2, <2>1, <2>2, <2>3, <2>4, <3>2 DEF PlacesOK, Past
        <3>3. CASE c = None /\ Held = None /\ h = next
            BY <1>2, <2>1, <2>2, <2>3, <2>4, <3>3 DEF PlacesOK, Past
        <3> QED
            BY <3>1, <3>2, <3>3
    <2> QED
        BY <2>1, <2>5 DEF FlowOK
<1>6. RefsOK'
    <2>1. ASSUME NEW i \in Items PROVE refs'[i] = Buffered(i)' + In(i, cur') + In(i, next') + In(i, Held')
        <3>1. In(i, next') = 0
            BY DEF In
        <3>2. In(i, c) \in Int /\ In(i, h) \in Int /\ Buffered(i)' \in Int
            BY DEF In, Buffered
        <3> QED
            BY <1>2, <3>1, <3>2
    <2> QED
        BY <1>3, <2>1 DEF RefsOK, In, ItemsOf
<1> QED
    BY <1>1, <1>4, <1>5, <1>6 DEF Inv

\* The speculated step follows.
LEMMA StepChainsKeeps == Inv /\ StepChains => Inv'
<1>1. SUFFICES ASSUME Inv, StepChains PROVE Inv'
    OBVIOUS
<1>2. PICK c : c = next
    OBVIOUS
<1>3. /\ step # None /\ spec # None /\ step' = [chunk |-> spec.chunk, info |-> spec.info, st |-> "submitted"]
      /\ spec' = None /\ eaten' = Ran /\ refs' = Released(<<cur>>) /\ cur' = next /\ next' = None
      /\ ready' = FALSE /\ UNCHANGED <<stream, bufVars, arrVars, walk>>
      /\ waiting' = waiting /\ ingested' = ingested /\ stopped' = stopped
    BY <1>1 DEF StepChains, Running
<1>4. /\ next # None /\ spec = [chunk |-> next, info |-> next] /\ ingested = next /\ waiting = <<>> /\ ~stopped
    BY <1>1, <1>3 DEF Inv, SlotsOK
<1>5. Held = None /\ waiting' = <<>>
    BY <1>3, <1>4 DEF Held
<1>6. step' \in [chunk : {c}, info : {c}, st : {"submitted", "running"}]
    BY <1>2, <1>3, <1>4
<1>7. DOMAIN refs' = Items /\ \A i \in Items : refs'[i] = Buffered(i)' + In(i, c) + In(i, None)
    <2>1. \A i : In(i, Held) = In(i, None)
        BY <1>5
    <2> QED
        BY <1>1, <1>2, <1>3, <2>1, EndIs
<1> QED
    BY <1>1, <1>2, <1>3, <1>4, <1>5, <1>6, <1>7, EndKeeps

\* No step follows, and a chunk that was staged is given back.
LEMMA StepEndsKeeps == Inv /\ StepEnds => Inv'
<1>1. SUFFICES ASSUME Inv, StepEnds PROVE Inv'
    OBVIOUS
<1>2. PICK h : h = IF spec = None THEN Held ELSE next
    OBVIOUS
<1>3. /\ step # None /\ step' = None /\ spec' = None /\ eaten' = Ran /\ refs' = Released(<<cur>>)
      /\ cur' = None /\ next' = None /\ ready' = FALSE /\ UNCHANGED <<stream, bufVars, arrVars, walk>>
      /\ stopped' = stopped
    BY <1>1 DEF StepEnds, Running
<1>4. ~stopped
    BY <1>1, <1>3 DEF Inv, SlotsOK
<1>5. \A i : In(i, None) = 0 /\ In(i, next) \in Int /\ In(i, Held) \in Int /\ Buffered(i)' \in Int
    BY DEF In, Buffered
<1>6. /\ (h = None => waiting' = <<>>) /\ (h # None => waiting' = <<h>>)
      /\ (None = next /\ h = Held) \/ (Held = None /\ h = next)
    <2>1. CASE spec = None
        <3>1. waiting' = waiting /\ next = None /\ h = Held
            BY <1>1, <1>2, <2>1 DEF StepEnds, Inv, SlotsOK
        <3> QED
            BY <1>1, <3>1, WaitingIs DEF Inv, Arrived
    <2>2. CASE spec # None
        <3>1. waiting' = Append(waiting, spec.chunk) /\ waiting = <<>> /\ spec.chunk = next /\ next # None
            BY <1>1, <2>2 DEF StepEnds, ReturnEdge, Inv, SlotsOK
        <3>2. waiting' = <<next>> /\ Held = None
            BY <3>1 DEF Held
        <3> QED
            BY <1>2, <2>2, <3>1, <3>2
    <2> QED
        BY <2>1, <2>2
<1>7. DOMAIN refs' = Items /\ \A i \in Items : refs'[i] = Buffered(i)' + In(i, None) + In(i, h)
    BY <1>1, <1>3, <1>5, <1>6, EndIs
<1>8. h \in {None, next, Held}
    BY <1>6
<1> QED
    BY <1>1, <1>3, <1>4, <1>6, <1>7, <1>8, EndKeeps

\* The loop is over.
LEMMA StepStopsKeeps == Inv /\ StepStops => Inv'
<1>1. SUFFICES ASSUME Inv, StepStops PROVE Inv'
    OBVIOUS
<1>2. /\ step # None /\ step' = None /\ spec' = None /\ eaten' = Ran /\ stopped' = TRUE
      /\ cur' = None /\ next' = None /\ ready' = FALSE /\ open' = FALSE
      /\ UNCHANGED <<stream, bufVars, arrVars, walk>>
    BY <1>1 DEF StepStops, Running
<1>3. \A i : In(i, None) = 0 /\ In(i, next) \in Int /\ In(i, Held) \in Int /\ Buffered(i)' \in Int
    BY DEF In, Buffered
<1>4. CASE refs' = Released(<<cur, next>>) /\ waiting' = waiting
    <2>1. PICK h : h = Held
        OBVIOUS
    <2>2. (h = None => waiting' = <<>>) /\ (h # None => waiting' = <<h>>)
        BY <1>1, <1>4, <2>1, WaitingIs DEF Inv, Arrived
    <2>3. DOMAIN refs' = Items /\ \A i \in Items : refs'[i] = Buffered(i)' + In(i, None) + In(i, h)
        BY <1>1, <1>2, <1>3, <1>4, <2>1, EndIs
    <2> QED
        BY <1>1, <1>2, <2>1, <2>2, <2>3, EndKeeps
<1>5. CASE spec # None /\ refs' = Released(<<cur>>) /\ ReturnEdge(spec.chunk, waiting)
    <2>1. PICK h : h = next
        OBVIOUS
    <2>2. waiting' = Append(waiting, spec.chunk) /\ waiting = <<>> /\ spec.chunk = h /\ h # None
        BY <1>1, <1>5, <2>1 DEF ReturnEdge, Inv, SlotsOK
    <2>3. waiting' = <<h>> /\ Held = None
        BY <2>2 DEF Held
    <2>4. DOMAIN refs' = Items /\ \A i \in Items : refs'[i] = Buffered(i)' + In(i, None) + In(i, h)
        BY <1>1, <1>2, <1>3, <1>5, <2>1, <2>3, EndIs
    <2> QED
        BY <1>1, <1>2, <2>1, <2>2, <2>3, <2>4, EndKeeps
<1> QED
    BY <1>1, <1>4, <1>5 DEF StepStops

-----------------------------------------------------------------------------
(* The theorems. *)

\* The invariant holds at first: a primed stream counts its lead as shown.
LEMMA InitInv == Init => Inv
<1>1. SUFFICES ASSUME Init PROVE Inv
    OBVIOUS
<1>2. /\ stream \in Streams /\ registered = 0 /\ put = {} /\ start = 0 /\ end = Lead /\ popped = 0 /\ closed = FALSE
      /\ waiting = <<>> /\ refs = [i \in Items |-> 0] /\ cur = None /\ next = None /\ ready = FALSE /\ stopped = FALSE
      /\ step = None /\ spec = None /\ eaten = <<>>
    BY <1>1 DEF Init
<1>3. /\ Total \in Nat /\ Items = 1..Total /\ stream.pieces \in [1..Total -> Positive] /\ Lead \in Nat
      /\ Tagged => \A i \in 1..Lead : stream.walks[i] = stream.walks[1]
    BY <1>2, StreamIs
<1>4. Arrived /\ Entered = 0
    <2>1. Arrived
        BY <1>2, <1>3 DEF Arrived
    <2>2. Entered \in 0..registered
        BY <2>1, EnteredIs
    <2> QED
        BY <1>2, <2>1, <2>2
<1>5. Lead <= Window[0]
    <2>1. CASE Policy.kind = "scheduled"
        <3>1. NewItems(0) \in Positive
            BY <1>2, <2>1, NewItemsIs
        <3>2. WindowSize(0) = Lead + NewItems(0)
            BY <2>1 DEF WindowSize, Context
        <3> QED
            BY <1>3, <3>1, <3>2 DEF Window, Positive
    <2>2. CASE Policy.kind # "scheduled"
        <3>1. Lead = 0
            BY <1>2, <2>2, PolicyIs DEF IsPolicy, Lead
        <3>2. Window[0] \in Positive
            BY <1>2, PolicyFacts
        <3> QED
            BY <3>1, <3>2 DEF Positive
    <2> QED
        BY <2>1, <2>2
<1>6. BufferOK
    <2>1. Lead - 0 <= Window[0] /\ 0 \in 0..0
        BY <1>3, <1>5
    <2>2. Tagged => \A j \in (0 + 1)..Lead : stream.walks[j] = stream.walks[0 + 1]
        BY <1>3
    <2>3. /\ start \in 0..Entered /\ end \in Nat /\ popped \in Nat /\ start <= end
          /\ start = 0 /\ end = Lead
          /\ end - start <= Window[popped]
        BY <1>2, <1>3, <1>4, <2>1
    <2>4. Tagged => \A j \in (start + 1)..end : stream.walks[j] = stream.walks[start + 1]
        BY <1>2, <2>2
    <2>5. closed = FALSE
        BY <1>2
    <2> QED
        BY <2>3, <2>4, <2>5 DEF BufferOK
<1>7. Held = None
    BY <1>2 DEF Held
<1>8. SlotsOK
    BY <1>2, <1>7 DEF SlotsOK
<1>9. FlowOK
    BY <1>2, <1>7 DEF FlowOK, EatenOK, PlacesOK, Past, EatenTo
<1>10. RefsOK
    <2>1. ASSUME NEW i \in Items PROVE Buffered(i) = 0
        <3>1. 1 \in 1..stream.pieces[i]
            BY <1>3 DEF Positive
        <3>2. ~Complete(i)
            BY <1>2, <3>1 DEF Complete
        <3> QED
            BY <1>2, <1>3, <1>4, <3>2 DEF Buffered
    <2>2. \A i : In(i, cur) = 0 /\ In(i, next) = 0 /\ In(i, Held) = 0
        BY <1>2, <1>7 DEF In
    <2> QED
        BY <1>2, <2>1, <2>2 DEF RefsOK
<1> QED
    BY <1>4, <1>6, <1>8, <1>9, <1>10 DEF Inv

\* The invariant holds in every behaviour.
LEMMA InvHolds == Spec => []Inv
<1>1. Inv /\ [Next]_vars => Inv'
    BY RegisterKeeps, PutKeeps, SignalDoneKeeps, PollTakesKeeps, PollRefusedKeeps, QuietKeeps,
       SpeculateKeeps, StepChainsKeeps, StepEndsKeeps, StepStopsKeeps DEF Next
<1> QED
    BY InitInv, <1>1, PTL DEF Spec

\* A pipeline of chunks, of which one follows the other.
Follows(s) ==
    /\ s # <<>> => NewFrom(s[1]) = Lead
    /\ \A i \in 1..(Len(s) - 1) : NewFrom(s[i + 1]) = NewTo(s[i])
    /\ \A i \in DOMAIN s : s[i].final => i = Len(s) /\ ~Continues /\ NewTo(s[i]) = Total

EndOf(s) == IF s = <<>> THEN Lead ELSE NewTo(s[Len(s)])

\* A chunk that begins where a pipeline ends makes it longer.
LEMMA FollowsStep ==
    ASSUME NEW s \in Seq(Chunks), Follows(s), NEW c \in Chunks, NewFrom(c) = EndOf(s),
           s # <<>> => ~s[Len(s)].final, c.final => ~Continues /\ NewTo(c) = Total
    PROVE  /\ Append(s, c) \in Seq(Chunks) /\ Follows(Append(s, c)) /\ EndOf(Append(s, c)) = NewTo(c)
           /\ Append(s, c)[Len(Append(s, c))] = c
<1> DEFINE t == Append(s, c)
           m == Len(s)
<1>1. /\ m \in Nat /\ t \in Seq(Chunks) /\ Len(t) = m + 1 /\ t[m + 1] = c /\ \A i \in 1..m : t[i] = s[i]
      /\ DOMAIN t = 1..(m + 1) /\ DOMAIN s = 1..m /\ (s = <<>> <=> m = 0)
    BY AppendProperties
<1> HIDE DEF t, m
<1>2. t # <<>>
    BY <1>1
<1>3. EndOf(t) = NewTo(c)
    BY <1>1, <1>2 DEF EndOf
<1>4. NewFrom(t[1]) = Lead
    <2>1. CASE m = 0
        BY <1>1, <2>1 DEF EndOf
    <2>2. CASE m # 0
        <3>1. t[1] = s[1]
            BY <1>1, <2>2
        <3> QED
            BY <1>1, <2>2, <3>1 DEF Follows
    <2> QED
        BY <2>1, <2>2
<1>5. ASSUME NEW i \in 1..m PROVE NewFrom(t[i + 1]) = NewTo(t[i])
    <2>1. CASE i = m
        BY <1>1, <2>1 DEF EndOf, m
    <2>2. CASE i # m
        <3>1. i \in 1..(m - 1) /\ i + 1 \in 1..m
            BY <1>1, <2>2
        <3>2. t[i + 1] = s[i + 1] /\ t[i] = s[i]
            BY <1>1, <3>1
        <3> QED
            BY <3>1, <3>2 DEF Follows, m
    <2> QED
        BY <2>1, <2>2
<1>6. ASSUME NEW i \in 1..(m + 1), t[i].final PROVE i = m + 1 /\ ~Continues /\ NewTo(t[i]) = Total
    <2>1. CASE i = m + 1
        BY <1>1, <1>6, <2>1
    <2>2. CASE i # m + 1
        <3>1. i \in DOMAIN s /\ s[i].final
            BY <1>1, <1>6, <2>2
        <3>2. i = m /\ m # 0
            BY <1>1, <3>1 DEF Follows, m
        <3> QED
            BY <1>1, <3>1, <3>2 DEF m
    <2> QED
        BY <2>1, <2>2
<1>7. Follows(t)
    BY <1>1, <1>4, <1>5, <1>6 DEF Follows
<1> QED
    BY <1>1, <1>3, <1>7 DEF t

\* One or two chunks more are appended one by one.
LEMMA Chained ==
    ASSUME NEW s \in Seq(Chunks), NEW a \in Chunks, NEW b \in Chunks
    PROVE  s \o <<a>> = Append(s, a) /\ s \o <<a, b>> = Append(Append(s, a), b)
<1>1. <<a>> \in Seq(Chunks) /\ <<b>> \in Seq(Chunks) /\ Append(s, a) \in Seq(Chunks)
    OBVIOUS
<1>2. <<a, b>> = <<a>> \o <<b>>
    <2>1. <<a>> \o <<b>> \o <<>> = <<a, b>>
        BY Tuples
    <2>2. <<a>> \o <<b>> \in Seq(Chunks)
        BY <1>1, ConcatProperties
    <2> QED
        BY <2>1, <2>2, ConcatEmptySeq
<1>3. s \o <<a>> = Append(s, a) /\ Append(s, a) \o <<b>> = Append(Append(s, a), b)
    BY <1>1, AppendIsConcat
<1>4. s \o (<<a>> \o <<b>>) = (s \o <<a>>) \o <<b>>
    BY <1>1, ConcatAssociative
<1> QED
    BY <1>2, <1>3, <1>4

\* The chunks that ran, and then those on their way.
LEMMA PipelineIs ==
    ASSUME Inv
    PROVE  Follows(Pipeline) /\ (~stopped => EndOf(Pipeline) = end) /\ (Pipeline = <<>> \/ Pipeline \in Seq(Chunks))
<1>1. /\ eaten \in Seq(Chunks) /\ EatenTo = EndOf(eaten) /\ (closed => ~Continues)
      /\ DOMAIN eaten = 1..Len(eaten)
    BY DEF Inv, FlowOK, EatenOK, EatenTo, EndOf, BufferOK
<1>2. Follows(eaten)
    BY <1>1 DEF Inv, FlowOK, EatenOK, Follows
<1>3. CASE stopped
    BY <1>1, <1>2, <1>3 DEF Pipeline
<1>4. CASE ~stopped
    <2>1. PlacesOK
        BY DEF Inv, FlowOK
    <2>2. \A c \in {cur, next, Held} : c # None => c \in Chunks /\ (c.final => ~Continues /\ NewTo(c) = Total)
        BY <1>1 DEF Inv, SlotsOK, ChunkOK
    <2>3. waiting = <<>> \/ \E c : c # None /\ waiting = <<c>>
        BY NoChunk DEF Inv, SlotsOK, Arrived
    <2>4. Pipeline = eaten \o Out
        BY <1>4 DEF Pipeline
    <2>5. next = None \/ Held = None
        BY DEF Inv, SlotsOK, Held
    <2>6. cur = None => next = None
        BY DEF Inv, SlotsOK
    <2> DEFINE z == IF next # None THEN next ELSE Held
    <2>8. CASE cur = None /\ z = None
        <3>1. Out = <<>>
            BY <2>3, <2>8, OutIs
        <3>2. Pipeline = eaten
            BY <1>1, <2>4, <3>1, ConcatEmptySeq
        <3> QED
            BY <1>1, <1>2, <1>4, <2>1, <2>8, <3>2 DEF PlacesOK, Past
    <2>9. CASE cur = None /\ z # None
        <3>1. next = None /\ z = Held /\ Out = <<Held>>
            BY <2>3, <2>6, <2>9, OutIs
        <3>2. Held \in Chunks /\ Pipeline = Append(eaten, Held)
            BY <1>1, <2>2, <2>4, <2>9, <3>1, Chained
        <3>3. NewFrom(Held) = EndOf(eaten) /\ end = NewTo(Held) /\ (eaten # <<>> => ~eaten[Len(eaten)].final)
            BY <1>1, <1>4, <2>1, <2>9, <3>1 DEF PlacesOK, Past
        <3> QED
            BY <1>1, <1>2, <2>2, <2>9, <3>1, <3>2, <3>3, FollowsStep
    <2>10. CASE cur # None /\ z = None
        <3>1. next = None /\ Held = None /\ Out = <<cur>>
            BY <2>3, <2>10, OutIs
        <3>2. cur \in Chunks /\ Pipeline = Append(eaten, cur)
            BY <1>1, <2>2, <2>4, <2>10, <3>1, Chained
        <3>3. NewFrom(cur) = EndOf(eaten) /\ end = NewTo(cur) /\ (eaten # <<>> => ~eaten[Len(eaten)].final)
            BY <1>1, <1>4, <2>1, <2>10, <3>1 DEF PlacesOK, Past
        <3> QED
            BY <1>1, <1>2, <2>2, <2>10, <3>2, <3>3, FollowsStep
    <2>11. CASE cur # None /\ z # None
        <3>1. Out = <<cur, z>> /\ z \in {next, Held}
            BY <2>3, <2>5, <2>11, OutIs
        <3>2. cur \in Chunks /\ z \in Chunks /\ Pipeline = Append(Append(eaten, cur), z)
            BY <1>1, <2>2, <2>4, <2>11, <3>1, Chained
        <3>3. NewFrom(cur) = EndOf(eaten) /\ ~cur.final /\ (eaten # <<>> => ~eaten[Len(eaten)].final)
            BY <1>1, <1>4, <2>1, <2>11 DEF PlacesOK
        <3>4. NewFrom(z) = NewTo(cur) /\ end = NewTo(z)
            BY <1>4, <2>1, <2>5, <2>11 DEF PlacesOK, Past
        <3> HIDE DEF z
        <3> DEFINE t == Append(eaten, cur)
        <3>5. t \in Seq(Chunks) /\ Follows(t) /\ EndOf(t) = NewTo(cur) /\ t[Len(t)] = cur
            BY <1>1, <1>2, <3>2, <3>3, FollowsStep
        <3> HIDE DEF t
        <3>6. Append(t, z) \in Seq(Chunks) /\ Follows(Append(t, z)) /\ EndOf(Append(t, z)) = NewTo(z)
            BY <2>2, <2>11, <3>1, <3>2, <3>3, <3>4, <3>5, FollowsStep
        <3> QED
            BY <3>2, <3>4, <3>6 DEF t
    <2> QED
        BY <2>8, <2>9, <2>10, <2>11
<1> QED
    BY <1>3, <1>4

\* Every item reaches the consumer once as new, in the producer's order, and the one final
\* chunk comes after every item.
THEOREM InOrderHolds == Spec => []InOrder
<1>1. Inv => InOrder
    <2>1. SUFFICES ASSUME Inv PROVE InOrder
        OBVIOUS
    <2>2. Follows(Pipeline) /\ (~stopped => EndOf(Pipeline) = end) /\ (Pipeline = <<>> \/ Pipeline \in Seq(Chunks))
        BY <2>1, PipelineIs
    <2>3. Pipeline # <<>> => Last(Pipeline) = Pipeline[Len(Pipeline)]
        BY DEF Last
    <2> QED
        BY <2>2, <2>3 DEF InOrder, Follows, EndOf
<1> QED
    BY <1>1, InvHolds, PTL

\* A step is told the place of the very chunk it takes, and runs in the walk of its items.
THEOREM StepIsOfChunkHolds == Spec => []StepIsOfChunk
<1>1. Inv => StepIsOfChunk
    BY DEF Inv, SlotsOK, ChunkOK, StepIsOfChunk
<1> QED
    BY <1>1, InvHolds, PTL

\* An item's tensor is referenced once by the buffer and once by each chunk that shows it.
THEOREM RefsExactHolds == Spec => []RefsExact
<1>1. Inv => RefsExact
    <2>1. SUFFICES ASSUME Inv, NEW i \in Items
                   PROVE  refs[i] = Buffered(i) + Cardinality({k \in DOMAIN Out : i \in ItemsOf(Out[k])})
        BY DEF RefsExact, Buffered
    <2>2. refs[i] = Buffered(i) + In(i, cur) + In(i, next) + In(i, Held)
        BY <2>1 DEF Inv, RefsOK
    <2>3. waiting = <<>> \/ \E c : c # None /\ waiting = <<c>>
        BY <2>1, NoChunk DEF Inv, SlotsOK, Arrived
    <2>4. Cardinality({k \in DOMAIN Out : i \in ItemsOf(Out[k])}) = In(i, cur) + In(i, next) + In(i, Held)
        BY <2>3, CountOut
    <2>5. Buffered(i) \in Int /\ In(i, cur) \in Int /\ In(i, next) \in Int /\ In(i, Held) \in Int
        BY DEF Buffered, In
    <2> QED
        BY <2>2, <2>4, <2>5
<1> QED
    BY <1>1, InvHolds, PTL

-----------------------------------------------------------------------------
(* The chunks that the policies document. *)

\* Where the next chunk starts, and what the policy has counted, once k chunks are cut.
Place(k) ==
    CASE Policy.kind = "fixed" -> k * Policy.chunk
      [] Policy.kind = "sliding" -> k * Policy.stride
      [] Policy.kind = "left" -> IF k = 0 THEN 0 ELSE k * Policy.chunk - Policy.context
      [] Policy.kind = "ramp" -> Sum([j \in 1..k |-> Ramp(j - 1)])
      [] Policy.kind = "scheduled" -> Delivered(k) - Context(k)
Counted(k) == IF Policy.kind \in {"fixed", "sliding"} THEN 0 ELSE k
Places == [k \in Nat |-> Place(k)]
Documents == [k \in Nat \ {0} |-> Documented(k)]

\* Of a consumer whose walks the producer does not assign, each chunk is at its place.
Ended == AllRead /\ start = Entered
One(c) == IF c = None THEN 0 ELSE 1
Coming == Len(eaten) + One(cur) + One(next) + One(Held)
AtPlace(c, k) == c.n > 0 => <<c.first, NewTo(c)>> = Documents[k]
RanOK == \A k \in 1..Len(eaten) : AtPlace(eaten[k], k)
ComeOK ==
    /\ cur # None => AtPlace(cur, Len(eaten) + 1)
    /\ next # None => AtPlace(next, Len(eaten) + One(cur) + 1)
    /\ Held # None => AtPlace(Held, Len(eaten) + One(cur) + One(next) + 1)
    /\ \A c \in {cur, next, Held} : c # None /\ c.n = 0 => Ended
    /\ cur # None /\ cur.n = 0 => /\ next # None => next.n = 0
                                  /\ Held # None => Held.n = 0
    /\ Ended \/ (start = Places[Coming] /\ popped = Counted(Coming))
PlacedOK == ~Tagged => RanOK /\ (~stopped => ComeOK)

\* A ramp's next chunk starts where the one before it ends.
LEMMA RampSum ==
    ASSUME stream \in Streams, Policy.kind = "ramp", NEW k \in Nat
    PROVE  /\ Sum([j \in 1..k |-> Ramp(j - 1)]) \in Int
           /\ Sum([j \in 1..(k + 1) |-> Ramp(j - 1)]) = Sum([j \in 1..k |-> Ramp(j - 1)]) + Ramp(k)
<1> DEFINE s == [j \in 1..(k + 1) |-> Ramp(j - 1)]
           p == [j \in 1..k |-> Ramp(j - 1)]
<1>1. \A j \in 1..(k + 1) : Ramp(j - 1) \in Int
    <2>1. \A j \in 1..(k + 1) : j - 1 \in Nat
        OBVIOUS
    <2> QED
        BY <2>1, RampIs DEF Positive
<1>2. s \in [1..(k + 1) -> Int] /\ p \in [1..k -> Int] /\ (\A i \in 1..k : p[i] = s[i]) /\ s[k + 1] = Ramp(k)
    BY <1>1
<1> HIDE DEF s, p
<1>3. Sum(p) \in Int /\ Sum(s) = Sum(p) + s[k + 1]
    BY <1>2, SumStep
<1> QED
    BY <1>2, <1>3 DEF s, p

\* The first chunk starts with the stream.
LEMMA PlaceStarts == stream \in Streams => Place(0) = 0
<1>1. SUFFICES ASSUME stream \in Streams PROVE Place(0) = 0
    OBVIOUS
<1>2. IsPolicy(Policy) /\ Lead \in Nat
    BY <1>1, PolicyIs DEF IsPolicy, Lead
<1>3. CASE Policy.kind = "fixed"
    BY <1>2, <1>3 DEF IsPolicy, Place, Positive
<1>4. CASE Policy.kind = "sliding"
    BY <1>2, <1>4 DEF IsPolicy, Place, Positive
<1>5. CASE Policy.kind = "left"
    BY <1>5 DEF Place
<1>6. CASE Policy.kind = "ramp"
    <2>1. Sum([j \in 1..0 |-> Ramp(j - 1)]) = 0
        BY SumEmpty
    <2> QED
        BY <1>6, <2>1 DEF Place
<1>7. CASE Policy.kind = "scheduled"
    <2>1. Delivered(0) = Lead /\ Context(0) = Lead
        BY <1>1, <1>7, DeliveredIs DEF Context
    <2> QED
        BY <1>2, <1>7, <2>1 DEF Place
<1> QED
    BY <1>2, <1>3, <1>4, <1>5, <1>6, <1>7 DEF IsPolicy

\* The next place is as far on as the policy says, for what it counts.
LEMMA PlaceStep ==
    ASSUME stream \in Streams, NEW k \in Nat
    PROVE  /\ Place(k) \in Int /\ Place(k + 1) = Place(k) + NextChunkSize(Counted(k))
           /\ After(Counted(k)) = Counted(k + 1)
<1>1. After(Counted(k)) = Counted(k + 1)
    BY DEF After, Counted
<1>2. IsPolicy(Policy) /\ Lead \in Nat
    BY PolicyIs DEF IsPolicy, Lead
<1>3. CASE Policy.kind = "fixed"
    <2>1. Policy.chunk \in Nat /\ k * Policy.chunk \in Nat /\ (k + 1) * Policy.chunk = k * Policy.chunk + Policy.chunk
        BY <1>2, <1>3 DEF IsPolicy, Positive
    <2> QED
        BY <1>1, <1>3, <2>1 DEF Place, NextChunkSize
<1>4. CASE Policy.kind = "sliding"
    <2>1. Policy.stride \in Nat /\ k * Policy.stride \in Nat /\ (k + 1) * Policy.stride = k * Policy.stride + Policy.stride
        BY <1>2, <1>4 DEF IsPolicy, Positive
    <2> QED
        BY <1>1, <1>4, <2>1 DEF Place, NextChunkSize
<1>5. CASE Policy.kind = "left"
    <2>1. /\ Policy.chunk \in Nat /\ k * Policy.chunk \in Nat /\ (k + 1) * Policy.chunk = k * Policy.chunk + Policy.chunk
          /\ Policy.context \in Nat /\ (k = 0 => k * Policy.chunk = 0)
        BY <1>2, <1>5 DEF IsPolicy, Positive
    <2> DEFINE a == k * Policy.chunk
               b == (k + 1) * Policy.chunk
    <2>2. /\ Place(k) = (IF k = 0 THEN 0 ELSE a - Policy.context) /\ Place(k + 1) = b - Policy.context
          /\ NextChunkSize(Counted(k)) = (IF k = 0 THEN Policy.chunk - Policy.context ELSE Policy.chunk)
        BY <1>5 DEF Place, NextChunkSize, Counted
    <2>3. a \in Nat /\ b = a + Policy.chunk /\ (k = 0 => a = 0) /\ Policy.chunk \in Nat /\ Policy.context \in Nat
        BY <2>1
    <2> HIDE DEF a, b
    <2>4. Place(k) \in Int /\ Place(k + 1) = Place(k) + NextChunkSize(Counted(k))
        BY <2>2, <2>3
    <2> QED
        BY <1>1, <2>4
<1>6. CASE Policy.kind = "ramp"
    BY <1>1, <1>6, RampSum DEF Place, NextChunkSize, Counted
<1>7. CASE Policy.kind = "scheduled"
    <2>1. /\ Delivered(k) \in Nat /\ Delivered(k + 1) \in Nat /\ Delivered(k + 1) = Delivered(k) + NewItems(k)
          /\ Policy.context \in Nat
        <3>1. k + 1 \in Nat
            OBVIOUS
        <3> QED
            BY <3>1, <1>2, <1>7, DeliveredStep, DeliveredIs DEF IsPolicy
    <2>2. Context(k) \in Int /\ Context(k + 1) = Least(Policy.context, Delivered(k + 1))
        BY <1>2, <2>1 DEF Context, Least
    <2>3. /\ Place(k) = Delivered(k) - Context(k) /\ Place(k + 1) = Delivered(k + 1) - Context(k + 1)
          /\ NextChunkSize(k) = (Delivered(k + 1) - Least(Policy.context, Delivered(k + 1)))
                                - (Delivered(k) - Context(k))
        BY <1>7, <2>1 DEF Place, NextChunkSize
    <2>4. Counted(k) = k
        BY <1>7 DEF Counted
    <2> HIDE DEF Context, Place
    <2> QED
        BY <1>1, <2>1, <2>2, <2>3, <2>4 DEF Least
<1> QED
    BY <1>2, <1>3, <1>4, <1>5, <1>6, <1>7 DEF IsPolicy

\* The window of a chunk as it is documented is that at its place, cut where the stream ends.
LEMMA DocumentedIs ==
    ASSUME stream \in Streams, NEW k \in Nat
    PROVE  Documented(k + 1) = <<Least(Place(k), Total), Least(Place(k) + WindowSize(Counted(k)), Total)>>
<1>1. IsPolicy(Policy) /\ Lead \in Nat /\ (k + 1) - 1 = k
    BY PolicyIs DEF IsPolicy, Lead
<1>3. CASE Policy.kind = "fixed"
    <2>1. Policy.chunk \in Nat /\ (k + 1) * Policy.chunk = k * Policy.chunk + Policy.chunk
        BY <1>1, <1>3 DEF IsPolicy, Positive
    <2> QED
        BY <1>1, <1>3, <2>1 DEF Place, WindowSize, Documented
<1>4. CASE Policy.kind = "sliding"
    BY <1>1, <1>4 DEF Place, WindowSize, Documented
<1>5. CASE Policy.kind = "left"
    <2>1. /\ Policy.chunk \in Nat /\ k * Policy.chunk \in Nat /\ (k + 1) * Policy.chunk = k * Policy.chunk + Policy.chunk
          /\ Policy.context \in Nat /\ (k = 0 => k * Policy.chunk = 0)
          /\ Policy.context <= Policy.chunk /\ (k # 0 => k * Policy.chunk >= Policy.chunk)
        BY <1>1, <1>5 DEF IsPolicy, Positive
    <2>2. Most(0, k * Policy.chunk - Policy.context) = Place(k)
        <3> DEFINE a == k * Policy.chunk
        <3>1. a \in Nat /\ (k = 0 => a = 0) /\ (k # 0 => a >= Policy.context)
            BY <2>1
        <3>2. Place(k) = IF k = 0 THEN 0 ELSE a - Policy.context
            BY <1>5 DEF Place
        <3> HIDE DEF a
        <3>3. Most(0, a - Policy.context) = Place(k)
            BY <2>1, <3>1, <3>2 DEF Most
        <3> QED
            BY <3>3 DEF a
    <2>3. Place(k) + WindowSize(Counted(k)) = (k + 1) * Policy.chunk
        BY <1>5, <2>1 DEF Place, WindowSize, Counted
    <2>4. Documented(k + 1) = <<Least(Most(0, k * Policy.chunk - Policy.context), Total), Least((k + 1) * Policy.chunk, Total)>>
        BY <1>1, <1>5 DEF Documented
    <2> QED
        BY <2>2, <2>3, <2>4
<1>6. CASE Policy.kind = "ramp"
    <2>1. Sum([j \in 1..(k + 1) |-> Ramp(j - 1)]) = Place(k) + WindowSize(Counted(k))
        BY <1>6, RampSum DEF Place, WindowSize, Counted
    <2>2. Documented(k + 1) = <<Least(Sum([j \in 1..((k + 1) - 1) |-> Ramp(j - 1)]), Total),
                                Least(Sum([j \in 1..(k + 1) |-> Ramp(j - 1)]), Total)>>
        BY <1>6 DEF Documented
    <2>3. Place(k) = Sum([j \in 1..k |-> Ramp(j - 1)])
        BY <1>6 DEF Place
    <2> QED
        BY <1>1, <2>1, <2>2, <2>3
<1>7. CASE Policy.kind = "scheduled"
    <2>1. /\ Delivered(0) = Lead /\ Delivered(k) \in Nat /\ Delivered(k + 1) = Delivered(k) + NewItems(k)
          /\ Policy.context \in Nat /\ NewItems(k) \in Nat
        BY <1>1, <1>7, DeliveredStep, DeliveredIs, NewItemsIs DEF IsPolicy, Positive
    <2>2. Place(k) = Delivered(k) - Context(k) /\ WindowSize(Counted(k)) = Context(k) + NewItems(k)
        BY <1>7 DEF Place, WindowSize, Counted
    <2> DEFINE b == Sum([j \in 1..((k + 1) - 1) |-> NewItems(j - 1)])
               e == Sum([j \in 1..(k + 1) |-> NewItems(j - 1)])
    <2>3. /\ k = 0 => Documented(k + 1) = <<Least(0, Total), Least(Lead + e, Total)>>
          /\ k # 0 => Documented(k + 1) = <<Least(Most(0, Lead + b - Policy.context), Total), Least(Lead + e, Total)>>
        BY <1>7 DEF Documented
    <2>4. Delivered((k + 1) - 1) = Lead + b /\ Delivered(k + 1) = Lead + e
        BY DEF Delivered
    <2>b. b \in Int /\ Lead \in Int
        BY <1>1, <1>7, DeliveredStep
    <2> HIDE DEF b, e
    <2> DEFINE f == Lead + b
    <2>a. /\ k # 0 => Documented(k + 1) = <<Least(Most(0, f - Policy.context), Total), Least(Lead + e, Total)>>
          /\ Delivered((k + 1) - 1) = f
        BY <2>1, <2>3, <2>4, <2>b
    <2> HIDE DEF f
    <2>5. f = Delivered(k) /\ Lead + e = Place(k) + WindowSize(Counted(k))
        <3>1. Context(k) \in Int
            BY <1>1, <2>1 DEF Context, Least
        <3> QED
            BY <1>1, <2>1, <2>2, <2>4, <2>a, <3>1
    <2>6. k = 0 => Place(k) = 0
        BY <1>7, <2>1, PlaceStarts
    <2>7. k # 0 => Most(0, f - Policy.context) = Place(k)
        <3>1. k # 0 => Context(k) = Least(Policy.context, Delivered(k))
            BY DEF Context
        <3>2. k # 0 => Most(0, Delivered(k) - Policy.context) = Place(k)
            BY <2>1, <2>2, <3>1 DEF Most, Least
        <3> QED
            BY <2>5, <3>2
    <2> QED
        BY <2>3, <2>5, <2>6, <2>7, <2>a
<1> QED
    BY <1>1, <1>3, <1>4, <1>5, <1>6, <1>7 DEF IsPolicy

\* The places are the stream's.
LEMMA PlacesStay == stream' = stream => /\ Places' = Places /\ Documents' = Documents
                                        /\ \A k : Counted(k)' = Counted(k)
<1>1. SUFFICES ASSUME stream' = stream PROVE Places' = Places /\ Documents' = Documents /\ \A k : Counted(k)' = Counted(k)
    OBVIOUS
<1>2. Policy' = Policy /\ Lead' = Lead /\ Total' = Total
    BY <1>1 DEF Policy, Lead, Total
<1>3. \A k : NewItems(k)' = NewItems(k)
    BY <1>2 DEF NewItems
<1>4. \A k : Delivered(k)' = Delivered(k)
    BY <1>2, <1>3 DEF Delivered
<1>5. \A k : Ramp(k)' = Ramp(k)
    <2>1. RampSize' = RampSize
        BY <1>2 DEF RampSize
    <2> QED
        BY <1>2, <2>1 DEF Ramp
<1>6. \A k : Context(k)' = Context(k)
    BY <1>2, <1>4 DEF Context
<1>7. \A k : Place(k)' = Place(k)
    BY <1>2, <1>4, <1>5, <1>6 DEF Place
<1>8. \A k : Documented(k)' = Documented(k)
    BY <1>2, <1>3, <1>5 DEF Documented
<1>9. \A k : Counted(k)' = Counted(k)
    BY <1>2 DEF Counted
<1> QED
    BY <1>7, <1>8, <1>9 DEF Places, Documents

\* The chunk that is cut at a place is the one documented for it, and the next place follows.
LEMMA CutPlaced ==
    ASSUME Inv, ~Tagged, HasChunkReady, PopChunk, UNCHANGED <<stream, arrVars>>, NEW k \in Nat,
           Ended \/ (start = Places[k] /\ popped = Counted(k))
    PROVE  /\ AtPlace(NextChunk, k + 1) /\ (NextChunk.n = 0 => Ended') /\ (Ended => Ended' /\ NextChunk.n = 0)
           /\ Ended' \/ (start' = Places[k + 1] /\ popped' = Counted(k + 1))
<1>1. /\ start \in 0..Entered /\ BufLen = Entered - start /\ Shown \in 0..BufLen /\ Stride \in 0..Shown
      /\ stream \in Streams /\ Total \in Nat /\ Entered \in 0..Total /\ (AllRead => Entered = Total)
      /\ popped \in Nat
    BY CutIs, EnteredIs, AllReadIs, StreamIs DEF Inv, Arrived, BufferOK
<1>2. NextChunk.first = start /\ NextChunk.n = Shown /\ NewTo(NextChunk) = start + Shown
    BY NextChunkIs DEF Inv, NewTo
<1>3. start' = start + Stride /\ popped' = After(popped)
    BY DEF PopChunk, RegisterChunk, After
<1>4. Ended' <=> AllRead /\ start' = Entered
    BY Unmoved DEF Ended
<1>5. RunLen = BufLen /\ ~EndsRun
    BY <1>1 DEF RunLen, EndsRun
<1>6. CASE Ended
    <2>1. BufLen = 0 /\ Shown = 0 /\ Stride = 0
        BY <1>1, <1>6 DEF Ended
    <2> QED
        BY <1>1, <1>2, <1>3, <1>4, <1>6, <2>1 DEF Ended, AtPlace
<1>7. CASE ~Ended
    <2> DEFINE w == WindowSize(popped)
    <2>1. start = Place(k) /\ popped = Counted(k) /\ k + 1 \in Nat \ {0}
        BY <1>7 DEF Places
    <2>2. w \in Nat \ {0} /\ w = Window[popped]
        <3>1. Window[popped] \in Positive
            BY <1>1, PolicyFacts
        <3> QED
            BY <1>1, <3>1 DEF Window, Positive
    <2>3. Documents[k + 1] = <<Least(start, Total), Least(start + w, Total)>>
        BY <1>1, <2>1, DocumentedIs DEF Documents
    <2>4. start' = start + NextChunkSize(popped) => start' = Places[k + 1]
        BY <1>1, <2>1, PlaceStep DEF Places
    <2>5. popped' = Counted(k + 1)
        BY <1>1, <1>3, <2>1, PlaceStep
    <2>6. CASE EndsStream
        <3>1. Shown = BufLen /\ Stride = BufLen /\ AllRead /\ ~(BufLen >= w)
            BY <1>5, <2>6 DEF Shown, Stride, EndsStream, IsReady
        <3>2. Ended' /\ start + Shown = Total
            BY <1>1, <1>3, <1>4, <3>1
        <3>3. Least(start, Total) = start /\ Least(start + w, Total) = Total
            <4> HIDE DEF w
            <4> QED
                BY <1>1, <2>2, <3>1 DEF Least
        <3>4. AtPlace(NextChunk, k + 1)
            BY <1>2, <2>3, <3>2, <3>3 DEF AtPlace
        <3> QED
            BY <1>7, <3>2, <3>4
    <2>7. CASE ~EndsStream
        <3>1. BufLen >= w
            <4>1. AllRead => IsReady(BufLen)
                BY <2>7 DEF EndsStream
            <4>2. ~AllRead => IsReady(BufLen)
                BY <1>1, <1>5 DEF HasChunkReady
            <4> QED
                BY <4>1, <4>2 DEF IsReady
        <3>2. Shown = w /\ Stride = NextChunkSize(popped)
            <4>1. Shown = Least(w, BufLen) /\ Stride = NextChunkSize(popped)
                BY <1>5, <2>7 DEF Shown, Stride
            <4> HIDE DEF w
            <4> QED
                BY <1>1, <2>2, <3>1, <4>1 DEF Least
        <3>3. Least(start, Total) = start /\ Least(start + w, Total) = start + w
            <4> HIDE DEF w
            <4> QED
                BY <1>1, <2>2, <3>1 DEF Least
        <3>4. AtPlace(NextChunk, k + 1) /\ NextChunk.n # 0
            BY <1>2, <2>2, <2>3, <3>2, <3>3 DEF AtPlace
        <3> QED
            BY <1>3, <1>7, <2>4, <2>5, <3>2, <3>4
    <2> QED
        BY <2>6, <2>7
<1> QED
    BY <1>6, <1>7

\* Chunks stay in their places.
LEMMA PlacedStays ==
    ASSUME PlacedOK, UNCHANGED <<stream, eaten, stopped, cur, next, waiting, start, popped>>, Ended => Ended'
    PROVE  PlacedOK'
<1>1. /\ Held' = Held /\ Coming' = Coming /\ Tagged' = Tagged
      /\ \A c : One(c)' = One(c)
    BY DEF Held, Coming, One, Tagged
<1>2. \A c, k : AtPlace(c, k)' = AtPlace(c, k)
    BY PlacesStay DEF AtPlace, NewTo
<1>3. RanOK => RanOK'
    BY <1>2 DEF RanOK
<1>4. ComeOK => ComeOK'
    <2>1. SUFFICES ASSUME ComeOK PROVE ComeOK'
        OBVIOUS
    <2>2. Documents' = Documents
        BY PlacesStay
    <2>3. /\ cur' # None => AtPlace(cur, Len(eaten) + 1)'
          /\ next' # None => AtPlace(next, Len(eaten) + One(cur) + 1)'
          /\ Held' # None => AtPlace(Held, Len(eaten) + One(cur) + One(next) + 1)'
        BY <1>1, <2>1, <2>2 DEF ComeOK, AtPlace, NewTo, One
    <2>4. \A c \in {cur', next', Held'} : c # None /\ c.n = 0 => Ended'
        BY <1>1, <2>1 DEF ComeOK
    <2>5. Ended' \/ (start' = Places'[Coming'] /\ popped' = Counted(Coming)')
        BY <1>1, <2>1, PlacesStay DEF ComeOK, Counted, Policy
    <2>6. cur' # None /\ cur'.n = 0 => (next' # None => next'.n = 0) /\ (Held' # None => Held'.n = 0)
        BY <1>1, <2>1 DEF ComeOK
    <2> QED
        BY <2>3, <2>4, <2>5, <2>6 DEF ComeOK
<1> QED
    BY <1>1, <1>3, <1>4 DEF PlacedOK

\* What an edge yields is the chunk of the next place.
LEMMA EdgePlaced ==
    ASSUME Inv, PlacedOK, ~Tagged, ~stopped, AtTop, NEW change \in BOOLEAN, PopEdge(Offered, Behind, change),
           UNCHANGED <<stream, arrVars>>, NEW c, c = Offered, NEW k, k = Len(eaten) + One(cur)
    PROVE  /\ AtPlace(c, k + 1) /\ (c.n = 0 => Ended') /\ (Ended => Ended') /\ (cur # None /\ cur.n = 0 => c.n = 0)
           /\ Ended' \/ (start' = Places[k + 1] /\ popped' = Counted(k + 1))
           /\ k \in Nat
<1>1. next = None /\ One(next) = 0
    BY DEF Inv, SlotsOK, AtTop, One
<1>2. k \in Nat
    BY DEF Inv, FlowOK, EatenOK, One
<1>3. ComeOK
    BY DEF PlacedOK
<1>4. CASE waiting # <<>>
    <2>1. UNCHANGED <<bufVars, refs, walk>> /\ Offered = Head(waiting)
        BY <1>4 DEF PopEdge, Offered
    <2>2. c = Held /\ Held # None
        BY <1>4, <2>1, WaitingIs DEF Inv, Arrived
    <2>3. Ended' <=> Ended
        BY <2>1, Unmoved DEF Ended, bufVars
    <2>4. Coming = k + 1 /\ Len(eaten) + One(cur) + One(next) + 1 = k + 1
        BY <1>1, <1>2, <2>2 DEF Coming, One
    <2>5. start' = start /\ popped' = popped
        BY <2>1 DEF bufVars
    <2>6. Ended \/ (start = Places[k + 1] /\ popped = Counted(k + 1))
        BY <1>3, <2>4 DEF ComeOK
    <2>7. AtPlace(c, k + 1) /\ (c.n = 0 => Ended) /\ (cur # None /\ cur.n = 0 => c.n = 0)
        BY <1>3, <2>2, <2>4 DEF ComeOK
    <2> QED
        BY <1>2, <2>3, <2>5, <2>6, <2>7
<1>5. CASE waiting = <<>>
    <2>1. HasChunkReady /\ PopChunk /\ c = NextChunk
        BY <1>5 DEF PopEdge, Offered
    <2>2. Held = None
        BY <1>5 DEF Held
    <2>3. Coming = k
        BY <1>1, <1>2, <2>2 DEF Coming, One
    <2>4. Ended \/ (start = Places[k] /\ popped = Counted(k))
        BY <1>3, <2>3 DEF ComeOK
    <2>5. /\ AtPlace(c, k + 1) /\ (c.n = 0 => Ended') /\ (Ended => Ended' /\ c.n = 0)
          /\ Ended' \/ (start' = Places[k + 1] /\ popped' = Counted(k + 1))
        BY <1>2, <2>1, <2>4, CutPlaced
    <2>6. cur # None /\ cur.n = 0 => Ended
        BY <1>3 DEF ComeOK
    <2> QED
        BY <1>2, <2>5, <2>6
<1> QED
    BY <1>4, <1>5

\* The invariant for slots as they are left.
LEMMA ComeIs ==
    ASSUME UNCHANGED stream, NEW l, Len(eaten') = l, NEW a, NEW b, NEW c, NEW k,
           cur' = a, next' = b, Held' = c, k = l + One(a) + One(b) + One(c),
           a # None => AtPlace(a, l + 1), b # None => AtPlace(b, l + One(a) + 1),
           c # None => AtPlace(c, l + One(a) + One(b) + 1),
           \A e \in {a, b, c} : e # None /\ e.n = 0 => Ended',
           a # None /\ a.n = 0 => (b # None => b.n = 0) /\ (c # None => c.n = 0),
           Ended' \/ (start' = Places[k] /\ popped' = Counted(k))
    PROVE  ComeOK'
<1>1. Documents' = Documents /\ Places' = Places
    BY PlacesStay
<1>2. Coming' = k
    BY DEF Coming, One
<1>3. /\ cur' # None => AtPlace(cur, Len(eaten) + 1)'
      /\ next' # None => AtPlace(next, Len(eaten) + One(cur) + 1)'
      /\ Held' # None => AtPlace(Held, Len(eaten) + One(cur) + One(next) + 1)'
    BY <1>1 DEF AtPlace, NewTo, One
<1>4. Ended' \/ (start' = Places'[Coming'] /\ popped' = Counted(Coming)')
    BY <1>1, <1>2 DEF Counted, Policy
<1> QED
    BY <1>3, <1>4 DEF ComeOK

\* What ran stays in its places.
LEMMA RanStays ==
    ASSUME RanOK, stream' = stream, eaten' = eaten
    PROVE  RanOK'
BY PlacesStay DEF RanOK, AtPlace, NewTo

\* A chunk is taken, given back or staged.
LEMMA PollPlaced == Inv /\ PlacedOK /\ (PollTakes \/ PollRefused \/ Speculate \/ SpeculateRefused) => PlacedOK'
<1>1. SUFFICES ASSUME Inv, PlacedOK, PollTakes \/ PollRefused \/ Speculate \/ SpeculateRefused,
                      ~Tagged
               PROVE  RanOK' /\ (~stopped' => ComeOK')
    <2>1. PollTakes \/ PollRefused \/ Speculate \/ SpeculateRefused => Tagged' = Tagged
        BY DEF Tagged, PollTakes, PollRefused, Speculate, SpeculateRefused
    <2> QED
        BY <2>1 DEF PlacedOK
<1>2. /\ UNCHANGED <<stream, arrVars>> /\ eaten' = eaten /\ stopped' = stopped /\ AtTop
      /\ \E change \in BOOLEAN : PopEdge(Offered, Behind, change)
    BY <1>1 DEF PollTakes, PollRefused, Speculate, SpeculateRefused, nodeVars
<1>3. RanOK'
    BY <1>1, <1>2, RanStays DEF PlacedOK
<1>4. SUFFICES ASSUME ~stopped PROVE ComeOK'
    BY <1>2, <1>3
<1>5. PICK change \in BOOLEAN : PopEdge(Offered, Behind, change)
    BY <1>2
<1>6. PICK c, d : c = Offered /\ d = cur
    OBVIOUS
<1> DEFINE l == Len(eaten)
           k == l + One(d)
<1>7. /\ AtPlace(c, k + 1) /\ (c.n = 0 => Ended') /\ (Ended => Ended') /\ (d # None /\ d.n = 0 => c.n = 0)
      /\ Ended' \/ (start' = Places[k + 1] /\ popped' = Counted(k + 1))
    BY <1>1, <1>2, <1>4, <1>5, <1>6, EdgePlaced
<1>8. c # None /\ Behind = <<>> /\ next = None /\ l \in Nat
    BY <1>1, <1>2, <1>5, <1>6, EdgeIs DEF Inv, SlotsOK, AtTop, FlowOK, EatenOK
<1>9. /\ d # None => AtPlace(d, l + 1)
      /\ d # None /\ d.n = 0 => Ended'
    BY <1>1, <1>4, <1>6, <1>7 DEF PlacedOK, ComeOK
<1>10. One(None) = 0 /\ One(c) = 1 /\ One(d) \in Nat
    BY <1>8 DEF One
<1>11. CASE PollTakes
    <2>1. cur' = c /\ next' = None /\ Held' = None /\ d = None
        BY <1>6, <1>8, <1>11 DEF PollTakes, Held
    <2>2. One(d) = 0 /\ k + 1 = l + One(c) + One(None) + One(None) /\ k + 1 = l + 1
        BY <1>8, <1>10, <2>1 DEF One
    <2> HIDE DEF k, l
    <2> QED
        BY <1>2, <1>7, <2>1, <2>2, ComeIs DEF l
<1>12. CASE PollRefused \/ SpeculateRefused
    <2>1. waiting' = Append(<<>>, c) /\ cur' = d /\ next' = None
        BY <1>6, <1>8, <1>12 DEF PollRefused, SpeculateRefused, ReturnEdge, nodeVars
    <2>2. waiting' = <<c>>
        BY <2>1
    <2>3. Held' = c
        BY <2>2 DEF Held
    <2>4. k + 1 = l + One(d) + One(None) + One(c) /\ k + 1 = l + One(d) + One(None) + 1
        BY <1>8, <1>10
    <2> HIDE DEF k, l
    <2> QED
        BY <1>2, <1>7, <1>9, <2>1, <2>3, <2>4, ComeIs DEF l
<1>13. CASE Speculate
    <2>1. cur' = d /\ next' = c /\ Held' = None
        BY <1>6, <1>8, <1>13 DEF Speculate, Held
    <2>2. k + 1 = l + One(d) + One(c) + One(None) /\ k + 1 = l + One(d) + 1
        BY <1>8, <1>10
    <2> HIDE DEF k, l
    <2> QED
        BY <1>2, <1>7, <1>9, <2>1, <2>2, ComeIs DEF l
<1> QED
    BY <1>1, <1>11, <1>12, <1>13

\* A step's chunk joins those that ran, unless it is an empty one that is dropped: then all
\* that is still to come is empty too.
LEMMA RanPlaced ==
    ASSUME Inv, PlacedOK, ~Tagged, step # None, eaten' = Ran, stream' = stream
    PROVE  /\ RanOK' /\ ComeOK /\ cur # None
           /\ \/ Len(eaten') = Len(eaten) + 1
              \/ Len(eaten') = Len(eaten) /\ cur.n = 0
<1>1. cur # None /\ ~stopped /\ step.chunk = cur /\ cur \in Chunks
    BY DEF Inv, SlotsOK, ChunkOK
<1>2. RanOK /\ ComeOK
    BY <1>1 DEF PlacedOK
<1>3. CASE eaten' = eaten
    <2>1. cur.n = 0
        <3>1. SUFFICES ASSUME eaten = Append(eaten, cur) PROVE FALSE
            BY <1>1, <1>3 DEF Ran
        <3>2. eaten \in Seq(Chunks)
            BY DEF Inv, FlowOK, EatenOK
        <3>3. Len(Append(eaten, cur)) = Len(eaten) + 1 /\ Len(eaten) \in Nat
            BY <1>1, <3>2, AppendProperties
        <3> QED
            BY <3>1, <3>3
    <2> QED
        BY <1>1, <1>2, <1>3, <2>1, RanStays
<1>4. CASE eaten' = Append(eaten, cur)
    <2>1. eaten \in Seq(Chunks) /\ Len(eaten) \in Nat
        BY DEF Inv, FlowOK, EatenOK
    <2>2. /\ Len(eaten') = Len(eaten) + 1 /\ eaten'[Len(eaten) + 1] = cur
          /\ \A i \in 1..Len(eaten) : eaten'[i] = eaten[i]
        BY <1>1, <1>4, <2>1, AppendProperties
    <2>3. ASSUME NEW i \in 1..(Len(eaten) + 1) PROVE AtPlace(eaten'[i], i)
        <3>1. CASE i = Len(eaten) + 1
            BY <1>1, <1>2, <2>2, <3>1 DEF ComeOK
        <3>2. CASE i # Len(eaten) + 1
            <4>1. i \in 1..Len(eaten)
                BY <2>1, <3>2
            <4> QED
                BY <1>2, <2>2, <4>1 DEF RanOK
        <3> QED
            BY <3>1, <3>2
    <2>4. RanOK'
        BY <2>2, <2>3, PlacesStay DEF RanOK, AtPlace, NewTo
    <2> QED
        BY <1>1, <1>2, <2>2, <2>4
<1> QED
    BY <1>1, <1>3, <1>4 DEF Ran

\* What a step leaves over has moved up to its own places.
LEMMA EndPlaced ==
    ASSUME Inv, PlacedOK, ~Tagged, step # None, eaten' = Ran, UNCHANGED <<stream, bufVars, arrVars>>,
           NEW c, NEW h, cur' = c, next' = None, Held' = h,
           (c = next /\ h = Held) \/ (c = None /\ Held = None /\ h = next)
    PROVE  ComeOK'
<1>1. /\ ComeOK /\ cur # None
      /\ \/ Len(eaten') = Len(eaten) + 1
         \/ Len(eaten') = Len(eaten) /\ cur.n = 0
    BY RanPlaced
<1>2. Len(eaten) \in Nat /\ One(None) = 0 /\ One(cur) = 1 /\ One(next) \in Nat /\ One(Held) \in Nat
    BY <1>1 DEF Inv, FlowOK, EatenOK, One
<1>3. Ended' <=> Ended
    BY Unmoved DEF Ended, bufVars
<1>4. start' = start /\ popped' = popped
    BY DEF bufVars
<1>5. next = None \/ Held = None
    BY DEF Inv, SlotsOK, Held
<1> DEFINE l == Len(eaten')
           k == l + One(c) + One(None) + One(h)
<1>6. /\ c # None => AtPlace(c, l + 1)
      /\ h # None => AtPlace(h, l + One(c) + One(None) + 1)
    <2>1. CASE l = Len(eaten) + 1
        <3>1. next # None => AtPlace(next, l + 1)
            BY <1>1, <1>2, <2>1 DEF ComeOK
        <3>2. Held # None => AtPlace(Held, l + One(next) + 1)
            <4>1. l + One(next) + 1 = Len(eaten) + One(cur) + One(next) + 1
                BY <1>2, <2>1
            <4> QED
                BY <1>1, <4>1 DEF ComeOK
        <3>3. l + One(None) + One(None) + 1 = l + 1 /\ l + One(next) + One(None) + 1 = l + One(next) + 1
            BY <1>2, <2>1
        <3> HIDE DEF l
        <3> QED
            BY <3>1, <3>2, <3>3
    <2>2. CASE cur.n = 0
        BY <1>1, <2>2 DEF ComeOK, AtPlace
    <2> QED
        BY <1>1, <2>1, <2>2
<1>7. \A e \in {c, None, h} : e # None /\ e.n = 0 => Ended'
    BY <1>1, <1>3 DEF ComeOK
<1>8. Ended' \/ (start' = Places[k] /\ popped' = Counted(k))
    <2>1. CASE l = Len(eaten) + 1
        <3>1. k = Coming
            BY <1>2, <2>1 DEF Coming
        <3> QED
            BY <1>1, <1>3, <1>4, <3>1 DEF ComeOK
    <2>2. CASE cur.n = 0
        BY <1>1, <1>3, <2>2 DEF ComeOK
    <2> QED
        BY <1>1, <2>1, <2>2
<1>9. c # None /\ c.n = 0 => (h # None => h.n = 0)
    BY <1>5
<1> HIDE DEF k, l
<1>10. Len(eaten') = l /\ k = l + One(c) + One(None) + One(h)
    BY DEF k, l
<1> QED
    BY <1>6, <1>7, <1>8, <1>9, <1>10, ComeIs

\* A step ends.
LEMMA EndsPlaced == Inv /\ PlacedOK /\ (StepChains \/ StepEnds \/ StepStops) => PlacedOK'
<1>1. SUFFICES ASSUME Inv, PlacedOK, StepChains \/ StepEnds \/ StepStops, ~Tagged
               PROVE  RanOK' /\ (~stopped' => ComeOK')
    <2>1. StepChains \/ StepEnds \/ StepStops => Tagged' = Tagged
        BY DEF Tagged, StepChains, StepEnds, StepStops
    <2> QED
        BY <2>1 DEF PlacedOK
<1>2. /\ step # None /\ eaten' = Ran /\ UNCHANGED <<stream, bufVars, arrVars>>
    BY <1>1 DEF StepChains, StepEnds, StepStops, Running
<1>3. RanOK'
    BY <1>1, <1>2, RanPlaced
<1>4. CASE StepChains
    <2>1. /\ cur' = next /\ next' = None /\ waiting' = waiting
        BY <1>4 DEF StepChains
    <2>2. Held' = Held
        BY <2>1 DEF Held
    <2>3. PICK c, h : c = next /\ h = Held
        OBVIOUS
    <2> QED
        BY <1>1, <1>2, <1>3, <2>1, <2>2, <2>3, EndPlaced
<1>5. CASE StepEnds
    <2>1. cur' = None /\ next' = None
        BY <1>5 DEF StepEnds
    <2>2. PICK h : h = IF spec = None THEN Held ELSE next
        OBVIOUS
    <2>3. Held' = h /\ ((None = next /\ h = Held) \/ (Held = None /\ h = next))
        <3>1. CASE spec = None
            <4>1. waiting' = waiting /\ next = None
                BY <1>1, <1>5, <3>1 DEF StepEnds, Inv, SlotsOK
            <4> QED
                BY <2>2, <3>1, <4>1 DEF Held
        <3>2. CASE spec # None
            <4>1. waiting' = Append(waiting, spec.chunk) /\ waiting = <<>> /\ spec.chunk = next
                BY <1>1, <1>5, <3>2 DEF StepEnds, ReturnEdge, Inv, SlotsOK
            <4>2. waiting' = <<next>>
                BY <4>1
            <4> QED
                BY <2>2, <3>2, <4>1, <4>2 DEF Held
        <3> QED
            BY <3>1, <3>2
    <2> QED
        BY <1>1, <1>2, <1>3, <2>1, <2>3, EndPlaced
<1>6. CASE StepStops
    BY <1>3, <1>6 DEF StepStops
<1> QED
    BY <1>1, <1>4, <1>5, <1>6

\* No other action cuts a chunk or moves one.
LEMMA OthersPlaced ==
    Inv /\ PlacedOK /\ (Register \/ Puts \/ SignalDone \/ PollNothing \/ SpeculateNothing
                        \/ Schedule \/ Admit \/ AdmitRefused \/ UNCHANGED vars) => PlacedOK'
<1>1. ASSUME Inv, PlacedOK, PollNothing \/ SpeculateNothing \/ Schedule \/ Admit \/ AdmitRefused \/ UNCHANGED vars
      PROVE  PlacedOK'
    <2>1. UNCHANGED <<stream, eaten, stopped, cur, next, waiting, bufVars, arrVars>>
        BY <1>1 DEF PollNothing, SpeculateNothing, PopNothing, Schedule, Admit, AdmitRefused, vars, nodeVars
    <2>2. Ended' = Ended
        BY <2>1, Unmoved DEF Ended, bufVars
    <2> QED
        BY <1>1, <2>1, <2>2, PlacedStays DEF bufVars
<1>2. ASSUME Inv, PlacedOK, Register \/ Puts \/ SignalDone PROVE PlacedOK'
    <2>1. /\ UNCHANGED <<stream, eaten, bufVars, nodeVars, waiting>>
          /\ registered <= registered' /\ put \subseteq put' /\ (done => done') /\ Arrived'
        <3>1. registered \in Nat /\ Total \in Nat /\ registered <= Total /\ stream \in Streams
            BY <1>2, StreamIs DEF Inv, Arrived
        <3>2. CASE Register
            BY <3>1, <3>2 DEF Register, Arrived, Total
        <3>3. CASE Puts
            BY <3>1, <3>3 DEF Puts, Put, Arrived, Total
        <3>4. CASE SignalDone
            BY <3>1, <3>4 DEF SignalDone, Arrived, Total
        <3> QED
            BY <1>2, <3>2, <3>3, <3>4
    <2>2. Ended => Ended'
        BY <1>2, <2>1, ArrivalGrows DEF Ended, bufVars
    <2> QED
        BY <1>2, <2>1, <2>2, PlacedStays DEF bufVars, nodeVars
<1> QED
    BY <1>1, <1>2

\* Whenever items and the end arrive, a consumer whose walks the producer does not assign sees
\* the chunks that the policies' docstrings give, up to the remainder at the end.
THEOREM ChunksAreDocumented == Spec => []ChunksAsDocumented
<1>1. Init => PlacedOK
    <2>1. SUFFICES ASSUME Init PROVE PlacedOK
        OBVIOUS
    <2>2. /\ stream \in Streams /\ start = 0 /\ popped = 0 /\ eaten = <<>> /\ cur = None /\ next = None /\ Held = None
        BY <2>1 DEF Init, Held
    <2>3. Coming = 0
        BY <2>2 DEF Coming, One
    <2>4. Places[0] = 0 /\ Counted(0) = 0
        BY <2>2, PlaceStarts DEF Places, Counted
    <2>5. RanOK
        BY <2>2 DEF RanOK
    <2>6. ComeOK
        BY <2>2, <2>3, <2>4 DEF ComeOK
    <2> QED
        BY <2>5, <2>6 DEF PlacedOK
<1>2. Inv /\ PlacedOK /\ [Next]_vars => PlacedOK'
    BY PollPlaced, EndsPlaced, OthersPlaced DEF Next
<1>3. Inv /\ PlacedOK => ChunksAsDocumented
    <2>1. SUFFICES ASSUME Inv, PlacedOK, ~Tagged, NEW k \in DOMAIN eaten, eaten[k].n > 0
                   PROVE  <<eaten[k].first, NewTo(eaten[k])>> = Documented(k)
        BY DEF ChunksAsDocumented
    <2>2. k \in 1..Len(eaten) /\ k \in Nat \ {0}
        BY <2>1 DEF Inv, FlowOK, EatenOK
    <2> QED
        BY <2>1, <2>2 DEF PlacedOK, RanOK, AtPlace, Documents
<1> QED
    BY <1>1, <1>2, <1>3, InvHolds, PTL DEF Spec

\* What the invariant does not say of the variables' types.
FlagsOK ==
    /\ put \subseteq Items \X Nat
    /\ done \in BOOLEAN /\ maybe \in BOOLEAN /\ back \in BOOLEAN /\ open \in BOOLEAN
    /\ ready \in BOOLEAN /\ flying \in BOOLEAN /\ stopped \in BOOLEAN
    /\ ingested = None \/ ingested \in Chunks
    /\ refs = [i \in Items |-> refs[i]]

\* Every variable keeps its type: nothing is read past what has entered the buffer, and no
\* tensor's references go below zero.
THEOREM StreamTyped == Spec => []TypeOK
<1>1. Init => FlagsOK
    BY StreamIs DEF Init, FlagsOK
<1>2. Inv /\ FlagsOK /\ [Next]_vars => FlagsOK'
    <2>1. SUFFICES ASSUME Inv, FlagsOK, [Next]_vars PROVE FlagsOK'
        OBVIOUS
    <2>2. stream' = stream => Items' = Items /\ Chunks' = Chunks
        BY DEF Items, Total, Chunks
    <2>3. stream \in Streams /\ stream.loop \in BOOLEAN
        BY <2>1, StreamIs DEF Inv, Arrived
    <2>4. CASE Register \/ SignalDone
        BY <2>1, <2>2, <2>4 DEF Register, SignalDone, FlagsOK, nodeVars
    <2>5. CASE Puts
        <3>1. PICK i \in Items : \E j \in 1..stream.pieces[i] : Put(i, j)
            BY <2>5 DEF Puts
        <3>2. PICK j \in 1..stream.pieces[i] : Put(i, j)
            BY <3>1
        <3>3. j \in Nat
            BY <2>3, <3>1, <3>2, StreamIs DEF Positive
        <3>4. put' \subseteq Items \X Nat
            BY <2>1, <3>2, <3>3 DEF Put, FlagsOK
        <3>5. refs' = [k \in Items |-> refs'[k]]
            BY <2>1, <3>2 DEF Put, FlagsOK
        <3> QED
            BY <2>1, <2>2, <3>2, <3>4, <3>5 DEF Put, FlagsOK, nodeVars
    <2>6. CASE PollTakes \/ PollRefused \/ Speculate \/ SpeculateRefused
        <3>1. UNCHANGED <<stream, arrVars>> /\ AtTop /\ \E change \in BOOLEAN : PopEdge(Offered, Behind, change)
            BY <2>6 DEF PollTakes, PollRefused, Speculate, SpeculateRefused
        <3>2. PICK c : c = Offered
            OBVIOUS
        <3>3. c \in Chunks
            BY <2>1, <3>1, <3>2, EdgeIs
        <3>4. refs' = [i \in Items |-> refs'[i]]
            BY <2>1, <3>1 DEF PopEdge, PopChunk, PopRefs, FlagsOK
        <3> QED
            BY <2>1, <2>2, <2>6, <3>1, <3>2, <3>3, <3>4
               DEF PollTakes, PollRefused, Speculate, SpeculateRefused, ReturnEdge, FlagsOK, arrVars, nodeVars
    <2>7. CASE PollNothing \/ SpeculateNothing
        BY <2>1, <2>2, <2>7 DEF PollNothing, SpeculateNothing, PopNothing, FlagsOK, arrVars, nodeVars
    <2>8. CASE Schedule \/ Admit \/ AdmitRefused
        BY <2>1, <2>2, <2>8 DEF Schedule, Admit, AdmitRefused, FlagsOK, arrVars, nodeVars
    <2>9. CASE StepChains \/ StepEnds \/ StepStops
        <3>1. refs' = [i \in Items |-> refs'[i]]
            BY <2>9 DEF StepChains, StepEnds, StepStops, Released
        <3> QED
            BY <2>1, <2>2, <2>3, <2>9, <3>1 DEF StepChains, StepEnds, StepStops, ReturnEdge, FlagsOK, arrVars
    <2>10. CASE UNCHANGED vars
        BY <2>1, <2>2, <2>10 DEF vars, FlagsOK, arrVars, nodeVars
    <2> QED
        BY <2>1, <2>4, <2>5, <2>6, <2>7, <2>8, <2>9, <2>10 DEF Next
<1>3. Inv /\ FlagsOK => TypeOK
    <2>1. SUFFICES ASSUME Inv, FlagsOK PROVE TypeOK
        OBVIOUS
    <2>2. /\ stream \in Streams /\ registered \in 0..Total /\ Total \in Nat /\ Lead \in Nat
          /\ Entered \in 0..Total /\ Items = 1..Total
        BY <2>1, EnteredIs, StreamIs DEF Inv, Arrived
    <2>3. start \in 0..Entered /\ end \in 0..Most(Entered, Lead) /\ popped \in Nat /\ closed \in BOOLEAN
        BY <2>1, <2>2 DEF Inv, BufferOK, Most
    <2>4. \A i \in DOMAIN waiting : waiting[i] \in Chunks
        BY <2>1 DEF Inv, SlotsOK
    <2>5. \A i \in DOMAIN eaten : eaten[i] \in Chunks
        BY <2>1 DEF Inv, FlowOK, EatenOK
    <2>6. \A c \in {ingested, cur, next} : c = None \/ c \in Chunks
        BY <2>1 DEF Inv, SlotsOK, ChunkOK, FlagsOK
    <2>7. (step = None \/ step \in Steps) /\ (spec = None \/ spec \in [chunk : Chunks, info : Chunks])
        <3>1. step # None => cur \in Chunks /\ step \in [chunk : {cur}, info : {cur}, st : {"submitted", "running"}]
            BY <2>1 DEF Inv, SlotsOK, ChunkOK
        <3>2. spec # None => next \in Chunks /\ spec = [chunk |-> next, info |-> next]
            BY <2>1 DEF Inv, SlotsOK, ChunkOK
        <3> QED
            BY <3>1, <3>2 DEF Steps
    <2>8. refs \in [Items -> Nat]
        <3>1. \A i \in Items : Buffered(i) \in Nat /\ In(i, cur) \in Nat /\ In(i, next) \in Nat /\ In(i, Held) \in Nat
            BY DEF Buffered, In
        <3>2. \A i \in Items : refs[i] \in Nat
            BY <2>1, <3>1 DEF Inv, RefsOK
        <3>3. refs = [i \in Items |-> refs[i]]
            BY <2>1 DEF FlagsOK
        <3> QED
            BY <3>2, <3>3
    <2> QED
        BY <2>1, <2>2, <2>3, <2>4, <2>5, <2>6, <2>7, <2>8 DEF TypeOK, FlagsOK
<1> QED
    BY <1>1, <1>2, <1>3, InvHolds, PTL DEF Spec

=============================================================================
