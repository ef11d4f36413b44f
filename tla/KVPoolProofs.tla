---------------------------- MODULE KVPoolProofs ----------------------------
(***************************************************************************)
(* Proofs about the page accounting of the KV pool: for every set of       *)
(* pages, requests and prompts, no reference to a page is lost or counted  *)
(* twice, no step writes a page that another request or the index reads,   *)
(* every request reads its own prefix, no grant fails for want of pages,   *)
(* and no request that would fit keeps the mark of one that did not.       *)
(*                                                                         *)
(* The first three hold together or not at all.  A page is written,        *)
(* evicted or granted by what its count of owners says, so what is written *)
(* is nobody else's only while the count is right; and the count stays     *)
(* right because a page is filed in the index once (OneName) and a stream  *)
(* or lease holds it once.  The pages filed are known to be the stream's   *)
(* alone because of where the stream is (Streaming): its cursor has passed *)
(* every page that was stored, and a copy that lands is filed past the run *)
(* of pages the index had kept.                                            *)
(*                                                                         *)
(* The other two rest on these and on Funded.  The count of what is        *)
(* promised is that of the allotments together, each of which has left     *)
(* what its stream, but for what it borrows, has not used (Paid), and it   *)
(* never exceeds the pages that are free or evictable: a page leaves those *)
(* only with a promise or out of the room, and a release that gives a      *)
(* promise back gives a page back.  That many can indeed be evicted        *)
(* because the index is a forest (Forest), so a deepest page of those      *)
(* left has none left below it.  A mark is sound because a request needs   *)
(* more only when a page is filed or taken, which moves every mark.        *)
(***************************************************************************)
EXTENDS KVPool, FiniteSetTheorems, WellFoundedInduction, TLAPS

Stages == {"device", "claimed", "host", "landing"}
Contents == Keys \cup Rids \cup {None}
Copies == [data : Seq(Contents), keyed : Nat, run : Nat]

\* The types of what the proof is about.
Typed ==
    /\ owners \in [Pages -> Nat] /\ byKey \in [Keys -> Pages \cup {None}]
    /\ content \in [Pages -> Contents]
    /\ pages \in [Rids -> Seq(Pages)] /\ lease \in [Rids -> Seq(Pages)]
    /\ stored \in [Rids -> Nat] /\ cursor \in [Rids -> Nat]
    /\ flight \in [Rids -> Nat] /\ reserved \in [Rids -> Nat]
    /\ stage \in [Rids -> Stages] /\ host \in [Rids -> Copies]

\* What allotments count in.
Budgeted ==
    /\ lent \in [Rids -> SUBSET Pages]
    /\ allot \in [Rids -> [pages : Int, remaining : Int]] /\ unused \in Int

\* A page is filed under one key, whose content it has.
OneName(bk) == \A k, l \in Keys : bk[k] # None /\ bk[k] = bk[l] => k = l
IndexReads == \A k \in Keys : byKey[k] # None => content[byKey[k]] = k

\* Where a request's stream is, and how far.  It holds a page once.
Streaming(r) ==
    /\ IsInjective(pages[r]) /\ IsInjective(lease[r])
    /\ lease[r] # <<>> => pages[r] = <<>> /\ stored[r] = 0 /\ flight[r] = 0 /\ stage[r] = "device"
    /\ Len(lease[r]) <= Len(Chain[r])
    /\ flight[r] > 0 => stage[r] = "device"
    /\ reserved[r] = flight[r]
    /\ Len(pages[r]) = stored[r] + flight[r]
    /\ cursor[r] <= Len(Chain[r])
    /\ cursor[r] >= stored[r] \/ cursor[r] = Len(Chain[r])

\* What the host keeps of a stream that left the device.
Copied(r) ==
    /\ stage[r] = "host" => /\ pages[r] = <<>>
                            /\ cursor[r] >= Len(host[r].data) \/ cursor[r] = Len(Chain[r])
    /\ stage[r] \in {"host", "landing"} =>
          /\ host[r].keyed <= Len(host[r].data) /\ host[r].keyed <= Len(Chain[r])
          /\ \A i \in 1..Len(host[r].data) : host[r].data[i] = KeyAt(r, i)
    /\ stage[r] = "landing" => host[r].run <= host[r].keyed /\ Len(host[r].data) = stored[r]

\* A request reads its own prefix.
Reads(r) ==
    /\ \A i \in 1..stored[r] : content[pages[r][i]] = KeyAt(r, i)
    /\ \A i \in DOMAIN lease[r] : content[lease[r][i]] = KeyAt(r, i)

\* The pages of a stream that no one else may know of: those past what is stored,
\* and those a reload was granted until they are filed.
Bound(r) == IF stage[r] = "landing" THEN host[r].run ELSE stored[r]
Private(r) == \A i \in Bound(r) + 1 .. Len(pages[r]) : owners[pages[r][i]] = 1

\* All that is said of one request.
Sound(r) == Streaming(r) /\ Copied(r) /\ Reads(r) /\ Private(r)

\* The inductive invariant.
Inv ==
    /\ Typed /\ Budgeted /\ OneName(byKey) /\ IndexReads /\ PagesConserved
    /\ \A r \in Rids : Sound(r)

-----------------------------------------------------------------------------
(* Sequences and intervals *)

\* A set of numbers with a bound has a largest one.
LEMMA Largest ==
    ASSUME NEW n \in Nat, NEW S, S \subseteq 0..n, S # {}
    PROVE  \E m \in S : \A j \in S : j <= m
<1> DEFINE T == {n - i : i \in S}
<1>1. T \subseteq Nat /\ T # {}
  <2>1. \A i \in S : i \in 0..n /\ n - i \in Nat
    OBVIOUS
  <2>2. QED
    BY <2>1
<1>2. PICK t \in T : \A u \in T : <<u, t>> \notin OpToRel(<, Nat)
  BY <1>1, NatLessThanWellFounded, WFMin
<1>3. PICK m \in S : t = n - m
  BY DEF T
<1>4. ASSUME NEW j \in S PROVE j <= m
  <2>1. n - j \in T /\ n - j \in Nat /\ t \in Nat
    BY <1>1
  <2>2. ~(n - j < t)
    BY <2>1, <1>2 DEF OpToRel
  <2>3. QED
    BY <2>1, <2>2, <1>3
<1>5. QED
  BY <1>4

\* What a concatenation holds, and that it holds it once.
LEMMA Joined ==
    ASSUME NEW s \in Seq(Pages), NEW t \in Seq(Pages)
    PROVE  /\ s \o t \in Seq(Pages) /\ Len(s \o t) = Len(s) + Len(t)
           /\ Range(s \o t) = Range(s) \cup Range(t)
           /\ \A i \in 1..Len(s) : (s \o t)[i] = s[i]
           /\ \A i \in Len(s) + 1 .. Len(s) + Len(t) : (s \o t)[i] = t[i - Len(s)]
           /\ IsInjective(s) /\ IsInjective(t) /\ Range(s) \cap Range(t) = {} => IsInjective(s \o t)
<1>1. /\ s \o t \in Seq(Pages) /\ Len(s \o t) = Len(s) + Len(t)
      /\ \A i \in 1..Len(s) : (s \o t)[i] = s[i]
      /\ \A i \in Len(s) + 1 .. Len(s) + Len(t) : (s \o t)[i] = t[i - Len(s)]
      /\ DOMAIN (s \o t) = 1..(Len(s) + Len(t))
  OBVIOUS
<1>2. \A i \in 1..Len(t) : (s \o t)[i + Len(s)] = t[i] /\ i + Len(s) \in 1..(Len(s) + Len(t))
  BY <1>1
<1>3. \A i \in 1..(Len(s) + Len(t)) :
         \/ i \in 1..Len(s) /\ (s \o t)[i] = s[i]
         \/ i - Len(s) \in 1..Len(t) /\ (s \o t)[i] = t[i - Len(s)]
  BY <1>1
<1>4. Range(s \o t) = Range(s) \cup Range(t)
  <2>1. DOMAIN s = 1..Len(s) /\ DOMAIN t = 1..Len(t) /\ 1..Len(s) \subseteq 1..(Len(s) + Len(t))
    OBVIOUS
  <2>2. /\ Range(s) = {s[i] : i \in 1..Len(s)} /\ Range(t) = {t[i] : i \in 1..Len(t)}
        /\ Range(s \o t) = {(s \o t)[i] : i \in 1..(Len(s) + Len(t))}
    BY <2>1, <1>1 DEF Range
  <2>3. \A x \in Range(s) \cup Range(t) : x \in Range(s \o t)
    BY <2>1, <2>2, <1>1, <1>2
  <2>4. \A x \in Range(s \o t) : x \in Range(s) \cup Range(t)
    BY <2>2, <1>3
  <2>5. QED
    BY <2>3, <2>4
<1>5. ASSUME IsInjective(s), IsInjective(t), Range(s) \cap Range(t) = {}
      PROVE  IsInjective(s \o t)
  <2> SUFFICES ASSUME NEW a \in 1..(Len(s) + Len(t)), NEW b \in 1..(Len(s) + Len(t)),
                      (s \o t)[a] = (s \o t)[b]
               PROVE  a = b
    BY <1>1 DEF IsInjective
  <2>1. \A i \in 1..Len(s), j \in 1..Len(t) : s[i] # t[j]
    <3>1. \A i \in 1..Len(s), j \in 1..Len(t) : s[i] \in Range(s) /\ t[j] \in Range(t)
      BY DEF Range
    <3>2. QED
      BY <3>1, <1>5
  <2>2. CASE a \in 1..Len(s) /\ b \in 1..Len(s)
    BY <2>2, <1>1, <1>5 DEF IsInjective
  <2>3. CASE a - Len(s) \in 1..Len(t) /\ b - Len(s) \in 1..Len(t)
    <3>1. t[a - Len(s)] = t[b - Len(s)]
      BY <2>3, <1>1
    <3>2. a - Len(s) = b - Len(s)
      BY <3>1, <2>3, <1>5 DEF IsInjective
    <3>3. QED
      BY <3>2
  <2>4. QED
    BY <2>1, <2>2, <2>3, <1>3
<1>6. QED
  BY <1>1, <1>4, <1>5

\* The head of a sequence that holds each page once, and what is behind it.
LEMMA Cut ==
    ASSUME NEW s \in Seq(Pages), NEW n \in 0..Len(s), IsInjective(s)
    PROVE  /\ SubSeq(s, 1, n) \in Seq(Pages) /\ Len(SubSeq(s, 1, n)) = n
           /\ \A i \in 1..n : SubSeq(s, 1, n)[i] = s[i]
           /\ IsInjective(SubSeq(s, 1, n))
           /\ Range(SubSeq(s, 1, n)) = Range(s) \ {s[i] : i \in n + 1 .. Len(s)}
<1>1. /\ SubSeq(s, 1, n) \in Seq(Pages) /\ Len(SubSeq(s, 1, n)) = n
      /\ \A i \in 1..n : SubSeq(s, 1, n)[i] = s[i]
      /\ DOMAIN SubSeq(s, 1, n) = 1..n
  OBVIOUS
<1>2. IsInjective(SubSeq(s, 1, n))
  BY <1>1 DEF IsInjective
<1>3. \A i \in 1..n, j \in n + 1 .. Len(s) : s[i] # s[j]
  BY DEF IsInjective
<1>4. 1..Len(s) = (1..n) \cup (n + 1 .. Len(s))
  OBVIOUS
<1>5. Range(SubSeq(s, 1, n)) = Range(s) \ {s[i] : i \in n + 1 .. Len(s)}
  <2>1. Range(SubSeq(s, 1, n)) = {s[i] : i \in 1..n}
    BY <1>1 DEF Range
  <2>2. Range(s) = {s[i] : i \in 1..Len(s)}
    BY DEF Range
  <2>3. QED
    BY <2>1, <2>2, <1>3, <1>4
<1>6. QED
  BY <1>1, <1>2, <1>5

-----------------------------------------------------------------------------
(* Counting references *)

\* The streams, or the leases, of f that hold the page p, and the keys that name it.
Holders(f, p) == {q \in Rids : p \in Range(f[q])}
Names(bk, p) == {k \in Keys : bk[k] = p}
\* One for a member and none for another.
One(p, S) == IF p \in S THEN 1 ELSE 0

\* The requests that hold a page are finitely many.
LEMMA HoldersCounted ==
    ASSUME NEW f, NEW p
    PROVE  IsFiniteSet(Holders(f, p)) /\ Cardinality(Holders(f, p)) \in Nat
<1>1. Holders(f, p) \subseteq Rids
  BY DEF Holders
<1>2. QED
  BY <1>1, KVPoolAssumption, FS_Subset, FS_CardinalityType

\* A count says whether anyone holds the page.
LEMMA HolderCounted ==
    ASSUME NEW f, NEW p, NEW r \in Rids, p \in Range(f[r])
    PROVE  /\ Cardinality(Holders(f, p)) >= 1
           /\ Cardinality(Holders(f, p)) = 1 => \A q \in Rids : p \in Range(f[q]) => q = r
<1> DEFINE H == Holders(f, p)
<1>1. r \in H /\ IsFiniteSet(H) /\ Cardinality(H) \in Nat
  BY HoldersCounted DEF Holders
<1>2. IsFiniteSet(H \ {r}) /\ Cardinality(H \ {r}) = Cardinality(H) - 1
  BY <1>1, FS_RemoveElement
<1>3. Cardinality(H \ {r}) \in Nat /\ (Cardinality(H \ {r}) = 0 => H \ {r} = {})
  BY <1>2, FS_CardinalityType, FS_EmptySet
<1>4. Cardinality(H) = 1 => H \ {r} = {}
  BY <1>1, <1>2, <1>3
<1>5. QED
  BY <1>1, <1>2, <1>3, <1>4 DEF Holders

\* When one request's pages change, so does the count: by what it gains and loses.
LEMMA Swapped ==
    ASSUME NEW f, f \in [Rids -> Seq(Pages)], NEW r \in Rids, NEW s, NEW p
    PROVE  Cardinality(Holders([f EXCEPT ![r] = s], p))
             = Cardinality(Holders(f, p)) + One(p, Range(s)) - One(p, Range(f[r]))
<1> DEFINE g == [f EXCEPT ![r] = s]
           H == Holders(f, p)
           G == Holders(g, p)
<1>1. g[r] = s /\ \A q \in Rids \ {r} : g[q] = f[q]
  OBVIOUS
<1>2. IsFiniteSet(H) /\ Cardinality(H) \in Nat
  BY HoldersCounted
<1>3. \A q \in Rids \ {r} : q \in G <=> q \in H
  BY <1>1 DEF Holders
<1>4. r \in G <=> p \in Range(s)
  BY <1>1 DEF Holders
<1>5. r \in H <=> p \in Range(f[r])
  BY DEF Holders
<1>6. G \subseteq Rids /\ H \subseteq Rids
  BY DEF Holders
<1> HIDE DEF g, H, G
<1>7. CASE r \in G /\ r \in H
  <2>0. \A q : q \in G <=> q \in H
    BY <1>3, <1>6, <1>7
  <2>1. G = H
    BY <2>0
  <2>2. QED
    BY <2>1, <1>2, <1>4, <1>5, <1>7 DEF One, g, H, G
<1>8. CASE r \notin G /\ r \notin H
  <2>0. \A q : q \in G <=> q \in H
    BY <1>3, <1>6, <1>8
  <2>1. G = H
    BY <2>0
  <2>2. QED
    BY <2>1, <1>2, <1>4, <1>5, <1>8 DEF One, g, H, G
<1>9. CASE r \in G /\ r \notin H
  <2>1. G = H \cup {r}
    BY <1>3, <1>6, <1>9
  <2>2. Cardinality(G) = Cardinality(H) + 1
    BY <2>1, <1>2, <1>9, FS_AddElement
  <2>3. QED
    BY <2>2, <1>2, <1>4, <1>5, <1>9 DEF One, g, H, G
<1>10. CASE r \notin G /\ r \in H
  <2>1. G = H \ {r}
    BY <1>3, <1>6, <1>10
  <2>2. Cardinality(G) = Cardinality(H) - 1
    BY <2>1, <1>2, <1>10, FS_RemoveElement
  <2>3. QED
    BY <2>2, <1>2, <1>4, <1>5, <1>10 DEF One, g, H, G
<1>11. QED
  BY <1>7, <1>8, <1>9, <1>10

\* The index holds a page once.
LEMMA NamedOnce ==
    ASSUME NEW bk, bk \in [Keys -> Pages \cup {None}], OneName(bk), NEW p \in Pages
    PROVE  Cardinality(Names(bk, p)) = One(p, Range(bk))
<1>0. p # None
  BY KVPoolAssumption
<1>1. CASE p \in Range(bk)
  <2>1. PICK k \in Keys : bk[k] = p
    BY <1>1 DEF Range
  <2>2. Names(bk, p) = {k}
    BY <2>1, <1>0 DEF Names, OneName
  <2>3. QED
    BY <2>2, <1>1, FS_Singleton DEF One
<1>2. CASE p \notin Range(bk)
  <2>1. Names(bk, p) = {}
    BY <1>2 DEF Names, Range
  <2>2. QED
    BY <2>1, <1>2, FS_EmptySet DEF One
<1>3. QED
  BY <1>1, <1>2

\* The references there are to a page.
Count(pg, ls, bk, p) == Cardinality(Holders(pg, p)) + Cardinality(Holders(ls, p)) + One(p, Range(bk))
Conserved == \A p \in Pages : owners[p] = Count(pages, lease, byKey, p)

\* That owners counts references, in this form and in the property's.
LEMMA SameCount ==
    ASSUME Typed, OneName(byKey)
    PROVE  PagesConserved <=> Conserved
<1>1. ASSUME NEW p \in Pages
      PROVE  Cardinality({k \in Keys : byKey[k] = p}) = One(p, Range(byKey))
  BY NamedOnce DEF Names, Typed
<1>2. QED
  BY <1>1 DEF PagesConserved, Conserved, Count, Holders

\* ... and after a step.
LEMMA SameCountNext ==
    ASSUME Typed', OneName(byKey)'
    PROVE  PagesConserved' <=> Conserved'
<1>1. ASSUME NEW p \in Pages
      PROVE  Cardinality({k \in Keys : byKey'[k] = p}) = One(p, Range(byKey'))
  BY NamedOnce DEF Names, Typed
<1>2. QED
  BY <1>1 DEF PagesConserved, Conserved, Count, Holders

\* What a request's stream, its lease and the index hold have owners, and no page
\* with one owner is held twice.
LEMMA Owned ==
    ASSUME Inv, NEW p \in Pages
    PROVE  /\ p \in Range(byKey) => owners[p] >= 1
           /\ \A r \in Rids :
                /\ p \in Range(pages[r]) \cup Range(lease[r]) => owners[p] >= 1
                /\ p \in Range(pages[r]) \cup Range(lease[r]) /\ p \in Range(byKey) => owners[p] >= 2
                /\ p \in Range(pages[r]) /\ owners[p] = 1 =>
                      \A q \in Rids : /\ p \notin Range(lease[q])
                                      /\ q # r => p \notin Range(pages[q])
<1>1. owners[p] = Cardinality(Holders(pages, p)) + Cardinality(Holders(lease, p)) + One(p, Range(byKey))
  BY SameCount DEF Inv, Conserved, Count
<1>2. Cardinality(Holders(pages, p)) \in Nat /\ Cardinality(Holders(lease, p)) \in Nat
  BY HoldersCounted
<1>3. One(p, Range(byKey)) \in {0, 1} /\ (p \in Range(byKey) => One(p, Range(byKey)) = 1)
  BY DEF One
<1>4. ASSUME NEW r \in Rids
      PROVE  /\ p \in Range(pages[r]) => Cardinality(Holders(pages, p)) >= 1
             /\ p \in Range(lease[r]) => Cardinality(Holders(lease, p)) >= 1
             /\ p \in Range(pages[r]) /\ Cardinality(Holders(pages, p)) = 1
                   => \A q \in Rids : p \in Range(pages[q]) => q = r
  BY HolderCounted
<1>5. QED
  BY <1>1, <1>2, <1>3, <1>4

\* A step counts what r's stream, once it is pg, r's lease, once it is ls, and the
\* index gain and lose.
Balanced(r, pg, ls) ==
    \A p \in Pages :
        owners'[p] = owners[p] + One(p, Range(pg)) - One(p, Range(pages[r]))
                               + One(p, Range(ls)) - One(p, Range(lease[r]))
                               + One(p, Range(byKey')) - One(p, Range(byKey))

\* Conservation, when a step changes one stream, its lease and the index.
LEMMA Recounted ==
    ASSUME Inv, Typed', OneName(byKey)', NEW r \in Rids, NEW pg, NEW ls,
           pages' = [pages EXCEPT ![r] = pg], lease' = [lease EXCEPT ![r] = ls],
           Balanced(r, pg, ls)
    PROVE  PagesConserved'
<1> SUFFICES ASSUME NEW p \in Pages
             PROVE  owners'[p] = Count(pages', lease', byKey', p)
  BY SameCountNext DEF Conserved
<1>1. owners[p] = Cardinality(Holders(pages, p)) + Cardinality(Holders(lease, p)) + One(p, Range(byKey))
  BY SameCount DEF Inv, Conserved, Count
<1>2. /\ Cardinality(Holders(pages, p)) \in Nat /\ Cardinality(Holders(lease, p)) \in Nat
      /\ Cardinality(Holders(pages', p)) \in Nat /\ Cardinality(Holders(lease', p)) \in Nat
  BY HoldersCounted
<1>3. Cardinality(Holders(pages', p))
         = Cardinality(Holders(pages, p)) + One(p, Range(pg)) - One(p, Range(pages[r]))
  <2>1. pages \in [Rids -> Seq(Pages)]
    BY DEF Inv, Typed
  <2>2. Cardinality(Holders([pages EXCEPT ![r] = pg], p))
           = Cardinality(Holders(pages, p)) + One(p, Range(pg)) - One(p, Range(pages[r]))
    BY <2>1, Swapped
  <2>3. QED
    BY <2>2
<1>4. Cardinality(Holders(lease', p))
         = Cardinality(Holders(lease, p)) + One(p, Range(ls)) - One(p, Range(lease[r]))
  <2>1. lease \in [Rids -> Seq(Pages)]
    BY DEF Inv, Typed
  <2>2. Cardinality(Holders([lease EXCEPT ![r] = ls], p))
           = Cardinality(Holders(lease, p)) + One(p, Range(ls)) - One(p, Range(lease[r]))
    BY <2>1, Swapped
  <2>3. QED
    BY <2>2
<1>5. \A S : One(p, S) \in {0, 1}
  BY DEF One
<1>6. QED
  BY <1>1, <1>2, <1>3, <1>4, <1>5 DEF Count, Balanced

-----------------------------------------------------------------------------
(* What a step of one request leaves to prove *)

\* What the invariant reads of a request.
Self(r) == <<pages[r], lease[r], stored[r], cursor[r], flight[r], reserved[r], stage[r], host[r]>>

\* A step of r changes nothing of another request, neither what its pages hold
\* nor that a page is its own.
Others(r) == \A q \in Rids \ {r} : Self(q)' = Self(q)
Harmless(r) ==
    \A q \in Rids \ {r} :
        /\ \A p \in Range(pages[q]) \cup Range(lease[q]) : content'[p] = content[p]
        /\ \A p \in Range(pages[q]) : owners[p] = 1 => owners'[p] = 1

\* Another request is as it was.
LEMMA OtherSound ==
    ASSUME Inv, NEW r \in Rids, Others(r), Harmless(r), NEW q \in Rids \ {r}
    PROVE  Sound(q)'
<1>1. /\ pages'[q] = pages[q] /\ lease'[q] = lease[q] /\ stored'[q] = stored[q] /\ cursor'[q] = cursor[q]
      /\ flight'[q] = flight[q] /\ reserved'[q] = reserved[q] /\ stage'[q] = stage[q] /\ host'[q] = host[q]
  BY DEF Others, Self
<1>2. /\ Sound(q) /\ pages[q] \in Seq(Pages) /\ lease[q] \in Seq(Pages) /\ stored[q] \in Nat
      /\ flight[q] \in Nat /\ host[q] \in Copies
  BY DEF Inv, Typed
<1>3. Streaming(q)'
  BY <1>1, <1>2 DEF Sound, Streaming
<1>4. Copied(q)'
  BY <1>1, <1>2 DEF Sound, Copied, KeyAt
<1>5. Reads(q)'
  <2>1. ASSUME NEW i \in 1..stored[q] PROVE content'[pages[q][i]] = KeyAt(q, i)
    <3>1. i \in DOMAIN pages[q] /\ pages[q][i] \in Range(pages[q])
      BY <1>2 DEF Sound, Streaming, Range
    <3>2. content'[pages[q][i]] = content[pages[q][i]]
      BY <3>1 DEF Harmless
    <3>3. QED
      BY <3>2, <1>2 DEF Sound, Reads
  <2>2. ASSUME NEW i \in DOMAIN lease[q] PROVE content'[lease[q][i]] = KeyAt(q, i)
    <3>1. lease[q][i] \in Range(lease[q])
      BY DEF Range
    <3>2. content'[lease[q][i]] = content[lease[q][i]]
      BY <3>1 DEF Harmless
    <3>3. QED
      BY <3>2, <1>2 DEF Sound, Reads
  <2>3. QED
    BY <2>1, <2>2, <1>1 DEF Reads, KeyAt
<1>6. Private(q)'
  <2>1. Bound(q)' = Bound(q)
    BY <1>1 DEF Bound
  <2>2. Bound(q) \in Nat
    BY <1>2 DEF Bound, Copies
  <2>3. ASSUME NEW i \in Bound(q) + 1 .. Len(pages[q]) PROVE owners'[pages[q][i]] = 1
    <3>1. i \in DOMAIN pages[q] /\ pages[q][i] \in Range(pages[q])
      BY <1>2, <2>2 DEF Range
    <3>2. owners[pages[q][i]] = 1
      BY <1>2 DEF Sound, Private
    <3>3. QED
      BY <3>1, <3>2 DEF Harmless
  <2>4. QED
    BY <2>1, <2>3, <1>1 DEF Private
<1>7. QED
  BY <1>3, <1>4, <1>5, <1>6 DEF Sound

\* So the invariant is kept when r is sound and the index and the counts are.
LEMMA Kept ==
    ASSUME Inv, NEW r \in Rids, Others(r), Harmless(r),
           Typed', Budgeted', OneName(byKey)', IndexReads', PagesConserved', Sound(r)'
    PROVE  Inv'
<1>1. \A q \in Rids \ {r} : Sound(q)'
  BY OtherSound
<1>2. QED
  BY <1>1 DEF Inv

\* A step that changes nothing the invariant reads.
LEMMA Frame ==
    ASSUME Inv, Budgeted',
           UNCHANGED <<owners, byKey, content, pages, lease, stored, cursor, flight, reserved, stage, host>>
    PROVE  Inv'
<1>1. Typed' /\ OneName(byKey)' /\ IndexReads' /\ PagesConserved'
  BY DEF Inv, Typed, OneName, IndexReads, PagesConserved
<1>2. \A r \in Rids : Sound(r)'
  BY DEF Inv, Sound, Streaming, Copied, Reads, Private, Bound, KeyAt
<1>3. QED
  BY <1>1, <1>2 DEF Inv

\* A request whose prompt is known.
LEMMA Prompt ==
    ASSUME NEW r \in Rids
    PROVE  /\ Chain[r] \in Seq(Keys) /\ Len(Chain[r]) \in Nat /\ Len(Chain[r]) >= 1 /\ IsInjective(Chain[r])
           /\ Limit[r] \in Nat
<1>1. IsFiniteSet(Pages) /\ Cardinality(Pages) \in Nat
  BY KVPoolAssumption, FS_CardinalityType
<1>2. Chain[r] \in Seq(Keys) /\ Len(Chain[r]) \in Nat /\ Len(Chain[r]) >= 1 /\ Limit[r] \in Nat
  BY <1>1, KVPoolAssumption
<1>3. \A i, j \in 1..Len(Chain[r]) : Chain[r][i] = Chain[r][j] => i = j
  BY KVPoolAssumption
<1>4. QED
  BY <1>2, <1>3 DEF IsInjective

-----------------------------------------------------------------------------
(* The operators the actions are made of *)

\* A run of cached pages: they name the first keys of the prompt.
LEMMA Run ==
    ASSUME Typed, OneName(byKey), NEW r \in Rids, NEW n \in 0..Len(Chain[r])
    PROVE  /\ PagesFor(r, n) \in Seq(Pages) /\ Len(PagesFor(r, n)) \in 0..n
           /\ \A i \in 1..Len(PagesFor(r, n)) :
                 PagesFor(r, n)[i] = byKey[Chain[r][i]] /\ PagesFor(r, n)[i] \in Range(byKey) \ {None}
           /\ IsInjective(PagesFor(r, n))
<1> DEFINE hits == {i \in 0..n : \A j \in 1..i : byKey[Chain[r][j]] # None}
           len == CHOOSE i \in hits : \A j \in hits : j <= i
<1>0. /\ Chain[r] \in Seq(Keys) /\ Len(Chain[r]) \in Nat /\ IsInjective(Chain[r])
      /\ \A i \in 1..n : i \in DOMAIN Chain[r] /\ Chain[r][i] \in Keys
  BY Prompt
<1>1. 0 \in hits /\ hits \subseteq 0..n
  OBVIOUS
<1>2. \E m \in hits : \A j \in hits : j <= m
  <2>1. n \in Nat
    BY <1>0
  <2>2. QED
    BY <2>1, <1>1, Largest
<1>3. len \in hits
  BY <1>2
<1>4. PagesFor(r, n) = [i \in 1..len |-> byKey[Chain[r][i]]]
  BY DEF PagesFor
<1>5. len \in 0..n /\ \A i \in 1..len : byKey[Chain[r][i]] # None
  BY <1>3
<1> HIDE DEF hits, len
<1>6. \A i \in 1..len : byKey[Chain[r][i]] \in Pages /\ byKey[Chain[r][i]] \in Range(byKey) \ {None}
  BY <1>0, <1>5 DEF Typed, Range
<1>7. PagesFor(r, n) \in Seq(Pages) /\ Len(PagesFor(r, n)) = len /\ DOMAIN PagesFor(r, n) = 1..len
  BY <1>4, <1>5, <1>6
<1>8. \A i \in 1..len : PagesFor(r, n)[i] = byKey[Chain[r][i]]
  BY <1>4
<1>9. IsInjective(PagesFor(r, n))
  <2> SUFFICES ASSUME NEW a \in 1..len, NEW b \in 1..len, byKey[Chain[r][a]] = byKey[Chain[r][b]]
               PROVE  a = b
    BY <1>7, <1>8 DEF IsInjective
  <2>1. Chain[r][a] \in Keys /\ Chain[r][b] \in Keys /\ byKey[Chain[r][a]] # None
    BY <1>0, <1>5
  <2>2. Chain[r][a] = Chain[r][b]
    BY <2>1 DEF OneName
  <2>3. QED
    BY <2>2, <1>0, <1>5 DEF IsInjective
<1>10. QED
  BY <1>5, <1>6, <1>7, <1>8, <1>9

\* What a grant gives: each page once, none that a stream or a lease holds, and all
\* that it evicts.  own counts the references there are and maybe more.
LEMMA Granted ==
    ASSUME Inv, NEW own, own \in [Pages -> Nat], \A p \in Pages : own[p] >= owners[p],
           NEW n \in Nat, NEW E \in Evictions(own, n), NEW got \in Grants(own, E, n)
    PROVE  /\ got \in Seq(Pages) /\ Len(got) = n /\ IsInjective(got)
           /\ E \subseteq Range(got) /\ Range(got) \subseteq Pages
           /\ \A p \in E : p \in Range(byKey) /\ own[p] = 1 /\ owners[p] = 1
           /\ \A p \in Range(got) : /\ own[p] <= 1
                                    /\ p \notin E => own[p] = 0 /\ owners[p] = 0 /\ p \notin Range(byKey)
                                    /\ \A q \in Rids : p \notin Range(pages[q]) /\ p \notin Range(lease[q])
<1>1. E \subseteq EvictableOf(own, byKey, parent)
  BY DEF Evictions
<1>2. \A p \in E : p \in Range(byKey) \ {None} /\ own[p] <= 1
  BY <1>1 DEF EvictableOf
<1>3. Range(byKey) \ {None} \subseteq Pages
  BY DEF Inv, Typed, Range
<1>4. \A p \in E : p \in Pages /\ own[p] = 1 /\ owners[p] = 1 /\ owners[p] \in Nat
  <2> SUFFICES ASSUME NEW p \in E PROVE p \in Pages /\ own[p] = 1 /\ owners[p] = 1 /\ owners[p] \in Nat
    OBVIOUS
  <2>1. p \in Pages /\ owners[p] >= 1
    BY <1>2, <1>3, Owned
  <2>2. owners[p] \in Nat /\ own[p] \in Nat /\ own[p] >= owners[p]
    BY <2>1 DEF Inv, Typed
  <2>3. QED
    BY <2>1, <2>2, <1>2
<1>5. /\ got \in [1..n -> FreeOf(own) \cup E] /\ E \subseteq Range(got)
      /\ \A i, j \in 1..n : i # j => got[i] # got[j]
  BY DEF Grants, Distinct
<1>6. FreeOf(own) \subseteq Pages
  BY DEF FreeOf
<1>7. got \in Seq(Pages) /\ Len(got) = n /\ IsInjective(got) /\ Range(got) \subseteq FreeOf(own) \cup E
  <2>1. got \in [1..n -> Pages] /\ DOMAIN got = 1..n
    BY <1>4, <1>5, <1>6
  <2>2. QED
    BY <2>1, <1>5 DEF IsInjective, Range
<1>8. ASSUME NEW p \in Range(got)
      PROVE  /\ p \in Pages /\ own[p] <= 1
             /\ p \notin E => own[p] = 0 /\ owners[p] = 0 /\ p \notin Range(byKey)
             /\ \A q \in Rids : p \notin Range(pages[q]) /\ p \notin Range(lease[q])
  <2>1. p \in Pages
    BY <1>4, <1>6, <1>7
  <2>2. CASE p \in E
    <3>1. owners[p] = 1 /\ p \in Range(byKey) /\ own[p] = 1
      BY <2>2, <1>2, <1>4
    <3>2. QED
      BY <3>1, <2>1, <2>2, Owned
  <2>3. CASE p \notin E
    <3>1. own[p] = 0 /\ owners[p] = 0
      BY <2>1, <2>3, <1>7 DEF FreeOf, Inv, Typed
    <3>2. QED
      BY <3>1, <2>1, Owned
  <2>4. QED
    BY <2>2, <2>3
<1>9. QED
  BY <1>2, <1>4, <1>5, <1>7, <1>8

Unfiled(pg, from, to) == \A i \in from..to : pg[i] \notin Range(byKey)

\* The index owns what it names, and names pages of pg by the keys of their positions.
Filed(r, pg, from, to) ==
    /\ byKey' \in [Keys -> Pages \cup {None}] /\ OneName(byKey') /\ owners' \in [Pages -> Nat]
    /\ \A k \in Keys : \/ byKey'[k] = byKey[k]
                       \/ \E i \in from..to : Chain[r][i] = k /\ byKey'[k] = pg[i]
    /\ \A p \in Pages : owners'[p] = owners[p] + One(p, Range(byKey')) - One(p, Range(byKey))
    /\ \A p \in Pages : (\A i \in from..to : pg[i] # p) => owners'[p] = owners[p]

\* What filing pages of a prompt does, when none of them is filed: the index names
\* each of them it takes by the key of its position, and owns it.
LEMMA Files ==
    ASSUME Inv, NEW r \in Rids, NEW pg \in Seq(Pages), IsInjective(pg),
           NEW from \in Nat \ {0}, NEW to \in Nat, to <= Len(Chain[r]), to <= Len(pg),
           Unfiled(pg, from, to), File(r, pg, from, to)
    PROVE  Filed(r, pg, from, to)
<1> DEFINE new == {i \in from..to : byKey[Chain[r][i]] = None}
           filed == {pg[i] : i \in new}
           at(k) == CHOOSE i \in new : Chain[r][i] = k
<1>0. /\ IsInjective(Chain[r]) /\ byKey \in [Keys -> Pages \cup {None}] /\ owners \in [Pages -> Nat]
      /\ OneName(byKey) /\ None \notin Pages
  BY Prompt, KVPoolAssumption DEF Inv, Typed
<1>1. \A i \in from..to : i \in DOMAIN Chain[r] /\ Chain[r][i] \in Keys /\ i \in DOMAIN pg /\ pg[i] \in Pages
  <2>1. Chain[r] \in Seq(Keys) /\ Len(Chain[r]) \in Nat
    BY Prompt
  <2>2. QED
    BY <2>1
<1>2. /\ byKey' = [k \in Keys |-> IF \E i \in new : Chain[r][i] = k THEN pg[at(k)] ELSE byKey[k]]
      /\ owners' = Plus(owners, filed)
  BY DEF File
<1>3. ASSUME NEW i \in new PROVE byKey'[Chain[r][i]] = pg[i] /\ byKey[Chain[r][i]] = None
  <2>1. at(Chain[r][i]) \in new /\ Chain[r][at(Chain[r][i])] = Chain[r][i]
    OBVIOUS
  <2>2. at(Chain[r][i]) = i
    BY <2>1, <1>0, <1>1 DEF IsInjective
  <2>3. QED
    BY <2>2, <1>1, <1>2
<1>4. ASSUME NEW k \in Keys, \A i \in new : Chain[r][i] # k PROVE byKey'[k] = byKey[k]
  BY <1>2, <1>4
<1>5. \A i \in new : i \in from..to /\ pg[i] \in Pages /\ pg[i] \notin Range(byKey) /\ Chain[r][i] \in Keys
  BY <1>1 DEF Unfiled
<1>6. \A i, j \in new : pg[i] = pg[j] => i = j
  BY <1>1 DEF IsInjective
<1> HIDE DEF new, at
<1>7. \A k \in Keys : \/ byKey'[k] = byKey[k]
                      \/ \E i \in new : Chain[r][i] = k /\ byKey'[k] = pg[i]
  BY <1>3, <1>4
<1>8. byKey' \in [Keys -> Pages \cup {None}]
  <2>1. ASSUME NEW k \in Keys PROVE byKey'[k] \in Pages \cup {None}
    <3>1. CASE byKey'[k] = byKey[k]
      BY <3>1, <1>0
    <3>2. CASE \E i \in new : Chain[r][i] = k /\ byKey'[k] = pg[i]
      BY <3>2, <1>5
    <3>3. QED
      BY <3>1, <3>2, <1>7
  <2>2. QED
    BY <2>1, <1>2
<1>9. \A k \in Keys : byKey[k] \in Range(byKey)
  BY <1>0 DEF Range
<1>10. OneName(byKey')
  <2> SUFFICES ASSUME NEW k \in Keys, NEW l \in Keys, byKey'[k] # None, byKey'[k] = byKey'[l]
               PROVE  k = l
    BY DEF OneName
  <2>1. CASE byKey'[k] = byKey[k] /\ byKey'[l] = byKey[l]
    BY <2>1, <1>0 DEF OneName
  <2>2. CASE byKey'[k] = byKey[k] /\ \E i \in new : Chain[r][i] = l /\ byKey'[l] = pg[i]
    BY <2>2, <1>5, <1>9
  <2>3. CASE byKey'[l] = byKey[l] /\ \E i \in new : Chain[r][i] = k /\ byKey'[k] = pg[i]
    BY <2>3, <1>5, <1>9
  <2>4. CASE /\ \E i \in new : Chain[r][i] = k /\ byKey'[k] = pg[i]
             /\ \E i \in new : Chain[r][i] = l /\ byKey'[l] = pg[i]
    BY <2>4, <1>6
  <2>5. QED
    BY <2>1, <2>2, <2>3, <2>4, <1>7
<1>11. ASSUME NEW p \in Pages
       PROVE  /\ owners'[p] = owners[p] + One(p, Range(byKey')) - One(p, Range(byKey))
              /\ owners'[p] \in Nat /\ (p \notin filed => owners'[p] = owners[p])
  <2>1. owners'[p] = IF p \in filed THEN owners[p] + 1 ELSE owners[p]
    BY <1>2 DEF Plus
  <2>2. p # None /\ owners[p] \in Nat /\ DOMAIN byKey = Keys /\ DOMAIN byKey' = Keys
    BY <1>0, <1>8
  <2>3. CASE p \in filed
    <3>1. PICK i \in new : p = pg[i]
      BY <2>3
    <3>2. p \in Range(byKey') /\ p \notin Range(byKey)
      BY <3>1, <2>2, <1>3, <1>5 DEF Range
    <3>3. QED
      BY <3>2, <2>1, <2>2, <2>3 DEF One
  <2>4. CASE p \notin filed
    <3>1. ASSUME NEW k \in Keys, byKey'[k] = p PROVE byKey[k] = p
      BY <3>1, <2>4, <1>7
    <3>2. ASSUME NEW k \in Keys, byKey[k] = p PROVE byKey'[k] = p
      <4>1. \A i \in new : Chain[r][i] # k
        BY <3>2, <2>2, <1>3
      <4>2. QED
        BY <4>1, <3>2, <1>4
    <3>3. p \in Range(byKey') <=> p \in Range(byKey)
      BY <3>1, <3>2, <2>2 DEF Range
    <3>4. QED
      BY <3>3, <2>1, <2>2, <2>4 DEF One
  <2>5. QED
    BY <2>3, <2>4
<1>12. owners' \in [Pages -> Nat]
  BY <1>2, <1>11 DEF Plus
<1>13. \A p \in Pages : (\A i \in from..to : pg[i] # p) => p \notin filed
  BY <1>5
<1>14. QED
  BY <1>5, <1>7, <1>8, <1>10, <1>11, <1>12, <1>13 DEF Filed

\* A page of one stream, or of its lease, once S is released or run is retained.
LEMMA PlusMinus ==
    ASSUME Typed, NEW S
    PROVE  /\ Plus(owners, S) \in [Pages -> Nat]
           /\ \A p \in Pages : /\ Plus(owners, S)[p] = owners[p] + One(p, S)
                               /\ Minus(owners, S)[p] = owners[p] - One(p, S)
<1>1. \A q \in Pages : owners[q] \in Nat
  BY DEF Typed
<1>2. QED
  BY <1>1 DEF Plus, Minus, One

\* A request's own pages and the pages of its lease are pages.
LEMMA HeldArePages ==
    ASSUME Typed, NEW r \in Rids
    PROVE  /\ pages[r] \in Seq(Pages) /\ lease[r] \in Seq(Pages)
           /\ Range(pages[r]) \subseteq Pages /\ Range(lease[r]) \subseteq Pages
           /\ \A i \in 1..Len(pages[r]) : pages[r][i] \in Range(pages[r])
BY DEF Typed, Range

-----------------------------------------------------------------------------
(* What steps do to the counts *)

\* Releasing pages of a stream and its lease.
LEMMA Releases ==
    ASSUME Inv, NEW r \in Rids, NEW pg \in Seq(Pages), Range(pg) \subseteq Range(pages[r]),
           NEW S, S = (Range(pages[r]) \ Range(pg)) \cup Range(lease[r]),
           owners' = Minus(owners, S), byKey' = byKey, content' = content,
           pages' = [pages EXCEPT ![r] = pg], lease' = [lease EXCEPT ![r] = <<>>]
    PROVE  /\ owners' \in [Pages -> Nat] /\ pages' \in [Rids -> Seq(Pages)] /\ lease' \in [Rids -> Seq(Pages)]
           /\ Balanced(r, pg, <<>>)
           /\ \A p \in Pages \ S : owners'[p] = owners[p]
           /\ Harmless(r) /\ OneName(byKey)' /\ IndexReads'
<1>0. Typed /\ Streaming(r)
  BY DEF Inv, Sound
<1>1. Range(<<>>) = {}
  BY DEF Range
<1>2. Range(pages[r]) \cap Range(lease[r]) = {}
  BY <1>0, <1>1 DEF Streaming
<1>3. ASSUME NEW p \in Pages
      PROVE  /\ owners'[p] \in Nat
             /\ owners'[p] = owners[p] + One(p, Range(pg)) - One(p, Range(pages[r]))
                                       + One(p, Range(<<>>)) - One(p, Range(lease[r]))
                                       + One(p, Range(byKey')) - One(p, Range(byKey))
             /\ p \notin S => owners'[p] = owners[p]
  <2>1. owners'[p] = owners[p] - One(p, S) /\ owners[p] \in Nat
    BY <1>0, PlusMinus DEF Typed
  <2>2. p \in S => owners[p] >= 1
    BY Owned
  <2>3. /\ One(p, Range(<<>>)) = 0
        /\ One(p, S) = One(p, Range(pages[r])) - One(p, Range(pg)) + One(p, Range(lease[r]))
    BY <1>1, <1>2 DEF One
  <2>4. One(p, Range(byKey)) \in {0, 1} /\ One(p, Range(pages[r])) \in {0, 1} /\ One(p, Range(pg)) \in {0, 1}
        /\ One(p, Range(lease[r])) \in {0, 1} /\ One(p, S) \in {0, 1} /\ (p \notin S => One(p, S) = 0)
        /\ (p \in S => One(p, S) = 1)
    BY DEF One
  <2>5. QED
    BY <2>1, <2>2, <2>3, <2>4
<1>4. owners' \in [Pages -> Nat]
  BY <1>3 DEF Minus
<1>5. pages' \in [Rids -> Seq(Pages)] /\ lease' \in [Rids -> Seq(Pages)]
  BY <1>0 DEF Typed
<1>6. Harmless(r)
  <2> SUFFICES ASSUME NEW q \in Rids \ {r}, NEW p \in Range(pages[q]), owners[p] = 1
               PROVE  owners'[p] = 1
    BY DEF Harmless
  <2>1. p \in Pages
    BY <1>0, HeldArePages
  <2>2. p \notin S
    BY <2>1, Owned
  <2>3. QED
    BY <2>1, <2>2, <1>3
<1>7. OneName(byKey)' /\ IndexReads'
  BY DEF Inv, OneName, IndexReads
<1>8. QED
  BY <1>3, <1>4, <1>5, <1>6, <1>7 DEF Balanced

\* Granting pages to a stream, with the pages of its lease and with a run R of pages
\* the index names, which own counts as retained already.
LEMMA GrantCounts ==
    ASSUME Inv, NEW r \in Rids, NEW R, R \subseteq Range(byKey) \ {None},
           R \cap (Range(pages[r]) \cup Range(lease[r])) = {},
           NEW own, own \in [Pages -> Nat], \A p \in Pages : own[p] = owners[p] + One(p, R),
           NEW n \in Nat, NEW E \in Evictions(own, n), NEW got \in Grants(own, E, n),
           GrantPages(own, E, got),
           NEW pg \in Seq(Pages),
           Range(pg) = Range(pages[r]) \cup Range(lease[r]) \cup R \cup Range(got),
           pages' = [pages EXCEPT ![r] = pg], lease' = [lease EXCEPT ![r] = <<>>],
           \A p \in Pages \ Range(got) : content'[p] = content[p]
    PROVE  /\ owners' \in [Pages -> Nat] /\ byKey' \in [Keys -> Pages \cup {None}]
           /\ pages' \in [Rids -> Seq(Pages)] /\ lease' \in [Rids -> Seq(Pages)]
           /\ Balanced(r, pg, <<>>)
           /\ \A p \in Range(got) : owners'[p] = 1
           /\ R \cap Range(got) = {}
           /\ Harmless(r) /\ OneName(byKey)' /\ IndexReads'
<1>0. Typed /\ Streaming(r) /\ OneName(byKey) /\ IndexReads /\ None \notin Pages
  BY KVPoolAssumption DEF Inv, Sound
<1>1. \A p \in Pages : own[p] >= owners[p] /\ owners[p] \in Nat
  <2>1. ASSUME NEW p \in Pages PROVE owners[p] \in Nat /\ One(p, R) \in {0, 1}
    BY <1>0 DEF Typed, One
  <2>2. QED
    BY <2>1
<1>2. /\ got \in Seq(Pages) /\ Len(got) = n /\ IsInjective(got)
      /\ E \subseteq Range(got) /\ Range(got) \subseteq Pages
      /\ \A p \in E : p \in Range(byKey) /\ own[p] = 1 /\ owners[p] = 1
      /\ \A p \in Range(got) : /\ own[p] <= 1
                               /\ p \notin E => own[p] = 0 /\ owners[p] = 0 /\ p \notin Range(byKey)
                               /\ \A q \in Rids : p \notin Range(pages[q]) /\ p \notin Range(lease[q])
  BY <1>1, Granted
<1>3. R \subseteq Pages /\ Range(byKey) \ {None} \subseteq Pages
  BY <1>0 DEF Typed, Range
<1>4. R \cap Range(got) = {}
  <2> SUFFICES ASSUME NEW p \in R, p \in Range(got) PROVE FALSE
    OBVIOUS
  <2>1. p \in Pages /\ owners[p] >= 1 /\ own[p] = owners[p] + 1 /\ owners[p] \in Nat
    BY <1>1, <1>3, Owned DEF One
  <2>2. QED
    BY <2>1, <1>2
<1>5. /\ owners' = [p \in Pages |-> IF p \in Range(got) THEN 1 ELSE own[p]]
      /\ byKey' = [k \in Keys |-> IF byKey[k] \in E THEN None ELSE byKey[k]]
  BY DEF GrantPages
<1>6. owners' \in [Pages -> Nat] /\ byKey' \in [Keys -> Pages \cup {None}]
  BY <1>0, <1>5 DEF Typed
<1>7. pages' \in [Rids -> Seq(Pages)] /\ lease' \in [Rids -> Seq(Pages)]
  BY <1>0 DEF Typed
<1>8. Range(<<>>) = {}
  BY DEF Range
<1>9. Range(pages[r]) \cap Range(lease[r]) = {}
  BY <1>0, <1>8 DEF Streaming
<1>10. ASSUME NEW p \in Pages
       PROVE  p \in Range(byKey') <=> p \in Range(byKey) /\ p \notin E
  <2>1. DOMAIN byKey = Keys /\ DOMAIN byKey' = Keys /\ p # None
    BY <1>0, <1>6 DEF Typed
  <2>2. \A k \in Keys : byKey'[k] = p <=> byKey[k] = p /\ p \notin E
    BY <1>5, <2>1
  <2>3. QED
    BY <2>1, <2>2 DEF Range
<1>11. ASSUME NEW p \in Pages
       PROVE  owners'[p] = owners[p] + One(p, Range(pg)) - One(p, Range(pages[r]))
                                     + One(p, Range(<<>>)) - One(p, Range(lease[r]))
                                     + One(p, Range(byKey')) - One(p, Range(byKey))
  <2>0. owners[p] \in Nat
    BY <1>1
  <2>1. CASE p \in Range(got)
    <3>1. p \notin Range(pages[r]) /\ p \notin Range(lease[r]) /\ p \in Range(pg) /\ owners'[p] = 1
      BY <2>1, <1>2, <1>5
    <3>2. p \notin Range(byKey')
      BY <2>1, <1>2, <1>10
    <3>3. owners[p] = One(p, Range(byKey))
      BY <2>1, <1>2 DEF One
    <3>4. One(p, Range(pages[r])) = 0 /\ One(p, Range(lease[r])) = 0 /\ One(p, Range(pg)) = 1
          /\ One(p, Range(byKey')) = 0 /\ One(p, Range(<<>>)) = 0
      BY <3>1, <3>2, <1>8 DEF One
    <3>5. QED
      BY <3>1, <3>3, <3>4, <2>0
  <2>2. CASE p \notin Range(got)
    <3>1. owners'[p] = owners[p] + One(p, R)
      BY <2>2, <1>5
    <3>2. One(p, Range(byKey')) = One(p, Range(byKey))
      BY <2>2, <1>2, <1>10 DEF One
    <3>3. One(p, Range(pg)) = One(p, Range(pages[r])) + One(p, Range(lease[r])) + One(p, R)
      BY <2>2, <1>9 DEF One
    <3>4. One(p, Range(byKey)) \in {0, 1} /\ One(p, Range(pages[r])) \in {0, 1} /\ One(p, R) \in {0, 1}
          /\ One(p, Range(lease[r])) \in {0, 1} /\ One(p, Range(<<>>)) = 0
      BY <1>8 DEF One
    <3>5. QED
      BY <3>1, <3>2, <3>3, <3>4, <2>0
  <2>3. QED
    BY <2>1, <2>2
<1>12. \A p \in Range(got) : owners'[p] = 1
  BY <1>2, <1>5
<1>13. Harmless(r)
  <2>1. ASSUME NEW q \in Rids \ {r}, NEW p \in Range(pages[q]) \cup Range(lease[q])
        PROVE  p \in Pages /\ p \notin Range(got)
    BY <1>0, <1>2, HeldArePages
  <2>2. ASSUME NEW q \in Rids \ {r}, NEW p \in Range(pages[q]), owners[p] = 1
        PROVE  owners'[p] = 1
    <3>1. p \in Pages /\ p \notin Range(got)
      BY <2>1
    <3>2. p \notin Range(byKey)
      BY <3>1, <2>2, Owned
    <3>3. own[p] = owners[p]
      BY <3>1, <3>2, <2>2 DEF One
    <3>4. QED
      BY <3>1, <3>3, <2>2, <1>5
  <2>3. QED
    BY <2>1, <2>2 DEF Harmless
<1>14. OneName(byKey)'
  BY <1>0, <1>5 DEF OneName
<1>15. IndexReads'
  <2> SUFFICES ASSUME NEW k \in Keys, byKey'[k] # None PROVE content'[byKey'[k]] = k
    BY DEF IndexReads
  <2>1. byKey'[k] = byKey[k] /\ byKey[k] \notin E /\ byKey[k] \in Range(byKey) /\ byKey[k] \in Pages
    BY <1>0, <1>5 DEF Typed, Range
  <2>2. byKey[k] \notin Range(got)
    BY <2>1, <1>2
  <2>3. QED
    BY <2>1, <2>2, <1>0 DEF IndexReads
<1>16. QED
  BY <1>4, <1>6, <1>7, <1>11, <1>12, <1>13, <1>14, <1>15 DEF Balanced

-----------------------------------------------------------------------------
(* Allotments are counted in whole numbers *)

\* A set of pages has a count.
LEMMA PageCount ==
    ASSUME NEW S \in SUBSET Pages
    PROVE  IsFiniteSet(S) /\ Cardinality(S) \in Nat
BY KVPoolAssumption, FS_Subset, FS_CardinalityType

\* The evictable pages are pages of the index.
LEMMA EvictableIndexed ==
    ASSUME Typed, NEW own
    PROVE  /\ EvictableOf(own, byKey, parent) \subseteq Range(byKey) \ {None}
           /\ EvictableOf(own, byKey, parent) \subseteq Pages
<1>1. EvictableOf(own, byKey, parent) \subseteq Range(byKey) \ {None}
  BY DEF EvictableOf
<1>2. Range(byKey) \ {None} \subseteq Pages
  BY DEF Typed, Range
<1>3. QED
  BY <1>1, <1>2

\* The room is a number.
LEMMA RoomTyped ==
    ASSUME Typed, Budgeted
    PROVE  Room \in Int
<1>1. Cardinality(Free) \in Nat
  BY PageCount DEF Free, FreeOf
<1>2. Cardinality(Evictable) \in Nat
  BY PageCount, EvictableIndexed DEF Evictable
<1>3. QED
  BY <1>1, <1>2 DEF Room, Budgeted

\* The part of a cached run that is affordable is its head.
LEMMA RunHead ==
    ASSUME Typed, Budgeted, NEW r \in Rids, NEW s \in Seq(Pages)
    PROVE  \E n \in 0..Len(s) :
              /\ Affordable(r, s) = SubSeq(s, 1, n)
              /\ Cardinality({i \in 1..n : s[i] \in Evictable}) <= Most(0, Allowance(r))
<1> DEFINE cost(n) == Cardinality({i \in 1..n : s[i] \in Evictable})
           fits == {n \in 0..Len(s) : cost(n) <= Most(0, Allowance(r))}
           most == CHOOSE n \in fits : \A m \in fits : m <= n
<1>1. Allowance(r) \in Int
  BY RoomTyped DEF Allowance, Budgeted
<1>2. cost(0) = 0
  <2>1. {i \in 1..0 : s[i] \in Evictable} = {}
    OBVIOUS
  <2>2. QED
    BY <2>1, FS_EmptySet
<1>3. 0 \in fits
  BY <1>1, <1>2 DEF Most
<1>4. \E n \in fits : \A m \in fits : m <= n
  <2>1. fits \subseteq 0..Len(s) /\ Len(s) \in Nat
    OBVIOUS
  <2>2. QED
    BY <2>1, <1>3, Largest
<1>5. most \in 0..Len(s) /\ cost(most) <= Most(0, Allowance(r))
  BY <1>4
<1>6. Affordable(r, s) = SubSeq(s, 1, most)
  BY DEF Affordable
<1>7. QED
  BY <1>5, <1>6

\* A recount leaves numbers.
LEMMA Recounts ==
    ASSUME Typed, Budgeted, NEW r \in Rids, NEW n \in Int, NEW len \in Int, NEW ln \in SUBSET Pages,
           Recount(r, n, len, ln)
    PROVE  allot' \in [Rids -> [pages : Int, remaining : Int]] /\ unused' \in Int
<1>1. Cardinality(ln) \in Nat
  BY PageCount
<1>2. Remaining(n, len - Cardinality(ln)) \in Int
  BY <1>1 DEF Remaining, Most
<1>3. CASE ~Allotted(r)
  BY <1>3 DEF Recount, Budgeted
<1>4. CASE Allotted(r)
  BY <1>2, <1>4 DEF Recount, Budgeted
<1>5. QED
  BY <1>3, <1>4

\* So does a release.
LEMMA ReleaseBudgeted ==
    ASSUME Typed, Budgeted, NEW r \in Rids, NEW S, NEW len \in Int, NEW refund, ReleasePages(r, S, len, refund),
           S \subseteq Pages
    PROVE  Budgeted'
<1> DEFINE own == Minus(owners, S)
           gone == {p \in S \ lent[r] :
                       ~refund \/ (own[p] > 0 /\ p \notin EvictableOf(own, byKey, parent))}
<1>1. Cardinality(gone) \in Nat
  BY PageCount
<1> HIDE DEF gone
<1>2. /\ lent' = [lent EXCEPT ![r] = @ \ S]
      /\ Recount(r, Most(0, allot[r].pages - Cardinality(gone)), len, lent[r] \ S)
  BY DEF ReleasePages, gone
<1>3. lent[r] \ S \in SUBSET Pages /\ allot[r].pages \in Int
  BY DEF Budgeted
<1>4. Most(0, allot[r].pages - Cardinality(gone)) \in Int
  BY <1>1, <1>3 DEF Most
<1>5. allot' \in [Rids -> [pages : Int, remaining : Int]] /\ unused' \in Int
  BY <1>2, <1>3, <1>4, Recounts
<1>6. QED
  BY <1>2, <1>5 DEF Budgeted

\* The pages a request's step needs are a number.
LEMMA NewTyped ==
    ASSUME Typed, NEW r \in Rids, NEW n \in Nat
    PROVE  /\ Held(r) \in Seq(Pages) /\ Written(r) \in Nat /\ New(r, n) \in Nat
<1>1. lease[r] \in Seq(Pages) /\ pages[r] \in Seq(Pages) /\ stored[r] \in Nat
  BY DEF Typed
<1>2. Held(r) \in Seq(Pages) /\ Written(r) \in Nat
  BY <1>1 DEF Held, Written
<1>3. QED
  BY <1>2 DEF New, Most

\* Every step keeps the allotments' types.
LEMMA BudgetKept ==
    ASSUME Inv, Next
    PROVE  Budgeted'
<1>0. Typed /\ Budgeted /\ OneName(byKey)
  BY DEF Inv
<1>1. PICK r \in Rids :
        \/ Ingest(r) \/ Reserve(r) \/ Unreserve(r) \/ Lease(r)
        \/ \E n \in Spans(r) : Admit(r, n) \/ AdmitRefused(r, n)
        \/ Rollback(r) \/ Commit(r) \/ Drop(r)
        \/ OffloadClaim(r) \/ OffloadCommit(r) \/ OffloadAbandon(r)
        \/ ReloadTake(r) \/ ReloadShort(r) \/ ReloadLand(r)
        \/ Remove(r)
  BY DEF Next
<1>2. /\ pages[r] \in Seq(Pages) /\ Range(pages[r]) \subseteq Pages /\ Range(lease[r]) \subseteq Pages
      /\ allot[r].pages \in Int /\ allot[r].remaining \in Int /\ lent[r] \in SUBSET Pages
      /\ Len(pages[r]) \in Nat /\ reserved[r] \in Nat
  BY SMTT(30), <1>0, HeldArePages DEF Budgeted, Typed
<1>3. CASE \/ Ingest(r) \/ (\E n \in Spans(r) : AdmitRefused(r, n)) \/ Commit(r) \/ OffloadClaim(r)
           \/ OffloadAbandon(r) \/ ReloadShort(r) \/ ReloadLand(r)
  <2>1. UNCHANGED <<lent, allot, unused>>
    BY <1>3 DEF Ingest, AdmitRefused, Commit, OffloadClaim, OffloadAbandon, ReloadShort, ReloadLand, streamVars
  <2>2. QED
    BY <2>1, <1>0 DEF Budgeted
<1>4. CASE Reserve(r)
  <2>1. Need(r) \in Int
    <3>1. Len(Chain[r]) - 1 \in 0..Len(Chain[r]) /\ Len(Chain[r]) \in Nat
      BY Prompt
    <3>2. PagesFor(r, Len(Chain[r]) - 1) \in Seq(Pages)
      BY <3>1, <1>0, Run
    <3>3. Range(PagesFor(r, Len(Chain[r]) - 1)) \in SUBSET Pages
      BY <3>2 DEF Range
    <3>4. QED
      BY <3>1, <3>3, PageCount DEF Need
  <2>2. CASE UNCHANGED <<allot, unused>>
    BY <2>2, <1>4, <1>0 DEF Reserve, Budgeted, streamVars
  <2>3. CASE /\ allot' = [allot EXCEPT ![r] = [pages |-> Need(r), remaining |-> Need(r)]]
             /\ unused' = unused + Need(r)
    BY <2>1, <2>3, <1>4, <1>0 DEF Reserve, Budgeted, streamVars
  <2>4. QED
    BY <2>2, <2>3, <1>4 DEF Reserve
<1>5. CASE Unreserve(r) \/ Remove(r)
  <2>1. /\ unused' = unused - allot[r].remaining /\ allot' = [allot EXCEPT ![r] = NoAllot]
        /\ UNCHANGED lent \/ lent' = [lent EXCEPT ![r] = {}]
    BY <1>5 DEF Unreserve, Remove, streamVars
  <2>2. QED
    BY <2>1, <1>0, <1>2 DEF Budgeted, NoAllot
<1>6. CASE Lease(r)
  <2> DEFINE run == Affordable(r, PagesFor(r, Len(Chain[r]) - 1))
             ln == lent[r] \cup (Range(run) \ Evictable)
  <2>1. run \in Seq(Pages) /\ Range(run) \subseteq Pages
    <3>1. Len(Chain[r]) - 1 \in 0..Len(Chain[r])
      BY Prompt
    <3>2. PagesFor(r, Len(Chain[r]) - 1) \in Seq(Pages)
      BY <3>1, <1>0, Run
    <3>3. run \in Seq(Pages)
      <4>1. PICK n \in 0..Len(PagesFor(r, Len(Chain[r]) - 1)) :
               run = SubSeq(PagesFor(r, Len(Chain[r]) - 1), 1, n)
        BY <3>2, <1>0, RunHead
      <4>2. QED
        BY <3>2, <4>1
    <3>4. QED
      BY <3>3 DEF Range
  <2> HIDE DEF run
  <2>2. lent' = [lent EXCEPT ![r] = ln] /\ Recount(r, allot[r].pages, Len(run), ln)
    BY <1>6 DEF Lease, run
  <2>3. ln \in SUBSET Pages /\ Len(run) \in Int
    BY <2>1, <1>2
  <2> HIDE DEF ln
  <2>4. allot' \in [Rids -> [pages : Int, remaining : Int]] /\ unused' \in Int
    BY <2>2, <2>3, <1>0, <1>2, Recounts
  <2>5. QED
    BY <2>2, <2>3, <2>4, <1>0 DEF Budgeted
<1>7. CASE \E n \in Spans(r) : Admit(r, n)
  <2>1. PICK n \in Spans(r) : Admit(r, n)
    BY <1>7
  <2>2. n \in Nat /\ New(r, n) \in Nat
    BY <1>0, NewTyped, KVPoolAssumption DEF Spans
  <2>3. Within(r, n) \in Int
    BY <2>2, <1>2 DEF Within, Least
  <2>4. /\ allot' = [allot EXCEPT ![r].remaining = @ - Within(r, n)]
        /\ unused' = unused - Within(r, n) /\ lent' = lent
    BY <2>1 DEF Admit
  <2>5. QED
    BY <2>3, <2>4, <1>0, <1>2 DEF Budgeted
<1>8. CASE Rollback(r)
  <2> DEFINE tail == {pages[r][i] : i \in Len(pages[r]) - reserved[r] + 1 .. Len(pages[r])}
  <2>0. PICK left : left = Len(pages[r]) - reserved[r]
    OBVIOUS
  <2>1. ReleasePages(r, tail, left, TRUE)
    BY <2>0, <1>8 DEF Rollback
  <2>2. left \in Nat /\ left \in Int
    BY <2>0, <1>2 DEF Inv, Sound, Streaming, Typed
  <2>3. tail \subseteq Pages
    BY <2>0, <2>2, <1>2
  <2> HIDE DEF tail
  <2>4. QED
    BY <2>1, <2>2, <2>3, <1>0, ReleaseBudgeted
<1>9. CASE Drop(r) \/ OffloadCommit(r)
  <2>1. \/ ReleasePages(r, Range(pages[r]) \cup Range(lease[r]), 0, TRUE)
        \/ ReleasePages(r, Range(pages[r]), 0, FALSE)
    BY <1>9 DEF Drop, OffloadCommit
  <2>2. Range(pages[r]) \cup Range(lease[r]) \subseteq Pages /\ 0 \in Int
    BY <1>2
  <2>3. CASE ReleasePages(r, Range(pages[r]) \cup Range(lease[r]), 0, TRUE)
    BY <2>2, <2>3, <1>0, ReleaseBudgeted
  <2>4. CASE ReleasePages(r, Range(pages[r]), 0, FALSE)
    BY <2>2, <2>4, <1>0, <1>2, ReleaseBudgeted
  <2>5. QED
    BY <2>1, <2>3, <2>4
<1>10. CASE ReloadTake(r)
  <2>1. /\ allot' = [allot EXCEPT ![r].pages = @ + Len(host[r].data)]
        /\ unused' = unused /\ lent' = lent
    BY <1>10 DEF ReloadTake
  <2>2. Len(host[r].data) \in Nat
    BY <1>0 DEF Typed, Copies
  <2>3. QED
    BY <2>1, <2>2, <1>0, <1>2 DEF Budgeted
<1>11. QED
  BY <1>1, <1>3, <1>4, <1>5, <1>6, <1>7, <1>8, <1>9, <1>10

-----------------------------------------------------------------------------
(* The actions *)

\* What the invariant says of the request whose step it is.
LEMMA OfRequest ==
    ASSUME Inv, NEW r \in Rids
    PROVE  /\ Typed /\ Budgeted /\ OneName(byKey) /\ IndexReads
           /\ Streaming(r) /\ Copied(r) /\ Reads(r) /\ Private(r)
           /\ pages[r] \in Seq(Pages) /\ lease[r] \in Seq(Pages) /\ stored[r] \in Nat /\ cursor[r] \in Nat
           /\ flight[r] \in Nat /\ reserved[r] \in Nat /\ stage[r] \in Stages /\ host[r] \in Copies
           /\ Len(pages[r]) \in Nat /\ Len(lease[r]) \in Nat /\ Len(Chain[r]) \in Nat
BY Prompt DEF Inv, Sound, Typed

\* offload claims a stream that runs no step, or gives it up.
LEMMA ClaimKeeps ==
    ASSUME Inv, Budgeted', NEW r \in Rids, OffloadClaim(r) \/ OffloadAbandon(r)
    PROVE  Inv'
<1>0. UNCHANGED <<owners, byKey, content, pages, lease, stored, cursor, flight, reserved, host>>
  BY DEF OffloadClaim, OffloadAbandon, poolVars, streamVars
<1>1. PICK s \in {"device", "claimed"} :
         /\ stage' = [stage EXCEPT ![r] = s]
         /\ s = "claimed" => flight[r] = 0 /\ pages[r] # <<>>
         /\ stage[r] \in {"device", "claimed"}
  BY DEF OffloadClaim, OffloadAbandon, MayStep
<1>2. Typed'
  BY <1>0, <1>1 DEF Inv, Typed, Stages
<1>3. OneName(byKey)' /\ IndexReads' /\ PagesConserved'
  BY <1>0 DEF Inv, OneName, IndexReads, PagesConserved
<1>4. Others(r) /\ stage'[r] = s
  BY <1>0, <1>1 DEF Others, Self, Inv, Typed
<1>5. Harmless(r)
  BY <1>0 DEF Harmless
<1>6. Sound(r)'
  <2>1. Streaming(r)'
    BY <1>0, <1>1, <1>4, OfRequest DEF Streaming
  <2>2. Copied(r)'
    BY <1>1, <1>4 DEF Copied
  <2>3. Reads(r)'
    BY <1>0, OfRequest DEF Reads, KeyAt
  <2>4. Private(r)'
    BY <1>0, <1>1, <1>4, OfRequest DEF Private, Bound
  <2>5. QED
    BY <2>1, <2>2, <2>3, <2>4 DEF Sound
<1>7. QED
  BY <1>2, <1>3, <1>4, <1>5, <1>6, Kept

\* A lease retains pages the index names.
LEMMA LeaseKeeps ==
    ASSUME Inv, Budgeted', NEW r \in Rids, Lease(r)
    PROVE  Inv'
<1> DEFINE all == PagesFor(r, Len(Chain[r]) - 1)
           run == Affordable(r, all)
<1>0. /\ stage[r] = "device" /\ stored[r] = 0 /\ pages[r] = <<>> /\ lease[r] = <<>>
      /\ owners' = Plus(owners, Range(run)) /\ lease' = [lease EXCEPT ![r] = run]
      /\ UNCHANGED <<byKey, content, pages, stored, cursor, flight, reserved, stage, host>>
  BY DEF Lease
<1>1. /\ all \in Seq(Pages) /\ Len(all) \in 0..(Len(Chain[r]) - 1) /\ IsInjective(all)
      /\ \A i \in 1..Len(all) : all[i] = byKey[Chain[r][i]] /\ all[i] \in Range(byKey) \ {None}
  <2>1. Len(Chain[r]) - 1 \in 0..Len(Chain[r])
    BY Prompt
  <2>2. QED
    BY <2>1, OfRequest, Run
<1> HIDE DEF all
<1>2. PICK n \in 0..Len(all) : run = SubSeq(all, 1, n)
  BY <1>1, OfRequest, RunHead
<1>3. /\ run \in Seq(Pages) /\ Len(run) = n /\ IsInjective(run)
      /\ \A i \in 1..n : run[i] = all[i]
  BY <1>1, <1>2, Cut
<1> HIDE DEF run
<1>4. \A i \in 1..n : run[i] = byKey[Chain[r][i]] /\ run[i] \in Range(byKey) \ {None}
  BY <1>1, <1>3
<1>5. Range(run) \subseteq Range(byKey) \ {None} /\ Range(run) \subseteq Pages
  BY <1>3, <1>4 DEF Range
<1>6. Typed'
  <2>1. owners' \in [Pages -> Nat]
    BY <1>0, OfRequest DEF Plus, Typed
  <2>2. QED
    BY <2>1, <1>0, <1>3, OfRequest DEF Typed
<1>7. OneName(byKey)' /\ IndexReads'
  BY <1>0, OfRequest DEF OneName, IndexReads
<1>8. lease'[r] = run
  BY <1>0, OfRequest DEF Typed
<1>9. PagesConserved'
  <2>1. pages' = [pages EXCEPT ![r] = <<>>]
    BY <1>0, OfRequest DEF Typed
  <2>2. ASSUME NEW p \in Pages
        PROVE  owners'[p] = owners[p] + One(p, Range(<<>>)) - One(p, Range(pages[r]))
                                     + One(p, Range(run)) - One(p, Range(lease[r]))
                                     + One(p, Range(byKey')) - One(p, Range(byKey))
    <3>1. owners'[p] = owners[p] + One(p, Range(run)) /\ owners[p] \in Nat
      BY <1>0, OfRequest, PlusMinus DEF Typed
    <3>2. /\ pages[r] = <<>> /\ lease[r] = <<>> /\ byKey' = byKey /\ One(p, Range(<<>>)) \in {0, 1}
          /\ One(p, Range(byKey)) \in {0, 1} /\ One(p, Range(run)) \in {0, 1} /\ One(p, Range(<<>>)) = 0
      BY <1>0 DEF One, Range
    <3>3. QED
      BY <3>1, <3>2
  <2>3. Balanced(r, <<>>, run)
    BY <2>2 DEF Balanced
  <2>4. QED
    BY <2>1, <2>3, <1>0, <1>6, <1>7, Recounted
<1>10. Others(r)
  BY <1>0, OfRequest DEF Others, Self, Typed
<1>11. Harmless(r)
  <2>1. ASSUME NEW q \in Rids \ {r}, NEW p \in Range(pages[q]), owners[p] = 1
        PROVE  owners'[p] = 1
    <3>1. p \in Pages
      BY OfRequest, HeldArePages
    <3>2. p \notin Range(run)
      BY <3>1, <2>1, <1>5, Owned
    <3>3. QED
      BY <3>1, <3>2, <2>1, <1>0 DEF Plus
  <2>2. QED
    BY <2>1, <1>0 DEF Harmless
<1>12. Sound(r)'
  <2>1. Streaming(r)'
    BY <1>0, <1>1, <1>3, <1>8, OfRequest DEF Streaming
  <2>2. Copied(r)'
    BY <1>0 DEF Copied
  <2>3. Reads(r)'
    <3>1. ASSUME NEW i \in 1..n PROVE content'[run[i]] = KeyAt(r, i)
      <4>1. i \in 1..Len(Chain[r]) /\ Chain[r][i] \in Keys
        BY <1>1, Prompt
      <4>2. byKey[Chain[r][i]] # None /\ run[i] = byKey[Chain[r][i]]
        BY <1>4
      <4>3. QED
        BY <4>1, <4>2, <1>0, OfRequest DEF IndexReads, KeyAt
    <3>2. DOMAIN run = 1..n
      BY <1>3
    <3>3. QED
      BY <3>1, <3>2, <1>0, <1>8 DEF Reads, KeyAt
  <2>4. Private(r)'
    <3>1. stage'[r] = "device" /\ stored'[r] = 0 /\ Len(pages'[r]) = 0
      BY <1>0
    <3>2. QED
      BY <3>1 DEF Private, Bound
  <2>5. QED
    BY <2>1, <2>2, <2>3, <2>4 DEF Sound
<1>13. QED
  BY <1>6, <1>7, <1>9, <1>10, <1>11, <1>12, Kept

\* What a step finds: the lease if there is one, else the stream, and no page past it.
LEMMA HeldNow ==
    ASSUME Inv, NEW r \in Rids, MayStep(r)
    PROVE  /\ Held(r) \in Seq(Pages) /\ IsInjective(Held(r)) /\ Len(Held(r)) = Written(r)
           /\ Range(Held(r)) = Range(pages[r]) \cup Range(lease[r])
           /\ ~Converts(r) => lease[r] = <<>> /\ Held(r) = pages[r] /\ Written(r) = stored[r]
           /\ Converts(r) => /\ pages[r] = <<>> /\ Held(r) = lease[r] /\ Written(r) = Len(lease[r])
                             /\ Len(lease[r]) <= Len(Chain[r])
           /\ \A i \in 1..Written(r) : content[Held(r)[i]] = KeyAt(r, i)
           /\ stage[r] = "device" /\ flight[r] = 0
           /\ \A n \in Nat \ {0} : New(r, n) = n
<1>0. flight[r] = 0 /\ stage[r] = "device"
  BY DEF MayStep
<1>1. Range(<<>>) = {}
  BY DEF Range
<1>2. CASE Converts(r)
  <2>1. lease[r] # <<>> /\ Held(r) = lease[r] /\ Written(r) = Len(lease[r])
    BY <1>2 DEF Converts, Held, Written
  <2>2. pages[r] = <<>> /\ Len(lease[r]) <= Len(Chain[r]) /\ IsInjective(lease[r]) /\ lease[r] \in Seq(Pages)
    BY <2>1, OfRequest DEF Streaming
  <2>3. DOMAIN lease[r] = 1..Len(lease[r])
    BY <2>2
  <2>4. \A i \in 1..Written(r) : content[Held(r)[i]] = KeyAt(r, i)
    BY <2>1, <2>3, OfRequest DEF Reads
  <2>5. \A n \in Nat \ {0} : New(r, n) = n
    BY <2>1, <2>2 DEF New, Most
  <2>6. QED
    BY <1>0, <1>1, <1>2, <2>1, <2>2, <2>4, <2>5
<1>3. CASE ~Converts(r)
  <2>1. lease[r] = <<>> /\ Held(r) = pages[r] /\ Written(r) = stored[r]
    BY <1>3, OfRequest DEF Converts, Held, Written, Streaming
  <2>2. Len(pages[r]) = stored[r] /\ IsInjective(pages[r]) /\ pages[r] \in Seq(Pages)
    BY <1>0, OfRequest DEF Streaming
  <2>3. \A i \in 1..Written(r) : content[Held(r)[i]] = KeyAt(r, i)
    BY <2>1, OfRequest DEF Reads
  <2>4. \A n \in Nat \ {0} : New(r, n) = n
    BY <2>1, <2>2 DEF New, Most
  <2>5. QED
    BY <1>0, <1>1, <1>3, <2>1, <2>2, <2>3, <2>4
<1>4. QED
  BY <1>2, <1>3

\* admit: the pages granted are the stream's alone.
LEMMA AdmitKeeps ==
    ASSUME Inv, Budgeted', NEW r \in Rids, NEW n \in Spans(r), Admit(r, n)
    PROVE  Inv'
<1>0. MayStep(r) /\ n \in Nat \ {0} /\ New(r, n) = n
  BY HeldNow, KVPoolAssumption DEF Admit, Spans
<1>1. PICK E \in Evictions(owners, n) : \E got \in Grants(owners, E, n) :
         GrantPages(owners, E, got) /\ Convert(r, Held(r) \o got)
  BY <1>0 DEF Admit
<1>2. PICK got \in Grants(owners, E, n) : GrantPages(owners, E, got) /\ Convert(r, Held(r) \o got)
  BY <1>1
<1>3. /\ flight' = [flight EXCEPT ![r] = n] /\ reserved' = [reserved EXCEPT ![r] = n]
      /\ UNCHANGED <<content, stage, host>>
  BY <1>0 DEF Admit
<1>4. owners \in [Pages -> Nat] /\ \A p \in Pages : owners[p] \in Nat /\ owners[p] >= owners[p]
  BY OfRequest DEF Typed
<1>5. /\ got \in Seq(Pages) /\ Len(got) = n /\ IsInjective(got)
      /\ \A p \in Range(got) : p \notin Range(pages[r]) /\ p \notin Range(lease[r])
  BY <1>0, <1>4, Granted
<1>6. PICK pg : pg = Held(r) \o got
  OBVIOUS
<1>7. /\ pg \in Seq(Pages) /\ Len(pg) = Written(r) + n /\ IsInjective(pg)
      /\ Range(pg) = Range(pages[r]) \cup Range(lease[r]) \cup {} \cup Range(got)
      /\ \A i \in 1..Written(r) : pg[i] = Held(r)[i]
      /\ \A i \in Written(r) + 1 .. Written(r) + n : pg[i] = got[i - Written(r)]
  <2>1. /\ Held(r) \in Seq(Pages) /\ IsInjective(Held(r)) /\ Len(Held(r)) = Written(r)
        /\ Range(Held(r)) = Range(pages[r]) \cup Range(lease[r])
    BY <1>0, HeldNow
  <2>2. Range(Held(r)) \cap Range(got) = {}
    BY <2>1, <1>5
  <2>3. PICK h : h = Held(r)
    OBVIOUS
  <2>4. /\ h \o got \in Seq(Pages) /\ Len(h \o got) = Len(h) + Len(got)
        /\ Range(h \o got) = Range(h) \cup Range(got)
        /\ \A i \in 1..Len(h) : (h \o got)[i] = h[i]
        /\ \A i \in Len(h) + 1 .. Len(h) + Len(got) : (h \o got)[i] = got[i - Len(h)]
        /\ IsInjective(h \o got)
    BY ZenonT(60), <2>1, <2>2, <2>3, <1>5, Joined
  <2>5. Len(h) = Written(r) /\ pg = h \o got
    BY <2>1, <2>3, <1>6
  <2>6. QED
    BY <2>1, <2>3, <2>4, <2>5, <1>5
<1>8. /\ pages' = [pages EXCEPT ![r] = pg] /\ lease' = [lease EXCEPT ![r] = <<>>]
      /\ stored' = [stored EXCEPT ![r] = Written(r)]
      /\ cursor' = [cursor EXCEPT ![r] = IF Converts(r) THEN Len(lease[r]) ELSE cursor[r]]
  BY <1>2, <1>6 DEF Convert
<1>9. /\ owners' \in [Pages -> Nat] /\ byKey' \in [Keys -> Pages \cup {None}]
      /\ pages' \in [Rids -> Seq(Pages)] /\ lease' \in [Rids -> Seq(Pages)]
      /\ Balanced(r, pg, <<>>) /\ \A p \in Range(got) : owners'[p] = 1
      /\ Harmless(r) /\ OneName(byKey)' /\ IndexReads'
  <2>1. PICK R : R = {}
    OBVIOUS
  <2>2. R \subseteq Range(byKey) \ {None} /\ R \cap (Range(pages[r]) \cup Range(lease[r])) = {}
    BY <2>1
  <2>3. \A p \in Pages : owners[p] = owners[p] + One(p, R)
    BY <2>1, <1>4 DEF One
  <2>4. Range(pg) = Range(pages[r]) \cup Range(lease[r]) \cup R \cup Range(got)
    BY <2>1, <1>7
  <2>5. \A p \in Pages \ Range(got) : content'[p] = content[p]
    BY <1>3
  <2>6. QED
    BY ZenonT(60), <2>2, <2>3, <2>4, <2>5, <1>0, <1>2, <1>4, <1>7, <1>8, GrantCounts
<1>10. Written(r) \in Nat /\ (Converts(r) => Len(lease[r]) \in Nat)
  BY <1>0, OfRequest, NewTyped
<1>11. Typed'
  BY <1>0, <1>3, <1>8, <1>9, <1>10, OfRequest DEF Typed
<1>12. PagesConserved'
  BY <1>8, <1>9, <1>11, Recounted
<1>13. Others(r)
  BY <1>3, <1>8, OfRequest DEF Others, Self, Typed
<1>14. /\ pages'[r] = pg /\ lease'[r] = <<>> /\ stored'[r] = Written(r) /\ flight'[r] = n /\ reserved'[r] = n
       /\ cursor'[r] = (IF Converts(r) THEN Len(lease[r]) ELSE cursor[r]) /\ stage'[r] = "device"
  BY <1>0, <1>3, <1>8, OfRequest DEF Typed, MayStep
<1>15. Sound(r)'
  <2>1. Streaming(r)'
    <3>1. IsInjective(<<>>) /\ Len(<<>>) = 0
      BY DEF IsInjective
    <3>2. cursor'[r] <= Len(Chain[r]) /\ (cursor'[r] >= stored'[r] \/ cursor'[r] = Len(Chain[r]))
      BY <1>0, <1>14, HeldNow, OfRequest DEF Streaming
    <3>3. Len(<<>>) <= Len(Chain[r])
      BY <3>1, OfRequest
    <3>4. QED
      BY <3>1, <3>2, <3>3, <1>7, <1>14 DEF Streaming
  <2>2. Copied(r)'
    BY <1>14 DEF Copied
  <2>3. Reads(r)'
    <3>1. ASSUME NEW i \in 1..Written(r) PROVE content[pg[i]] = KeyAt(r, i)
      <4>1. pg[i] = Held(r)[i]
        BY <1>7
      <4>2. content[Held(r)[i]] = KeyAt(r, i)
        BY <1>0, HeldNow
      <4>3. QED
        BY <4>1, <4>2
    <3>2. QED
      BY <3>1, <1>3, <1>14 DEF Reads, KeyAt
  <2>4. Private(r)'
    <3>1. ASSUME NEW i \in Written(r) + 1 .. Written(r) + n PROVE owners'[pg[i]] = 1
      <4>1. i - Written(r) \in 1..n /\ pg[i] = got[i - Written(r)]
        BY <1>0, <1>7, <1>10
      <4>2. pg[i] \in Range(got)
        BY <4>1, <1>5 DEF Range
      <4>3. QED
        BY <4>2, <1>9
    <3>2. QED
      BY <3>1, <1>7, <1>14 DEF Private, Bound
  <2>5. QED
    BY <2>1, <2>2, <2>3, <2>4 DEF Sound
<1>16. QED
  BY <1>9, <1>11, <1>12, <1>13, <1>15, Kept

\* A refused admit has turned the lease into the stream.
LEMMA AdmitRefusedKeeps ==
    ASSUME Inv, Budgeted', NEW r \in Rids, NEW n \in Spans(r), AdmitRefused(r, n)
    PROVE  Inv'
<1>0. /\ MayStep(r) /\ Converts(r) /\ Convert(r, Held(r))
      /\ UNCHANGED <<owners, byKey, content, flight, reserved, stage, host>>
  BY DEF AdmitRefused, poolVars
<1>1. /\ pages[r] = <<>> /\ Held(r) = lease[r] /\ Written(r) = Len(lease[r])
      /\ Len(lease[r]) <= Len(Chain[r]) /\ stage[r] = "device" /\ flight[r] = 0
      /\ \A i \in 1..Written(r) : content[Held(r)[i]] = KeyAt(r, i)
  BY <1>0, HeldNow
<1>2. /\ pages' = [pages EXCEPT ![r] = lease[r]] /\ lease' = [lease EXCEPT ![r] = <<>>]
      /\ stored' = [stored EXCEPT ![r] = Len(lease[r])] /\ cursor' = [cursor EXCEPT ![r] = Len(lease[r])]
  BY <1>0, <1>1 DEF Convert
<1>3. Typed'
  BY <1>0, <1>2, OfRequest DEF Typed
<1>4. OneName(byKey)' /\ IndexReads'
  BY <1>0, OfRequest DEF OneName, IndexReads
<1>5. Others(r) /\ Harmless(r)
  BY <1>0, <1>2, OfRequest DEF Others, Self, Typed, Harmless
<1>6. Balanced(r, lease[r], <<>>)
  <2>1. ASSUME NEW p \in Pages
        PROVE  owners'[p] = owners[p] + One(p, Range(lease[r])) - One(p, Range(<<>>))
                                     + One(p, Range(<<>>)) - One(p, Range(lease[r]))
                                     + One(p, Range(byKey')) - One(p, Range(byKey))
    <3>1. /\ owners'[p] = owners[p] /\ owners[p] \in Nat /\ byKey' = byKey /\ One(p, Range(<<>>)) \in {0, 1}
          /\ One(p, Range(byKey)) \in {0, 1} /\ One(p, Range(lease[r])) \in {0, 1}
      BY <1>0, OfRequest DEF One, Typed
    <3>2. QED
      BY <3>1
  <2>2. QED
    BY <2>1, <1>1 DEF Balanced
<1>7. PagesConserved'
  BY <1>2, <1>3, <1>4, <1>6, Recounted
<1>8. /\ pages'[r] = lease[r] /\ lease'[r] = <<>> /\ stored'[r] = Len(lease[r]) /\ cursor'[r] = Len(lease[r])
  BY <1>2, OfRequest DEF Typed
<1>9. Sound(r)'
  <2>1. Streaming(r)'
    <3>1. IsInjective(<<>>) /\ Len(<<>>) = 0
      BY DEF IsInjective
    <3>2. QED
      BY <3>1, <1>0, <1>1, <1>8, OfRequest DEF Streaming
  <2>2. Copied(r)'
    BY <1>0, <1>1 DEF Copied
  <2>3. Reads(r)'
    BY <1>0, <1>1, <1>8 DEF Reads, KeyAt
  <2>4. Private(r)'
    <3>1. Len(lease[r]) + 1 .. Len(lease[r]) = {}
      BY OfRequest
    <3>2. QED
      BY <3>1, <1>0, <1>1, <1>8 DEF Private, Bound
  <2>5. QED
    BY <2>1, <2>2, <2>3, <2>4 DEF Sound
<1>10. QED
  BY <1>3, <1>4, <1>5, <1>7, <1>9, Kept

\* rollback_admit: the stream is as it was before the admit.
LEMMA RollbackKeeps ==
    ASSUME Inv, Budgeted', NEW r \in Rids, Rollback(r)
    PROVE  Inv'
<1> DEFINE left == Len(pages[r]) - reserved[r]
           S == {pages[r][i] : i \in left + 1 .. Len(pages[r])}
           pg == SubSeq(pages[r], 1, left)
<1>0. /\ flight[r] > 0 /\ pages' = [pages EXCEPT ![r] = pg] /\ owners' = Minus(owners, S)
      /\ flight' = [flight EXCEPT ![r] = 0] /\ reserved' = [reserved EXCEPT ![r] = 0]
      /\ UNCHANGED <<byKey, content, lease, stored, cursor, stage, host>>
  BY DEF Rollback, ReleasePages
<1>1. left = stored[r] /\ left \in 0..Len(pages[r]) /\ stage[r] = "device" /\ lease[r] = <<>>
  BY <1>0, OfRequest DEF Streaming
<1>2. /\ pg \in Seq(Pages) /\ Len(pg) = left /\ IsInjective(pg) /\ Range(pg) = Range(pages[r]) \ S
      /\ \A i \in 1..left : pg[i] = pages[r][i]
  <2>1. PICK s \in Seq(Pages) : s = pages[r] /\ IsInjective(s)
    BY OfRequest DEF Streaming
  <2>2. PICK n \in 0..Len(s) : n = left
    BY <2>1, <1>1
  <2>3. /\ SubSeq(s, 1, n) \in Seq(Pages) /\ Len(SubSeq(s, 1, n)) = n
        /\ \A i \in 1..n : SubSeq(s, 1, n)[i] = s[i]
        /\ IsInjective(SubSeq(s, 1, n))
        /\ Range(SubSeq(s, 1, n)) = Range(s) \ {s[i] : i \in n + 1 .. Len(s)}
    BY <2>1, Cut
  <2>4. QED
    BY <2>1, <2>2, <2>3
<1>3. S \subseteq Range(pages[r])
  BY <1>1, OfRequest, HeldArePages
<1> HIDE DEF left, S, pg
<1>4. S = (Range(pages[r]) \ Range(pg)) \cup Range(lease[r]) /\ Range(pg) \subseteq Range(pages[r])
  BY <1>1, <1>2, <1>3 DEF Range
<1>5. lease' = [lease EXCEPT ![r] = <<>>]
  BY <1>0, <1>1, OfRequest DEF Typed
<1>6. /\ owners' \in [Pages -> Nat] /\ pages' \in [Rids -> Seq(Pages)] /\ lease' \in [Rids -> Seq(Pages)]
      /\ Balanced(r, pg, <<>>) /\ Harmless(r) /\ OneName(byKey)' /\ IndexReads'
  BY <1>0, <1>2, <1>4, <1>5, Releases
<1>7. Typed'
  BY <1>0, <1>6, OfRequest DEF Typed
<1>8. PagesConserved'
  BY <1>0, <1>5, <1>6, <1>7, Recounted
<1>9. Others(r) /\ pages'[r] = pg /\ flight'[r] = 0 /\ reserved'[r] = 0
  BY <1>0, OfRequest DEF Others, Self, Typed
<1>10. Sound(r)'
  <2>1. Streaming(r)'
    BY <1>0, <1>1, <1>2, <1>9, OfRequest DEF Streaming
  <2>2. Copied(r)'
    BY <1>0, <1>1 DEF Copied
  <2>3. Reads(r)'
    BY <1>0, <1>1, <1>2, <1>9, OfRequest DEF Reads, KeyAt
  <2>4. Private(r)'
    <3>1. stored[r] + 1 .. Len(pg) = {}
      BY <1>1, <1>2, OfRequest
    <3>2. QED
      BY <3>1, <1>0, <1>1, <1>9 DEF Private, Bound
  <2>5. QED
    BY <2>1, <2>2, <2>3, <2>4 DEF Sound
<1>11. QED
  BY <1>6, <1>7, <1>8, <1>9, <1>10, Kept

\* A stream that gives up all its pages and goes to s with the copy h and the cursor c.
Empties(r, s, h, c) ==
    /\ flight[r] = 0 /\ c <= Len(Chain[r])
    /\ s = "host" => /\ h.keyed <= Len(h.data) /\ h.keyed <= Len(Chain[r])
                     /\ c >= Len(h.data) \/ c = Len(Chain[r])
                     /\ \A i \in 1..Len(h.data) : h.data[i] = KeyAt(r, i)
    /\ owners' = Minus(owners, Range(pages[r]) \cup Range(lease[r]))
    /\ pages' = [pages EXCEPT ![r] = <<>>] /\ lease' = [lease EXCEPT ![r] = <<>>]
    /\ stored' = [stored EXCEPT ![r] = 0] /\ cursor' = [cursor EXCEPT ![r] = c]
    /\ stage' = [stage EXCEPT ![r] = s] /\ host' = [host EXCEPT ![r] = h]
    /\ UNCHANGED <<byKey, content, flight, reserved>>

\* What such a stream keeps.
LEMMA EmptyKeeps ==
    ASSUME Inv, Budgeted', NEW r \in Rids, NEW s \in {"device", "host"}, NEW h \in Copies, NEW c \in Nat,
           Empties(r, s, h, c)
    PROVE  Inv'
<1>0. PICK none : none = <<>>
  OBVIOUS
<1>1. none \in Seq(Pages) /\ Range(none) = {} /\ Len(none) = 0 /\ IsInjective(none) /\ DOMAIN none = {}
  BY <1>0 DEF Range, IsInjective
<1>2. PICK S : S = Range(pages[r]) \cup Range(lease[r])
  OBVIOUS
<1>3. S = (Range(pages[r]) \ Range(none)) \cup Range(lease[r])
  BY <1>1, <1>2
<1>4. /\ owners' = Minus(owners, S) /\ pages' = [pages EXCEPT ![r] = none] /\ lease' = [lease EXCEPT ![r] = <<>>]
      /\ byKey' = byKey /\ content' = content
  BY <1>0, <1>2 DEF Empties
<1>5. /\ owners' \in [Pages -> Nat] /\ pages' \in [Rids -> Seq(Pages)] /\ lease' \in [Rids -> Seq(Pages)]
      /\ Balanced(r, none, <<>>) /\ Harmless(r) /\ OneName(byKey)' /\ IndexReads'
  BY <1>1, <1>3, <1>4, Releases
<1>6. Typed'
  <2>1. s \in Stages
    BY DEF Stages
  <2>2. QED
    BY <2>1, <1>4, <1>5, OfRequest DEF Typed, Empties
<1>7. PagesConserved'
  BY <1>4, <1>5, <1>6, Recounted
<1>8. /\ Others(r) /\ pages'[r] = none /\ lease'[r] = none /\ stored'[r] = 0 /\ cursor'[r] = c /\ flight'[r] = 0
      /\ stage'[r] = s /\ host'[r] = h /\ reserved'[r] = reserved[r]
  BY <1>0, OfRequest DEF Others, Self, Typed, Empties
<1>9. Sound(r)'
  <2>1. Streaming(r)'
    <3>1. /\ reserved[r] = flight[r] /\ flight[r] = 0 /\ Len(Chain[r]) \in Nat /\ c <= Len(Chain[r])
          /\ c >= 0 /\ 0 <= Len(Chain[r])
      BY OfRequest DEF Streaming, Empties
    <3>2. QED
      BY <3>1, <1>0, <1>1, <1>8 DEF Streaming
  <2>2. Copied(r)'
    BY <1>0, <1>8 DEF Copied, Empties, KeyAt
  <2>3. Reads(r)'
    BY <1>1, <1>8 DEF Reads
  <2>4. Private(r)'
    BY <1>1, <1>8 DEF Private, Bound
  <2>5. QED
    BY <2>1, <2>2, <2>3, <2>4 DEF Sound
<1>10. QED
  BY <1>5, <1>6, <1>7, <1>8, <1>9, Kept

\* drop and remove_request release everything.
LEMMA DropKeeps ==
    ASSUME Inv, Budgeted', NEW r \in Rids, Drop(r) \/ Remove(r)
    PROVE  Inv'
<1>1. NoCopy \in Copies
  BY DEF NoCopy, Copies
<1>2. CASE Drop(r)
  <2>1. /\ stage[r] = "device" /\ flight[r] = 0 /\ owners' = Minus(owners, Range(pages[r]) \cup Range(lease[r]))
        /\ pages' = [pages EXCEPT ![r] = <<>>] /\ lease' = [lease EXCEPT ![r] = <<>>]
        /\ stored' = [stored EXCEPT ![r] = 0] /\ cursor' = [cursor EXCEPT ![r] = 0]
        /\ UNCHANGED <<byKey, content, flight, reserved, stage, host>>
    BY <1>2 DEF Drop, MayStep, ReleasePages
  <2>2. stage' = [stage EXCEPT ![r] = "device"] /\ host' = [host EXCEPT ![r] = host[r]]
    BY <2>1, OfRequest DEF Typed
  <2>3. Empties(r, "device", host[r], 0)
    <3>1. 0 <= Len(Chain[r])
      BY OfRequest
    <3>2. UNCHANGED <<byKey, content, flight, reserved>>
      BY <2>1
    <3>3. QED
      BY <3>1, <3>2, <2>1, <2>2 DEF Empties
  <2>4. QED
    BY <2>3, OfRequest, EmptyKeeps
<1>3. CASE Remove(r)
  <2>1. Empties(r, "device", NoCopy, 0)
    BY <1>3, OfRequest DEF Remove, Empties
  <2>2. QED
    BY <2>1, <1>1, EmptyKeeps
<1>4. QED
  BY <1>2, <1>3

\* The leading pages the index names by their keys are some the cursor has passed.
LEMMA KeyedTyped ==
    ASSUME Inv, NEW r \in Rids
    PROVE  KeyedPages(r) \in Nat /\ KeyedPages(r) <= cursor[r] /\ KeyedPages(r) <= Len(pages[r])
<1> DEFINE m == Least(cursor[r], Len(pages[r]))
           same == {n \in 0..m : \A i \in 1..n : byKey[Chain[r][i]] = pages[r][i]}
<1>1. m \in Nat /\ m <= cursor[r] /\ m <= Len(pages[r])
  BY OfRequest DEF Least
<1> HIDE DEF m
<1>2. 0 \in same /\ same \subseteq 0..m
  BY <1>1
<1>3. \E n \in same : \A j \in same : j <= n
  BY <1>1, <1>2, Largest
<1>4. KeyedPages(r) = CHOOSE n \in same : \A j \in same : j <= n
  BY DEF KeyedPages, m
<1>5. KeyedPages(r) \in same
  BY <1>3, <1>4
<1>6. KeyedPages(r) \in 0..m
  BY <1>2, <1>5
<1>7. QED
  BY <1>1, <1>6, OfRequest

\* _commit_offload: the copy on the host is what the pages held.
LEMMA OffloadCommitKeeps ==
    ASSUME Inv, Budgeted', NEW r \in Rids, OffloadCommit(r)
    PROVE  Inv'
<1> DEFINE h == [data |-> [i \in 1..Len(pages[r]) |-> content[pages[r][i]]],
                 keyed |-> KeyedPages(r), run |-> 0]
<1>0. /\ stage[r] = "claimed" /\ host' = [host EXCEPT ![r] = h]
      /\ owners' = Minus(owners, Range(pages[r]))
      /\ pages' = [pages EXCEPT ![r] = <<>>] /\ stored' = [stored EXCEPT ![r] = 0]
      /\ stage' = [stage EXCEPT ![r] = "host"]
      /\ UNCHANGED <<byKey, content, lease, cursor, flight, reserved>>
  BY DEF OffloadCommit, ReleasePages
<1>1. lease[r] = <<>> /\ flight[r] = 0 /\ stored[r] = Len(pages[r])
  BY SMTT(30), <1>0, OfRequest DEF Streaming
<1>2. \A i \in 1..Len(pages[r]) : content[pages[r][i]] \in Contents /\ content[pages[r][i]] = KeyAt(r, i)
  <2>1. \A i \in 1..Len(pages[r]) : pages[r][i] \in Pages
    BY OfRequest
  <2>2. QED
    BY <2>1, <1>1, OfRequest DEF Typed, Reads
<1>3. PICK d : d = [i \in 1..Len(pages[r]) |-> content[pages[r][i]]]
  OBVIOUS
<1>4. d \in Seq(Contents) /\ Len(d) = Len(pages[r]) /\ \A i \in 1..Len(d) : d[i] = KeyAt(r, i)
  BY <1>2, <1>3, OfRequest
<1>5. h.data = d /\ h.keyed = KeyedPages(r) /\ h \in Copies
  BY <1>3, <1>4, KeyedTyped DEF Copies
<1> HIDE DEF h
<1>6. lease' = [lease EXCEPT ![r] = <<>>] /\ cursor' = [cursor EXCEPT ![r] = cursor[r]]
  BY <1>0, <1>1, OfRequest DEF Typed
<1>7. Range(pages[r]) = Range(pages[r]) \cup Range(lease[r])
  BY <1>1 DEF Range
<1>8. /\ h.keyed <= Len(h.data) /\ h.keyed <= Len(Chain[r]) /\ cursor[r] <= Len(Chain[r])
      /\ cursor[r] >= Len(h.data) \/ cursor[r] = Len(Chain[r])
      /\ \A i \in 1..Len(h.data) : h.data[i] = KeyAt(r, i)
  BY <1>1, <1>4, <1>5, KeyedTyped, OfRequest DEF Streaming
<1>9. Empties(r, "host", h, cursor[r])
  BY <1>0, <1>1, <1>6, <1>7, <1>8 DEF Empties
<1>10. QED
  BY <1>5, <1>9, OfRequest, EmptyKeeps

\* A page of the stream past its bound is the stream's alone, and not filed.
LEMMA Alone ==
    ASSUME Inv, NEW r \in Rids, NEW i \in 1..Len(pages[r]), i > Bound(r)
    PROVE  /\ pages[r][i] \in Pages /\ pages[r][i] \in Range(pages[r])
           /\ owners[pages[r][i]] = 1 /\ pages[r][i] \notin Range(byKey)
           /\ \A q \in Rids : /\ pages[r][i] \notin Range(lease[q])
                              /\ q # r => pages[r][i] \notin Range(pages[q])
<1>1. pages[r][i] \in Pages /\ pages[r][i] \in Range(pages[r])
  BY OfRequest, HeldArePages
<1>2. Bound(r) \in Nat
  BY OfRequest DEF Bound, Copies
<1>3. i \in Bound(r) + 1 .. Len(pages[r])
  BY <1>2, OfRequest
<1>4. owners[pages[r][i]] = 1
  BY <1>3, OfRequest DEF Private
<1>5. ~(1 >= 2)
  OBVIOUS
<1>6. pages[r][i] \notin Range(byKey)
  BY <1>1, <1>4, <1>5, Owned
<1>7. \A q \in Rids : /\ pages[r][i] \notin Range(lease[q])
                      /\ q # r => pages[r][i] \notin Range(pages[q])
  BY <1>1, <1>4, Owned
<1>8. QED
  BY <1>1, <1>4, <1>6, <1>7

\* Filing pages of r that are past its bound, whose content is their key, when only
\* such pages change content.
LEMMA FilesKeep ==
    ASSUME Inv, NEW r \in Rids, NEW from \in Nat \ {0}, NEW to \in Nat,
           to <= Len(Chain[r]), to <= Len(pages[r]),
           from > Bound(r) \/ from > to,
           File(r, pages[r], from, to),
           \A p \in Pages : (\A i \in Bound(r) + 1 .. Len(pages[r]) : pages[r][i] # p) => content'[p] = content[p],
           \A i \in from..to : content'[pages[r][i]] = KeyAt(r, i),
           UNCHANGED <<pages, lease>>
    PROVE  /\ byKey' \in [Keys -> Pages \cup {None}] /\ OneName(byKey)' /\ owners' \in [Pages -> Nat]
           /\ IndexReads' /\ Harmless(r) /\ Balanced(r, pages[r], lease[r])
<1>0. /\ pages[r] \in Seq(Pages) /\ IsInjective(pages[r]) /\ Bound(r) \in Nat /\ Len(pages[r]) \in Nat
      /\ Len(Chain[r]) \in Nat
  BY OfRequest DEF Streaming, Bound, Copies
<1>1. \A i \in Bound(r) + 1 .. Len(pages[r]) : i \in 1..Len(pages[r]) /\ i > Bound(r)
  BY <1>0
<1>2. \A i \in from..to : i \in Bound(r) + 1 .. Len(pages[r]) /\ i \in 1..Len(Chain[r])
  BY <1>0
<1>3. \A i \in from..to : pages[r][i] \notin Range(byKey)
  BY <1>1, <1>2, Alone
<1>4. /\ byKey' \in [Keys -> Pages \cup {None}] /\ OneName(byKey') /\ owners' \in [Pages -> Nat]
      /\ \A k \in Keys : \/ byKey'[k] = byKey[k]
                         \/ \E i \in from..to : Chain[r][i] = k /\ byKey'[k] = pages[r][i]
      /\ \A p \in Pages : owners'[p] = owners[p] + One(p, Range(byKey')) - One(p, Range(byKey))
      /\ \A p \in Pages : (\A i \in from..to : pages[r][i] # p) => owners'[p] = owners[p]
  <2>1. Unfiled(pages[r], from, to)
    BY <1>3 DEF Unfiled
  <2>2. Filed(r, pages[r], from, to)
    BY <2>1, <1>0, Files
  <2>3. QED
    BY <2>2 DEF Filed
<1>5. IndexReads'
  <2> SUFFICES ASSUME NEW k \in Keys, byKey'[k] # None PROVE content'[byKey'[k]] = k
    BY DEF IndexReads
  <2>1. CASE byKey'[k] = byKey[k]
    <3>1. byKey[k] \in Pages /\ byKey[k] \in Range(byKey) /\ content[byKey[k]] = k
      BY <2>1, OfRequest DEF Typed, Range, IndexReads
    <3>2. \A i \in Bound(r) + 1 .. Len(pages[r]) : pages[r][i] # byKey[k]
      BY <3>1, <1>1, Alone
    <3>3. QED
      BY <2>1, <3>1, <3>2
  <2>2. CASE \E i \in from..to : Chain[r][i] = k /\ byKey'[k] = pages[r][i]
    <3>1. PICK i \in from..to : Chain[r][i] = k /\ byKey'[k] = pages[r][i]
      BY <2>2
    <3>2. KeyAt(r, i) = k
      BY <3>1, <1>2 DEF KeyAt
    <3>3. QED
      BY <3>1, <3>2
  <2>3. QED
    BY <2>1, <2>2, <1>4
<1>6. Harmless(r)
  <2>1. ASSUME NEW q \in Rids \ {r}, NEW p \in Range(pages[q]) \cup Range(lease[q])
        PROVE  content'[p] = content[p] /\ owners'[p] = owners[p]
    <3>1. p \in Pages
      BY OfRequest, HeldArePages
    <3>2. \A i \in Bound(r) + 1 .. Len(pages[r]) : pages[r][i] # p
      BY <1>1, Alone
    <3>3. QED
      BY <3>1, <3>2, <1>2, <1>4
  <2>2. QED
    BY <2>1 DEF Harmless
<1>7. Balanced(r, pages[r], lease[r])
  <2>1. ASSUME NEW p \in Pages
        PROVE  owners'[p] = owners[p] + One(p, Range(pages[r])) - One(p, Range(pages[r]))
                                     + One(p, Range(lease[r])) - One(p, Range(lease[r]))
                                     + One(p, Range(byKey')) - One(p, Range(byKey))
    <3>1. /\ owners[p] \in Nat /\ One(p, Range(pages[r])) \in {0, 1} /\ One(p, Range(lease[r])) \in {0, 1}
          /\ One(p, Range(byKey)) \in {0, 1} /\ One(p, Range(byKey')) \in {0, 1}
      BY OfRequest DEF One, Typed
    <3>2. owners'[p] = owners[p] + One(p, Range(byKey')) - One(p, Range(byKey))
      BY <1>4
    <3>3. QED
      BY <3>1, <3>2
  <2>2. QED
    BY <2>1 DEF Balanced
<1>8. QED
  BY <1>4, <1>5, <1>6, <1>7

\* commit: the frontier is written, and the prompt pages it filled are filed.
LEMMA CommitKeeps ==
    ASSUME Inv, Budgeted', NEW r \in Rids, Commit(r)
    PROVE  Inv'
<1> DEFINE len == stored[r] + flight[r]
           filled == Least(len, Len(Chain[r]))
           at(p) == CHOOSE i \in stored[r] + 1 .. len : pages[r][i] = p
<1>0. /\ flight[r] > 0 /\ stored' = [stored EXCEPT ![r] = len]
      /\ content' = [p \in Pages |-> IF \E i \in stored[r] + 1 .. len : pages[r][i] = p
                                       THEN KeyAt(r, at(p)) ELSE content[p]]
      /\ File(r, pages[r], cursor[r] + 1, filled)
      /\ cursor' = [cursor EXCEPT ![r] = Most(cursor[r], filled)]
      /\ flight' = [flight EXCEPT ![r] = 0] /\ reserved' = [reserved EXCEPT ![r] = 0]
      /\ UNCHANGED <<pages, lease, stage, host>>
  BY DEF Commit
<1>1. /\ stage[r] = "device" /\ lease[r] = <<>> /\ Len(pages[r]) = len /\ len \in Nat /\ Bound(r) = stored[r]
      /\ IsInjective(pages[r]) /\ cursor[r] <= Len(Chain[r])
      /\ cursor[r] >= stored[r] \/ cursor[r] = Len(Chain[r])
  BY <1>0, OfRequest DEF Streaming, Bound
<1>2. filled \in Nat /\ filled <= len /\ filled <= Len(Chain[r]) /\ (filled = len \/ filled = Len(Chain[r]))
  BY <1>1, OfRequest DEF Least
<1>3. ASSUME NEW i \in stored[r] + 1 .. len PROVE content'[pages[r][i]] = KeyAt(r, i)
  <2>1. i \in DOMAIN pages[r] /\ pages[r][i] \in Pages
    BY <1>1, OfRequest
  <2>2. at(pages[r][i]) \in stored[r] + 1 .. len /\ pages[r][at(pages[r][i])] = pages[r][i]
    OBVIOUS
  <2>3. at(pages[r][i]) \in DOMAIN pages[r]
    BY <2>2, <1>1, OfRequest
  <2>4. at(pages[r][i]) = i
    BY <2>1, <2>2, <2>3, <1>1 DEF IsInjective
  <2>5. QED
    BY <2>1, <2>4, <1>0
<1>4. \A p \in Pages : (\A i \in stored[r] + 1 .. len : pages[r][i] # p) => content'[p] = content[p]
  BY <1>0
<1>5. content' \in [Pages -> Contents]
  <2>1. ASSUME NEW p \in Pages PROVE content'[p] \in Contents
    <3>1. CASE \E i \in stored[r] + 1 .. len : pages[r][i] = p
      <4>1. PICK i \in stored[r] + 1 .. len : pages[r][i] = p
        BY <3>1
      <4>2. i \in Nat /\ i >= 1 /\ Chain[r] \in Seq(Keys) /\ Len(Chain[r]) \in Nat
        BY Prompt, OfRequest, <1>1
      <4>3. KeyAt(r, i) \in Contents
        BY <4>2 DEF KeyAt, Contents
      <4>4. QED
        BY <4>1, <4>3, <1>3
    <3>2. CASE \A i \in stored[r] + 1 .. len : pages[r][i] # p
      BY <3>2, <1>4, OfRequest DEF Typed
    <3>3. QED
      BY <3>1, <3>2
  <2>2. QED
    BY <2>1, <1>0
<1> HIDE DEF at, filled, len
<1>6. /\ byKey' \in [Keys -> Pages \cup {None}] /\ OneName(byKey)' /\ owners' \in [Pages -> Nat]
      /\ IndexReads' /\ Harmless(r) /\ Balanced(r, pages[r], lease[r])
  <2>1. PICK from \in Nat \ {0} : from = cursor[r] + 1
    BY OfRequest
  <2>2. from > Bound(r) \/ from > filled
    BY <2>1, <1>1, <1>2, OfRequest
  <2>3. \A i \in from..filled : i \in stored[r] + 1 .. len
    BY <2>1, <1>1, <1>2, OfRequest
  <2>4. \A i \in from..filled : content'[pages[r][i]] = KeyAt(r, i)
    BY <2>3, <1>3
  <2>5. \A p \in Pages : (\A i \in Bound(r) + 1 .. Len(pages[r]) : pages[r][i] # p) => content'[p] = content[p]
    BY <1>1, <1>4
  <2>6. File(r, pages[r], from, filled) /\ filled <= Len(pages[r])
    BY <2>1, <1>0, <1>1, <1>2
  <2>7. QED
    BY SMTT(30), <2>2, <2>4, <2>5, <2>6, <1>0, <1>2, FilesKeep
<1>7. Most(cursor[r], filled) \in Nat
  BY <1>2, OfRequest DEF Most
<1>8. Typed'
  BY <1>0, <1>1, <1>5, <1>6, <1>7, OfRequest DEF Typed
<1>9. PagesConserved'
  <2>1. pages' = [pages EXCEPT ![r] = pages[r]] /\ lease' = [lease EXCEPT ![r] = lease[r]]
    BY <1>0, OfRequest DEF Typed
  <2>2. QED
    BY <2>1, <1>6, <1>8, Recounted
<1>10. /\ Others(r) /\ stored'[r] = len /\ flight'[r] = 0 /\ reserved'[r] = 0
       /\ cursor'[r] = Most(cursor[r], filled)
  BY <1>0, OfRequest DEF Others, Self, Typed
<1>11. Sound(r)'
  <2>1. Streaming(r)'
    BY <1>0, <1>1, <1>2, <1>10, OfRequest DEF Streaming, Most
  <2>2. Copied(r)'
    BY <1>0, <1>1 DEF Copied
  <2>3. Reads(r)'
    <3>1. ASSUME NEW i \in 1..len PROVE content'[pages[r][i]] = KeyAt(r, i)
      <4>1. CASE i > stored[r]
        <5>1. i \in stored[r] + 1 .. len
          BY <4>1, <1>1, OfRequest
        <5>2. QED
          BY <5>1, <1>3
      <4>2. CASE ~(i > stored[r])
        <5>1. i \in 1..stored[r] /\ i \in DOMAIN pages[r] /\ pages[r][i] \in Pages
          BY <4>2, <1>1, OfRequest
        <5>2. \A j \in stored[r] + 1 .. len : j \in DOMAIN pages[r] /\ j # i
          BY <5>1, <1>1, OfRequest
        <5>3. \A j \in stored[r] + 1 .. len : pages[r][j] # pages[r][i]
          BY <5>1, <5>2, <1>1 DEF IsInjective
        <5>4. QED
          BY <5>1, <5>3, <1>4, OfRequest DEF Reads
      <4>3. QED
        BY <4>1, <4>2
    <3>2. lease'[r] = <<>> /\ DOMAIN <<>> = {}
      BY <1>0, <1>1
    <3>3. QED
      BY <3>1, <3>2, <1>0, <1>10 DEF Reads, KeyAt
  <2>4. Private(r)'
    <3>1. len + 1 .. len = {}
      BY <1>1
    <3>2. QED
      BY <3>1, <1>0, <1>1, <1>10 DEF Private, Bound
  <2>5. QED
    BY <2>1, <2>2, <2>3, <2>4 DEF Sound
<1>12. QED
  BY <1>6, <1>8, <1>9, <1>10, <1>11, Kept

\* The copied pages have landed, and are filed past the run the index kept.
LEMMA LandKeeps ==
    ASSUME Inv, Budgeted', NEW r \in Rids, ReloadLand(r)
    PROVE  Inv'
<1>0. /\ stage[r] = "landing" /\ File(r, pages[r], host[r].run + 1, host[r].keyed)
      /\ stage' = [stage EXCEPT ![r] = "device"] /\ host' = [host EXCEPT ![r] = NoCopy]
      /\ UNCHANGED <<content, pages, lease, stored, cursor, flight, reserved>>
  BY DEF ReloadLand, streamVars
<1>1. /\ lease[r] = <<>> /\ flight[r] = 0 /\ Len(pages[r]) = stored[r] /\ Bound(r) = host[r].run
      /\ host[r].keyed <= Len(host[r].data) /\ host[r].keyed <= Len(Chain[r])
      /\ Len(host[r].data) = stored[r] /\ host[r].run \in Nat /\ host[r].keyed \in Nat
  BY SMTT(30), <1>0, OfRequest DEF Streaming, Copied, Bound, Copies
<1>2. /\ byKey' \in [Keys -> Pages \cup {None}] /\ OneName(byKey)' /\ owners' \in [Pages -> Nat]
      /\ IndexReads' /\ Harmless(r) /\ Balanced(r, pages[r], lease[r])
  <2>1. PICK from \in Nat \ {0}, to \in Nat : from = host[r].run + 1 /\ to = host[r].keyed
    BY <1>1
  <2>2. from > Bound(r) /\ to <= Len(Chain[r]) /\ to <= Len(pages[r])
    BY <2>1, <1>1
  <2>3. \A i \in from..to : i \in 1..stored[r]
    BY <2>1, <2>2, <1>1
  <2>4. \A i \in from..to : content'[pages[r][i]] = KeyAt(r, i)
    BY <2>3, <1>0, OfRequest DEF Reads
  <2>5. \A p \in Pages : (\A i \in Bound(r) + 1 .. Len(pages[r]) : pages[r][i] # p) => content'[p] = content[p]
    BY <1>0
  <2>6. File(r, pages[r], from, to)
    BY <2>1, <1>0
  <2>7. QED
    BY <2>2, <2>4, <2>5, <2>6, <1>0, FilesKeep
<1>3. Typed'
  <2>1. NoCopy \in Copies
    BY DEF NoCopy, Copies
  <2>2. QED
    BY <2>1, <1>0, <1>2, OfRequest DEF Typed, Stages
<1>4. PagesConserved'
  <2>1. pages' = [pages EXCEPT ![r] = pages[r]] /\ lease' = [lease EXCEPT ![r] = lease[r]]
    BY <1>0, OfRequest DEF Typed
  <2>2. QED
    BY <2>1, <1>2, <1>3, Recounted
<1>5. Others(r) /\ stage'[r] = "device"
  BY <1>0, OfRequest DEF Others, Self, Typed
<1>6. Sound(r)'
  <2>1. Streaming(r)'
    BY <1>0, <1>1, <1>5, OfRequest DEF Streaming
  <2>2. Copied(r)'
    BY <1>5 DEF Copied
  <2>3. Reads(r)'
    BY <1>0, OfRequest DEF Reads, KeyAt
  <2>4. Private(r)'
    <3>1. stored[r] + 1 .. stored[r] = {}
      BY OfRequest
    <3>2. QED
      BY <3>1, <1>0, <1>1, <1>5 DEF Private, Bound
  <2>5. QED
    BY <2>1, <2>2, <2>3, <2>4 DEF Sound
<1>7. QED
  BY <1>2, <1>3, <1>4, <1>5, <1>6, Kept

\* reload: the run the index still names, and pages that the copy fills.
LEMMA ReloadKeeps ==
    ASSUME Inv, Budgeted', NEW r \in Rids, ReloadTake(r)
    PROVE  Inv'
<1> DEFINE run == ReloadRun(r)
           own == Plus(owners, Range(run))
           copy == host[r].data
<1>1. /\ stage[r] = "host" /\ cursor[r] \in Nat
      /\ stored' = [stored EXCEPT ![r] = Len(copy)]
      /\ host' = [host EXCEPT ![r].run = Len(run)] /\ stage' = [stage EXCEPT ![r] = "landing"]
      /\ UNCHANGED <<lease, cursor, flight, reserved>>
  BY OfRequest DEF ReloadTake
<1>0. PICK n : n = ReloadNeeds(r)
  OBVIOUS
<1>6. PICK E \in Evictions(own, n) : \E got \in Grants(own, E, n) :
         /\ GrantPages(own, E, got)
         /\ pages' = [pages EXCEPT ![r] = run \o got]
         /\ content' = [p \in Pages |->
                          IF p \in Range(got)
                            THEN copy[Len(run) + (CHOOSE i \in DOMAIN got : got[i] = p)]
                            ELSE content[p]]
  BY <1>0 DEF ReloadTake
<1>7. PICK got \in Grants(own, E, n) :
         /\ GrantPages(own, E, got)
         /\ pages' = [pages EXCEPT ![r] = run \o got]
         /\ content' = [p \in Pages |->
                          IF p \in Range(got)
                            THEN copy[Len(run) + (CHOOSE i \in DOMAIN got : got[i] = p)]
                            ELSE content[p]]
  BY <1>6
<1>2. /\ pages[r] = <<>> /\ lease[r] = <<>> /\ stored[r] = 0 /\ flight[r] = 0 /\ reserved[r] = 0
      /\ host[r].keyed <= Len(copy) /\ host[r].keyed <= Len(Chain[r]) /\ host[r].keyed \in Nat
      /\ copy \in Seq(Contents) /\ Len(copy) \in Nat
      /\ \A i \in 1..Len(copy) : copy[i] = KeyAt(r, i)
      /\ cursor[r] >= Len(copy) \/ cursor[r] = Len(Chain[r])
  <2>1. stage[r] = "host" /\ stage[r] # "device"
    BY <1>1
  <2>2. pages[r] = <<>> /\ Len(pages[r]) = 0 /\ host[r].keyed \in Nat /\ copy \in Seq(Contents)
    BY <2>1, OfRequest DEF Copied, Copies
  <2>3. lease[r] = <<>> /\ stored[r] = 0 /\ flight[r] = 0 /\ reserved[r] = 0
    BY <2>1, <2>2, OfRequest DEF Streaming
  <2>4. /\ host[r].keyed <= Len(copy) /\ host[r].keyed <= Len(Chain[r])
        /\ \A i \in 1..Len(copy) : copy[i] = KeyAt(r, i)
        /\ cursor[r] >= Len(copy) \/ cursor[r] = Len(Chain[r])
    BY <2>1, OfRequest DEF Copied
  <2>5. QED
    BY <2>2, <2>3, <2>4
<1>3. /\ run \in Seq(Pages) /\ Len(run) \in Nat /\ Len(run) <= host[r].keyed /\ IsInjective(run)
      /\ \A i \in 1..Len(run) : run[i] = byKey[Chain[r][i]] /\ run[i] \in Range(byKey) \ {None}
  <2>1. host[r].keyed \in 0..Len(Chain[r])
    BY <1>2, OfRequest
  <2>2. run = PagesFor(r, host[r].keyed)
    BY DEF ReloadRun
  <2>3. QED
    BY <2>1, <2>2, OfRequest, Run
<1>4. n = Len(copy) - Len(run) /\ n \in Nat
  BY <1>0, <1>2, <1>3 DEF ReloadNeeds
<1>5. own = Plus(owners, Range(run))
  OBVIOUS
<1> HIDE DEF run, own, copy
<1>8. PICK R : R = Range(run)
  OBVIOUS
<1>9. /\ R \subseteq Range(byKey) \ {None} /\ R \subseteq Pages
      /\ R \cap (Range(pages[r]) \cup Range(lease[r])) = {}
      /\ Range(pages[r]) = {} /\ Range(lease[r]) = {}
  BY <1>2, <1>3, <1>8 DEF Range
<1>10. own \in [Pages -> Nat] /\ \A p \in Pages : own[p] = owners[p] + One(p, R)
  <2>1. own = Plus(owners, R) /\ Typed
    BY <1>5, <1>8, OfRequest
  <2>2. Plus(owners, R) \in [Pages -> Nat] /\ \A p \in Pages : Plus(owners, R)[p] = owners[p] + One(p, R)
    BY <2>1, PlusMinus
  <2>3. QED
    BY <2>1, <2>2
<1>11. \A p \in Pages : own[p] >= owners[p]
  <2>1. ASSUME NEW p \in Pages PROVE owners[p] \in Nat /\ One(p, R) \in {0, 1}
    BY OfRequest DEF Typed, One
  <2>2. QED
    BY <2>1, <1>10
<1>12. /\ got \in Seq(Pages) /\ Len(got) = n /\ IsInjective(got) /\ Range(got) \subseteq Pages
       /\ \A p \in Range(got) : own[p] <= 1
  <2>1. PICK w \in [Pages -> Nat] : w = own
    BY <1>10
  <2>2. (\A p \in Pages : w[p] >= owners[p]) /\ E \in Evictions(w, n) /\ got \in Grants(w, E, n)
    BY <2>1, <1>11
  <2>3. /\ got \in Seq(Pages) /\ Len(got) = n /\ IsInjective(got) /\ Range(got) \subseteq Pages
        /\ \A p \in Range(got) : w[p] <= 1
    BY <2>2, <1>4, Granted
  <2>4. QED
    BY <2>1, <2>3
<1>13. R \cap Range(got) = {}
  <2> SUFFICES ASSUME NEW p \in R, p \in Range(got) PROVE FALSE
    OBVIOUS
  <2>1. p \in Pages /\ p \in Range(byKey) /\ owners[p] \in Nat
    BY <1>9, OfRequest DEF Typed
  <2>2. owners[p] >= 1 /\ own[p] = owners[p] + 1
    BY <2>1, <1>10, Owned DEF One
  <2>3. QED
    BY <2>1, <2>2, <1>12
<1>14. PICK pg : pg = run \o got
  OBVIOUS
<1>15. /\ pg \in Seq(Pages) /\ Len(pg) = Len(copy) /\ IsInjective(pg)
       /\ Range(pg) = Range(pages[r]) \cup Range(lease[r]) \cup R \cup Range(got)
       /\ \A i \in 1..Len(run) : pg[i] = run[i]
       /\ \A i \in Len(run) + 1 .. Len(copy) : pg[i] = got[i - Len(run)]
  <2>0. Range(run) \cap Range(got) = {}
    BY <1>8, <1>13
  <2>1. /\ run \o got \in Seq(Pages) /\ Len(run \o got) = Len(run) + Len(got)
        /\ Range(run \o got) = Range(run) \cup Range(got)
        /\ \A i \in 1..Len(run) : (run \o got)[i] = run[i]
        /\ \A i \in Len(run) + 1 .. Len(run) + Len(got) : (run \o got)[i] = got[i - Len(run)]
        /\ IsInjective(run \o got)
    BY <2>0, <1>3, <1>12, Joined
  <2>2. Len(run) + Len(got) = Len(copy)
    BY <1>2, <1>3, <1>4, <1>12
  <2>3. QED
    BY <2>1, <2>2, <1>8, <1>9, <1>14
<1>16. pages' = [pages EXCEPT ![r] = pg] /\ lease' = [lease EXCEPT ![r] = <<>>]
  BY <1>1, <1>2, <1>7, <1>14, OfRequest DEF Typed
<1>17. \A p \in Pages \ Range(got) : content'[p] = content[p]
  BY <1>7
<1>18. /\ owners' \in [Pages -> Nat] /\ byKey' \in [Keys -> Pages \cup {None}]
       /\ pages' \in [Rids -> Seq(Pages)] /\ lease' \in [Rids -> Seq(Pages)]
       /\ Balanced(r, pg, <<>>) /\ \A p \in Range(got) : owners'[p] = 1
       /\ Harmless(r) /\ OneName(byKey)' /\ IndexReads'
  <2>1. n \in Nat /\ GrantPages(own, E, got) /\ pg \in Seq(Pages)
    BY <1>4, <1>7, <1>15
  <2>2. /\ R \subseteq Range(byKey) \ {None}
        /\ R \cap (Range(pages[r]) \cup Range(lease[r])) = {}
        /\ Range(pg) = Range(pages[r]) \cup Range(lease[r]) \cup R \cup Range(got)
    BY <1>9, <1>15
  <2>3. QED
    BY <2>1, <2>2, <1>10, <1>16, <1>17, GrantCounts
<1>19. ASSUME NEW i \in 1..n
       PROVE  got[i] \in Range(got) /\ content'[got[i]] = copy[Len(run) + i] /\ Len(run) + i \in 1..Len(copy)
  <2>1. i \in DOMAIN got /\ got[i] \in Range(got) /\ got[i] \in Pages
    BY <1>12 DEF Range
  <2>2. (CHOOSE j \in DOMAIN got : got[j] = got[i]) = i
    BY <2>1, <1>12 DEF IsInjective
  <2>3. QED
    BY <2>1, <2>2, <1>2, <1>3, <1>4, <1>7
<1>20. content' \in [Pages -> Contents]
  <2>1. ASSUME NEW p \in Pages PROVE content'[p] \in Contents
    <3>1. CASE p \in Range(got)
      <4>1. PICK i \in 1..n : p = got[i]
        BY <3>1, <1>12 DEF Range
      <4>2. QED
        BY <4>1, <1>2, <1>19
    <3>2. CASE p \notin Range(got)
      BY <3>2, <1>17, OfRequest DEF Typed
    <3>3. QED
      BY <3>1, <3>2
  <2>2. QED
    BY <2>1, <1>7
<1>21. Typed'
  <2>1. host' \in [Rids -> Copies]
    BY ZenonT(60), <1>1, <1>3, OfRequest DEF Typed, Copies
  <2>2. stage' \in [Rids -> Stages] /\ stored' \in [Rids -> Nat]
    BY <1>1, <1>2, OfRequest DEF Typed, Stages
  <2>3. QED
    BY <2>1, <2>2, <1>1, <1>18, <1>20, OfRequest DEF Typed
<1>22. PagesConserved'
  BY <1>16, <1>18, <1>21, Recounted
<1>23. /\ Others(r) /\ pages'[r] = pg /\ stored'[r] = Len(copy) /\ stage'[r] = "landing"
       /\ host'[r].run = Len(run) /\ host'[r].keyed = host[r].keyed /\ host'[r].data = copy
  BY <1>1, <1>16, OfRequest DEF Others, Self, Typed, Copies, copy
<1>24. Sound(r)'
  <2>1. Streaming(r)'
    <3>1. /\ lease'[r] = <<>> /\ flight'[r] = 0 /\ reserved'[r] = 0 /\ cursor'[r] = cursor[r]
          /\ cursor[r] <= Len(Chain[r]) /\ Len(lease[r]) <= Len(Chain[r]) /\ IsInjective(lease[r])
      BY <1>1, <1>2, OfRequest DEF Streaming
    <3>2. QED
      BY <3>1, <1>1, <1>2, <1>15, <1>23 DEF Streaming
  <2>2. Copied(r)'
    BY <1>2, <1>3, <1>23 DEF Copied, KeyAt
  <2>3. Reads(r)'
    <3>1. ASSUME NEW i \in 1..Len(copy) PROVE content'[pg[i]] = KeyAt(r, i)
      <4>1. CASE i <= Len(run)
        <5>1. i \in 1..Len(run) /\ i <= Len(Chain[r]) /\ i \in DOMAIN Chain[r] /\ Chain[r][i] \in Keys
          BY <4>1, <1>2, <1>3, Prompt
        <5>2. pg[i] = byKey[Chain[r][i]] /\ byKey[Chain[r][i]] # None /\ run[i] \in Range(run)
          BY <5>1, <1>3, <1>15 DEF Range
        <5>3. pg[i] \in Pages \ Range(got)
          BY <5>1, <5>2, <1>8, <1>9, <1>13, <1>15
        <5>4. content[byKey[Chain[r][i]]] = Chain[r][i]
          BY <5>1, <5>2, OfRequest DEF IndexReads
        <5>5. QED
          BY <5>1, <5>2, <5>3, <5>4, <1>17 DEF KeyAt
      <4>2. CASE ~(i <= Len(run))
        <5>1. i \in Len(run) + 1 .. Len(copy) /\ i - Len(run) \in 1..n /\ Len(run) + (i - Len(run)) = i
          BY <4>2, <1>2, <1>3, <1>4
        <5>2. content'[got[i - Len(run)]] = copy[i]
          BY <5>1, <1>19
        <5>3. QED
          BY <5>1, <5>2, <1>2, <1>15
      <4>3. QED
        BY <4>1, <4>2
    <3>2. lease'[r] = <<>> /\ DOMAIN <<>> = {}
      BY <1>1, <1>2
    <3>3. QED
      BY <3>1, <3>2, <1>23 DEF Reads, KeyAt
  <2>4. Private(r)'
    <3>1. ASSUME NEW i \in Len(run) + 1 .. Len(pg) PROVE owners'[pg[i]] = 1
      <4>1. i - Len(run) \in 1..n /\ pg[i] = got[i - Len(run)]
        BY <1>2, <1>3, <1>4, <1>15
      <4>2. QED
        BY <4>1, <1>18, <1>19
    <3>2. QED
      BY <3>1, <1>23 DEF Private, Bound
  <2>5. QED
    BY <2>1, <2>2, <2>3, <2>4 DEF Sound
<1>25. QED
  BY <1>18, <1>21, <1>22, <1>23, <1>24, Kept

-----------------------------------------------------------------------------
(* The theorems *)

\* The invariant holds at first.
LEMMA InitInv == Init => Inv
<1> SUFFICES ASSUME Init PROVE Inv
  OBVIOUS
<1>0. \A r \in Rids : /\ pages[r] = <<>> /\ lease[r] = <<>> /\ stored[r] = 0 /\ cursor[r] = 0 /\ flight[r] = 0
                      /\ reserved[r] = 0 /\ stage[r] = "device"
  BY DEF Init
<1>1. Typed
  BY DEF Init, Typed, Contents, Copies, NoCopy, Stages
<1>2. Budgeted
  BY DEF Init, Budgeted, NoAllot
<1>3. OneName(byKey) /\ IndexReads
  BY DEF Init, OneName, IndexReads
<1>4. PagesConserved
  <2>1. ASSUME NEW p \in Pages PROVE owners[p] = Count(pages, lease, byKey, p)
    <3>1. Holders(pages, p) = {} /\ Holders(lease, p) = {}
      BY <1>0 DEF Holders, Range
    <3>2. p \notin Range(byKey)
      BY KVPoolAssumption DEF Init, Range
    <3>3. Cardinality(Holders(pages, p)) = 0 /\ Cardinality(Holders(lease, p)) = 0
      BY <3>1, FS_EmptySet
    <3>4. owners[p] = 0
      BY DEF Init
    <3>5. QED
      BY <3>2, <3>3, <3>4 DEF Count, One
  <2>2. QED
    BY <2>1, <1>1, <1>3, SameCount DEF Conserved
<1>5. ASSUME NEW r \in Rids PROVE Sound(r)
  <2>1. Len(<<>>) = 0 /\ DOMAIN <<>> = {} /\ IsInjective(<<>>) /\ Len(Chain[r]) \in Nat
    BY Prompt DEF IsInjective
  <2>2. Streaming(r)
    <3>1. Len(<<>>) <= Len(Chain[r]) /\ 0 <= Len(Chain[r]) /\ 0 = 0 + 0 /\ 0 >= 0
      BY <2>1
    <3>2. QED
      BY <3>1, <1>0, <2>1 DEF Streaming
  <2>3. Copied(r)
    BY <1>0 DEF Copied
  <2>4. Reads(r)
    BY <1>0, <2>1 DEF Reads
  <2>5. Private(r)
    BY <1>0, <2>1 DEF Private, Bound
  <2>6. QED
    BY <2>2, <2>3, <2>4, <2>5 DEF Sound
<1>6. QED
  BY <1>1, <1>2, <1>3, <1>4, <1>5 DEF Inv

\* Every step of the pool keeps it.
LEMMA NextInv == Inv /\ [Next]_vars => Inv'
<1> SUFFICES ASSUME Inv, [Next]_vars PROVE Inv'
  OBVIOUS
<1>1. CASE UNCHANGED vars
  <2>1. Budgeted'
    BY <1>1 DEF Inv, Budgeted, vars, streamVars
  <2>2. QED
    BY <2>1, <1>1, Frame DEF vars, poolVars, streamVars
<1>2. CASE Next
  <2>0. Budgeted'
    BY <1>2, BudgetKept
  <2>1. PICK r \in Rids :
          \/ Ingest(r) \/ Reserve(r) \/ Unreserve(r) \/ Lease(r)
          \/ \E n \in Spans(r) : Admit(r, n) \/ AdmitRefused(r, n)
          \/ Rollback(r) \/ Commit(r) \/ Drop(r)
          \/ OffloadClaim(r) \/ OffloadCommit(r) \/ OffloadAbandon(r)
          \/ ReloadTake(r) \/ ReloadShort(r) \/ ReloadLand(r)
          \/ Remove(r)
    BY <1>2 DEF Next
  <2>2. CASE Ingest(r) \/ Reserve(r) \/ Unreserve(r) \/ ReloadShort(r)
    <3>1. UNCHANGED <<owners, byKey, content, pages, lease, stored, cursor, flight, reserved, stage, host>>
      BY <2>2 DEF Ingest, Reserve, Unreserve, ReloadShort, poolVars, streamVars
    <3>2. QED
      BY <3>1, <2>0, Frame
  <2>3. CASE Lease(r)
    BY <2>3, <2>0, LeaseKeeps
  <2>4. CASE \E n \in Spans(r) : Admit(r, n) \/ AdmitRefused(r, n)
    BY <2>4, <2>0, AdmitKeeps, AdmitRefusedKeeps
  <2>5. CASE Rollback(r)
    BY <2>5, <2>0, RollbackKeeps
  <2>6. CASE Commit(r)
    BY <2>6, <2>0, CommitKeeps
  <2>7. CASE Drop(r) \/ Remove(r)
    BY <2>7, <2>0, DropKeeps
  <2>8. CASE OffloadClaim(r) \/ OffloadAbandon(r)
    BY <2>8, <2>0, ClaimKeeps
  <2>9. CASE OffloadCommit(r)
    BY <2>9, <2>0, OffloadCommitKeeps
  <2>10. CASE ReloadTake(r)
    BY <2>10, <2>0, ReloadKeeps
  <2>11. CASE ReloadLand(r)
    BY <2>11, <2>0, LandKeeps
  <2>12. QED
    BY <2>1, <2>2, <2>3, <2>4, <2>5, <2>6, <2>7, <2>8, <2>9, <2>10, <2>11
<1>3. QED
  BY <1>1, <1>2

\* So it always holds.
LEMMA Invariance == Spec => []Inv
BY InitInv, NextInv, PTL DEF Spec

\* The owners of a page are the streams, the leases and the key that hold it: no path
\* through lease, admit, rollback, offload, reload and removal loses one or counts it
\* twice (PythonPageArena's counts, which the manager retains and releases).
THEOREM NoPageIsLost == Spec => []PagesConserved
<1>1. Inv => PagesConserved
  BY DEF Inv
<1>2. QED
  BY <1>1, Invariance, PTL

\* The pages a step writes have no other owner: KVManager.admit never grants a page
\* that another request or the index can read before commit has filed it.
THEOREM NoForeignWrite == Spec => []FrontierPrivate
<1>1. Inv => FrontierPrivate
  <2> SUFFICES ASSUME Inv, NEW r \in Rids, NEW i \in stored[r] + 1 .. Len(pages[r])
               PROVE  owners[pages[r][i]] = 1
    BY DEF FrontierPrivate
  <2>1. CASE stage[r] = "landing"
    BY <2>1, OfRequest DEF Streaming
  <2>2. CASE stage[r] # "landing"
    BY <2>2, OfRequest DEF Private, Bound
  <2>3. QED
    BY <2>1, <2>2
<1>2. QED
  BY <1>1, Invariance, PTL

\* What a request reads at a position is what it would have written there, however the
\* page came to its stream: leased from the index, filed by another request, written by
\* its own step or copied back from the host.
THEOREM OwnPrefixIsRead == Spec => []ReadsOwnPrefix
<1>1. Inv => ReadsOwnPrefix
  BY DEF Inv, Sound, Reads, IndexReads, ReadsOwnPrefix
<1>2. QED
  BY <1>1, Invariance, PTL

-----------------------------------------------------------------------------
(* The pages that a grant may take *)

\* The evictable pages are the largest set of this kind.
LEMMA EvictableIs ==
    ASSUME NEW own, NEW bk, NEW par
    PROVE  /\ EvictableOf(own, bk, par) \subseteq Range(bk) \ {None}
           /\ \A p \in EvictableOf(own, bk, par) : own[p] <= 1
           /\ \A p \in Range(bk) \ {None} : par[p] \in EvictableOf(own, bk, par) => p \in EvictableOf(own, bk, par)
           /\ \A S \in SUBSET (Range(bk) \ {None}) :
                 /\ \A p \in S : own[p] <= 1
                 /\ \A p \in Range(bk) \ {None} : par[p] \in S => p \in S
                 => S \subseteq EvictableOf(own, bk, par)
BY DEF EvictableOf

\* Free or evictable.  A page in the index is not free.
Avail(own, bk, par) == FreeOf(own) \cup EvictableOf(own, bk, par)
Backed(own, bk) ==
    /\ own \in [Pages -> Nat] /\ bk \in [Keys -> Pages \cup {None}]
    /\ \A p \in Pages : p \in Range(bk) => own[p] >= 1

\* No page is both free and evictable.
LEMMA AvailCounts ==
    ASSUME NEW own, NEW bk, NEW par, Backed(own, bk)
    PROVE  /\ Avail(own, bk, par) \in SUBSET Pages
           /\ Cardinality(FreeOf(own)) \in Nat /\ Cardinality(EvictableOf(own, bk, par)) \in Nat
           /\ Cardinality(Avail(own, bk, par))
                = Cardinality(FreeOf(own)) + Cardinality(EvictableOf(own, bk, par))
<1>1. FreeOf(own) \in SUBSET Pages
  BY DEF FreeOf
<1>2. Range(bk) \ {None} \subseteq Pages
  BY DEF Backed, Range
<1>3. EvictableOf(own, bk, par) \in SUBSET Pages
  BY <1>2, EvictableIs
<1>4. FreeOf(own) \cap EvictableOf(own, bk, par) = {}
  <2> SUFFICES ASSUME NEW p \in Pages, own[p] = 0, p \in EvictableOf(own, bk, par) PROVE FALSE
    BY DEF FreeOf
  <2>1. p \in Range(bk)
    BY EvictableIs
  <2> QED
    BY <2>1 DEF Backed
<1>5. /\ IsFiniteSet(FreeOf(own)) /\ Cardinality(FreeOf(own)) \in Nat
      /\ IsFiniteSet(EvictableOf(own, bk, par)) /\ Cardinality(EvictableOf(own, bk, par)) \in Nat
  BY <1>1, <1>3, PageCount
<1>6. Cardinality(FreeOf(own) \cup EvictableOf(own, bk, par))
        = Cardinality(FreeOf(own)) + Cardinality(EvictableOf(own, bk, par))
          - Cardinality(FreeOf(own) \cap EvictableOf(own, bk, par))
  BY <1>5, FS_Union
<1>7. QED
  BY <1>1, <1>3, <1>4, <1>5, <1>6, FS_EmptySet DEF Avail

\* What is left of the evictable pages without those of X.
LEMMA StillEvictable ==
    ASSUME NEW own, NEW bk, NEW par, NEW own2, NEW bk2, NEW par2, NEW X,
           \A p \in EvictableOf(own, bk, par) \ X : p \in Range(bk2) /\ own2[p] <= 1,
           \A p \in Range(bk2) \ {None} :
               par2[p] \in EvictableOf(own, bk, par) \ X => p \in EvictableOf(own, bk, par) \ X
    PROVE  EvictableOf(own, bk, par) \ X \subseteq EvictableOf(own2, bk2, par2)
<1>1. EvictableOf(own, bk, par) \ X \in SUBSET (Range(bk2) \ {None})
  BY EvictableIs
<1>2. PICK S : S = EvictableOf(own, bk, par) \ X
  OBVIOUS
<1>3. S \in SUBSET (Range(bk2) \ {None}) /\ (\A p \in S : own2[p] <= 1)
  BY <1>1, <1>2
<1>4. \A p \in Range(bk2) \ {None} : par2[p] \in S => p \in S
  BY <1>2
<1>5. S \subseteq EvictableOf(own2, bk2, par2)
  BY <1>3, <1>4, EvictableIs
<1>6. QED
  BY <1>2, <1>5

\* In a state the invariant holds in.
LEMMA BackedNow == Inv => Backed(owners, byKey)
BY Owned DEF Inv, Typed, Backed

\* The room is what can be granted and is not promised.
LEMMA RoomIs ==
    Inv => /\ Avail(owners, byKey, parent) \in SUBSET Pages
           /\ Room = Cardinality(Avail(owners, byKey, parent)) - unused
           /\ Cardinality(Avail(owners, byKey, parent)) = Cardinality(Free) + Cardinality(Evictable)
           /\ Cardinality(Avail(owners, byKey, parent)) \in Nat
<1> SUFFICES ASSUME Inv
             PROVE  /\ Avail(owners, byKey, parent) \in SUBSET Pages
                    /\ Room = Cardinality(Avail(owners, byKey, parent)) - unused
                    /\ Cardinality(Avail(owners, byKey, parent)) = Cardinality(Free) + Cardinality(Evictable)
                    /\ Cardinality(Avail(owners, byKey, parent)) \in Nat
  OBVIOUS
<1>1. Backed(owners, byKey)
  BY BackedNow
<1>2. /\ Avail(owners, byKey, parent) \in SUBSET Pages
      /\ Cardinality(FreeOf(owners)) \in Nat /\ Cardinality(EvictableOf(owners, byKey, parent)) \in Nat
      /\ Cardinality(Avail(owners, byKey, parent))
           = Cardinality(FreeOf(owners)) + Cardinality(EvictableOf(owners, byKey, parent))
  BY <1>1, AvailCounts
<1>3. unused \in Int /\ Free = FreeOf(owners) /\ Evictable = EvictableOf(owners, byKey, parent)
  BY DEF Inv, Budgeted, Free, Evictable
<1> QED
  BY <1>2, <1>3 DEF Room

-----------------------------------------------------------------------------
(* What is promised to allotments and not used: one token for each page *)

Left(al) == [q \in Rids |-> al[q].remaining]
Tokens(f) == UNION {{q} \X (1..f[q]) : q \in Rids}

\* There are finitely many tokens.
LEMMA TokensFinite ==
    ASSUME NEW f \in [Rids -> Nat]
    PROVE  IsFiniteSet(Tokens(f)) /\ Cardinality(Tokens(f)) \in Nat
<1> DEFINE g == [q \in Rids |-> {q} \X (1..f[q])]
           T == {{q} \X (1..f[q]) : q \in Rids}
<1>1. g \in Surjection(Rids, T)
  BY DEF Surjection
<1>2. IsFiniteSet(T)
  BY <1>1, KVPoolAssumption, FS_Surjection
<1>3. \A q \in Rids : IsFiniteSet({q} \X (1..f[q]))
  <2> SUFFICES ASSUME NEW q \in Rids PROVE IsFiniteSet({q} \X (1..f[q]))
    OBVIOUS
  <2>0. f[q] \in Int /\ 1 \in Int
    OBVIOUS
  <2>1. IsFiniteSet({q}) /\ IsFiniteSet(1..f[q])
    BY <2>0, FS_Singleton, FS_Interval
  <2> QED
    BY <2>1, FS_Product
<1>4. QED
  BY <1>2, <1>3, FS_UNION, FS_CardinalityType DEF Tokens

\* A request has as many as it is promised.
LEMMA TokensOf ==
    ASSUME NEW f \in [Rids -> Nat], NEW r \in Rids
    PROVE  IsFiniteSet({r} \X (1..f[r])) /\ Cardinality({r} \X (1..f[r])) = f[r]
<1>1. IsFiniteSet({r}) /\ Cardinality({r}) = 1
  BY FS_Singleton
<1>2. IsFiniteSet(1..f[r]) /\ Cardinality(1..f[r]) = f[r]
  BY FS_Interval
<1>3. IsFiniteSet({r} \X (1..f[r])) /\ Cardinality({r} \X (1..f[r])) = 1 * f[r]
  BY <1>1, <1>2, FS_Product
<1> QED
  BY <1>3

\* A promise that changes changes their number by as much, and none is more than all.
LEMMA TokensMove ==
    ASSUME NEW f \in [Rids -> Nat], NEW r \in Rids, NEW n \in Nat
    PROVE  /\ Cardinality(Tokens([f EXCEPT ![r] = n])) = Cardinality(Tokens(f)) - f[r] + n
           /\ f[r] <= Cardinality(Tokens(f))
<1> DEFINE g == [f EXCEPT ![r] = n]
           Rest == UNION {{q} \X (1..f[q]) : q \in Rids \ {r}}
<1>1. g \in [Rids -> Nat] /\ g[r] = n /\ \A q \in Rids \ {r} : g[q] = f[q]
  OBVIOUS
<1>2. Tokens(f) = Rest \cup ({r} \X (1..f[r])) /\ Tokens(g) = Rest \cup ({r} \X (1..g[r]))
  BY <1>1 DEF Tokens
<1>3. Rest \cap ({r} \X (1..f[r])) = {} /\ Rest \cap ({r} \X (1..g[r])) = {}
  OBVIOUS
<1> HIDE DEF g, Rest
<1>4. IsFiniteSet(Rest) /\ Cardinality(Rest) \in Nat
  <2>1. Rest \in SUBSET Tokens(f)
    BY <1>2
  <2> QED
    BY <2>1, TokensFinite, FS_Subset, FS_CardinalityType
<1>5. IsFiniteSet({r} \X (1..f[r])) /\ Cardinality({r} \X (1..f[r])) = f[r]
  BY TokensOf
<1>6. IsFiniteSet({r} \X (1..g[r])) /\ Cardinality({r} \X (1..g[r])) = n
  BY <1>1, TokensOf
<1>7. Cardinality(Tokens(f)) = Cardinality(Rest) + f[r] - 0
  BY <1>2, <1>3, <1>4, <1>5, FS_Union, FS_EmptySet
<1>8. Cardinality(Tokens(g)) = Cardinality(Rest) + n - 0
  BY <1>2, <1>3, <1>4, <1>6, FS_Union, FS_EmptySet
<1> QED
  BY <1>4, <1>7, <1>8 DEF g

-----------------------------------------------------------------------------
(* The invariant of the count *)

\* A page below another is the page of the next key of a prompt.
Forest ==
    /\ parent \in [Pages -> Pages \cup {None}]
    /\ \A p \in Pages : parent[p] # None =>
          \E r \in Rids : \E i \in 2..Len(Chain[r]) :
              byKey[Chain[r][i]] = p /\ byKey[Chain[r][i - 1]] = parent[p]

\* An allotment has left what its stream and its lease, but for what they borrow, have not used.
Owes(r) == Len(pages[r]) + Len(lease[r]) - Cardinality(lent[r])
Paid(r) ==
    /\ lent[r] \subseteq Range(pages[r]) \cup Range(lease[r])
    /\ Allotted(r) => allot[r].pages \in Nat /\ allot[r].remaining = Remaining(allot[r].pages, Owes(r))
    /\ ~Allotted(r) => pages[r] = <<>> /\ lease[r] = <<>> /\ stage[r] = "device"

\* The count is what the allotments have left together.
Counted == /\ \A r \in Rids : allot[r].remaining >= 0
           /\ unused = Cardinality(Tokens(Left(allot)))

\* A mark that nothing has moved past holds back a request that does not fit.
Marks == [room : Nat, moved : BOOLEAN] \cup {NoMark}
Marked(r) == mark[r] # NoMark /\ ~mark[r].moved => Need(r) > mark[r].room

Funded ==
    /\ Forest /\ Counted /\ RoomCovered /\ mark \in [Rids -> Marks]
    /\ \A r \in Rids : Paid(r) /\ Marked(r)

\* A key has one place, behind one key.
LEMMA OnePlace ==
    ASSUME NEW r \in Rids, NEW q \in Rids, NEW i \in 1..Len(Chain[r]), NEW j \in 1..Len(Chain[q]),
           Chain[r][i] = Chain[q][j]
    PROVE  i = j /\ (i > 1 => Chain[r][i - 1] = Chain[q][i - 1])
BY KVPoolAssumption

\* Above the page of a key is the page of the key before.
LEMMA Above ==
    ASSUME Inv, Forest, NEW r \in Rids, NEW i \in 1..Len(Chain[r]),
           byKey[Chain[r][i]] \in Pages, parent[byKey[Chain[r][i]]] # None
    PROVE  i > 1 /\ parent[byKey[Chain[r][i]]] = byKey[Chain[r][i - 1]]
<1>1. PICK p \in Pages : p = byKey[Chain[r][i]]
  OBVIOUS
<1>a. PICK q \in Rids : \E j \in 2..Len(Chain[q]) : byKey[Chain[q][j]] = p /\ byKey[Chain[q][j - 1]] = parent[p]
  BY <1>1 DEF Forest
<1>2. PICK j \in 2..Len(Chain[q]) : byKey[Chain[q][j]] = p /\ byKey[Chain[q][j - 1]] = parent[p]
  BY <1>a
<1>3. j \in 1..Len(Chain[q]) /\ j > 1
  BY Prompt
<1>4. Chain[r][i] \in Keys /\ Chain[q][j] \in Keys
  BY <1>3, Prompt
<1>5. Chain[r][i] = Chain[q][j]
  BY <1>1, <1>2, <1>4, KVPoolAssumption DEF Inv, OneName
<1>6. i = j /\ (i > 1 => Chain[r][i - 1] = Chain[q][i - 1])
  BY <1>3, <1>5, OnePlace
<1> QED
  BY <1>1, <1>2, <1>3, <1>6

-----------------------------------------------------------------------------
(* An eviction of any size can be made, leaves first *)

\* Where the key of a page is in the prompts that have it.
Deep(p) == CHOOSE i \in Nat : \E r \in Rids : i \in 1..Len(Chain[r]) /\ byKey[Chain[r][i]] = p

\* The page of a key is as deep as the key.
LEMMA DeepIs ==
    ASSUME Inv, NEW r \in Rids, NEW i \in 1..Len(Chain[r]), byKey[Chain[r][i]] \in Pages
    PROVE  Deep(byKey[Chain[r][i]]) = i
<1>1. PICK p \in Pages : p = byKey[Chain[r][i]]
  OBVIOUS
<1>2. i \in Nat /\ \E q \in Rids : i \in 1..Len(Chain[q]) /\ byKey[Chain[q][i]] = p
  BY <1>1
<1>3. PICK j : j = Deep(p)
  OBVIOUS
<1>4. j \in Nat /\ \E q \in Rids : j \in 1..Len(Chain[q]) /\ byKey[Chain[q][j]] = p
  BY <1>2, <1>3 DEF Deep
<1>5. PICK q \in Rids : j \in 1..Len(Chain[q]) /\ byKey[Chain[q][j]] = p
  BY <1>4
<1>6. Chain[r][i] \in Keys /\ Chain[q][j] \in Keys
  BY <1>5, Prompt
<1>7. Chain[r][i] = Chain[q][j]
  BY <1>1, <1>5, <1>6, KVPoolAssumption DEF Inv, OneName
<1>8. i = j
  BY <1>5, <1>7, OnePlace
<1> QED
  BY <1>1, <1>3, <1>8

\* A page is deeper than the one above it, and none is deeper than there are pages.
LEMMA DeeperBelow ==
    ASSUME Inv, Forest, NEW p \in Pages, parent[p] # None
    PROVE  /\ Deep(p) = Deep(parent[p]) + 1 /\ Deep(parent[p]) \in 1..Cardinality(Pages)
           /\ Deep(p) \in 1..Cardinality(Pages) /\ p \in Range(byKey)
<1>a. PICK r \in Rids : \E i \in 2..Len(Chain[r]) : byKey[Chain[r][i]] = p /\ byKey[Chain[r][i - 1]] = parent[p]
  BY DEF Forest
<1>1. PICK i \in 2..Len(Chain[r]) : byKey[Chain[r][i]] = p /\ byKey[Chain[r][i - 1]] = parent[p]
  BY <1>a
<1>2. i \in 1..Len(Chain[r]) /\ i - 1 \in 1..Len(Chain[r]) /\ parent[p] \in Pages
  BY Prompt DEF Forest
<1>3. Deep(p) = i /\ Deep(parent[p]) = i - 1
  BY <1>1, <1>2, DeepIs
<1>4. Len(Chain[r]) \in 1..Cardinality(Pages) /\ Cardinality(Pages) \in Nat
  BY KVPoolAssumption, FS_CardinalityType
<1>5. Chain[r][i] \in Keys
  BY <1>2, Prompt
<1> QED
  BY <1>1, <1>2, <1>3, <1>4, <1>5 DEF Inv, Typed, Range

\* How deep a page is in the index, 0 outside it.
Deepness(p) == IF Deep(p) \in 1..Cardinality(Pages) THEN Deep(p) ELSE 0

\* Of some pages one is deepest.
LEMMA Deepest ==
    ASSUME NEW S \in SUBSET Pages, S # {}
    PROVE  \E p \in S : \A q \in S : Deepness(q) <= Deepness(p)
<1> DEFINE T == {Deepness(p) : p \in S}
<1>1. Cardinality(Pages) \in Nat
  BY KVPoolAssumption, FS_CardinalityType
<1>2. T \subseteq 0..Cardinality(Pages) /\ T # {}
  BY <1>1 DEF Deepness
<1>3. PICK m \in T : \A j \in T : j <= m
  BY <1>1, <1>2, Largest
<1> QED
  BY <1>3

\* Pages that may be evicted together: with a page those below it.
Whole(E) == \A p \in E : \A q \in Pages : parent[q] = p => q \in E

\* Pages that may be evicted can be one more, while an evictable page is left.
LEMMA OneMore ==
    ASSUME Inv, Forest, NEW own, NEW E \in SUBSET EvictableOf(own, byKey, parent), Whole(E),
           E # EvictableOf(own, byKey, parent)
    PROVE  \E p \in EvictableOf(own, byKey, parent) \ E : Whole(E \cup {p})
<1> DEFINE EV == EvictableOf(own, byKey, parent)
<1>1. EV \ E \in SUBSET Pages /\ EV \ E # {}
  BY EvictableIndexed DEF Inv
<1>2. PICK p \in EV \ E : \A q \in EV \ E : Deepness(q) <= Deepness(p)
  BY <1>1, Deepest
<1>3. ASSUME NEW q \in Pages, parent[q] = p PROVE q \in E
  <2>1. p \in Pages /\ p # None
    BY <1>1, KVPoolAssumption
  <2>2. Deepness(q) = Deepness(p) + 1 /\ q \in Range(byKey) \ {None} /\ Deepness(p) \in Int
    BY <1>3, <2>1, DeeperBelow, KVPoolAssumption DEF Deepness
  <2>3. q \in EV
    BY <1>3, <2>2, EvictableIs
  <2> QED
    BY <1>2, <2>2, <2>3
<1> QED
  BY <1>2, <1>3 DEF Whole

\* So there are some to evict of any number.
LEMMA AnySize ==
    ASSUME Inv, Forest, NEW own, NEW n \in 0..Cardinality(EvictableOf(own, byKey, parent))
    PROVE  \E E \in SUBSET EvictableOf(own, byKey, parent) : Cardinality(E) = n /\ Whole(E)
<1> DEFINE EV == EvictableOf(own, byKey, parent)
           Made(k) == \E E \in SUBSET EV : Cardinality(E) = k /\ Whole(E)
           T == {k \in 0..n : Made(k)}
<1>1. EV \in SUBSET Pages /\ IsFiniteSet(EV) /\ Cardinality(EV) \in Nat
  BY EvictableIndexed, PageCount DEF Inv
<1>2. 0 \in T
  <2>1. {} \in SUBSET EV /\ Cardinality({}) = 0 /\ Whole({})
    BY FS_EmptySet DEF Whole
  <2> QED
    BY <1>1, <2>1
<1>3. n \in Nat /\ T \subseteq 0..n
  BY <1>1
<1>4. PICK k \in T : \A j \in T : j <= k
  BY <1>2, <1>3, Largest
<1>5. PICK E \in SUBSET EV : Cardinality(E) = k /\ Whole(E)
  BY <1>4
<1>6. CASE k = n
  BY <1>5, <1>6
<1>7. CASE k # n
  <2>1. k \in 0..n /\ k < n /\ k + 1 \in 0..n
    BY <1>3, <1>4, <1>7
  <2>2. E # EV
    BY <1>1, <1>5, <2>1
  <2>3. PICK p \in EV \ E : Whole(E \cup {p})
    BY <1>5, <2>2, OneMore
  <2>4. IsFiniteSet(E)
    BY <1>1, FS_Subset
  <2>5. Cardinality(E \cup {p}) = k + 1
    BY <1>5, <2>3, <2>4, FS_AddElement
  <2>6. k + 1 \in T
    BY <2>1, <2>3, <2>5
  <2> QED
    BY <1>4, <2>1, <2>6
<1> QED
  BY <1>6, <1>7

\* So a grant is met when free and evictable pages are enough.
LEMMA EvictionsMade ==
    ASSUME Inv, Forest, NEW own, own \in [Pages -> Nat], NEW n \in Nat,
           n <= Cardinality(FreeOf(own)) + Cardinality(EvictableOf(own, byKey, parent))
    PROVE  Evictions(own, n) # {}
<1>1. Cardinality(FreeOf(own)) \in Nat /\ Cardinality(EvictableOf(own, byKey, parent)) \in Nat
  BY EvictableIndexed, PageCount DEF Inv, FreeOf
<1>2. Most(0, n - Cardinality(FreeOf(own))) \in 0..Cardinality(EvictableOf(own, byKey, parent))
  BY <1>1 DEF Most
<1>3. PICK E \in SUBSET EvictableOf(own, byKey, parent) :
         Cardinality(E) = Most(0, n - Cardinality(FreeOf(own))) /\ Whole(E)
  BY <1>2, AnySize
<1> QED
  BY <1>3 DEF Evictions, Whole

-----------------------------------------------------------------------------
(* What steps do to the pages that a grant may take *)

\* Retaining a cached run takes its pages only.
LEMMA RunAvail ==
    ASSUME Inv, Forest, NEW r \in Rids, NEW run \in Seq(Pages), Len(run) <= Len(Chain[r]),
           \A i \in 1..Len(run) : run[i] = byKey[Chain[r][i]]
    PROVE  /\ Avail(owners, byKey, parent) \ Range(run) \subseteq Avail(Plus(owners, Range(run)), byKey, parent)
           /\ Evictable \ Range(run) \subseteq EvictableOf(Plus(owners, Range(run)), byKey, parent)
<1>0. None \notin Pages /\ owners \in [Pages -> Nat] /\ Evictable \subseteq Pages
  BY KVPoolAssumption, EvictableIndexed DEF Inv, Typed, Evictable
<1>1. \A p \in Pages \ Range(run) : Plus(owners, Range(run))[p] = owners[p]
  BY DEF Plus
<1>2. Evictable \ Range(run) \subseteq EvictableOf(Plus(owners, Range(run)), byKey, parent)
  <2>1. \A p \in Evictable \ Range(run) : p \in Range(byKey) /\ Plus(owners, Range(run))[p] <= 1
    BY <1>0, <1>1, EvictableIs DEF Evictable
  <2>2. ASSUME NEW p \in Range(byKey) \ {None}, parent[p] \in Evictable \ Range(run)
        PROVE  p \in Evictable \ Range(run)
    <3>1. p \in Evictable
      BY <2>2, EvictableIs DEF Evictable
    <3>2. CASE p \in Range(run)
      <4>1. PICK i \in 1..Len(run) : p = run[i]
        BY <3>2 DEF Range
      <4>2. i \in 1..Len(Chain[r]) /\ p = byKey[Chain[r][i]] /\ p \in Pages /\ parent[p] # None
        BY <4>1, <2>2, <1>0, Prompt
      <4>3. i > 1 /\ parent[p] = byKey[Chain[r][i - 1]]
        BY <4>2, Above
      <4>4. i - 1 \in 1..Len(run) /\ parent[p] = run[i - 1]
        BY <4>1, <4>3
      <4> QED
        BY <4>4, <2>2 DEF Range
    <3> QED
      BY <3>1, <3>2
  <2> QED
    BY <2>1, <2>2, StillEvictable DEF Evictable
<1>3. FreeOf(owners) \ Range(run) \subseteq FreeOf(Plus(owners, Range(run)))
  BY <1>1 DEF FreeOf
<1> QED
  BY <1>2, <1>3 DEF Avail, Evictable

\* Releasing pages takes none away.
LEMMA ReleaseAvail ==
    ASSUME Inv, NEW S \in SUBSET Pages, \A p \in S : owners[p] >= 1
    PROVE  /\ Avail(owners, byKey, parent) \subseteq Avail(Minus(owners, S), byKey, parent)
           /\ Evictable \subseteq EvictableOf(Minus(owners, S), byKey, parent)
<1>1. \A p \in Pages : Minus(owners, S)[p] <= owners[p] /\ (p \notin S => Minus(owners, S)[p] = owners[p])
  BY DEF Inv, Typed, Minus
<1>2. Evictable \subseteq Pages /\ owners \in [Pages -> Nat]
  BY EvictableIndexed DEF Inv, Typed, Evictable
<1>3. Evictable \subseteq EvictableOf(Minus(owners, S), byKey, parent)
  <2>1. \A p \in Evictable \ {} : p \in Range(byKey) /\ Minus(owners, S)[p] <= 1
    <3> SUFFICES ASSUME NEW p \in Evictable PROVE p \in Range(byKey) /\ Minus(owners, S)[p] <= 1
      OBVIOUS
    <3>1. p \in Range(byKey) /\ owners[p] <= 1 /\ owners[p] \in Nat /\ Minus(owners, S)[p] <= owners[p]
      BY <1>1, <1>2, EvictableIs DEF Evictable
    <3>2. Minus(owners, S)[p] \in Int
      BY <1>2 DEF Minus
    <3> QED
      BY <3>1, <3>2
  <2>2. \A p \in Range(byKey) \ {None} : parent[p] \in Evictable \ {} => p \in Evictable \ {}
    BY EvictableIs DEF Evictable
  <2>3. Evictable \ {} \subseteq EvictableOf(Minus(owners, S), byKey, parent)
    BY <2>1, <2>2, StillEvictable DEF Evictable
  <2> QED
    BY <2>3
<1>4. FreeOf(owners) \subseteq FreeOf(Minus(owners, S))
  <2> SUFFICES ASSUME NEW p \in Pages, owners[p] = 0 PROVE Minus(owners, S)[p] = 0
    BY DEF FreeOf
  <2>1. p \notin S
    OBVIOUS
  <2> QED
    BY <2>1, <1>1
<1> QED
  BY <1>3, <1>4 DEF Avail, Evictable

\* A grant takes what it grants.
LEMMA GrantAvail ==
    ASSUME Inv, Forest, NEW own, own \in [Pages -> Nat], \A p \in Pages : own[p] >= owners[p],
           NEW n \in Nat, NEW E \in Evictions(own, n), NEW got \in Grants(own, E, n), GrantPages(own, E, got)
    PROVE  /\ Avail(own, byKey, parent) \ Range(got) \subseteq Avail(owners', byKey', parent')
           /\ EvictableOf(own, byKey, parent) \ Range(got) \subseteq Evictable'
           /\ \A k \in Keys : byKey'[k] = byKey[k] \/ byKey'[k] = None
           /\ \A p \in Range(got) : p \notin Range(byKey')
           /\ Forest'
<1>0. None \notin Pages /\ owners \in [Pages -> Nat] /\ EvictableOf(own, byKey, parent) \subseteq Pages
      /\ byKey \in [Keys -> Pages \cup {None}]
  BY KVPoolAssumption, EvictableIndexed DEF Inv, Typed
<1>1. /\ owners' = [p \in Pages |-> IF p \in Range(got) THEN 1 ELSE own[p]]
      /\ byKey' = [k \in Keys |-> IF byKey[k] \in E THEN None ELSE byKey[k]]
      /\ parent' = [p \in Pages |-> IF p \in E THEN None ELSE parent[p]]
  BY DEF GrantPages
<1>2. /\ E \subseteq Range(got) /\ Range(got) \subseteq Pages
      /\ \A p \in Range(got) : p \notin E => own[p] = 0 /\ owners[p] = 0 /\ p \notin Range(byKey)
  BY Granted
<1>3. E \subseteq EvictableOf(own, byKey, parent) /\ \A p \in E : \A q \in Pages : parent[q] = p => q \in E
  BY DEF Evictions
<1>4. ASSUME NEW p \in Pages PROVE p \in Range(byKey') <=> p \in Range(byKey) /\ p \notin E
  <2>1. DOMAIN byKey = Keys /\ DOMAIN byKey' = Keys /\ p # None
    BY <1>0, <1>1
  <2>2. \A k \in Keys : byKey'[k] = p <=> byKey[k] = p /\ p \notin E
    BY <1>1, <2>1
  <2> QED
    BY <2>1, <2>2 DEF Range
<1>5. \A p \in Range(byKey') \ {None} : p \in Pages
  BY <1>0, <1>1 DEF Range
<1>6. EvictableOf(own, byKey, parent) \ Range(got) \subseteq EvictableOf(owners', byKey', parent')
  <2>1. \A p \in EvictableOf(own, byKey, parent) \ Range(got) : p \in Range(byKey') /\ owners'[p] <= 1
    <3> SUFFICES ASSUME NEW p \in EvictableOf(own, byKey, parent), p \notin Range(got)
                 PROVE  p \in Range(byKey') /\ owners'[p] <= 1
      OBVIOUS
    <3>1. p \in Range(byKey) /\ own[p] <= 1 /\ p \in Pages
      BY <1>0, EvictableIs
    <3> QED
      BY <3>1, <1>1, <1>2, <1>4
  <2>2. ASSUME NEW p \in Range(byKey') \ {None}, parent'[p] \in EvictableOf(own, byKey, parent) \ Range(got)
        PROVE  p \in EvictableOf(own, byKey, parent) \ Range(got)
    <3>1. p \in Pages /\ p \in Range(byKey) /\ p \notin E
      BY <1>4, <1>5
    <3>2. parent[p] \in EvictableOf(own, byKey, parent)
      BY <3>1, <2>2, <1>1
    <3>3. p \in EvictableOf(own, byKey, parent)
      BY <3>1, <3>2, <1>0, EvictableIs
    <3> QED
      BY <3>1, <3>3, <1>2
  <2> QED
    BY <2>1, <2>2, StillEvictable
<1>7. FreeOf(own) \ Range(got) \subseteq FreeOf(owners')
  BY <1>1 DEF FreeOf
<1>8. \A p \in Range(got) : p \notin Range(byKey')
  BY <1>2, <1>4
<1>9. Forest'
  <2>1. parent' \in [Pages -> Pages \cup {None}]
    BY <1>1 DEF Forest
  <2>2. ASSUME NEW p \in Pages, parent'[p] # None
        PROVE  \E r \in Rids : \E i \in 2..Len(Chain[r]) :
                   byKey'[Chain[r][i]] = p /\ byKey'[Chain[r][i - 1]] = parent'[p]
    <3>1. p \notin E /\ parent'[p] = parent[p] /\ parent[p] # None /\ parent[p] \in Pages
      BY <2>2, <1>1 DEF Forest
    <3>2. parent[p] \notin E
      BY <3>1, <1>3
    <3>3. PICK r \in Rids : \E i \in 2..Len(Chain[r]) :
                   byKey[Chain[r][i]] = p /\ byKey[Chain[r][i - 1]] = parent[p]
      BY <3>1 DEF Forest
    <3>4. PICK i \in 2..Len(Chain[r]) : byKey[Chain[r][i]] = p /\ byKey[Chain[r][i - 1]] = parent[p]
      BY <3>3
    <3>5. Chain[r][i] \in Keys /\ Chain[r][i - 1] \in Keys
      <4>1. i \in 1..Len(Chain[r]) /\ i - 1 \in 1..Len(Chain[r]) /\ Chain[r] \in Seq(Keys)
        BY Prompt
      <4> QED
        BY <4>1
    <3>6. byKey'[Chain[r][i]] = p /\ byKey'[Chain[r][i - 1]] = parent'[p]
      BY <3>1, <3>2, <3>4, <3>5, <1>1
    <3> QED
      BY <3>6
  <2> QED
    BY <2>1, <2>2 DEF Forest
<1> QED
  BY <1>1, <1>6, <1>7, <1>8, <1>9 DEF Avail, Evictable

\* Filing pages that are held takes none away.
LEMMA FileAvail ==
    ASSUME Inv, Funded, NEW r \in Rids, NEW from \in Nat \ {0}, NEW to \in Nat,
           to <= Len(Chain[r]), to <= Len(pages[r]), from > Bound(r) \/ from > to,
           File(r, pages[r], from, to), byKey' \in [Keys -> Pages \cup {None}], OneName(byKey')
    PROVE  /\ Avail(owners, byKey, parent) \subseteq Avail(owners', byKey', parent')
           /\ Forest'
           /\ \/ UNCHANGED <<owners, byKey, parent, mark>>
              \/ mark' = [q \in Rids |-> IF mark[q] # NoMark THEN [mark[q] EXCEPT !.moved = TRUE] ELSE mark[q]]
<1> DEFINE new == {i \in from..to : byKey[Chain[r][i]] = None}
           filed == {pages[r][i] : i \in new}
           at(k) == CHOOSE i \in new : Chain[r][i] = k
           bk == [k \in Keys |-> IF \E i \in new : Chain[r][i] = k THEN pages[r][at(k)] ELSE byKey[k]]
           own == Plus(owners, filed)
           above == [p \in filed |->
                       LET i == CHOOSE j \in new : pages[r][j] = p
                       IN IF i = 1 THEN None ELSE bk[Chain[r][i - 1]]]
<1>0. /\ pages[r] \in Seq(Pages) /\ IsInjective(pages[r]) /\ Bound(r) \in Nat /\ Len(pages[r]) \in Nat
      /\ Len(Chain[r]) \in Nat /\ None \notin Pages /\ Chain[r] \in Seq(Keys) /\ IsInjective(Chain[r])
      /\ owners \in [Pages -> Nat] /\ byKey \in [Keys -> Pages \cup {None}] /\ Evictable \subseteq Pages
  BY OfRequest, KVPoolAssumption, Prompt, EvictableIndexed DEF Streaming, Bound, Copies, Inv, Typed, Evictable
<1>f. Forest
  BY DEF Funded
<1>1. /\ byKey' = [k \in Keys |-> IF \E i \in new : Chain[r][i] = k THEN pages[r][at(k)] ELSE byKey[k]]
      /\ owners' = Plus(owners, filed)
  BY DEF File
<1>1a. byKey' = bk /\ owners' = own
  BY <1>1
<1>2. parent' = [p \in Pages |->
                       IF p \notin filed THEN parent[p]
                       ELSE IF above[p] # None /\ own[above[p]] = 1 THEN None ELSE above[p]]
  BY Zenon DEF File
<1>2a. mark' = [q \in Rids |-> IF mark[q] # NoMark /\ filed # {}
                                   THEN [mark[q] EXCEPT !.moved = TRUE] ELSE mark[q]]
  BY DEF File
<1>3. ASSUME NEW i \in new
      PROVE  /\ i \in 1..Len(pages[r]) /\ i \in 1..Len(Chain[r]) /\ Chain[r][i] \in Keys
             /\ pages[r][i] \in Pages /\ owners[pages[r][i]] = 1 /\ pages[r][i] \notin Range(byKey)
  <2>1. i \in 1..Len(pages[r]) /\ i \in 1..Len(Chain[r]) /\ i > Bound(r)
    BY <1>0
  <2>2. /\ pages[r][i] \in Pages /\ owners[pages[r][i]] = 1 /\ pages[r][i] \notin Range(byKey)
    BY <2>1, Alone
  <2> QED
    BY <2>1, <2>2, <1>0
<1>4. ASSUME NEW i \in new PROVE byKey'[Chain[r][i]] = pages[r][i] /\ byKey[Chain[r][i]] = None
  <2>1. at(Chain[r][i]) \in new /\ Chain[r][at(Chain[r][i])] = Chain[r][i]
    OBVIOUS
  <2>2. at(Chain[r][i]) = i
    BY <2>1, <1>0, <1>3 DEF IsInjective
  <2> QED
    BY <2>2, <1>1, <1>3
<1>5. ASSUME NEW p \in filed
      PROVE  \E i \in new : p = pages[r][i] /\ above[p] = IF i = 1 THEN None ELSE byKey'[Chain[r][i - 1]]
  <2>1. \E j \in new : pages[r][j] = p
    BY <1>5
  <2> DEFINE m == CHOOSE j \in new : pages[r][j] = p
  <2>3. m \in new /\ pages[r][m] = p
    BY <2>1
  <2>4. above[p] = IF m = 1 THEN None ELSE bk[Chain[r][m - 1]]
    BY <1>5, Zenon
  <2> HIDE DEF m, above, bk, new
  <2> QED
    BY <2>3, <2>4, <1>1a
<1>6. \A p \in Pages : owners'[p] = IF p \in filed THEN owners[p] + 1 ELSE owners[p]
  BY <1>1 DEF Plus
<1>7. filed \subseteq Pages /\ (\A p \in filed : owners'[p] = 2 /\ owners[p] = 1 /\ p \notin Range(byKey))
  BY <1>3, <1>6
<1>8. \A k \in Keys : \/ byKey'[k] = byKey[k] /\ \A i \in new : Chain[r][i] # k
                      \/ \E i \in new : Chain[r][i] = k /\ byKey'[k] = pages[r][i] /\ byKey[k] = None
  BY <1>1, <1>4
<1> HIDE DEF new, at, filed, above, bk, own
<1>9. \A p \in Pages : p \in Range(byKey') => p \in Range(byKey) \/ p \in filed
  <2> SUFFICES ASSUME NEW k \in Keys, byKey'[k] \in Pages PROVE byKey'[k] \in Range(byKey) \/ byKey'[k] \in filed
    BY DEF Range
  <2> QED
    BY <1>0, <1>8 DEF Range, filed
<1>10. \A p \in Pages : p \in Range(byKey) => p \in Range(byKey')
  <2> SUFFICES ASSUME NEW k \in Keys, byKey[k] \in Pages PROVE byKey[k] \in Range(byKey')
    BY <1>0 DEF Range
  <2> QED
    BY <1>0, <1>8 DEF Range
<1>11. \A p \in Evictable : p \in Range(byKey) /\ owners[p] = 1 /\ p \notin filed /\ owners'[p] = 1
  <2> SUFFICES ASSUME NEW p \in Evictable PROVE p \in Range(byKey) /\ owners[p] = 1 /\ p \notin filed /\ owners'[p] = 1
    OBVIOUS
  <2>1. p \in Range(byKey) /\ owners[p] <= 1 /\ p \in Pages
    BY <1>0, EvictableIs DEF Evictable
  <2>2. owners[p] >= 1 /\ owners[p] \in Nat
    BY <2>1, <1>0, Owned
  <2> QED
    BY <2>1, <2>2, <1>6, <1>7
<1>12. Evictable \subseteq EvictableOf(owners', byKey', parent')
  <2>1. \A p \in Evictable \ {} : p \in Range(byKey') /\ owners'[p] <= 1
    BY <1>0, <1>10, <1>11
  <2>2. ASSUME NEW p \in Range(byKey') \ {None}, parent'[p] \in Evictable \ {}
        PROVE  p \in Evictable \ {}
    <3>1. p \in Pages
      BY DEF Range
    <3>2. p \notin filed
      <4> SUFFICES ASSUME p \in filed PROVE FALSE
        OBVIOUS
      <4>1. parent'[p] # None /\ owners'[parent'[p]] = 1
        BY <2>2, <1>0, <1>11
      <4>2. parent'[p] = above[p]
        BY <4>1, <3>1, <1>2, <1>1a
      <4> QED
        BY <4>1, <4>2, <3>1, <1>2, <1>1a
    <3>3. p \in Range(byKey) /\ parent[p] \in Evictable
      BY <3>1, <3>2, <2>2, <1>2, <1>9
    <3> QED
      BY <3>1, <3>3, <1>0, EvictableIs DEF Evictable
  <2>3. Evictable \ {} \subseteq EvictableOf(owners', byKey', parent')
    BY <2>1, <2>2, StillEvictable DEF Evictable
  <2> QED
    BY <2>3
<1>13. FreeOf(owners) \subseteq FreeOf(owners')
  BY <1>0, <1>6, <1>7 DEF FreeOf
<1>14. Forest'
  <2>0. \A p \in filed : above[p] \in Pages \cup {None}
    <3> SUFFICES ASSUME NEW p \in filed PROVE above[p] \in Pages \cup {None}
      OBVIOUS
    <3>1. PICK i \in new : p = pages[r][i] /\ above[p] = IF i = 1 THEN None ELSE byKey'[Chain[r][i - 1]]
      BY <1>5
    <3>2. i # 1 => Chain[r][i - 1] \in Keys
      BY <1>0, <1>3
    <3> QED
      BY <3>1, <3>2
  <2>1. parent' \in [Pages -> Pages \cup {None}]
    BY <1>2, <2>0, <1>f DEF Forest
  <2>2. ASSUME NEW p \in Pages, parent'[p] # None
        PROVE  \E q \in Rids : \E i \in 2..Len(Chain[q]) :
                   byKey'[Chain[q][i]] = p /\ byKey'[Chain[q][i - 1]] = parent'[p]
    <3>1. CASE p \in filed
      <4>1. PICK i \in new : p = pages[r][i] /\ above[p] = IF i = 1 THEN None ELSE byKey'[Chain[r][i - 1]]
        BY <3>1, <1>5
      <4>2. parent'[p] = above[p]
        BY <2>2, <3>1, <1>2
      <4>3. i # 1 /\ parent'[p] = byKey'[Chain[r][i - 1]] /\ byKey'[Chain[r][i]] = p
        BY <4>1, <4>2, <2>2, <1>4
      <4>4. i \in 2..Len(Chain[r])
        BY <4>3, <1>3
      <4> QED
        BY <4>3, <4>4
    <3>2. CASE p \notin filed
      <4>1. parent'[p] = parent[p] /\ parent[p] # None /\ parent[p] \in Pages
        BY <2>2, <3>2, <1>2, <1>f DEF Forest
      <4>2. PICK q \in Rids : \E i \in 2..Len(Chain[q]) :
                byKey[Chain[q][i]] = p /\ byKey[Chain[q][i - 1]] = parent[p]
        BY <4>1, <1>f DEF Forest
      <4>3. PICK i \in 2..Len(Chain[q]) : byKey[Chain[q][i]] = p /\ byKey[Chain[q][i - 1]] = parent[p]
        BY <4>2
      <4>4. Chain[q][i] \in Keys /\ Chain[q][i - 1] \in Keys
        <5>1. i \in 1..Len(Chain[q]) /\ i - 1 \in 1..Len(Chain[q]) /\ Chain[q] \in Seq(Keys)
          BY Prompt
        <5> QED
          BY <5>1
      <4>5. byKey'[Chain[q][i]] = p /\ byKey'[Chain[q][i - 1]] = parent[p]
        BY <4>1, <4>3, <4>4, <1>0, <1>8
      <4> QED
        BY <4>1, <4>5
    <3> QED
      BY <3>1, <3>2
  <2> QED
    BY <2>1, <2>2 DEF Forest
<1>15. \/ UNCHANGED <<owners, byKey, parent>> /\ filed = {}
       \/ filed # {}
  <2>1. ASSUME filed = {} PROVE UNCHANGED <<owners, byKey, parent>>
    <3>1. new = {}
      BY <2>1 DEF filed
    <3>2. byKey' = byKey
      BY <3>1, <1>0, <1>8
    <3>3. owners' = owners
      BY <2>1, <1>0, <1>1, <1>6 DEF Plus
    <3>4. parent' = parent
      BY <2>1, <1>2, <1>f DEF Forest
    <3> QED
      BY <3>2, <3>3, <3>4
  <2> QED
    BY <2>1
<1>16. mark \in [Rids -> Marks]
  BY DEF Funded
<1>17. \/ UNCHANGED <<owners, byKey, parent, mark>>
       \/ mark' = [q \in Rids |-> IF mark[q] # NoMark THEN [mark[q] EXCEPT !.moved = TRUE] ELSE mark[q]]
  <2>1. CASE filed = {}
    <3>1. mark' = [q \in Rids |-> mark[q]]
      BY <2>1, <1>2a
    <3> QED
      BY <3>1, <2>1, <1>15, <1>16
  <2>2. CASE filed # {}
    BY <2>2, <1>2a
  <2> QED
    BY <2>1, <2>2
<1>18. Avail(owners, byKey, parent) \subseteq Avail(owners', byKey', parent')
  BY <1>12, <1>13 DEF Avail, Evictable
<1> QED
  BY <1>14, <1>17, <1>18

-----------------------------------------------------------------------------
(* What a request needs, and its mark *)

\* The pages of a prompt, but its last, that the index serves.
Hits(r) == {i \in 1 .. Len(Chain[r]) - 1 : \A j \in 1..i : byKey[Chain[r][j]] # None}
HitPages(r) == {byKey[Chain[r][i]] : i \in Hits(r)}

\* The hit that _need counts.
LEMMA HitsFound == Inv => \A r \in Rids : Range(PagesFor(r, Len(Chain[r]) - 1)) = HitPages(r)
<1> SUFFICES ASSUME Inv, NEW r \in Rids PROVE Range(PagesFor(r, Len(Chain[r]) - 1)) = HitPages(r)
  OBVIOUS
<1> DEFINE n == Len(Chain[r]) - 1
           hits == {i \in 0..n : \A j \in 1..i : byKey[Chain[r][j]] # None}
           m == CHOOSE i \in hits : \A j \in hits : j <= i
<1>1. n \in Nat /\ hits \subseteq 0..n
  BY Prompt
<1>2. 0 \in hits
  BY <1>1
<1>3. m \in hits /\ \A j \in hits : j <= m
  BY <1>1, <1>2, Largest
<1>4. PagesFor(r, n) = [i \in 1..m |-> byKey[Chain[r][i]]]
  BY DEF PagesFor
<1>5. Range(PagesFor(r, n)) = {byKey[Chain[r][i]] : i \in 1..m}
  <2> DEFINE s == [i \in 1..m |-> byKey[Chain[r][i]]]
  <2> HIDE DEF m
  <2>1. Range(s) = {byKey[Chain[r][i]] : i \in 1..m}
    BY DEF Range
  <2> QED
    BY <1>4, <2>1
<1>6. \A i \in Int : i \in 1..m <=> i \in Hits(r)
  <2> SUFFICES ASSUME NEW i \in Int PROVE i \in 1..m <=> i \in Hits(r)
    OBVIOUS
  <2>1. m \in 0..n /\ \A j \in 1..m : byKey[Chain[r][j]] # None
    BY <1>3
  <2> HIDE DEF m
  <2>2. i \in 1..m => i \in Hits(r)
    <3> SUFFICES ASSUME i \in 1..m PROVE i \in Hits(r)
      OBVIOUS
    <3>1. i \in 1..n /\ \A j \in 1..i : j \in 1..m
      BY <1>1, <2>1
    <3> QED
      BY <3>1, <2>1 DEF Hits
  <2>3. i \in Hits(r) => i \in hits /\ i >= 1
    BY <1>1 DEF Hits
  <2>4. i \in Hits(r) => i \in 1..m
    BY <2>1, <2>3, <1>3
  <2> QED
    BY <2>2, <2>4
<1>7. 1..m \subseteq Int /\ Hits(r) \subseteq Int
  BY DEF Hits
<1>8. 1..m = Hits(r)
  BY <1>6, <1>7
<1> HIDE DEF m
<1> QED
  BY <1>5, <1>8 DEF HitPages

NeedCounted ==
    \A r \in Rids :
        /\ HitPages(r) \in SUBSET Pages
        /\ Cardinality(HitPages(r) \ Evictable) \in 0 .. Len(Chain[r]) - 1
        /\ Need(r) = Len(Chain[r]) - Cardinality(HitPages(r) \ Evictable)

\* A request needs the pages of its prompt, less those of the hit it will borrow.
LEMMA NeedIs == Inv => NeedCounted
<1> SUFFICES ASSUME Inv, NEW r \in Rids
             PROVE  /\ HitPages(r) \in SUBSET Pages
                    /\ Cardinality(HitPages(r) \ Evictable) \in 0 .. Len(Chain[r]) - 1
                    /\ Need(r) = Len(Chain[r]) - Cardinality(HitPages(r) \ Evictable)
  BY DEF NeedCounted
<1>1. HitPages(r) \in SUBSET Pages
  <2> SUFFICES ASSUME NEW i \in Hits(r) PROVE byKey[Chain[r][i]] \in Pages
    BY DEF HitPages
  <2>1. i \in 1..i /\ i \in 1..Len(Chain[r]) /\ byKey[Chain[r][i]] # None
    BY Prompt DEF Hits
  <2>2. Chain[r][i] \in Keys
    BY <2>1, Prompt
  <2> QED
    BY <2>1, <2>2 DEF Inv, Typed
<1>2. IsFiniteSet(HitPages(r)) /\ Cardinality(HitPages(r)) \in Nat
  BY <1>1, PageCount
<1>3. Cardinality(HitPages(r)) <= Len(Chain[r]) - 1
  <2> DEFINE n == Len(Chain[r]) - 1
             g == [i \in Hits(r) |-> byKey[Chain[r][i]]]
  <2>1. n \in Int /\ n >= 0 /\ 1 \in Int
    BY Prompt
  <2>2. IsFiniteSet(1..n) /\ Cardinality(1..n) = n
    <3>1. IsFiniteSet(1..n) /\ Cardinality(1..n) = IF 1 > n THEN 0 ELSE n - 1 + 1
      BY <2>1, FS_Interval
    <3> QED
      BY <3>1, <2>1
  <2>3. Hits(r) \in SUBSET (1..n)
    BY DEF Hits
  <2>4. IsFiniteSet(Hits(r)) /\ Cardinality(Hits(r)) <= n
    BY <2>2, <2>3, FS_Subset
  <2>5. g \in Surjection(Hits(r), HitPages(r))
    BY DEF Surjection, HitPages
  <2>6. Cardinality(HitPages(r)) <= Cardinality(Hits(r))
    BY <2>4, <2>5, FS_Surjection
  <2>7. Cardinality(Hits(r)) \in Nat
    BY <2>4, FS_CardinalityType
  <2> QED
    BY <2>1, <2>4, <2>6, <2>7, <1>2
<1>4. /\ Cardinality(HitPages(r) \ Evictable) = Cardinality(HitPages(r)) - Cardinality(HitPages(r) \cap Evictable)
      /\ Cardinality(HitPages(r) \ Evictable) \in Nat /\ Cardinality(HitPages(r) \cap Evictable) \in Nat
      /\ Cardinality(HitPages(r) \ Evictable) <= Cardinality(HitPages(r))
  <2>1. HitPages(r) \ Evictable \in SUBSET HitPages(r)
    OBVIOUS
  <2>2. HitPages(r) \cap Evictable \in SUBSET Pages /\ HitPages(r) \ Evictable \in SUBSET Pages
    BY <1>1
  <2>3. Cardinality(HitPages(r) \ Evictable) = Cardinality(HitPages(r)) - Cardinality(HitPages(r) \cap Evictable)
    BY <1>2, FS_Difference
  <2>4. Cardinality(HitPages(r) \ Evictable) \in Nat /\ Cardinality(HitPages(r) \cap Evictable) \in Nat
    BY <2>2, PageCount
  <2> QED
    BY <2>3, <2>4, <1>2
<1>5. Need(r) = Len(Chain[r]) - Cardinality(HitPages(r)) + Cardinality(HitPages(r) \cap Evictable)
  BY HitsFound DEF Need
<1> QED
  BY <1>1, <1>2, <1>3, <1>4, <1>5, Prompt

\* A request needs no less when the index loses keys and takes no page from its evictable ones.
LEMMA NeedGrows ==
    ASSUME Inv, Inv', NEW r \in Rids,
           \A k \in Keys : byKey'[k] = byKey[k] \/ byKey'[k] = None,
           \A p \in Evictable : p \in Range(byKey') => p \in Evictable'
    PROVE  Need(r)' >= Need(r)
<1>0. Chain[r] \in Seq(Keys) /\ Len(Chain[r]) \in Nat /\ byKey' \in [Keys -> Pages \cup {None}]
  BY Prompt DEF Inv, Typed
<1>1. ASSUME NEW i \in Hits(r)'
      PROVE  i \in Hits(r) /\ byKey'[Chain[r][i]] = byKey[Chain[r][i]] /\ byKey[Chain[r][i]] \in Range(byKey')
  <2>1. i \in 1 .. Len(Chain[r]) - 1 /\ \A j \in 1..i : byKey'[Chain[r][j]] # None
    BY <1>1 DEF Hits
  <2>2. \A j \in 1..i : Chain[r][j] \in Keys
    BY <2>1, <1>0
  <2>3. \A j \in 1..i : byKey'[Chain[r][j]] = byKey[Chain[r][j]] /\ byKey[Chain[r][j]] # None
    BY <2>1, <2>2
  <2>4. i \in Hits(r)
    BY <2>1, <2>3 DEF Hits
  <2>5. i \in 1..i
    BY <2>1
  <2>6. byKey'[Chain[r][i]] = byKey[Chain[r][i]] /\ byKey'[Chain[r][i]] \in Range(byKey')
    BY <2>2, <2>3, <2>5, <1>0 DEF Range
  <2> QED
    BY <2>4, <2>6
<1>2. HitPages(r)' \ Evictable' \subseteq HitPages(r) \ Evictable
  <2> SUFFICES ASSUME NEW p \in HitPages(r)', p \notin Evictable' PROVE p \in HitPages(r) /\ p \notin Evictable
    OBVIOUS
  <2>1. PICK i \in Hits(r)' : p = byKey'[Chain[r][i]]
    BY DEF HitPages
  <2>2. i \in Hits(r) /\ p = byKey[Chain[r][i]] /\ p \in Range(byKey')
    BY <2>1, <1>1
  <2> QED
    BY <2>2 DEF HitPages
<1>3. /\ HitPages(r) \in SUBSET Pages /\ Need(r) = Len(Chain[r]) - Cardinality(HitPages(r) \ Evictable)
      /\ Cardinality(HitPages(r) \ Evictable) \in 0 .. Len(Chain[r]) - 1
  BY NeedIs DEF NeedCounted
<1>4. /\ Need(r)' = Len(Chain[r]) - Cardinality(HitPages(r)' \ Evictable')
      /\ Cardinality(HitPages(r)' \ Evictable') \in 0 .. Len(Chain[r]) - 1
  <2>1. NeedCounted'
    BY NeedIs, PTL
  <2> QED
    BY <2>1 DEF NeedCounted
<1>5. Cardinality(HitPages(r)' \ Evictable') <= Cardinality(HitPages(r) \ Evictable)
  <2>1. HitPages(r) \ Evictable \in SUBSET Pages
    BY <1>3
  <2>2. IsFiniteSet(HitPages(r) \ Evictable)
    BY <2>1, PageCount
  <2> QED
    BY <2>2, <1>2, FS_Subset
<1> QED
  BY <1>0, <1>3, <1>4, <1>5

\* A step that takes no page from the evictable ones of the index and files none.
Steady ==
    /\ \A k \in Keys : byKey'[k] = byKey[k] \/ byKey'[k] = None
    /\ \A p \in Evictable : p \in Range(byKey') => p \in Evictable'

\* No request needs less after it, so its mark still holds.
LEMMA MarksKept ==
    ASSUME Inv, Inv', Funded, Steady, \A q \in Rids : mark'[q] = mark[q] \/ mark'[q] = NoMark
    PROVE  \A q \in Rids : Marked(q)'
<1> SUFFICES ASSUME NEW q \in Rids PROVE Marked(q)'
  OBVIOUS
<1>1. Need(q)' >= Need(q)
  BY NeedGrows DEF Steady
<1>2. Marked(q) /\ mark[q] \in Marks
  BY DEF Funded
<1>3. Need(q) \in Int /\ Need(q)' \in Int
  <2>1. Need(q) = Len(Chain[q]) - Cardinality(HitPages(q) \ Evictable)
        /\ Cardinality(HitPages(q) \ Evictable) \in 0 .. Len(Chain[q]) - 1
    BY NeedIs DEF NeedCounted
  <2>2. Need(q)' = Len(Chain[q]) - Cardinality(HitPages(q)' \ Evictable')
        /\ Cardinality(HitPages(q)' \ Evictable') \in 0 .. Len(Chain[q]) - 1
    <3>1. NeedCounted'
      BY NeedIs, PTL
    <3> QED
      BY <3>1 DEF NeedCounted
  <2> QED
    BY <2>1, <2>2, Prompt
<1> QED
  BY <1>1, <1>2, <1>3 DEF Marked, Marks, NoMark

\* ... and one that moves past every mark.
Moved == [q \in Rids |-> IF mark[q] # NoMark THEN [mark[q] EXCEPT !.moved = TRUE] ELSE mark[q]]

\* A mark that was moved past says nothing.
LEMMA MarksMoved ==
    ASSUME Funded, mark' = Moved
    PROVE  mark' \in [Rids -> Marks] /\ \A q \in Rids : Marked(q)'
<1>1. mark \in [Rids -> Marks]
  BY DEF Funded
<1>2. ASSUME NEW q \in Rids PROVE mark'[q] \in Marks /\ (mark'[q] # NoMark => mark'[q].moved)
  BY <1>1 DEF Moved, Marks, NoMark
<1> QED
  BY <1>2 DEF Moved, Marked

\* Taken pages either were not evictable or move the marks.
LEMMA MarksTaken ==
    ASSUME Inv, Inv', Funded, NEW S, Taken(S), S \cap Evictable = {} => Steady
    PROVE  mark' \in [Rids -> Marks] /\ \A q \in Rids : Marked(q)'
<1>1. mark \in [Rids -> Marks]
  BY DEF Funded
<1>2. CASE S \cap Evictable = {}
  <2>1. mark' = [q \in Rids |-> mark[q]]
    BY <1>2 DEF Taken
  <2>2. mark' = mark
    BY <2>1, <1>1
  <2> QED
    BY <1>1, <1>2, <2>2, MarksKept
<1>3. CASE S \cap Evictable # {}
  <2>1. mark' = Moved
    BY <1>3 DEF Taken, Moved
  <2> QED
    BY <2>1, MarksMoved
<1> QED
  BY <1>2, <1>3

-----------------------------------------------------------------------------
(* How the count moves *)

\* An allotment that changes changes the count by as much, and never holds more than all do.
LEMMA CountMoves ==
    ASSUME Inv, Funded, NEW r \in Rids, NEW m \in Int, NEW n \in Nat,
           allot' = [allot EXCEPT ![r] = [pages |-> m, remaining |-> n]],
           unused' = unused + n - allot[r].remaining
    PROVE  Counted'
<1>1. allot \in [Rids -> [pages : Int, remaining : Int]] /\ \A q \in Rids : allot[q].remaining \in Nat
  BY DEF Inv, Budgeted, Funded, Counted
<1>2. Left(allot) \in [Rids -> Nat] /\ Left(allot)[r] = allot[r].remaining
  BY <1>1 DEF Left
<1>3. allot' \in [Rids -> [pages : Int, remaining : Int]]
  BY <1>1
<1>4. \A q \in Rids : allot'[q].remaining = IF q = r THEN n ELSE allot[q].remaining
  BY <1>1
<1>5. Left(allot') = [Left(allot) EXCEPT ![r] = n]
  BY <1>2, <1>4 DEF Left
<1>6. Cardinality(Tokens(Left(allot'))) = Cardinality(Tokens(Left(allot))) - allot[r].remaining + n
  <2>1. PICK f \in [Rids -> Nat] : f = Left(allot)
    BY <1>2
  <2>2. Cardinality(Tokens([f EXCEPT ![r] = n])) = Cardinality(Tokens(f)) - f[r] + n
    BY TokensMove
  <2> QED
    BY <2>1, <2>2, <1>2, <1>5
<1>7. unused = Cardinality(Tokens(Left(allot))) /\ unused \in Int
  BY DEF Funded, Counted, Inv, Budgeted
<1>8. unused' = Cardinality(Tokens(Left(allot')))
  BY <1>1, <1>6, <1>7
<1> QED
  BY <1>1, <1>4, <1>8 DEF Counted

\* No allotment has more left than the count says of all.
LEMMA CountHolds ==
    ASSUME Inv, Funded, NEW r \in Rids
    PROVE  allot[r].remaining \in Nat /\ allot[r].remaining <= unused /\ unused \in Nat
<1>1. allot \in [Rids -> [pages : Int, remaining : Int]] /\ \A q \in Rids : allot[q].remaining \in Nat
  BY DEF Inv, Budgeted, Funded, Counted
<1>2. Left(allot) \in [Rids -> Nat] /\ Left(allot)[r] = allot[r].remaining
  BY <1>1 DEF Left
<1>3. unused = Cardinality(Tokens(Left(allot)))
  BY DEF Funded, Counted
<1>4. Left(allot)[r] <= Cardinality(Tokens(Left(allot))) /\ Cardinality(Tokens(Left(allot))) \in Nat
  BY <1>1, <1>2, TokensMove, TokensFinite
<1> QED
  BY <1>1, <1>2, <1>3, <1>4

\* What a step takes of the pages that could be granted, at most.
LEMMA AvailMoves ==
    ASSUME NEW A \in SUBSET Pages, NEW B \in SUBSET Pages, NEW X \in SUBSET Pages, A \ X \subseteq B
    PROVE  /\ Cardinality(A) \in Nat /\ Cardinality(B) \in Nat /\ Cardinality(X) \in Nat
           /\ Cardinality(B) >= Cardinality(A) - Cardinality(X)
<1>1. IsFiniteSet(A) /\ IsFiniteSet(B) /\ IsFiniteSet(X)
  BY PageCount
<1>2. Cardinality(A) \in Nat /\ Cardinality(B) \in Nat /\ Cardinality(X) \in Nat
  BY PageCount
<1>3. A \cap X \in SUBSET X /\ A \ X \in SUBSET B /\ A \cap X \in SUBSET Pages /\ A \ X \in SUBSET Pages
  OBVIOUS
<1>4. Cardinality(A \ X) = Cardinality(A) - Cardinality(A \cap X)
  BY <1>1, FS_Difference
<1>5. Cardinality(A \cap X) <= Cardinality(X) /\ Cardinality(A \ X) <= Cardinality(B)
  BY <1>1, <1>3, FS_Subset
<1>6. Cardinality(A \cap X) \in Nat /\ Cardinality(A \ X) \in Nat
  BY <1>3, PageCount
<1> QED
  BY <1>2, <1>4, <1>5, <1>6

\* The pages that could be granted, now and after a step.
Now == Avail(owners, byKey, parent)
RoomIsNow == Now \in SUBSET Pages /\ Cardinality(Now) \in Nat /\ Room = Cardinality(Now) - unused
             /\ (RoomCovered <=> unused <= Cardinality(Now))
\* The room, in terms of these.
LEMMA RoomNow == Inv => RoomIsNow
BY RoomIs DEF Now, RoomIsNow, RoomCovered

\* A count that falls with the pages that could be granted stays covered.
LEMMA StaysCovered ==
    ASSUME Inv, Inv', Funded, NEW X \in SUBSET Pages, Now \ X \subseteq Now',
           unused' <= unused - Cardinality(X) \/ unused' <= Cardinality(Now) - Cardinality(X)
    PROVE  RoomCovered'
<1>1. RoomIsNow
  BY RoomNow
<1>2. RoomIsNow'
  BY RoomNow, PTL
<1>3. unused \in Int /\ unused' \in Int /\ unused <= Cardinality(Now)
  BY <1>1 DEF Inv, Budgeted, Funded, RoomIsNow
<1>4. /\ Cardinality(Now) \in Nat /\ Cardinality(Now') \in Nat /\ Cardinality(X) \in Nat
      /\ Cardinality(Now') >= Cardinality(Now) - Cardinality(X)
  BY <1>1, <1>2, AvailMoves DEF RoomIsNow
<1> QED
  BY <1>2, <1>3, <1>4 DEF RoomIsNow

\* A stream holds a page once, so it has as many pages as it is long.
LEMMA LongAs ==
    ASSUME NEW s \in Seq(Pages), IsInjective(s)
    PROVE  IsFiniteSet(Range(s)) /\ Cardinality(Range(s)) = Len(s) /\ Len(s) \in Nat
<1>1. Len(s) \in Nat /\ DOMAIN s = 1..Len(s)
  OBVIOUS
<1>2. IsFiniteSet(1..Len(s)) /\ Cardinality(1..Len(s)) = Len(s)
  BY <1>1, FS_Interval
<1>3. s \in Surjection(1..Len(s), Range(s)) /\ s \in Injection(1..Len(s), Range(s))
  <2>1. s \in [1..Len(s) -> Range(s)]
    BY <1>1 DEF Range
  <2>2. \A p \in Range(s) : \E i \in 1..Len(s) : s[i] = p
    BY <1>1 DEF Range
  <2>3. \A i, j \in 1..Len(s) : s[i] = s[j] => i = j
    BY <1>1 DEF IsInjective
  <2> QED
    BY <2>1, <2>2, <2>3 DEF Injection, Surjection, IsInjective
<1>4. IsFiniteSet(Range(s)) /\ Cardinality(Range(s)) = Cardinality(1..Len(s))
  BY <1>2, <1>3, FS_Surjection
<1> QED
  BY <1>1, <1>2, <1>4

\* What another request's stream and allotment say stays.
LEMMA PaidElse ==
    ASSUME Funded, NEW q \in Rids, pages'[q] = pages[q], lease'[q] = lease[q], lent'[q] = lent[q],
           allot'[q] = allot[q], stage'[q] = stage[q]
    PROVE  Paid(q)'
BY DEF Funded, Paid, Allotted, Owes

\* Of r's stream: what it borrows is of its pages, and what it owes.
LEMMA Borrows ==
    ASSUME Inv, Funded, NEW r \in Rids
    PROVE  /\ lent[r] \in SUBSET Pages /\ Cardinality(lent[r]) \in Nat /\ IsFiniteSet(lent[r])
           /\ Owes(r) \in Int
           /\ pages[r] = <<>> /\ lease[r] = <<>> => lent[r] = {} /\ Owes(r) = 0
           /\ ~Allotted(r) => allot[r].remaining = 0 /\ lent[r] = {} /\ Owes(r) = 0
           /\ Allotted(r) /\ pages[r] = <<>> /\ lease[r] = <<>> => allot[r].remaining = allot[r].pages
<1>1. lent[r] \in SUBSET Pages /\ Cardinality(lent[r]) \in Nat /\ IsFiniteSet(lent[r])
  BY PageCount DEF Inv, Budgeted
<1>2. Paid(r)
  BY DEF Funded
<1>3. pages[r] \in Seq(Pages) /\ lease[r] \in Seq(Pages)
  BY DEF Inv, Typed
<1>4. Owes(r) \in Int
  BY <1>1, <1>3 DEF Owes
<1>5. ASSUME pages[r] = <<>>, lease[r] = <<>> PROVE lent[r] = {} /\ Owes(r) = 0
  <2>1. lent[r] = {}
    BY <1>2, <1>5 DEF Paid, Range
  <2>2. Len(pages[r]) = 0 /\ Len(lease[r]) = 0
    BY <1>5
  <2> QED
    BY <2>1, <2>2, FS_EmptySet DEF Owes
<1>6. ~Allotted(r) => allot[r].remaining = 0 /\ pages[r] = <<>> /\ lease[r] = <<>>
  BY <1>2 DEF Paid, Allotted, NoAllot
<1>7. Allotted(r) /\ pages[r] = <<>> /\ lease[r] = <<>> => allot[r].remaining = allot[r].pages
  BY <1>2, <1>5 DEF Paid, Remaining, Most
<1> QED
  BY <1>1, <1>4, <1>5, <1>6, <1>7

-----------------------------------------------------------------------------
(* Every step keeps the count *)

\* A step of r leaves what is said of another request's stream and allotment.
Elsewhere(r) ==
    \A q \in Rids \ {r} :
        /\ pages'[q] = pages[q] /\ lease'[q] = lease[q] /\ lent'[q] = lent[q]
        /\ allot'[q] = allot[q] /\ stage'[q] = stage[q]
\* So what is said of r, and of the whole pool, is enough.
LEMMA Assembled ==
    ASSUME Funded, NEW r \in Rids, Elsewhere(r), Paid(r)', Forest', Counted', RoomCovered',
           mark' \in [Rids -> Marks] /\ \A q \in Rids : Marked(q)'
    PROVE  Funded'
<1>1. ASSUME NEW q \in Rids PROVE Paid(q)'
  BY PaidElse DEF Elsewhere
<1> QED
  BY <1>1 DEF Funded

\* The pages and the index stay as they are.
LEMMA PoolStays ==
    ASSUME Inv, Funded, UNCHANGED <<owners, byKey, parent>>
    PROVE  Forest' /\ Now' = Now /\ Steady /\ Evictable' = Evictable
<1>1. Evictable' = Evictable /\ Now' = Now
  BY DEF Evictable, EvictableOf, Now, Avail, FreeOf
<1>2. Forest'
  BY DEF Funded, Forest
<1> QED
  BY <1>1, <1>2 DEF Steady

\* What a request is promised when it is admitted, and nothing where it does not fit.
LEMMA ReserveFunds ==
    ASSUME Inv, Inv', Funded, NEW r \in Rids, Reserve(r)
    PROVE  Funded'
<1>1. /\ ~Allotted(r) /\ UNCHANGED <<owners, byKey, parent, pages, lease, lent, stage>>
      /\ \/ /\ Need(r) > Room /\ mark' = [mark EXCEPT ![r] = [room |-> Room, moved |-> FALSE]]
            /\ UNCHANGED <<allot, unused>>
         \/ /\ ~(Need(r) > Room) /\ mark' = [mark EXCEPT ![r] = NoMark]
            /\ allot' = [allot EXCEPT ![r] = [pages |-> Need(r), remaining |-> Need(r)]]
            /\ unused' = unused + Need(r)
  BY DEF Reserve, poolVars, streamVars
<1>2. Forest' /\ Now' = Now /\ Steady /\ Evictable' = Evictable
  BY <1>1, PoolStays
<1>3. /\ allot \in [Rids -> [pages : Int, remaining : Int]] /\ mark \in [Rids -> Marks] /\ unused \in Int
      /\ RoomIsNow /\ Room \in Int
  BY RoomNow DEF Inv, Budgeted, Funded, RoomIsNow
<1>4. Need(r) \in Nat
  <2>1. PICK c : c = Cardinality(HitPages(r) \ Evictable)
    OBVIOUS
  <2>2. c \in 0 .. Len(Chain[r]) - 1 /\ Need(r) = Len(Chain[r]) - c
    BY <2>1, NeedIs DEF NeedCounted
  <2> QED
    BY <2>2, Prompt
<1>5. Elsewhere(r)
  BY <1>1, <1>3 DEF Elsewhere
<1>6. allot[r].remaining = 0 /\ lent[r] = {} /\ Owes(r) = 0 /\ Paid(r)
  BY <1>1, Borrows DEF Funded
<1>7. CASE Need(r) > Room /\ mark' = [mark EXCEPT ![r] = [room |-> Room, moved |-> FALSE]] /\ UNCHANGED <<allot, unused>>
  <2>1. mark' \in [Rids -> Marks]
    <3>1. Room \in Nat
      BY <1>3, CountHolds DEF RoomIsNow, Funded
    <3>2. [room |-> Room, moved |-> FALSE] \in Marks
      BY <3>1 DEF Marks
    <3> QED
      BY <3>2, <1>3, <1>7
  <2>2. Counted'
    BY <1>7 DEF Funded, Counted
  <2>3. RoomCovered'
    <3>1. RoomIsNow'
      BY RoomNow, PTL
    <3> QED
      BY <3>1, <1>2, <1>3, <1>7 DEF RoomIsNow, Funded
  <2>4. Paid(r)'
    BY <1>1, <1>6, <1>7 DEF Paid, Allotted, Owes
  <2>5. ASSUME NEW q \in Rids PROVE Marked(q)'
    <3>1. Need(q)' = Need(q)
      BY <1>1, <1>2 DEF Need, PagesFor
    <3>2. Marked(q)
      BY DEF Funded
    <3>3. CASE q = r
      <4>1. mark'[q].room = Room
        BY <3>3, <1>3, <1>7
      <4> QED
        BY <4>1, <3>1, <3>3, <1>7 DEF Marked
    <3>4. CASE q # r
      <4>1. mark'[q] = mark[q]
        BY <3>4, <1>3, <1>7
      <4> QED
        BY <4>1, <3>1, <3>2 DEF Marked
    <3> QED
      BY <3>3, <3>4
  <2> QED
    BY <2>1, <2>2, <2>3, <2>4, <2>5, <1>2, <1>5, Assembled
<1>8. CASE /\ ~(Need(r) > Room) /\ mark' = [mark EXCEPT ![r] = NoMark]
           /\ allot' = [allot EXCEPT ![r] = [pages |-> Need(r), remaining |-> Need(r)]]
           /\ unused' = unused + Need(r)
  <2>1. mark' \in [Rids -> Marks] /\ \A q \in Rids : mark'[q] = mark[q] \/ mark'[q] = NoMark
    BY <1>3, <1>8 DEF Marks, NoMark
  <2>2. Counted'
    <3>1. PICK n \in Nat : n = Need(r)
      BY <1>4
    <3>2. allot' = [allot EXCEPT ![r] = [pages |-> n, remaining |-> n]] /\ unused' = unused + n - allot[r].remaining
      BY <3>1, <1>3, <1>6, <1>8
    <3>3. n \in Int
      OBVIOUS
    <3> QED
      BY <3>2, <3>3, CountMoves
  <2>3. RoomCovered'
    <3>1. RoomIsNow'
      BY RoomNow, PTL
    <3> QED
      BY <3>1, <1>2, <1>3, <1>4, <1>8 DEF RoomIsNow
  <2>4. Paid(r)'
    <3>1. allot'[r] = [pages |-> Need(r), remaining |-> Need(r)] /\ Allotted(r)'
      BY <1>3, <1>4, <1>8 DEF Allotted, NoAllot
    <3>2. Owes(r)' = 0 /\ lent'[r] = {}
      BY <1>1, <1>6 DEF Owes
    <3> QED
      BY <3>1, <3>2, <1>4 DEF Paid, Remaining, Most
  <2>5. \A q \in Rids : Marked(q)'
    BY <2>1, <1>2, MarksKept
  <2> QED
    BY <2>1, <2>2, <2>3, <2>4, <2>5, <1>2, <1>5, Assembled
<1> QED
  BY <1>1, <1>7, <1>8

\* An allotment that is given back leaves more room.
LEMMA ForgetFunds ==
    ASSUME Inv, Inv', Funded, NEW r \in Rids, Elsewhere(r), Steady, Forest', Now \subseteq Now',
           allot' = [allot EXCEPT ![r] = NoAllot], unused' = unused - allot[r].remaining,
           pages'[r] = <<>>, lease'[r] = <<>>, stage'[r] = "device", lent'[r] = {},
           mark' = mark \/ mark' = [mark EXCEPT ![r] = NoMark]
    PROVE  Funded'
<1>1. /\ allot \in [Rids -> [pages : Int, remaining : Int]] /\ mark \in [Rids -> Marks]
      /\ allot[r].remaining \in Nat /\ unused \in Nat
  BY CountHolds DEF Inv, Budgeted, Funded
<1>2. Counted'
  <2>1. allot' = [allot EXCEPT ![r] = [pages |-> -1, remaining |-> 0]] /\ unused' = unused + 0 - allot[r].remaining
    BY <1>1 DEF NoAllot
  <2> QED
    <3>1. PICK m \in Int : m = -1
      OBVIOUS
    <3>2. PICK n \in Nat : n = 0
      OBVIOUS
    <3>3. allot' = [allot EXCEPT ![r] = [pages |-> m, remaining |-> n]]
      BY <2>1, <3>1, <3>2
    <3>4. unused' = unused + n - allot[r].remaining
      BY <2>1, <3>2
    <3> QED
      BY <3>3, <3>4, CountMoves
<1>3. RoomCovered'
  <2>1. {} \in SUBSET Pages /\ Cardinality({}) = 0 /\ Now \ {} \subseteq Now'
    BY FS_EmptySet
  <2>2. unused' <= unused - Cardinality({})
    BY <2>1, <1>1
  <2> QED
    BY <2>1, <2>2, StaysCovered
<1>4. Paid(r)'
  <2>1. ~Allotted(r)'
    BY <1>1 DEF Allotted
  <2> QED
    BY <2>1 DEF Paid
<1>5. mark' \in [Rids -> Marks] /\ \A q \in Rids : mark'[q] = mark[q] \/ mark'[q] = NoMark
  <2>1. NoMark \in Marks
    BY DEF Marks, NoMark
  <2> QED
    BY <2>1, <1>1
<1>6. \A q \in Rids : Marked(q)'
  BY <1>5, MarksKept
<1> QED
  BY <1>2, <1>3, <1>4, <1>5, <1>6, Assembled

\* An allotment given back before anything was taken ...
LEMMA UnreserveFunds ==
    ASSUME Inv, Inv', Funded, NEW r \in Rids, Unreserve(r)
    PROVE  Funded'
<1>1. /\ UNCHANGED <<owners, byKey, parent, pages, lease, lent, stage, mark>>
      /\ pages[r] = <<>> /\ lease[r] = <<>> /\ stage[r] = "device"
      /\ unused' = unused - allot[r].remaining /\ allot' = [allot EXCEPT ![r] = NoAllot]
  BY DEF Unreserve, poolVars, streamVars
<1>2. Forest' /\ Now' = Now /\ Steady
  BY <1>1, PoolStays
<1>3. lent'[r] = {} /\ allot \in [Rids -> [pages : Int, remaining : Int]]
  BY <1>1, Borrows DEF Inv, Budgeted
<1>4. Elsewhere(r)
  BY <1>1, <1>3 DEF Elsewhere
<1> QED
  BY <1>1, <1>2, <1>3, <1>4, ForgetFunds

\* What r holds is owned.
LEMMA HeldOwned ==
    ASSUME Inv, NEW r \in Rids
    PROVE  /\ Range(pages[r]) \cup Range(lease[r]) \in SUBSET Pages
           /\ \A p \in Range(pages[r]) \cup Range(lease[r]) : owners[p] >= 1 /\ p \notin Now
           /\ owners \in [Pages -> Nat]
<1>1. Range(pages[r]) \cup Range(lease[r]) \in SUBSET Pages /\ owners \in [Pages -> Nat]
  BY HeldArePages DEF Inv, Typed
<1>2. ASSUME NEW p \in Range(pages[r]) \cup Range(lease[r])
      PROVE  owners[p] >= 1 /\ p \notin Now
  <2>1. p \in Pages /\ owners[p] >= 1 /\ (p \in Range(byKey) => owners[p] >= 2) /\ owners[p] \in Nat
    BY <1>1, Owned
  <2>2. p \notin FreeOf(owners)
    BY <2>1 DEF FreeOf
  <2>3. p \notin EvictableOf(owners, byKey, parent)
    BY <2>1, EvictableIs
  <2> QED
    BY <2>1, <2>2, <2>3 DEF Now, Avail
<1> QED
  BY <1>1, <1>2

\* ... or with all that the request holds.
LEMMA RemoveFunds ==
    ASSUME Inv, Inv', Funded, NEW r \in Rids, Remove(r)
    PROVE  Funded'
<1> DEFINE S == Range(pages[r]) \cup Range(lease[r])
<1>1. /\ owners' = Minus(owners, S) /\ UNCHANGED <<byKey, parent>>
      /\ unused' = unused - allot[r].remaining /\ allot' = [allot EXCEPT ![r] = NoAllot]
      /\ pages' = [pages EXCEPT ![r] = <<>>] /\ lease' = [lease EXCEPT ![r] = <<>>]
      /\ lent' = [lent EXCEPT ![r] = {}] /\ stage' = [stage EXCEPT ![r] = "device"]
      /\ mark' = [mark EXCEPT ![r] = NoMark]
  BY DEF Remove
<1>2. /\ allot \in [Rids -> [pages : Int, remaining : Int]] /\ lent \in [Rids -> SUBSET Pages]
      /\ pages \in [Rids -> Seq(Pages)] /\ lease \in [Rids -> Seq(Pages)] /\ stage \in [Rids -> Stages]
  BY DEF Inv, Budgeted, Typed
<1>3. S \in SUBSET Pages /\ \A p \in S : owners[p] >= 1
  BY HeldOwned
<1> HIDE DEF S
<1>4. /\ Avail(owners, byKey, parent) \subseteq Avail(Minus(owners, S), byKey, parent)
      /\ Evictable \subseteq EvictableOf(Minus(owners, S), byKey, parent)
  BY <1>3, ReleaseAvail
<1>5. Now \subseteq Now' /\ Evictable \subseteq Evictable'
  BY <1>1, <1>4 DEF Now, Evictable
<1>6. Steady /\ Forest'
  BY <1>1, <1>5 DEF Steady, Funded, Forest
<1>7. Elsewhere(r) /\ pages'[r] = <<>> /\ lease'[r] = <<>> /\ lent'[r] = {} /\ stage'[r] = "device"
  BY <1>1, <1>2 DEF Elsewhere
<1> QED
  BY <1>1, <1>5, <1>6, <1>7, ForgetFunds

-----------------------------------------------------------------------------
(* Releases *)

\* A stream and its lease hold as many pages as they are long, and owe those they do not borrow.
LEMMA OwesIs ==
    ASSUME Inv, Funded, NEW r \in Rids
    PROVE  /\ Cardinality(Range(pages[r]) \cup Range(lease[r])) = Len(pages[r]) + Len(lease[r])
           /\ Owes(r) = Cardinality((Range(pages[r]) \cup Range(lease[r])) \ lent[r])
<1>h. PICK H : H = Range(pages[r]) \cup Range(lease[r])
  OBVIOUS
<1>1. pages[r] \in Seq(Pages) /\ lease[r] \in Seq(Pages) /\ IsInjective(pages[r]) /\ IsInjective(lease[r])
  BY OfRequest DEF Streaming
<1>2. /\ IsFiniteSet(Range(pages[r])) /\ Cardinality(Range(pages[r])) = Len(pages[r]) /\ Len(pages[r]) \in Nat
      /\ IsFiniteSet(Range(lease[r])) /\ Cardinality(Range(lease[r])) = Len(lease[r]) /\ Len(lease[r]) \in Nat
  BY <1>1, LongAs
<1>3. pages[r] = <<>> \/ lease[r] = <<>>
  BY OfRequest DEF Streaming
<1>4. Cardinality(H) = Len(pages[r]) + Len(lease[r])
  <2>1. ASSUME NEW s, s = <<>> PROVE Range(s) = {} /\ Len(s) = 0
    BY <2>1 DEF Range
  <2>2. CASE pages[r] = <<>>
    <3>1. H = Range(lease[r]) /\ Len(pages[r]) = 0
      BY <2>1, <2>2, <1>h
    <3>2. Cardinality(H) = Len(lease[r])
      BY <3>1, <1>2
    <3> QED
      BY <3>1, <3>2, <1>2
  <2>3. CASE lease[r] = <<>>
    <3>1. H = Range(pages[r]) /\ Len(lease[r]) = 0
      BY <2>1, <2>3, <1>h
    <3>2. Cardinality(H) = Len(pages[r])
      BY <3>1, <1>2
    <3> QED
      BY <3>1, <3>2, <1>2
  <2> QED
    BY <1>3, <2>2, <2>3
<1>5. lent[r] \subseteq H
  BY <1>h DEF Funded, Paid
<1>6. IsFiniteSet(H)
  BY <1>2, <1>h, FS_Union
<1>7. Cardinality(H \ lent[r]) = Cardinality(H) - Cardinality(lent[r])
  <2>1. H \cap lent[r] = lent[r]
    BY <1>5
  <2> QED
    BY <2>1, <1>6, FS_Difference
<1>8. Owes(r) = Cardinality(H \ lent[r])
  <2>1. Cardinality(lent[r]) \in Nat
    BY Borrows
  <2>2. Owes(r) = Len(pages[r]) + Len(lease[r]) - Cardinality(lent[r])
    BY Zenon DEF Owes
  <2>3. Cardinality(H) \in Nat
    BY <1>6, FS_CardinalityType
  <2>4. Len(pages[r]) + Len(lease[r]) - Cardinality(lent[r]) = Cardinality(H) - Cardinality(lent[r])
    <3>1. Len(pages[r]) \in Int /\ Len(lease[r]) \in Int /\ Cardinality(lent[r]) \in Int
      BY <2>1, <1>2
    <3>2. \A x, y, z \in Int : x + y - z = (x + y) - z
      OBVIOUS
    <3>3. Len(pages[r]) + Len(lease[r]) - Cardinality(lent[r])
            = (Len(pages[r]) + Len(lease[r])) - Cardinality(lent[r])
      BY <3>1, <3>2
    <3> QED
      BY <3>3, <1>4
  <2>5. Owes(r) = Cardinality(H) - Cardinality(lent[r])
    BY <2>2, <2>4
  <2> QED
    BY <2>5, <1>7
<1> QED
  BY <1>4, <1>8, <1>h

\* What a release gives back to the allotment it also gives back to the pages that can be granted.
LEMMA ReleaseFunds ==
    ASSUME Inv, Inv', Funded, NEW r \in Rids, Allotted(r), NEW pg \in Seq(Pages), IsInjective(pg),
           Range(pg) \subseteq Range(pages[r]) \cup Range(lease[r]),
           NEW S, S = (Range(pages[r]) \cup Range(lease[r])) \ Range(pg),
           NEW refund \in BOOLEAN, ReleasePages(r, S, Len(pg), refund),
           pages' = [pages EXCEPT ![r] = pg], lease' = [lease EXCEPT ![r] = <<>>],
           UNCHANGED <<byKey, parent, mark>>, \A q \in Rids \ {r} : stage'[q] = stage[q]
    PROVE  Funded'
<1> DEFINE own == Minus(owners, S)
           gone == {p \in S \ lent[r] : ~refund \/ (own[p] > 0 /\ p \notin EvictableOf(own, byKey, parent))}
           N == S \ lent[r]
           C == Range(pg) \ lent[r]
           g == Cardinality(gone)
           P == allot[r].pages
           left == Remaining(Most(0, P - g), Len(pg) - Cardinality(lent[r] \ S))
<1>1. /\ owners' = own /\ lent' = [lent EXCEPT ![r] = @ \ S]
      /\ allot' = [allot EXCEPT ![r] = [pages |-> Most(0, P - g), remaining |-> left]]
      /\ unused' = unused + left - allot[r].remaining
  BY DEF ReleasePages, Recount
<1>2. /\ S \in SUBSET Pages /\ Range(pg) \in SUBSET Pages /\ S \cap Range(pg) = {}
      /\ (\A p \in S : owners[p] >= 1 /\ p \notin Now) /\ owners \in [Pages -> Nat]
      /\ Range(pages[r]) \cup Range(lease[r]) = S \cup Range(pg)
      /\ lent[r] \subseteq S \cup Range(pg)
  BY HeldOwned DEF Funded, Paid
<1>3. gone \subseteq N /\ N \in SUBSET Pages /\ C \in SUBSET Pages /\ N \cap C = {} /\ gone \in SUBSET Pages
  BY <1>2
<1>4. N \ gone \subseteq Now'
  <2> SUFFICES ASSUME NEW p \in N, p \notin gone PROVE p \in Now'
    OBVIOUS
  <2>1. p \in Pages /\ ~(own[p] > 0 /\ p \notin EvictableOf(own, byKey, parent))
    BY <1>3
  <2>2. own[p] = owners[p] - 1 /\ owners[p] \in Nat /\ owners[p] >= 1
    BY <1>2, <2>1 DEF Minus
  <2>3. own[p] = 0 \/ p \in EvictableOf(own, byKey, parent)
    BY <2>1, <2>2
  <2>4. p \in Avail(own, byKey, parent)
    BY <2>1, <2>3 DEF Avail, FreeOf
  <2> QED
    BY <2>4, <1>1 DEF Now
<1>5. Now \subseteq Now' /\ Evictable \subseteq Evictable' /\ Steady /\ Forest'
  <2>1. /\ Avail(owners, byKey, parent) \subseteq Avail(own, byKey, parent)
        /\ Evictable \subseteq EvictableOf(own, byKey, parent)
    BY <1>2, ReleaseAvail
  <2>2. Now \subseteq Now' /\ Evictable \subseteq Evictable'
    BY <1>1, <2>1 DEF Now, Evictable
  <2> QED
    BY <2>2 DEF Steady, Funded, Forest
<1>6. /\ allot \in [Rids -> [pages : Int, remaining : Int]] /\ lent \in [Rids -> SUBSET Pages]
      /\ pages \in [Rids -> Seq(Pages)] /\ lease \in [Rids -> Seq(Pages)]
      /\ mark \in [Rids -> Marks] /\ P \in Nat
      /\ allot[r].remaining = Remaining(P, Owes(r)) /\ allot[r].remaining \in Nat /\ unused \in Nat
  <2>1. P \in Nat /\ allot[r].remaining = Remaining(P, Owes(r))
    BY DEF Funded, Paid
  <2> QED
    BY <2>1, CountHolds DEF Inv, Budgeted, Typed, Funded
<1> HIDE DEF gone, own
<1>7. /\ Cardinality(N) \in Nat /\ Cardinality(C) \in Nat /\ g \in Nat /\ g <= Cardinality(N)
      /\ Cardinality(N \ gone) = Cardinality(N) - g
      /\ IsFiniteSet(N) /\ IsFiniteSet(C) /\ IsFiniteSet(gone)
  <2>1. IsFiniteSet(N) /\ IsFiniteSet(C) /\ IsFiniteSet(gone) /\ Cardinality(N) \in Nat /\ Cardinality(C) \in Nat /\ g \in Nat
    BY <1>3, PageCount
  <2>2. g <= Cardinality(N)
    BY <2>1, <1>3, FS_Subset
  <2>3. N \cap gone = gone
    BY <1>3
  <2>4. Cardinality(N \ gone) = Cardinality(N) - Cardinality(N \cap gone)
    BY <2>1, FS_Difference
  <2> QED
    BY <2>1, <2>2, <2>3, <2>4
<1>8. Owes(r) = Cardinality(C) + Cardinality(N)
  <2>1. (Range(pages[r]) \cup Range(lease[r])) \ lent[r] = C \cup N
    BY <1>2
  <2>2. Cardinality(C \cup N) = Cardinality(C) + Cardinality(N) - Cardinality(C \cap N)
    BY <1>7, FS_Union
  <2>3. C \cap N = {} /\ Cardinality({}) = 0
    BY <1>3, FS_EmptySet
  <2>4. Owes(r) = Cardinality((Range(pages[r]) \cup Range(lease[r])) \ lent[r])
    BY OwesIs
  <2> HIDE DEF C, N
  <2>5. Cardinality(C \cup N) = Cardinality(C) + Cardinality(N)
    <3>1. Cardinality(C \cap N) = 0
      BY <2>3
    <3> QED
      BY <3>1, <2>2, <1>7
  <2> QED
    BY <2>1, <2>4, <2>5
<1>9. Len(pg) - Cardinality(lent[r] \ S) = Cardinality(C)
  <2>1. IsFiniteSet(Range(pg)) /\ Cardinality(Range(pg)) = Len(pg)
    BY LongAs
  <2>2. Range(pg) \cap lent[r] = lent[r] \ S
    BY <1>2
  <2>3. Cardinality(Range(pg) \ lent[r]) = Cardinality(Range(pg)) - Cardinality(Range(pg) \cap lent[r])
    BY <2>1, FS_Difference
  <2> QED
    BY <2>1, <2>2, <2>3
<1>10. left \in Nat /\ left <= allot[r].remaining + (Cardinality(N) - g) /\ Most(0, P - g) \in Nat
       /\ left = Remaining(Most(0, P - g), Cardinality(C))
  <2>1. left = Remaining(Most(0, P - g), Cardinality(C))
    BY <1>9
  <2>2. allot[r].remaining = Most(0, P - (Cardinality(C) + Cardinality(N)))
    BY <1>6, <1>8 DEF Remaining
  <2> HIDE DEF left, P, g, N, C
  <2> QED
    BY <2>1, <2>2, <1>6, <1>7 DEF Remaining, Most
<1> HIDE DEF left, P, g
<1>11. Counted'
  <2>1. PICK n \in Nat : n = left
    BY <1>10
  <2>2. PICK m \in Int : m = Most(0, P - g)
    BY <1>10
  <2>3. allot' = [allot EXCEPT ![r] = [pages |-> m, remaining |-> n]] /\ unused' = unused + n - allot[r].remaining
    BY <2>1, <2>2, <1>1
  <2> QED
    BY <2>3, CountMoves
<1>12. RoomCovered'
  <2>1. RoomIsNow /\ RoomIsNow'
    BY RoomNow, PTL
  <2>2. Now \cup (N \ gone) \subseteq Now' /\ Now \cap (N \ gone) = {}
    BY <1>2, <1>4, <1>5
  <2>3. IsFiniteSet(Now) /\ IsFiniteSet(Now') /\ IsFiniteSet(N \ gone)
    BY <2>1, <1>7, PageCount, FS_Subset DEF RoomIsNow
  <2>4. Cardinality(Now \cup (N \ gone)) = Cardinality(Now) + Cardinality(N \ gone) - 0
    BY <2>2, <2>3, FS_Union, FS_EmptySet
  <2>5. Cardinality(Now \cup (N \ gone)) <= Cardinality(Now')
    BY <2>2, <2>3, FS_Subset
  <2>6. unused <= Cardinality(Now) /\ Cardinality(Now) \in Nat /\ Cardinality(Now') \in Nat
    BY <2>1 DEF RoomIsNow, Funded
  <2> HIDE DEF N
  <2>7. unused' <= Cardinality(Now')
    <3>1. Cardinality(Now) + (Cardinality(N) - g) <= Cardinality(Now')
      BY <2>4, <2>5, <2>6, <1>7
    <3>2. unused' <= unused + (Cardinality(N) - g)
      <4>1. PICK o \in Nat : o = allot[r].remaining
        BY <1>6
      <4>2. PICK d \in Int : d = Cardinality(N) - g
        BY <1>7
      <4>3. left \in Nat /\ left <= o + d
        BY <1>10, <4>1, <4>2
      <4>4. unused' = unused + left - o /\ unused \in Nat
        BY <1>1, <1>6, <4>1
      <4>5. unused' <= unused + d
        BY <4>1, <4>2, <4>3, <4>4
      <4> QED
        BY <4>2, <4>5
    <3>3. unused' \in Int
      BY <1>1, <1>6, <1>10
    <3> QED
      BY <3>1, <3>2, <3>3, <2>6, <1>6, <1>7
  <2> QED
    BY <2>1, <2>7 DEF RoomIsNow
<1>13. Elsewhere(r)
  BY <1>1, <1>6 DEF Elsewhere
<1>14. Paid(r)'
  <2>1. /\ pages'[r] = pg /\ lease'[r] = <<>> /\ lent'[r] = lent[r] \ S
        /\ allot'[r] = [pages |-> Most(0, P - g), remaining |-> left]
    BY <1>1, <1>6
  <2>2. lent'[r] \subseteq Range(pages'[r]) \cup Range(lease'[r])
    BY <2>1, <1>2
  <2>3. Owes(r)' = Cardinality(C)
    <3>1. Len(<<>>) = 0 /\ Len(pg) \in Nat
      OBVIOUS
    <3>2. Owes(r)' = Len(pg) + 0 - Cardinality(lent[r] \ S)
      BY <2>1, <3>1 DEF Owes
    <3>3. lent[r] \ S \in SUBSET Pages
      BY <1>6
    <3>4. Cardinality(lent[r] \ S) \in Nat
      BY <3>3, PageCount
    <3>5. Owes(r)' = Len(pg) - Cardinality(lent[r] \ S)
      BY <3>1, <3>2, <3>4
    <3> QED
      BY <3>5, <1>9
  <2>4. Allotted(r)' /\ allot'[r].pages \in Nat /\ allot'[r].remaining = Remaining(allot'[r].pages, Owes(r)')
    BY <2>1, <2>3, <1>10 DEF Allotted, NoAllot
  <2> QED
    BY <2>2, <2>4 DEF Paid
<1>15. mark' \in [Rids -> Marks] /\ \A q \in Rids : Marked(q)'
  BY <1>5, <1>6, MarksKept
<1> QED
  BY <1>5, <1>11, <1>12, <1>13, <1>14, <1>15, Assembled

\* rollback_admit, drop and the end of an offload release pages.
LEMMA ReleaseStepFunds ==
    ASSUME Inv, Inv', Funded, NEW r \in Rids, Rollback(r) \/ Drop(r) \/ OffloadCommit(r)
    PROVE  Funded'
<1>0. /\ pages \in [Rids -> Seq(Pages)] /\ lease \in [Rids -> Seq(Pages)] /\ stage \in [Rids -> Stages]
      /\ IsInjective(pages[r]) /\ Len(pages[r]) = stored[r] + flight[r] /\ reserved[r] = flight[r]
      /\ stored[r] \in Nat /\ flight[r] \in Nat
      /\ (lease[r] # <<>> => pages[r] = <<>> /\ flight[r] = 0 /\ stage[r] = "device")
  BY OfRequest DEF Typed, Streaming
<1>1. Range(<<>>) = {} /\ <<>> \in Seq(Pages) /\ Len(<<>>) = 0 /\ IsInjective(<<>>)
  BY DEF Range, IsInjective
<1>2. CASE Rollback(r)
  <2> DEFINE n == Len(pages[r]) - reserved[r]
             pg == SubSeq(pages[r], 1, n)
             T == {pages[r][i] : i \in n + 1 .. Len(pages[r])}
  <2>1. /\ flight[r] > 0 /\ pages' = [pages EXCEPT ![r] = pg] /\ ReleasePages(r, T, n, TRUE)
        /\ UNCHANGED <<byKey, parent, mark, lease, stage>>
    BY <1>2 DEF Rollback
  <2>2. lease[r] = <<>> /\ n \in 0..Len(pages[r]) /\ pages[r] # <<>>
    BY <2>1, <1>0
  <2>3. Allotted(r)
    BY <2>2 DEF Funded, Paid
  <2>4. /\ pg \in Seq(Pages) /\ Len(pg) = n /\ IsInjective(pg) /\ Range(pg) = Range(pages[r]) \ T
    BY <2>2, <1>0, Cut
  <2>5. T \subseteq Range(pages[r])
    <3> SUFFICES ASSUME NEW i \in n + 1 .. Len(pages[r]) PROVE pages[r][i] \in Range(pages[r])
      OBVIOUS
    <3>1. pages[r] \in Seq(Pages) /\ i \in 1..Len(pages[r])
      BY <2>2, <1>0
    <3> QED
      BY <3>1 DEF Range
  <2> HIDE DEF pg, T, n
  <2>6. T = (Range(pages[r]) \cup Range(lease[r])) \ Range(pg)
        /\ Range(pg) \subseteq Range(pages[r]) \cup Range(lease[r])
    BY <2>2, <2>4, <2>5, <1>1
  <2>7. lease' = [lease EXCEPT ![r] = <<>>]
    BY <2>1, <2>2, <1>0
  <2>8. ReleasePages(r, T, Len(pg), TRUE) /\ TRUE \in BOOLEAN
    BY <2>1, <2>4
  <2> QED
    BY <2>1, <2>3, <2>4, <2>6, <2>7, <2>8, ReleaseFunds
<1>3. CASE Drop(r)
  <2>1. /\ Allotted(r) /\ ReleasePages(r, Range(pages[r]) \cup Range(lease[r]), 0, TRUE)
        /\ pages' = [pages EXCEPT ![r] = <<>>] /\ lease' = [lease EXCEPT ![r] = <<>>]
        /\ UNCHANGED <<byKey, parent, mark, stage>>
    BY <1>3 DEF Drop, MayStep
  <2>2. PICK S : S = (Range(pages[r]) \cup Range(lease[r])) \ Range(<<>>)
    OBVIOUS
  <2>3. ReleasePages(r, S, Len(<<>>), TRUE) /\ TRUE \in BOOLEAN
    BY <2>1, <2>2, <1>1
  <2> QED
    BY <2>1, <2>2, <2>3, <1>1, ReleaseFunds
<1>4. CASE OffloadCommit(r)
  <2>1. /\ stage[r] = "claimed" /\ ReleasePages(r, Range(pages[r]), 0, FALSE)
        /\ pages' = [pages EXCEPT ![r] = <<>>] /\ stage' = [stage EXCEPT ![r] = "host"]
        /\ UNCHANGED <<byKey, parent, mark, lease>>
    BY <1>4 DEF OffloadCommit
  <2>2. lease[r] = <<>> /\ Allotted(r)
    BY <2>1, <1>0 DEF Funded, Paid
  <2>3. PICK S : S = (Range(pages[r]) \cup Range(lease[r])) \ Range(<<>>)
    OBVIOUS
  <2>4. S = Range(pages[r])
    BY <2>2, <2>3, <1>1
  <2>5. ReleasePages(r, S, Len(<<>>), FALSE) /\ FALSE \in BOOLEAN
    BY <2>1, <2>4, <1>1
  <2>6. lease' = [lease EXCEPT ![r] = <<>>] /\ \A q \in Rids \ {r} : stage'[q] = stage[q]
    BY <2>1, <2>2, <1>0
  <2> QED
    BY <2>1, <2>2, <2>3, <2>5, <2>6, <1>1, ReleaseFunds
<1> QED
  BY <1>2, <1>3, <1>4

-----------------------------------------------------------------------------
(* Steps that take pages *)

\* Where the count and the allotments stay, it is enough that as much can be granted.
LEMMA StayFunds ==
    ASSUME Inv, Inv', Funded, NEW r \in Rids, UNCHANGED <<allot, unused, lent>>, Forest', Now \subseteq Now',
           mark' \in [Rids -> Marks] /\ \A q \in Rids : Marked(q)',
           \A q \in Rids \ {r} : pages'[q] = pages[q] /\ lease'[q] = lease[q] /\ stage'[q] = stage[q],
           Range(pages[r]) \cup Range(lease[r]) \subseteq Range(pages'[r]) \cup Range(lease'[r]),
           Len(pages'[r]) + Len(lease'[r]) = Len(pages[r]) + Len(lease[r]),
           Allotted(r) \/ UNCHANGED <<pages, lease, stage>>
    PROVE  Funded'
<1>1. Counted'
  BY DEF Funded, Counted
<1>2. RoomCovered'
  <2>1. {} \in SUBSET Pages /\ Cardinality({}) = 0 /\ Now \ {} \subseteq Now' /\ unused \in Int
    BY FS_EmptySet DEF Inv, Budgeted
  <2>2. unused' <= unused - Cardinality({})
    BY <2>1
  <2> QED
    BY <2>1, <2>2, StaysCovered
<1>3. Paid(r)'
  <2>1. Paid(r)
    BY DEF Funded
  <2>2. CASE UNCHANGED <<pages, lease, stage>>
    BY <2>1, <2>2 DEF Paid, Owes, Allotted
  <2>3. CASE Allotted(r)
    <3>1. Allotted(r)' /\ allot'[r] = allot[r] /\ lent'[r] = lent[r]
      BY <2>3 DEF Allotted
    <3>2. Len(pages'[r]) \in Nat /\ Len(lease'[r]) \in Nat /\ Len(pages[r]) \in Nat /\ Len(lease[r]) \in Nat
      <4>1. pages \in [Rids -> Seq(Pages)] /\ lease \in [Rids -> Seq(Pages)]
            /\ pages' \in [Rids -> Seq(Pages)] /\ lease' \in [Rids -> Seq(Pages)]
        BY DEF Inv, Typed
      <4> QED
        BY <4>1
    <3>3. Cardinality(lent[r]) \in Nat
      BY Borrows
    <3>4. Owes(r)' = Owes(r)
      <4>1. Owes(r) = Len(pages[r]) + Len(lease[r]) - Cardinality(lent[r])
        BY Zenon DEF Owes
      <4>2. Owes(r)' = Len(pages'[r]) + Len(lease'[r]) - Cardinality(lent'[r])
        BY Zenon DEF Owes
      <4>3. PICK x \in Int : x = Len(pages[r])
        BY <3>2
      <4>4. PICK y \in Int : y = Len(lease[r])
        BY <3>2
      <4>5. PICK u \in Int : u = Len(pages'[r])
        BY <3>2
      <4>6. PICK v \in Int : v = Len(lease'[r])
        BY <3>2
      <4>7. PICK c \in Int : c = Cardinality(lent[r])
        BY <3>3
      <4>8. u + v = x + y
        BY <4>3, <4>4, <4>5, <4>6
      <4>9. Owes(r) = x + y - c
        BY <4>1, <4>3, <4>4, <4>7
      <4>10. Owes(r)' = u + v - c
        BY <4>2, <4>5, <4>6, <4>7, <3>1
      <4>11. u + v - c = x + y - c
        <5>1. x \in Int /\ y \in Int /\ u \in Int /\ v \in Int /\ c \in Int
          BY <4>3, <4>4, <4>5, <4>6, <4>7
        <5> QED
          BY <4>8, <5>1
      <4> QED
        BY <4>9, <4>10, <4>11
    <3> QED
      BY <2>1, <2>3, <3>1, <3>4 DEF Paid
  <2> QED
    BY <2>2, <2>3
<1>4. Elsewhere(r)
  BY DEF Elsewhere
<1> QED
  BY <1>1, <1>2, <1>3, <1>4, Assembled

\* The pool, the streams and the allotments stay as they are.
LEMMA IdleFunds ==
    ASSUME Inv, Inv', Funded, NEW r \in Rids,
           \/ Ingest(r) \/ OffloadClaim(r) \/ OffloadAbandon(r) \/ ReloadShort(r)
           \/ \E n \in Spans(r) : AdmitRefused(r, n)
    PROVE  Funded'
<1>0. /\ pages \in [Rids -> Seq(Pages)] /\ lease \in [Rids -> Seq(Pages)] /\ stage \in [Rids -> Stages]
      /\ mark \in [Rids -> Marks]
  BY DEF Inv, Typed, Funded
<1>1. UNCHANGED <<owners, byKey, parent, allot, unused, lent>>
  BY DEF Ingest, AdmitRefused, OffloadClaim, OffloadAbandon, ReloadShort, poolVars, streamVars
<1>2. Forest' /\ Now \subseteq Now' /\ Steady
  BY <1>1, PoolStays
<1>3. mark' \in [Rids -> Marks] /\ \A q \in Rids : Marked(q)'
  <2>1. CASE UNCHANGED mark
    BY <2>1, <1>0, <1>2, MarksKept
  <2>2. CASE ReloadShort(r)
    <3>1. Taken(Range(ReloadRun(r)))
      BY <2>2 DEF ReloadShort
    <3> QED
      BY <3>1, <1>2, MarksTaken
  <2> QED
    BY <2>1, <2>2 DEF Ingest, AdmitRefused, OffloadClaim, OffloadAbandon
<1>4. CASE UNCHANGED <<pages, lease, stage>>
  BY <1>1, <1>2, <1>3, <1>4, StayFunds
<1>5. CASE (OffloadClaim(r) \/ OffloadAbandon(r)) /\ UNCHANGED <<pages, lease>>
  <2>1. Allotted(r) /\ \A q \in Rids \ {r} : stage'[q] = stage[q]
    BY <1>0, <1>5 DEF OffloadClaim, OffloadAbandon, MayStep, Funded, Paid
  <2> QED
    BY <2>1, <1>1, <1>2, <1>3, <1>5, StayFunds
<1>6. CASE \E n \in Spans(r) : AdmitRefused(r, n)
  <2>1. MayStep(r) /\ Converts(r) /\ Convert(r, Held(r)) /\ UNCHANGED stage
    BY <1>6 DEF AdmitRefused
  <2>2. pages' = [pages EXCEPT ![r] = lease[r]] /\ lease' = [lease EXCEPT ![r] = <<>>] /\ Allotted(r)
    BY <2>1 DEF Convert, Held, MayStep
  <2>3. pages[r] = <<>>
    BY <2>1, HeldNow
  <2>4. pages'[r] = lease[r] /\ lease'[r] = <<>> /\ \A q \in Rids \ {r} : pages'[q] = pages[q] /\ lease'[q] = lease[q]
    BY <2>2, <1>0
  <2>5. /\ Range(pages[r]) \cup Range(lease[r]) \subseteq Range(pages'[r]) \cup Range(lease'[r])
        /\ Len(pages'[r]) + Len(lease'[r]) = Len(pages[r]) + Len(lease[r])
    <3>1. Range(<<>>) = {} /\ Len(<<>>) = 0 /\ Len(lease[r]) \in Nat
      BY <1>0 DEF Range
    <3> QED
      BY <3>1, <2>3, <2>4
  <2> QED
    BY <2>1, <2>2, <2>4, <2>5, <1>1, <1>2, <1>3, StayFunds
<1> QED
  BY <1>4, <1>5, <1>6 DEF Ingest, OffloadClaim, OffloadAbandon, ReloadShort, streamVars

\* Pages that are filed were nobody's to grant, and commit and the end of a reload file only those.
LEMMA FileFunds ==
    ASSUME Inv, Inv', Funded, NEW r \in Rids, Commit(r) \/ ReloadLand(r)
    PROVE  Funded'
<1>0. /\ pages \in [Rids -> Seq(Pages)] /\ lease \in [Rids -> Seq(Pages)] /\ stage \in [Rids -> Stages]
      /\ mark \in [Rids -> Marks] /\ byKey' \in [Keys -> Pages \cup {None}] /\ OneName(byKey')
      /\ Len(pages[r]) \in Nat /\ Len(Chain[r]) \in Nat /\ stored[r] \in Nat /\ cursor[r] \in Nat /\ flight[r] \in Nat
  BY OfRequest DEF Inv, Typed, Funded
<1>1. UNCHANGED <<pages, lease, lent, allot, unused>> /\ \A q \in Rids \ {r} : stage'[q] = stage[q]
  BY <1>0 DEF Commit, ReloadLand, streamVars
<1>2. \E from \in Nat \ {0}, to \in Nat :
         /\ to <= Len(Chain[r]) /\ to <= Len(pages[r]) /\ (from > Bound(r) \/ from > to)
         /\ File(r, pages[r], from, to)
  <2>1. CASE Commit(r)
    <3>1. /\ flight[r] > 0 /\ File(r, pages[r], cursor[r] + 1, Least(stored[r] + flight[r], Len(Chain[r])))
      BY <2>1 DEF Commit
    <3>2. /\ stage[r] = "device" /\ Len(pages[r]) = stored[r] + flight[r] /\ Bound(r) = stored[r]
          /\ (cursor[r] >= stored[r] \/ cursor[r] = Len(Chain[r]))
      BY <3>1, OfRequest DEF Streaming, Bound
    <3>3. PICK to \in Nat : to = Least(stored[r] + flight[r], Len(Chain[r]))
      BY <1>0 DEF Least
    <3>4. to <= Len(Chain[r]) /\ to <= Len(pages[r])
      BY <3>2, <3>3, <1>0 DEF Least
    <3>5. PICK from \in Nat \ {0} : from = cursor[r] + 1
      BY <1>0
    <3>6. from > Bound(r) \/ from > to
      BY <3>2, <3>4, <3>5, <1>0
    <3> QED
      BY <3>1, <3>3, <3>4, <3>5, <3>6
  <2>2. CASE ReloadLand(r)
    <3>1. stage[r] = "landing" /\ File(r, pages[r], host[r].run + 1, host[r].keyed)
      BY <2>2 DEF ReloadLand
    <3>2. /\ lease[r] = <<>> /\ flight[r] = 0 /\ Len(pages[r]) = stored[r] /\ Bound(r) = host[r].run
          /\ host[r].keyed <= Len(host[r].data) /\ host[r].keyed <= Len(Chain[r])
          /\ Len(host[r].data) = stored[r] /\ host[r].run \in Nat /\ host[r].keyed \in Nat
      BY SMTT(30), <3>1, OfRequest DEF Streaming, Copied, Bound, Copies
    <3>3. PICK from \in Nat \ {0} : from = host[r].run + 1
      BY <3>2
    <3>4. PICK to \in Nat : to = host[r].keyed
      BY <3>2
    <3> QED
      BY <3>1, <3>2, <3>3, <3>4
  <2> QED
    BY <2>1, <2>2
<1>3. PICK from \in Nat \ {0} : \E to \in Nat :
         /\ to <= Len(Chain[r]) /\ to <= Len(pages[r]) /\ (from > Bound(r) \/ from > to)
         /\ File(r, pages[r], from, to)
  BY <1>2
<1>4. PICK to \in Nat :
         /\ to <= Len(Chain[r]) /\ to <= Len(pages[r]) /\ (from > Bound(r) \/ from > to)
         /\ File(r, pages[r], from, to)
  BY <1>3
<1>5. /\ Avail(owners, byKey, parent) \subseteq Avail(owners', byKey', parent') /\ Forest'
      /\ \/ UNCHANGED <<owners, byKey, parent, mark>>
         \/ mark' = [q \in Rids |-> IF mark[q] # NoMark THEN [mark[q] EXCEPT !.moved = TRUE] ELSE mark[q]]
  BY <1>0, <1>4, FileAvail
<1>6. Now \subseteq Now'
  BY <1>5 DEF Now
<1>7. mark' \in [Rids -> Marks] /\ \A q \in Rids : Marked(q)'
  <2>1. CASE UNCHANGED <<owners, byKey, parent, mark>>
    BY <2>1, <1>0, PoolStays, MarksKept
  <2>2. CASE mark' = Moved
    BY <2>2, MarksMoved
  <2> QED
    BY <2>1, <2>2, <1>5 DEF Moved
<1>8. Allotted(r) \/ UNCHANGED <<pages, lease, stage>>
  <2>1. CASE Commit(r)
    BY <2>1 DEF Commit
  <2>2. CASE ReloadLand(r)
    BY <2>2 DEF ReloadLand, Funded, Paid
  <2> QED
    BY <2>1, <2>2
<1> QED
  BY <1>1, <1>5, <1>6, <1>7, <1>8, StayFunds

\* A lease takes what its allowance covers, and the pages it borrows were not there to take.
LEMMA LeaseFunds ==
    ASSUME Inv, Inv', Funded, NEW r \in Rids, Lease(r)
    PROVE  Funded'
<1> DEFINE all == PagesFor(r, Len(Chain[r]) - 1)
           run == Affordable(r, all)
           ln == lent[r] \cup (Range(run) \ Evictable)
           P == allot[r].pages
           left == Remaining(P, Len(run) - Cardinality(ln))
<1>0. /\ Allotted(r) /\ pages[r] = <<>> /\ lease[r] = <<>>
      /\ owners' = Plus(owners, Range(run)) /\ lease' = [lease EXCEPT ![r] = run]
      /\ lent' = [lent EXCEPT ![r] = ln] /\ Taken(Range(run))
      /\ UNCHANGED <<byKey, parent, pages, stage>>
      /\ allot' = [allot EXCEPT ![r] = [pages |-> P, remaining |-> left]]
      /\ unused' = unused + left - allot[r].remaining
  BY DEF Lease, Recount
<1>1. /\ all \in Seq(Pages) /\ Len(all) \in 0..(Len(Chain[r]) - 1) /\ IsInjective(all)
      /\ \A i \in 1..Len(all) : all[i] = byKey[Chain[r][i]] /\ all[i] \in Range(byKey) \ {None}
  <2>1. Len(Chain[r]) - 1 \in 0..Len(Chain[r])
    BY Prompt
  <2> QED
    BY <2>1, OfRequest, Run
<1> HIDE DEF all
<1>2. PICK n \in 0..Len(all) :
         run = SubSeq(all, 1, n) /\ Cardinality({i \in 1..n : all[i] \in Evictable}) <= Most(0, Allowance(r))
  BY <1>1, OfRequest, RunHead
<1>3. run \in Seq(Pages) /\ Len(run) = n /\ IsInjective(run) /\ \A i \in 1..n : run[i] = all[i]
  BY <1>1, <1>2, Cut
<1> HIDE DEF run, ln, left, P
<1>4. \A i \in 1..Len(run) : run[i] = byKey[Chain[r][i]] /\ run[i] \in Range(byKey) \ {None}
  BY <1>1, <1>3
<1>5. Range(run) \subseteq Range(byKey) \ {None} /\ Range(run) \subseteq Pages
  BY <1>3, <1>4 DEF Range
<1>6. Len(run) <= Len(Chain[r])
  BY <1>1, <1>3, Prompt
<1>7. /\ Now \ Range(run) \subseteq Now' /\ Evictable \ Range(run) \subseteq Evictable'
  <2>1. /\ Avail(owners, byKey, parent) \ Range(run) \subseteq Avail(Plus(owners, Range(run)), byKey, parent)
        /\ Evictable \ Range(run) \subseteq EvictableOf(Plus(owners, Range(run)), byKey, parent)
    BY <1>3, <1>4, <1>6, RunAvail DEF Funded
  <2> QED
    BY <2>1, <1>0 DEF Now, Evictable
<1>8. PICK X : X = Range(run) \cap Evictable
  OBVIOUS
<1>9. Now \ X \subseteq Now' /\ X \in SUBSET Pages
  <2> SUFFICES ASSUME NEW p \in Now, p \notin X PROVE p \in Now'
    BY <1>5, <1>8
  <2>1. CASE p \in Range(run)
    <3>1. p \in Range(byKey) /\ p \in Pages /\ p \notin Evictable
      BY <2>1, <1>5, <1>8
    <3>2. owners[p] >= 1
      BY <3>1, Owned
    <3> QED
      BY <3>1, <3>2 DEF Now, Avail, FreeOf, Evictable
  <2>2. CASE p \notin Range(run)
    BY <2>2, <1>7
  <2> QED
    BY <2>1, <2>2
<1>10. /\ lent[r] = {} /\ Owes(r) = 0 /\ P \in Nat /\ allot[r].remaining = P /\ unused \in Nat
       /\ allot \in [Rids -> [pages : Int, remaining : Int]] /\ lent \in [Rids -> SUBSET Pages]
       /\ lease \in [Rids -> Seq(Pages)]
  BY <1>0, Borrows, CountHolds DEF Funded, Paid, Inv, Budgeted, Typed, P
<1>11. /\ Len(run) - Cardinality(ln) = Cardinality(X) /\ Cardinality(X) \in Nat
       /\ Cardinality(X) <= Most(0, Allowance(r))
  <2>1. IsFiniteSet(Range(run)) /\ Cardinality(Range(run)) = Len(run) /\ Len(run) \in Nat
    BY <1>3, LongAs
  <2>2. ln = Range(run) \ Evictable
    BY <1>10 DEF ln
  <2>3. Cardinality(ln) = Cardinality(Range(run)) - Cardinality(X)
    BY <2>1, <2>2, <1>8, FS_Difference
  <2>4. Cardinality(X) \in Nat
    BY <1>9, PageCount
  <2> DEFINE I == {i \in 1..n : all[i] \in Evictable}
             f == [i \in I |-> all[i]]
  <2>5. IsFiniteSet(I)
    <3>1. n \in Nat /\ 1 \in Int /\ n \in Int
      BY <1>1, <1>2
    <3>2. IsFiniteSet(1..n)
      BY <3>1, FS_Interval
    <3> QED
      BY <3>2, FS_Subset
  <2>6. f \in Surjection(I, X)
    <3>1. \A i \in I : f[i] = run[i] /\ run[i] \in X
      BY <1>3, <1>8 DEF Range
    <3>2. \A p \in X : \E i \in I : f[i] = p
      <4> SUFFICES ASSUME NEW p \in X PROVE \E i \in I : f[i] = p
        OBVIOUS
      <4>1. PICK i \in 1..n : run[i] = p
        BY <1>3, <1>8 DEF Range
      <4> QED
        BY <4>1, <1>3, <1>8
    <3> QED
      BY <3>1, <3>2 DEF Surjection
  <2>7. Cardinality(X) <= Cardinality(I) /\ Cardinality(I) \in Nat
    BY <2>5, <2>6, FS_Surjection, FS_CardinalityType
  <2>8. Cardinality(I) <= Most(0, Allowance(r))
    BY <1>2
  <2>9. Most(0, Allowance(r)) \in Int
    BY RoomTyped DEF Most, Allowance, Inv, Budgeted
  <2>10. Cardinality(X) <= Most(0, Allowance(r))
    BY <2>4, <2>7, <2>8, <2>9
  <2> HIDE DEF I, f
  <2> QED
    BY <2>1, <2>3, <2>4, <2>10
<1>12. left = Most(0, P - Cardinality(X)) /\ left \in Nat
  BY <1>10, <1>11 DEF left, Remaining, Most
<1>13. Counted'
  <2>1. PICK m \in Int : m = P
    BY <1>10
  <2>2. PICK k \in Nat : k = left
    BY <1>12
  <2>3. allot' = [allot EXCEPT ![r] = [pages |-> m, remaining |-> k]] /\ unused' = unused + k - allot[r].remaining
    BY <2>1, <2>2, <1>0
  <2> QED
    BY <2>3, CountMoves
<1>14. RoomCovered'
  <2>1. RoomIsNow /\ unused <= Cardinality(Now)
    BY RoomNow DEF RoomIsNow, Funded
  <2>2. Cardinality(Now) \in Nat /\ Allowance(r) = P + (Cardinality(Now) - unused)
    BY <2>1, <1>10 DEF RoomIsNow, Allowance
  <2>3. Most(0, Allowance(r)) = P + (Cardinality(Now) - unused)
    BY <2>1, <2>2, <1>10 DEF Most
  <2>4. unused' = unused + left - P
    BY <1>0, <1>10
  <2> HIDE DEF P
  <2>5. unused' <= unused - Cardinality(X) \/ unused' <= Cardinality(Now) - Cardinality(X)
    BY <2>1, <2>2, <2>3, <2>4, <1>10, <1>11, <1>12 DEF Most
  <2> QED
    BY <2>5, <1>9, StaysCovered
<1>15. Forest'
  BY <1>0 DEF Funded, Forest
<1>16. mark' \in [Rids -> Marks] /\ \A q \in Rids : Marked(q)'
  <2>1. Range(run) \cap Evictable = {} => Steady
    BY <1>0, <1>7 DEF Steady
  <2> QED
    BY <2>1, <1>0, MarksTaken
<1>17. Elsewhere(r)
  BY <1>0, <1>10 DEF Elsewhere
<1>18. Paid(r)'
  <2>1. /\ pages'[r] = <<>> /\ lease'[r] = run /\ lent'[r] = ln /\ allot'[r] = [pages |-> P, remaining |-> left]
    BY <1>0, <1>10
  <2>2. lent'[r] \subseteq Range(pages'[r]) \cup Range(lease'[r])
    BY <2>1, <1>10 DEF ln
  <2>3. ln \in SUBSET Pages
    BY <1>5, <1>10 DEF ln
  <2>4. Cardinality(ln) \in Nat /\ Len(run) \in Nat /\ Len(<<>>) = 0
    BY <2>3, <1>3, PageCount
  <2>5. Owes(r)' = 0 + Len(run) - Cardinality(ln)
    BY <2>1, <2>4 DEF Owes
  <2>6. Owes(r)' = Len(run) - Cardinality(ln)
    BY <2>4, <2>5
  <2>7. left = Remaining(P, Owes(r)')
    BY <2>6 DEF left
  <2>8. Allotted(r)' /\ allot'[r].pages \in Nat /\ allot'[r].remaining = Remaining(allot'[r].pages, Owes(r)')
    BY <2>1, <2>7, <1>10 DEF Allotted, NoAllot
  <2> QED
    BY <2>2, <2>8 DEF Paid
<1> QED
  BY <1>13, <1>14, <1>15, <1>16, <1>17, <1>18, Assembled

\* An admit takes what its allotment has left, and the rest of what it is granted out of the room.
LEMMA AdmitFunds ==
    ASSUME Inv, Inv', Funded, NEW r \in Rids, NEW n \in Spans(r), Admit(r, n)
    PROVE  Funded'
<1> DEFINE w == Within(r, n)
           P == allot[r].pages
           R == allot[r].remaining
<1>0. MayStep(r) /\ Allotted(r) /\ n \in Nat \ {0} /\ New(r, n) = n
  BY HeldNow, KVPoolAssumption DEF Admit, Spans, MayStep
<1>1. PICK E \in Evictions(owners, n) : \E got \in Grants(owners, E, n) :
         GrantPages(owners, E, got) /\ Convert(r, Held(r) \o got)
  BY <1>0 DEF Admit
<1>2. PICK got \in Grants(owners, E, n) : GrantPages(owners, E, got) /\ Convert(r, Held(r) \o got)
  BY <1>1
<1>3. /\ Covered(r, n) /\ unused' = unused - w /\ UNCHANGED <<lent, stage, mark>>
      /\ allot' = [allot EXCEPT ![r].remaining = @ - w]
  BY DEF Admit
<1>4. owners \in [Pages -> Nat] /\ \A p \in Pages : owners[p] \in Nat /\ owners[p] >= owners[p]
  BY OfRequest DEF Typed
<1>5. got \in Seq(Pages) /\ Len(got) = n /\ IsInjective(got) /\ Range(got) \subseteq Pages
  BY <1>0, <1>4, Granted
<1>6. /\ Now \ Range(got) \subseteq Now' /\ Steady /\ Forest'
  <2>1. /\ Avail(owners, byKey, parent) \ Range(got) \subseteq Avail(owners', byKey', parent')
        /\ EvictableOf(owners, byKey, parent) \ Range(got) \subseteq Evictable'
        /\ \A k \in Keys : byKey'[k] = byKey[k] \/ byKey'[k] = None
        /\ \A p \in Range(got) : p \notin Range(byKey')
        /\ Forest'
    BY <1>0, <1>2, <1>4, GrantAvail DEF Funded
  <2> QED
    BY <2>1 DEF Now, Steady, Evictable
<1>7. /\ allot \in [Rids -> [pages : Int, remaining : Int]] /\ mark \in [Rids -> Marks]
      /\ pages \in [Rids -> Seq(Pages)] /\ lease \in [Rids -> Seq(Pages)]
      /\ P \in Nat /\ R \in Nat /\ R = Remaining(P, Owes(r)) /\ unused \in Nat
  BY <1>0, CountHolds DEF Funded, Paid, Inv, Budgeted, Typed
<1>8. w = Least(n, R) /\ w \in 0..R
  BY <1>0, <1>7 DEF Within, Least
<1>9. allot' = [allot EXCEPT ![r] = [pages |-> P, remaining |-> R - w]]
  <2>1. [allot[r] EXCEPT !.remaining = @ - w] = [pages |-> P, remaining |-> R - w]
    <3>1. allot[r] \in [pages : Int, remaining : Int]
      BY <1>7
    <3> QED
      BY <3>1
  <2>2. allot' = [allot EXCEPT ![r] = [allot[r] EXCEPT !.remaining = @ - w]]
    BY <1>3
  <2> QED
    BY <2>1, <2>2
<1> HIDE DEF w, P, R
<1>10. Counted'
  <2>1. PICK m \in Int : m = P
    BY <1>7
  <2>2. PICK k \in Nat : k = R - w
    BY <1>7, <1>8
  <2>3. allot' = [allot EXCEPT ![r] = [pages |-> m, remaining |-> k]]
    BY <2>1, <2>2, <1>9
  <2>4. unused' = unused + k - R
    BY <2>2, <1>3, <1>7, <1>8
  <2>5. unused' = unused + k - allot[r].remaining
    BY <2>4 DEF R
  <2> QED
    BY <2>3, <2>5, CountMoves
<1>11. RoomCovered'
  <2>1. RoomIsNow /\ unused <= Cardinality(Now) /\ Cardinality(Now) \in Nat
    BY RoomNow DEF RoomIsNow, Funded
  <2>2. Room = Cardinality(Now) - unused /\ n - w <= Most(0, Room)
    BY <2>1, <1>0, <1>3 DEF RoomIsNow, Covered, w
  <2>3. n - w <= Cardinality(Now) - unused
    BY <2>1, <2>2, <1>7 DEF Most
  <2>4. Cardinality(Range(got)) = n
    BY <1>5, LongAs
  <2>5. unused' <= Cardinality(Now) - Cardinality(Range(got))
    BY <2>1, <2>3, <2>4, <1>0, <1>3, <1>7, <1>8
  <2> QED
    BY <2>5, <1>5, <1>6, StaysCovered
<1>12. mark' \in [Rids -> Marks] /\ \A q \in Rids : Marked(q)'
  BY <1>3, <1>6, <1>7, MarksKept
<1>13. PICK pg : pg = Held(r) \o got
  OBVIOUS
<1>14. pages' = [pages EXCEPT ![r] = pg] /\ lease' = [lease EXCEPT ![r] = <<>>]
  BY <1>2, <1>13 DEF Convert
<1>15. Elsewhere(r)
  BY <1>3, <1>7, <1>9, <1>14 DEF Elsewhere
<1>16. Paid(r)'
  <2>1. pages'[r] = pg /\ lease'[r] = <<>> /\ lent'[r] = lent[r] /\ allot'[r] = [pages |-> P, remaining |-> R - w]
    BY <1>3, <1>7, <1>9, <1>14
  <2>2. PICK h : h = Held(r)
    OBVIOUS
  <2>3. /\ h \in Seq(Pages) /\ Len(h) = Written(r) /\ Range(h) = Range(pages[r]) \cup Range(lease[r])
        /\ (Converts(r) => pages[r] = <<>> /\ h = lease[r])
        /\ (~Converts(r) => lease[r] = <<>> /\ h = pages[r])
    BY <2>2, <1>0, HeldNow
  <2>4. pg \in Seq(Pages) /\ Len(pg) = Len(h) + n /\ Range(pg) = Range(h) \cup Range(got)
    BY <2>2, <2>3, <1>5, <1>13, Joined
  <2>5. lent'[r] \subseteq Range(pages'[r]) \cup Range(lease'[r])
    BY <2>1, <2>3, <2>4 DEF Funded, Paid
  <2>6. PICK c \in Nat : c = Cardinality(lent[r])
    BY Borrows
  <2>7. Owes(r) = Len(h) - c
    <3>1. Owes(r) = Len(pages[r]) + Len(lease[r]) - c
      BY <2>6, Zenon DEF Owes
    <3>2. Len(<<>>) = 0 /\ Len(h) \in Nat
      BY <2>3
    <3>3. Owes(r) = 0 + Len(h) - c \/ Owes(r) = Len(h) + 0 - c
      BY <3>1, <3>2, <2>3
    <3> QED
      BY <3>2, <3>3
  <2>8. Owes(r)' = Len(h) + n - c
    <3>1. Owes(r)' = Len(pg) + Len(<<>>) - c
      BY <2>1, <2>6, Zenon DEF Owes
    <3>2. Len(<<>>) = 0 /\ Len(h) \in Nat /\ Len(pg) = Len(h) + n
      BY <2>3, <2>4
    <3> QED
      BY <3>1, <3>2, <1>0
  <2>9. Len(h) \in Nat
    BY <2>3
  <2>10. R - w = Remaining(P, Owes(r)')
    <3>1. PICK x \in Nat : x = Len(h)
      BY <2>9
    <3>2. PICK y \in Int : y = x - c
      OBVIOUS
    <3>3. Owes(r) = y /\ Owes(r)' = y + n
      BY <3>1, <3>2, <2>7, <2>8, <1>0
    <3>4. R = IF 0 > P - y THEN 0 ELSE P - y
      BY <3>3, <1>7 DEF Remaining, Most
    <3>5. Remaining(P, Owes(r)') = IF 0 > P - (y + n) THEN 0 ELSE P - (y + n)
      BY <3>3 DEF Remaining, Most
    <3>6. w = IF n < R THEN n ELSE R
      BY <1>8 DEF Least
    <3> QED
      BY <3>4, <3>5, <3>6, <1>0, <1>7
  <2>11. Allotted(r)' /\ allot'[r].pages \in Nat /\ allot'[r].remaining = Remaining(allot'[r].pages, Owes(r)')
    BY <2>1, <2>10, <1>7 DEF Allotted, NoAllot
  <2> QED
    BY <2>5, <2>11 DEF Paid
<1> QED
  BY <1>6, <1>10, <1>11, <1>12, <1>15, <1>16, Assembled

\* A reload takes out of the room what it retains and what it is granted, and is promised no more.
LEMMA ReloadFunds ==
    ASSUME Inv, Inv', Funded, NEW r \in Rids, ReloadTake(r)
    PROVE  Funded'
<1> DEFINE run == ReloadRun(r)
           own == Plus(owners, Range(run))
           L == Len(host[r].data)
           P == allot[r].pages
           R == allot[r].remaining
<1>0. PICK n : n = ReloadNeeds(r)
  OBVIOUS
<1>1. PICK E \in Evictions(own, n) : \E got \in Grants(own, E, n) :
         GrantPages(own, E, got) /\ pages' = [pages EXCEPT ![r] = run \o got]
  BY <1>0 DEF ReloadTake
<1>2. PICK got \in Grants(own, E, n) : GrantPages(own, E, got) /\ pages' = [pages EXCEPT ![r] = run \o got]
  BY <1>1
<1>3. /\ stage[r] = "host" /\ allot' = [allot EXCEPT ![r].pages = @ + L] /\ stage' = [stage EXCEPT ![r] = "landing"]
      /\ Taken(Range(run)) /\ UNCHANGED <<lease, lent, unused>>
      /\ n <= Cardinality(FreeOf(own)) + Cardinality(EvictableOf(own, byKey, parent)) - unused
  BY <1>0 DEF ReloadTake, ReloadFits
<1>4. /\ pages[r] = <<>> /\ lease[r] = <<>> /\ Allotted(r) /\ L \in Nat /\ host[r].keyed \in Nat
      /\ host[r].keyed <= L /\ host[r].keyed <= Len(Chain[r])
  <2>1. stage[r] # "device"
    BY <1>3
  <2>2. pages[r] = <<>> /\ host[r].keyed \in Nat /\ host[r].data \in Seq(Contents)
        /\ host[r].keyed <= L /\ host[r].keyed <= Len(Chain[r])
    BY <1>3, OfRequest DEF Copied, Copies
  <2>3. lease[r] = <<>> /\ Allotted(r)
    BY <2>1, OfRequest DEF Streaming, Funded, Paid
  <2> QED
    BY <2>2, <2>3
<1>5. /\ run \in Seq(Pages) /\ Len(run) \in Nat /\ Len(run) <= host[r].keyed /\ IsInjective(run)
      /\ \A i \in 1..Len(run) : run[i] = byKey[Chain[r][i]] /\ run[i] \in Range(byKey) \ {None}
  <2>1. host[r].keyed \in 0..Len(Chain[r])
    BY <1>4, OfRequest
  <2>2. run = PagesFor(r, host[r].keyed)
    BY DEF ReloadRun
  <2> QED
    BY <2>1, <2>2, OfRequest, Run
<1>6. n = L - Len(run) /\ n \in Nat
  BY <1>0, <1>4, <1>5 DEF ReloadNeeds
<1>7. /\ own \in [Pages -> Nat] /\ (\A p \in Pages : own[p] >= owners[p]) /\ Backed(own, byKey)
  <2>1. owners \in [Pages -> Nat] /\ byKey \in [Keys -> Pages \cup {None}]
    BY DEF Inv, Typed
  <2>2. own \in [Pages -> Nat] /\ \A p \in Pages : own[p] >= owners[p]
    BY <2>1 DEF Plus
  <2>3. \A p \in Pages : p \in Range(byKey) => owners[p] >= 1
    BY Owned
  <2> QED
    BY <2>1, <2>2, <2>3 DEF Backed
<1>8. Evictable \ Range(run) \subseteq EvictableOf(own, byKey, parent)
  <2>1. Len(run) <= Len(Chain[r])
    BY <1>4, <1>5, Prompt
  <2> QED
    BY <2>1, <1>5, RunAvail DEF Funded
<1> HIDE DEF own
<1>10. got \in Seq(Pages) /\ Len(got) = n /\ IsInjective(got) /\ Range(got) \subseteq Pages
  <2>1. PICK o \in [Pages -> Nat] : o = own
    BY <1>7
  <2>2. (\A p \in Pages : o[p] >= owners[p]) /\ E \in Evictions(o, n) /\ got \in Grants(o, E, n)
    BY <2>1, <1>2, <1>7
  <2>3. got \in Seq(Pages) /\ Len(got) = n /\ IsInjective(got) /\ Range(got) \subseteq Pages
    BY <2>2, <1>6, Granted
  <2> QED
    BY <2>3
<1>11. /\ Avail(own, byKey, parent) \ Range(got) \subseteq Now'
       /\ EvictableOf(own, byKey, parent) \ Range(got) \subseteq Evictable'
       /\ \A k \in Keys : byKey'[k] = byKey[k] \/ byKey'[k] = None
       /\ \A p \in Range(got) : p \notin Range(byKey')
       /\ Forest'
  BY <1>2, <1>6, <1>7, GrantAvail DEF Now, Funded
<1>12. mark' \in [Rids -> Marks] /\ \A q \in Rids : Marked(q)'
  <2>1. Range(run) \cap Evictable = {} => Steady
    BY <1>8, <1>11 DEF Steady
  <2> QED
    BY <2>1, <1>3, MarksTaken
<1>13. /\ allot \in [Rids -> [pages : Int, remaining : Int]] /\ pages \in [Rids -> Seq(Pages)]
       /\ stage \in [Rids -> Stages] /\ lent[r] = {} /\ P \in Nat /\ R = P /\ R \in Nat /\ unused \in Nat
  BY <1>4, Borrows, CountHolds DEF Funded, Paid, Inv, Budgeted, Typed
<1>14. allot' = [allot EXCEPT ![r] = [pages |-> P + L, remaining |-> R]]
  <2>1. [allot[r] EXCEPT !.pages = @ + L] = [pages |-> P + L, remaining |-> R]
    <3>1. allot[r] \in [pages : Int, remaining : Int]
      BY <1>13
    <3> QED
      BY <3>1
  <2>2. allot' = [allot EXCEPT ![r] = [allot[r] EXCEPT !.pages = @ + L]]
    BY <1>3
  <2> QED
    BY <2>1, <2>2
<1> HIDE DEF run, L, P, R
<1>15. Counted'
  <2>1. PICK m \in Int : m = P + L
    BY <1>4, <1>13
  <2>2. PICK k \in Nat : k = R
    BY <1>13
  <2>3. allot' = [allot EXCEPT ![r] = [pages |-> m, remaining |-> k]]
    BY <2>1, <2>2, <1>14
  <2>4. unused' = unused + k - R
    BY <2>2, <1>3, <1>13
  <2>5. unused' = unused + k - allot[r].remaining
    BY <2>4 DEF R
  <2> QED
    BY <2>3, <2>5, CountMoves
<1>16. RoomCovered'
  <2>1. RoomIsNow'
    BY RoomNow, PTL
  <2>2. /\ Avail(own, byKey, parent) \in SUBSET Pages
        /\ Cardinality(FreeOf(own)) \in Nat /\ Cardinality(EvictableOf(own, byKey, parent)) \in Nat
        /\ Cardinality(Avail(own, byKey, parent))
             = Cardinality(FreeOf(own)) + Cardinality(EvictableOf(own, byKey, parent))
    BY <1>7, AvailCounts
  <2>3. Now' \in SUBSET Pages
    BY <2>1 DEF RoomIsNow
  <2>4. Cardinality(Range(got)) = n
    BY <1>10, LongAs
  <2>5. /\ Cardinality(Now') \in Nat
        /\ Cardinality(Now') >= Cardinality(Avail(own, byKey, parent)) - Cardinality(Range(got))
    BY <2>2, <2>3, <1>10, <1>11, AvailMoves
  <2>6. unused <= Cardinality(Now')
    BY <2>2, <2>4, <2>5, <1>3, <1>6, <1>13
  <2> QED
    BY <2>1, <2>6, <1>3 DEF RoomIsNow
<1>17. Elsewhere(r)
  BY <1>2, <1>3, <1>13, <1>14 DEF Elsewhere
<1>18. Paid(r)'
  <2>1. PICK pg : pg = run \o got
    OBVIOUS
  <2>2. pg \in Seq(Pages) /\ Len(pg) = Len(run) + Len(got)
    BY <2>1, <1>5, <1>10, Joined
  <2>3. Len(pg) = L
    BY <2>2, <1>4, <1>5, <1>6, <1>10
  <2>4. pages'[r] = pg /\ lease'[r] = <<>> /\ lent'[r] = {} /\ allot'[r] = [pages |-> P + L, remaining |-> R]
    BY <2>1, <1>2, <1>3, <1>4, <1>13, <1>14
  <2>5. Owes(r)' = L
    <3>1. Len(<<>>) = 0 /\ Cardinality({}) = 0
      BY FS_EmptySet
    <3>2. Owes(r)' = L + 0 - 0
      BY <3>1, <2>3, <2>4 DEF Owes
    <3> QED
      BY <3>2, <1>4
  <2>6. R = Remaining(P + L, L)
    BY <1>4, <1>13 DEF Remaining, Most
  <2>7. Allotted(r)' /\ allot'[r].pages \in Nat /\ allot'[r].remaining = Remaining(allot'[r].pages, Owes(r)')
    BY <2>4, <2>5, <2>6, <1>4, <1>13 DEF Allotted, NoAllot
  <2> QED
    BY <2>4, <2>7 DEF Paid
<1> QED
  BY <1>11, <1>12, <1>15, <1>16, <1>17, <1>18, Assembled

-----------------------------------------------------------------------------
(* The count always holds *)

\* At first nothing is promised.
LEMMA InitFunds == Init => Funded
<1> SUFFICES ASSUME Init PROVE Funded
  OBVIOUS
<1>1. /\ byKey = [k \in Keys |-> None] /\ parent = [p \in Pages |-> None] /\ owners = [p \in Pages |-> 0]
      /\ \A r \in Rids : /\ pages[r] = <<>> /\ lease[r] = <<>> /\ lent[r] = {} /\ allot[r] = NoAllot
                         /\ mark[r] = NoMark /\ stage[r] = "device"
      /\ allot = [r \in Rids |-> NoAllot] /\ mark = [r \in Rids |-> NoMark] /\ unused = 0
  BY DEF Init
<1>2. Forest
  BY <1>1 DEF Forest
<1>3. Counted
  <2>1. \A r \in Rids : Left(allot)[r] = 0
    BY <1>1 DEF Left, NoAllot
  <2>2. Tokens(Left(allot)) = {}
    <3>1. 1..0 = {}
      OBVIOUS
    <3>2. \A q \in Rids : {q} \X (1..Left(allot)[q]) = {}
      BY <2>1, <3>1
    <3> QED
      BY <3>2 DEF Tokens
  <2>3. Cardinality(Tokens(Left(allot))) = 0
    BY <2>2, FS_EmptySet
  <2> QED
    BY <2>3, <1>1 DEF Counted, NoAllot
<1>4. RoomCovered
  <2>1. RoomIsNow
    BY InitInv, RoomNow
  <2> QED
    BY <2>1, <1>1 DEF RoomIsNow
<1>5. mark \in [Rids -> Marks] /\ \A r \in Rids : Marked(r)
  <2>1. NoMark \in Marks
    BY DEF NoMark, Marks
  <2> QED
    BY <2>1, <1>1 DEF Marked
<1>6. \A r \in Rids : Paid(r)
  BY <1>1 DEF Paid, Allotted
<1> QED
  BY <1>2, <1>3, <1>4, <1>5, <1>6 DEF Funded

\* Every step of the pool keeps the count.
LEMMA NextFunds == Inv /\ Funded /\ [Next]_vars => Inv' /\ Funded'
<1> SUFFICES ASSUME Inv, Funded, [Next]_vars PROVE Inv' /\ Funded'
  OBVIOUS
<1>0. Inv'
  BY NextInv
<1>1. CASE UNCHANGED vars
  <2>1. UNCHANGED <<owners, byKey, parent, pages, lease, lent, allot, unused, stage, mark>>
    BY <1>1 DEF vars, poolVars, streamVars
  <2>2. Forest' /\ Now' = Now /\ Steady
    BY <2>1, PoolStays
  <2>3. mark' \in [Rids -> Marks] /\ \A q \in Rids : Marked(q)'
    BY <2>1, <2>2, <1>0, MarksKept DEF Funded
  <2>4. Counted'
    BY <2>1 DEF Funded, Counted
  <2>5. RoomCovered'
    BY <2>1 DEF Funded, RoomCovered, Free, Evictable, FreeOf, EvictableOf
  <2>6. \A r \in Rids : Paid(r)'
    BY <2>1 DEF Funded, Paid, Owes, Allotted
  <2> QED
    BY <1>0, <2>2, <2>3, <2>4, <2>5, <2>6 DEF Funded
<1>2. CASE Next
  <2>1. PICK r \in Rids :
          \/ Ingest(r) \/ Reserve(r) \/ Unreserve(r) \/ Lease(r)
          \/ \E n \in Spans(r) : Admit(r, n) \/ AdmitRefused(r, n)
          \/ Rollback(r) \/ Commit(r) \/ Drop(r)
          \/ OffloadClaim(r) \/ OffloadCommit(r) \/ OffloadAbandon(r)
          \/ ReloadTake(r) \/ ReloadShort(r) \/ ReloadLand(r)
          \/ Remove(r)
    BY <1>2 DEF Next
  <2>2. CASE Ingest(r) \/ OffloadClaim(r) \/ OffloadAbandon(r) \/ ReloadShort(r)
    BY <2>2, <1>0, IdleFunds
  <2>3. CASE Reserve(r)
    BY <2>3, <1>0, ReserveFunds
  <2>4. CASE Unreserve(r)
    BY <2>4, <1>0, UnreserveFunds
  <2>5. CASE Lease(r)
    BY <2>5, <1>0, LeaseFunds
  <2>6. CASE \E n \in Spans(r) : Admit(r, n) \/ AdmitRefused(r, n)
    BY <2>6, <1>0, AdmitFunds, IdleFunds
  <2>7. CASE Rollback(r) \/ Drop(r) \/ OffloadCommit(r)
    BY <2>7, <1>0, ReleaseStepFunds
  <2>8. CASE Commit(r) \/ ReloadLand(r)
    BY <2>8, <1>0, FileFunds
  <2>9. CASE ReloadTake(r)
    BY <2>9, <1>0, ReloadFunds
  <2>10. CASE Remove(r)
    BY <2>10, <1>0, RemoveFunds
  <2> QED
    BY <1>0, <2>1, <2>2, <2>3, <2>4, <2>5, <2>6, <2>7, <2>8, <2>9, <2>10
<1> QED
  BY <1>1, <1>2

\* So it is always right.
LEMMA FundsHold == Spec => [](Inv /\ Funded)
<1>1. Init => Inv /\ Funded
  BY InitInv, InitFunds
<1> QED
  BY <1>1, NextFunds, PTL DEF Spec

\* A step that the allotment and the room cover finds its pages.
LEMMA StepIsMet ==
    ASSUME Inv, Funded, NEW r \in Rids, MayStep(r), NEW n \in Spans(r), Covered(r, n)
    PROVE  Evictions(owners, New(r, n)) # {}
<1>1. n \in Nat \ {0} /\ New(r, n) = n
  BY HeldNow, KVPoolAssumption DEF Spans
<1>2. RoomIsNow /\ unused <= Cardinality(Now)
  BY RoomNow DEF RoomIsNow, Funded
<1>3. /\ Cardinality(Now) \in Nat /\ Room = Cardinality(Now) - unused
      /\ Cardinality(Now) = Cardinality(FreeOf(owners)) + Cardinality(EvictableOf(owners, byKey, parent))
  BY <1>2, RoomIs DEF RoomIsNow, Now, Free, Evictable
<1>4. PICK R \in Nat : R = allot[r].remaining /\ R <= unused /\ unused \in Nat
  BY CountHolds
<1>5. PICK w \in 0..R : w = Within(r, n)
  BY <1>1, <1>4 DEF Within, Least
<1>6. n - w <= Cardinality(Now) - unused
  <2>1. n - w <= Most(0, Room)
    BY <1>1, <1>5 DEF Covered
  <2> QED
    BY <2>1, <1>2, <1>3, <1>4 DEF Most
<1>7. n <= Cardinality(Now)
  BY <1>1, <1>3, <1>4, <1>5, <1>6
<1>8. owners \in [Pages -> Nat] /\ n \in Nat /\ Forest
  BY <1>1 DEF Inv, Typed, Funded
<1> QED
  BY <1>1, <1>3, <1>7, <1>8, EvictionsMade

\* And so does a reload.
LEMMA ReloadIsMet ==
    ASSUME Inv, Funded, NEW r \in Rids, stage[r] = "host", ReloadFits(r)
    PROVE  Evictions(Plus(owners, Range(ReloadRun(r))), ReloadNeeds(r)) # {}
<1>1. PICK own \in [Pages -> Nat] : own = Plus(owners, Range(ReloadRun(r)))
  <2>1. Typed
    BY DEF Inv
  <2> QED
    BY <2>1, PlusMinus
<1>2. ReloadNeeds(r) \in Nat
  <2>1. /\ host[r].keyed \in Nat /\ host[r].data \in Seq(Contents)
        /\ host[r].keyed <= Len(host[r].data) /\ host[r].keyed <= Len(Chain[r])
    BY OfRequest DEF Copied, Copies
  <2>2. host[r].keyed \in 0..Len(Chain[r])
    BY <2>1, OfRequest
  <2>3. Len(ReloadRun(r)) \in 0..host[r].keyed
    BY <2>2, OfRequest, Run DEF ReloadRun
  <2> QED
    BY <2>1, <2>3 DEF ReloadNeeds
<1>3. Cardinality(FreeOf(own)) \in Nat /\ Cardinality(EvictableOf(own, byKey, parent)) \in Nat
  BY EvictableIndexed, PageCount DEF Inv, FreeOf
<1>4. ReloadNeeds(r) <= Cardinality(FreeOf(own)) + Cardinality(EvictableOf(own, byKey, parent)) - unused
  BY <1>1 DEF ReloadFits
<1>5. unused \in Nat
  BY CountHolds
<1>6. ReloadNeeds(r) <= Cardinality(FreeOf(own)) + Cardinality(EvictableOf(own, byKey, parent))
  BY <1>2, <1>3, <1>4, <1>5
<1>7. Forest
  BY DEF Funded
<1> QED
  BY <1>1, <1>2, <1>6, <1>7, EvictionsMade

\* The requests in the pool are those there are.
LEMMA LiveKnown == Spec => [](live \subseteq Rids)
<1>1. Init => live \subseteq Rids
  BY DEF Init
<1>2. live \subseteq Rids /\ [Next]_vars => (live \subseteq Rids)'
  <2> SUFFICES ASSUME live \subseteq Rids, [Next]_vars PROVE live' \subseteq Rids
    OBVIOUS
  <2>1. CASE UNCHANGED vars
    BY <2>1 DEF vars
  <2>2. ASSUME NEW r \in Rids,
               \/ Ingest(r) \/ Reserve(r) \/ Unreserve(r) \/ Lease(r)
               \/ \E n \in Spans(r) : Admit(r, n) \/ AdmitRefused(r, n)
               \/ Rollback(r) \/ Commit(r) \/ Drop(r)
               \/ OffloadClaim(r) \/ OffloadCommit(r) \/ OffloadAbandon(r)
               \/ ReloadTake(r) \/ ReloadShort(r) \/ ReloadLand(r)
               \/ Remove(r)
        PROVE  live' = live \/ live' = live \cup {r} \/ live' = live \ {r}
    BY <2>2 DEF Ingest, Reserve, Unreserve, Lease, Admit, AdmitRefused, Rollback, Commit, Drop,
                OffloadClaim, OffloadCommit, OffloadAbandon, ReloadTake, ReloadShort, ReloadLand, Remove
  <2> QED
    BY <2>1, <2>2 DEF Next
<1> QED
  BY <1>1, <1>2, PTL DEF Spec

\* The counts stay counts: KVManager._unused and what an allotment has left never go below
\* zero, and a mark is taken at a room that is no debt.
THEOREM PoolTyped == Spec => []TypeOK
<1>1. Inv /\ Funded /\ live \subseteq Rids => TypeOK
  <2> SUFFICES ASSUME Inv, Funded, live \subseteq Rids PROVE TypeOK
    OBVIOUS
  <2>1. Typed /\ lent \in [Rids -> SUBSET Pages] /\ parent \in [Pages -> Pages \cup {None}]
    BY DEF Inv, Budgeted, Funded, Forest
  <2>2. allot \in [Rids -> [pages : Nat, remaining : Nat] \cup {NoAllot}]
    <3>1. allot \in [Rids -> [pages : Int, remaining : Int]]
      BY DEF Inv, Budgeted
    <3>2. ASSUME NEW r \in Rids PROVE allot[r] \in [pages : Nat, remaining : Nat] \cup {NoAllot}
      <4>1. allot[r].remaining \in Nat /\ (Allotted(r) => allot[r].pages \in Nat)
        BY CountHolds DEF Funded, Paid
      <4>2. CASE Allotted(r)
        BY <4>1, <4>2, <3>1
      <4>3. CASE ~Allotted(r)
        BY <4>3 DEF Allotted
      <4> QED
        BY <4>2, <4>3
    <3> QED
      BY <3>1, <3>2
  <2>3. unused \in Nat
    <3>1. unused = Cardinality(Tokens(Left(allot))) /\ Left(allot) \in [Rids -> Nat]
      BY DEF Funded, Counted, Inv, Budgeted, Left
    <3> QED
      BY <3>1, TokensFinite
  <2>4. mark \in [Rids -> [room : Nat, moved : BOOLEAN] \cup {NoMark}]
    BY DEF Funded, Marks
  <2> QED
    BY <2>1, <2>2, <2>3, <2>4 DEF TypeOK, Typed, Stages, Contents, Copies
<1> QED
  BY <1>1, FundsHold, LiveKnown, PTL

\* A grant never fails: what KVManager._grant is asked for, by _alloc within the allotment
\* and the room or by a reload that fits, can be met by free pages and an eviction of
\* cached ones, so the error it raises where they run out is not reached.
THEOREM NoGrantFails == Spec => []GrantsAreMet
<1>1. Inv /\ Funded => GrantsAreMet
  BY StepIsMet, ReloadIsMet DEF GrantsAreMet, Funded
<1> QED
  BY <1>1, FundsHold, PTL

\* No wakeup is lost (the assertion of grew_since): while neither the room nor the counts of
\* the index have moved past the mark a request got when it did not fit, it still does not.
THEOREM NoWakeupIsLost == Spec => []MarkSound
<1>1. Inv /\ Funded /\ live \subseteq Rids => MarkSound
  <2> SUFFICES ASSUME Inv, Funded, NEW r \in Rids, mark[r] # NoMark, ~mark[r].moved, Room <= mark[r].room
               PROVE  Need(r) > Room
    BY DEF MarkSound
  <2>1. Need(r) > mark[r].room /\ mark[r].room \in Nat
    BY DEF Funded, Marked, Marks
  <2>2. Room \in Int
    BY RoomTyped DEF Inv
  <2>3. Need(r) \in Int
    <3>1. PICK c : c = Cardinality(HitPages(r) \ Evictable)
      OBVIOUS
    <3>2. c \in 0 .. Len(Chain[r]) - 1 /\ Need(r) = Len(Chain[r]) - c
      BY <3>1, NeedIs DEF NeedCounted
    <3> QED
      BY <3>2, Prompt
  <2> QED
    BY <2>1, <2>2, <2>3
<1> QED
  BY <1>1, FundsHold, LiveKnown, PTL

=============================================================================
