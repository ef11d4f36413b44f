-------------------------- MODULE PrefixIndexProofs --------------------------
(***************************************************************************)
(* Proofs about the prefix index: for every set of pages and keys, every   *)
(* forest of keys and every bound, the index is typed, its parts agree     *)
(* (ForestOK) and its incremental set of evictable pages is right one      *)
(* level at a time, between and inside calls (EvictableLocal).             *)
(*                                                                         *)
(* EvictableLocal is not inductive alone.  That a walk up changes the set  *)
(* only at indexed pages, and that a dropped page has no child whose held  *)
(* pages it counts, rest on the forest (ForestOK) and on three facts about *)
(* calls in progress (WalkOK): a walk up stands at an indexed page, every  *)
(* entry evict has spared names a leaf, and no page is its own parent.     *)
(* The argument for a step is always the same: which page becomes busy or  *)
(* stops being busy (at most one does, BusyUp and BusyDown), and whether   *)
(* its parent is the page the next turn of the walk up stands at.          *)
(*                                                                         *)
(* The second part is about what eviction reaches and in which order it    *)
(* drops pages.                                                            *)
(***************************************************************************)
EXTENDS PrefixIndex, FiniteSetTheorems, WellFoundedInduction, TLAPS

\* The heap's entries: a bag of entries stays one when another is added to it.
LEMMA BagSum ==
    ASSUME NEW S, NEW B, NEW C, IsBagOf(B, S), IsBagOf(C, S)
    PROVE  IsBagOf(B (+) C, S)
BY DEF IsBagOf, IsABag, (+)

\* ... and when some are taken out.
LEMMA BagDifference ==
    ASSUME NEW S, NEW B, NEW C, IsBagOf(B, S), IsBagOf(C, S)
    PROVE  IsBagOf(B (-) C, S)
BY DEF IsBagOf, IsABag, (-)

\* One entry is a bag of entries.
LEMMA BagOfOne ==
    ASSUME NEW S, NEW x \in S
    PROVE  IsBagOf(SetToBag({x}), S)
BY DEF IsBagOf, IsABag, SetToBag

\* So is the empty heap.
LEMMA BagOfNone ==
    ASSUME NEW S
    PROVE  IsBagOf(EmptyBag, S)
BY DEF IsBagOf, IsABag, EmptyBag, SetToBag

\* What a call in progress relies on.
WalkOK ==
    /\ op.at \in {"pin", "unpin"} => key[op.page] # None
    /\ op.at = "evict" => \A e \in BagToSet(op.spared) : children[e[2]] = 0
    /\ \A p \in Pages : parent[p] # p

\* The inductive invariant.
Inv == TypeOK /\ ForestOK /\ EvictableLocal /\ WalkOK

-----------------------------------------------------------------------------

\* A page has finitely many children, so the index can count them.
LEMMA Finite ==
    ASSUME PagesTyped, NEW p \in Pages
    PROVE  /\ IsFiniteSet(ChildrenOf(p)) /\ Cardinality(ChildrenOf(p)) \in Nat
           /\ IsFiniteSet(BusyChildren(p)) /\ Cardinality(BusyChildren(p)) \in Nat
<1>1. ChildrenOf(p) \in SUBSET Pages /\ BusyChildren(p) \in SUBSET Pages
    BY DEF ChildrenOf, BusyChildren
<1>2. IsFiniteSet(ChildrenOf(p)) /\ IsFiniteSet(BusyChildren(p))
    BY <1>1, FS_Subset, PrefixIndexAssumption
<1> QED
    BY <1>2, FS_CardinalityType

\* A call that changes no linked page's being busy changes no count of busy children.
LEMMA BusySame ==
    ASSUME PagesTyped, UNCHANGED parent,
           \A q \in Pages : parent[q] # None => Busy(q)' = Busy(q)
    PROVE  \A q \in Pages : BusyChildren(q)' = BusyChildren(q)
BY PrefixIndexAssumption DEF BusyChildren, ChildrenOf, PagesTyped

\* A page that becomes busy is one more busy child of its parent, and of no other page.
LEMMA BusyUp ==
    ASSUME PagesTyped, UNCHANGED parent, NEW p \in Pages,
           ~Busy(p), Busy(p)', \A q \in Pages \ {p} : Busy(q)' = Busy(q)
    PROVE  \A q \in Pages :
             Cardinality(BusyChildren(q))' =
                Cardinality(BusyChildren(q)) + (IF q = parent[p] THEN 1 ELSE 0)
<1> TAKE q \in Pages
<1>1. BusyChildren(q)' = IF q = parent[p] THEN BusyChildren(q) \cup {p} ELSE BusyChildren(q)
    BY DEF BusyChildren, ChildrenOf
<1>2. p \notin BusyChildren(q)
    BY DEF BusyChildren
<1>3. IsFiniteSet(BusyChildren(q)) /\ Cardinality(BusyChildren(q)) \in Nat
    BY Finite
<1>4. Cardinality(BusyChildren(q) \cup {p}) = Cardinality(BusyChildren(q)) + 1
    BY <1>2, <1>3, FS_AddElement
<1> QED
    BY <1>1, <1>3, <1>4

\* A page that stops being busy is one busy child fewer of its parent, and of no other page.
LEMMA BusyDown ==
    ASSUME PagesTyped, UNCHANGED parent, NEW p \in Pages,
           Busy(p), ~Busy(p)', \A q \in Pages \ {p} : Busy(q)' = Busy(q)
    PROVE  \A q \in Pages :
             Cardinality(BusyChildren(q))' =
                Cardinality(BusyChildren(q)) - (IF q = parent[p] THEN 1 ELSE 0)
<1> TAKE q \in Pages
<1>1. BusyChildren(q)' = IF q = parent[p] THEN BusyChildren(q) \ {p} ELSE BusyChildren(q)
    BY DEF BusyChildren, ChildrenOf
<1>2. q = parent[p] => p \in BusyChildren(q)
    BY DEF BusyChildren, ChildrenOf
<1>3. IsFiniteSet(BusyChildren(q)) /\ Cardinality(BusyChildren(q)) \in Nat
    BY Finite
<1>4. q = parent[p] => Cardinality(BusyChildren(q) \ {p}) = Cardinality(BusyChildren(q)) - 1
    BY <1>2, <1>3, FS_RemoveElement
<1> QED
    BY <1>1, <1>3, <1>4

-----------------------------------------------------------------------------

\* The calls in progress, and what each remembers.
LEMMA OpCases ==
    ASSUME OpTyped
    PROVE  /\ op.at \in {"idle", "pin", "unpin", "evict"}
           /\ op.at \in {"pin", "unpin"} => op.page \in Pages
           /\ op.at = "idle" <=> op = Idle
           /\ op.at = "evict" => /\ op.n \in Nat /\ op.spare \subseteq Keys
                                 /\ IsBagOf(op.passed, Entries)
                                 /\ IsBagOf(op.spared, Entries)
BY DEF OpTyped, Idle, Evicting

\* The one page whose count is out by one is where a walk up stands.
LEMMA UntoldCases ==
    ASSUME OpTyped
    PROVE  /\ op.at \notin {"pin", "unpin"} => \A q : Untold(q) = 0
           /\ op.at = "pin" => \A q : Untold(q) = IF q = op.page THEN 1 ELSE 0
           /\ op.at = "unpin" => \A q : Untold(q) = IF q = op.page THEN -1 ELSE 0
BY OpCases DEF Untold

\* A call that returns leaves no count untold.
LEMMA IdleNext ==
    ASSUME op' = Idle
    PROVE  OpTyped' /\ op'.at = "idle" /\ \A q : Untold(q)' = 0
BY DEF OpTyped, Idle, Untold

\* set_shared(TRUE) leaves the parent, if any, to be told of a busy child.
LEMMA PinningNext ==
    ASSUME NEW par \in Pages \cup {None}, op' = Pinning(par)
    PROVE  /\ OpTyped'
           /\ op'.at \in {"idle", "pin"} /\ (op'.at = "pin" => op'.page = par /\ par # None)
           /\ \A q \in Pages : Untold(q)' = IF q = par THEN 1 ELSE 0
<1>1. CASE par = None
    BY <1>1, IdleNext, PrefixIndexAssumption DEF Pinning
<1>2. CASE par # None
    BY <1>2 DEF Pinning, OpTyped, Untold
<1> QED
    BY <1>1, <1>2

\* set_shared(FALSE) leaves the parent, if any, to be told that a child is busy no more.
LEMMA UnpinningNext ==
    ASSUME NEW par \in Pages \cup {None}, op' = Unpinning(par)
    PROVE  /\ OpTyped'
           /\ op'.at \in {"idle", "unpin"} /\ (op'.at = "unpin" => op'.page = par /\ par # None)
           /\ \A q \in Pages : Untold(q)' = IF q = par THEN -1 ELSE 0
<1>1. CASE par = None
    BY <1>1, IdleNext, PrefixIndexAssumption DEF Unpinning
<1>2. CASE par # None
    BY <1>2 DEF Unpinning, OpTyped, Untold
<1> QED
    BY <1>1, <1>2

\* A call that only moves owner counts, with the callers' counts, keeps the forest.
LEMMA ForestSame ==
    ASSUME ForestOK, UNCHANGED <<byKey, key, parent, children>>,
           \A q \in Pages : owners'[q] = refs'[q] + (IF key[q] # None THEN 1 ELSE 0)
    PROVE  ForestOK'
BY DEF ForestOK, ChildrenOf

-----------------------------------------------------------------------------

\* A page becomes busy, every count was right: the set is right again and the parent is
\* the one page left to be told.
LEMMA Gains ==
    ASSUME Inv, NEW p \in Pages, key[p] # None, UNCHANGED <<key, parent>>,
           ~Busy(p), Busy(p)', \A q \in Pages \ {p} : Busy(q)' = Busy(q),
           \A q \in Pages : Cardinality(BusyChildren(q)) = heldBelow'[q],
           heldBelow' \in [Pages -> Nat],
           evictable' = evictable \ {p}, op' = Pinning(parent[p])
    PROVE  EvictableLocal' /\ OpTyped' /\ op'.at # "evict"
           /\ (op'.at \in {"pin", "unpin"} => key'[op'.page] # None)
<1> USE DEF Inv, TypeOK
<1>1. \A q \in Pages : Cardinality(BusyChildren(q))' =
            Cardinality(BusyChildren(q)) + (IF q = parent[p] THEN 1 ELSE 0)
    BY BusyUp
<1>2. parent[p] \in Pages \cup {None}
    BY DEF PagesTyped
<1>3. /\ OpTyped'
      /\ op'.at \in {"idle", "pin"} /\ (op'.at = "pin" => op'.page = parent[p] /\ parent[p] # None)
      /\ \A q \in Pages : Untold(q)' = IF q = parent[p] THEN 1 ELSE 0
    BY <1>2, PinningNext
<1>4. evictable' = {q \in Indexed : ~Busy(q)}'
    BY DEF EvictableLocal, Indexed
<1>5. \A q \in Pages : Cardinality(BusyChildren(q))' = heldBelow'[q] + Untold(q)'
    BY <1>1, <1>3
<1> QED
    BY <1>3, <1>4, <1>5 DEF EvictableLocal, ForestOK

\* The same for a page that stops being busy.
LEMMA Loses ==
    ASSUME Inv, NEW p \in Pages, key[p] # None, UNCHANGED <<key, parent>>,
           Busy(p), ~Busy(p)', \A q \in Pages \ {p} : Busy(q)' = Busy(q),
           \A q \in Pages : Cardinality(BusyChildren(q)) = heldBelow'[q],
           heldBelow' \in [Pages -> Nat],
           evictable' = evictable \cup {p}, op' = Unpinning(parent[p])
    PROVE  EvictableLocal' /\ OpTyped' /\ op'.at # "evict"
           /\ (op'.at \in {"pin", "unpin"} => key'[op'.page] # None)
<1> USE DEF Inv, TypeOK
<1>1. \A q \in Pages : Cardinality(BusyChildren(q))' =
            Cardinality(BusyChildren(q)) - (IF q = parent[p] THEN 1 ELSE 0)
    BY BusyDown
<1>2. parent[p] \in Pages \cup {None}
    BY DEF PagesTyped
<1>3. /\ OpTyped'
      /\ op'.at \in {"idle", "unpin"} /\ (op'.at = "unpin" => op'.page = parent[p] /\ parent[p] # None)
      /\ \A q \in Pages : Untold(q)' = IF q = parent[p] THEN -1 ELSE 0
    BY <1>2, UnpinningNext
<1>4. evictable' = {q \in Indexed : ~Busy(q)}'
    BY DEF EvictableLocal, Indexed
<1>5. \A q \in Pages : Cardinality(BusyChildren(q))' = heldBelow'[q] + Untold(q)'
    BY <1>1, <1>3
<1> QED
    BY <1>3, <1>4, <1>5 DEF EvictableLocal, ForestOK

\* A call that ends with every count right and no indexed page's being busy changed.
LEMMA Keeps ==
    ASSUME Inv, UNCHANGED <<key, parent, evictable>>, op' = Idle,
           \A q \in Pages : key[q] # None => Busy(q)' = Busy(q),
           \A q \in Pages : Cardinality(BusyChildren(q)) = heldBelow'[q],
           heldBelow' \in [Pages -> Nat]
    PROVE  EvictableLocal' /\ OpTyped' /\ op'.at = "idle"
<1> USE DEF Inv, TypeOK
<1>1. \A q \in Pages : BusyChildren(q)' = BusyChildren(q)
    BY BusySame DEF ForestOK
<1>2. evictable' = {q \in Indexed : ~Busy(q)}'
    BY DEF EvictableLocal, Indexed
<1>3. \A q \in Pages : Cardinality(BusyChildren(q))' = heldBelow'[q] + Untold(q)'
    BY <1>1, IdleNext
<1> QED
    BY <1>2, <1>3, IdleNext DEF EvictableLocal

-----------------------------------------------------------------------------

\* One turn of _pin_above keeps the invariant.
LEMMA PinAboveInv ==
    ASSUME Inv, PinAbove
    PROVE  Inv'
<1> USE DEF Inv, TypeOK
<1>1. PICK p \in Pages : p = op.page /\ key[p] # None /\ op.at = "pin"
    BY OpCases DEF PinAbove, WalkOK
<1>2. /\ heldBelow' = [heldBelow EXCEPT ![p] = @ + 1]
      /\ UNCHANGED <<owners, refs, byKey, key, parent, children, stamp, leaves, clock>>
    BY <1>1 DEF PinAbove, heapVars
<1>3. heldBelow' \in [Pages -> Nat]
      /\ \A q \in Pages : Cardinality(BusyChildren(q)) = heldBelow'[q]
    BY <1>1, <1>2, UntoldCases DEF EvictableLocal, PagesTyped
<1>4. HeapTyped' /\ ForestOK'
    BY <1>2, ForestSame DEF HeapTyped, ForestOK
<1>5. \A q \in Pages \ {p} : Busy(q)' = Busy(q)
    BY <1>1, <1>2 DEF Busy, PagesTyped
<1>6. CASE heldBelow[p] + 1 > 1 \/ owners[p] > 1
    <2>1. UNCHANGED evictable /\ op' = Idle
        BY <1>1, <1>6 DEF PinAbove, Ignored
    <2>2. Busy(p)' = Busy(p)
        BY <1>2, <1>6 DEF Busy, PagesTyped
    <2>3. EvictableLocal' /\ OpTyped' /\ op'.at = "idle"
        BY <1>2, <1>3, <1>5, <2>1, <2>2, Keeps
    <2> QED
        BY <1>2, <1>3, <1>4, <2>1, <2>3 DEF WalkOK, PagesTyped
<1>7. CASE ~(heldBelow[p] + 1 > 1 \/ owners[p] > 1)
    <2>1. evictable' = evictable \ {p} /\ op' = Pinning(parent[p])
        BY <1>1, <1>7 DEF PinAbove, SetShared
    <2>2. ~Busy(p) /\ Busy(p)'
        BY <1>2, <1>7 DEF Busy, PagesTyped
    <2>3. EvictableLocal' /\ OpTyped' /\ op'.at # "evict"
          /\ (op'.at \in {"pin", "unpin"} => key'[op'.page] # None)
        BY <1>1, <1>2, <1>3, <1>5, <2>1, <2>2, Gains
    <2> QED
        BY <1>2, <1>3, <1>4, <2>1, <2>3 DEF WalkOK, PagesTyped
<1> QED
    BY <1>6, <1>7

\* One turn of _unpin_above keeps the invariant: the count it lowers is never zero.
LEMMA UnpinAboveInv ==
    ASSUME Inv, UnpinAbove
    PROVE  Inv'
<1> USE DEF Inv, TypeOK
<1>1. PICK p \in Pages : p = op.page /\ key[p] # None /\ op.at = "unpin"
    BY OpCases DEF UnpinAbove, WalkOK
<1>2. /\ heldBelow' = [heldBelow EXCEPT ![p] = @ - 1]
      /\ UNCHANGED <<owners, refs, byKey, key, parent, children, stamp, leaves, clock>>
    BY <1>1 DEF UnpinAbove, heapVars
<1>3. /\ \A q \in Pages : Cardinality(BusyChildren(q)) = heldBelow'[q]
      /\ heldBelow[p] - 1 \in Nat /\ heldBelow' \in [Pages -> Nat]
    <2>1. \A q \in Pages : Cardinality(BusyChildren(q)) = heldBelow'[q]
        BY <1>1, <1>2, UntoldCases DEF EvictableLocal, PagesTyped
    <2>2. heldBelow[p] - 1 \in Nat
        BY <1>2, <2>1, Finite DEF PagesTyped
    <2> QED
        BY <1>2, <2>1, <2>2 DEF PagesTyped
<1>4. HeapTyped' /\ ForestOK'
    BY <1>2, ForestSame DEF HeapTyped, ForestOK
<1>5. \A q \in Pages \ {p} : Busy(q)' = Busy(q)
    BY <1>1, <1>2 DEF Busy, PagesTyped
<1>6. CASE heldBelow[p] - 1 # 0 \/ owners[p] > 1
    <2>1. UNCHANGED evictable /\ op' = Idle
        BY <1>1, <1>6 DEF UnpinAbove, Ignored
    <2>2. Busy(p)' = Busy(p)
        BY <1>2, <1>3, <1>6 DEF Busy, PagesTyped
    <2>3. EvictableLocal' /\ OpTyped' /\ op'.at = "idle"
        BY <1>2, <1>3, <1>5, <2>1, <2>2, Keeps
    <2> QED
        BY <1>2, <1>3, <1>4, <2>1, <2>3 DEF WalkOK, PagesTyped
<1>7. CASE ~(heldBelow[p] - 1 # 0 \/ owners[p] > 1)
    <2>1. evictable' = evictable \cup {p} /\ op' = Unpinning(parent[p])
        BY <1>1, <1>7 DEF UnpinAbove, SetShared
    <2>2. Busy(p) /\ ~Busy(p)'
        BY <1>2, <1>3, <1>7 DEF Busy, PagesTyped
    <2>3. EvictableLocal' /\ OpTyped' /\ op'.at # "evict"
          /\ (op'.at \in {"pin", "unpin"} => key'[op'.page] # None)
        BY <1>1, <1>2, <1>3, <1>5, <2>1, <2>2, Loses
    <2> QED
        BY <1>2, <1>3, <1>4, <2>1, <2>3 DEF WalkOK, PagesTyped
<1> QED
    BY <1>6, <1>7

\* Between calls every held_below is the number of busy children.
LEMMA IdleFacts ==
    ASSUME Inv, op = Idle
    PROVE  /\ \A q \in Pages : Cardinality(BusyChildren(q)) = heldBelow[q]
           /\ heldBelow \in [Pages -> Nat]
BY UntoldCases DEF Inv, TypeOK, EvictableLocal, PagesTyped, Idle

\* PageArena.acquire keeps the invariant: a page with no owner is not indexed.
LEMMA AcquireInv ==
    ASSUME Inv, NEW p \in Pages, Acquire(p)
    PROVE  Inv'
<1> USE DEF Inv, TypeOK
<1>1. /\ op = Idle /\ op' = Idle /\ owners[p] = 0
      /\ owners' = [owners EXCEPT ![p] = 1] /\ refs' = [refs EXCEPT ![p] = 1]
      /\ UNCHANGED <<byKey, key, parent, children, heldBelow, evictable, stamp, leaves, clock>>
    BY DEF Acquire, heapVars
<1>2. key[p] = None /\ refs[p] = 0
    BY <1>1 DEF ForestOK, PagesTyped
<1>3. EvictableLocal' /\ OpTyped' /\ op'.at = "idle"
    BY <1>1, <1>2, IdleFacts, Keeps DEF Busy, PagesTyped
<1>4. ForestOK'
    BY <1>1, <1>2 DEF ForestOK, ChildrenOf, PagesTyped
<1> QED
    BY <1>1, <1>3, <1>4 DEF WalkOK, PagesTyped, HeapTyped

\* PageArena.retain keeps the invariant.
LEMMA RetainInv ==
    ASSUME Inv, NEW p \in Pages, Retain(p)
    PROVE  Inv'
<1> USE DEF Inv, TypeOK
<1>1. /\ op = Idle /\ owners[p] > 0
      /\ owners' = [owners EXCEPT ![p] = @ + 1] /\ refs' = [refs EXCEPT ![p] = @ + 1]
      /\ UNCHANGED <<byKey, key, parent, children, heldBelow, stamp, leaves, clock>>
    BY DEF Retain, heapVars
<1>2. ForestOK' /\ HeapTyped'
    <2>1. \A q \in Pages : owners'[q] = refs'[q] + (IF key[q] # None THEN 1 ELSE 0)
        BY <1>1 DEF ForestOK, PagesTyped
    <2> QED
        BY <1>1, <2>1, ForestSame DEF HeapTyped
<1>3. \A q \in Pages \ {p} : Busy(q)' = Busy(q)
    BY <1>1 DEF Busy, PagesTyped
<1>4. CASE owners[p] + 1 = 2 /\ key[p] # None /\ heldBelow[p] = 0
    <2>1. evictable' = evictable \ {p} /\ op' = Pinning(parent[p])
        BY <1>4 DEF Retain, SetShared
    <2>2. ~Busy(p) /\ Busy(p)'
        BY <1>1, <1>4 DEF Busy, PagesTyped
    <2>3. EvictableLocal' /\ OpTyped' /\ op'.at # "evict"
          /\ (op'.at \in {"pin", "unpin"} => key'[op'.page] # None)
        BY <1>1, <1>3, <1>4, <2>1, <2>2, IdleFacts, Gains
    <2> QED
        BY <1>1, <1>2, <2>1, <2>3 DEF WalkOK, PagesTyped
<1>5. CASE ~(owners[p] + 1 = 2 /\ key[p] # None /\ heldBelow[p] = 0)
    <2>1. UNCHANGED evictable /\ op' = Idle
        BY <1>5 DEF Retain, Ignored
    <2>2. key[p] # None => Busy(p)' = Busy(p)
        BY <1>1, <1>5 DEF Busy, PagesTyped
    <2>3. EvictableLocal' /\ OpTyped' /\ op'.at = "idle"
        BY <1>1, <1>3, <2>1, <2>2, IdleFacts, Keeps
    <2> QED
        BY <1>1, <1>2, <2>1, <2>3 DEF WalkOK, PagesTyped
<1> QED
    BY <1>4, <1>5

\* PageArena.release keeps the invariant: an indexed page a caller holds has two owners.
LEMMA ReleaseInv ==
    ASSUME Inv, NEW p \in Pages, Release(p)
    PROVE  Inv'
<1> USE DEF Inv, TypeOK
<1>1. /\ op = Idle /\ refs[p] > 0
      /\ owners' = [owners EXCEPT ![p] = @ - 1] /\ refs' = [refs EXCEPT ![p] = @ - 1]
      /\ UNCHANGED <<byKey, key, parent, children, heldBelow, stamp, leaves, clock>>
    BY DEF Release, heapVars
<1>2. owners[p] >= 1 /\ (key[p] # None => owners[p] >= 2)
    BY <1>1 DEF ForestOK, PagesTyped
<1>3. ForestOK' /\ HeapTyped'
    <2>1. \A q \in Pages : owners'[q] = refs'[q] + (IF key[q] # None THEN 1 ELSE 0)
        BY <1>1 DEF ForestOK, PagesTyped
    <2> QED
        BY <1>1, <2>1, ForestSame DEF HeapTyped
<1>4. owners' \in [Pages -> Nat] /\ refs' \in [Pages -> Nat]
    BY <1>1, <1>2 DEF PagesTyped
<1>5. \A q \in Pages \ {p} : Busy(q)' = Busy(q)
    BY <1>1 DEF Busy, PagesTyped
<1>6. CASE owners[p] - 1 = 1 /\ key[p] # None /\ heldBelow[p] = 0
    <2>1. evictable' = evictable \cup {p} /\ op' = Unpinning(parent[p])
        BY <1>6 DEF Release, SetShared
    <2>2. Busy(p) /\ ~Busy(p)'
        BY <1>1, <1>6 DEF Busy, PagesTyped
    <2>3. EvictableLocal' /\ OpTyped' /\ op'.at # "evict"
          /\ (op'.at \in {"pin", "unpin"} => key'[op'.page] # None)
        BY <1>1, <1>5, <1>6, <2>1, <2>2, IdleFacts, Loses
    <2> QED
        BY <1>1, <1>3, <1>4, <2>1, <2>3 DEF WalkOK, PagesTyped
<1>7. CASE ~(owners[p] - 1 = 1 /\ key[p] # None /\ heldBelow[p] = 0)
    <2>1. UNCHANGED evictable /\ op' = Idle
        BY <1>7 DEF Release, Ignored
    <2>2. key[p] # None => Busy(p)' = Busy(p)
        BY <1>1, <1>2, <1>7 DEF Busy, PagesTyped
    <2>3. EvictableLocal' /\ OpTyped' /\ op'.at = "idle"
        BY <1>1, <1>5, <2>1, <2>2, IdleFacts, Keeps
    <2> QED
        BY <1>1, <1>3, <1>4, <2>1, <2>3 DEF WalkOK, PagesTyped
<1> QED
    BY <1>6, <1>7

\* PrefixIndex.insert keeps the invariant: a page not indexed has no children, and its new
\* parent is indexed, so the walk up that insert starts stands at an indexed page.
LEMMA InsertInv ==
    ASSUME Inv, NEW k \in Keys, NEW p \in Pages, Insert(k, p)
    PROVE  Inv'
<1> USE DEF Inv, TypeOK
<1>0. PICK par : par = ParentFor(k)
    OBVIOUS
<1>1. /\ op = Idle /\ clock < MaxClock
      /\ byKey[k] = None /\ key[p] = None /\ refs[p] > 0
      /\ byKey' = [byKey EXCEPT ![k] = p]
      /\ key' = [key EXCEPT ![p] = k]
      /\ parent' = [parent EXCEPT ![p] = par]
      /\ children' = [q \in Pages |-> IF q = p THEN 0
                                      ELSE IF q = par THEN children[q] + 1 ELSE children[q]]
      /\ heldBelow' = [heldBelow EXCEPT ![p] = 0]
      /\ owners' = [owners EXCEPT ![p] = @ + 1]
      /\ evictable' = evictable \ {p} /\ op' = Pinning(par)
      /\ clock' = clock + 1
      /\ stamp' = [stamp EXCEPT ![p] = clock + 1]
      /\ leaves' = leaves (+) SetToBag({<<clock + 1, p>>})
      /\ refs' = refs
    BY <1>0 DEF Insert, SetShared
<1>2. /\ par \in Pages \cup {None} /\ par # p
      /\ par # None => key[par] # None
    BY ZenonT(60), <1>0, <1>1, PrefixIndexAssumption DEF ParentFor, PagesTyped, ForestOK
<1>3. /\ parent[p] = None /\ \A c \in Pages : parent[c] # p
      /\ owners[p] = refs[p]
    BY <1>1, PrefixIndexAssumption DEF ForestOK, PagesTyped
<1>4. ChildrenOf(p) = {} /\ BusyChildren(p) = {} /\ heldBelow[p] = 0 /\ heldBelow' = heldBelow
    <2>1. ChildrenOf(p) = {} /\ BusyChildren(p) = {}
        BY <1>3 DEF ChildrenOf, BusyChildren
    <2>2. heldBelow[p] = 0
        BY <1>1, <2>1, IdleFacts, FS_EmptySet
    <2> QED
        BY <1>1, <2>1, <2>2 DEF PagesTyped
<1>5. PagesTyped'
    BY <1>1, <1>2, <1>4 DEF PagesTyped
<1>6. HeapTyped'
    <2>1. <<clock + 1, p>> \in Entries /\ clock + 1 \in 0..MaxClock
        BY <1>1, PrefixIndexAssumption DEF HeapTyped, Entries
    <2>2. IsBagOf(leaves', Entries)
        BY <1>1, <2>1, BagOfOne, BagSum DEF HeapTyped
    <2> QED
        BY <1>1, <2>1, <2>2 DEF HeapTyped
<1>7. /\ OpTyped'
      /\ op'.at \in {"idle", "pin"} /\ (op'.at = "pin" => op'.page = par /\ par # None)
      /\ \A q \in Pages : Untold(q)' = IF q = par THEN 1 ELSE 0
    <2>1. PICK u \in Pages \cup {None} : u = par
        BY <1>2
    <2> QED
        BY <1>1, <2>1, PinningNext
<1>8. \A q \in Pages : ChildrenOf(q)' = IF q = par THEN ChildrenOf(q) \cup {p} ELSE ChildrenOf(q)
    BY <1>1, <1>2, <1>3, PrefixIndexAssumption DEF ChildrenOf, PagesTyped
<1>9. \A q \in Pages : p \notin ChildrenOf(q)
    BY <1>3, PrefixIndexAssumption DEF ChildrenOf
<1>10. ForestOK'
    <2>1. \A j \in Keys : byKey'[j] # None => key'[byKey'[j]] = j
        <3> TAKE j \in Keys
        <3>1. byKey[j] # p /\ byKey[j] \in Pages \cup {None}
            BY <1>1, PrefixIndexAssumption DEF ForestOK, PagesTyped
        <3> QED
            BY <1>1, <3>1 DEF ForestOK, PagesTyped
    <2>2. \A q \in Pages : key'[q] # None => byKey'[key'[q]] = q
        BY <1>1, PrefixIndexAssumption DEF ForestOK, PagesTyped
    <2>3. \A q \in Pages : owners'[q] = refs'[q] + (IF key'[q] # None THEN 1 ELSE 0)
        BY <1>1, PrefixIndexAssumption DEF ForestOK, PagesTyped
    <2>4. \A q \in Pages : parent'[q] # None => key'[q] # None /\ key'[parent'[q]] # None
        BY <1>1, <1>2, PrefixIndexAssumption DEF ForestOK, PagesTyped
    <2>5. \A q \in Pages : children'[q] = Cardinality(ChildrenOf(q))'
        <3> TAKE q \in Pages
        <3>1. IsFiniteSet(ChildrenOf(q)) /\ Cardinality(ChildrenOf(q)) = children[q]
            BY Finite DEF ForestOK
        <3>2. Cardinality(ChildrenOf(q) \cup {p}) = children[q] + 1
            BY <1>9, <3>1, FS_AddElement
        <3>3. q = p => children[q] = 0
            BY <1>4, <3>1, FS_EmptySet
        <3> QED
            BY <1>1, <1>2, <1>8, <3>1, <3>2, <3>3
    <2> QED
        BY <2>1, <2>2, <2>3, <2>4, <2>5 DEF ForestOK
<1>11. EvictableLocal'
    <2>1. Busy(p)' /\ \A q \in Pages \ {p} : Busy(q)' = Busy(q)
        BY <1>1, <1>3, <1>4 DEF Busy, PagesTyped
    <2>2. evictable' = {q \in Indexed : ~Busy(q)}'
        BY <1>1, <2>1, PrefixIndexAssumption DEF EvictableLocal, Indexed, PagesTyped
    <2>3. \A q \in Pages : Cardinality(BusyChildren(q))' = heldBelow'[q] + Untold(q)'
        <3> TAKE q \in Pages
        <3>1. BusyChildren(q)' = IF q = par THEN BusyChildren(q) \cup {p} ELSE BusyChildren(q)
            BY <1>8, <1>9, <2>1 DEF BusyChildren, ChildrenOf
        <3>2. p \notin BusyChildren(q) /\ IsFiniteSet(BusyChildren(q))
            BY <1>9, Finite DEF BusyChildren
        <3>3. Cardinality(BusyChildren(q) \cup {p}) = Cardinality(BusyChildren(q)) + 1
            BY <3>2, FS_AddElement
        <3>4. Cardinality(BusyChildren(q)) = heldBelow[q] /\ heldBelow[q] \in Nat
            BY <1>1, IdleFacts
        <3> QED
            BY <1>4, <1>7, <3>1, <3>3, <3>4
    <2> QED
        BY <2>2, <2>3 DEF EvictableLocal
<1>12. WalkOK'
    <2>1. \A q \in Pages : parent'[q] # q
        BY <1>1, <1>2 DEF WalkOK, PagesTyped
    <2>2. op'.at \in {"pin", "unpin"} => key'[op'.page] # None
        BY <1>1, <1>2, <1>7, PrefixIndexAssumption DEF PagesTyped
    <2> QED
        BY <1>7, <2>1, <2>2 DEF WalkOK
<1> QED
    BY <1>5, <1>6, <1>7, <1>10, <1>11, <1>12

\* PrefixIndex._remove of an indexed leaf that no caller holds keeps every part of the
\* invariant that is about pages, and makes no leaf a parent.
LEMMA RemovePage ==
    ASSUME Inv, NEW p \in Pages, NEW heap, IsBagOf(heap, Entries), Remove(p, heap),
           key[p] # None, children[p] = 0, owners[p] <= 1,
           OpTyped', op.at \notin {"pin", "unpin"}, op'.at \notin {"pin", "unpin"}
    PROVE  /\ PagesTyped' /\ HeapTyped' /\ ForestOK' /\ EvictableLocal'
           /\ \A q \in Pages : parent'[q] # q /\ (children[q] = 0 => children'[q] = 0)
<1> USE DEF Inv, TypeOK
<1>0. PICK par : par = parent[p]
    OBVIOUS
<1>1. /\ evictable' = evictable \ {p}
      /\ byKey' = [byKey EXCEPT ![key[p]] = None]
      /\ key' = [key EXCEPT ![p] = None]
      /\ parent' = [parent EXCEPT ![p] = None]
      /\ owners' = [owners EXCEPT ![p] = @ - 1]
      /\ children' = [q \in Pages |-> IF q = par THEN children[q] - 1 ELSE children[q]]
      /\ leaves' \in {heap, heap (+) SetToBag({Entry(par)})}
      /\ par = None => leaves' = heap
      /\ UNCHANGED <<refs, heldBelow, stamp, clock>>
    BY <1>0 DEF Remove
<1>2. key[p] \in Keys /\ par \in Pages \cup {None} /\ par # p
    BY <1>0 DEF PagesTyped, WalkOK
<1>3. owners[p] = 1 /\ refs[p] = 0
    BY DEF ForestOK, PagesTyped
<1>4. /\ ChildrenOf(p) = {} /\ BusyChildren(p) = {} /\ heldBelow[p] = 0 /\ ~Busy(p)
      /\ \A c \in Pages : parent[c] # p
    <2>1. ChildrenOf(p) = {}
        BY Finite, FS_EmptySet DEF ForestOK
    <2>2. BusyChildren(p) = {}
        BY <2>1 DEF BusyChildren
    <2>3. heldBelow[p] = 0
        <3>1. Untold(p) = 0
            BY UntoldCases
        <3>2. Cardinality(BusyChildren(p)) = 0
            BY <2>2, FS_EmptySet
        <3> QED
            BY <3>1, <3>2 DEF EvictableLocal, PagesTyped
    <2> QED
        BY <1>3, <2>1, <2>2, <2>3 DEF Busy, ChildrenOf
<1>5. \A q \in Pages : ChildrenOf(q)' = IF q = par THEN ChildrenOf(q) \ {p} ELSE ChildrenOf(q)
    BY <1>0, <1>1, <1>2, PrefixIndexAssumption DEF ChildrenOf, PagesTyped
<1>6. \A q \in Pages : q = par => p \in ChildrenOf(q)
    BY <1>0 DEF ChildrenOf
<1>7. \A q \in Pages : children'[q] = Cardinality(ChildrenOf(q))' /\ children'[q] \in Nat
    <2> TAKE q \in Pages
    <2>1. /\ IsFiniteSet(ChildrenOf(q)) /\ Cardinality(ChildrenOf(q)) = children[q]
          /\ children[q] \in Nat
        BY Finite DEF ForestOK
    <2>2. q = par => Cardinality(ChildrenOf(q) \ {p}) = children[q] - 1 /\ IsFiniteSet(ChildrenOf(q) \ {p})
        BY <1>6, <2>1, FS_RemoveElement
    <2>3. q = par => children[q] - 1 \in Nat
        BY <2>2, FS_CardinalityType
    <2> QED
        BY <1>1, <1>5, <2>1, <2>2, <2>3
<1>8. PagesTyped'
    <2>1. owners' \in [Pages -> Nat]
        BY <1>1, <1>3 DEF PagesTyped
    <2>2. children' \in [Pages -> Nat]
        BY <1>1, <1>7
    <2>3. /\ byKey' \in [Keys -> Pages \cup {None}] /\ key' \in [Pages -> Keys \cup {None}]
          /\ parent' \in [Pages -> Pages \cup {None}] /\ evictable' \subseteq Pages
        BY <1>1, <1>2 DEF PagesTyped
    <2> QED
        BY <1>1, <2>1, <2>2, <2>3 DEF PagesTyped
<1>9. HeapTyped'
    <2>1. par # None => Entry(par) \in Entries
        BY <1>2 DEF HeapTyped, Entry, Entries
    <2>2. par # None => IsBagOf(heap (+) SetToBag({Entry(par)}), Entries)
        BY <2>1, BagOfOne, BagSum
    <2> QED
        BY <1>1, <2>2 DEF HeapTyped
<1>10. ForestOK'
    <2>1. \A j \in Keys : byKey'[j] # None => key'[byKey'[j]] = j
        BY <1>1, <1>2 DEF ForestOK, PagesTyped
    <2>2. \A q \in Pages : key'[q] # None => byKey'[key'[q]] = q
        BY <1>1, <1>2 DEF ForestOK, PagesTyped
    <2>3. \A q \in Pages : owners'[q] = refs'[q] + (IF key'[q] # None THEN 1 ELSE 0)
        BY <1>1, <1>3 DEF ForestOK, PagesTyped
    <2>4. \A q \in Pages : parent'[q] # None => key'[q] # None /\ key'[parent'[q]] # None
        BY <1>1, <1>4 DEF ForestOK, PagesTyped
    <2> QED
        BY <1>7, <2>1, <2>2, <2>3, <2>4 DEF ForestOK
<1>11. EvictableLocal'
    <2>1. ~Busy(p)' /\ \A q \in Pages \ {p} : Busy(q)' = Busy(q)
        BY <1>1, <1>3, <1>4 DEF Busy, PagesTyped
    <2>2. evictable' = {q \in Indexed : ~Busy(q)}'
        BY <1>1, <2>1 DEF EvictableLocal, Indexed, PagesTyped
    <2>3. \A q \in Pages : BusyChildren(q)' = BusyChildren(q)
        BY <1>4, <1>5, <2>1 DEF BusyChildren, ChildrenOf
    <2>4. \A q \in Pages : Untold(q) = 0 /\ Untold(q)' = 0
        BY UntoldCases DEF Untold
    <2> QED
        BY <1>1, <2>2, <2>3, <2>4 DEF EvictableLocal
<1>12. \A q \in Pages : parent'[q] # q /\ (children[q] = 0 => children'[q] = 0)
    BY <1>1, <1>2, <1>7, PrefixIndexAssumption DEF WalkOK, PagesTyped
<1> QED
    BY <1>8, <1>9, <1>10, <1>11, <1>12

-----------------------------------------------------------------------------

\* An entry that heappop returns names a page, and what is left is a heap of entries.
LEMMA OldestIn ==
    ASSUME NEW B, IsBagOf(B, Entries), NEW e \in Oldest(B)
    PROVE  /\ e \in BagToSet(B) /\ e \in Entries /\ e[2] \in Pages /\ e = <<e[1], e[2]>>
           /\ IsBagOf(SetToBag({e}), Entries)
           /\ IsBagOf(B (-) SetToBag({e}), Entries)
           /\ BagToSet(B (-) SetToBag({e})) \subseteq BagToSet(B)
<1>1. e \in BagToSet(B) /\ e \in Entries
    BY DEF Oldest, BagToSet, IsBagOf
<1>2. e[2] \in Pages /\ e = <<e[1], e[2]>>
    BY <1>1 DEF Entries
<1>3. IsBagOf(SetToBag({e}), Entries)
    BY <1>1, BagOfOne
<1>4. IsBagOf(B (-) SetToBag({e}), Entries)
    BY <1>3, BagDifference
<1>5. BagToSet(B (-) SetToBag({e})) \subseteq BagToSet(B)
    BY DEF BagToSet, (-)
<1> QED
    BY <1>1, <1>2, <1>3, <1>4, <1>5

\* What an entry list holds after an append.
LEMMA SumMembers ==
    ASSUME NEW B, NEW e, NEW f \in BagToSet(B (+) SetToBag({e}))
    PROVE  f \in BagToSet(B) \/ f = e
BY DEF BagToSet, (+), SetToBag

\* A turn of evict's loop leaves a call of evict in progress.
LEMMA EvictingNext ==
    ASSUME OpTyped, op.at = "evict", NEW n \in Nat, NEW passed, NEW spared,
           IsBagOf(passed, Entries), IsBagOf(spared, Entries),
           op' = Evicting(n, op.spare, passed, spared)
    PROVE  OpTyped' /\ op'.at = "evict" /\ op'.spared = spared
BY OpCases DEF OpTyped, Evicting

\* A step that leaves pages alone, outside a walk up, keeps the invariant.
LEMMA PagesSame ==
    ASSUME Inv, UNCHANGED pageVars, HeapTyped', OpTyped',
           op.at \notin {"pin", "unpin"}, op'.at \notin {"pin", "unpin"},
           op'.at = "evict" => \A e \in BagToSet(op'.spared) : children[e[2]] = 0
    PROVE  Inv'
<1> USE DEF Inv, TypeOK, pageVars
<1>1. PagesTyped' /\ ForestOK'
    BY DEF PagesTyped, ForestOK, ChildrenOf
<1>2. \A q \in Pages : Untold(q) = 0 /\ Untold(q)' = 0
    BY UntoldCases DEF Untold
<1>3. \A q \in Pages : BusyChildren(q)' = BusyChildren(q)
    BY DEF BusyChildren, ChildrenOf, Busy
<1>4. EvictableLocal'
    BY <1>2, <1>3 DEF EvictableLocal, Indexed, Busy
<1>5. WalkOK'
    BY DEF WalkOK
<1> QED
    BY <1>1, <1>4, <1>5

\* PrefixIndex.touch keeps the invariant.
LEMMA TouchInv ==
    ASSUME Inv, NEW run, Touch(run)
    PROVE  Inv'
<1> USE DEF Inv, TypeOK
<1>1. HeapTyped'
    BY PrefixIndexAssumption DEF Touch, HeapTyped
<1>2. OpTyped' /\ op = Idle /\ op' = Idle /\ UNCHANGED pageVars
    BY DEF Touch, OpTyped
<1> QED
    BY <1>1, <1>2, PagesSame DEF Idle

\* The start of PrefixIndex.evict keeps the invariant.
LEMMA EvictInv ==
    ASSUME Inv, NEW n \in Nat, NEW sp, sp \subseteq Keys, Evict(n, sp)
    PROVE  Inv'
<1> USE DEF Inv, TypeOK
<1>1. HeapTyped' /\ UNCHANGED pageVars /\ op = Idle /\ op' = Evicting(n, sp, EmptyBag, EmptyBag)
    BY DEF Evict, HeapTyped, heapVars
<1>2. OpTyped' /\ op'.at = "evict" /\ op'.spared = EmptyBag
    BY <1>1, BagOfNone DEF OpTyped, Evicting
<1>3. BagToSet(EmptyBag) = {}
    BY DEF BagToSet, EmptyBag, SetToBag
<1> QED
    BY <1>1, <1>2, <1>3, PagesSame DEF Idle

\* A turn of _pop_leaf keeps the invariant.
LEMMA PopLeafInv ==
    ASSUME Inv, PopLeaf
    PROVE  Inv'
<1> USE DEF Inv, TypeOK
<1>1. /\ UNCHANGED pageVars /\ UNCHANGED <<stamp, clock, op>> /\ op.at = "evict"
      /\ OpTyped'
    BY DEF PopLeaf, OpTyped
<1>2. PICK e \in Oldest(leaves) :
         \/ leaves' = leaves (-) SetToBag({e})
         \/ leaves' = (leaves (-) SetToBag({e})) (+) SetToBag({Entry(e[2])})
    BY DEF PopLeaf
<1>3. e[2] \in Pages /\ IsBagOf(leaves (-) SetToBag({e}), Entries)
    BY OldestIn DEF HeapTyped
<1>4. IsBagOf(SetToBag({Entry(e[2])}), Entries)
    BY <1>3, BagOfOne DEF Entry, Entries, HeapTyped
<1>5. IsBagOf((leaves (-) SetToBag({e})) (+) SetToBag({Entry(e[2])}), Entries)
    BY <1>3, <1>4, BagSum
<1>6. HeapTyped'
    BY <1>1, <1>2, <1>3, <1>5 DEF HeapTyped
<1> QED
    BY <1>1, <1>6, PagesSame DEF WalkOK

\* A turn of evict on the oldest leaf keeps the invariant: what it passes, spares or drops.
LEMMA EvictLeafInv ==
    ASSUME Inv, EvictLeaf
    PROVE  Inv'
<1> USE DEF Inv, TypeOK
<1>1. op.at = "evict" /\ op.n \in Nat /\ op.n > 0
      /\ IsBagOf(op.passed, Entries) /\ IsBagOf(op.spared, Entries)
      /\ op = Evicting(op.n, op.spare, op.passed, op.spared)
    BY OpCases DEF EvictLeaf, OpTyped, Idle
<1>2. PICK e \in Oldest(leaves), p \in Pages : \E rest :
         /\ p = e[2] /\ rest = leaves (-) SetToBag({e})
         /\ ~Stale(e)
         /\ \/ /\ op' = [op EXCEPT !.passed = @ (+) SetToBag({e})]
               /\ leaves' = rest
               /\ UNCHANGED <<pageVars, stamp, clock>>
            \/ /\ op' = [op EXCEPT !.spared = @ (+) SetToBag({e})]
               /\ leaves' = rest
               /\ UNCHANGED <<pageVars, stamp, clock>>
            \/ /\ owners[p] <= 1
               /\ Remove(p, rest)
               /\ op' = [op EXCEPT !.n = @ - 1]
    BY OldestIn DEF EvictLeaf, HeapTyped
<1> PICK rest : rest = leaves (-) SetToBag({e})
    OBVIOUS
<1>3. IsBagOf(SetToBag({e}), Entries) /\ IsBagOf(rest, Entries)
    BY <1>2, OldestIn DEF HeapTyped
<1>4. key[p] # None /\ children[p] = 0
    BY <1>2 DEF Stale
<1>5. CASE /\ op' = [op EXCEPT !.passed = @ (+) SetToBag({e})]
           /\ leaves' = rest /\ UNCHANGED <<pageVars, stamp, clock>>
    <2>1. op' = Evicting(op.n, op.spare, op.passed (+) SetToBag({e}), op.spared)
        BY <1>1, <1>5 DEF Evicting
    <2>2. OpTyped' /\ op'.at = "evict" /\ op'.spared = op.spared
        BY <1>1, <1>3, <2>1, BagSum, EvictingNext
    <2>3. HeapTyped'
        BY <1>3, <1>5 DEF HeapTyped
    <2> QED
        BY <1>1, <1>5, <2>2, <2>3, PagesSame DEF WalkOK
<1>6. CASE /\ op' = [op EXCEPT !.spared = @ (+) SetToBag({e})]
           /\ leaves' = rest /\ UNCHANGED <<pageVars, stamp, clock>>
    <2>1. op' = Evicting(op.n, op.spare, op.passed, op.spared (+) SetToBag({e}))
        BY <1>1, <1>6 DEF Evicting
    <2>2. OpTyped' /\ op'.at = "evict" /\ op'.spared = op.spared (+) SetToBag({e})
        BY <1>1, <1>3, <2>1, BagSum, EvictingNext
    <2>3. HeapTyped'
        BY <1>3, <1>6 DEF HeapTyped
    <2>4. \A f \in BagToSet(op'.spared) : children[f[2]] = 0
        BY <1>1, <1>2, <1>4, <2>2, SumMembers DEF WalkOK
    <2> QED
        BY <1>1, <1>6, <2>2, <2>3, <2>4, PagesSame
<1>7. CASE owners[p] <= 1 /\ Remove(p, rest) /\ op' = [op EXCEPT !.n = @ - 1]
    <2>1. op' = Evicting(op.n - 1, op.spare, op.passed, op.spared) /\ op.n - 1 \in Nat
        BY <1>1, <1>7 DEF Evicting
    <2>2. OpTyped' /\ op'.at = "evict" /\ op'.spared = op.spared
        BY <1>1, <2>1, EvictingNext
    <2>3. /\ PagesTyped' /\ HeapTyped' /\ ForestOK' /\ EvictableLocal'
          /\ \A q \in Pages : parent'[q] # q /\ (children[q] = 0 => children'[q] = 0)
        BY <1>1, <1>3, <1>4, <1>7, <2>2, RemovePage
    <2>4. \A f \in BagToSet(op.spared) : f[2] \in Pages /\ children[f[2]] = 0
        BY <1>1 DEF WalkOK, IsBagOf, BagToSet, Entries
    <2> QED
        BY <2>2, <2>3, <2>4 DEF WalkOK
<1> QED
    BY <1>2, <1>5, <1>6, <1>7

\* A turn of evict on the oldest spared entry keeps the invariant: a spared page is still a
\* leaf, since dropping other leaves gives it no child.
LEMMA EvictSparedInv ==
    ASSUME Inv, EvictSpared
    PROVE  Inv'
<1> USE DEF Inv, TypeOK
<1>1. op.at = "evict" /\ op.n \in Nat /\ op.n > 0
      /\ IsBagOf(op.passed, Entries) /\ IsBagOf(op.spared, Entries)
      /\ op = Evicting(op.n, op.spare, op.passed, op.spared)
    BY OpCases DEF EvictSpared, OpTyped, Idle
<1>2. PICK e \in Oldest(op.spared), p \in Pages : \E rest :
         /\ p = e[2] /\ rest = op.spared (-) SetToBag({e})
         /\ \/ /\ op' = [op EXCEPT !.spared = rest, !.passed = @ (+) SetToBag({e})]
               /\ UNCHANGED <<pageVars, heapVars>>
            \/ /\ owners[p] <= 1 /\ key[p] # None
               /\ Remove(p, leaves)
               /\ op' = [op EXCEPT !.spared = rest, !.n = @ - 1]
    BY <1>1, OldestIn DEF EvictSpared
<1> PICK rest : rest = op.spared (-) SetToBag({e})
    OBVIOUS
<1>3. /\ IsBagOf(SetToBag({e}), Entries) /\ IsBagOf(rest, Entries)
      /\ \A f \in BagToSet(rest) : f[2] \in Pages /\ children[f[2]] = 0
      /\ children[p] = 0
    <2>1. /\ e \in BagToSet(op.spared) /\ IsBagOf(SetToBag({e}), Entries)
          /\ IsBagOf(rest, Entries) /\ BagToSet(rest) \subseteq BagToSet(op.spared)
        BY <1>1, <1>2, OldestIn
    <2>2. \A f \in BagToSet(op.spared) : f[2] \in Pages /\ children[f[2]] = 0
        BY <1>1 DEF WalkOK, IsBagOf, BagToSet, Entries
    <2> QED
        BY <1>2, <2>1, <2>2
<1>4. CASE /\ op' = [op EXCEPT !.spared = rest, !.passed = @ (+) SetToBag({e})]
           /\ UNCHANGED <<pageVars, heapVars>>
    <2>1. op' = Evicting(op.n, op.spare, op.passed (+) SetToBag({e}), rest)
        BY <1>1, <1>4 DEF Evicting
    <2>2. OpTyped' /\ op'.at = "evict" /\ op'.spared = rest
        BY <1>1, <1>3, <2>1, BagSum, EvictingNext
    <2>3. HeapTyped'
        BY <1>4 DEF HeapTyped, heapVars
    <2> QED
        BY <1>1, <1>3, <1>4, <2>2, <2>3, PagesSame
<1>5. CASE /\ owners[p] <= 1 /\ key[p] # None /\ Remove(p, leaves)
           /\ op' = [op EXCEPT !.spared = rest, !.n = @ - 1]
    <2>0. op.n - 1 \in Nat
        BY <1>1
    <2>1. op' = Evicting(op.n - 1, op.spare, op.passed, rest)
        BY <1>1, <1>5 DEF Evicting
    <2>2. OpTyped' /\ op'.at = "evict" /\ op'.spared = rest
        BY <1>1, <1>3, <2>0, <2>1, EvictingNext
    <2>3. IsBagOf(leaves, Entries)
        BY DEF HeapTyped
    <2>4. /\ PagesTyped' /\ HeapTyped' /\ ForestOK' /\ EvictableLocal'
          /\ \A q \in Pages : parent'[q] # q /\ (children[q] = 0 => children'[q] = 0)
        BY <1>1, <1>3, <1>5, <2>2, <2>3, RemovePage
    <2> QED
        BY <1>3, <2>2, <2>4 DEF WalkOK
<1> QED
    BY <1>2, <1>4, <1>5

\* The end of evict, which puts back what it passed, keeps the invariant.
LEMMA EvictEndInv ==
    ASSUME Inv, EvictEnd
    PROVE  Inv'
<1> USE DEF Inv, TypeOK
<1>1. /\ op.at = "evict" /\ op' = Idle /\ UNCHANGED <<pageVars, stamp, clock>>
      /\ leaves' = leaves (+) op.passed (+) op.spared
      /\ IsBagOf(op.passed, Entries) /\ IsBagOf(op.spared, Entries)
    BY OpCases DEF EvictEnd
<1>2. IsBagOf(leaves', Entries)
    BY <1>1, BagSum DEF HeapTyped
<1>3. HeapTyped' /\ OpTyped'
    BY <1>1, <1>2, IdleNext DEF HeapTyped
<1> QED
    BY <1>1, <1>3, IdleNext, PagesSame

\* PrefixIndex.drop of one entry keeps the invariant.
LEMMA DropInv ==
    ASSUME Inv, NEW k \in Keys, Drop(k)
    PROVE  Inv'
<1> USE DEF Inv, TypeOK
<1>1. PICK p \in Pages : /\ p = byKey[k] /\ key[p] # None /\ children[p] = 0 /\ owners[p] = 1
                         /\ Remove(p, leaves) /\ op = Idle /\ op' = op
    BY PrefixIndexAssumption DEF Drop, PagesTyped, ForestOK
<1>2. OpTyped' /\ op.at = "idle" /\ op'.at = "idle" /\ IsBagOf(leaves, Entries)
    BY <1>1 DEF OpTyped, HeapTyped, Idle
<1>3. /\ PagesTyped' /\ HeapTyped' /\ ForestOK' /\ EvictableLocal'
      /\ \A q \in Pages : parent'[q] # q
    BY <1>1, <1>2, RemovePage
<1> QED
    BY <1>2, <1>3 DEF WalkOK

-----------------------------------------------------------------------------

\* The invariant holds of an empty index.
LEMMA InitInv ==
    Init => Inv
<1> SUFFICES ASSUME Init PROVE Inv
    OBVIOUS
<1> USE DEF Init
<1>1. TypeOK
    <2>1. PagesTyped
        BY DEF PagesTyped
    <2>2. HeapTyped
        BY BagOfNone, PrefixIndexAssumption DEF HeapTyped
    <2> QED
        BY <2>1, <2>2 DEF TypeOK, OpTyped
<1>2. \A p \in Pages : ChildrenOf(p) = {} /\ BusyChildren(p) = {} /\ Cardinality({}) = 0
    BY PrefixIndexAssumption, FS_EmptySet DEF ChildrenOf, BusyChildren
<1>3. ForestOK
    BY <1>2 DEF ForestOK
<1>4. EvictableLocal
    <2>1. \A p \in Pages : Untold(p) = 0
        BY DEF Untold, Idle
    <2> QED
        BY <1>2, <2>1 DEF EvictableLocal, Indexed
<1>5. WalkOK
    BY PrefixIndexAssumption DEF WalkOK, Idle
<1> QED
    BY <1>1, <1>3, <1>4, <1>5 DEF Inv

\* A step that changes nothing keeps the invariant.
LEMMA StutterInv ==
    ASSUME Inv, UNCHANGED vars
    PROVE  Inv'
BY DEF vars, pageVars, heapVars, Inv, TypeOK, PagesTyped, HeapTyped, OpTyped, ForestOK,
       EvictableLocal, WalkOK, Indexed, Busy, BusyChildren, ChildrenOf, Untold

\* Every step of every call keeps the invariant.
LEMMA NextInv ==
    ASSUME Inv, [Next]_vars
    PROVE  Inv'
<1>1. CASE PinAbove \/ UnpinAbove
    BY <1>1, PinAboveInv, UnpinAboveInv
<1>2. CASE EvictLoop
    BY <1>2, PopLeafInv, EvictLeafInv, EvictSparedInv, EvictEndInv DEF EvictLoop
<1>3. CASE \E p \in Pages : Acquire(p) \/ Retain(p) \/ Release(p)
    BY <1>3, AcquireInv, RetainInv, ReleaseInv
<1>4. CASE \E k \in Keys, p \in Pages : Insert(k, p)
    BY <1>4, InsertInv
<1>5. CASE \E k \in Keys : Lookup(k) \/ Drop(k)
    BY <1>5, TouchInv, DropInv DEF Lookup
<1>6. CASE \E n \in 1..Cardinality(Pages), sp \in SUBSET {key[p] : p \in Indexed} : Evict(n, sp)
    <2>1. PICK n \in 1..Cardinality(Pages), sp \in SUBSET {key[p] : p \in Indexed} : Evict(n, sp)
        BY <1>6
    <2>2. n \in Nat
        BY FS_CardinalityType, PrefixIndexAssumption
    <2>3. sp \subseteq Keys
        BY DEF Indexed, Inv, TypeOK, PagesTyped
    <2> QED
        BY <2>1, <2>2, <2>3, EvictInv
<1>7. CASE UNCHANGED vars
    BY <1>7, StutterInv
<1> QED
    BY <1>1, <1>2, <1>3, <1>4, <1>5, <1>6, <1>7 DEF Next, Climb

(***************************************************************************)
(* Every reachable state of the index, at every step of every call,        *)
(* satisfies the inductive invariant.                                      *)
(***************************************************************************)
THEOREM IndexInvariant == Spec => []Inv
<1>1. Init => Inv
    BY InitInv
<1>2. Inv /\ [Next]_vars => Inv'
    BY NextInv
<1> QED
    BY <1>1, <1>2, PTL DEF Spec

(***************************************************************************)
(* The index is typed: no owner count, children count or held_below count  *)
(* (kv/arena.py, kv/prefix_index.py) ever goes below zero.                 *)
(***************************************************************************)
THEOREM IndexTyped == Spec => []TypeOK
<1>1. Inv => TypeOK
    BY DEF Inv
<1> QED
    BY <1>1, IndexInvariant, PTL

(***************************************************************************)
(* The entries are a forest whose parts agree: _by_key and _key are each   *)
(* other's inverse, the owners of a page are its callers and the index, a  *)
(* parent is indexed as long as a child is, and _children counts them.     *)
(***************************************************************************)
THEOREM IndexForest == Spec => []ForestOK
<1>1. Inv => ForestOK
    BY DEF Inv
<1> QED
    BY <1>1, IndexInvariant, PTL

(***************************************************************************)
(* The incremental evictable set is right: whatever calls came before, and *)
(* at every turn of _pin_above, _unpin_above and evict, it holds the       *)
(* indexed pages with no other owner and no busy child, and held_below     *)
(* counts the busy children but for the one a walk up is about to tell of. *)
(***************************************************************************)
THEOREM IndexEvictable == Spec => []EvictableLocal
<1>1. Inv => EvictableLocal
    BY DEF Inv
<1> QED
    BY <1>1, IndexInvariant, PTL

-----------------------------------------------------------------------------
(***************************************************************************)
(* What eviction reaches and in which order it drops pages: the properties *)
(* of PrefixIndex that relate the forest as a whole to the evictable set,  *)
(* or the heap of leaves to the forest.  They need two invariants more     *)
(* than Inv:                                                               *)
(*                                                                         *)
(*  - Ranked: the pages can be numbered so that a child has a lower number *)
(*    than its parent.  A page that is filed has no children, so it takes  *)
(*    0 and the others move up.  A set of pages then has a page of least   *)
(*    rank (Lowest), which stands for the induction along a walk up.       *)
(*                                                                         *)
(*  - HeapOK: every leaf is found.  A leaf has an entry in the heap, or in *)
(*    what the evict in progress has set aside, under its stamp or an      *)
(*    older one; what is set aside as held is held, and what is set aside  *)
(*    as spared has a key that is spared.                                  *)
(***************************************************************************)

\* The forest has no cycle: parents rank above their children.
Ranked == \E rank \in [Pages -> Nat] :
             \A c \in Pages : parent[c] # None => rank[c] < rank[parent[c]]

\* The entries of the heap, and those that the evict in progress has set aside.
Listed == BagToSet(leaves) \cup
          IF op.at = "evict" THEN BagToSet(op.passed) \cup BagToSet(op.spared) ELSE {}

\* An entry that is popped no later than one under q's stamp.
Found(q) == \E e \in Listed : e[2] = q /\ e[1] <= stamp[q]

HeapOK ==
    /\ \A q \in Indexed : children[q] = 0 => Found(q)
    /\ op.at = "evict" =>
         /\ \A e \in BagToSet(op.passed) : owners[e[2]] > 1
         /\ \A e \in BagToSet(op.spared) : key[e[2]] \in op.spare \cup {None}
    /\ \A p \in Pages : stamp[p] <= clock

-----------------------------------------------------------------------------

\* A set of pages that is not empty has a page none of whose children is in it.
LEMMA Lowest ==
    ASSUME PagesTyped, Ranked, NEW S \in SUBSET Pages, S # {}
    PROVE  \E p \in S : \A c \in S : parent[c] # p
<1>1. PICK rank \in [Pages -> Nat] :
         \A c \in Pages : parent[c] # None => rank[c] < rank[parent[c]]
    BY DEF Ranked
<1>2. PICK T : T = {rank[p] : p \in S}
    OBVIOUS
<1>3. T \subseteq Nat /\ T # {}
    BY <1>1, <1>2
<1>4. PICK t \in T : \A u \in T : <<u, t>> \notin OpToRel(<, Nat)
    BY <1>3, NatLessThanWellFounded, WFMin
<1>5. PICK p \in S : t = rank[p]
    BY <1>2
<1>6. ASSUME NEW c \in S, parent[c] = p PROVE FALSE
    <2>1. rank[c] < rank[p] /\ rank[c] \in T /\ rank[c] \in Nat /\ rank[p] \in Nat
        BY <1>1, <1>2, <1>6, PrefixIndexAssumption DEF PagesTyped
    <2> QED
        BY <1>4, <1>5, <2>1 DEF OpToRel
<1> QED
    BY <1>6

\* An entry added to a bag leaves those that were in it, and is in it.
LEMMA SumHolds ==
    ASSUME NEW B, NEW C, IsABag(B), IsABag(C)
    PROVE  BagToSet(B (+) C) = BagToSet(B) \cup BagToSet(C)
BY DEF BagToSet, (+), IsABag

\* An entry taken from a bag leaves the others.
LEMMA DifferenceHolds ==
    ASSUME NEW B, NEW e, IsABag(B)
    PROVE  BagToSet(B) \ {e} \subseteq BagToSet(B (-) SetToBag({e}))
BY DEF BagToSet, (-), IsABag, SetToBag

\* The bag of one entry, and the empty bag.
LEMMA OneHolds ==
    /\ \A x : BagToSet(SetToBag({x})) = {x} /\ IsABag(SetToBag({x}))
    /\ BagToSet(EmptyBag) = {}
BY DEF BagToSet, SetToBag, EmptyBag, IsABag

-----------------------------------------------------------------------------
(* Steps that change no page's place in the forest, or only take pages out. *)

\* Taking a page out, or leaving all in place, keeps the ranks.
LEMMA RankedKept ==
    ASSUME Ranked, \A c \in Pages : parent'[c] # None => parent'[c] = parent[c]
    PROVE  Ranked'
<1>1. PICK rank \in [Pages -> Nat] :
         \A c \in Pages : parent[c] # None => rank[c] < rank[parent[c]]
    BY DEF Ranked
<1>2. \A c \in Pages : parent'[c] # None => rank[c] < rank[parent'[c]]
    BY <1>1
<1> QED
    BY <1>2 DEF Ranked

\* A call that is not evict, and leaves entries, stamps and forest alone, keeps both.
LEMMA BothKept ==
    ASSUME Ranked, HeapOK, UNCHANGED <<key, parent, children, stamp, leaves, clock>>,
           op.at # "evict", op'.at # "evict"
    PROVE  Ranked' /\ HeapOK'
<1>1. Ranked'
    BY RankedKept
<1>2. Listed' = Listed
    BY DEF Listed
<1>3. \A q \in Pages : Found(q) => Found(q)'
    BY <1>2 DEF Found
<1> QED
    BY <1>1, <1>3 DEF HeapOK, Indexed

\* The calls that walk up.
LEMMA ClimbReach ==
    ASSUME Inv, Ranked, HeapOK, PinAbove \/ UnpinAbove
    PROVE  Ranked' /\ HeapOK'
<1> USE DEF Inv, TypeOK
<1>1. op.at \in {"pin", "unpin"} /\ op.page \in Pages
    BY OpCases DEF PinAbove, UnpinAbove
<1>2. UNCHANGED <<key, parent, children, stamp, leaves, clock>>
    BY DEF PinAbove, UnpinAbove, heapVars
<1>3. op' \in {Idle, Pinning(parent[op.page]), Unpinning(parent[op.page])}
    BY DEF PinAbove, UnpinAbove, Ignored, SetShared
<1>4. op'.at # "evict"
    BY <1>3 DEF Idle, Pinning, Unpinning
<1> QED
    BY <1>1, <1>2, <1>4, BothKept

\* The calls of the page arena.
LEMMA ArenaReach ==
    ASSUME Inv, Ranked, HeapOK, NEW p \in Pages, Acquire(p) \/ Retain(p) \/ Release(p)
    PROVE  Ranked' /\ HeapOK'
<1>1. op = Idle /\ UNCHANGED <<key, parent, children, stamp, leaves, clock>>
    BY DEF Acquire, Retain, Release, heapVars
<1>2. op' \in {Idle, Pinning(parent[p]), Unpinning(parent[p])}
    BY <1>1 DEF Acquire, Retain, Release, Ignored, SetShared
<1>3. op.at # "evict" /\ op'.at # "evict"
    BY <1>1, <1>2 DEF Idle, Pinning, Unpinning
<1> QED
    BY <1>1, <1>3, BothKept

\* insert: the page that is filed has no child, so it takes the lowest rank; its entry is
\* pushed under its stamp.
LEMMA InsertReach ==
    ASSUME Inv, Ranked, HeapOK, NEW k \in Keys, NEW p \in Pages, Insert(k, p)
    PROVE  Ranked' /\ HeapOK'
<1> USE DEF Inv, TypeOK
<1>0. PICK par : par = ParentFor(k)
    OBVIOUS
<1>1. /\ op = Idle /\ clock < MaxClock /\ byKey[k] = None /\ key[p] = None
      /\ key' = [key EXCEPT ![p] = k] /\ parent' = [parent EXCEPT ![p] = par]
      /\ children' = [q \in Pages |-> IF q = p THEN 0
                                      ELSE IF q = par THEN children[q] + 1 ELSE children[q]]
      /\ op' = Pinning(par) /\ clock' = clock + 1
      /\ stamp' = [stamp EXCEPT ![p] = clock + 1]
      /\ leaves' = leaves (+) SetToBag({<<clock + 1, p>>})
    BY <1>0 DEF Insert, SetShared
<1>2. /\ par \in Pages \cup {None} /\ par # p
      /\ \A c \in Pages : parent[c] # p
    BY <1>0, <1>1, PrefixIndexAssumption DEF ParentFor, PagesTyped, ForestOK
<1>3. Ranked'
    <2>1. PICK rank \in [Pages -> Nat] :
             \A c \in Pages : parent[c] # None => rank[c] < rank[parent[c]]
        BY DEF Ranked
    <2>2. PICK up : up = [q \in Pages |-> IF q = p THEN 0 ELSE rank[q] + 1]
        OBVIOUS
    <2>3. up \in [Pages -> Nat]
        BY <2>1, <2>2
    <2>4. \A c \in Pages : parent'[c] # None => up[c] < up[parent'[c]]
        BY <1>1, <1>2, <2>1, <2>2, <2>3 DEF PagesTyped
    <2> QED
        BY <2>3, <2>4 DEF Ranked
<1>4. op.at # "evict" /\ op'.at # "evict"
    BY <1>1 DEF Idle, Pinning
<1>5. Listed' = Listed \cup {<<clock + 1, p>>}
    <2>1. PICK e : e = <<clock + 1, p>>
        OBVIOUS
    <2>2. IsABag(SetToBag({e})) /\ BagToSet(SetToBag({e})) = {e} /\ IsABag(leaves)
        BY OneHolds DEF HeapTyped, IsBagOf
    <2>3. leaves' = leaves (+) SetToBag({e})
        BY <1>1, <2>1
    <2> QED
        BY <1>4, <2>1, <2>2, <2>3, SumHolds DEF Listed
<1>6. \A q \in Pages : stamp'[q] <= clock' /\ stamp[q] <= stamp'[q] /\ clock \in Nat
    BY <1>1, PrefixIndexAssumption DEF HeapOK, HeapTyped
<1>7. ASSUME NEW q \in Indexed', children'[q] = 0 PROVE Found(q)'
    <2>1. CASE q = p
        <3>1. <<clock + 1, p>> \in Listed'
            BY <1>5
        <3>2. stamp'[p] = clock + 1 /\ clock + 1 \in Nat
            BY <1>1, <1>6 DEF HeapTyped
        <3> QED
            BY <2>1, <3>1, <3>2 DEF Found
    <2>2. CASE q # p
        <3>1. q \in Indexed /\ children[q] = 0
            BY <1>1, <1>7, <2>2 DEF Indexed, PagesTyped
        <3>2. PICK e \in Listed : e[2] = q /\ e[1] <= stamp[q]
            BY <3>1 DEF HeapOK, Found
        <3>3. e \in Listed' /\ stamp'[q] = stamp[q]
            BY <1>1, <1>5, <2>2, <3>1 DEF HeapTyped, Indexed
        <3> QED
            BY <3>2, <3>3 DEF Found
    <2> QED
        BY <2>1, <2>2
<1> QED
    BY <1>3, <1>4, <1>6, <1>7 DEF HeapOK

\* touch: a stamp only grows, so an entry that found a page still finds it.
LEMMA TouchReach ==
    ASSUME Inv, Ranked, HeapOK, NEW run, Touch(run)
    PROVE  Ranked' /\ HeapOK'
<1> USE DEF Inv, TypeOK
<1>1. /\ op = Idle /\ op' = Idle /\ UNCHANGED <<key, parent, children, leaves>>
      /\ clock' = clock + 1
      /\ stamp' = [p \in Pages |-> IF p \in run THEN clock + 1 ELSE stamp[p]]
    BY DEF Touch, pageVars
<1>2. \A q \in Pages : /\ stamp'[q] <= clock' /\ stamp[q] <= stamp'[q]
                       /\ stamp[q] \in Nat /\ stamp'[q] \in Nat
    BY <1>1, PrefixIndexAssumption DEF HeapOK, HeapTyped
<1>3. \A e \in BagToSet(leaves) : e[1] \in Nat
    BY DEF HeapTyped, IsBagOf, BagToSet, Entries
<1>4. op.at # "evict" /\ op'.at # "evict"
    BY <1>1 DEF Idle
<1>5. \A q \in Pages : Found(q) => Found(q)'
    BY <1>1, <1>2, <1>3, <1>4 DEF Found, Listed
<1> QED
    BY <1>1, <1>2, <1>4, <1>5, RankedKept DEF HeapOK, Indexed

-----------------------------------------------------------------------------
(* The turns of evict. *)

\* A turn keeps every leaf found when no entry of it is lost, but for one that is replaced.
LEMMA StillFound ==
    ASSUME HeapOK, HeapTyped, UNCHANGED stamp,
           \A q \in Indexed' : children'[q] = 0 =>
              \/ /\ q \in Indexed /\ children[q] = 0
                 /\ \A e \in Listed : e[2] = q => e \in Listed'
              \/ Entry(q) \in Listed'
    PROVE  \A q \in Indexed' : children'[q] = 0 => Found(q)'
<1> TAKE q \in Indexed'
<1> HAVE children'[q] = 0
<1>1. CASE /\ q \in Indexed /\ children[q] = 0
           /\ \A e \in Listed : e[2] = q => e \in Listed'
    BY <1>1 DEF HeapOK, Found
<1>2. CASE Entry(q) \in Listed'
    <2>1. stamp[q] \in Nat
        BY DEF HeapTyped, Indexed
    <2> QED
        BY <1>2, <2>1 DEF Entry, Found
<1> QED
    BY <1>1, <1>2

\* A turn that changes no page.
LEMMA PagesKept ==
    ASSUME Inv, Ranked, HeapOK, UNCHANGED <<pageVars, stamp, clock>>,
           \A q \in Indexed : children[q] = 0 =>
              \/ \A e \in Listed : e[2] = q => e \in Listed'
              \/ Entry(q) \in Listed',
           op'.at = "evict" =>
              /\ \A e \in BagToSet(op'.passed) : owners[e[2]] > 1
              /\ \A e \in BagToSet(op'.spared) : key[e[2]] \in op'.spare \cup {None}
    PROVE  Ranked' /\ HeapOK'
<1> USE DEF Inv, TypeOK, pageVars
<1>1. Indexed' = Indexed
    BY DEF Indexed
<1>2. \A q \in Indexed' : children'[q] = 0 => Found(q)'
    BY <1>1, StillFound
<1> QED
    BY <1>2, RankedKept DEF HeapOK

\* The start of evict sets nothing aside.
LEMMA EvictReach ==
    ASSUME Inv, Ranked, HeapOK, NEW n, NEW sp, Evict(n, sp)
    PROVE  Ranked' /\ HeapOK'
<1>1. /\ op = Idle /\ op' = Evicting(n, sp, EmptyBag, EmptyBag)
      /\ UNCHANGED <<pageVars, stamp, leaves, clock>>
    BY DEF Evict, heapVars
<1>2. op'.passed = EmptyBag /\ op'.spared = EmptyBag /\ op.at # "evict"
    BY <1>1 DEF Evicting, Idle
<1>3. Listed \subseteq Listed'
    BY <1>1, <1>2 DEF Listed
<1> QED
    BY <1>1, <1>2, <1>3, OneHolds, PagesKept

\* A stale entry finds no leaf; an outdated one is replaced by one under the page's stamp.
LEMMA PopLeafReach ==
    ASSUME Inv, Ranked, HeapOK, PopLeaf
    PROVE  Ranked' /\ HeapOK'
<1> USE DEF Inv, TypeOK
<1>1. op.at = "evict" /\ UNCHANGED <<pageVars, stamp, clock, op>>
    BY DEF PopLeaf
<1>2. PICK e \in Oldest(leaves) :
         \/ Stale(e) /\ leaves' = leaves (-) SetToBag({e})
         \/ leaves' = (leaves (-) SetToBag({e})) (+) SetToBag({Entry(e[2])})
    BY DEF PopLeaf
<1>3. /\ IsABag(leaves) /\ IsABag(leaves (-) SetToBag({e})) /\ e[2] \in Pages
      /\ BagToSet(leaves) \ {e} \subseteq BagToSet(leaves (-) SetToBag({e}))
    BY OldestIn, DifferenceHolds DEF HeapTyped, IsBagOf
<1>4. CASE Stale(e) /\ leaves' = leaves (-) SetToBag({e})
    <2>1. Listed \ {e} \subseteq Listed'
        BY <1>1, <1>3, <1>4 DEF Listed
    <2>2. \A q \in Indexed : children[q] = 0 => \A f \in Listed : f[2] = q => f \in Listed'
        BY <1>4, <2>1 DEF Stale, Indexed
    <2> QED
        BY <1>1, <2>2, PagesKept DEF HeapOK
<1>5. CASE leaves' = (leaves (-) SetToBag({e})) (+) SetToBag({Entry(e[2])})
    <2>1. PICK x : x = Entry(e[2])
        OBVIOUS
    <2>2. BagToSet(SetToBag({x})) = {x} /\ IsABag(SetToBag({x}))
        BY OneHolds
    <2>3. BagToSet(leaves') = BagToSet(leaves (-) SetToBag({e})) \cup {x}
        BY <1>3, <1>5, <2>1, <2>2, SumHolds
    <2>4. Listed \ {e} \subseteq Listed' /\ Entry(e[2]) \in Listed'
        BY <1>1, <1>3, <2>1, <2>3 DEF Listed
    <2>5. \A q \in Indexed : children[q] = 0 =>
             \/ \A f \in Listed : f[2] = q => f \in Listed'
             \/ Entry(q) \in Listed'
        BY <2>4
    <2> QED
        BY <1>1, <2>5, PagesKept DEF HeapOK
<1> QED
    BY <1>2, <1>4, <1>5

\* _remove: the page that goes takes its entries with it; a parent left with no child gets
\* one.  Only a page that no caller holds goes, so what was passed over as held still is.
LEMMA RemoveReach ==
    ASSUME Inv, Ranked, HeapOK, NEW p \in Pages, NEW heap, IsBagOf(heap, Entries),
           Remove(p, heap), key[p] # None, children[p] = 0, owners[p] <= 1,
           \A e \in Listed : e[2] # p => e \in BagToSet(heap) \/ e \in Listed',
           op'.at = "evict" =>
              /\ op.at = "evict" /\ op'.spare = op.spare
              /\ BagToSet(op'.passed) \subseteq BagToSet(op.passed)
              /\ BagToSet(op'.spared) \subseteq BagToSet(op.spared)
    PROVE  Ranked' /\ HeapOK'
<1> USE DEF Inv, TypeOK
<1>0. PICK par : par = parent[p]
    OBVIOUS
<1>1. /\ key' = [key EXCEPT ![p] = None] /\ parent' = [parent EXCEPT ![p] = None]
      /\ owners' = [owners EXCEPT ![p] = @ - 1]
      /\ children' = [q \in Pages |-> IF q = par THEN children[q] - 1 ELSE children[q]]
      /\ (par # None /\ children[par] - 1 = 0 /\ key[par] # None) =>
            leaves' = heap (+) SetToBag({Entry(par)})
      /\ leaves' \in {heap, heap (+) SetToBag({Entry(par)})}
      /\ UNCHANGED <<stamp, clock>>
    BY <1>0 DEF Remove
<1>2. par \in Pages \cup {None} /\ par # p
    BY <1>0 DEF PagesTyped, WalkOK
<1>3. Ranked'
    BY <1>1, RankedKept DEF PagesTyped
<1>4. leaves' = heap (+) SetToBag({Entry(par)}) =>
         BagToSet(leaves') = BagToSet(heap) \cup {Entry(par)}
    <2>1. PICK x : x = Entry(par)
        OBVIOUS
    <2>2. BagToSet(SetToBag({x})) = {x} /\ IsABag(SetToBag({x})) /\ IsABag(heap)
        BY OneHolds DEF IsBagOf
    <2> QED
        BY ZenonT(60), <2>1, <2>2, SumHolds
<1>5. BagToSet(heap) \subseteq Listed'
    BY <1>1, <1>4 DEF Listed
<1>6. ASSUME NEW q \in Indexed', children'[q] = 0
      PROVE  \/ /\ q \in Indexed /\ children[q] = 0
                /\ \A e \in Listed : e[2] = q => e \in Listed'
             \/ Entry(q) \in Listed'
    <2>1. q # p /\ q \in Indexed
        BY <1>1 DEF Indexed, PagesTyped
    <2>2. \A e \in Listed : e[2] = q => e \in Listed'
        BY <1>5, <2>1
    <2>3. CASE q = par
        <3>1. par # None /\ children[par] - 1 = 0 /\ key[par] # None
            BY <1>1, <1>6, <2>1, <2>3, PrefixIndexAssumption DEF Indexed
        <3> QED
            BY <1>1, <1>4, <2>3, <3>1 DEF Listed
    <2>4. CASE q # par
        BY <1>1, <1>6, <2>1, <2>2, <2>4 DEF Indexed
    <2> QED
        BY <2>3, <2>4
<1>7. \A q \in Indexed' : children'[q] = 0 => Found(q)'
    BY <1>1, <1>6, StillFound
<1>8. ASSUME op'.at = "evict"
      PROVE  /\ \A e \in BagToSet(op'.passed) : owners'[e[2]] > 1
             /\ \A e \in BagToSet(op'.spared) : key'[e[2]] \in op'.spare \cup {None}
    <2>1. /\ \A e \in BagToSet(op.passed) : owners[e[2]] > 1 /\ e[2] \in Pages
          /\ \A e \in BagToSet(op.spared) : key[e[2]] \in op.spare \cup {None} /\ e[2] \in Pages
        BY <1>8, OpCases DEF HeapOK, IsBagOf, BagToSet, Entries
    <2> QED
        BY <1>1, <1>8, <2>1 DEF PagesTyped
<1> QED
    BY <1>1, <1>3, <1>7, <1>8 DEF HeapOK

\* A turn of evict on the oldest leaf: a leaf that is passed over or spared is set aside.
LEMMA EvictLeafReach ==
    ASSUME Inv, Ranked, HeapOK, EvictLeaf
    PROVE  Ranked' /\ HeapOK'
<1> USE DEF Inv, TypeOK
<1>1. /\ op.at = "evict" /\ op = Evicting(op.n, op.spare, op.passed, op.spared)
      /\ IsABag(op.passed) /\ IsABag(op.spared) /\ IsABag(leaves)
    BY OpCases DEF EvictLeaf, OpTyped, Idle, HeapTyped, IsBagOf
<1>2. PICK e, p, rest :
         /\ e \in Oldest(leaves) /\ p \in Pages /\ p = e[2]
         /\ rest = leaves (-) SetToBag({e}) /\ ~Stale(e)
         /\ \/ /\ owners[p] > 1
               /\ op' = [op EXCEPT !.passed = @ (+) SetToBag({e})]
               /\ leaves' = rest /\ UNCHANGED <<pageVars, stamp, clock>>
            \/ /\ key[p] \in op.spare
               /\ op' = [op EXCEPT !.spared = @ (+) SetToBag({e})]
               /\ leaves' = rest /\ UNCHANGED <<pageVars, stamp, clock>>
            \/ /\ owners[p] <= 1 /\ Remove(p, rest)
               /\ op' = [op EXCEPT !.n = @ - 1]
    BY OldestIn DEF EvictLeaf, HeapTyped
<1>3. /\ IsBagOf(rest, Entries) /\ BagToSet(leaves) \ {e} \subseteq BagToSet(rest)
      /\ p \in Pages /\ key[p] # None /\ children[p] = 0
    BY <1>1, <1>2, OldestIn, DifferenceHolds DEF HeapTyped, Stale
<1>4. PICK one : one = SetToBag({e}) /\ IsABag(one) /\ BagToSet(one) = {e}
    BY OneHolds
<1>5. CASE /\ owners[p] > 1 /\ op' = [op EXCEPT !.passed = @ (+) SetToBag({e})]
           /\ leaves' = rest /\ UNCHANGED <<pageVars, stamp, clock>>
    <2>1. op' = Evicting(op.n, op.spare, op.passed (+) one, op.spared)
        BY <1>1, <1>4, <1>5 DEF Evicting
    <2>2. /\ op'.at = "evict" /\ op'.spare = op.spare /\ op'.spared = op.spared
          /\ op'.passed = op.passed (+) one
        BY <2>1 DEF Evicting
    <2>3. BagToSet(op'.passed) = BagToSet(op.passed) \cup {e}
        BY <1>1, <1>4, <2>2, SumHolds
    <2>4. Listed \subseteq Listed'
        BY <1>1, <1>3, <1>5, <2>2, <2>3 DEF Listed
    <2>5. /\ \A f \in BagToSet(op'.passed) : owners[f[2]] > 1
          /\ \A f \in BagToSet(op'.spared) : key[f[2]] \in op'.spare \cup {None}
        BY <1>1, <1>2, <1>5, <2>2, <2>3 DEF HeapOK
    <2> QED
        BY <1>5, <2>4, <2>5, PagesKept
<1>6. CASE /\ key[p] \in op.spare /\ op' = [op EXCEPT !.spared = @ (+) SetToBag({e})]
           /\ leaves' = rest /\ UNCHANGED <<pageVars, stamp, clock>>
    <2>1. op' = Evicting(op.n, op.spare, op.passed, op.spared (+) one)
        BY <1>1, <1>4, <1>6 DEF Evicting
    <2>2. /\ op'.at = "evict" /\ op'.spare = op.spare /\ op'.passed = op.passed
          /\ op'.spared = op.spared (+) one
        BY <2>1 DEF Evicting
    <2>3. BagToSet(op'.spared) = BagToSet(op.spared) \cup {e}
        BY <1>1, <1>4, <2>2, SumHolds
    <2>4. Listed \subseteq Listed'
        BY <1>1, <1>3, <1>6, <2>2, <2>3 DEF Listed
    <2>5. /\ \A f \in BagToSet(op'.passed) : owners[f[2]] > 1
          /\ \A f \in BagToSet(op'.spared) : key[f[2]] \in op'.spare \cup {None}
        BY <1>1, <1>2, <1>6, <2>2, <2>3 DEF HeapOK
    <2> QED
        BY <1>6, <2>4, <2>5, PagesKept
<1>7. CASE owners[p] <= 1 /\ Remove(p, rest) /\ op' = [op EXCEPT !.n = @ - 1]
    <2>1. op' = Evicting(op.n - 1, op.spare, op.passed, op.spared)
        BY <1>1, <1>7 DEF Evicting
    <2>2. /\ op'.at = "evict" /\ op'.spare = op.spare /\ op'.passed = op.passed
          /\ op'.spared = op.spared
        BY <2>1 DEF Evicting
    <2>3. \A f \in Listed : f[2] # p => f \in BagToSet(rest) \/ f \in Listed'
        BY <1>1, <1>2, <1>3, <2>2 DEF Listed
    <2> QED
        BY <1>1, <1>3, <1>7, <2>2, <2>3, RemoveReach
<1> QED
    BY <1>2, <1>5, <1>6, <1>7

\* A turn of evict on the oldest spared entry: it is passed over or its page is dropped.
LEMMA EvictSparedReach ==
    ASSUME Inv, Ranked, HeapOK, EvictSpared
    PROVE  Ranked' /\ HeapOK'
<1> USE DEF Inv, TypeOK
<1>1. /\ op.at = "evict" /\ op = Evicting(op.n, op.spare, op.passed, op.spared)
      /\ IsABag(op.passed) /\ IsBagOf(op.spared, Entries) /\ IsABag(op.spared)
      /\ IsBagOf(leaves, Entries)
    BY OpCases DEF EvictSpared, OpTyped, Idle, HeapTyped, IsBagOf
<1>2. PICK e, p, rest :
         /\ e \in Oldest(op.spared) /\ p \in Pages /\ p = e[2]
         /\ rest = op.spared (-) SetToBag({e})
         /\ \/ /\ owners[p] > 1
               /\ op' = [op EXCEPT !.spared = rest, !.passed = @ (+) SetToBag({e})]
               /\ UNCHANGED <<pageVars, heapVars>>
            \/ /\ owners[p] <= 1 /\ key[p] # None /\ Remove(p, leaves)
               /\ op' = [op EXCEPT !.spared = rest, !.n = @ - 1]
    BY <1>1, OldestIn DEF EvictSpared
<1>3. /\ BagToSet(op.spared) \ {e} \subseteq BagToSet(rest)
      /\ BagToSet(rest) \subseteq BagToSet(op.spared)
      /\ p \in Pages /\ children[p] = 0
    BY <1>1, <1>2, OldestIn, DifferenceHolds DEF WalkOK
<1>4. PICK one : one = SetToBag({e}) /\ IsABag(one) /\ BagToSet(one) = {e}
    BY OneHolds
<1>5. CASE /\ owners[p] > 1
           /\ op' = [op EXCEPT !.spared = rest, !.passed = @ (+) SetToBag({e})]
           /\ UNCHANGED <<pageVars, heapVars>>
    <2>1. op' = Evicting(op.n, op.spare, op.passed (+) one, rest)
        BY <1>1, <1>4, <1>5 DEF Evicting
    <2>2. /\ op'.at = "evict" /\ op'.spare = op.spare /\ op'.spared = rest
          /\ op'.passed = op.passed (+) one
        BY <2>1 DEF Evicting
    <2>3. BagToSet(op'.passed) = BagToSet(op.passed) \cup {e}
        BY <1>1, <1>4, <2>2, SumHolds
    <2>4. Listed \subseteq Listed'
        BY <1>1, <1>3, <1>5, <2>2, <2>3 DEF Listed, heapVars
    <2>5. /\ \A f \in BagToSet(op'.passed) : owners[f[2]] > 1
          /\ \A f \in BagToSet(op'.spared) : key[f[2]] \in op'.spare \cup {None}
        BY <1>1, <1>2, <1>3, <1>5, <2>2, <2>3 DEF HeapOK
    <2> QED
        BY <1>5, <2>4, <2>5, PagesKept DEF heapVars
<1>6. CASE /\ owners[p] <= 1 /\ key[p] # None /\ Remove(p, leaves)
           /\ op' = [op EXCEPT !.spared = rest, !.n = @ - 1]
    <2>1. op' = Evicting(op.n - 1, op.spare, op.passed, rest)
        BY <1>1, <1>6 DEF Evicting
    <2>2. /\ op'.at = "evict" /\ op'.spare = op.spare /\ op'.passed = op.passed
          /\ op'.spared = rest
        BY <2>1 DEF Evicting
    <2>3. \A f \in Listed : f[2] # p => f \in BagToSet(leaves) \/ f \in Listed'
        BY <1>1, <1>2, <1>3, <2>2 DEF Listed
    <2> QED
        BY <1>1, <1>3, <1>6, <2>2, <2>3, RemoveReach
<1> QED
    BY <1>2, <1>5, <1>6

\* The end of evict puts back all it has set aside.
LEMMA EvictEndReach ==
    ASSUME Inv, Ranked, HeapOK, EvictEnd
    PROVE  Ranked' /\ HeapOK'
<1> USE DEF Inv, TypeOK
<1>1. /\ op.at = "evict" /\ op' = Idle /\ UNCHANGED <<pageVars, stamp, clock>>
      /\ leaves' = leaves (+) op.passed (+) op.spared
      /\ IsBagOf(op.passed, Entries) /\ IsBagOf(op.spared, Entries) /\ IsBagOf(leaves, Entries)
    BY OpCases DEF EvictEnd, HeapTyped
<1>2. /\ IsABag(op.passed) /\ IsABag(op.spared) /\ IsABag(leaves)
      /\ IsABag(leaves (+) op.passed)
    BY <1>1, BagSum DEF IsBagOf
<1>3. BagToSet(leaves') = BagToSet(leaves) \cup BagToSet(op.passed) \cup BagToSet(op.spared)
    BY <1>1, <1>2, SumHolds
<1>4. Listed \subseteq Listed' /\ op'.at # "evict"
    BY <1>1, <1>3 DEF Listed, Idle
<1> QED
    BY <1>1, <1>4, PagesKept

\* drop takes one page out.
LEMMA DropReach ==
    ASSUME Inv, Ranked, HeapOK, NEW k \in Keys, Drop(k)
    PROVE  Ranked' /\ HeapOK'
<1> USE DEF Inv, TypeOK
<1>1. PICK p \in Pages : /\ p = byKey[k] /\ key[p] # None /\ children[p] = 0 /\ owners[p] = 1
                         /\ Remove(p, leaves) /\ op = Idle /\ op' = op
    BY PrefixIndexAssumption DEF Drop, PagesTyped, ForestOK
<1>2. op.at # "evict" /\ op'.at # "evict" /\ IsBagOf(leaves, Entries) /\ owners[p] <= 1
    BY <1>1 DEF Idle, HeapTyped
<1>3. \A e \in Listed : e \in BagToSet(leaves)
    BY <1>2 DEF Listed
<1> QED
    BY <1>1, <1>2, <1>3, RemoveReach

-----------------------------------------------------------------------------

\* Both hold of an empty index.
LEMMA InitReach ==
    Init => Ranked /\ HeapOK
<1> SUFFICES ASSUME Init PROVE Ranked /\ HeapOK
    OBVIOUS
<1> USE DEF Init
<1>1. Ranked
    <2>1. [p \in Pages |-> 0] \in [Pages -> Nat]
        OBVIOUS
    <2>2. \A c \in Pages : parent[c] = None
        OBVIOUS
    <2> QED
        BY <2>1, <2>2 DEF Ranked
<1>2. HeapOK
    BY DEF HeapOK, Indexed, Idle
<1> QED
    BY <1>1, <1>2

\* Every step of every call keeps both.
LEMMA NextReach ==
    ASSUME Inv, Ranked, HeapOK, [Next]_vars
    PROVE  Ranked' /\ HeapOK'
<1>1. CASE PinAbove \/ UnpinAbove
    BY <1>1, ClimbReach
<1>2. CASE EvictLoop
    BY <1>2, PopLeafReach, EvictLeafReach, EvictSparedReach, EvictEndReach DEF EvictLoop
<1>3. CASE \E p \in Pages : Acquire(p) \/ Retain(p) \/ Release(p)
    BY <1>3, ArenaReach
<1>4. CASE \E k \in Keys, p \in Pages : Insert(k, p)
    BY <1>4, InsertReach
<1>5. CASE \E k \in Keys : Lookup(k) \/ Drop(k)
    BY <1>5, TouchReach, DropReach DEF Lookup
<1>6. CASE \E n \in 1..Cardinality(Pages), sp \in SUBSET {key[p] : p \in Indexed} : Evict(n, sp)
    BY <1>6, EvictReach
<1>7. CASE UNCHANGED vars
    <2>1. Listed \subseteq Listed'
        BY <1>7 DEF vars, heapVars, Listed
    <2> QED
        BY <1>7, <2>1, PagesKept DEF vars, heapVars, HeapOK
<1> QED
    BY <1>1, <1>2, <1>3, <1>4, <1>5, <1>6, <1>7 DEF Next, Climb

\* Every reachable state satisfies both.
LEMMA Reach ==
    Spec => [](Inv /\ Ranked /\ HeapOK)
<1>1. Init => Inv /\ Ranked /\ HeapOK
    BY InitInv, InitReach
<1>2. (Inv /\ Ranked /\ HeapOK) /\ [Next]_vars => (Inv /\ Ranked /\ HeapOK)'
    BY NextInv, NextReach
<1> QED
    BY <1>1, <1>2, PTL DEF Spec

-----------------------------------------------------------------------------
(* What the evictable set says of the forest. *)

\* Outside a walk up, a page is busy exactly when it is held or has a busy child.
LEMMA BusyIff ==
    ASSUME Inv, op.at \notin {"pin", "unpin"}, NEW p \in Pages
    PROVE  Busy(p) <=> owners[p] > 1 \/ \E c \in Pages : parent[c] = p /\ Busy(c)
<1> USE DEF Inv, TypeOK
<1>1. Cardinality(BusyChildren(p)) = heldBelow[p] /\ heldBelow[p] \in Nat
    BY UntoldCases DEF EvictableLocal, PagesTyped
<1>2. heldBelow[p] = 0 <=> BusyChildren(p) = {}
    BY <1>1, Finite, FS_EmptySet
<1>3. BusyChildren(p) = {} <=> ~\E c \in Pages : parent[c] = p /\ Busy(c)
    BY DEF BusyChildren, ChildrenOf
<1> QED
    BY <1>1, <1>2, <1>3 DEF Busy

\* A child is indexed.
LEMMA ChildIndexed ==
    ASSUME Inv, NEW p \in Pages, NEW c \in Pages, parent[c] = p
    PROVE  c \in Indexed
BY PrefixIndexAssumption DEF Inv, ForestOK, Indexed

\* An evictable leaf that is not to be spared is in the heap, under its stamp or an older one.
LEMMA LeafInHeap ==
    ASSUME Inv, HeapOK, op.at = "evict", NEW q \in evictable, children[q] = 0
    PROVE  \/ \E e \in BagToSet(leaves) : e[2] = q /\ e[1] <= stamp[q]
           \/ key[q] \in op.spare /\ \E e \in BagToSet(op.spared) : e[2] = q
<1>1. q \in Indexed /\ ~Busy(q) /\ key[q] # None
    BY DEF Inv, EvictableLocal, Indexed
<1>2. PICK e \in Listed : e[2] = q /\ e[1] <= stamp[q]
    BY <1>1 DEF HeapOK, Found
<1>3. e \notin BagToSet(op.passed)
    BY <1>1, <1>2 DEF HeapOK, Busy
<1>4. e \in BagToSet(op.spared) => key[q] \in op.spare
    BY <1>1, <1>2 DEF HeapOK
<1> QED
    BY <1>2, <1>3, <1>4 DEF Listed

\* Which page a turn of evict drops: the oldest leaf, under its stamp, if it is not to be
\* spared; or, when no other leaf is left, one that was set aside.
LEMMA Drops ==
    ASSUME Inv, Next, op.at = "evict", NEW p \in Indexed, key'[p] = None
    PROVE  \/ /\ key[p] \notin op.spare
              /\ \E e \in Oldest(leaves) : e[2] = p /\ e[1] = stamp[p]
           \/ leaves = EmptyBag /\ \E e \in Oldest(op.spared) : e[2] = p
<1> USE DEF Inv, TypeOK
<1>1. EvictLoop
    <2>1. op # Idle /\ op.at \notin {"pin", "unpin"}
        BY DEF Idle
    <2>2. ~Climb
        BY <2>1 DEF Climb, PinAbove, UnpinAbove
    <2>3. \A q : ~Acquire(q) /\ ~Retain(q) /\ ~Release(q)
        BY <2>1 DEF Acquire, Retain, Release
    <2>4. \A k : ~Lookup(k) /\ ~Drop(k) /\ \A q : ~Insert(k, q) /\ ~Evict(k, q)
        BY <2>1 DEF Lookup, Touch, Drop, Insert, Evict
    <2> QED
        BY <2>2, <2>3, <2>4 DEF Next
<1>2. p \in Pages /\ key[p] # None
    BY DEF Indexed
<1>3. ~PopLeaf /\ ~EvictEnd
    BY <1>2 DEF PopLeaf, EvictEnd, pageVars
<1>4. CASE EvictLeaf
    <2>1. PICK e \in Oldest(leaves) :
             /\ ~Stale(e) /\ ~Outdated(e)
             /\ \/ UNCHANGED pageVars
                \/ key[e[2]] \notin op.spare /\ \E rest : Remove(e[2], rest)
        BY <1>4 DEF EvictLeaf
    <2>2. key[e[2]] \notin op.spare /\ key' = [key EXCEPT ![e[2]] = None]
        BY <1>2, <2>1 DEF pageVars, Remove
    <2>3. e[2] = p
        BY <1>2, <2>2 DEF PagesTyped
    <2>4. stamp[p] = e[1]
        BY <2>1, <2>3 DEF Outdated
    <2> QED
        BY <2>2, <2>3, <2>4
<1>5. CASE EvictSpared
    <2>1. PICK e \in Oldest(op.spared) :
             leaves = EmptyBag /\ (UNCHANGED pageVars \/ Remove(e[2], leaves))
        BY <1>5 DEF EvictSpared
    <2>2. key' = [key EXCEPT ![e[2]] = None]
        BY <1>2, <2>1 DEF pageVars, Remove
    <2>3. e[2] = p
        BY <1>2, <2>2 DEF PagesTyped
    <2> QED
        BY <2>1, <2>3
<1> QED
    BY <1>1, <1>3, <1>4, <1>5 DEF EvictLoop

-----------------------------------------------------------------------------

(***************************************************************************)
(* Eviction reaches every evictable page: when PrefixIndex.evict gives up  *)
(* for want of a leaf, no evictable page is left, so the room that         *)
(* KVManager._room counts can be had.  Were one left, the lowest of them   *)
(* would have no child, so it would be a leaf with an entry; the heap is   *)
(* empty, and what was passed over is held.                                *)
(***************************************************************************)
THEOREM EvictionReaches == Spec => []EvictReachesAll
<1>1. Inv /\ Ranked /\ HeapOK => EvictReachesAll
    <2> SUFFICES ASSUME Inv, Ranked, HeapOK,
                        op.at = "evict", leaves = EmptyBag, op.spared = EmptyBag, evictable # {}
                 PROVE  FALSE
        BY DEF EvictReachesAll
    <2> USE DEF Inv, TypeOK
    <2>1. evictable \in SUBSET Pages
        BY DEF PagesTyped
    <2>2. PICK p \in evictable : \A c \in evictable : parent[c] # p
        BY <2>1, Lowest
    <2>3. p \in Pages /\ p \in Indexed /\ ~Busy(p)
        BY <2>1 DEF EvictableLocal
    <2>4. \A c \in Pages : parent[c] # p
        BY <2>2, <2>3, BusyIff, ChildIndexed DEF EvictableLocal
    <2>5. children[p] = 0
        BY <2>3, <2>4, FS_EmptySet DEF ForestOK, ChildrenOf
    <2> QED
        BY <2>5, LeafInHeap, OneHolds
<1> QED
    BY <1>1, Reach, PTL

(***************************************************************************)
(* The evictable set is exact: between calls PrefixIndex._evictable holds  *)
(* the indexed pages that no one else owns, themselves or a page below     *)
(* them at any depth.  EvictableLocal says it one level at a time; what a  *)
(* busy page has above it is busy, and the lowest busy page below p that   *)
(* leads to p is held itself.                                              *)
(***************************************************************************)
THEOREM EvictableIsExact == Spec => []EvictableExact
<1>1. Inv /\ Ranked /\ HeapOK => EvictableExact
    <2> SUFFICES ASSUME Inv, Ranked, op = Idle
                 PROVE  evictable = {p \in Indexed :
                            \A q \in Indexed : p \in Lineage(q) => owners[q] = 1}
        BY DEF EvictableExact
    <2> USE DEF Inv, TypeOK
    <2>1. op.at \notin {"pin", "unpin"}
        BY DEF Idle
    <2>2. evictable = {p \in Indexed : ~Busy(p)} /\ \A q \in Indexed : q \in Pages
        BY DEF EvictableLocal, Indexed
    <2>3. ASSUME NEW p \in Indexed, NEW q \in Indexed, ~Busy(p), p \in Lineage(q)
          PROVE  owners[q] = 1
        <3>1. PICK S \in SUBSET Pages : S = {x \in Pages : Busy(x)}
            OBVIOUS
        <3>2. \A c \in S : parent[c] \in S \cup {None}
            BY <2>1, <3>1, BusyIff DEF PagesTyped
        <3>3. q \notin S
            BY <2>3, <3>1, <3>2 DEF Lineage
        <3>4. owners[q] >= 1 /\ owners[q] \in Nat
            BY <2>2 DEF ForestOK, PagesTyped, Indexed
        <3> QED
            BY <2>2, <3>1, <3>3, <3>4 DEF Busy
    <2>4. ASSUME NEW p \in Indexed, Busy(p),
                 \A q \in Indexed : p \in Lineage(q) => owners[q] = 1
          PROVE  FALSE
        <3>1. PICK S \in SUBSET Pages : S = {x \in Indexed : Busy(x) /\ p \in Lineage(x)}
            BY <2>2
        <3>2. p \in S
            BY <2>2, <2>4, <3>1 DEF Lineage
        <3>3. PICK x \in S : \A c \in S : parent[c] # x
            BY <3>2, Lowest
        <3>4. owners[x] = 1 /\ Busy(x) /\ x \in Pages /\ p \in Lineage(x)
            BY <2>2, <2>4, <3>1
        <3>5. PICK c \in Pages : parent[c] = x /\ Busy(c)
            BY <2>1, <3>4, BusyIff
        <3>6. c \in Indexed
            BY <3>4, <3>5, ChildIndexed
        <3>7. p \in Lineage(c)
            BY <3>4, <3>5, PrefixIndexAssumption DEF Lineage
        <3> QED
            BY <3>1, <3>3, <3>5, <3>6, <3>7
    <2> QED
        BY <2>2, <2>3, <2>4
<1> QED
    BY <1>1, Reach, PTL

(***************************************************************************)
(* PrefixIndex.evict drops the least recently used leaf first, although a  *)
(* hit re-stamps a page without moving its entry: every evictable leaf has *)
(* an entry no younger than its stamp, so the entry that surfaces under    *)
(* its page's own stamp is no younger than any of them.                    *)
(***************************************************************************)
THEOREM OldestGoesFirst == Spec => EvictsOldest
<1> DEFINE Kept ==
        \A p \in Indexed :
          (op.at = "evict" /\ key'[p] = None /\ key[p] \notin op.spare) =>
            \A q \in evictable :
                (children[q] = 0 /\ key[q] \notin op.spare) => stamp[p] <= stamp[q]
<1>1. (Inv /\ Ranked /\ HeapOK) /\ [Next]_vars => [Kept]_vars
    <2> SUFFICES ASSUME Inv, HeapOK, Next,
                        NEW p \in Indexed, op.at = "evict", key'[p] = None, key[p] \notin op.spare,
                        NEW q \in evictable, children[q] = 0, key[q] \notin op.spare
                 PROVE  stamp[p] <= stamp[q]
        OBVIOUS
    <2> USE DEF Inv, TypeOK
    <2>1. PICK f \in BagToSet(leaves) : f[2] = q /\ f[1] <= stamp[q]
        BY LeafInHeap
    <2>2. f[1] \in Nat /\ stamp[q] \in Nat /\ stamp[p] \in Nat
        BY DEF HeapTyped, IsBagOf, BagToSet, Entries, PagesTyped, Indexed
    <2>3. PICK e \in Oldest(leaves) : e[1] = stamp[p]
        BY <2>1, Drops, OneHolds
    <2>4. e[1] <= f[1]
        BY <2>1 DEF Oldest
    <2> QED
        BY <2>1, <2>2, <2>3, <2>4
<1> QED
    BY <1>1, Reach, PTL DEF Spec, EvictsOldest

(***************************************************************************)
(* A page whose copy to the host is awaited is dropped only when every     *)
(* evictable leaf is one to be spared: it is dropped with the heap empty,  *)
(* and an evictable leaf that is not in the heap was set aside to spare.   *)
(***************************************************************************)
THEOREM SparedGoneLast == Spec => SparedGoLast
<1> DEFINE Kept ==
        \A p \in Indexed :
          (op.at = "evict" /\ key'[p] = None /\ key[p] \in op.spare) =>
            \A q \in evictable : children[q] = 0 => key[q] \in op.spare
<1>1. (Inv /\ Ranked /\ HeapOK) /\ [Next]_vars => [Kept]_vars
    <2> SUFFICES ASSUME Inv, HeapOK, Next,
                        NEW p \in Indexed, op.at = "evict", key'[p] = None, key[p] \in op.spare,
                        NEW q \in evictable, children[q] = 0
                 PROVE  key[q] \in op.spare
        OBVIOUS
    <2>1. leaves = EmptyBag
        BY Drops
    <2> QED
        BY <2>1, LeafInHeap, OneHolds
<1> QED
    BY <1>1, Reach, PTL DEF Spec, SparedGoLast

=============================================================================
