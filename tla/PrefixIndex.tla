----------------------------- MODULE PrefixIndex -----------------------------
(***************************************************************************)
(* The prefix index of a KV pool (mstar/engine/resources/kv/               *)
(* prefix_index.py) and the owner counts of the page arena under it        *)
(* (mstar/engine/resources/kv/arena.py).                                   *)
(*                                                                         *)
(* The index keeps the set of pages an eviction could free incrementally:  *)
(* a page that gains or loses its one owner besides the index walks up its *)
(* parents, counting the held children of each.  Every caller holds the    *)
(* pool's lock, so at most one call is in progress; op says how far it is. *)
(* A call is its first step and then one step per turn of its loop         *)
(* (_pin_above, _unpin_above, evict), and no other call starts before it   *)
(* ends.                                                                   *)
(***************************************************************************)
EXTENDS Integers, FiniteSets, Bags

CONSTANTS
    Pages,      \* the pages of the pool
    Keys,       \* the keys of whole prompt prefixes
    KeyParent,  \* KeyParent[k]: the key of the prefix one page shorter, or None
    None,       \* no page, no key
    UseSpare,   \* whether eviction is given keys to drop last (the worker's pool)
    UseDrop,    \* whether entries are taken back by drop (the routing mirror)
    MaxRefs,    \* bound on the owners of a page besides the index
    MaxClock    \* bound on the recency clock

ASSUME PrefixIndexAssumption ==
    /\ IsFiniteSet(Pages)
    /\ None \notin Pages /\ None \notin Keys
    /\ KeyParent \in [Keys -> Keys \cup {None}]
    /\ UseSpare \in BOOLEAN /\ UseDrop \in BOOLEAN
    /\ MaxRefs \in Nat /\ MaxClock \in Nat

VARIABLES
    owners,     \* PageArena.num_owners
    refs,       \* how many of the owners are callers: leases, streams, holds
    byKey,      \* PrefixIndex._by_key
    key,        \* PrefixIndex._key
    parent,     \* PrefixIndex._parent
    children,   \* PrefixIndex._children
    heldBelow,  \* PrefixIndex._held_below
    evictable,  \* PrefixIndex._evictable
    stamp,      \* PrefixIndex._stamp
    leaves,     \* PrefixIndex._leaves, a heap that may hold an entry twice
    clock,      \* PrefixIndex._clock
    op          \* the call in progress

pageVars == <<owners, refs, byKey, key, parent, children, heldBelow, evictable>>
heapVars == <<stamp, leaves, clock>>
vars == <<pageVars, heapVars, op>>

Entries == (0..MaxClock) \X Pages
Entry(p) == <<stamp[p], p>>

Idle == [at |-> "idle"]
Pinning(p) == IF p = None THEN Idle ELSE [at |-> "pin", page |-> p]
Unpinning(p) == IF p = None THEN Idle ELSE [at |-> "unpin", page |-> p]
Evicting(n, sp, passed, spared) ==
    [at |-> "evict", n |-> n, spare |-> sp, passed |-> passed, spared |-> spared]

Indexed == {p \in Pages : key[p] # None}
ChildrenOf(p) == {c \in Pages : parent[c] = p}

IsBagOf(B, S) == IsABag(B) /\ DOMAIN B \subseteq S

PagesTyped ==
    /\ owners \in [Pages -> Nat] /\ refs \in [Pages -> Nat]
    /\ byKey \in [Keys -> Pages \cup {None}]
    /\ key \in [Pages -> Keys \cup {None}]
    /\ parent \in [Pages -> Pages \cup {None}]
    /\ children \in [Pages -> Nat] /\ heldBelow \in [Pages -> Nat]
    /\ evictable \subseteq Pages

HeapTyped ==
    /\ stamp \in [Pages -> 0..MaxClock] /\ clock \in 0..MaxClock
    /\ IsBagOf(leaves, Entries)

OpTyped ==
    \/ op = Idle
    \/ op \in [at : {"pin", "unpin"}, page : Pages]
    \/ /\ op = Evicting(op.n, op.spare, op.passed, op.spared)
       /\ op.n \in Nat /\ op.spare \subseteq Keys
       /\ IsBagOf(op.passed, Entries) /\ IsBagOf(op.spared, Entries)

TypeOK == PagesTyped /\ HeapTyped /\ OpTyped

-----------------------------------------------------------------------------
(***************************************************************************)
(* set_shared: page p, whose parent is par, gains or loses its one owner   *)
(* besides the index.  Nothing changes for a page that is not indexed or   *)
(* has a held page below it; else the walk up starts at the parent.        *)
(***************************************************************************)
SetShared(p, shared, par) ==
    IF shared THEN evictable' = evictable \ {p} /\ op' = Pinning(par)
              ELSE evictable' = evictable \cup {p} /\ op' = Unpinning(par)

Ignored == UNCHANGED evictable /\ op' = Idle

\* One turn of _pin_above, at op.page.
PinAbove ==
    LET p == op.page
    IN /\ op.at = "pin"
       /\ heldBelow' = [heldBelow EXCEPT ![p] = @ + 1]
       /\ IF heldBelow[p] + 1 > 1 \/ owners[p] > 1
            THEN Ignored
            ELSE SetShared(p, TRUE, parent[p])
       /\ UNCHANGED <<owners, refs, byKey, key, parent, children, heapVars>>

\* Fault: a page that is itself held becomes evictable with the last held child.
FaultyUnpinAbove ==
    /\ op.at = "unpin"
    /\ heldBelow' = [heldBelow EXCEPT ![op.page] = @ - 1]
    /\ IF heldBelow[op.page] - 1 # 0 THEN Ignored
       ELSE SetShared(op.page, FALSE, parent[op.page])
    /\ UNCHANGED <<owners, refs, byKey, key, parent, children, heapVars>>

\* One turn of _unpin_above, at op.page.
UnpinAbove ==
    LET p == op.page
    IN /\ op.at = "unpin"
       /\ heldBelow' = [heldBelow EXCEPT ![p] = @ - 1]
       /\ IF heldBelow[p] - 1 # 0 \/ owners[p] > 1
            THEN Ignored
            ELSE SetShared(p, FALSE, parent[p])
       /\ UNCHANGED <<owners, refs, byKey, key, parent, children, heapVars>>

-----------------------------------------------------------------------------
(* PageArena *)

Acquire(p) ==
    /\ op = Idle /\ owners[p] = 0 /\ MaxRefs > 0
    /\ owners' = [owners EXCEPT ![p] = 1]
    /\ refs' = [refs EXCEPT ![p] = 1]
    /\ UNCHANGED <<byKey, key, parent, children, heldBelow, evictable, heapVars, op>>

\* A caller retains a page it holds (a fork) or found in the index (a hit).
Retain(p) ==
    /\ op = Idle /\ owners[p] > 0 /\ refs[p] < MaxRefs
    /\ owners' = [owners EXCEPT ![p] = @ + 1]
    /\ refs' = [refs EXCEPT ![p] = @ + 1]
    /\ IF owners[p] + 1 = 2 /\ key[p] # None /\ heldBelow[p] = 0
         THEN SetShared(p, TRUE, parent[p])
         ELSE Ignored
    /\ UNCHANGED <<byKey, key, parent, children, heldBelow, heapVars>>

\* Fault: held pages below are not looked at.
FaultyRelease(p) ==
    /\ op = Idle /\ refs[p] > 0
    /\ owners' = [owners EXCEPT ![p] = @ - 1]
    /\ refs' = [refs EXCEPT ![p] = @ - 1]
    /\ IF owners[p] - 1 = 1 /\ key[p] # None THEN SetShared(p, FALSE, parent[p]) ELSE Ignored
    /\ UNCHANGED <<byKey, key, parent, children, heldBelow, heapVars>>

\* A caller releases a page it holds; the last owner frees it.
Release(p) ==
    /\ op = Idle /\ refs[p] > 0
    /\ owners' = [owners EXCEPT ![p] = @ - 1]
    /\ refs' = [refs EXCEPT ![p] = @ - 1]
    /\ IF owners[p] - 1 = 1 /\ key[p] # None /\ heldBelow[p] = 0
         THEN SetShared(p, FALSE, parent[p])
         ELSE Ignored
    /\ UNCHANGED <<byKey, key, parent, children, heldBelow, heapVars>>

-----------------------------------------------------------------------------
(* PrefixIndex *)

(***************************************************************************)
(* insert: page p, which its caller holds, is named by k under the page    *)
(* that k's parent key names.  An indexed key keeps its page (no change).  *)
(* A parent the index alone holds is passed over: under it, p would pin a  *)
(* page the pool counts as evictable.  Becoming the index's, p always has  *)
(* another owner, so the pages above it are pinned, by retain when p had   *)
(* one owner and by the call after it when p had more.                     *)
(***************************************************************************)
ParentFor(k) ==
    LET par == IF KeyParent[k] = None THEN None ELSE byKey[KeyParent[k]]
    IN IF par # None /\ owners[par] = 1 THEN None ELSE par

Insert(k, p) ==
    LET par == ParentFor(k)
    IN /\ op = Idle /\ clock < MaxClock
       /\ byKey[k] = None /\ key[p] = None /\ refs[p] > 0
       /\ byKey' = [byKey EXCEPT ![k] = p]
       /\ key' = [key EXCEPT ![p] = k]
       /\ parent' = [parent EXCEPT ![p] = par]
       /\ children' = [q \in Pages |-> IF q = p THEN 0
                                       ELSE IF q = par THEN children[q] + 1 ELSE children[q]]
       /\ heldBelow' = [heldBelow EXCEPT ![p] = 0]
       /\ owners' = [owners EXCEPT ![p] = @ + 1]
       /\ SetShared(p, TRUE, par)
       /\ clock' = clock + 1
       /\ stamp' = [stamp EXCEPT ![p] = clock + 1]
       /\ leaves' = leaves (+) SetToBag({<<clock + 1, p>>})
       /\ UNCHANGED refs

\* lookup and touch: one stamp for every page of the run a prompt matched.
Touch(run) ==
    /\ op = Idle /\ clock < MaxClock
    /\ run # {} /\ run \subseteq Indexed
    /\ clock' = clock + 1
    /\ stamp' = [p \in Pages |-> IF p \in run THEN clock + 1 ELSE stamp[p]]
    /\ UNCHANGED <<pageVars, leaves, op>>

\* A prompt matches the pages of its keys up to the first one not indexed.
Run(k) ==
    LET above[n \in 0..Cardinality(Keys)] ==
            IF n = 0 THEN {k}
            ELSE LET below == above[n - 1] IN below \cup {KeyParent[j] : j \in below \ {None}}
    IN above[Cardinality(Keys)] \ {None}

Lookup(k) ==
    LET run == Run(k)
    IN /\ \A j \in run : byKey[j] # None
       /\ Touch({byKey[j] : j \in run})

\* Fault: a parent left with no child is not put back in the heap.
FaultyRemove(p, heap) ==
    /\ evictable' = evictable \ {p}
    /\ byKey' = [byKey EXCEPT ![key[p]] = None]
    /\ key' = [key EXCEPT ![p] = None]
    /\ parent' = [parent EXCEPT ![p] = None]
    /\ owners' = [owners EXCEPT ![p] = @ - 1]
    /\ children' = [q \in Pages |-> IF q = parent[p] THEN children[q] - 1 ELSE children[q]]
    /\ leaves' = heap
    /\ UNCHANGED <<refs, heldBelow, stamp, clock>>

\* Fault: the page's own children count is changed, not its parent's.
FaultyRemoveChild(p, heap) ==
    /\ evictable' = evictable \ {p}
    /\ byKey' = [byKey EXCEPT ![key[p]] = None]
    /\ key' = [key EXCEPT ![p] = None]
    /\ parent' = [parent EXCEPT ![p] = None]
    /\ owners' = [owners EXCEPT ![p] = @ - 1]
    /\ children' = [children EXCEPT ![p] = @ - 1]
    /\ leaves' = heap
    /\ UNCHANGED <<refs, heldBelow, stamp, clock>>

(***************************************************************************)
(* _remove: the index gives up its entry of p, a leaf it alone holds, and  *)
(* the page is free.  A parent left with no child is a leaf again.         *)
(***************************************************************************)
Remove(p, heap) ==
    LET par == parent[p]
        lastChild == par # None /\ children[par] - 1 = 0 /\ key[par] # None
    IN /\ evictable' = evictable \ {p}
       /\ byKey' = [byKey EXCEPT ![key[p]] = None]
       /\ key' = [key EXCEPT ![p] = None]
       /\ parent' = [parent EXCEPT ![p] = None]
       /\ owners' = [owners EXCEPT ![p] = @ - 1]
       /\ children' = [q \in Pages |-> IF q = par THEN children[q] - 1 ELSE children[q]]
       /\ leaves' = IF lastChild THEN heap (+) SetToBag({Entry(par)}) ELSE heap
       /\ UNCHANGED <<refs, heldBelow, stamp, clock>>

Oldest(B) == {e \in BagToSet(B) : \A f \in BagToSet(B) : e[1] <= f[1]}

\* evict(n, spare) starts: sp are the indexed keys that spare accepts.
Evict(n, sp) ==
    /\ op = Idle
    /\ UseSpare \/ sp = {}
    /\ op' = Evicting(n, sp, EmptyBag, EmptyBag)
    /\ UNCHANGED <<pageVars, heapVars>>

\* An entry of the heap that names no leaf.
Stale(e) == key[e[2]] = None \/ children[e[2]] # 0

\* Fault: a leaf is taken under whatever stamp its entry has.
FaultyOutdated(e) == FALSE

\* An entry that names a leaf under an older stamp.
Outdated(e) == ~Stale(e) /\ stamp[e[2]] # e[1]

\* One turn of _pop_leaf that finds a stale or an outdated entry on top.
PopLeaf ==
    /\ op.at = "evict" /\ op.n > 0
    /\ \E e \in Oldest(leaves) :
         \/ /\ Stale(e)
            /\ leaves' = leaves (-) SetToBag({e})
         \/ /\ Outdated(e)
            /\ leaves' = (leaves (-) SetToBag({e})) (+) SetToBag({Entry(e[2])})
    /\ UNCHANGED <<pageVars, stamp, clock, op>>

\* Fault: spare is not asked.
FaultyEvictLeaf ==
    /\ op.at = "evict" /\ op.n > 0
    /\ \E e \in Oldest(leaves) :
         /\ ~Stale(e) /\ ~Outdated(e)
         /\ \/ /\ owners[e[2]] > 1
               /\ op' = [op EXCEPT !.passed = @ (+) SetToBag({e})]
               /\ leaves' = leaves (-) SetToBag({e})
               /\ UNCHANGED <<pageVars, stamp, clock>>
            \/ /\ owners[e[2]] <= 1
               /\ Remove(e[2], leaves (-) SetToBag({e}))
               /\ op' = [op EXCEPT !.n = @ - 1]

\* Fault: a held leaf goes straight back to the heap.
FaultyEvictLeafLoops ==
    /\ op.at = "evict" /\ op.n > 0
    /\ \E e \in Oldest(leaves) :
         /\ ~Stale(e) /\ ~Outdated(e)
         /\ \/ owners[e[2]] > 1 /\ UNCHANGED vars
            \/ /\ owners[e[2]] <= 1
               /\ Remove(e[2], leaves (-) SetToBag({e}))
               /\ op' = [op EXCEPT !.n = @ - 1]

\* One turn of evict's loop on the oldest leaf.
EvictLeaf ==
    /\ op.at = "evict" /\ op.n > 0
    /\ \E e \in Oldest(leaves) :
         LET p == e[2]
             rest == leaves (-) SetToBag({e})
         IN /\ ~Stale(e) /\ ~Outdated(e)
            /\ \/ /\ owners[p] > 1
                  /\ op' = [op EXCEPT !.passed = @ (+) SetToBag({e})]
                  /\ leaves' = rest
                  /\ UNCHANGED <<pageVars, stamp, clock>>
               \/ /\ owners[p] <= 1 /\ key[p] \in op.spare
                  /\ op' = [op EXCEPT !.spared = @ (+) SetToBag({e})]
                  /\ leaves' = rest
                  /\ UNCHANGED <<pageVars, stamp, clock>>
               \/ /\ owners[p] <= 1 /\ key[p] \notin op.spare
                  /\ Remove(p, rest)
                  /\ op' = [op EXCEPT !.n = @ - 1]

(***************************************************************************)
(* No other leaf is left, so the oldest spared one is dropped.  _remove    *)
(* raises a KeyError on a page that is no longer indexed: the call would   *)
(* be stuck here.                                                          *)
(***************************************************************************)
EvictSpared ==
    /\ op.at = "evict" /\ op.n > 0
    /\ leaves = EmptyBag
    /\ \E e \in Oldest(op.spared) :
         LET p == e[2]
             rest == op.spared (-) SetToBag({e})
         IN \/ /\ owners[p] > 1
               /\ op' = [op EXCEPT !.spared = rest, !.passed = @ (+) SetToBag({e})]
               /\ UNCHANGED <<pageVars, heapVars>>
            \/ /\ owners[p] <= 1 /\ key[p] # None
               /\ Remove(p, leaves)
               /\ op' = [op EXCEPT !.spared = rest, !.n = @ - 1]

EvictEnd ==
    /\ op.at = "evict"
    /\ op.n = 0 \/ (leaves = EmptyBag /\ op.spared = EmptyBag)
    /\ leaves' = leaves (+) op.passed (+) op.spared
    /\ op' = Idle
    /\ UNCHANGED <<pageVars, stamp, clock>>

\* drop, on one entry: the mirror takes back what it predicted.
Drop(k) ==
    LET p == byKey[k]
    IN /\ UseDrop /\ op = Idle
       /\ p # None /\ children[p] = 0 /\ owners[p] = 1
       /\ Remove(p, leaves)
       /\ UNCHANGED op

-----------------------------------------------------------------------------
Init ==
    /\ owners = [p \in Pages |-> 0] /\ refs = [p \in Pages |-> 0]
    /\ byKey = [k \in Keys |-> None] /\ key = [p \in Pages |-> None]
    /\ parent = [p \in Pages |-> None]
    /\ children = [p \in Pages |-> 0] /\ heldBelow = [p \in Pages |-> 0]
    /\ evictable = {}
    /\ stamp = [p \in Pages |-> 0] /\ leaves = EmptyBag /\ clock = 0
    /\ op = Idle

Climb == PinAbove \/ UnpinAbove
EvictLoop == PopLeaf \/ EvictLeaf \/ EvictSpared \/ EvictEnd

Next ==
    \/ Climb
    \/ EvictLoop
    \/ \E p \in Pages : Acquire(p) \/ Retain(p) \/ Release(p)
    \/ \E k \in Keys, p \in Pages : Insert(k, p)
    \/ \E k \in Keys : Lookup(k) \/ Drop(k)
    \/ \E n \in 1..Cardinality(Pages), sp \in SUBSET {key[p] : p \in Indexed} : Evict(n, sp)

Spec == Init /\ [][Next]_vars

\* The loop of a call runs to its end: the thread in it holds the lock.
FairSpec == Spec /\ WF_vars(Climb) /\ WF_vars(EvictLoop)

-----------------------------------------------------------------------------
(* Properties *)

\* The pages above p, and p itself: those in every set that p is in and that parents do not
\* leave.
Lineage(p) ==
    {q \in Pages : \A S \in SUBSET Pages :
        (p \in S /\ \A c \in S : parent[c] \in S \cup {None}) => q \in S}

(***************************************************************************)
(* The evictable set is exact: between calls it holds the indexed pages    *)
(* such that neither the page nor a page below it has an owner besides the *)
(* index.  The pool counts the set as room (KVManager._room): a page too   *)
(* many and an admitted request finds no page, one too few and a waiting   *)
(* request that fits is left waiting.                                      *)
(***************************************************************************)
EvictableExact ==
    op = Idle =>
        evictable = {p \in Indexed :
                        \A q \in Indexed : p \in Lineage(q) => owners[q] = 1}

(***************************************************************************)
(* The same, one level at a time, and at every step of a walk up: a page   *)
(* is busy when it has another owner or busy children, heldBelow counts    *)
(* the busy children (all but the one the walk has yet to tell it of), and *)
(* the evictable pages are the indexed ones that are not busy.             *)
(***************************************************************************)
Busy(p) == owners[p] > 1 \/ heldBelow[p] > 0
BusyChildren(p) == {c \in ChildrenOf(p) : Busy(c)}
Untold(p) == IF op.at = "pin" /\ op.page = p THEN 1
             ELSE IF op.at = "unpin" /\ op.page = p THEN -1 ELSE 0

EvictableLocal ==
    /\ evictable = {p \in Indexed : ~Busy(p)}
    /\ \A p \in Pages : Cardinality(BusyChildren(p)) = heldBelow[p] + Untold(p)

(***************************************************************************)
(* The entries are a forest whose parts agree: a key names the page that   *)
(* is named by it, a page's owners are its callers and the index, a parent *)
(* outlives its children, and children counts them (the first assertion of *)
(* insert, and what lets evict take a page with no children as a leaf).    *)
(***************************************************************************)
ForestOK ==
    /\ \A k \in Keys : byKey[k] # None => key[byKey[k]] = k
    /\ \A p \in Pages :
         /\ key[p] # None => byKey[key[p]] = p
         /\ owners[p] = refs[p] + (IF key[p] # None THEN 1 ELSE 0)
         /\ parent[p] # None => key[p] # None /\ key[parent[p]] # None
         /\ children[p] = Cardinality(ChildrenOf(p))

(***************************************************************************)
(* Eviction reaches every evictable page: when evict gives up for want of  *)
(* a leaf, no evictable page is left.  This is assert_evictable; KVManager *)
(* raises "allotments count pages the pool can't reach" where it fails.    *)
(***************************************************************************)
EvictReachesAll ==
    (op.at = "evict" /\ leaves = EmptyBag /\ op.spared = EmptyBag) => evictable = {}

(***************************************************************************)
(* Eviction takes the least recently used leaf first, although a hit does  *)
(* not move the leaf's entry in the heap: a page dropped was stamped no    *)
(* later than any other evictable leaf, save the ones to be dropped last.  *)
(***************************************************************************)
EvictsOldest ==
    [][\A p \in Indexed :
         (op.at = "evict" /\ key'[p] = None /\ key[p] \notin op.spare) =>
            \A q \in evictable :
                (children[q] = 0 /\ key[q] \notin op.spare) => stamp[p] <= stamp[q]]_vars

(***************************************************************************)
(* A page whose copy to the host is awaited is dropped only when nothing   *)
(* else could be: no other evictable page is left but spared ones and the  *)
(* pages above them.                                                       *)
(***************************************************************************)
SparedGoLast ==
    [][\A p \in Indexed :
         (op.at = "evict" /\ key'[p] = None /\ key[p] \in op.spare) =>
            \A q \in evictable : children[q] = 0 => key[q] \in op.spare]_vars

\* Every call returns: the walk up and the eviction loop end.
CallsReturn == op # Idle ~> op = Idle

=============================================================================
