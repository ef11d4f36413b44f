-------------------------------- MODULE KVPool --------------------------------
(***************************************************************************)
(* The page accounting of a KV pool on a rank that decides admission       *)
(* (mstar/engine/resources/kv/manager.py, KVManager): allotments, leases   *)
(* of cached prefixes, the pages a step is admitted with, commit and       *)
(* rollback, offload to the host and reload, and the prefix index the      *)
(* pages are filed in.                                                     *)
(*                                                                         *)
(* Every action is one critical section of the manager's lock.  offload    *)
(* and reload drop the lock while they copy, so each is two.  A request    *)
(* has one stream; lengths count whole pages.  The index is taken by what  *)
(* module PrefixIndex shows of it: its evictable set is the set of indexed *)
(* pages with no holder at them or below them, and eviction frees any      *)
(* number of those, leaves first.  Which leaf goes first is left open.     *)
(***************************************************************************)
EXTENDS Integers, FiniteSets, Sequences, Functions

CONSTANTS
    Pages,      \* the device pages
    Rids,       \* request ids
    Keys,       \* keys of whole prompt prefixes, one per page
    Chain,      \* Chain[r]: the keys of r's prompt, a sequence
    Limit,      \* Limit[r]: the pages r's stream grows to, prompt and reply
    MaxSpan,    \* bound on the pages one step of a prefill writes
    HostPages,  \* the pages of the host pool
    None        \* no page, and nothing written

ASSUME KVPoolAssumption ==
    /\ IsFiniteSet(Pages) /\ IsFiniteSet(Rids)
    /\ None \notin Pages /\ None \notin Keys /\ None \notin Rids
    /\ Chain \in [Rids -> Seq(Keys)] /\ Limit \in [Rids -> Nat]
    /\ \A r \in Rids : Len(Chain[r]) \in 1..Cardinality(Pages)
    \* A key hashes the key before it (page_key), so it has one place, behind one key.
    /\ \A r, q \in Rids : \A i \in 1..Len(Chain[r]), j \in 1..Len(Chain[q]) :
          Chain[r][i] = Chain[q][j] => i = j /\ (i > 1 => Chain[r][i - 1] = Chain[q][i - 1])
    /\ MaxSpan \in Nat /\ HostPages \in Nat

VARIABLES
    owners,     \* PageArena.num_owners
    byKey,      \* PrefixIndex._by_key
    parent,     \* PrefixIndex._parent
    content,    \* what a page holds: the key of a prompt page, or the rid of a reply
    live,       \* the requests ingested and not removed
    pages,      \* CacheStream.page_indices
    lease,      \* CacheStream.lease, <<>> for none
    stored,     \* CacheStream.stored_len, in pages
    cursor,     \* PrefixChain.cursor: the stream's pages offered to the index
    lent,       \* CacheStream.lent
    flight,     \* pages the admitted step writes, 0 with no step_in_flight
    reserved,   \* KVManager._admit_reserved_pages: how many pages of the tail
    stage,      \* where the stream is: "device", "claimed", "host", "landing"
    host,       \* CPUPagePool.offloaded: the copy of the stream on the host
    allot,      \* KVManager._allotments: NoAllot before reserve
    unused,     \* KVManager._unused
    mark        \* the RoomMark of a request that did not fit, or NoMark

poolVars == <<owners, byKey, parent, content>>
streamVars == <<pages, lease, stored, cursor, lent, flight, reserved>>
vars == <<poolVars, live, streamVars, stage, host, allot, unused, mark>>

NoAllot == [pages |-> -1, remaining |-> 0]
NoMark == [room |-> -1, moved |-> FALSE]
NoCopy == [data |-> <<>>, keyed |-> 0, run |-> 0]

Least(a, b) == IF a < b THEN a ELSE b
Most(a, b) == IF a > b THEN a ELSE b

-----------------------------------------------------------------------------
(* The index and the arena *)

FreeOf(own) == {p \in Pages : own[p] = 0}

\* The indexed pages but those a request holds and the pages above these: the
\* largest set of indexed pages that nobody holds and that is whole downwards.
EvictableOf(own, bk, par) ==
    LET indexed == Range(bk) \ {None}
    IN UNION {S \in SUBSET {p \in indexed : own[p] <= 1} :
                \A p \in indexed : par[p] \in S => p \in S}

Free == FreeOf(owners)
Evictable == EvictableOf(owners, byKey, parent)

Plus(own, S) == [p \in Pages |-> IF p \in S THEN own[p] + 1 ELSE own[p]]
Minus(own, S) == [p \in Pages |-> IF p \in S THEN own[p] - 1 ELSE own[p]]

\* PrefixIndex.pages_for on the first n keys of r's prompt.
PagesFor(r, n) ==
    LET hits == {i \in 0..n : \A j \in 1..i : byKey[Chain[r][j]] # None}
        len == CHOOSE i \in hits : \A j \in hits : j <= i
    IN [i \in 1..len |-> byKey[Chain[r][i]]]

\* What a request holds at position i once it has written it.
KeyAt(r, i) == IF i <= Len(Chain[r]) THEN Chain[r][i] ELSE r

(***************************************************************************)
(* insert_run and _index_filled_pages: the pages of pg at the positions    *)
(* from .. to of r's prompt are named by their keys, each under the page   *)
(* that names the key before, unless the index alone holds that one.  A    *)
(* key already indexed keeps its page, and pg's stays private.             *)
(***************************************************************************)
File(r, pg, from, to) ==
    LET new == {i \in from..to : byKey[Chain[r][i]] = None}
        filed == {pg[i] : i \in new}
        bk == [k \in Keys |-> IF \E i \in new : Chain[r][i] = k
                                THEN pg[CHOOSE i \in new : Chain[r][i] = k] ELSE byKey[k]]
        own == Plus(owners, filed)
        above == [p \in filed |->
                    LET i == CHOOSE j \in new : pg[j] = p
                    IN IF i = 1 THEN None ELSE bk[Chain[r][i - 1]]]
    IN /\ byKey' = bk
       /\ owners' = own
       /\ parent' = [p \in Pages |->
                        IF p \notin filed THEN parent[p]
                        ELSE IF above[p] # None /\ own[above[p]] = 1 THEN None ELSE above[p]]
       /\ mark' = [q \in Rids |-> IF mark[q] # NoMark /\ filed # {}
                                    THEN [mark[q] EXCEPT !.moved = TRUE] ELSE mark[q]]

\* Fault: taking a page moves no count.
FaultyTaken(S) == UNCHANGED mark

\* PrefixIndex.taken moves when a request takes an evictable page.
Taken(S) ==
    mark' = [q \in Rids |-> IF mark[q] # NoMark /\ S \cap Evictable # {}
                              THEN [mark[q] EXCEPT !.moved = TRUE] ELSE mark[q]]

-----------------------------------------------------------------------------
(* Room and allotments *)

Room == Cardinality(Free) + Cardinality(Evictable) - unused

Allotted(r) == allot[r] # NoAllot

\* _allowance
Allowance(r) == allot[r].remaining + Room

(***************************************************************************)
(* _need: the prompt's pages, less the whole pages of its hit (the last    *)
(* page is never served), plus those of the hit that are evictable.        *)
(***************************************************************************)
Need(r) ==
    LET hit == Range(PagesFor(r, Len(Chain[r]) - 1))
    IN Len(Chain[r]) - Cardinality(hit) + Cardinality(hit \cap Evictable)

\* What _recount leaves of an allotment of n pages when held of them are used.
Remaining(n, held) == Most(0, n - held)

\* _recount: r's stream now holds len pages, of which ln are lent.
Recount(r, n, len, ln) ==
    LET left == Remaining(n, len - Cardinality(ln))
    IN IF ~Allotted(r) THEN UNCHANGED <<allot, unused>>
       ELSE /\ allot' = [allot EXCEPT ![r] = [pages |-> n, remaining |-> left]]
            /\ unused' = unused + left - allot[r].remaining

(***************************************************************************)
(* _release of the pages S of r's stream, which leaves len pages on it.  A *)
(* page that is not lent shrinks the allotment when its release leaves it  *)
(* neither free nor evictable, and always without a refund.                *)
(***************************************************************************)
ReleasePages(r, S, len, refund) ==
    LET own == Minus(owners, S)
        gone == {p \in S \ lent[r] :
                    ~refund \/ (own[p] > 0 /\ p \notin EvictableOf(own, byKey, parent))}
    IN /\ owners' = own
       /\ lent' = [lent EXCEPT ![r] = @ \ S]
       /\ Recount(r, Most(0, allot[r].pages - Cardinality(gone)), len, lent[r] \ S)

\* Fault: an evicted page keeps its key.
FaultyGrantPages(own, E, got) ==
    /\ owners' = [p \in Pages |-> IF p \in Range(got) THEN 1 ELSE own[p]]
    /\ UNCHANGED <<byKey, parent>>

(***************************************************************************)
(* _grant: n pages from the free ones, and from evicted ones when too few  *)
(* are free.  An eviction takes evictable pages, none before the pages     *)
(* below it.  Got is the sequence of pages granted, in any order.          *)
(***************************************************************************)
Evictions(own, n) ==
    LET evict == EvictableOf(own, byKey, parent)
        short == Most(0, n - Cardinality(FreeOf(own)))
    IN {E \in SUBSET evict :
            /\ Cardinality(E) = short
            /\ \A p \in E : \A q \in Pages : parent[q] = p => q \in E}

Distinct(S, n) == {s \in [1..n -> S] : \A i, j \in 1..n : i # j => s[i] # s[j]}

Grants(own, E, n) ==
    {s \in Distinct(FreeOf(own) \cup E, n) : E \subseteq Range(s)}

GrantPages(own, E, got) ==
    /\ owners' = [p \in Pages |-> IF p \in Range(got) THEN 1 ELSE own[p]]
    /\ byKey' = [k \in Keys |-> IF byKey[k] \in E THEN None ELSE byKey[k]]
    /\ parent' = [p \in Pages |-> IF p \in E THEN None ELSE parent[p]]

-----------------------------------------------------------------------------
(* Admission *)

Ingest(r) ==
    /\ r \notin live
    /\ live' = live \cup {r}
    /\ UNCHANGED <<poolVars, streamVars, stage, host, allot, unused, mark>>

\* ask and reserve: an allotment, or a mark of what r did not fit against.
Reserve(r) ==
    /\ r \in live /\ ~Allotted(r)
    /\ IF Need(r) > Room
         THEN /\ mark' = [mark EXCEPT ![r] = [room |-> Room, moved |-> FALSE]]
              /\ UNCHANGED <<allot, unused>>
         ELSE /\ mark' = [mark EXCEPT ![r] = NoMark]
              /\ allot' = [allot EXCEPT ![r] = [pages |-> Need(r), remaining |-> Need(r)]]
              /\ unused' = unused + Need(r)
    /\ UNCHANGED <<poolVars, live, streamVars, stage, host>>

\* unreserve: another resource r asks did not fit.
Unreserve(r) ==
    /\ Allotted(r) /\ pages[r] = <<>> /\ lease[r] = <<>> /\ stage[r] = "device"
    /\ unused' = unused - allot[r].remaining
    /\ allot' = [allot EXCEPT ![r] = NoAllot]
    /\ UNCHANGED <<poolVars, live, streamVars, stage, host, mark>>

-----------------------------------------------------------------------------
(* Leases *)

\* _retain_cached: the longest prefix of run whose evictable pages r's allowance covers.
Affordable(r, run) ==
    LET cost(n) == Cardinality({i \in 1..n : run[i] \in Evictable})
        fits == {n \in 0..Len(run) : cost(n) <= Most(0, Allowance(r))}
    IN SubSeq(run, 1, CHOOSE n \in fits : \A m \in fits : m <= n)

(***************************************************************************)
(* _lease: the cached pages of the prompt but its last.  A page that is    *)
(* not evictable is lent, and an evictable one comes out of the allowance. *)
(***************************************************************************)
Lease(r) ==
    LET run == Affordable(r, PagesFor(r, Len(Chain[r]) - 1))
        ln == lent[r] \cup (Range(run) \ Evictable)
    IN /\ Allotted(r) /\ stage[r] = "device"
       /\ stored[r] = 0 /\ pages[r] = <<>> /\ lease[r] = <<>> /\ run # <<>>
       /\ owners' = Plus(owners, Range(run))
       /\ lease' = [lease EXCEPT ![r] = run]
       /\ lent' = [lent EXCEPT ![r] = ln]
       /\ Recount(r, allot[r].pages, Len(run), ln)
       /\ Taken(Range(run))
       /\ UNCHANGED <<byKey, parent, content, live, pages, stored, cursor, flight, reserved,
                      stage, host>>

-----------------------------------------------------------------------------
(* A step *)

\* The stream once admit has converted its lease.
Converts(r) == lease[r] # <<>> /\ stored[r] = 0
Held(r) == IF Converts(r) THEN lease[r] ELSE pages[r]
\* Fault: the last leased page is written again.
FaultyWritten(r) == IF Converts(r) THEN Len(lease[r]) - 1 ELSE stored[r]

Written(r) == IF Converts(r) THEN Len(lease[r]) ELSE stored[r]

Spans(r) ==
    {n \in 1..MaxSpan :
        /\ Written(r) + n <= Limit[r]
        /\ IF Written(r) < Len(Chain[r]) THEN Written(r) + n <= Len(Chain[r]) ELSE n = 1}

Convert(r, pg) ==
    /\ pages' = [pages EXCEPT ![r] = pg]
    /\ lease' = [lease EXCEPT ![r] = <<>>]
    /\ stored' = [stored EXCEPT ![r] = Written(r)]
    /\ cursor' = [cursor EXCEPT ![r] = IF Converts(r) THEN Len(lease[r]) ELSE @]

MayStep(r) == Allotted(r) /\ flight[r] = 0 /\ stage[r] = "device"

(***************************************************************************)
(* admit: the lease becomes the stream's pages, and _alloc grants the      *)
(* pages the span needs: those the allotment has left without a check, the *)
(* rest out of the room.  Where no eviction reaches them _grant raises, so *)
(* no step is taken; GrantsAreMet says that this never happens.            *)
(***************************************************************************)
New(r, n) == Most(0, Written(r) + n - Len(Held(r)))
Within(r, n) == Least(New(r, n), allot[r].remaining)
\* Fault: the pages allotted to others count as room.
FaultyCovered(r, n) == New(r, n) - Within(r, n) <= Cardinality(Free) + Cardinality(Evictable)

Covered(r, n) == New(r, n) - Within(r, n) <= Most(0, Room)

Admit(r, n) ==
    /\ MayStep(r) /\ Covered(r, n)
    /\ \E E \in Evictions(owners, New(r, n)) : \E got \in Grants(owners, E, New(r, n)) :
         /\ GrantPages(owners, E, got)
         /\ Convert(r, Held(r) \o got)
    /\ flight' = [flight EXCEPT ![r] = n]
    /\ reserved' = [reserved EXCEPT ![r] = New(r, n)]
    /\ allot' = [allot EXCEPT ![r].remaining = @ - Within(r, n)]
    /\ unused' = unused - Within(r, n)
    /\ UNCHANGED <<content, live, lent, stage, host, mark>>

\* _alloc refuses: the lease stays converted, and nothing is granted.
AdmitRefused(r, n) ==
    /\ MayStep(r) /\ ~Covered(r, n) /\ Converts(r)
    /\ Convert(r, Held(r))
    /\ UNCHANGED <<poolVars, live, lent, flight, reserved, stage, host, allot, unused, mark>>

\* Fault: the pages come off the stream and are not released.
FaultyRollback(r) ==
    LET left == Len(pages[r]) - reserved[r]
    IN /\ flight[r] > 0
       /\ pages' = [pages EXCEPT ![r] = SubSeq(@, 1, left)]
       /\ Recount(r, allot[r].pages, left, lent[r])
       /\ flight' = [flight EXCEPT ![r] = 0]
       /\ reserved' = [reserved EXCEPT ![r] = 0]
       /\ UNCHANGED <<poolVars, live, lease, lent, stored, cursor, stage, host, mark>>

\* rollback_admit: the pages this admit acquired come off the tail.
Rollback(r) ==
    LET left == Len(pages[r]) - reserved[r]
    IN /\ flight[r] > 0
       /\ pages' = [pages EXCEPT ![r] = SubSeq(@, 1, left)]
       /\ ReleasePages(r, {pages[r][i] : i \in left + 1 .. Len(pages[r])}, left, TRUE)
       /\ flight' = [flight EXCEPT ![r] = 0]
       /\ reserved' = [reserved EXCEPT ![r] = 0]
       /\ UNCHANGED <<byKey, parent, content, live, lease, stored, cursor, stage, host, mark>>

\* commit: the span is written, and the prompt pages it filled are filed.
Commit(r) ==
    LET len == stored[r] + flight[r]
        filled == Least(len, Len(Chain[r]))
    IN /\ flight[r] > 0
       /\ stored' = [stored EXCEPT ![r] = len]
       /\ content' = [p \in Pages |->
                        IF \E i \in stored[r] + 1 .. len : pages[r][i] = p
                          THEN KeyAt(r, CHOOSE i \in stored[r] + 1 .. len : pages[r][i] = p)
                          ELSE content[p]]
       /\ File(r, pages[r], cursor[r] + 1, filled)
       /\ cursor' = [cursor EXCEPT ![r] = Most(@, filled)]
       /\ flight' = [flight EXCEPT ![r] = 0]
       /\ reserved' = [reserved EXCEPT ![r] = 0]
       /\ UNCHANGED <<live, pages, lease, lent, stage, host, allot, unused>>

-----------------------------------------------------------------------------
(* Leaving the device *)

\* drop: r's pages are released, to be written again by a rebuild of its tokens.
Drop(r) ==
    /\ MayStep(r) /\ stored[r] > 0
    /\ ReleasePages(r, Range(pages[r]) \cup Range(lease[r]), 0, TRUE)
    /\ pages' = [pages EXCEPT ![r] = <<>>]
    /\ lease' = [lease EXCEPT ![r] = <<>>]
    /\ stored' = [stored EXCEPT ![r] = 0]
    /\ cursor' = [cursor EXCEPT ![r] = 0]
    /\ UNCHANGED <<byKey, parent, content, live, flight, reserved, stage, host, mark>>

\* _claim_for_offload: no step may be in flight, and none is admitted after.
OffloadClaim(r) ==
    /\ MayStep(r) /\ pages[r] # <<>>
    /\ stage' = [stage EXCEPT ![r] = "claimed"]
    /\ UNCHANGED <<poolVars, live, streamVars, host, allot, unused, mark>>

\* _reusable
Reusable(p) == owners[p] = 1 \/ (owners[p] = 2 /\ p \in Range(byKey))

\* The leading pages of the stream the index names by their keys.
KeyedPages(r) ==
    LET same == {n \in 0..Least(cursor[r], Len(pages[r])) :
                    \A i \in 1..n : byKey[Chain[r][i]] = pages[r][i]}
    IN CHOOSE n \in same : \A m \in same : m <= n

(***************************************************************************)
(* CPUPagePool.place: two copies share the host pages of the keys both     *)
(* hold, and the host's other cached pages are evicted for a copy.         *)
(***************************************************************************)
HostKeys == UNION {{Chain[q][i] : i \in 1..host[q].keyed} : q \in Rids}
HostPrivate == UNION {{q} \X (host[q].keyed + 1 .. Len(host[q].data)) : q \in Rids}
HostFits(r) ==
    Len(pages[r]) + Cardinality(HostPrivate)
        + Cardinality(HostKeys \ {Chain[r][i] : i \in 1..KeyedPages(r)}) <= HostPages

(***************************************************************************)
(* _offload_stream and _commit_offload: the pages are on the host, so they *)
(* leave the stream and the allotment.                                     *)
(***************************************************************************)
OffloadCommit(r) ==
    /\ stage[r] = "claimed"
    /\ HostFits(r)
    /\ \E p \in Range(pages[r]) : Reusable(p)
    /\ host' = [host EXCEPT ![r] = [data |-> [i \in 1..Len(pages[r]) |-> content[pages[r][i]]],
                                    keyed |-> KeyedPages(r), run |-> 0]]
    /\ ReleasePages(r, Range(pages[r]), 0, FALSE)
    /\ pages' = [pages EXCEPT ![r] = <<>>]
    /\ stored' = [stored EXCEPT ![r] = 0]
    /\ stage' = [stage EXCEPT ![r] = "host"]
    /\ UNCHANGED <<byKey, parent, content, live, lease, cursor, flight, reserved, mark>>

\* _abandon_claims: the host is full, or nothing would be freed.
OffloadAbandon(r) ==
    /\ stage[r] = "claimed"
    /\ ~HostFits(r) \/ \A p \in Range(pages[r]) : ~Reusable(p)
    /\ stage' = [stage EXCEPT ![r] = "device"]
    /\ UNCHANGED <<poolVars, live, streamVars, host, allot, unused, mark>>

(***************************************************************************)
(* reload, up to the copy: the keyed pages the index still names are       *)
(* retained, which takes the evictable ones out of the room, and the rest  *)
(* are granted if the room covers them.  The allotment grows by all of     *)
(* them, and what it has left stays as it is.                              *)
(***************************************************************************)
ReloadRun(r) == PagesFor(r, host[r].keyed)
ReloadNeeds(r) == Len(host[r].data) - Len(ReloadRun(r))
ReloadFits(r) ==
    LET own == Plus(owners, Range(ReloadRun(r)))
    IN ReloadNeeds(r) <= Cardinality(FreeOf(own))
                         + Cardinality(EvictableOf(own, byKey, parent)) - unused

ReloadTake(r) ==
    LET run == ReloadRun(r)
        own == Plus(owners, Range(run))
        copy == host[r].data
    IN /\ stage[r] = "host" /\ ReloadFits(r)
       /\ \E E \in Evictions(own, ReloadNeeds(r)) : \E got \in Grants(own, E, ReloadNeeds(r)) :
            /\ GrantPages(own, E, got)
            /\ pages' = [pages EXCEPT ![r] = run \o got]
            /\ content' = [p \in Pages |->
                             IF p \in Range(got)
                               THEN copy[Len(run) + (CHOOSE i \in DOMAIN got : got[i] = p)]
                               ELSE content[p]]
       /\ stored' = [stored EXCEPT ![r] = Len(copy)]
       /\ allot' = [allot EXCEPT ![r].pages = @ + Len(copy)]
       /\ host' = [host EXCEPT ![r].run = Len(run)]
       /\ stage' = [stage EXCEPT ![r] = "landing"]
       /\ Taken(Range(run))
       /\ UNCHANGED <<live, lease, cursor, lent, flight, reserved, unused>>

\* The run is given back; taking it has moved the index's counts.
ReloadShort(r) ==
    /\ stage[r] = "host" /\ ~ReloadFits(r)
    /\ Taken(Range(ReloadRun(r)))
    /\ UNCHANGED <<poolVars, live, streamVars, stage, host, allot, unused>>

\* The copy is queued: the host pages are freed, and the copied pages filed.
ReloadLand(r) ==
    /\ stage[r] = "landing"
    /\ File(r, pages[r], host[r].run + 1, host[r].keyed)
    /\ stage' = [stage EXCEPT ![r] = "device"]
    /\ host' = [host EXCEPT ![r] = NoCopy]
    /\ UNCHANGED <<content, live, streamVars, allot, unused>>

\* remove_request, deferred by the worker until no step runs it.
Remove(r) ==
    /\ r \in live /\ flight[r] = 0 /\ stage[r] \in {"device", "host"}
    /\ owners' = Minus(owners, Range(pages[r]) \cup Range(lease[r]))
    /\ unused' = unused - allot[r].remaining
    /\ allot' = [allot EXCEPT ![r] = NoAllot]
    /\ live' = live \ {r}
    /\ pages' = [pages EXCEPT ![r] = <<>>]
    /\ lease' = [lease EXCEPT ![r] = <<>>]
    /\ stored' = [stored EXCEPT ![r] = 0]
    /\ cursor' = [cursor EXCEPT ![r] = 0]
    /\ lent' = [lent EXCEPT ![r] = {}]
    /\ host' = [host EXCEPT ![r] = NoCopy]
    /\ stage' = [stage EXCEPT ![r] = "device"]
    /\ mark' = [mark EXCEPT ![r] = NoMark]
    /\ UNCHANGED <<byKey, parent, content, flight, reserved>>

-----------------------------------------------------------------------------
Init ==
    /\ owners = [p \in Pages |-> 0]
    /\ byKey = [k \in Keys |-> None]
    /\ parent = [p \in Pages |-> None]
    /\ content = [p \in Pages |-> None]
    /\ live = {}
    /\ pages = [r \in Rids |-> <<>>] /\ lease = [r \in Rids |-> <<>>]
    /\ stored = [r \in Rids |-> 0] /\ cursor = [r \in Rids |-> 0]
    /\ lent = [r \in Rids |-> {}]
    /\ flight = [r \in Rids |-> 0] /\ reserved = [r \in Rids |-> 0]
    /\ stage = [r \in Rids |-> "device"]
    /\ host = [r \in Rids |-> NoCopy]
    /\ allot = [r \in Rids |-> NoAllot]
    /\ unused = 0
    /\ mark = [r \in Rids |-> NoMark]

Next ==
    \E r \in Rids :
        \/ Ingest(r) \/ Reserve(r) \/ Unreserve(r) \/ Lease(r)
        \/ \E n \in Spans(r) : Admit(r, n) \/ AdmitRefused(r, n)
        \/ Rollback(r) \/ Commit(r) \/ Drop(r)
        \/ OffloadClaim(r) \/ OffloadCommit(r) \/ OffloadAbandon(r)
        \/ ReloadTake(r) \/ ReloadShort(r) \/ ReloadLand(r)
        \/ Remove(r)

Spec == Init /\ [][Next]_vars

-----------------------------------------------------------------------------
(* Properties *)

TypeOK ==
    /\ owners \in [Pages -> Nat]
    /\ byKey \in [Keys -> Pages \cup {None}]
    /\ parent \in [Pages -> Pages \cup {None}]
    /\ content \in [Pages -> Keys \cup Rids \cup {None}]
    /\ live \subseteq Rids
    /\ pages \in [Rids -> Seq(Pages)] /\ lease \in [Rids -> Seq(Pages)]
    /\ stored \in [Rids -> Nat] /\ cursor \in [Rids -> Nat]
    /\ lent \in [Rids -> SUBSET Pages]
    /\ flight \in [Rids -> Nat] /\ reserved \in [Rids -> Nat]
    /\ stage \in [Rids -> {"device", "claimed", "host", "landing"}]
    /\ host \in [Rids -> [data : Seq(Keys \cup Rids \cup {None}), keyed : Nat, run : Nat]]
    /\ allot \in [Rids -> [pages : Nat, remaining : Nat] \cup {NoAllot}]
    /\ unused \in Nat
    /\ mark \in [Rids -> [room : Nat, moved : BOOLEAN] \cup {NoMark}]

\* assert_pages_conserved: the pages allotted and not yet used never outnumber
\* the pages that are free or could be evicted.
RoomCovered == unused <= Cardinality(Free) + Cardinality(Evictable)

(***************************************************************************)
(* What the count is for: a grant that the allotment and the room cover is *)
(* met by free pages and an eviction, for a step and for a reload, however *)
(* leases, refunds and reloads moved the count.  _grant raises where it is *)
(* not.                                                                    *)
(***************************************************************************)
GrantsAreMet ==
    /\ RoomCovered
    /\ \A r \in Rids :
        /\ MayStep(r) => \A n \in Spans(r) :
                Covered(r, n) => Evictions(owners, New(r, n)) # {}
        /\ stage[r] = "host" /\ ReloadFits(r) =>
                Evictions(Plus(owners, Range(ReloadRun(r))), ReloadNeeds(r)) # {}

(***************************************************************************)
(* The owners of a page are the streams and leases that hold it and the    *)
(* index: no reference is lost or counted twice on any path through lease, *)
(* admit, rollback, offload, reload and removal.                           *)
(***************************************************************************)
PagesConserved ==
    \A p \in Pages :
        owners[p] = Cardinality({r \in Rids : p \in Range(pages[r])})
                    + Cardinality({r \in Rids : p \in Range(lease[r])})
                    + Cardinality({k \in Keys : byKey[k] = p})

(***************************************************************************)
(* No lost wakeup (the assertion of grew_since): while neither the room    *)
(* nor the index's counts have moved past the mark of a request that did   *)
(* not fit, it still does not fit.                                         *)
(***************************************************************************)
MarkSound ==
    \A r \in live :
        (mark[r] # NoMark /\ ~Allotted(r) /\ ~mark[r].moved /\ Room <= mark[r].room)
            => Need(r) > Room

(***************************************************************************)
(* A request reads what it would have written: every page its stream       *)
(* counts as stored, leased from the index, filed by another request or    *)
(* reloaded from the host, holds the keys of that position of its own      *)
(* prompt, and every key the index serves names a page with its content.   *)
(***************************************************************************)
ReadsOwnPrefix ==
    /\ \A k \in Keys : byKey[k] # None => content[byKey[k]] = k
    /\ \A r \in Rids :
         /\ \A i \in 1..stored[r] : content[pages[r][i]] = KeyAt(r, i)
         /\ \A i \in DOMAIN lease[r] : content[lease[r][i]] = KeyAt(r, i)

(***************************************************************************)
(* The pages past a stream's stored length, which its step in flight       *)
(* writes, have no other owner: no step writes a page another request or   *)
(* the index reads.                                                        *)
(***************************************************************************)
FrontierPrivate ==
    \A r \in Rids : \A i \in stored[r] + 1 .. Len(pages[r]) : owners[pages[r][i]] = 1

=============================================================================
