------------------------------ MODULE Admission ------------------------------
(***************************************************************************)
(* The admission queues of one resource runner                             *)
(* (mstar/engine/resources/admission.py) together with the two things it   *)
(* talks to: the scheduler's parked readiness checks                       *)
(* (mstar/worker/micro_scheduler.py, _check_ready and _unpark) and the     *)
(* resources, taken by the contract of mstar/engine/resources/base.py      *)
(* (ask, reserve, unreserve, grew_since).                                  *)
(*                                                                         *)
(* Admission runs on the worker's thread.  The resources are also changed  *)
(* on the GPU thread, under the lock of each resource, so a call of admit  *)
(* or of admit_waiting is one step per call of reserve, and the actions of *)
(* the GPU thread happen between those steps.                              *)
(*                                                                         *)
(* A queue is a Python list kept in arrival order by bisect.insort.  Here  *)
(* it is the set of its members: arrival numbers are distinct, so the      *)
(* order of the list is the order of the numbers.                          *)
(***************************************************************************)
EXTENDS Integers, FiniteSets

CONSTANTS
    Rids,           \* request ids
    Nodes,          \* graph nodes
    KeysOf,         \* KeysOf[n]: the resources of node n that ask, as a set
    Cap,            \* Cap[k]: the capacity of resource k; DOMAIN Cap is the keys
    NoRid, NoNode,  \* no request, no node
    Ask,            \* Ask[r][k]: what request r asks of resource k, 0 for nothing
    MaxArrivals,    \* bound on the arrival numbers handed out
    MaxMoves        \* bound on the growth counters of a resource

Keys == DOMAIN Cap

ASSUME AdmissionAssumption ==
    /\ IsFiniteSet(Rids)
    /\ NoRid \notin Rids /\ NoNode \notin Nodes
    /\ Cap \in [Keys -> Nat]
    /\ KeysOf \in [Nodes -> SUBSET Keys]
    /\ Ask \in [Rids -> [Keys -> Nat]]
    /\ MaxArrivals \in Nat
    /\ MaxMoves \in Nat

VARIABLES
    arrivals,   \* Admission._arrivals: the next arrival number
    arrival,    \* Admission._arrival: 0 for a request with no number
    asked,      \* _waiting[r].asked: {} for a request that is not waiting
    nodes,      \* _waiting[r].nodes
    queues,     \* Admission._queues
    short,      \* Admission._short: the mark of a queue, or NoMark
    untried,    \* Admission._untried
    admitted,   \* Admission._admitted
    started,    \* Admission._started
    parked,     \* MicroScheduler.parked
    failed,     \* MicroScheduler.failed_rids
    call,       \* the call of Admission in progress
    room,       \* per resource: what a reservation may take now
    moves,      \* per resource: the counts a mark keeps besides the room
    need,       \* what a reservation of r at k would take now
    took        \* what r holds of k, 0 for nothing

admVars == <<arrivals, arrival, asked, nodes, queues, short, untried,
             admitted, started, parked, failed>>
resVars == <<room, moves, need, took>>
vars == <<admVars, call, resVars>>

NoMark == [room |-> -1, moves |-> -1]
Marks == [room : Nat, moves : Nat]

(***************************************************************************)
(* The call in progress.  "reserve" is _reserve for rid with the keys of   *)
(* todo left; node is the node of the admit call it serves, or NoNode when *)
(* admit_waiting makes it.  sweep holds the queues the present sweep of    *)
(* admit_waiting has not looked at, and again whether the sweep has        *)
(* admitted a request.                                                     *)
(***************************************************************************)
Idle == [at |-> "idle", rid |-> NoRid, node |-> NoNode, todo |-> {},
         sweep |-> {}, again |-> FALSE]
Reserving(r, n, s, a) == [at |-> "reserve", rid |-> r, node |-> n,
                          todo |-> asked'[r], sweep |-> s, again |-> a]
Sweeping(s, a) == [Idle EXCEPT !.at = "sweep", !.sweep = s, !.again = a]

Calls == [at : {"idle", "reserve", "sweep"}, rid : Rids \cup {NoRid},
          node : Nodes \cup {NoNode}, todo : SUBSET Keys, sweep : SUBSET Keys, again : BOOLEAN]

TypeOK ==
    /\ arrivals \in 1..(MaxArrivals + 1)
    /\ arrival \in [Rids -> 0..MaxArrivals]
    /\ asked \in [Rids -> SUBSET Keys]
    /\ nodes \in [Rids -> SUBSET Nodes]
    /\ queues \in [Keys -> SUBSET Rids]
    /\ short \in [Keys -> Marks \cup {NoMark}]
    /\ untried \in BOOLEAN
    /\ admitted \in [Rids -> SUBSET Nodes]
    /\ started \in [Rids -> SUBSET Nodes]
    /\ parked \in [Nodes -> SUBSET Rids]
    /\ failed \subseteq Rids
    /\ call \in Calls
    /\ room \in [Keys -> Nat]
    /\ moves \in [Keys -> 0..MaxMoves]
    /\ need \in [Rids -> [Keys -> Nat]]
    /\ took \in [Rids -> [Keys -> Nat]]

-----------------------------------------------------------------------------
(* The resources *)

\* Resource.ask: whether r still has to reserve k.
Asks(r, k) == Ask[r][k] > 0 /\ took[r][k] = 0

\* The outcome of ask that fails a request no pool could ever hold.
NeverFits(r, k) == Ask[r][k] > Cap[k]

Fits(r, k) == need[r][k] <= room[k]

\* RoomMark: what a reservation that did not fit was measured against.
MarkOf(k) == [room |-> room[k], moves |-> moves[k]]

\* Fault: only the counts are compared.
FaultyGrewSince(k) == moves[k] # short[k].moves

\* Resource.grew_since
GrewSince(k) == room[k] > short[k].room \/ moves[k] # short[k].moves

-----------------------------------------------------------------------------
(* The queues *)

Waiting(r) == asked[r] # {}

\* queue[0] == rid
IsFirst(r, k) == r \in queues[k] /\ \A q \in queues[k] : arrival[r] <= arrival[q]

FirstEverywhere(r) == \A k \in asked[r] : IsFirst(r, k)

\* Fault: marks alone hold a request back.
FaultyMayTry(r) == \A k \in asked[r] : short[k] = NoMark

\* the condition admit and the sweep try a request under
MayTry(r) == FirstEverywhere(r) /\ \A k \in asked[r] : short[k] = NoMark

\* Fault: the request behind is not tried.
FaultyLeave(r, keys) ==
    /\ queues' = [k \in Keys |-> IF k \in keys THEN queues[k] \ {r} ELSE queues[k]]
    /\ short' = [k \in Keys |-> IF k \in keys /\ IsFirst(r, k) THEN NoMark ELSE short[k]]
    /\ UNCHANGED untried

(***************************************************************************)
(* _leave: r leaves every queue of keys; a queue it was first in drops its *)
(* mark, and if others are behind it the next pass of admit_waiting tries. *)
(***************************************************************************)
Leave(r, keys) ==
    LET led == {k \in keys : IsFirst(r, k)}
    IN /\ queues' = [k \in Keys |-> IF k \in keys THEN queues[k] \ {r} ELSE queues[k]]
       /\ short' = [k \in Keys |-> IF k \in led THEN NoMark ELSE short[k]]
       /\ untried' = (untried \/ \E k \in led : queues[k] # {r})

-----------------------------------------------------------------------------
(* Admission.admit, called by MicroScheduler._check_ready *)

\* The keys admit asks and the request is not yet queued for.
AskedNow(r, n) == {k \in KeysOf[n] \ asked[r] : Asks(r, k)}

\* _check_ready answers for a parked check, and for an admitted node, itself.
MayAsk(r, n) ==
    /\ call = Idle
    /\ r \notin parked[n] /\ r \notin failed
    /\ n \notin admitted[r]

(***************************************************************************)
(* Every resource of the node answers None: r is admitted on n.            *)
(***************************************************************************)
AdmitAtOnce(r, n) ==
    /\ MayAsk(r, n)
    /\ KeysOf[n] \cap asked[r] = {} /\ AskedNow(r, n) = {}
    /\ admitted' = [admitted EXCEPT ![r] = @ \cup {n}]
    /\ UNCHANGED <<arrivals, arrival, asked, nodes, queues, short, untried,
                   started, parked, failed, call, resVars>>

(***************************************************************************)
(* A resource can never hold r.  The queues admit put r in before it came  *)
(* to that resource (before) are left with the rest: r may have been first *)
(* in some of them, ahead of the request their mark measured.  The         *)
(* scheduler drops r from every later scan.                                *)
(***************************************************************************)
AdmitFails(r, n) ==
    /\ MayAsk(r, n)
    /\ \E k \in AskedNow(r, n) : NeverFits(r, k)
    /\ \E before \in SUBSET {k \in AskedNow(r, n) : ~NeverFits(r, k)} :
         LET parkedOn == asked[r] \cup before
             num == IF arrival[r] = 0 /\ before # {} THEN arrivals ELSE arrival[r]
             led == {k \in asked[r] : IsFirst(r, k)}
                    \cup {k \in before : \A q \in queues[k] : num < arrival[q]}
         IN /\ arrivals <= MaxArrivals
            /\ arrival' = [arrival EXCEPT ![r] = num]
            /\ arrivals' = IF num = arrival[r] THEN arrivals ELSE arrivals + 1
            /\ queues' = [k \in Keys |-> queues[k] \ (IF k \in parkedOn THEN {r} ELSE {})]
            /\ short' = [k \in Keys |-> IF k \in led THEN NoMark ELSE short[k]]
            /\ untried' = (untried \/ \E k \in led : queues[k] \ {r} # {})
    /\ asked' = [asked EXCEPT ![r] = {}]
    /\ nodes' = [nodes EXCEPT ![r] = {}]
    /\ failed' = failed \cup {r}
    /\ UNCHANGED <<admitted, started, parked, call, resVars>>

(***************************************************************************)
(* _park_request, for every key of new: r joins the queue at its arrival,  *)
(* numbered now if r has none, which takes the mark off a queue r is now   *)
(* first in.                                                               *)
(***************************************************************************)
ParkRequest(r, new) ==
    LET num == IF arrival[r] = 0 THEN arrivals ELSE arrival[r]
    IN /\ num <= MaxArrivals
       /\ arrival' = [arrival EXCEPT ![r] = num]
       /\ arrivals' = IF num = arrival[r] THEN arrivals ELSE arrivals + 1
       /\ asked' = [asked EXCEPT ![r] = @ \cup new]
       /\ queues' = [k \in Keys |-> queues[k] \cup (IF k \in new THEN {r} ELSE {})]
       /\ short' = [k \in Keys |-> IF k \in new /\ \A q \in queues[k] : num < arrival[q]
                                     THEN NoMark ELSE short[k]]

(***************************************************************************)
(* Some resource asks, so r is parked on it.  If r is first in every queue *)
(* it is in and none has a mark, _reserve is tried at once, else the check *)
(* is parked.                                                              *)
(***************************************************************************)
AdmitAsks(r, n) ==
    LET new == AskedNow(r, n)
    IN /\ MayAsk(r, n)
       /\ (KeysOf[n] \cap asked[r]) \cup new # {}
       /\ \A k \in new : ~NeverFits(r, k)
       /\ ParkRequest(r, new)
       /\ nodes' = [nodes EXCEPT ![r] = @ \cup {n}]
       /\ IF MayTry(r)'
            THEN call' = Reserving(r, n, {}, FALSE) /\ UNCHANGED parked
            ELSE call' = Idle /\ parked' = [parked EXCEPT ![n] = @ \cup {r}]
       /\ UNCHANGED <<untried, admitted, started, failed, resVars>>

-----------------------------------------------------------------------------
(* Admission._reserve, one step per call of Resource.reserve *)

\* Where the caller of _reserve goes on with the outcome of it.
Return(ok) ==
    call' = IF call.node # NoNode THEN Idle
            ELSE Sweeping(call.sweep, call.again \/ ok)

(***************************************************************************)
(* reserve(k) fits and is not the last of the keys.                        *)
(***************************************************************************)
ReserveKey(k) ==
    LET r == call.rid
    IN /\ call.at = "reserve" /\ k \in call.todo /\ call.todo # {k}
       /\ Fits(r, k)
       /\ room' = [room EXCEPT ![k] = @ - need[r][k]]
       /\ took' = [took EXCEPT ![r][k] = need[r][k]]
       /\ call' = [call EXCEPT !.todo = @ \ {k}]
       /\ UNCHANGED <<admVars, moves, need>>

(***************************************************************************)
(* The last reserve fits: r leaves its queues and is admitted on every     *)
(* node that waits on it.  admit leaves the nodes other than its own in    *)
(* started, for the next admit_waiting to report; the sweep reports all.   *)
(***************************************************************************)
ReserveLast(k) ==
    LET r == call.rid
        others == nodes[r] \ {call.node}
    IN /\ call.at = "reserve" /\ call.todo = {k}
       /\ Fits(r, k)
       /\ room' = [room EXCEPT ![k] = @ - need[r][k]]
       /\ took' = [took EXCEPT ![r][k] = need[r][k]]
       /\ Leave(r, asked[r])
       /\ asked' = [asked EXCEPT ![r] = {}]
       /\ nodes' = [nodes EXCEPT ![r] = {}]
       /\ admitted' = [admitted EXCEPT ![r] = @ \cup nodes[r]]
       /\ IF call.node # NoNode
            THEN /\ started' = [started EXCEPT ![r] = @ \cup others]
                 /\ UNCHANGED parked
            ELSE /\ parked' = [n \in Nodes |-> parked[n] \ (IF n \in others THEN {r} ELSE {})]
                 /\ UNCHANGED started
       /\ Return(TRUE)
       /\ UNCHANGED <<arrivals, arrival, failed, moves, need>>

\* Fault: the keys taken before k are kept.
FaultyReserveShort(k) ==
    /\ call.at = "reserve" /\ k \in call.todo
    /\ ~Fits(call.rid, k)
    /\ short' = [short EXCEPT ![k] = MarkOf(k)]
    /\ parked' = IF call.node = NoNode THEN parked
                 ELSE [parked EXCEPT ![call.node] = @ \cup {call.rid}]
    /\ Return(FALSE)
    /\ UNCHANGED <<arrivals, arrival, asked, nodes, queues, untried, admitted,
                   started, failed, resVars>>

(***************************************************************************)
(* reserve(k) returns a mark: unreserve gives back the keys taken, and the *)
(* mark stays on k's queue.                                                *)
(***************************************************************************)
ReserveShort(k) ==
    LET r == call.rid
        taken == asked[r] \ call.todo
    IN /\ call.at = "reserve" /\ k \in call.todo
       /\ ~Fits(r, k)
       /\ room' = [j \in Keys |-> IF j \in taken THEN room[j] + took[r][j] ELSE room[j]]
       /\ took' = [took EXCEPT ![r] = [j \in Keys |-> IF j \in taken THEN 0 ELSE @[j]]]
       /\ short' = [short EXCEPT ![k] = MarkOf(k)]
       /\ parked' = IF call.node = NoNode THEN parked
                    ELSE [parked EXCEPT ![call.node] = @ \cup {r}]
       /\ Return(FALSE)
       /\ UNCHANGED <<arrivals, arrival, asked, nodes, queues, untried, admitted,
                      started, failed, moves, need>>

-----------------------------------------------------------------------------
(* Admission.admit_waiting, called by MicroScheduler._unpark *)

Grown == {k \in Keys : short[k] # NoMark /\ GrewSince(k)}

\* Fault: started is cleared and only the requests of this pass are reported.
FaultyAdmitWaiting ==
    /\ call = Idle
    /\ \E n \in Nodes : parked[n] # {}
    /\ started' = [r \in Rids |-> {}]
    /\ IF (\E r \in Rids : Waiting(r)) /\ (Grown # {} \/ untried)
         THEN /\ short' = [k \in Keys |-> IF k \in Grown THEN NoMark ELSE short[k]]
              /\ call' = Sweeping(Keys, FALSE)
         ELSE UNCHANGED <<short, call>>
    /\ UNCHANGED <<arrivals, arrival, asked, nodes, queues, untried, admitted, parked,
                   failed, resVars>>

(***************************************************************************)
(* The start of a pass: the nodes admit left in started are reported, then *)
(* the pass returns, or takes the marks of the grown resources off and     *)
(* sweeps.                                                                 *)
(***************************************************************************)
AdmitWaiting ==
    /\ call = Idle
    /\ \E n \in Nodes : parked[n] # {}
    /\ parked' = [n \in Nodes |-> {r \in parked[n] : n \notin started[r]}]
    /\ started' = [r \in Rids |-> {}]
    /\ IF (\E r \in Rids : Waiting(r)) /\ (Grown # {} \/ untried)
         THEN /\ short' = [k \in Keys |-> IF k \in Grown THEN NoMark ELSE short[k]]
              /\ call' = Sweeping(Keys, FALSE)
         ELSE UNCHANGED <<short, call>>
    /\ UNCHANGED <<arrivals, arrival, asked, nodes, queues, untried, admitted, failed, resVars>>

(***************************************************************************)
(* The sweep looks at the queue of k: nothing to do when it is empty or    *)
(* its first request is held back, else _reserve is tried.                 *)
(***************************************************************************)
SweepSkip(k) ==
    /\ call.at = "sweep" /\ k \in call.sweep
    /\ \A r \in queues[k] : IsFirst(r, k) => ~MayTry(r)
    /\ call' = [call EXCEPT !.sweep = @ \ {k}]
    /\ UNCHANGED <<admVars, resVars>>

SweepTry(k) ==
    /\ call.at = "sweep" /\ k \in call.sweep
    /\ \E r \in queues[k] :
         /\ IsFirst(r, k) /\ MayTry(r)
         /\ call' = [Idle EXCEPT !.at = "reserve", !.rid = r, !.todo = asked[r],
                                 !.sweep = call.sweep \ {k}, !.again = call.again]
    /\ UNCHANGED <<admVars, resVars>>

\* A sweep that admitted a request is followed by another, else the pass ends.
SweepEnd ==
    /\ call.at = "sweep" /\ call.sweep = {}
    /\ IF call.again
         THEN call' = Sweeping(Keys, FALSE) /\ UNCHANGED untried
         ELSE call' = Idle /\ untried' = FALSE
    /\ UNCHANGED <<arrivals, arrival, asked, nodes, queues, short, admitted, started,
                   parked, failed, resVars>>

-----------------------------------------------------------------------------
\* Admission.remove_request
Forget(r) ==
    /\ Leave(r, asked[r])
    /\ asked' = [asked EXCEPT ![r] = {}]
    /\ nodes' = [nodes EXCEPT ![r] = {}]
    /\ admitted' = [admitted EXCEPT ![r] = {}]
    /\ started' = [started EXCEPT ![r] = {}]
    /\ arrival' = [arrival EXCEPT ![r] = 0]

(***************************************************************************)
(* ResourceRunner.remove_request: r is taken out of admission, then every  *)
(* resource frees what r holds, and the scheduler forgets its checks.      *)
(***************************************************************************)
RemoveRequest(r) ==
    /\ call = Idle
    /\ arrival[r] # 0 \/ admitted[r] # {} \/ r \in failed
    /\ Forget(r)
    /\ parked' = [n \in Nodes |-> parked[n] \ {r}]
    /\ failed' = failed \ {r}
    /\ room' = [k \in Keys |-> room[k] + took[r][k]]
    /\ took' = [took EXCEPT ![r] = [k \in Keys |-> 0]]
    /\ need' = [need EXCEPT ![r] = Ask[r]]
    /\ UNCHANGED <<arrivals, call, moves>>

-----------------------------------------------------------------------------
(* The GPU thread *)

\* A running request takes capacity past its reservation.
Grow(r, k) ==
    /\ took[r][k] > 0 /\ k \notin asked[r] /\ room[k] > 0
    /\ room' = [room EXCEPT ![k] = @ - 1]
    /\ took' = [took EXCEPT ![r][k] = @ + 1]
    /\ UNCHANGED <<admVars, call, moves, need>>

\* A running request gives capacity back before it ends.
Shrink(r, k) ==
    /\ took[r][k] > 1 /\ k \notin asked[r]
    /\ room' = [room EXCEPT ![k] = @ + 1]
    /\ took' = [took EXCEPT ![r][k] = @ - 1]
    /\ UNCHANGED <<admVars, call, moves, need>>

(***************************************************************************)
(* A page is filed in, or taken from, the prefix index: the requests that  *)
(* hit it need one page less, the room is as it was, and a count moves.    *)
(***************************************************************************)
Move(k, rs) ==
    /\ moves[k] < MaxMoves
    /\ moves' = [moves EXCEPT ![k] = @ + 1]
    /\ need' = [r \in Rids |-> [need[r] EXCEPT ![k] =
                    IF r \in rs /\ @ > 1 THEN @ - 1 ELSE @]]
    /\ UNCHANGED <<admVars, call, room, took>>

-----------------------------------------------------------------------------
Init ==
    /\ arrivals = 1
    /\ arrival = [r \in Rids |-> 0]
    /\ asked = [r \in Rids |-> {}]
    /\ nodes = [r \in Rids |-> {}]
    /\ queues = [k \in Keys |-> {}]
    /\ short = [k \in Keys |-> NoMark]
    /\ untried = FALSE
    /\ admitted = [r \in Rids |-> {}]
    /\ started = [r \in Rids |-> {}]
    /\ parked = [n \in Nodes |-> {}]
    /\ failed = {}
    /\ call = Idle
    /\ room = Cap
    /\ moves = [k \in Keys |-> 0]
    /\ need = Ask
    /\ took = [r \in Rids |-> [k \in Keys |-> 0]]

Admit(r, n) == AdmitAtOnce(r, n) \/ AdmitFails(r, n) \/ AdmitAsks(r, n)

Reserve == \E k \in Keys : ReserveKey(k) \/ ReserveLast(k) \/ ReserveShort(k)

Sweep == SweepEnd \/ \E k \in Keys : SweepSkip(k) \/ SweepTry(k)

Gpu == \/ \E r \in Rids, k \in Keys : Grow(r, k) \/ Shrink(r, k)
       \/ \E k \in Keys, rs \in SUBSET Rids : Move(k, rs)

Next ==
    \/ \E r \in Rids, n \in Nodes : Admit(r, n)
    \/ Reserve
    \/ AdmitWaiting
    \/ Sweep
    \/ \E r \in Rids : RemoveRequest(r)
    \/ Gpu

Spec == Init /\ [][Next]_vars

(***************************************************************************)
(* Fairness.  The worker's loop runs a call of Admission to its end and    *)
(* scans again for as long as it lives, each scan starting with _unpark    *)
(* and each turn handling the removals that have come in, so both are      *)
(* strongly fair: between two calls the thread gets to them.  A request    *)
(* that waits for nothing runs and ends.  Nothing is assumed of a client   *)
(* that removes a waiting request, or of the GPU thread.                   *)
(***************************************************************************)
Ends(r) == ~Waiting(r) /\ RemoveRequest(r)

Fairness ==
    /\ WF_vars(Reserve) /\ WF_vars(Sweep)
    /\ SF_vars(AdmitWaiting)
    /\ \A r \in Rids : SF_vars(Ends(r))

FairSpec == Spec /\ Fairness

-----------------------------------------------------------------------------
(* Properties *)

(***************************************************************************)
(* No lost wakeup.  Between calls, a request that is first in every queue  *)
(* it is in and would fit in every resource it asked is one the next       *)
(* admit_waiting tries: untried is set, or a resource it waits for has     *)
(* grown since its mark.  admit_waiting returns at once when neither is so *)
(* (admission.py, "Nothing is tried until ..."), so a request for which    *)
(* this failed would wait for an event that may never come.                *)
(***************************************************************************)
FittingIsSeen ==
    call = Idle =>
        \A r \in Rids :
            (Waiting(r) /\ FirstEverywhere(r) /\ \A k \in asked[r] : Fits(r, k))
                => untried \/ asked[r] \cap Grown # {}

(***************************************************************************)
(* All or nothing.  A request holds capacity it still waits for only while *)
(* the call of _reserve that took it is running: a call that failed half   *)
(* way has given back all it took, so no waiting request keeps others out. *)
(***************************************************************************)
AllOrNothing ==
    \A r \in Rids : \A k \in asked[r] :
        took[r][k] # 0 => call.at = "reserve" /\ call.rid = r /\ k \notin call.todo

(***************************************************************************)
(* A parked readiness check is always owed an answer: its request waits    *)
(* with that node among its nodes, or was admitted and the node is in      *)
(* started for the next admit_waiting to report, or has failed and is      *)
(* removed.  _check_ready never asks the engine again about a parked       *)
(* check, so one nobody owes an answer would never be scheduled.           *)
(***************************************************************************)
ParkedIsOwed ==
    \A n \in Nodes : \A r \in parked[n] :
        n \in nodes[r] \cup started[r] \/ r \in failed

(***************************************************************************)
(* A waiting request is admitted only from the front of every queue it is  *)
(* in: no other request that waits for one of the same resources and       *)
(* asked earlier is passed over.                                           *)
(***************************************************************************)
NoOvertaking ==
    [][\A r, q \in Rids :
         (Waiting(r) /\ admitted'[r] \cap nodes[r] # {} /\ asked[q] \cap asked[r] # {})
            => arrival[r] <= arrival[q]]_vars

(***************************************************************************)
(* Every wait ends: the request is admitted, fails, or is removed.         *)
(***************************************************************************)
WaitEnds == \A r \in Rids : Waiting(r) ~> ~Waiting(r)

=============================================================================
