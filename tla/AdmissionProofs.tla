--------------------------- MODULE AdmissionProofs ---------------------------
(***************************************************************************)
(* For every set of requests, nodes and resources, and whatever the        *)
(* requests ask: no wakeup is lost (FittingIsSeen), a request that waits   *)
(* holds nothing (AllOrNothing), a parked check is owed an answer          *)
(* (ParkedIsOwed) and nobody is overtaken (NoOvertaking).                  *)
(*                                                                         *)
(* FittingIsSeen rests on what a mark says of the request it holds back    *)
(* (MarksMeasure) and on a count of who may be held back by no mark at all *)
(* (NoneForgotten): between calls only what untried stands for, in a sweep *)
(* only what the sweep has still to look at.                               *)
(***************************************************************************)
EXTENDS Admission, TLAPS

\* A request is in the queues of what it asked, and in no other.
QueueIsAsked == \A r \in Rids, k \in Keys : r \in queues[k] <=> k \in asked[r]

\* Arrival numbers are handed out once.
Numbered ==
    \A r \in Rids :
        /\ arrival[r] < arrivals
        /\ Waiting(r) => arrival[r] # 0
        /\ \A q \in Rids : arrival[r] = arrival[q] => r = q \/ arrival[r] = 0

\* A node waits for what its request still asks.
NodesWait ==
    \A r \in Rids :
        /\ nodes[r] \cap admitted[r] = {}
        /\ \A n \in nodes[r] : KeysOf[n] \cap asked[r] # {}

\* What a call keeps while the GPU thread runs beside it.
CallKeeps ==
    /\ call.at = "idle" => call = Idle
    /\ call.at = "sweep" => call.node = NoNode
    /\ call.at = "reserve" =>
         /\ call.rid \in Rids /\ call.todo # {} /\ call.todo \subseteq asked[call.rid]
         /\ MayTry(call.rid)
         /\ call.node # NoNode => call.node \in nodes[call.rid] /\ call.rid \notin parked[call.node]

\* A mark was measured for the request that is first, unless a count moved since.
MarksMeasure ==
    \A k \in Keys : short[k] # NoMark =>
        /\ short[k].moves <= moves[k]
        /\ short[k].moves = moves[k] =>
             \A r \in queues[k] : IsFirst(r, k) => need[r][k] > short[k].room

InSweep == call.at # "idle" /\ call.node = NoNode

\* The queues in which somebody is about to be looked at.
Looked(r) ==
    \/ call.at = "reserve" /\ call.rid = r
    \/ InSweep /\ (call.again \/ asked[r] \cap call.sweep # {})
    \/ ~InSweep /\ untried

\* Whoever is held back by no mark and nobody ahead is looked at.
NoneForgotten == \A r \in Rids : Waiting(r) /\ MayTry(r) => Looked(r)

Inv ==
    /\ TypeOK /\ QueueIsAsked /\ Numbered /\ NodesWait /\ CallKeeps
    /\ AllOrNothing /\ ParkedIsOwed /\ MarksMeasure /\ NoneForgotten

-----------------------------------------------------------------------------
(* The call in progress *)

LEMMA CallTypes ==
    /\ Idle \in Calls
    /\ \A s \in SUBSET Keys, a \in BOOLEAN :
         /\ Sweeping(s, a) \in Calls
         /\ Sweeping(s, a).at = "sweep" /\ Sweeping(s, a).node = NoNode /\ Sweeping(s, a).rid = NoRid
         /\ Sweeping(s, a).sweep = s /\ Sweeping(s, a).again = a
  BY DEF Idle, Calls, Sweeping

LEMMA SweepStarts ==
    /\ Sweeping(Keys, FALSE) \in Calls /\ Sweeping(Keys, FALSE) # Idle
    /\ Sweeping(Keys, FALSE).at = "sweep" /\ Sweeping(Keys, FALSE).node = NoNode
    /\ Sweeping(Keys, FALSE).sweep = Keys
  BY DEF Idle, Calls, Sweeping

LEMMA ParkType ==
    ASSUME NEW n \in Nodes, NEW r \in Rids, NEW f \in [Nodes -> SUBSET Rids]
    PROVE  [f EXCEPT ![n] = @ \cup {r}] \in [Nodes -> SUBSET Rids]
  OBVIOUS

LEMMA FirstIsOne ==
    ASSUME Inv, NEW k \in Keys, NEW q \in queues[k], NEW r \in queues[k], IsFirst(q, k), IsFirst(r, k)
    PROVE  q = r
<1>1. q \in Rids /\ r \in Rids /\ arrival[q] \in Nat /\ arrival[r] \in Nat
  BY AdmissionAssumption DEF Inv, TypeOK
<1>2. arrival[q] = arrival[r]
  BY <1>1 DEF IsFirst
<1>3. asked[r] # {}
  BY <1>1 DEF Inv, QueueIsAsked
<1>4. QED
  BY <1>1, <1>2, <1>3 DEF Inv, Numbered, Waiting

LEMMA ReturnTypes ==
    ASSUME Inv, call.at = "reserve", NEW ok \in BOOLEAN, Return(ok)
    PROVE  /\ call' \in Calls
           /\ call.node # NoNode => call' = Idle
           /\ call.node = NoNode =>
                /\ call'.at = "sweep" /\ call'.node = NoNode
                /\ call'.sweep = call.sweep /\ call'.again = (call.again \/ ok)
<1>1. call.sweep \in SUBSET Keys /\ call.again \in BOOLEAN
  BY DEF Inv, TypeOK, Calls
<1>2. (call.again \/ ok) \in BOOLEAN
  OBVIOUS
<1>3. QED
  BY <1>1, <1>2, CallTypes DEF Return

-----------------------------------------------------------------------------
(* A request leaves every queue it is in: Leave, and the end of AdmitFails *)

LEMMA Leaving ==
    ASSUME Inv, NEW r \in Rids, NEW led \in SUBSET Keys,
           \A k \in Keys : queues'[k] = queues[k] \ {r},
           \A k \in Keys : IsFirst(r, k) => k \in led,
           \A k \in Keys : short'[k] = IF k \in led THEN NoMark ELSE short[k],
           untried' = (untried \/ \E k \in led : queues[k] \ {r} # {}),
           asked'[r] = {},
           \A q \in Rids \ {r} : asked'[q] = asked[q] /\ arrival'[q] = arrival[q] /\ need'[q] = need[q],
           moves' = moves
    PROVE  /\ MarksMeasure'
           /\ \A q \in Rids : (Waiting(q) /\ MayTry(q))' => untried' \/ (q # r /\ Waiting(q) /\ MayTry(q))
<1> USE AdmissionAssumption
<1>1. ASSUME NEW k \in Keys, NEW q \in queues'[k], IsFirst(q, k)', k \notin led
      PROVE  q # r /\ q \in Rids /\ IsFirst(q, k)
  <2>1. q \in Rids /\ q # r /\ q \in queues[k]
    BY <1>1 DEF Inv, TypeOK
  <2>2. \A p \in queues[k] \ {r} : arrival[q] <= arrival[p]
    BY <1>1, <2>1 DEF Inv, TypeOK, IsFirst
  <2>3. CASE r \in queues[k]
    <3>1. PICK p \in queues[k] : ~(arrival[r] <= arrival[p])
      BY <1>1, <2>3 DEF IsFirst
    <3>2. p # r /\ p \in Rids
      BY <3>1, <2>3 DEF Inv, TypeOK
    <3>3. arrival[q] <= arrival[r]
      BY <3>1, <3>2, <2>2, <2>1 DEF Inv, TypeOK
    <3>4. QED
      BY <3>3, <2>2, <2>1 DEF IsFirst
  <2>4. CASE r \notin queues[k]
    BY <2>4, <2>2, <2>1 DEF IsFirst
  <2>5. QED
    BY <2>1, <2>3, <2>4
<1>2. MarksMeasure'
  <2> SUFFICES ASSUME NEW k \in Keys, short'[k] # NoMark
               PROVE  /\ short'[k].moves <= moves'[k]
                      /\ short'[k].moves = moves'[k] =>
                           \A q \in queues'[k] : IsFirst(q, k)' => need'[q][k] > short'[k].room
    BY DEF MarksMeasure
  <2>1. k \notin led /\ short'[k] = short[k]
    OBVIOUS
  <2>2. QED
    BY <2>1, <1>1 DEF Inv, MarksMeasure
<1>3. ASSUME NEW q \in Rids, (Waiting(q) /\ MayTry(q))', ~untried'
      PROVE  q # r /\ Waiting(q) /\ MayTry(q)
  <2>1. q # r /\ asked[q] = asked'[q] /\ Waiting(q)
    BY <1>3 DEF Waiting
  <2>2. ASSUME NEW k \in asked[q]
        PROVE  IsFirst(q, k) /\ short[k] = NoMark
    <3>1. k \in Keys /\ q \in queues[k]
      BY <2>2 DEF Inv, TypeOK, QueueIsAsked
    <3>2. IsFirst(q, k)' /\ short'[k] = NoMark
      BY <1>3, <2>1, <2>2 DEF MayTry, FirstEverywhere
    <3>3. k \notin led
      BY <1>3, <3>1, <2>1
    <3>4. QED
      BY <3>1, <3>2, <3>3, <2>1, <1>1
  <2>3. QED
    BY <2>1, <2>2 DEF MayTry, FirstEverywhere
<1>4. QED
  BY <1>2, <1>3

-----------------------------------------------------------------------------
(* Admission.admit *)

LEMMA AdmitAtOnceInv ==
    ASSUME Inv, NEW r \in Rids, NEW n \in Nodes, AdmitAtOnce(r, n)
    PROVE  Inv'
<1> USE AdmissionAssumption DEF Inv
<1>1. TypeOK'
  BY DEF AdmitAtOnce, MayAsk, resVars, TypeOK
<1>2. QueueIsAsked'
  BY DEF AdmitAtOnce, MayAsk, resVars, QueueIsAsked, TypeOK
<1>3. Numbered'
  BY DEF AdmitAtOnce, MayAsk, resVars, Numbered, Waiting, TypeOK
<1>4. NodesWait'
  BY DEF AdmitAtOnce, MayAsk, resVars, NodesWait, TypeOK
<1>5. CallKeeps'
  BY DEF AdmitAtOnce, MayAsk, resVars, CallKeeps, MayTry, FirstEverywhere, IsFirst, Idle, TypeOK
<1>6. AllOrNothing'
  BY DEF AdmitAtOnce, MayAsk, resVars, AllOrNothing, TypeOK, CallKeeps
<1>7. ParkedIsOwed'
  BY DEF AdmitAtOnce, MayAsk, resVars, ParkedIsOwed, CallKeeps, TypeOK
<1>8. MarksMeasure'
  BY DEF AdmitAtOnce, MayAsk, resVars, MarksMeasure, IsFirst, TypeOK
<1>9. NoneForgotten'
  BY DEF AdmitAtOnce, MayAsk, resVars, NoneForgotten, Looked, InSweep, Waiting, MayTry, FirstEverywhere, IsFirst, CallKeeps, TypeOK
<1>10. QED
  BY <1>1, <1>2, <1>3, <1>4, <1>5, <1>6, <1>7, <1>8, <1>9

LEMMA AdmitFailsInv ==
    ASSUME Inv, NEW r \in Rids, NEW n \in Nodes, AdmitFails(r, n)
    PROVE  Inv'
<1> USE AdmissionAssumption DEF Inv
<1>a. PICK before \in SUBSET {k \in AskedNow(r, n) : ~NeverFits(r, k)}, num \in Nat, led \in SUBSET Keys :
         /\ num = IF arrival[r] = 0 /\ before # {} THEN arrivals ELSE arrival[r]
         /\ led = {k \in asked[r] : IsFirst(r, k)}
                   \cup {k \in before : \A q \in queues[k] : num < arrival[q]}
         /\ queues' = [k \in Keys |-> queues[k] \ (IF k \in asked[r] \cup before THEN {r} ELSE {})]
         /\ short' = [k \in Keys |-> IF k \in led THEN NoMark ELSE short[k]]
         /\ untried' = (untried \/ \E k \in led : queues[k] \ {r} # {})
         /\ arrival' = [arrival EXCEPT ![r] = num]
  <2>1. PICK before \in SUBSET {k \in AskedNow(r, n) : ~NeverFits(r, k)} :
          LET num == IF arrival[r] = 0 /\ before # {} THEN arrivals ELSE arrival[r]
              led == {k \in asked[r] : IsFirst(r, k)}
                     \cup {k \in before : \A q \in queues[k] : num < arrival[q]}
          IN /\ queues' = [k \in Keys |-> queues[k] \ (IF k \in asked[r] \cup before THEN {r} ELSE {})]
             /\ short' = [k \in Keys |-> IF k \in led THEN NoMark ELSE short[k]]
             /\ untried' = (untried \/ \E k \in led : queues[k] \ {r} # {})
             /\ arrival' = [arrival EXCEPT ![r] = num]
    BY DEF AdmitFails
  <2> DEFINE num == IF arrival[r] = 0 /\ before # {} THEN arrivals ELSE arrival[r]
             led == {k \in asked[r] : IsFirst(r, k)}
                    \cup {k \in before : \A q \in queues[k] : num < arrival[q]}
  <2>2. num \in Nat /\ led \in SUBSET Keys
    BY DEF TypeOK, AskedNow
  <2>3. QED
    BY <2>1, <2>2
<1>b. /\ MarksMeasure'
      /\ \A q \in Rids : (Waiting(q) /\ MayTry(q))' => untried' \/ (q # r /\ Waiting(q) /\ MayTry(q))
  <2>1. \A k \in Keys : queues'[k] = queues[k] \ {r}
    BY <1>a DEF TypeOK, QueueIsAsked
  <2>2. \A k \in Keys : IsFirst(r, k) => k \in led
    BY <1>a DEF IsFirst, QueueIsAsked
  <2>3. /\ asked'[r] = {} /\ moves' = moves
        /\ \A q \in Rids \ {r} : asked'[q] = asked[q] /\ arrival'[q] = arrival[q] /\ need'[q] = need[q]
    BY <1>a DEF AdmitFails, resVars, TypeOK
  <2>4. \A k \in Keys : short'[k] = IF k \in led THEN NoMark ELSE short[k]
    BY <1>a
  <2>5. untried' = (untried \/ \E k \in led : queues[k] \ {r} # {})
    BY <1>a
  <2>6. Inv
    OBVIOUS
  <2> HIDE DEF Inv
  <2>7. QED
    BY <2>1, <2>2, <2>3, <2>4, <2>5, <2>6, Leaving
<1>1. TypeOK'
  BY DEF AdmitFails, MayAsk, AskedNow, resVars, TypeOK
<1>2. QueueIsAsked'
  BY DEF AdmitFails, MayAsk, AskedNow, resVars, QueueIsAsked, TypeOK
<1>3. Numbered'
  BY DEF AdmitFails, MayAsk, AskedNow, resVars, Numbered, Waiting, TypeOK
<1>4. NodesWait'
  BY DEF AdmitFails, MayAsk, AskedNow, resVars, NodesWait, TypeOK
<1>5. CallKeeps'
  BY DEF AdmitFails, MayAsk, AskedNow, resVars, CallKeeps, MayTry, FirstEverywhere, IsFirst, Idle, TypeOK
<1>6. AllOrNothing'
  BY DEF AdmitFails, MayAsk, AskedNow, resVars, AllOrNothing, TypeOK, CallKeeps
<1>7. ParkedIsOwed'
  BY DEF AdmitFails, MayAsk, AskedNow, resVars, ParkedIsOwed, CallKeeps, TypeOK
<1>8. MarksMeasure'
  BY <1>b
<1>9. NoneForgotten'
  <2>1. call = Idle /\ call' = Idle
    BY DEF AdmitFails, MayAsk
  <2>2. QED
    BY <2>1, <1>a, <1>b DEF NoneForgotten, Looked, InSweep, Idle, TypeOK
<1>10. QED
  BY <1>1, <1>2, <1>3, <1>4, <1>5, <1>6, <1>7, <1>8, <1>9

LEMMA AdmitAsksInv ==
    ASSUME Inv, NEW r \in Rids, NEW n \in Nodes, AdmitAsks(r, n)
    PROVE  Inv'
<1> USE AdmissionAssumption DEF Inv
<1> DEFINE new == AskedNow(r, n)
           num == IF arrival[r] = 0 THEN arrivals ELSE arrival[r]
<1>a. /\ new \in SUBSET Keys /\ num \in 1..MaxArrivals
      /\ \A q \in Rids \ {r} : arrival[q] # num
      /\ call = Idle /\ UNCHANGED resVars /\ UNCHANGED untried
  BY DEF AdmitAsks, ParkRequest, MayAsk, AskedNow, TypeOK, Numbered
<1>b. /\ arrival' = [arrival EXCEPT ![r] = num]
      /\ asked' = [asked EXCEPT ![r] = @ \cup new]
      /\ queues' = [k \in Keys |-> queues[k] \cup (IF k \in new THEN {r} ELSE {})]
      /\ short' = [k \in Keys |-> IF k \in new /\ \A q \in queues[k] : num < arrival[q]
                                    THEN NoMark ELSE short[k]]
  BY DEF AdmitAsks, ParkRequest
<1>c. /\ MayTry(r)' => call' = Reserving(r, n, {}, FALSE) /\ UNCHANGED parked
      /\ ~MayTry(r)' => call' = Idle /\ parked' = [parked EXCEPT ![n] = @ \cup {r}]
  BY DEF AdmitAsks
<1>d. Reserving(r, n, {}, FALSE) \in Calls
  <2>1. asked'[r] \in SUBSET Keys
    BY <1>a, <1>b DEF TypeOK
  <2>2. QED
    BY <2>1 DEF Reserving, Calls
<1>e. asked'[r] # {} /\ asked'[r] = asked[r] \cup new
  BY <1>b DEF AdmitAsks, TypeOK
<1>f. ASSUME NEW k \in Keys, NEW q \in Rids, q \in queues'[k], IsFirst(q, k)', short'[k] # NoMark
      PROVE  q \in queues[k] /\ IsFirst(q, k)
  <2>1. short'[k] = short[k] /\ ~(k \in new /\ \A p \in queues[k] : num < arrival[p])
    BY <1>b, <1>f
  <2>2. k \notin new \/ q # r
    <3> SUFFICES ASSUME k \in new, q = r
                 PROVE  FALSE
      OBVIOUS
    <3>1. PICK p \in queues[k] : ~(num < arrival[p])
      BY <2>1
    <3>2. p \in Rids /\ p \in queues'[k] /\ arrival'[r] = num
      BY <1>b, <3>1 DEF TypeOK
    <3>3. r \notin queues[k]
      BY DEF AskedNow, QueueIsAsked
    <3>4. p # r /\ arrival'[p] = arrival[p] /\ num <= arrival[p]
      BY <3>1, <3>2, <3>3, <1>b, <1>f DEF TypeOK, IsFirst
    <3>5. arrival[p] \in Nat /\ arrival[p] # num
      BY <3>2, <3>4, <1>a DEF TypeOK
    <3> HIDE DEF num
    <3>6. QED
      BY <3>1, <3>4, <3>5, <1>a
  <2>3. q \in queues[k]
    BY <2>2, <1>b, <1>f
  <2>4. \A p \in queues[k] : p \in queues'[k] /\ p \in Rids
    BY <1>b DEF TypeOK
  <2>5. \A p \in queues[k] : arrival'[p] = arrival[p]
    BY <1>b, <2>3, <2>4 DEF TypeOK, QueueIsAsked, Numbered, Waiting
  <2>6. QED
    BY <2>3, <2>4, <2>5, <1>f DEF IsFirst
<1>1. TypeOK'
  <2>1. call' \in Calls
    BY <1>c, <1>d, CallTypes
  <2>2. arrivals' \in 1..(MaxArrivals + 1) /\ arrival' \in [Rids -> 0..MaxArrivals]
    BY DEF AdmitAsks, ParkRequest, TypeOK
  <2>3. asked' \in [Rids -> SUBSET Keys] /\ queues' \in [Keys -> SUBSET Rids]
    BY <1>a, <1>b DEF TypeOK
  <2>4. short' \in [Keys -> Marks \cup {NoMark}]
    BY <1>b DEF TypeOK
  <2>5. parked' \in [Nodes -> SUBSET Rids]
    <3>1. parked' = parked \/ parked' = [parked EXCEPT ![n] = @ \cup {r}]
      BY <1>c
    <3>2. parked \in [Nodes -> SUBSET Rids]
      BY DEF TypeOK
    <3>3. [parked EXCEPT ![n] = @ \cup {r}] \in [Nodes -> SUBSET Rids]
      BY <3>2, ParkType
    <3>4. QED
      BY <3>1, <3>2, <3>3
  <2>6. QED
    BY <2>1, <2>2, <2>3, <2>4, <2>5 DEF AdmitAsks, resVars, TypeOK
<1>2. QueueIsAsked'
  BY DEF AdmitAsks, ParkRequest, MayAsk, AskedNow, Asks, Reserving, resVars, QueueIsAsked, TypeOK
<1>3. Numbered'
  BY DEF AdmitAsks, ParkRequest, MayAsk, AskedNow, Asks, Reserving, resVars, Numbered, Waiting, TypeOK
<1>4. NodesWait'
  BY DEF AdmitAsks, ParkRequest, MayAsk, AskedNow, Asks, Reserving, resVars, NodesWait, TypeOK
<1>5. CallKeeps'
  <2>1. CASE MayTry(r)'
    <3>1. /\ call'.at = "reserve" /\ call'.rid = r /\ call'.node = n /\ call'.todo = asked'[r]
          /\ UNCHANGED parked
      BY <2>1, <1>c DEF Reserving
    <3>2. n \in nodes'[r] /\ r \notin parked[n]
      BY DEF AdmitAsks, MayAsk, TypeOK
    <3>3. QED
      BY <2>1, <3>1, <3>2, <1>e DEF CallKeeps
  <2>2. CASE ~MayTry(r)'
    BY <2>2, <1>c DEF CallKeeps, Idle
  <2>3. QED
    BY <2>1, <2>2
<1>6. AllOrNothing'
  BY <1>a, <1>b DEF AllOrNothing, TypeOK, AskedNow, Asks, Idle, resVars
<1>7. ParkedIsOwed'
  BY DEF AdmitAsks, ParkRequest, MayAsk, AskedNow, Asks, Reserving, resVars, ParkedIsOwed, CallKeeps, TypeOK
<1>8. MarksMeasure'
  BY <1>a, <1>b, <1>f DEF MarksMeasure, TypeOK, resVars
<1>9. NoneForgotten'
  <2> SUFFICES ASSUME NEW q \in Rids, Waiting(q)', MayTry(q)'
               PROVE  Looked(q)'
    BY DEF NoneForgotten
  <2>1. CASE q = r
    BY <2>1, <1>c DEF Looked, Reserving
  <2>2. CASE q # r
    <3>1. asked'[q] = asked[q] /\ arrival'[q] = arrival[q] /\ Waiting(q)
      BY <2>2, <1>b DEF Waiting, TypeOK
    <3>2. ASSUME NEW k \in asked[q]
          PROVE  IsFirst(q, k) /\ short[k] = NoMark
      <4>1. k \in Keys /\ q \in queues[k] /\ q \in queues'[k]
        BY <3>2, <1>b DEF TypeOK, QueueIsAsked
      <4>2. IsFirst(q, k)' /\ short'[k] = NoMark
        BY <3>1, <3>2 DEF MayTry, FirstEverywhere
      <4>3. \A p \in queues[k] : arrival[q] <= arrival[p]
        BY <4>1, <4>2, <3>1, <1>b DEF IsFirst, TypeOK, QueueIsAsked, Numbered, Waiting
      <4>4. ~(k \in new /\ \A p \in queues[k] : num < arrival[p])
        <5> SUFFICES ASSUME k \in new, num < arrival[q]
                     PROVE  FALSE
          BY <4>1
        <5>1. r \in queues'[k] /\ arrival'[r] = num
          BY <1>b DEF TypeOK
        <5>2. QED
          BY <5>1, <4>2, <3>1, <1>a DEF IsFirst, TypeOK
      <4>5. QED
        BY <4>1, <4>2, <4>3, <4>4, <1>b DEF IsFirst
    <3>3. Waiting(q) /\ MayTry(q)
      BY <3>1, <3>2 DEF MayTry, FirstEverywhere
    <3>4. untried'
      BY <3>3, <1>a DEF NoneForgotten, Looked, InSweep, Idle
    <3>5. ~InSweep'
      BY <1>c, AdmissionAssumption DEF InSweep, Idle, Reserving
    <3>6. QED
      BY <3>4, <3>5 DEF Looked
  <2>3. QED
    BY <2>1, <2>2
<1>10. QED
  BY <1>1, <1>2, <1>3, <1>4, <1>5, <1>6, <1>7, <1>8, <1>9

-----------------------------------------------------------------------------
(* Admission._reserve *)

LEMMA ReserveKeyInv ==
    ASSUME Inv, NEW k \in Keys, ReserveKey(k)
    PROVE  Inv'
<1> USE AdmissionAssumption DEF Inv
<1>1. TypeOK'
  <2>1. call.rid \in Rids /\ call.todo \in SUBSET Keys
    BY DEF ReserveKey, CallKeeps, TypeOK, Calls
  <2>2. call' \in Calls
    BY <2>1 DEF ReserveKey, TypeOK, Calls
  <2>3. room' \in [Keys -> Nat] /\ took' \in [Rids -> [Keys -> Nat]]
    BY <2>1 DEF ReserveKey, Fits, TypeOK
  <2>4. QED
    BY <2>2, <2>3 DEF ReserveKey, admVars, TypeOK
<1>2. QueueIsAsked'
  BY DEF ReserveKey, Fits, admVars, QueueIsAsked, TypeOK
<1>3. Numbered'
  BY DEF ReserveKey, Fits, admVars, Numbered, Waiting, TypeOK
<1>4. NodesWait'
  BY DEF ReserveKey, Fits, admVars, NodesWait, TypeOK
<1>5. CallKeeps'
  BY DEF ReserveKey, Fits, admVars, CallKeeps, MayTry, FirstEverywhere, IsFirst, Idle, TypeOK, Calls
<1>6. AllOrNothing'
  BY DEF ReserveKey, Fits, admVars, AllOrNothing, TypeOK, CallKeeps, Calls
<1>7. ParkedIsOwed'
  BY DEF ReserveKey, Fits, admVars, ParkedIsOwed, CallKeeps, TypeOK
<1>8. MarksMeasure'
  BY DEF ReserveKey, Fits, admVars, MarksMeasure, IsFirst, TypeOK
<1>9. NoneForgotten'
  BY DEF ReserveKey, admVars, NoneForgotten, Looked, InSweep, Waiting, MayTry, FirstEverywhere, IsFirst,
         TypeOK, Calls
<1>10. QED
  BY <1>1, <1>2, <1>3, <1>4, <1>5, <1>6, <1>7, <1>8, <1>9

LEMMA ReserveLastInv ==
    ASSUME Inv, NEW k \in Keys, ReserveLast(k)
    PROVE  Inv'
<1> USE AdmissionAssumption DEF Inv
<1> DEFINE r == call.rid
<1>a. /\ r \in Rids /\ call.at = "reserve" /\ MayTry(r)
      /\ call.node \in Nodes \cup {NoNode}
      /\ call.node # NoNode => r \notin parked[call.node]
  BY DEF ReserveLast, CallKeeps, TypeOK, Calls
<1>b. /\ call' \in Calls
      /\ call.node # NoNode => call' = Idle
      /\ call.node = NoNode =>
           call'.at = "sweep" /\ call'.node = NoNode /\ call'.again = TRUE
  BY <1>a, ReturnTypes DEF ReserveLast
<1>c. /\ MarksMeasure'
      /\ \A q \in Rids : (Waiting(q) /\ MayTry(q))' => untried' \/ (q # r /\ Waiting(q) /\ MayTry(q))
  <2> DEFINE led == {j \in asked[r] : IsFirst(r, j)}
  <2>1. led \in SUBSET Keys /\ \A j \in Keys : IsFirst(r, j) => j \in led
    BY <1>a DEF TypeOK, IsFirst, QueueIsAsked
  <2>2. \A j \in Keys : queues'[j] = queues[j] \ {r}
    BY <1>a DEF ReserveLast, Leave, TypeOK, QueueIsAsked
  <2>3. \A j \in Keys : short'[j] = IF j \in led THEN NoMark ELSE short[j]
    BY DEF ReserveLast, Leave
  <2>4. untried' = (untried \/ \E j \in led : queues[j] \ {r} # {})
    <3>1. untried' = (untried \/ \E j \in led : queues[j] # {r})
      BY DEF ReserveLast, Leave
    <3>2. \A j \in led : r \in queues[j]
      BY DEF IsFirst
    <3>3. QED
      BY <3>1, <3>2
  <2>5. /\ asked'[r] = {} /\ moves' = moves
        /\ \A q \in Rids \ {r} : asked'[q] = asked[q] /\ arrival'[q] = arrival[q] /\ need'[q] = need[q]
    BY <1>a DEF ReserveLast, TypeOK
  <2>6. Inv
    OBVIOUS
  <2> HIDE DEF Inv, led, r
  <2>7. QED
    BY <2>1, <2>2, <2>3, <2>4, <2>5, <2>6, <1>a, Leaving
<1>1. TypeOK'
  <2>1. room' \in [Keys -> Nat] /\ took' \in [Rids -> [Keys -> Nat]]
    BY <1>a DEF ReserveLast, Fits, TypeOK
  <2>2. queues' \in [Keys -> SUBSET Rids] /\ short' \in [Keys -> Marks \cup {NoMark}] /\ untried' \in BOOLEAN
    BY <1>a DEF ReserveLast, Leave, TypeOK
  <2>3. asked' \in [Rids -> SUBSET Keys] /\ nodes' \in [Rids -> SUBSET Nodes]
    BY <1>a DEF ReserveLast, TypeOK
  <2>4. admitted' \in [Rids -> SUBSET Nodes]
    BY <1>a DEF ReserveLast, TypeOK
  <2>5. started' \in [Rids -> SUBSET Nodes]
    <3>1. nodes[r] \ {call.node} \in SUBSET Nodes
      BY <1>a DEF TypeOK
    <3>2. started' = started \/ started' = [started EXCEPT ![r] = @ \cup (nodes[r] \ {call.node})]
      BY DEF ReserveLast
    <3>3. started \in [Rids -> SUBSET Nodes]
      BY DEF TypeOK
    <3>4. ASSUME NEW g \in SUBSET Nodes, NEW q \in Rids
          PROVE  [started EXCEPT ![q] = @ \cup g] \in [Rids -> SUBSET Nodes]
      BY <3>3
    <3>5. QED
      BY <3>1, <3>2, <3>3, <3>4, <1>a
  <2>6. parked' \in [Nodes -> SUBSET Rids]
    BY DEF ReserveLast, TypeOK
  <2>7. QED
    BY <2>1, <2>2, <2>3, <2>4, <2>5, <2>6, <1>b DEF ReserveLast, TypeOK
<1>2. QueueIsAsked'
  BY DEF ReserveLast, Leave, QueueIsAsked, TypeOK
<1>3. Numbered'
  BY DEF ReserveLast, Leave, Numbered, Waiting, TypeOK
<1>4. NodesWait'
  BY <1>a DEF ReserveLast, NodesWait, TypeOK
<1>5. CallKeeps'
  BY <1>b DEF CallKeeps, Idle
<1>6. AllOrNothing'
  BY <1>a DEF ReserveLast, AllOrNothing, TypeOK
<1>7. ParkedIsOwed'
  BY <1>a, AdmissionAssumption DEF ReserveLast, ParkedIsOwed, TypeOK
<1>8. MarksMeasure'
  BY <1>c
<1>9. NoneForgotten'
  <2> SUFFICES ASSUME NEW q \in Rids, Waiting(q)', MayTry(q)'
               PROVE  Looked(q)'
    BY DEF NoneForgotten
  <2>1. untried' \/ (q # r /\ Waiting(q) /\ MayTry(q))
    BY <1>c
  <2>2. CASE call.node = NoNode
    BY <2>2, <1>b DEF Looked, InSweep
  <2>3. CASE call.node # NoNode
    <3>1. ~InSweep'
      BY <2>3, <1>b DEF InSweep, Idle
    <3>2. q # r /\ Waiting(q) /\ MayTry(q) => untried
      BY <2>3, <1>a DEF NoneForgotten, Looked, InSweep
    <3>3. untried => untried'
      BY DEF ReserveLast, Leave
    <3>4. QED
      BY <3>1, <3>2, <3>3, <2>1 DEF Looked
  <2>4. QED
    BY <2>2, <2>3
<1>10. QED
  BY <1>1, <1>2, <1>3, <1>4, <1>5, <1>6, <1>7, <1>8, <1>9

LEMMA ReserveShortInv ==
    ASSUME Inv, NEW k \in Keys, ReserveShort(k)
    PROVE  Inv'
<1> USE AdmissionAssumption DEF Inv
<1> DEFINE r == call.rid
<1>a. /\ r \in Rids /\ call.at = "reserve" /\ MayTry(r) /\ k \in asked[r] /\ k \in call.todo
      /\ call.node \in Nodes \cup {NoNode}
  BY DEF ReserveShort, CallKeeps, TypeOK, Calls
<1>b. /\ call' \in Calls
      /\ call.node # NoNode => call' = Idle
      /\ call.node = NoNode =>
           /\ call'.at = "sweep" /\ call'.node = NoNode
           /\ call'.sweep = call.sweep /\ call'.again = call.again
  <2>1. call.again \in BOOLEAN
    BY DEF TypeOK, Calls
  <2>2. QED
    BY <2>1, <1>a, ReturnTypes DEF ReserveShort
<1>c. short' = [short EXCEPT ![k] = MarkOf(k)] /\ MarkOf(k) \in Marks /\ MarkOf(k) # NoMark
  BY DEF ReserveShort, MarkOf, NoMark, Marks, TypeOK
<1>d. UNCHANGED <<arrivals, arrival, asked, nodes, queues, untried, admitted, started, failed, moves, need>>
  BY DEF ReserveShort
<1>1. TypeOK'
  <2>1. room' \in [Keys -> Nat] /\ took' \in [Rids -> [Keys -> Nat]]
    BY <1>a DEF ReserveShort, TypeOK
  <2>2. short' \in [Keys -> Marks \cup {NoMark}]
    BY <1>c DEF TypeOK
  <2>3. parked' \in [Nodes -> SUBSET Rids]
    BY <1>a DEF ReserveShort, TypeOK
  <2>4. QED
    BY <2>1, <2>2, <2>3, <1>b, <1>d DEF TypeOK
<1>2. QueueIsAsked'
  BY DEF ReserveShort, QueueIsAsked, TypeOK
<1>3. Numbered'
  BY DEF ReserveShort, Numbered, Waiting, TypeOK
<1>4. NodesWait'
  BY DEF ReserveShort, NodesWait, TypeOK
<1>5. CallKeeps'
  BY <1>b DEF CallKeeps, Idle
<1>6. AllOrNothing'
  BY <1>a, <1>d DEF ReserveShort, AllOrNothing, TypeOK
<1>7. ParkedIsOwed'
  <2>1. call.node # NoNode => call.node \in nodes[r]
    BY <1>a DEF CallKeeps
  <2>2. parked' = parked \/ (call.node # NoNode /\ parked' = [parked EXCEPT ![call.node] = @ \cup {r}])
    BY DEF ReserveShort
  <2>3. QED
    <3>1. ASSUME NEW m \in Nodes, NEW q \in parked'[m]
          PROVE  m \in nodes[q] \cup started[q] \/ q \in failed
      <4>1. q \in parked[m] \/ (call.node # NoNode /\ m = call.node /\ q = r)
        BY <2>2, <1>a, <3>1 DEF TypeOK
      <4>2. QED
        BY <4>1, <2>1 DEF ParkedIsOwed
    <3>2. QED
      BY <3>1, <1>d DEF ParkedIsOwed
<1>8. MarksMeasure'
  <2> SUFFICES ASSUME NEW j \in Keys, short'[j] # NoMark
               PROVE  /\ short'[j].moves <= moves'[j]
                      /\ short'[j].moves = moves'[j] =>
                           \A q \in queues'[j] : IsFirst(q, j)' => need'[q][j] > short'[j].room
    BY DEF MarksMeasure
  <2>1. CASE j # k
    BY <2>1, <1>c, <1>d DEF MarksMeasure, IsFirst, TypeOK
  <2>2. CASE j = k
    <3>1. short'[k] = MarkOf(k) /\ MarkOf(k).room = room[k] /\ MarkOf(k).moves = moves[k]
      BY <1>c DEF MarkOf, TypeOK
    <3>2. ASSUME NEW q \in queues[k], IsFirst(q, k)
          PROVE  q = r
      BY <3>2, <1>a, FirstIsOne DEF MayTry, FirstEverywhere, QueueIsAsked
    <3>3. need[r][k] > room[k]
      BY <1>a DEF ReserveShort, Fits, TypeOK
    <3>4. moves[k] <= moves[k]
      BY DEF TypeOK
    <3>5. QED
      BY <3>1, <3>2, <3>3, <3>4, <2>2, <1>d DEF IsFirst
  <2>3. QED
    BY <2>1, <2>2
<1>9. NoneForgotten'
  <2> SUFFICES ASSUME NEW q \in Rids, Waiting(q)', MayTry(q)'
               PROVE  Looked(q)'
    BY DEF NoneForgotten
  <2>1. k \notin asked[q] /\ Waiting(q) /\ MayTry(q)
    BY <1>c, <1>d DEF Waiting, MayTry, FirstEverywhere, IsFirst, TypeOK
  <2>2. q # r /\ Looked(q)
    BY <2>1, <1>a DEF NoneForgotten
  <2>3. QED
    BY <2>2, <1>a, <1>b, <1>d DEF Looked, InSweep, Idle
<1>10. QED
  BY <1>1, <1>2, <1>3, <1>4, <1>5, <1>6, <1>7, <1>8, <1>9

-----------------------------------------------------------------------------
(* Admission.admit_waiting *)

LEMMA AdmitWaitingInv ==
    ASSUME Inv, AdmitWaiting
    PROVE  Inv'
<1> USE AdmissionAssumption DEF Inv
<1>a. call = Idle /\ call' \in Calls /\ (call' = Idle \/ call' = Sweeping(Keys, FALSE))
  BY CallTypes DEF AdmitWaiting
<1>b. UNCHANGED <<arrivals, arrival, asked, nodes, queues, untried, admitted, failed, resVars>>
  BY DEF AdmitWaiting
<1>c. \A k \in Keys : short'[k] = short[k] \/ short'[k] = NoMark
  BY DEF AdmitWaiting
<1>d. short' \in [Keys -> Marks \cup {NoMark}]
  BY DEF AdmitWaiting, TypeOK
<1>1. TypeOK'
  <2>1. parked' \in [Nodes -> SUBSET Rids] /\ started' \in [Rids -> SUBSET Nodes]
    BY DEF AdmitWaiting, TypeOK
  <2>2. QED
    BY <2>1, <1>a, <1>b, <1>d DEF TypeOK, resVars
<1>2. QueueIsAsked'
  BY DEF AdmitWaiting, QueueIsAsked, TypeOK
<1>3. Numbered'
  BY DEF AdmitWaiting, Numbered, Waiting, TypeOK
<1>4. NodesWait'
  BY DEF AdmitWaiting, NodesWait, TypeOK
<1>5. CallKeeps'
  BY <1>a, SweepStarts DEF CallKeeps, Idle
<1>6. AllOrNothing'
  BY <1>a, <1>b DEF AllOrNothing, resVars, Idle
<1>7. ParkedIsOwed'
  BY DEF AdmitWaiting, ParkedIsOwed, CallKeeps, TypeOK
<1>8. MarksMeasure'
  BY <1>b, <1>c DEF MarksMeasure, IsFirst, resVars
<1>9. NoneForgotten'
  <2>1. CASE call' = Sweeping(Keys, FALSE)
    BY <2>1, <1>b, SweepStarts DEF NoneForgotten, Looked, InSweep, Waiting, TypeOK
  <2>2. CASE call' = Idle
    <3>1. UNCHANGED short
      BY <2>2, SweepStarts DEF AdmitWaiting
    <3>2. QED
      BY <2>2, <3>1, <1>a, <1>b DEF NoneForgotten, Looked, InSweep, Waiting, MayTry, FirstEverywhere, IsFirst, Idle
  <2>3. QED
    BY <2>1, <2>2, <1>a
<1>10. QED
  BY <1>1, <1>2, <1>3, <1>4, <1>5, <1>6, <1>7, <1>8, <1>9

LEMMA SweepSkipInv ==
    ASSUME Inv, NEW k \in Keys, SweepSkip(k)
    PROVE  Inv'
<1> USE AdmissionAssumption DEF Inv
<1>a. call.at = "sweep" /\ call' = [call EXCEPT !.sweep = @ \ {k}] /\ call' \in Calls
  BY DEF SweepSkip, TypeOK, Calls
<1>b. UNCHANGED <<admVars, resVars>>
  BY DEF SweepSkip
<1>1. TypeOK'
  BY <1>a, <1>b DEF TypeOK, admVars, resVars
<1>2. QueueIsAsked'
  BY DEF SweepSkip, admVars, resVars, QueueIsAsked, TypeOK
<1>3. Numbered'
  BY DEF SweepSkip, admVars, resVars, Numbered, Waiting, TypeOK
<1>4. NodesWait'
  BY DEF SweepSkip, admVars, resVars, NodesWait, TypeOK
<1>5. CallKeeps'
  BY DEF SweepSkip, admVars, resVars, CallKeeps, MayTry, FirstEverywhere, IsFirst, Idle, TypeOK
<1>6. AllOrNothing'
  BY DEF SweepSkip, admVars, resVars, AllOrNothing, TypeOK, CallKeeps
<1>7. ParkedIsOwed'
  BY DEF SweepSkip, admVars, resVars, ParkedIsOwed, CallKeeps, TypeOK
<1>8. MarksMeasure'
  BY DEF SweepSkip, admVars, resVars, MarksMeasure, IsFirst, TypeOK
<1>9. NoneForgotten'
  <2> SUFFICES ASSUME NEW q \in Rids, Waiting(q)', MayTry(q)'
               PROVE  Looked(q)'
    BY DEF NoneForgotten
  <2>1. Waiting(q) /\ MayTry(q) /\ Looked(q)
    BY <1>b DEF NoneForgotten, Waiting, MayTry, FirstEverywhere, IsFirst, admVars
  <2>2. k \notin asked[q]
    BY <2>1 DEF SweepSkip, MayTry, FirstEverywhere, QueueIsAsked
  <2>3. /\ call'.at = "sweep" /\ call'.node = call.node /\ call'.again = call.again
        /\ call'.sweep = call.sweep \ {k}
    BY <1>a DEF TypeOK, Calls
  <2>4. QED
    BY <2>1, <2>2, <2>3, <1>a, <1>b DEF Looked, InSweep, admVars
<1>10. QED
  BY <1>1, <1>2, <1>3, <1>4, <1>5, <1>6, <1>7, <1>8, <1>9

LEMMA SweepTryInv ==
    ASSUME Inv, NEW k \in Keys, SweepTry(k)
    PROVE  Inv'
<1> USE AdmissionAssumption DEF Inv
<1>a. PICK r \in queues[k] :
         /\ IsFirst(r, k) /\ MayTry(r)
         /\ call' = [Idle EXCEPT !.at = "reserve", !.rid = r, !.todo = asked[r],
                                 !.sweep = call.sweep \ {k}, !.again = call.again]
  BY DEF SweepTry
<1>b. call.at = "sweep" /\ UNCHANGED <<admVars, resVars>>
  BY DEF SweepTry
<1>c. r \in Rids /\ k \in asked[r] /\ asked[r] \in SUBSET Keys
  BY <1>a DEF TypeOK, QueueIsAsked
<1>d. /\ call'.at = "reserve" /\ call'.rid = r /\ call'.node = NoNode /\ call'.todo = asked[r]
      /\ call'.sweep = call.sweep \ {k} /\ call'.again = call.again
  BY <1>a DEF Idle
<1>e. call' \in Calls
  <2>1. call.sweep \in SUBSET Keys /\ call.again \in BOOLEAN
    BY DEF TypeOK, Calls
  <2>2. QED
    BY <2>1, <1>a, <1>c DEF Calls, Idle
<1>1. TypeOK'
  BY <1>b, <1>e DEF TypeOK, admVars, resVars
<1>2. QueueIsAsked'
  BY DEF SweepTry, admVars, resVars, QueueIsAsked, TypeOK
<1>3. Numbered'
  BY DEF SweepTry, admVars, resVars, Numbered, Waiting, TypeOK
<1>4. NodesWait'
  BY DEF SweepTry, admVars, resVars, NodesWait, TypeOK
<1>5. CallKeeps'
  BY <1>a, <1>b, <1>c, <1>d DEF CallKeeps, MayTry, FirstEverywhere, IsFirst, admVars
<1>6. AllOrNothing'
  BY <1>b DEF AllOrNothing, admVars, resVars
<1>7. ParkedIsOwed'
  BY DEF SweepTry, admVars, resVars, ParkedIsOwed, CallKeeps, TypeOK
<1>8. MarksMeasure'
  BY DEF SweepTry, admVars, resVars, MarksMeasure, IsFirst, TypeOK
<1>9. NoneForgotten'
  <2> SUFFICES ASSUME NEW q \in Rids, Waiting(q)', MayTry(q)'
               PROVE  Looked(q)'
    BY DEF NoneForgotten
  <2>1. Waiting(q) /\ MayTry(q) /\ Looked(q)
    BY <1>b DEF NoneForgotten, Waiting, MayTry, FirstEverywhere, IsFirst, admVars
  <2>2. k \in asked[q] => q = r
    BY <2>1, <1>a, <1>c, FirstIsOne DEF MayTry, FirstEverywhere, QueueIsAsked
  <2>3. InSweep /\ (call.again \/ asked[q] \cap call.sweep # {})
    BY <2>1, <1>b DEF Looked, InSweep, CallKeeps
  <2>4. QED
    BY <2>2, <2>3, <1>b, <1>d DEF Looked, InSweep, admVars
<1>10. QED
  BY <1>1, <1>2, <1>3, <1>4, <1>5, <1>6, <1>7, <1>8, <1>9

LEMMA SweepEndInv ==
    ASSUME Inv, SweepEnd
    PROVE  Inv'
<1> USE AdmissionAssumption DEF Inv
<1>a. call.at = "sweep" /\ call.sweep = {} /\ call' \in Calls
  BY CallTypes DEF SweepEnd
<1>b. \/ call.again /\ call' = Sweeping(Keys, FALSE) /\ UNCHANGED untried
      \/ ~call.again /\ call' = Idle /\ untried' = FALSE
  BY DEF SweepEnd
<1>c. UNCHANGED <<arrivals, arrival, asked, nodes, queues, short, admitted, started, parked, failed, resVars>>
  BY DEF SweepEnd
<1>1. TypeOK'
  BY <1>a, <1>b, <1>c DEF TypeOK, resVars
<1>2. QueueIsAsked'
  BY DEF SweepEnd, resVars, QueueIsAsked, TypeOK
<1>3. Numbered'
  BY DEF SweepEnd, resVars, Numbered, Waiting, TypeOK
<1>4. NodesWait'
  BY DEF SweepEnd, resVars, NodesWait, TypeOK
<1>5. CallKeeps'
  <2>1. CASE call' = Sweeping(Keys, FALSE)
    BY <2>1, SweepStarts DEF CallKeeps
  <2>2. CASE call' = Idle
    BY <2>2 DEF CallKeeps, Idle
  <2>3. QED
    BY <2>1, <2>2, <1>b
<1>6. AllOrNothing'
  BY DEF SweepEnd, resVars, AllOrNothing, TypeOK, CallKeeps
<1>7. ParkedIsOwed'
  BY DEF SweepEnd, resVars, ParkedIsOwed, CallKeeps, TypeOK
<1>8. MarksMeasure'
  BY DEF SweepEnd, resVars, MarksMeasure, IsFirst, TypeOK
<1>9. NoneForgotten'
  <2> SUFFICES ASSUME NEW q \in Rids, Waiting(q)', MayTry(q)'
               PROVE  Looked(q)'
    BY DEF NoneForgotten
  <2>1. Waiting(q) /\ MayTry(q)
    BY <1>c DEF Waiting, MayTry, FirstEverywhere, IsFirst
  <2>2. call.again
    BY <2>1, <1>a DEF NoneForgotten, Looked, InSweep, CallKeeps
  <2>3. asked'[q] \cap Keys # {}
    BY <2>1, <1>c DEF Waiting, TypeOK
  <2>4. QED
    BY <2>2, <2>3, <1>b, SweepStarts DEF Looked, InSweep
<1>10. QED
  BY <1>1, <1>2, <1>3, <1>4, <1>5, <1>6, <1>7, <1>8, <1>9

-----------------------------------------------------------------------------
(* ResourceRunner.remove_request and the GPU thread *)

LEMMA RemoveRequestInv ==
    ASSUME Inv, NEW r \in Rids, RemoveRequest(r)
    PROVE  Inv'
<1> USE AdmissionAssumption DEF Inv
<1>a. call = Idle /\ call' = Idle
  BY DEF RemoveRequest
<1>b. /\ MarksMeasure'
      /\ \A q \in Rids : (Waiting(q) /\ MayTry(q))' => untried' \/ (q # r /\ Waiting(q) /\ MayTry(q))
  <2> DEFINE led == {j \in asked[r] : IsFirst(r, j)}
  <2>1. led \in SUBSET Keys /\ \A j \in Keys : IsFirst(r, j) => j \in led
    BY DEF TypeOK, IsFirst, QueueIsAsked
  <2>2. \A j \in Keys : queues'[j] = queues[j] \ {r}
    BY DEF RemoveRequest, Forget, Leave, TypeOK, QueueIsAsked
  <2>3. \A j \in Keys : short'[j] = IF j \in led THEN NoMark ELSE short[j]
    BY DEF RemoveRequest, Forget, Leave
  <2>4. untried' = (untried \/ \E j \in led : queues[j] \ {r} # {})
    <3>1. untried' = (untried \/ \E j \in led : queues[j] # {r})
      BY DEF RemoveRequest, Forget, Leave
    <3>2. \A j \in led : r \in queues[j]
      BY DEF IsFirst
    <3>3. QED
      BY <3>1, <3>2
  <2>5. /\ asked'[r] = {} /\ moves' = moves
        /\ \A q \in Rids \ {r} : asked'[q] = asked[q] /\ arrival'[q] = arrival[q] /\ need'[q] = need[q]
    BY DEF RemoveRequest, Forget, TypeOK
  <2>6. Inv
    OBVIOUS
  <2> HIDE DEF Inv, led
  <2>7. QED
    BY <2>1, <2>2, <2>3, <2>4, <2>5, <2>6, Leaving
<1>1. TypeOK'
  <2>1. room' \in [Keys -> Nat] 
    BY DEF RemoveRequest, TypeOK
  <2>a. took' \in [Rids -> [Keys -> Nat]] /\ need' \in [Rids -> [Keys -> Nat]]
    BY DEF RemoveRequest, TypeOK
  <2>2. queues' \in [Keys -> SUBSET Rids] /\ short' \in [Keys -> Marks \cup {NoMark}] /\ untried' \in BOOLEAN
    BY DEF RemoveRequest, Forget, Leave, TypeOK
  <2>3. QED
    BY <2>1, <2>a, <2>2 DEF RemoveRequest, Forget, TypeOK
<1>2. QueueIsAsked'
  BY DEF RemoveRequest, Forget, Leave, QueueIsAsked, TypeOK
<1>3. Numbered'
  BY DEF RemoveRequest, Forget, Leave, Numbered, Waiting, TypeOK
<1>4. NodesWait'
  BY DEF RemoveRequest, Forget, Leave, NodesWait, TypeOK
<1>5. CallKeeps'
  BY DEF RemoveRequest, Forget, Leave, CallKeeps, MayTry, FirstEverywhere, IsFirst, Idle, TypeOK
<1>6. AllOrNothing'
  BY DEF RemoveRequest, Forget, Leave, AllOrNothing, TypeOK, CallKeeps
<1>7. ParkedIsOwed'
  BY DEF RemoveRequest, Forget, Leave, ParkedIsOwed, CallKeeps, TypeOK
<1>8. MarksMeasure'
  BY <1>b
<1>9. NoneForgotten'
  <2>1. untried => untried'
    BY DEF RemoveRequest, Forget, Leave
  <2>2. QED
    BY <2>1, <1>a, <1>b DEF NoneForgotten, Looked, InSweep, Idle
<1>10. QED
  BY <1>1, <1>2, <1>3, <1>4, <1>5, <1>6, <1>7, <1>8, <1>9

LEMMA GrowInv ==
    ASSUME Inv, NEW r \in Rids, NEW k \in Keys, Grow(r, k)
    PROVE  Inv'
<1> USE AdmissionAssumption DEF Inv
<1>1. TypeOK'
  BY DEF Grow, admVars, TypeOK
<1>2. QueueIsAsked'
  BY DEF Grow, admVars, QueueIsAsked, TypeOK
<1>3. Numbered'
  BY DEF Grow, admVars, Numbered, Waiting, TypeOK
<1>4. NodesWait'
  BY DEF Grow, admVars, NodesWait, TypeOK
<1>5. CallKeeps'
  BY DEF Grow, admVars, CallKeeps, MayTry, FirstEverywhere, IsFirst, Idle, TypeOK
<1>6. AllOrNothing'
  BY DEF Grow, admVars, AllOrNothing, TypeOK, CallKeeps
<1>7. ParkedIsOwed'
  BY DEF Grow, admVars, ParkedIsOwed, CallKeeps, TypeOK
<1>8. MarksMeasure'
  BY DEF Grow, admVars, MarksMeasure, IsFirst, TypeOK
<1>9. NoneForgotten'
  BY DEF Grow, admVars, NoneForgotten, Looked, InSweep, Waiting, MayTry, FirstEverywhere, IsFirst, CallKeeps, TypeOK
<1>10. QED
  BY <1>1, <1>2, <1>3, <1>4, <1>5, <1>6, <1>7, <1>8, <1>9

LEMMA ShrinkInv ==
    ASSUME Inv, NEW r \in Rids, NEW k \in Keys, Shrink(r, k)
    PROVE  Inv'
<1> USE AdmissionAssumption DEF Inv
<1>1. TypeOK'
  BY DEF Shrink, admVars, TypeOK
<1>2. QueueIsAsked'
  BY DEF Shrink, admVars, QueueIsAsked, TypeOK
<1>3. Numbered'
  BY DEF Shrink, admVars, Numbered, Waiting, TypeOK
<1>4. NodesWait'
  BY DEF Shrink, admVars, NodesWait, TypeOK
<1>5. CallKeeps'
  BY DEF Shrink, admVars, CallKeeps, MayTry, FirstEverywhere, IsFirst, Idle, TypeOK
<1>6. AllOrNothing'
  BY DEF Shrink, admVars, AllOrNothing, TypeOK, CallKeeps
<1>7. ParkedIsOwed'
  BY DEF Shrink, admVars, ParkedIsOwed, CallKeeps, TypeOK
<1>8. MarksMeasure'
  BY DEF Shrink, admVars, MarksMeasure, IsFirst, TypeOK
<1>9. NoneForgotten'
  BY DEF Shrink, admVars, NoneForgotten, Looked, InSweep, Waiting, MayTry, FirstEverywhere, IsFirst, CallKeeps, TypeOK
<1>10. QED
  BY <1>1, <1>2, <1>3, <1>4, <1>5, <1>6, <1>7, <1>8, <1>9

LEMMA MoveInv ==
    ASSUME Inv, NEW k \in Keys, NEW rs \in SUBSET Rids, Move(k, rs)
    PROVE  Inv'
<1> USE AdmissionAssumption DEF Inv
<1>1. TypeOK'
  BY DEF Move, admVars, TypeOK
<1>2. QueueIsAsked'
  BY DEF Move, admVars, QueueIsAsked, TypeOK
<1>3. Numbered'
  BY DEF Move, admVars, Numbered, Waiting, TypeOK
<1>4. NodesWait'
  BY DEF Move, admVars, NodesWait, TypeOK
<1>5. CallKeeps'
  BY DEF Move, admVars, CallKeeps, MayTry, FirstEverywhere, IsFirst, Idle, TypeOK
<1>6. AllOrNothing'
  BY DEF Move, admVars, AllOrNothing, TypeOK, CallKeeps
<1>7. ParkedIsOwed'
  BY DEF Move, admVars, ParkedIsOwed, CallKeeps, TypeOK
<1>8. MarksMeasure'
  <2> SUFFICES ASSUME NEW j \in Keys, short'[j] # NoMark
               PROVE  /\ short'[j].moves <= moves'[j]
                      /\ short'[j].moves = moves'[j] =>
                           \A q \in queues'[j] : IsFirst(q, j)' => need'[q][j] > short'[j].room
    BY DEF MarksMeasure
  <2>1. UNCHANGED <<short, queues, arrival>> /\ short[j].moves <= moves[j]
    BY DEF Move, admVars, MarksMeasure
  <2>2. CASE j # k
    <3>1. moves'[j] = moves[j] /\ \A q \in Rids : need'[q][j] = need[q][j]
      BY <2>2 DEF Move, TypeOK
    <3>2. QED
      BY <3>1, <2>1 DEF MarksMeasure, IsFirst, TypeOK
  <2>3. CASE j = k
    <3>1. short[k] \in Marks /\ short[k].moves \in Nat
      BY <2>1, <2>3 DEF TypeOK, Marks
    <3>2. moves'[k] = moves[k] + 1 /\ moves[k] \in Nat
      BY DEF Move, TypeOK
    <3>3. QED
      BY <3>1, <3>2, <2>1, <2>3
  <2>4. QED
    BY <2>2, <2>3
<1>9. NoneForgotten'
  BY DEF Move, admVars, NoneForgotten, Looked, InSweep, Waiting, MayTry, FirstEverywhere, IsFirst, CallKeeps, TypeOK
<1>10. QED
  BY <1>1, <1>2, <1>3, <1>4, <1>5, <1>6, <1>7, <1>8, <1>9

-----------------------------------------------------------------------------
(* The theorems *)

LEMMA InvInit == Init => Inv
<1> SUFFICES ASSUME Init
             PROVE  Inv
  OBVIOUS
<1> USE AdmissionAssumption DEF Init
<1>1. TypeOK
  <2>1. arrivals \in 1..(MaxArrivals + 1) /\ arrival \in [Rids -> 0..MaxArrivals] /\ moves \in [Keys -> 0..MaxMoves]
    OBVIOUS
  <2>2. call \in Calls
    BY CallTypes
  <2>3. room \in [Keys -> Nat] /\ need \in [Rids -> [Keys -> Nat]] /\ took \in [Rids -> [Keys -> Nat]]
    OBVIOUS
  <2>4. QED
    BY <2>1, <2>2, <2>3 DEF TypeOK
<1>2. QueueIsAsked /\ Numbered /\ NodesWait /\ AllOrNothing /\ ParkedIsOwed
  BY DEF QueueIsAsked, Numbered, Waiting, NodesWait, AllOrNothing, ParkedIsOwed
<1>3. CallKeeps /\ MarksMeasure /\ NoneForgotten
  BY DEF CallKeeps, Idle, MarksMeasure, NoneForgotten, Waiting
<1>4. QED
  BY <1>1, <1>2, <1>3 DEF Inv

LEMMA InvStep == Inv /\ [Next]_vars => Inv'
<1> SUFFICES ASSUME Inv, [Next]_vars
             PROVE  Inv'
  OBVIOUS
<1>1. CASE \E r \in Rids, n \in Nodes : Admit(r, n)
  BY <1>1, AdmitAtOnceInv, AdmitFailsInv, AdmitAsksInv DEF Admit
<1>2. CASE Reserve
  BY <1>2, ReserveKeyInv, ReserveLastInv, ReserveShortInv DEF Reserve
<1>3. CASE AdmitWaiting
  BY <1>3, AdmitWaitingInv
<1>4. CASE Sweep
  BY <1>4, SweepSkipInv, SweepTryInv, SweepEndInv DEF Sweep
<1>5. CASE \E r \in Rids : RemoveRequest(r)
  BY <1>5, RemoveRequestInv
<1>6. CASE Gpu
  BY <1>6, GrowInv, ShrinkInv, MoveInv DEF Gpu
<1>7. CASE UNCHANGED vars
  <2>1. UNCHANGED <<admVars, call, resVars>>
    BY <1>7 DEF vars
  <2>2. QED
    BY ZenonT(60), <2>1 DEF admVars, resVars, Inv, TypeOK, QueueIsAsked, Numbered, NodesWait, CallKeeps, AllOrNothing,
                ParkedIsOwed, MarksMeasure, NoneForgotten, Looked, InSweep, Waiting, MayTry, FirstEverywhere,
                IsFirst
<1>8. QED
  BY <1>1, <1>2, <1>3, <1>4, <1>5, <1>6, <1>7 DEF Next

LEMMA InvAlways == Spec => []Inv
<1>1. QED
  BY InvInit, InvStep, PTL DEF Spec

(***************************************************************************)
(* Whatever requests ask of whatever resources: a request that is first    *)
(* and fits is seen by the next admit_waiting, so admit_waiting may return *)
(* at once when nothing grew and nothing is untried.                       *)
(***************************************************************************)
THEOREM NoLostWakeup == Spec => []FittingIsSeen
<1>1. Inv => FittingIsSeen
  <2> SUFFICES ASSUME Inv, call = Idle, NEW r \in Rids, Waiting(r), FirstEverywhere(r),
                      \A k \in asked[r] : Fits(r, k), ~untried
               PROVE  asked[r] \cap Grown # {}
    BY DEF FittingIsSeen
  <2>1. ~MayTry(r)
    BY DEF Inv, NoneForgotten, Looked, InSweep, Idle
  <2>2. PICK k \in asked[r] : short[k] # NoMark
    BY <2>1 DEF MayTry
  <2>3. k \in Keys /\ r \in queues[k] /\ IsFirst(r, k) /\ need[r][k] <= room[k]
    BY DEF Inv, TypeOK, QueueIsAsked, FirstEverywhere, Fits
  <2>4. /\ short[k].room \in Int /\ room[k] \in Int /\ need[r][k] \in Int
        /\ short[k].moves = moves[k] => need[r][k] > short[k].room
    BY <2>2, <2>3, AdmissionAssumption DEF Inv, TypeOK, MarksMeasure, Marks
  <2>5. GrewSince(k)
    BY <2>3, <2>4 DEF GrewSince
  <2>6. QED
    BY <2>2, <2>3, <2>5 DEF Grown
<1>2. QED
  BY <1>1, InvAlways, PTL

(***************************************************************************)
(* A request that waits for a resource holds nothing of it, except in the  *)
(* middle of the call of _reserve that is taking it.                       *)
(***************************************************************************)
THEOREM WaitingHoldsNothing == Spec => []AllOrNothing
<1>1. Inv => AllOrNothing
  BY DEF Inv
<1>2. QED
  BY <1>1, InvAlways, PTL

(***************************************************************************)
(* Every readiness check the scheduler has parked is one that admission    *)
(* will answer, or of a request that failed.                               *)
(***************************************************************************)
THEOREM ChecksAreAnswered == Spec => []ParkedIsOwed
<1>1. Inv => ParkedIsOwed
  BY DEF Inv
<1>2. QED
  BY <1>1, InvAlways, PTL

\* A request that waited is admitted only when it is the first of every queue it is in.
LEMMA AdmittedFromTheFront ==
    ASSUME Inv, [Next]_vars, NEW r \in Rids, NEW q \in Rids,
           Waiting(r), admitted'[r] \cap nodes[r] # {}, asked[q] \cap asked[r] # {}
    PROVE  arrival[r] <= arrival[q]
<1> USE AdmissionAssumption
<1>1. admitted[r] \cap nodes[r] = {} /\ \A n \in nodes[r] : KeysOf[n] \cap asked[r] # {}
  BY DEF Inv, NodesWait
<1>2. admitted'[r] # admitted[r]
  BY <1>1
<1>3. ASSUME NEW p \in Rids, NEW n \in Nodes, AdmitAtOnce(p, n)
      PROVE  FALSE
  <2>1. p = r /\ n \in nodes[r]
    BY <1>1, <1>3 DEF AdmitAtOnce, Inv, TypeOK
  <2>2. QED
    BY <1>1, <1>3, <2>1 DEF AdmitAtOnce
<1>4. ASSUME NEW k \in Keys, ReserveLast(k)
      PROVE  arrival[r] <= arrival[q]
  <2>1. call.rid = r /\ MayTry(r)
    BY <1>2, <1>4 DEF ReserveLast, Inv, TypeOK, CallKeeps
  <2>2. PICK j \in asked[r] : j \in asked[q]
    OBVIOUS
  <2>3. j \in Keys /\ q \in queues[j] /\ IsFirst(r, j)
    BY <2>1, <2>2 DEF Inv, TypeOK, QueueIsAsked, MayTry, FirstEverywhere
  <2>4. QED
    BY <2>3 DEF IsFirst
<1>5. ASSUME NEW p \in Rids, RemoveRequest(p)
      PROVE  FALSE
  BY <1>1, <1>5 DEF RemoveRequest, Forget, Inv, TypeOK
<1>6. ASSUME \/ \E p \in Rids, n \in Nodes : AdmitFails(p, n) \/ AdmitAsks(p, n)
             \/ \E k \in Keys : ReserveKey(k) \/ ReserveShort(k)
             \/ AdmitWaiting \/ Sweep \/ Gpu \/ UNCHANGED vars
      PROVE  FALSE
  <2>1. UNCHANGED admitted
    BY <1>6 DEF AdmitFails, AdmitAsks, ReserveKey, ReserveShort, AdmitWaiting, Sweep, SweepEnd, SweepSkip,
                SweepTry, Gpu, Grow, Shrink, Move, vars, admVars
  <2>2. QED
    BY <2>1, <1>2
<1>7. QED
  BY <1>3, <1>4, <1>5, <1>6 DEF Next, Admit, Reserve

(***************************************************************************)
(* Waiting requests are admitted in the order they first asked: _reserve   *)
(* is called for nobody behind another, and no other handler admits a node *)
(* that waits.                                                             *)
(***************************************************************************)
THEOREM FirstComeFirstServed == Spec => NoOvertaking
<1>1. Inv /\ [Next]_vars =>
        [\A r, q \in Rids :
           (Waiting(r) /\ admitted'[r] \cap nodes[r] # {} /\ asked[q] \cap asked[r] # {})
              => arrival[r] <= arrival[q]]_vars
  BY AdmittedFromTheFront
<1>2. QED
  BY <1>1, InvAlways, PTL DEF Spec, NoOvertaking

(***************************************************************************)
(* At every step of every call, a queue is a set of requests, a mark is an *)
(* amount or none, what a request took is a count of each resource, and    *)
(* the room of a resource, which take and free move, never drops below     *)
(* zero.                                                                   *)
(***************************************************************************)
THEOREM AdmissionTyped == Spec => []TypeOK
<1>1. Inv => TypeOK
  BY DEF Inv
<1>2. QED
  BY <1>1, InvAlways, PTL

=============================================================================
