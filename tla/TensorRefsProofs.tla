-------------------------- MODULE TensorRefsProofs --------------------------
(***************************************************************************)
(* For every set of tensors and any bound on the edges: a producer frees   *)
(* no tensor that is still to be read (SourceHeld) and holds none whose    *)
(* last read is acknowledged (FreedWhenRead), but for edges that its       *)
(* reader drops between READS_DONE and the removal.                        *)
(*                                                                         *)
(* Neither is inductive.  Both rest on RefsExact, that the producer's      *)
(* count and what the conductor has yet to tell it add up to the reads     *)
(* due and dropped.  RefsExact needs to know which tensors nobody reads    *)
(* (StaysQuiet), where the conductor's count can be (CountsPlaced), and    *)
(* that a count which reached zero has freed its tensor (HeldIsCounted).   *)
(* A removal frees without looking at counts: RemovalWaits is what it      *)
(* waited for.                                                             *)
(***************************************************************************)
EXTENDS TensorRefs, TLAPS

\* Nothing names u: no edge or acknowledgement is on its way or was dropped, and
\* the conductor does not know it.
Quiet(u) ==
    /\ way[u] = 0 /\ owed[u] = 0 /\ acks[u] = 0 /\ dropped[u] = 0
    /\ u \notin known /\ passed[u] = 0 /\ u \notin giving /\ given[u] = 0

\* A tensor that does not exist yet, was never sent or was freed by its count
\* is named by nothing.
StaysQuiet ==
    \A u \in Uuids :
        /\ at[u] = "none" \/ u \in unsent \/ (at[u] = "freed" /\ kst # "closed") => Quiet(u)
        /\ u \in unsent => at[u] # "none"

\* The conductor counts readers only of what it knows, and a count is in the
\* message that carries it or nowhere else.
CountsPlaced ==
    \A u \in Uuids :
        /\ u \notin known => passed[u] = 0
        /\ u \notin giving => given[u] = 0
        /\ u \in giving => u \notin known /\ given[u] > 0

\* A tensor that is not persisted is held by its count.
HeldIsCounted == \A u \in Uuids : at[u] = "held" /\ ~persist[u] => refs[u] > 0

\* What is being read has an edge to answer for, and nothing is read once
\* READS_DONE was sent.
ReadingOwed ==
    /\ \A u \in reading : owed[u] > 0
    /\ ~Taking => reading = {}

\* A removal that was not forced waited for READS_DONE, or for every edge to be
\* read and acknowledged.
RemovalWaits ==
    kst = "closed" /\ ~forced => ~Taking \/ \A u \in Uuids : way[u] = 0 /\ owed[u] = 0

Inv ==
    /\ TypeOK /\ RefsExact
    /\ StaysQuiet /\ CountsPlaced /\ HeldIsCounted
    /\ ReadingOwed /\ RemovalWaits

-----------------------------------------------------------------------------

LEMMA NoneLeft ==
    ASSUME NEW a \in Nat, NEW b \in Nat, NEW c \in Nat, NEW d \in Nat, a + b + c + d <= 0
    PROVE  a = 0 /\ b = 0 /\ c = 0 /\ d = 0
OBVIOUS

-----------------------------------------------------------------------------
(* The producer *)

LEMMA ProduceInv ==
    ASSUME Inv, NEW u \in Uuids, NEW n \in Counts, NEW p \in BOOLEAN, NEW refused \in BOOLEAN,
           Produce(u, n, p, refused)
    PROVE  Inv'
<1>0. n \in Nat /\ total[u] + n \in Counts
  BY TensorRefsAssumption DEF Counts, Produce, Inv, TypeOK
<1>1. Quiet(u) /\ at[u] = "none" /\ u \notin unsent
  BY DEF Produce, Inv, StaysQuiet
<1>2. TypeOK'
  BY <1>0 DEF Inv, TypeOK, Produce, Place, contractVars
<1>3. \A v \in Uuids : v # u => /\ at'[v] = at[v] /\ refs'[v] = refs[v] /\ persist'[v] = persist[v]
                                /\ way'[v] = way[v] /\ (v \in known' <=> v \in known)
                                /\ (v \in unsent' <=> v \in unsent)
  BY DEF Produce, Inv, TypeOK
<1>4. /\ at'[u] = Place(n, p) /\ refs'[u] = n /\ persist'[u] = p
      /\ way'[u] = IF refused THEN 0 ELSE n
      /\ u \in known' <=> p /\ ~refused
      /\ u \in unsent' <=> refused \/ u \in unsent
  BY <1>0, <1>1 DEF Produce, Inv, TypeOK, Quiet
<1>5. UNCHANGED <<owed, reading, phase, passed, kst, acks, giving, given, forced, dropped>>
  BY DEF Produce, contractVars
<1>6. RefsExact'
  BY <1>0, <1>1, <1>3, <1>4, <1>5 DEF Inv, TypeOK, RefsExact, Due, Quiet, Taking
<1>7. StaysQuiet'
  <2> SUFFICES ASSUME NEW v \in Uuids
               PROVE  /\ at'[v] = "none" \/ v \in unsent' \/ (at'[v] = "freed" /\ kst' # "closed") => Quiet(v)'
                      /\ v \in unsent' => at'[v] # "none"
    BY DEF StaysQuiet
  <2>1. CASE v # u
    BY <2>1, <1>3, <1>5 DEF Inv, StaysQuiet, Quiet
  <2>2. CASE v = u
    <3>1. at'[u] # "none" /\ (at'[u] = "freed" => n = 0 /\ ~p)
      BY <1>0, <1>4 DEF Place, CanGc
    <3>2. v \in unsent' \/ at'[v] = "freed" => way'[u] = 0 /\ u \notin known'
      BY <2>2, <1>1, <1>4, <3>1
    <3> QED BY <2>2, <3>1, <3>2, <1>1, <1>5 DEF Quiet
  <2> QED BY <2>1, <2>2
<1>8. CountsPlaced'
  BY <1>1, <1>3, <1>4, <1>5 DEF Inv, CountsPlaced, Quiet
<1>9. HeldIsCounted'
  BY <1>0, <1>3, <1>4 DEF Inv, HeldIsCounted, Place, CanGc
<1>10. ReadingOwed'
  BY <1>5 DEF Inv, ReadingOwed, Taking
<1>11. RemovalWaits'
  BY <1>5 DEF Inv, RemovalWaits, Produce
<1> QED BY <1>2, <1>6, <1>7, <1>8, <1>9, <1>10, <1>11 DEF Inv

LEMMA TakeAckInv ==
    ASSUME Inv, NEW u \in Uuids, TakeAck(u)
    PROVE  Inv'
<1>1. ~(at[u] = "none" \/ u \in unsent \/ (at[u] = "freed" /\ kst # "closed"))
  BY DEF TakeAck, Inv, StaysQuiet, Quiet, TypeOK
<1>2. TypeOK'
  BY DEF Inv, TypeOK, TakeAck, Place, contractVars, condVars, histVars
<1>3. UNCHANGED <<owed, reading, phase, persist, known, passed, kst, way, giving, given, forced, unsent, dropped,
                total>>
  BY DEF TakeAck, contractVars, condVars, histVars
<1>4. \A v \in Uuids : v # u => at'[v] = at[v] /\ refs'[v] = refs[v] /\ acks'[v] = acks[v]
  BY DEF TakeAck, Inv, TypeOK
<1>5. acks'[u] = acks[u] - 1 /\ acks[u] > 0
  BY DEF TakeAck, Inv, TypeOK
<1>6. \/ at[u] = "held" /\ refs'[u] = refs[u] - 1 /\ at'[u] = Place(refs[u] - 1, persist[u])
      \/ at[u] # "held" /\ refs'[u] = refs[u] /\ at'[u] = at[u]
  BY DEF TakeAck, Inv, TypeOK
<1>7. RefsExact'
  <2> SUFFICES ASSUME NEW v \in Uuids, at'[v] = "held"
               PROVE  /\ v \notin unsent' => refs'[v] + passed'[v] + given'[v]
                                            = way'[v] + owed'[v] + acks'[v] + dropped'[v]
                      /\ ~persist'[v] => passed'[v] + given'[v] = 0 /\ v \notin known'
    BY <1>3 DEF Inv, RefsExact, Due, Taking
  <2>1. CASE v # u
    BY <2>1, <1>3, <1>4 DEF Inv, RefsExact, Due
  <2>2. CASE v = u
    <3>1. at[u] = "held" /\ refs'[u] = refs[u] - 1
      BY <2>2, <1>6
    <3>2. refs[u] + passed[u] + given[u] = way[u] + owed[u] + acks[u] + dropped[u]
      BY <3>1, <1>1 DEF Inv, RefsExact, Due
    <3>3. refs'[u] + passed[u] + given[u] = way[u] + owed[u] + acks'[u] + dropped[u]
      BY <3>1, <3>2, <1>5 DEF Inv, TypeOK
    <3>4. ~persist[u] => passed[u] + given[u] = 0 /\ u \notin known
      BY <3>1 DEF Inv, RefsExact
    <3> QED BY <2>2, <3>3, <3>4, <1>3
  <2> QED BY <2>1, <2>2
<1>8. StaysQuiet'
  <2>0. \A v \in Uuids : v \in unsent' => at'[v] # "none"
    BY <1>1, <1>3, <1>4 DEF Inv, StaysQuiet
  <2> SUFFICES ASSUME NEW v \in Uuids,
                      at'[v] = "none" \/ v \in unsent' \/ (at'[v] = "freed" /\ kst' # "closed")
               PROVE  Quiet(v)'
    BY <2>0 DEF StaysQuiet
  <2>1. CASE v # u
    BY <2>1, <1>3, <1>4 DEF Inv, StaysQuiet, Quiet
  <2>2. CASE v = u
    <3>1. at[u] = "held" /\ ~persist[u] /\ refs[u] - 1 <= 0
      BY <2>2, <1>1, <1>3, <1>6 DEF Place, CanGc, Inv, TypeOK
    <3>2. passed[u] = 0 /\ given[u] = 0 /\ u \notin known /\ refs[u] = Due(u) + dropped[u]
      BY <3>1, <1>1 DEF Inv, TypeOK, RefsExact, Due
    <3>3. way[u] = 0 /\ owed[u] = 0 /\ acks[u] = 1 /\ dropped[u] = 0
      BY <3>1, <3>2, <1>5 DEF Inv, TypeOK, Due
    <3>4. u \notin giving
      BY <3>2 DEF Inv, TypeOK, CountsPlaced
    <3> QED BY <2>2, <3>2, <3>3, <3>4, <1>3, <1>5 DEF Quiet
  <2> QED BY <2>1, <2>2
<1>9. CountsPlaced'
  BY <1>3 DEF Inv, CountsPlaced
<1>10. HeldIsCounted'
  BY <1>3, <1>4, <1>6 DEF Inv, TypeOK, HeldIsCounted, Place, CanGc
<1>11. ReadingOwed' /\ RemovalWaits'
  BY <1>3 DEF Inv, ReadingOwed, RemovalWaits, Taking
<1> QED BY <1>2, <1>7, <1>8, <1>9, <1>10, <1>11 DEF Inv

LEMMA TakeUnpersistInv ==
    ASSUME Inv, NEW u \in Uuids, TakeUnpersist(u)
    PROVE  Inv'
<1>1. /\ u \in giving /\ u \notin known /\ passed[u] = 0 /\ given[u] > 0
      /\ ~(at[u] = "none" \/ u \in unsent \/ (at[u] = "freed" /\ kst # "closed"))
  BY DEF TakeUnpersist, Inv, CountsPlaced, StaysQuiet, Quiet
<1>2. TypeOK'
  <2>1. persist' \in [Uuids -> BOOLEAN]
    BY DEF Inv, TypeOK, TakeUnpersist
  <2>2. given' \in [Uuids -> Nat] /\ giving' \subseteq Uuids
    BY DEF Inv, TypeOK, TakeUnpersist
  <2>3. refs' \in [Uuids -> Int]
    <3>1. refs \in [Uuids -> Int] /\ refs[u] + given[u] \in Int
      BY DEF Inv, TypeOK
    <3>2. refs' = refs \/ refs' = [refs EXCEPT ![u] = refs[u] + given[u]]
      BY DEF TakeUnpersist
    <3> QED BY <3>1, <3>2
  <2>4. at' \in [Uuids -> {"none", "held", "freed"}]
    BY DEF Inv, TypeOK, TakeUnpersist, Place
  <2> QED BY <2>1, <2>2, <2>3, <2>4 DEF Inv, TypeOK, TakeUnpersist, contractVars, condVars, histVars
<1>3. UNCHANGED <<owed, reading, phase, known, passed, kst, way, acks, forced, unsent, dropped, total>>
  BY DEF TakeUnpersist, contractVars, condVars, histVars
<1>4. \A v \in Uuids : v # u => /\ at'[v] = at[v] /\ refs'[v] = refs[v] /\ persist'[v] = persist[v]
                                /\ given'[v] = given[v] /\ (v \in giving' <=> v \in giving)
  BY ZenonT(60) DEF TakeUnpersist, Inv, TypeOK
<1>5. given'[u] = 0 /\ u \notin giving'
  BY DEF TakeUnpersist, Inv, TypeOK
<1>6. \/ /\ at[u] = "held" /\ refs'[u] = refs[u] + given[u] /\ persist'[u] = FALSE
         /\ at'[u] = Place(refs[u] + given[u], FALSE)
      \/ at[u] # "held" /\ refs'[u] = refs[u] /\ persist'[u] = persist[u] /\ at'[u] = at[u]
  BY DEF TakeUnpersist, Inv, TypeOK
<1>7. RefsExact'
  <2> SUFFICES ASSUME NEW v \in Uuids, at'[v] = "held"
               PROVE  /\ v \notin unsent' => refs'[v] + passed'[v] + given'[v]
                                            = way'[v] + owed'[v] + acks'[v] + dropped'[v]
                      /\ ~persist'[v] => passed'[v] + given'[v] = 0 /\ v \notin known'
    BY <1>3 DEF Inv, RefsExact, Due, Taking
  <2>1. CASE v # u
    BY <2>1, <1>3, <1>4 DEF Inv, RefsExact, Due
  <2>2. CASE v = u
    <3>1. at[u] = "held" /\ refs'[u] = refs[u] + given[u]
      BY <2>2, <1>6
    <3>2. refs[u] + passed[u] + given[u] = way[u] + owed[u] + acks[u] + dropped[u]
      BY <3>1, <1>1 DEF Inv, RefsExact, Due
    <3>3. refs'[u] + passed[u] + given'[u] = way[u] + owed[u] + acks[u] + dropped[u] /\ passed[u] + given'[u] = 0
      BY <3>1, <3>2, <1>1, <1>5 DEF Inv, TypeOK
    <3> QED BY <2>2, <3>3, <1>1, <1>3
  <2> QED BY <2>1, <2>2
<1>8. StaysQuiet'
  <2>0. \A v \in Uuids : v \in unsent' => at'[v] # "none"
    BY <1>1, <1>3, <1>4 DEF Inv, StaysQuiet
  <2> SUFFICES ASSUME NEW v \in Uuids,
                      at'[v] = "none" \/ v \in unsent' \/ (at'[v] = "freed" /\ kst' # "closed")
               PROVE  Quiet(v)'
    BY <2>0 DEF StaysQuiet
  <2>1. CASE v # u
    BY <2>1, <1>3, <1>4 DEF Inv, StaysQuiet, Quiet
  <2>2. CASE v = u
    <3>1. at[u] = "held" /\ refs[u] + given[u] <= 0
      BY <2>2, <1>1, <1>3, <1>6 DEF Place, CanGc, Inv, TypeOK
    <3>2. refs[u] + given[u] = Due(u) + dropped[u]
      BY <3>1, <1>1 DEF Inv, TypeOK, RefsExact, Due
    <3>a. /\ way[u] \in Nat /\ owed[u] \in Nat /\ acks[u] \in Nat /\ dropped[u] \in Nat
          /\ way[u] + owed[u] + acks[u] + dropped[u] <= 0
      BY <3>1, <3>2 DEF Inv, TypeOK, Due
    <3>3. way[u] = 0 /\ owed[u] = 0 /\ acks[u] = 0 /\ dropped[u] = 0
      BY <3>a, NoneLeft
    <3> QED BY <2>2, <3>3, <1>1, <1>3, <1>5 DEF Quiet
  <2> QED BY <2>1, <2>2
<1>9. CountsPlaced'
  BY <1>1, <1>3, <1>4, <1>5 DEF Inv, CountsPlaced
<1>10. HeldIsCounted'
  BY <1>3, <1>4, <1>6 DEF Inv, TypeOK, HeldIsCounted, Place, CanGc
<1>11. ReadingOwed' /\ RemovalWaits'
  BY <1>3 DEF Inv, ReadingOwed, RemovalWaits, Taking
<1> QED BY <1>2, <1>7, <1>8, <1>9, <1>10, <1>11 DEF Inv

LEMMA ProducerRemovesInv ==
    ASSUME Inv, ProducerRemoves
    PROVE  Inv'
<1>1. /\ kst = "closed" /\ UNCHANGED <<contractVars, refs, persist, condVars, netVars, histVars>>
      /\ \A u \in Uuids : at'[u] = IF at[u] = "held" THEN "freed" ELSE at[u]
  BY DEF ProducerRemoves
<1>2. TypeOK'
  BY <1>1 DEF Inv, TypeOK, ProducerRemoves, contractVars, condVars, netVars, histVars
<1>3. RefsExact' /\ StaysQuiet' /\ CountsPlaced' /\ HeldIsCounted'
  BY <1>1 DEF Inv, RefsExact, Due, Taking, StaysQuiet, Quiet, CountsPlaced, HeldIsCounted,
              contractVars, condVars, netVars, histVars
<1>4. ReadingOwed' /\ RemovalWaits'
  BY <1>1 DEF Inv, ReadingOwed, RemovalWaits, Taking, contractVars, condVars, netVars, histVars
<1> QED BY <1>2, <1>3, <1>4 DEF Inv

-----------------------------------------------------------------------------
(* The conductor *)

LEMMA PassInputInv ==
    ASSUME Inv, NEW u \in Uuids, PassInput(u)
    PROVE  Inv'
<1>1. /\ kst = "open" /\ u \in known /\ total[u] < MaxEdges
      /\ ~(at[u] = "none" \/ u \in unsent \/ (at[u] = "freed" /\ kst # "closed"))
  BY DEF PassInput, Inv, StaysQuiet, Quiet
<1>2. TypeOK'
  BY <1>1, TensorRefsAssumption DEF Inv, TypeOK, PassInput, Counts, contractVars, prodVars
<1>3. /\ UNCHANGED <<contractVars, prodVars, known, kst, acks, giving, given, forced, unsent, dropped>>
      /\ \A v \in Uuids : /\ passed'[v] = IF v = u THEN passed[v] + 1 ELSE passed[v]
                          /\ way'[v] = IF v = u THEN way[v] + 1 ELSE way[v]
  BY DEF PassInput, Inv, TypeOK
<1>4. RefsExact'
  <2>1. \A v \in Uuids : refs[v] + passed[v] + given[v] = Due(v) + dropped[v]
                            => refs[v] + passed'[v] + given[v] = way'[v] + owed[v] + acks[v] + dropped[v]
    <3> SUFFICES ASSUME NEW v \in Uuids, refs[v] + passed[v] + given[v] = Due(v) + dropped[v]
                 PROVE  refs[v] + passed'[v] + given[v] = way'[v] + owed[v] + acks[v] + dropped[v]
      OBVIOUS
    <3>1. /\ refs[v] \in Int /\ passed[v] \in Nat /\ given[v] \in Nat /\ way[v] \in Nat
          /\ owed[v] \in Nat /\ acks[v] \in Nat /\ dropped[v] \in Nat
      BY DEF Inv, TypeOK
    <3> QED BY <1>3, <3>1 DEF Due
  <2>2. \A v \in Uuids : at[v] = "held" /\ ~persist[v] => v # u
    BY <1>1 DEF Inv, RefsExact
  <2> QED BY <1>1, <1>3, <2>1, <2>2 DEF Inv, RefsExact, Due, Taking, contractVars, prodVars
<1>5. StaysQuiet' /\ CountsPlaced' /\ HeldIsCounted'
  BY <1>1, <1>3 DEF Inv, StaysQuiet, Quiet, CountsPlaced, HeldIsCounted, contractVars, prodVars
<1>6. ReadingOwed' /\ RemovalWaits'
  BY <1>1, <1>3 DEF Inv, ReadingOwed, RemovalWaits, Taking, contractVars
<1> QED BY <1>2, <1>4, <1>5, <1>6 DEF Inv

\* The count moves from the conductor into the message, where it was none.
LEMMA GiveUpCounts ==
    ASSUME Inv, NEW U \in SUBSET Uuids, U \subseteq known, GiveUp(U)
    PROVE  /\ known' \in SUBSET Uuids /\ giving' \in SUBSET Uuids
           /\ passed' \in [Uuids -> Nat] /\ given' \in [Uuids -> Nat]
           /\ known' \subseteq known
           /\ \A u \in Uuids : passed'[u] + given'[u] = passed[u] + given[u]
           /\ \A u \in Uuids : u \notin known' => passed'[u] = 0
           /\ \A u \in Uuids : u \notin giving' => given'[u] = 0
           /\ \A u \in Uuids : u \in giving' => u \notin known' /\ given'[u] > 0
           /\ \A u \in Uuids : u \notin known => /\ passed'[u] = passed[u] /\ given'[u] = given[u]
                                                 /\ (u \in giving' <=> u \in giving)
<1> DEFINE tracked == {u \in U : passed[u] > 0}
<1>1. /\ known' = known \ tracked /\ giving' = giving \cup tracked
      /\ given' = [u \in Uuids |-> IF u \in tracked THEN passed[u] ELSE given[u]]
      /\ passed' = [u \in Uuids |-> IF u \in tracked THEN 0 ELSE passed[u]]
  BY DEF GiveUp
<1>2. \A u \in tracked : u \in Uuids /\ u \in known /\ passed[u] > 0 /\ given[u] = 0
  BY DEF Inv, CountsPlaced
<1>3. passed \in [Uuids -> Nat] /\ given \in [Uuids -> Nat] /\ known \subseteq Uuids /\ giving \subseteq Uuids
  BY DEF Inv, TypeOK
<1> HIDE DEF tracked
<1> QED BY <1>1, <1>2, <1>3 DEF Inv, CountsPlaced

LEMMA UnpersistInv ==
    ASSUME Inv, NEW U \in SUBSET Uuids, Unpersist(U)
    PROVE  Inv'
<1>1. U \subseteq known /\ GiveUp(U) /\ UNCHANGED <<contractVars, prodVars, kst, way, acks, histVars>>
  BY DEF Unpersist
<1>2. TypeOK'
  BY <1>1, GiveUpCounts DEF Inv, TypeOK, contractVars, prodVars, histVars
<1>3. RefsExact'
  BY <1>1, <1>2, GiveUpCounts DEF Inv, TypeOK, RefsExact, Due, Taking, contractVars, prodVars, histVars
<1>4. StaysQuiet' /\ CountsPlaced' /\ HeldIsCounted'
  BY <1>1, GiveUpCounts DEF Inv, StaysQuiet, Quiet, CountsPlaced, HeldIsCounted, contractVars, prodVars, histVars
<1>5. ReadingOwed' /\ RemovalWaits'
  BY <1>1 DEF Inv, ReadingOwed, RemovalWaits, Taking, contractVars, histVars
<1> QED BY <1>2, <1>3, <1>4, <1>5 DEF Inv

LEMMA CompleteInv ==
    ASSUME Inv, Complete
    PROVE  Inv'
<1>1. /\ GiveUp(known) /\ kst' = "closed" /\ UNCHANGED <<contractVars, prodVars, way, acks, histVars>>
      /\ \A u \in Uuids : way[u] = 0 /\ owed[u] = 0
      /\ kst = "open"
  BY DEF Complete
<1>2. known \in SUBSET Uuids
  BY DEF Inv, TypeOK
<1>3. TypeOK'
  BY <1>1, <1>2, GiveUpCounts DEF Inv, TypeOK, contractVars, prodVars, histVars
<1>4. RefsExact'
  <2>1. /\ known' \subseteq known
        /\ \A u \in Uuids : passed'[u] + given'[u] = passed[u] + given[u]
    BY <1>1, <1>2, GiveUpCounts
  <2>2. \A u \in Uuids : refs[u] + passed'[u] + given'[u] = refs[u] + passed[u] + given[u]
    BY <1>3, <2>1 DEF Inv, TypeOK
  <2> QED BY <1>1, <2>1, <2>2 DEF Inv, RefsExact, Due, Taking, contractVars, prodVars, histVars
<1>5. StaysQuiet' /\ CountsPlaced' /\ HeldIsCounted'
  BY <1>1, <1>2, GiveUpCounts
  DEF Inv, StaysQuiet, Quiet, CountsPlaced, HeldIsCounted, contractVars, prodVars, histVars
<1>6. ReadingOwed' /\ RemovalWaits'
  BY <1>1 DEF Inv, ReadingOwed, RemovalWaits, Taking, contractVars, histVars
<1> QED BY <1>3, <1>4, <1>5, <1>6 DEF Inv

LEMMA DrainInv ==
    ASSUME Inv, Drain \/ CloseBarrier
    PROVE  Inv'
<1>1. /\ kst' \in {"drained", "closed"} /\ kst # "closed"
      /\ kst' = "closed" => forced' = (forced \/ phase # "acked")
      /\ forced' \in BOOLEAN /\ (forced => forced')
      /\ UNCHANGED <<contractVars, prodVars, known, passed, netVars, unsent, dropped, total>>
  BY DEF Drain, CloseBarrier, histVars, Inv, TypeOK
<1>2. TypeOK'
  BY <1>1 DEF Inv, TypeOK, contractVars, prodVars, netVars
<1>3. RefsExact' /\ StaysQuiet' /\ CountsPlaced' /\ HeldIsCounted'
  BY <1>1 DEF Inv, RefsExact, Due, Taking, StaysQuiet, Quiet, CountsPlaced, HeldIsCounted,
              contractVars, prodVars, netVars
<1>4. ReadingOwed' /\ RemovalWaits'
  BY <1>1 DEF Inv, TypeOK, ReadingOwed, RemovalWaits, Taking, contractVars
<1> QED BY <1>2, <1>3, <1>4 DEF Inv

-----------------------------------------------------------------------------
(* The reader.  What one of its steps does to the counts: edges become owed, *)
(* owed ones acknowledgements, and what is lost on the way is dropped.       *)

LEMMA ReaderInv ==
    ASSUME Inv, UNCHANGED <<prodVars, condVars, giving, given, forced, unsent, total>>,
           dropped' \in [Uuids -> Nat], Taking' => dropped' = dropped,
           way' \in [Uuids -> Nat], owed' \in [Uuids -> Nat], acks' \in [Uuids -> Nat],
           reading' \subseteq Uuids, phase' \in {"live", "draining", "acked", "gone"},
           \A u \in Uuids : way'[u] + owed'[u] + acks'[u] + dropped'[u] = way[u] + owed[u] + acks[u] + dropped[u],
           \A u \in Uuids : way'[u] <= way[u],
           \A u \in Uuids : way[u] = 0 => owed'[u] <= owed[u],
           Taking' => Taking,
           ReadingOwed'
    PROVE  Inv'
<1>1. UNCHANGED <<at, refs, persist, known, passed, kst, giving, given, forced, unsent, total>>
  BY DEF prodVars, condVars
<1>2. TypeOK'
  BY <1>1 DEF Inv, TypeOK
<1>3. RefsExact'
  BY <1>1 DEF Inv, TypeOK, RefsExact, Due
<1>4. StaysQuiet'
  <2> SUFFICES ASSUME NEW u \in Uuids, Quiet(u) PROVE Quiet(u)'
    BY <1>1 DEF Inv, StaysQuiet
  <2>1. way[u] = 0 /\ owed[u] = 0 /\ acks[u] = 0 /\ dropped[u] = 0
    BY DEF Quiet
  <2>2. /\ way'[u] \in Nat /\ owed'[u] \in Nat /\ acks'[u] \in Nat /\ dropped'[u] \in Nat
        /\ way'[u] + owed'[u] + acks'[u] + dropped'[u] <= 0
    BY <2>1
  <2>3. way'[u] = 0 /\ owed'[u] = 0 /\ acks'[u] = 0 /\ dropped'[u] = 0
    BY <2>2, NoneLeft, Zenon
  <2> QED BY <2>3, <1>1 DEF Quiet
<1>5. CountsPlaced' /\ HeldIsCounted'
  BY <1>1 DEF Inv, CountsPlaced, HeldIsCounted
<1>6. RemovalWaits'
  <2> SUFFICES ASSUME kst = "closed", ~forced, Taking', NEW u \in Uuids PROVE way'[u] = 0 /\ owed'[u] = 0
    BY <1>1 DEF RemovalWaits
  <2>1. way[u] = 0 /\ owed[u] = 0
    BY DEF Inv, RemovalWaits
  <2>2. way'[u] \in Nat /\ owed'[u] \in Nat /\ way'[u] <= 0 /\ owed'[u] <= 0
    BY <2>1
  <2> QED BY <2>2
<1> QED BY <1>2, <1>3, <1>4, <1>5, <1>6 DEF Inv

LEMMA KeptInv ==
    ASSUME Inv, UNCHANGED others,
           way' \in [Uuids -> Nat], owed' \in [Uuids -> Nat], acks' \in [Uuids -> Nat],
           reading' \subseteq Uuids, phase' \in {"live", "draining", "acked", "gone"},
           \A u \in Uuids : way'[u] + owed'[u] + acks'[u] = way[u] + owed[u] + acks[u],
           \A u \in Uuids : way'[u] <= way[u],
           \A u \in Uuids : way[u] = 0 => owed'[u] <= owed[u],
           Taking' => Taking,
           ReadingOwed'
    PROVE  Inv'
<1>1. UNCHANGED <<prodVars, condVars, giving, given, forced, unsent, dropped, total>>
  BY DEF others, histVars
<1>2. /\ way \in [Uuids -> Nat] /\ owed \in [Uuids -> Nat] /\ acks \in [Uuids -> Nat]
      /\ dropped \in [Uuids -> Nat]
  BY DEF Inv, TypeOK
<1>3. \A u \in Uuids : way'[u] + owed'[u] + acks'[u] + dropped'[u] = way[u] + owed[u] + acks[u] + dropped[u]
  BY <1>1, <1>2
<1> QED BY <1>1, <1>2, <1>3, ReaderInv

LEMMA DropEdgeInv ==
    ASSUME Inv, NEW u \in Uuids, DropEdge(u)
    PROVE  Inv'
<1>1. /\ way[u] > 0 /\ way' = [way EXCEPT ![u] = @ - 1]
      /\ phase = "acked" /\ dropped' = [dropped EXCEPT ![u] = @ + 1]
      /\ UNCHANGED <<reading, phase, owed, acks, prodVars, condVars, giving, given, forced, unsent, total>>
  BY DEF DropEdge, contractVars
<1>2. /\ way \in [Uuids -> Nat] /\ owed \in [Uuids -> Nat] /\ acks \in [Uuids -> Nat]
      /\ dropped \in [Uuids -> Nat] /\ reading \subseteq Uuids
  BY DEF Inv, TypeOK
<1>3. /\ way' \in [Uuids -> Nat] /\ dropped' \in [Uuids -> Nat]
      /\ \A v \in Uuids : way'[v] + owed'[v] + acks'[v] + dropped'[v] = way[v] + owed[v] + acks[v] + dropped[v]
      /\ \A v \in Uuids : way'[v] <= way[v] /\ owed'[v] <= owed[v]
  BY <1>1, <1>2
<1>4. ReadingOwed' /\ ~Taking'
  BY <1>1 DEF Inv, ReadingOwed, Taking
<1> QED BY <1>1, <1>2, <1>3, <1>4, ReaderInv

LEMMA TakeEdgeInv ==
    ASSUME Inv, NEW u \in Uuids, TakeEdge(u) \/ RefuseEdge(u)
    PROVE  Inv'
<1>1. CASE TakeEdge(u)
  <2>1. /\ way[u] > 0 /\ way' = [way EXCEPT ![u] = @ - 1]
        /\ owed' = [v \in Uuids |-> IF v = u THEN owed[v] + 1 ELSE owed[v]]
        /\ UNCHANGED <<reading, phase, acks, others>>
    BY <1>1 DEF TakeEdge, Receive
  <2>2. way \in [Uuids -> Nat] /\ owed \in [Uuids -> Nat] /\ acks \in [Uuids -> Nat] /\ reading \subseteq Uuids
    BY DEF Inv, TypeOK
  <2>3. /\ way' \in [Uuids -> Nat] /\ owed' \in [Uuids -> Nat] /\ acks' \in [Uuids -> Nat]
        /\ \A v \in Uuids : way'[v] + owed'[v] + acks'[v] = way[v] + owed[v] + acks[v]
        /\ \A v \in Uuids : way'[v] <= way[v]
        /\ \A v \in Uuids : way[v] = 0 => owed'[v] <= owed[v]
        /\ \A v \in Uuids : owed[v] <= owed'[v]
    BY <2>1, <2>2
  <2>4. ReadingOwed' /\ (Taking' => Taking)
    BY <2>1, <2>2, <2>3 DEF Inv, ReadingOwed, Taking
  <2> QED BY <2>1, <2>2, <2>3, <2>4, KeptInv DEF Inv, TypeOK
<1>2. CASE RefuseEdge(u)
  <2>1. /\ way[u] > 0 /\ way' = [way EXCEPT ![u] = @ - 1]
        /\ acks' = [acks EXCEPT ![u] = @ + 1]
        /\ UNCHANGED <<reading, phase, owed, others>>
    BY <1>2 DEF RefuseEdge, contractVars
  <2>2. way \in [Uuids -> Nat] /\ owed \in [Uuids -> Nat] /\ acks \in [Uuids -> Nat] /\ reading \subseteq Uuids
    BY DEF Inv, TypeOK
  <2>3. /\ way' \in [Uuids -> Nat] /\ owed' \in [Uuids -> Nat] /\ acks' \in [Uuids -> Nat]
        /\ \A v \in Uuids : way'[v] + owed'[v] + acks'[v] = way[v] + owed[v] + acks[v]
        /\ \A v \in Uuids : way'[v] <= way[v]
        /\ \A v \in Uuids : way[v] = 0 => owed'[v] <= owed[v]
    BY <2>1, <2>2
  <2>4. ReadingOwed' /\ (Taking' => Taking)
    BY <2>1 DEF Inv, ReadingOwed, Taking
  <2> QED BY <2>1, <2>2, <2>3, <2>4, KeptInv DEF Inv, TypeOK
<1> QED BY <1>1, <1>2

LEMMA BeginReadInv ==
    ASSUME Inv, NEW u \in Uuids, BeginRead(u)
    PROVE  Inv'
<1>1. /\ reading' = reading \cup {u} /\ owed[u] > 0 /\ Taking
      /\ UNCHANGED <<owed, phase, way, acks, others>>
  BY DEF BeginRead, Begin
<1>2. ReadingOwed' /\ (Taking' => Taking)
  BY <1>1 DEF Inv, ReadingOwed, Taking
<1> QED BY <1>1, <1>2, KeptInv DEF Inv, TypeOK

LEMMA SettleReadInv ==
    ASSUME Inv, NEW u \in Uuids, NEW n \in Counts, NEW stop \in BOOLEAN, SettleRead(u, n, stop)
    PROVE  Inv'
<1>1. /\ n <= owed[u] /\ owed' = [owed EXCEPT ![u] = @ - n] /\ acks' = [acks EXCEPT ![u] = @ + n]
      /\ reading' \subseteq reading /\ \A v \in reading' : owed'[v] > 0
      /\ UNCHANGED <<phase, way, others>>
  BY DEF SettleRead, Settle
<1>2. /\ way \in [Uuids -> Nat] /\ owed \in [Uuids -> Nat] /\ acks \in [Uuids -> Nat] /\ reading \subseteq Uuids
      /\ n \in Nat
  BY TensorRefsAssumption DEF Inv, TypeOK, Counts
<1>3. /\ way' \in [Uuids -> Nat] /\ owed' \in [Uuids -> Nat] /\ acks' \in [Uuids -> Nat]
      /\ \A v \in Uuids : way'[v] + owed'[v] + acks'[v] = way[v] + owed[v] + acks[v]
      /\ \A v \in Uuids : way'[v] <= way[v] /\ owed'[v] <= owed[v]
  BY <1>1, <1>2
<1>4. ReadingOwed' /\ (Taking' => Taking)
  BY <1>1 DEF Inv, ReadingOwed, Taking
<1>5. reading' \subseteq Uuids /\ phase' \in {"live", "draining", "acked", "gone"}
  BY <1>1 DEF Inv, TypeOK
<1> QED BY <1>1, <1>3, <1>4, <1>5, KeptInv

LEMMA PhaseInv ==
    ASSUME Inv, TakeDrain \/ ReadsDone
    PROVE  Inv'
<1>1. /\ UNCHANGED <<owed, reading, way, acks, others>>
      /\ \/ phase = "live" /\ phase' = "draining"
         \/ phase = "draining" /\ phase' = "acked" /\ reading = {}
  BY DEF TakeDrain, ReadsDone, BeginDrain, SayReadsDone
<1>2. ReadingOwed' /\ (Taking' => Taking)
  BY <1>1 DEF Inv, ReadingOwed, Taking
<1> QED BY <1>1, <1>2, KeptInv DEF Inv, TypeOK

LEMMA ReaderRemovesInv ==
    ASSUME Inv, NEW n \in [Uuids -> Counts], ReaderRemoves(n)
    PROVE  Inv'
<1>1. /\ \A v \in Uuids : n[v] <= owed[v]
      /\ owed' = [v \in Uuids |-> owed[v] - n[v]] /\ acks' = [v \in Uuids |-> acks[v] + n[v]]
      /\ phase' = "gone" /\ reading' = {}
      /\ UNCHANGED <<way, others>>
  BY DEF ReaderRemoves, Forget
<1>2. /\ way \in [Uuids -> Nat] /\ owed \in [Uuids -> Nat] /\ acks \in [Uuids -> Nat]
      /\ \A v \in Uuids : n[v] \in Nat
  BY TensorRefsAssumption DEF Inv, TypeOK, Counts
<1>3. /\ way' \in [Uuids -> Nat] /\ owed' \in [Uuids -> Nat] /\ acks' \in [Uuids -> Nat]
      /\ \A v \in Uuids : way'[v] + owed'[v] + acks'[v] = way[v] + owed[v] + acks[v]
      /\ \A v \in Uuids : way'[v] <= way[v] /\ owed'[v] <= owed[v]
  BY <1>1, <1>2
<1>4. ReadingOwed' /\ (Taking' => Taking)
  BY <1>1 DEF ReadingOwed, Taking
<1> QED BY <1>1, <1>3, <1>4, KeptInv

-----------------------------------------------------------------------------

LEMMA InitInv == Init => Inv
<1> SUFFICES ASSUME Init PROVE Inv
  OBVIOUS
<1>1. TypeOK
  <2>1. total \in [Uuids -> Counts]
    BY TensorRefsAssumption DEF Init, Counts
  <2>2. /\ persist \in [Uuids -> BOOLEAN] /\ forced \in BOOLEAN
        /\ at \in [Uuids -> {"none", "held", "freed"}] /\ kst \in {"open", "drained", "closed"}
    BY DEF Init
  <2>3. /\ refs \in [Uuids -> Int] /\ passed \in [Uuids -> Nat] /\ given \in [Uuids -> Nat]
        /\ way \in [Uuids -> Nat] /\ acks \in [Uuids -> Nat] /\ owed \in [Uuids -> Nat]
        /\ dropped \in [Uuids -> Nat]
    BY DEF Init, ContractInit
  <2> QED BY <2>1, <2>2, <2>3 DEF Init, ContractInit, TypeOK
<1>2. RefsExact /\ StaysQuiet /\ CountsPlaced /\ HeldIsCounted
  BY DEF Init, ContractInit, RefsExact, Due, StaysQuiet, Quiet, CountsPlaced, HeldIsCounted
<1>3. ReadingOwed /\ RemovalWaits
  BY DEF Init, ContractInit, ReadingOwed, RemovalWaits, Taking
<1> QED BY <1>1, <1>2, <1>3 DEF Inv

LEMMA NextInv == Inv /\ [Next]_vars => Inv'
<1> SUFFICES ASSUME Inv, [Next]_vars PROVE Inv'
  OBVIOUS
<1>1. CASE UNCHANGED vars
  <2>1. UNCHANGED <<owed, reading, phase, at, refs, persist, known, passed, kst, way, acks, giving, given,
                    forced, unsent, dropped, total>>
    BY <1>1 DEF vars, contractVars, prodVars, condVars, netVars, histVars
  <2>2. TypeOK' /\ RefsExact' /\ StaysQuiet'
    BY <2>1 DEF Inv, TypeOK, RefsExact, Due, Taking, StaysQuiet, Quiet
  <2>3. CountsPlaced' /\ HeldIsCounted' /\ ReadingOwed' /\ RemovalWaits'
    BY <2>1 DEF Inv, CountsPlaced, HeldIsCounted, ReadingOwed, RemovalWaits, Taking
  <2> QED BY <2>2, <2>3 DEF Inv
<1>2. CASE Produces
  BY <1>2, ProduceInv DEF Produces
<1>3. CASE TakesAck
  BY <1>3, TakeAckInv DEF TakesAck
<1>4. CASE TakesUnpersist
  BY <1>4, TakeUnpersistInv DEF TakesUnpersist
<1>5. CASE ProducerRemoves
  BY <1>5, ProducerRemovesInv
<1>6. CASE Passes
  BY <1>6, PassInputInv DEF Passes
<1>7. CASE Unpersists
  BY <1>7, UnpersistInv DEF Unpersists
<1>8. CASE Drain \/ CloseBarrier
  BY <1>8, DrainInv
<1>9. CASE Complete
  BY <1>9, CompleteInv
<1>10. CASE TakesEdge \/ RefusesEdge
  BY <1>10, TakeEdgeInv DEF TakesEdge, RefusesEdge
<1>11. CASE Begins
  BY <1>11, BeginReadInv DEF Begins
<1>12. CASE Settles
  BY <1>12, SettleReadInv DEF Settles
<1>13. CASE TakeDrain \/ ReadsDone
  BY <1>13, PhaseInv
<1>14. CASE Removes
  BY <1>14, ReaderRemovesInv DEF Removes
<1>15. CASE DropsEdge
  BY <1>15, DropEdgeInv DEF DropsEdge
<1> QED BY <1>1, <1>2, <1>3, <1>4, <1>5, <1>6, <1>7, <1>8, <1>9, <1>10, <1>11, <1>12, <1>13, <1>14, <1>15 DEF Next

LEMMA InvHolds == Spec => []Inv
BY InitInv, NextInv, PTL DEF Spec

\* The counts of producer and conductor are the reads due, and after READS_DONE the edges
\* that the reader drops (_takes_input) besides, whatever overtakes what.
THEOREM CountsExact == Spec => []RefsExact
<1>1. Inv => RefsExact
  BY DEF Inv
<1> QED BY <1>1, InvHolds, PTL

\* can_gc and a removal that waited for READS_DONE free nothing that is still
\* to be read.
THEOREM NothingReadIsFreed == Spec => []SourceHeld
<1>1. ASSUME Inv PROVE SourceHeld
  <2> SUFFICES ASSUME NEW u \in Uuids, at[u] # "held", ~forced
               PROVE  u \notin reading /\ (Taking => way[u] = 0 /\ owed[u] = 0)
    BY DEF SourceHeld
  <2>1. at[u] = "none" \/ at[u] = "freed"
    BY <1>1 DEF Inv, TypeOK
  <2>2. CASE at[u] = "none" \/ kst # "closed"
    <3>1. Quiet(u)
      BY <1>1, <2>1, <2>2 DEF Inv, StaysQuiet
    <3> QED BY <1>1, <3>1 DEF Inv, ReadingOwed, Quiet
  <2>3. CASE kst = "closed"
    BY <1>1, <2>3 DEF Inv, RemovalWaits, ReadingOwed
  <2> QED BY <2>2, <2>3
<1> QED BY <1>1, InvHolds, PTL

\* A tensor goes with the last acknowledgement, or with the end of its
\* persistence if that comes later: no count is left over, but of a tensor
\* whose edge came after READS_DONE and was dropped, which waits for the removal.
THEOREM NothingIsKept == Spec => []FreedWhenRead
<1>1. ASSUME Inv PROVE FreedWhenRead
  <2> SUFFICES ASSUME NEW u \in Uuids, at[u] = "held", ~persist[u], u \notin unsent
               PROVE  Due(u) > 0 \/ (~Taking /\ dropped[u] > 0)
    BY DEF FreedWhenRead
  <2>1. /\ refs[u] > 0 /\ passed[u] + given[u] = 0 /\ refs[u] + passed[u] + given[u] = Due(u) + dropped[u]
        /\ Taking => dropped[u] = 0
    BY <1>1 DEF Inv, HeldIsCounted, RefsExact
  <2>2. /\ refs[u] \in Int /\ passed[u] \in Nat /\ given[u] \in Nat
        /\ dropped[u] \in Nat /\ Due(u) \in Nat
    BY <1>1 DEF Inv, TypeOK, Due
  <2>3. Due(u) + dropped[u] > 0
    BY <2>1, <2>2
  <2>4. CASE Taking
    BY <2>1, <2>2, <2>3, <2>4
  <2>5. CASE ~Taking
    <3>1. Due(u) > 0 \/ dropped[u] > 0
      BY <2>2, <2>3
    <3> QED BY <2>5, <3>1
  <2> QED BY <2>4, <2>5
<1> QED BY <1>1, InvHolds, PTL

\* The reader count of a producer may go below zero, as acknowledgements overtake the
\* conductor's report; what the conductor keeps, and the edges due, are counts.
THEOREM RefsTyped == Spec => []TypeOK
<1>1. Inv => TypeOK
  BY DEF Inv
<1> QED BY <1>1, InvHolds, PTL

=============================================================================
