--------------------------- MODULE SecIndexProofs ---------------------------
(***************************************************************************)
(* The index trees agree with the primary entries, for every set of keys,  *)
(* indexes and values and every batch length.                              *)
(***************************************************************************)
EXTENDS SecIndex, FiniteSetTheorems, SequenceTheorems, TLAPS

(* The part of the type invariant that the trees depend on, and two facts  *)
(* about calls in progress: a call that is appending has a record to       *)
(* append, and a key that is not live carries no index values.             *)
SecType ==
    /\ live \subseteq Keys
    /\ ix \in [Keys -> IxVals]
    /\ sec \in [Indexes -> SUBSET (Vals \X Keys)]
    /\ todo \in Seq(Items)
    /\ victims \subseteq Keys
    /\ phase = "append" => todo # <<>>

GoneBare == \A k \in Keys \ live : ix[k] = NoIx

SecInv == SecType /\ GoneBare /\ SecMatchesPk

LEMMA NoIxType == NoIx \in IxVals
BY Zenon DEF NoIx, IxVals

LEMMA BareNotInTree ==
    ASSUME SecInv, NEW k \in Keys, NEW i \in Indexes
    PROVE  /\ ix[k][i] \in Vals \cup {NoVal}
           /\ k \notin live => ix[k][i] = NoVal
BY DEF SecInv, SecType, GoneBare, NoIx, IxVals

(* deleteLocked and the range delete's sweep.                              *)
LEMMA RemoveStep ==
    ASSUME SecInv, phase # "down", NEW D \in SUBSET Keys,
           live' = live \ D,
           ix' = [k \in Keys |-> IF k \in D THEN NoIx ELSE ix[k]],
           sec' = [i \in Indexes |-> {e \in sec[i] : e[2] \notin D}],
           todo' = todo, phase' = phase, victims' \subseteq Keys
    PROVE  SecInv'
<1> USE SecAssumption, NoIxType
<1>1. SecType'
  <2>1. ix' \in [Keys -> IxVals] /\ live' \subseteq Keys
    BY Zenon DEF SecInv, SecType
  <2>2. sec' \in [Indexes -> SUBSET (Vals \X Keys)]
    BY Zenon DEF SecInv, SecType
  <2> QED BY <2>1, <2>2, Zenon DEF SecInv, SecType
<1>2. GoneBare'
  BY Zenon DEF SecInv, GoneBare, SecType
<1>3. SecMatchesPk'
  <2> SUFFICES ASSUME NEW i \in Indexes, NEW v \in Vals, NEW k \in Keys
               PROVE  <<v, k>> \in sec'[i] <=> (k \in live' /\ ix'[k][i] = v)
    BY Zenon DEF SecMatchesPk
  <2>1. <<v, k>> \in sec[i] <=> (k \in live /\ ix[k][i] = v)
    BY Zenon DEF SecInv, SecMatchesPk
  <2>2. <<v, k>> \in sec'[i] <=> <<v, k>> \in sec[i] /\ k \notin D
    OBVIOUS
  <2>3. k \notin D => ix'[k] = ix[k]
    OBVIOUS
  <2> QED BY <2>1, <2>2, <2>3, Zenon
<1> QED BY <1>1, <1>2, <1>3, Zenon DEF SecInv

LEMMA RetractIsRemove ==
    ASSUME SecInv, phase # "down", NEW k \in Keys
    PROVE  RetractSec(k) = [i \in Indexes |-> {e \in sec[i] : e[2] \notin {k}}]
<1> SUFFICES ASSUME NEW i \in Indexes
             PROVE  sec[i] \ {<<ix[k][i], k>>} = {e \in sec[i] : e[2] \notin {k}}
  BY Zenon DEF RetractSec
<1>1. \A e \in sec[i] : e = <<e[1], e[2]>> /\ e[1] \in Vals /\ e[2] \in Keys
  BY DEF SecInv, SecType
<1>2. \A v \in Vals : <<v, k>> \in sec[i] => ix[k][i] = v
  BY Zenon DEF SecInv, SecMatchesPk
<1>3. \A e \in sec[i] : e[2] = k <=> e = <<ix[k][i], k>>
  BY <1>1, <1>2
<1> QED BY <1>3, Zenon

LEMMA DeleteStep ==
    ASSUME SecInv, phase # "down", NEW k \in Keys, DeleteLocked(k),
           todo' = todo, phase' = phase, victims' \subseteq Keys
    PROVE  SecInv'
<1>1. sec' = [i \in Indexes |-> {e \in sec[i] : e[2] \notin {k}}]
  BY RetractIsRemove, Zenon DEF DeleteLocked
<1>2. ix' = [j \in Keys |-> IF j \in {k} THEN NoIx ELSE ix[j]]
  BY Zenon DEF DeleteLocked, SecInv, SecType
<1>3. live' = live \ {k}
  BY Zenon DEF DeleteLocked
<1>4. {k} \in SUBSET Keys
  OBVIOUS
<1> HIDE DEF DeleteLocked
<1> QED BY <1>1, <1>2, <1>3, <1>4, RemoveStep, Zenon

(* appendRecord: retract what the key had, insert what it has.             *)
LEMMA AppendStep ==
    ASSUME SecInv, AppendRecord
    PROVE  SecInv'
<1> DEFINE item == Head(todo)
           k == item.key
           x == item.ix
<1> USE SecAssumption
<1>1. todo \in Seq(Items) /\ todo # <<>> /\ phase = "append"
  BY Zenon DEF SecInv, SecType, AppendRecord
<1>2. item \in Items /\ Tail(todo) \in Seq(Items)
  BY <1>1
<1>3. k \in Keys /\ x \in IxVals
  BY <1>2, Zenon DEF Items
<1>4. /\ live' = live \cup {k} /\ ix' = [ix EXCEPT ![k] = x]
      /\ sec' = InsertSec([i \in Indexes |-> {e \in sec[i] : e[2] \notin {k}}], k, x)
      /\ todo' = Tail(todo) /\ victims' = victims
      /\ phase' = IF Tail(todo) = <<>> THEN "enforce" ELSE "append"
  BY <1>1, <1>3, RetractIsRemove, Zenon DEF AppendRecord, RefreshSec
<1> HIDE DEF item, k, x
<1>5. \A i \in Indexes : x[i] \in Vals \cup {NoVal}
  BY <1>3, Zenon DEF IxVals
<1>6. sec' = [i \in Indexes |->
               IF x[i] = NoVal THEN {e \in sec[i] : e[2] \notin {k}}
               ELSE {e \in sec[i] : e[2] \notin {k}} \cup {<<x[i], k>>}]
  BY <1>4, Zenon DEF InsertSec
<1>7. SecType'
  <2>1. sec' \in [Indexes -> SUBSET (Vals \X Keys)]
    BY <1>3, <1>5, <1>6 DEF SecInv, SecType
  <2>2. ix' \in [Keys -> IxVals] /\ live' \subseteq Keys
    BY <1>3, <1>4, Zenon DEF SecInv, SecType
  <2>3. todo' \in Seq(Items) /\ (phase' = "append" => todo' # <<>>) /\ victims' \subseteq Keys
    BY <1>2, <1>4, Zenon DEF SecInv, SecType
  <2> QED BY <2>1, <2>2, <2>3, Zenon DEF SecType
<1>8. GoneBare'
  BY <1>3, <1>4, Zenon DEF SecInv, SecType, GoneBare
<1>9. SecMatchesPk'
  <2> SUFFICES ASSUME NEW i \in Indexes, NEW v \in Vals, NEW j \in Keys
               PROVE  <<v, j>> \in sec'[i] <=> (j \in live' /\ ix'[j][i] = v)
    BY Zenon DEF SecMatchesPk
  <2>1. <<v, j>> \in sec[i] <=> (j \in live /\ ix[j][i] = v)
    BY <1>1, Zenon DEF SecInv, SecMatchesPk
  <2>2. <<v, j>> \in sec'[i] <=>
          \/ <<v, j>> \in sec[i] /\ j # k
          \/ j = k /\ x[i] = v
    BY <1>5, <1>6, Zenon
  <2>3. j # k => ix'[j] = ix[j]
    BY <1>3, <1>4, Zenon DEF SecInv, SecType
  <2>4. ix'[k] = x /\ k \in live'
    BY <1>3, <1>4, Zenon DEF SecInv, SecType
  <2> QED BY <1>4, <2>1, <2>2, <2>3, <2>4, Zenon
<1> QED BY <1>7, <1>8, <1>9, Zenon DEF SecInv

(* rebuildSec, after a compaction or at boot.                              *)
LEMMA RebuildStep ==
    ASSUME SecInv, sec' = RebuildSec, live' = live, ix' = ix, todo' = todo,
           victims' = victims, phase' # "append"
    PROVE  SecInv'
<1> USE SecAssumption
<1>1. sec' = [i \in Indexes |-> {e \in Vals \X Keys : e[2] \in live /\ ix[e[2]][i] = e[1]}]
  BY Zenon DEF RebuildSec
<1>2. sec' \in [Indexes -> SUBSET (Vals \X Keys)]
  BY <1>1
<1>3. SecType' /\ GoneBare'
  BY <1>2, Zenon DEF SecInv, SecType, GoneBare
<1>4. SecMatchesPk'
  BY <1>1 DEF SecMatchesPk
<1> QED BY <1>3, <1>4, Zenon DEF SecInv

LEMMA SecInit == Init => SecInv
<1> SUFFICES ASSUME Init PROVE SecInv
  OBVIOUS
<1> USE SecAssumption DEF Init
<1>1. \A k \in Keys, i \in Indexes : ix[k][i] = NoVal
  BY Zenon DEF NoIx
<1>2. sec \in [Indexes -> SUBSET (Vals \X Keys)] /\ ix \in [Keys -> IxVals]
  BY NoIxType, Zenon
<1>3. todo \in Seq(Items)
  OBVIOUS
<1> QED BY <1>1, <1>2, <1>3, Zenon DEF SecInv, SecType, GoneBare, SecMatchesPk

LEMMA SecStep == SecInv /\ [Next]_vars => SecInv'
<1> SUFFICES ASSUME SecInv, [Next]_vars PROVE SecInv'
  OBVIOUS
<1>1. ASSUME NEW items, items \in Seq(Items), items # <<>>, Begin(items) PROVE SecInv'
  <2>1. UNCHANGED <<live, ix, sec, victims>> /\ todo' = items /\ phase = "idle" /\ phase' = "append"
    BY <1>1, Zenon DEF Begin
  <2> QED BY <1>1, <2>1, Zenon DEF SecInv, SecType, GoneBare, SecMatchesPk
<1>2. CASE \E item \in Items : Put(item)
  <2>1. PICK item \in Items : Put(item)
    BY <1>2, Zenon
  <2>2. <<item>> \in Seq(Items) /\ <<item>> # <<>>
    OBVIOUS
  <2> QED BY <1>1, <2>1, <2>2, Zenon DEF Put
<1>3. CASE \E items \in Batches : PutBatch(items)
  <2>1. PICK items \in Batches : PutBatch(items)
    BY <1>3, Zenon
  <2>2. PICK n \in 2 .. MaxBatch : items \in [1 .. n -> Items]
    BY Zenon DEF Batches
  <2>3. n \in Nat /\ n # 0
    BY SecAssumption
  <2>4. items \in Seq(Items) /\ Len(items) = n
    BY <2>2, <2>3
  <2> QED BY <1>1, <2>1, <2>3, <2>4 DEF PutBatch
<1>4. CASE AppendRecord
  BY <1>4, AppendStep, Zenon
<1>5. CASE \E i \in Indexes, v \in Vals : EnforceGroup(i, v)
  <2>1. PICK i \in Indexes, v \in Vals : EnforceGroup(i, v)
    BY <1>5, Zenon
  <2>2. UNCHANGED <<live, ix, sec, todo, phase>> /\ victims' \subseteq Keys
    BY <2>1, Zenon DEF EnforceGroup, Victims, Group
  <2> QED BY <2>2, Zenon DEF SecInv, SecType, GoneBare, SecMatchesPk
<1>6. CASE Evict
  <2>1. PICK k \in victims : DeleteLocked(k) /\ victims' = victims \ {k}
    BY <1>6, Zenon DEF Evict
  <2>2. k \in Keys /\ victims' \subseteq Keys /\ todo' = todo /\ phase' = phase /\ phase # "down"
    BY <1>6, <2>1, Zenon DEF Evict, SecInv, SecType
  <2> QED BY <2>1, <2>2, DeleteStep, Zenon
<1>7. CASE Finish \/ WriteFails
  <2>1. UNCHANGED <<live, ix, sec>> /\ phase' = "idle"
    BY <1>7, Zenon DEF Finish, WriteFails
  <2>2. CASE Finish
    BY <2>1, <2>2 DEF Finish, SecInv, SecType, GoneBare, SecMatchesPk
  <2>3. CASE WriteFails
    <3>1. todo' = <<>> /\ victims' = {} /\ phase # "down"
      BY <2>3, Zenon DEF WriteFails
    <3>2. todo' \in Seq(Items)
      BY <3>1
    <3> QED BY <2>1, <3>1, <3>2, Zenon DEF SecInv, SecType, GoneBare, SecMatchesPk
  <2> QED BY <1>7, <2>2, <2>3, Zenon
<1>8. CASE \E k \in Keys : Delete(k) \/ RemoveByPkLess(k) \/ RemoveByPkGreater(k)
  <2>1. PICK k \in Keys : Delete(k) \/ RemoveByPkLess(k) \/ RemoveByPkGreater(k)
    BY <1>8, Zenon
  <2>2. CASE Delete(k)
    <3>1. DeleteLocked(k) /\ todo' = todo /\ phase' = phase /\ phase # "down" /\ victims' \subseteq Keys
      BY <2>2, Zenon DEF Delete, SecInv, SecType
    <3> QED BY <3>1, DeleteStep, Zenon
  <2>3. ASSUME NEW D \in SUBSET live, RemovePkEntries(D) PROVE SecInv'
    <3>1. D \in SUBSET Keys /\ victims' \subseteq Keys /\ phase # "down"
      BY <2>3, Zenon DEF RemovePkEntries, SecInv, SecType
    <3> QED BY <2>3, <3>1, RemoveStep, Zenon DEF RemovePkEntries, RemovePKs
  <2> QED BY <2>1, <2>2, <2>3, Zenon DEF RemoveByPkLess, RemoveByPkGreater
<1>9. CASE Compact
  BY <1>9, RebuildStep, Zenon DEF Compact
<1>10. CASE Crash
  <2>1. sec' \in [Indexes -> SUBSET (Vals \X Keys)]
    BY <1>10, Zenon DEF Crash
  <2>2. todo' \in Seq(Items) /\ victims' \subseteq Keys
    BY <1>10 DEF Crash
  <2> QED BY <1>10, <2>1, <2>2, Zenon DEF Crash, SecInv, SecType, GoneBare, SecMatchesPk
<1>11. CASE \E c \in Caps : Open(c)
  BY <1>11, RebuildStep, Zenon DEF Open
<1>12. CASE UNCHANGED vars
  BY <1>12, Zenon DEF vars, SecInv, SecType, GoneBare, SecMatchesPk
<1> QED BY <1>2, <1>3, <1>4, <1>5, <1>6, <1>7, <1>8, <1>9, <1>10, <1>11, <1>12, Zenon DEF Next

(* For every set of keys, indexes and values: at every step of every call, *)
(* the index trees hold exactly the pairs the primary entries carry        *)
(* (refreshSec, retractSec, removePKs, rebuildSec).                        *)
THEOREM TreesCorrect == Spec => []SecMatchesPk
<1>1. SecInv => SecMatchesPk
  BY Zenon DEF SecInv
<1> QED BY SecInit, SecStep, <1>1, PTL DEF Spec

-----------------------------------------------------------------------------
(* The keys marked for eviction are the lowest of one group.               *)
LowestOf(i, v) ==
    /\ victims \subseteq Group(i, v)
    /\ \A k \in victims, m \in Group(i, v) \ victims : k < m
VictimsLow ==
    /\ cap \in Caps
    /\ \/ victims = {}
       \/ phase = "enforce" /\ \E i \in Indexes, v \in Vals : LowestOf(i, v)

(* A lower key has a lower rank.                                           *)
LEMMA RankOrder ==
    ASSUME NEW S \in SUBSET Keys, NEW k \in S, NEW m \in S, m <= k
    PROVE  Rank(S, m) <= Rank(S, k) /\ Rank(S, m) \in Nat /\ Rank(S, k) \in Nat
<1> DEFINE A == {x \in S : x <= m}
           B == {x \in S : x <= k}
<1>1. k \in Nat /\ m \in Nat /\ \A x \in S : x \in Nat
  BY SecAssumption, Zenon
<1>2. A \in SUBSET B /\ B \in SUBSET Keys
  <2>1. ASSUME NEW x \in S, x <= m PROVE x <= k
    BY <1>1, <2>1
  <2> QED BY <2>1, Zenon
<1>3. IsFiniteSet(B)
  BY <1>2, SecAssumption, FS_Subset, Zenon
<1>4. IsFiniteSet(A) /\ Cardinality(A) <= Cardinality(B)
  BY <1>2, <1>3, FS_Subset, Zenon
<1>5. Cardinality(A) \in Nat /\ Cardinality(B) \in Nat
  BY <1>3, <1>4, FS_CardinalityType, Zenon
<1> QED BY <1>4, <1>5, Zenon DEF Rank

LEMMA MarkedLowest ==
    ASSUME cap \in Caps, NEW i \in Indexes, NEW v \in Vals, EnforceGroup(i, v)
    PROVE  LowestOf(i, v)'
<1> DEFINE G == Group(i, v)
<1>1. victims' = Victims(i, v) /\ Group(i, v)' = G
  BY Zenon DEF EnforceGroup, Group
<1>2. G \in SUBSET Keys /\ Victims(i, v) \subseteq G
  BY Zenon DEF Group, Victims
<1>3. IsFiniteSet(G) /\ Cardinality(G) \in Nat /\ cap[i] \in Nat
  BY <1>2, SecAssumption, FS_Subset, FS_CardinalityType DEF Caps
<1>4. ASSUME NEW k \in Victims(i, v), NEW m \in G \ Victims(i, v) PROVE k < m
  <2>1. k \in G /\ m \in G /\ k \in Nat /\ m \in Nat
    BY <1>2, SecAssumption, Zenon
  <2>2. cap[i] > 0 /\ Rank(G, k) <= Cardinality(G) - cap[i]
    BY Zenon DEF Victims
  <2>3. ~(Rank(G, m) <= Cardinality(G) - cap[i])
    BY <2>2, Zenon DEF Victims
  <2>4. ASSUME m <= k PROVE FALSE
    <3> HIDE DEF G
    <3>1. Rank(G, m) <= Rank(G, k) /\ Rank(G, m) \in Nat /\ Rank(G, k) \in Nat
      BY <1>2, <2>1, <2>4, RankOrder, Zenon
    <3> QED BY <1>3, <2>2, <2>3, <3>1
  <2> QED BY <2>1, <2>4
<1> QED BY <1>1, <1>2, <1>4, Zenon DEF LowestOf

LEMMA EvictedLowest ==
    ASSUME SecInv, phase # "down", NEW k \in victims, DeleteLocked(k), victims' = victims \ {k},
           NEW i \in Indexes, NEW v \in Vals, LowestOf(i, v)
    PROVE  LowestOf(i, v)'
<1>1. k \in Keys
  BY Zenon DEF SecInv, SecType
<1>2. sec' = [j \in Indexes |-> {e \in sec[j] : e[2] \notin {k}}]
  BY <1>1, RetractIsRemove, Zenon DEF DeleteLocked
<1>3. Group(i, v)' = Group(i, v) \ {k}
  BY <1>2, Zenon DEF Group
<1> QED BY <1>3, Zenon DEF LowestOf

LEMMA LowStep ==
    ASSUME SecInv, VictimsLow, [Next]_vars
    PROVE  VictimsLow' /\ (victims' # victims /\ phase = "enforce" /\ victims' # {} =>
                             \E i \in Indexes, v \in Vals : LowestOf(i, v)')
<1>1. ASSUME victims' = {}, cap' \in Caps PROVE VictimsLow'
  BY <1>1, Zenon DEF VictimsLow
<1>2. ASSUME NEW i \in Indexes, NEW v \in Vals, EnforceGroup(i, v) PROVE VictimsLow' /\ LowestOf(i, v)'
  <2>1. LowestOf(i, v)' /\ phase' = "enforce" /\ cap' \in Caps
    BY <1>2, MarkedLowest, Zenon DEF VictimsLow, EnforceGroup
  <2> QED BY <2>1, Zenon DEF VictimsLow
<1>3. ASSUME Evict PROVE VictimsLow' /\ \E i \in Indexes, v \in Vals : LowestOf(i, v)'
  <2>1. PICK k \in victims : DeleteLocked(k) /\ victims' = victims \ {k}
    BY <1>3, Zenon DEF Evict
  <2>2. phase = "enforce" /\ phase' = "enforce" /\ cap' \in Caps
    BY <1>3, Zenon DEF Evict, VictimsLow
  <2>3. PICK i \in Indexes, v \in Vals : LowestOf(i, v)
    BY <2>1, Zenon DEF VictimsLow
  <2>4. LowestOf(i, v)'
    BY <2>1, <2>2, <2>3, EvictedLowest, Zenon
  <2> QED BY <2>2, <2>4, Zenon DEF VictimsLow
<1>4. ASSUME \/ \E item \in Items : Put(item)
             \/ \E items \in Batches : PutBatch(items)
             \/ AppendRecord \/ Finish
             \/ \E k \in Keys : Delete(k) \/ RemoveByPkLess(k) \/ RemoveByPkGreater(k)
             \/ Compact \/ \E c \in Caps : Open(c)
      PROVE  victims' = {} /\ victims = {} /\ cap' \in Caps
  <2>1. victims' = victims /\ cap' \in Caps /\ (phase # "enforce" \/ victims = {})
    BY <1>4, Zenon DEF VictimsLow, Put, PutBatch, Begin, AppendRecord, Finish, Delete, RemoveByPkLess,
                RemoveByPkGreater, RemovePkEntries, Compact, Open
  <2> QED BY <2>1, Zenon DEF VictimsLow
<1>5. ASSUME WriteFails \/ Crash PROVE victims' = {} /\ cap' \in Caps
  BY <1>5, Zenon DEF WriteFails, Crash, VictimsLow
<1>6. ASSUME UNCHANGED vars PROVE VictimsLow' /\ victims' = victims
  BY <1>6, Zenon DEF VictimsLow, vars, LowestOf, Group
<1> QED BY <1>1, <1>2, <1>3, <1>4, <1>5, <1>6, Zenon DEF Next

(* For every set of keys and every cap: the records that enforcement still *)
(* has to delete are at any time the lowest of one group, with every record*)
(* that stays above them (enforceMaxPerValue).                             *)
THEOREM EvictionCorrect == Spec => EvictsLowest
<1> DEFINE Low == victims' # victims /\ phase = "enforce" /\ victims' # {} =>
                    \E i \in Indexes, v \in Vals :
                        /\ victims' \subseteq Group(i, v)'
                        /\ \A k \in victims', m \in Group(i, v)' \ victims' : k < m
<1>1. Init => VictimsLow
  BY Zenon DEF Init, VictimsLow
<1>2. SecInv /\ VictimsLow /\ [Next]_vars => VictimsLow'
  BY LowStep, Zenon
<1>3. SecInv /\ VictimsLow /\ [Next]_vars => [Low]_vars
  BY LowStep, Zenon DEF LowestOf
<1> QED BY SecInit, SecStep, <1>1, <1>2, <1>3, PTL DEF Spec, EvictsLowest

-----------------------------------------------------------------------------
(* Counting keys.                                                          *)
LEMMA KeySet ==
    ASSUME NEW S \in SUBSET Keys
    PROVE  IsFiniteSet(S) /\ Cardinality(S) \in Nat /\ \A x \in S : x \in Nat
BY SecAssumption, FS_Subset, FS_CardinalityType, Zenon

LEMMA FewerKeys ==
    ASSUME NEW S \in SUBSET Keys, NEW T \in SUBSET S
    PROVE  /\ Cardinality(T) \in Nat /\ Cardinality(S) \in Nat
           /\ Cardinality(T) <= Cardinality(S)
           /\ T # S => Cardinality(T) < Cardinality(S)
<1>1. T \in SUBSET Keys
  OBVIOUS
<1>2. IsFiniteSet(S) /\ Cardinality(S) \in Nat /\ Cardinality(T) \in Nat
  BY <1>1, KeySet, Zenon
<1>3. Cardinality(T) <= Cardinality(S) /\ (Cardinality(S) = Cardinality(T) => S = T)
  BY <1>2, FS_Subset, Zenon
<1> QED BY <1>2, <1>3

LEMMA RankStrict ==
    ASSUME NEW S \in SUBSET Keys, NEW k \in S, NEW m \in S, m < k
    PROVE  Rank(S, m) < Rank(S, k)
<1> DEFINE A == {x \in S : x <= m}
           B == {x \in S : x <= k}
<1>1. k \in Nat /\ m \in Nat /\ \A x \in S : x \in Nat
  BY KeySet, Zenon
<1>2. A \in SUBSET B /\ B \in SUBSET Keys
  <2>1. ASSUME NEW x \in S, x <= m PROVE x <= k
    BY <1>1, <2>1
  <2> QED BY <2>1, Zenon
<1>3. k \in B /\ k \notin A
  BY <1>1
<1> QED BY <1>2, <1>3, FewerKeys, Zenon DEF Rank

LEMMA RankRange ==
    ASSUME NEW S \in SUBSET Keys, NEW k \in S
    PROVE  Rank(S, k) \in 1 .. Cardinality(S)
<1> DEFINE B == {x \in S : x <= k}
<1>1. B \in SUBSET S /\ {} \in SUBSET B /\ B \in SUBSET Keys
  OBVIOUS
<1>2. k \in B
  BY KeySet
<1>3. Cardinality(B) <= Cardinality(S) /\ Cardinality(S) \in Nat /\ Cardinality(B) \in Nat
  BY <1>1, FewerKeys, Zenon
<1>4. Cardinality({}) < Cardinality(B)
  BY <1>1, <1>2, FewerKeys, Zenon
<1>5. Cardinality({}) = 0
  BY FS_EmptySet, Zenon
<1> QED BY <1>3, <1>4, <1>5 DEF Rank

(* enforceMaxPerValue leaves as many records as the cap allows.            *)
LEMMA KeptCount ==
    ASSUME NEW S \in SUBSET Keys, NEW c \in Nat
    PROVE  Cardinality({k \in S : ~(Rank(S, k) <= Cardinality(S) - c)}) <= c
<1> DEFINE n == Cardinality(S)
           Kept == {k \in S : ~(Rank(S, k) <= n - c)}
           f == [k \in Kept |-> Rank(S, k)]
<1>1. n \in Nat /\ Kept \in SUBSET S
  BY KeySet, Zenon
<1>2. CASE n <= c
  <2>1. Cardinality(Kept) <= n /\ Cardinality(Kept) \in Nat
    BY <1>1, FewerKeys, Zenon
  <2> QED BY <1>1, <1>2, <2>1
<1>3. CASE c < n
  <2>1. ASSUME NEW k \in Kept PROVE Rank(S, k) \in (n - c + 1) .. n
    <3>1. Rank(S, k) \in 1 .. n /\ ~(Rank(S, k) <= n - c)
      BY RankRange, Zenon
    <3> QED BY <1>1, <3>1
  <2>2. ASSUME NEW k \in Kept, NEW m \in Kept, Rank(S, k) = Rank(S, m) PROVE k = m
    <3>1. k \in S /\ m \in S /\ k \in Nat /\ m \in Nat
      BY KeySet, Zenon
    <3>2. Rank(S, k) \in 1 .. n /\ Rank(S, m) \in 1 .. n
      BY <3>1, RankRange, Zenon
    <3>3. (k < m => Rank(S, k) < Rank(S, m)) /\ (m < k => Rank(S, m) < Rank(S, k))
      BY <3>1, RankStrict, Zenon
    <3> HIDE DEF Kept, n
    <3> QED BY <1>1, <2>2, <3>1, <3>2, <3>3
  <2>3. f \in Injection(Kept, (n - c + 1) .. n)
    BY <2>1, <2>2, Zenon DEF Injection, IsInjective
  <2>4. /\ IsFiniteSet((n - c + 1) .. n)
        /\ Cardinality((n - c + 1) .. n) = IF n - c + 1 > n THEN 0 ELSE n - (n - c + 1) + 1
    <3>1. n - c + 1 \in Int /\ n \in Int
      BY <1>1
    <3> QED BY <3>1, FS_Interval, Zenon
  <2>5. Cardinality((n - c + 1) .. n) <= c
    <3> HIDE DEF n
    <3> QED BY <1>1, <1>3, <2>4
  <2>6. Cardinality(Kept) <= Cardinality((n - c + 1) .. n)
    BY <2>3, <2>4, FS_Injection, Zenon
  <2>7. Cardinality(Kept) \in Nat /\ Cardinality((n - c + 1) .. n) \in Nat
    BY <1>1, <2>4, FewerKeys, FS_CardinalityType, Zenon
  <2>8. Cardinality(Kept) <= c
    <3> HIDE DEF Kept, n
    <3> QED BY <2>5, <2>6, <2>7
  <2> QED BY <2>8, Zenon
<1>4. \A a \in Nat : a <= c \/ c < a
  OBVIOUS
<1> QED BY <1>1, <1>2, <1>3, <1>4, Zenon

-----------------------------------------------------------------------------
(* A group that enforcement has still to visit is listed; any other holds  *)
(* at most its cap of records besides those about to be deleted, or may be *)
(* over its cap.                                                           *)
GroupInv(i, v) ==
    \/ cap[i] = 0
    \/ <<i, v>> \in lax \cup Unenforced
    \/ Cardinality(Group(i, v) \ victims) <= cap[i]

CallInv ==
    /\ phase # "enforce" => victims = {}
    /\ phase \in {"idle", "down"} => todo = <<>> /\ touched = <<>>
    /\ phase = "enforce" => todo = <<>>
    /\ \A n \in DOMAIN todo : TouchedBy(todo[n]) \subseteq Unenforced

CapInv ==
    /\ TypeOK /\ CallInv
    /\ phase # "down" => \A i \in Indexes, v \in Vals : GroupInv(i, v)

(* How many records above k a group may hold without k being evicted: the  *)
(* groups that the Put of k has still to enforce hold fewer than their cap.*)
Above(S, k) == {x \in S : x > k}
RoomAbove(i, v, k) ==
    <<i, v>> \in Unenforced /\ cap[i] > 0 => Cardinality(Above(Group(i, v), k)) < cap[i]

WroteInv ==
    \A k \in wrote :
        /\ phase # "down"
        /\ phase = "append" => Tail(todo) = <<>> /\ Head(todo).key = k
        /\ phase # "append" => k \in live \ victims
        /\ \A i \in Indexes, v \in Vals : RoomAbove(i, v, k)

LEMMA GroupKept ==
    ASSUME NEW i \in Indexes, NEW v \in Vals, cap \in Caps, GroupInv(i, v), cap' = cap,
           lax \cup Unenforced \subseteq (lax \cup Unenforced)',
           Group(i, v)' \ victims' \subseteq Group(i, v) \ victims
    PROVE  GroupInv(i, v)'
<1>1. CASE Cardinality(Group(i, v) \ victims) <= cap[i]
  <2> DEFINE S == Group(i, v) \ victims
             T == Group(i, v)' \ victims'
  <2>1. S \in SUBSET Keys /\ T \in SUBSET S
    BY Zenon DEF Group
  <2>2. Cardinality(T) <= Cardinality(S) /\ Cardinality(T) \in Nat /\ Cardinality(S) \in Nat
    BY <2>1, FewerKeys, Zenon
  <2>3. cap[i] \in Nat
    BY DEF Caps
  <2>4. Cardinality(T) <= cap[i]
    <3> HIDE DEF S, T
    <3>1. Cardinality(S) <= cap[i]
      BY <1>1 DEF S
    <3> QED BY <2>2, <2>3, <3>1
  <2> QED BY <2>4, Zenon DEF GroupInv
<1> QED BY <1>1, Zenon DEF GroupInv

LEMMA RoomKept ==
    ASSUME NEW i \in Indexes, NEW v \in Vals, NEW k, cap \in Caps, RoomAbove(i, v, k), cap' = cap,
           Unenforced' \subseteq Unenforced,
           Above(Group(i, v)', k) \subseteq Above(Group(i, v), k)
    PROVE  RoomAbove(i, v, k)'
<1> SUFFICES ASSUME <<i, v>> \in Unenforced', cap'[i] > 0
             PROVE  Cardinality(Above(Group(i, v)', k)) < cap'[i]
  BY Zenon DEF RoomAbove
<1> DEFINE S == Above(Group(i, v), k)
           T == Above(Group(i, v)', k)
<1>1. S \in SUBSET Keys /\ T \in SUBSET S
  BY Zenon DEF Group, Above
<1>2. Cardinality(T) <= Cardinality(S) /\ Cardinality(T) \in Nat /\ Cardinality(S) \in Nat
  BY <1>1, FewerKeys, Zenon
<1>3. cap[i] \in Nat /\ Cardinality(S) < cap[i]
  BY DEF Caps, RoomAbove
<1> HIDE DEF S, T
<1>4. Cardinality(T) < cap[i]
  BY <1>2, <1>3
<1> QED BY <1>4, Zenon DEF T

(* A step that changes no group, or only makes groups smaller.             *)
LEMMA SmallerGroups ==
    ASSUME CapInv, WroteInv, TypeOK', CallInv', phase # "down", phase' # "down",
           UNCHANGED <<cap, lax>>, Unenforced' = Unenforced,
           \A i \in Indexes, v \in Vals : /\ Group(i, v)' \subseteq Group(i, v)
                                          /\ Group(i, v)' \ victims' \subseteq Group(i, v) \ victims
    PROVE  /\ CapInv'
           /\ \A k \in wrote, i \in Indexes, v \in Vals : RoomAbove(i, v, k)'
<1>1. cap \in Caps
  BY Zenon DEF CapInv, TypeOK
<1>2. ASSUME NEW i \in Indexes, NEW v \in Vals PROVE GroupInv(i, v)'
  BY <1>1, GroupKept, Zenon DEF CapInv
<1>3. ASSUME NEW i \in Indexes, NEW v \in Vals, NEW k \in wrote PROVE RoomAbove(i, v, k)'
  <2>1. Above(Group(i, v)', k) \subseteq Above(Group(i, v), k)
    BY Zenon DEF Above
  <2> QED BY <1>1, <2>1, RoomKept, Zenon DEF WroteInv
<1> QED BY <1>2, <1>3, Zenon DEF CapInv

(* The groups after a record has been appended or deleted.                 *)
LEMMA GroupsRemoved ==
    ASSUME NEW D, sec' = [i \in Indexes |-> {e \in sec[i] : e[2] \notin D}],
           NEW i \in Indexes, NEW v \in Vals
    PROVE  Group(i, v)' = Group(i, v) \ D
BY DEF Group

LEMMA GroupsDeleted ==
    ASSUME SecInv, phase # "down", NEW k \in Keys, DeleteLocked(k),
           NEW i \in Indexes, NEW v \in Vals
    PROVE  Group(i, v)' = Group(i, v) \ {k}
<1>1. sec' = [j \in Indexes |-> {e \in sec[j] : e[2] \notin {k}}]
  BY RetractIsRemove, Zenon DEF DeleteLocked
<1> QED BY <1>1, GroupsRemoved, Zenon

LEMMA GroupsAppended ==
    ASSUME SecInv, phase # "down", NEW k \in Keys, NEW x \in IxVals, sec' = RefreshSec(k, x),
           NEW i \in Indexes, NEW v \in Vals
    PROVE  /\ x[i] # v => Group(i, v)' \subseteq Group(i, v)
           /\ \A j : j # k => (j \in Group(i, v)' <=> j \in Group(i, v))
<1>1. sec' = InsertSec([j \in Indexes |-> {e \in sec[j] : e[2] \notin {k}}], k, x)
  BY RetractIsRemove, Zenon DEF RefreshSec
<1>2. sec'[i] = IF x[i] = NoVal THEN {e \in sec[i] : e[2] \notin {k}}
                ELSE {e \in sec[i] : e[2] \notin {k}} \cup {<<x[i], k>>}
  BY <1>1, Zenon DEF InsertSec
<1>3. \A j : <<v, j>> \in sec'[i] <=> (<<v, j>> \in sec[i] /\ j # k) \/ (x[i] # NoVal /\ v = x[i] /\ j = k)
  BY <1>2
<1> QED BY <1>3, Zenon DEF Group

LEMMA GroupsRebuilt ==
    ASSUME sec' = RebuildSec, live \subseteq Keys, NEW i \in Indexes, NEW v \in Vals
    PROVE  Group(i, v)' = {k \in live : ix[k][i] = v}
BY DEF RebuildSec, Group

LEMMA GroupIs ==
    ASSUME SecInv, phase # "down", NEW i \in Indexes, NEW v \in Vals
    PROVE  Group(i, v) = {k \in live : ix[k][i] = v}
BY Zenon DEF SecInv, SecType, SecMatchesPk, Group

(* The lowest key of a group is the one a full group evicts.               *)
LEMMA LowestKey ==
    ASSUME NEW S \in SUBSET Keys, S # {}
    PROVE  \E m \in S : Rank(S, m) = 1 /\ \A x \in S : m <= x
<1>1. S \subseteq Nat
  BY SecAssumption, Zenon
<1>2. IsWellFoundedOn(OpToRel(<, Nat), Nat)
  BY NatLessThanWellFounded, Zenon
<1>3. PICK m \in S : \A x \in S : ~(<<x, m>> \in OpToRel(<, Nat))
  BY <1>1, <1>2, WFMin, Zenon
<1>4. \A x \in S : m <= x
  <2> SUFFICES ASSUME NEW x \in S, x < m PROVE FALSE
    BY <1>1
  <2> QED BY <1>1, <1>3 DEF OpToRel
<1>5. {x \in S : x <= m} = {m}
  <2>1. \A a \in Nat : a <= a
    OBVIOUS
  <2>2. \A a, b \in Nat : a <= b /\ b <= a => a = b
    OBVIOUS
  <2> QED BY <1>1, <1>4, <2>1, <2>2, Zenon
<1>6. Rank(S, m) = 1
  BY <1>5, FS_Singleton, Zenon DEF Rank
<1> QED BY <1>4, <1>6, Zenon

(* checkSelfEviction leaves room: fewer records than the cap lie above the *)
(* key in a group that is within its cap.                                  *)
LEMMA CheckedRoom ==
    ASSUME NEW i \in Indexes, NEW v \in Vals, NEW k \in Keys, cap \in Caps, cap[i] > 0,
           ~WouldSelfEvict(i, v, k), Cardinality(Group(i, v)) <= cap[i]
    PROVE  Cardinality(Above(Group(i, v), k)) < cap[i]
<1> DEFINE G == Group(i, v)
           A == Above(G, k)
           c == cap[i]
<1>1. G \in SUBSET Keys /\ A \in SUBSET G /\ \A x \in A : x \in G /\ x > k
  BY Zenon DEF Group, Above
<1>2. c \in Nat /\ c > 0 /\ k \in Nat /\ \A x \in G : x \in Nat
  <2>1. c \in Nat
    BY DEF Caps
  <2> QED BY <1>1, <2>1, KeySet, SecAssumption, Zenon
<1>3. /\ Cardinality(A) \in Nat /\ Cardinality(G) \in Nat /\ Cardinality(A) <= Cardinality(G)
      /\ A # G => Cardinality(A) < Cardinality(G)
  BY <1>1, FewerKeys, Zenon
<1>4. Cardinality(G) <= c
  BY Zenon
<1>5. CASE A # G
  <2> HIDE DEF A, G, c
  <2>1. Cardinality(A) < c
    BY <1>2, <1>3, <1>4, <1>5
  <2> QED BY <2>1, Zenon DEF A, G, c
<1>6. CASE A = G /\ Cardinality(G) < c
  BY <1>6, Zenon
<1>7. CASE A = G /\ Cardinality(G) = c
  <2>1. G # {}
    <3>1. Cardinality({}) = 0
      BY FS_EmptySet, Zenon
    <3> HIDE DEF G, c
    <3> QED BY <1>2, <1>7, <3>1
  <2>2. PICK m \in G : Rank(G, m) = 1
    BY <1>1, <2>1, LowestKey, Zenon
  <2>3. k \notin G /\ m > k
    BY <1>1, <1>2, <1>7
  <2>4. Cardinality(G) + 1 - c = 1 /\ 1 > 0 /\ k <= m
    <3> HIDE DEF G, c
    <3> QED BY <1>2, <1>7, <2>3
  <2>5. WouldSelfEvict(i, v, k)
    <3>1. c > 0
      BY <1>2, Zenon
    <3> QED BY <2>2, <2>3, <2>4, <3>1, Zenon DEF WouldSelfEvict
  <2> QED BY <2>5, Zenon
<1>8. Cardinality(G) < c \/ Cardinality(G) = c
  <2> HIDE DEF G, c
  <2> QED BY <1>2, <1>3, <1>4
<1> QED BY <1>5, <1>6, <1>7, <1>8, Zenon

(* A key with fewer records than the cap above it is not evicted.          *)
LEMMA RoomSpares ==
    ASSUME NEW i \in Indexes, NEW v \in Vals, NEW k \in Keys, cap \in Caps, cap[i] > 0,
           Cardinality(Above(Group(i, v), k)) < cap[i]
    PROVE  k \notin Victims(i, v)
<1> SUFFICES ASSUME k \in Victims(i, v) PROVE FALSE
  OBVIOUS
<1> DEFINE G == Group(i, v)
           A == Above(G, k)
           B == {x \in G : x <= k}
<1>1. G \in SUBSET Keys /\ A \in SUBSET Keys /\ B \in SUBSET Keys
  BY Zenon DEF Group, Above
<1>2. \A x \in G : x \in Nat /\ k \in Nat
  BY <1>1, KeySet, SecAssumption
<1>3. A \cup B = G /\ A \cap B = {}
  BY <1>2 DEF Above
<1>4. IsFiniteSet(A) /\ IsFiniteSet(B) /\ Cardinality(A) \in Nat /\ Cardinality(B) \in Nat /\ Cardinality(G) \in Nat
  BY <1>1, KeySet, Zenon
<1>5. Cardinality(G) = Cardinality(A) + Cardinality(B) - 0
  <2>1. Cardinality(A \cup B) = Cardinality(A) + Cardinality(B) - Cardinality(A \cap B)
    BY <1>4, FS_Union, Zenon
  <2>2. Cardinality({}) = 0
    BY FS_EmptySet, Zenon
  <2> QED BY <1>3, <2>1, <2>2, Zenon
<1>6. Cardinality(B) <= Cardinality(G) - cap[i]
  BY Zenon DEF Victims, Rank
<1>7. cap[i] \in Nat /\ Cardinality(A) < cap[i]
  BY DEF Caps
<1> HIDE DEF A, B, G
<1> QED BY <1>4, <1>5, <1>6, <1>7

-----------------------------------------------------------------------------
(* The calls in progress.                                                  *)
LEMMA TouchedType ==
    ASSUME NEW item \in Items
    PROVE  TouchedBy(item) \in SUBSET Groups
BY Zenon DEF TouchedBy

LEMMA BeginCall ==
    ASSUME SecInv, CapInv, NEW items \in Seq(Items), items # <<>>, Begin(items), wrote' \subseteq Keys
    PROVE  /\ TypeOK' /\ CallInv'
           /\ Unenforced' = UNION {TouchedBy(items[n]) : n \in DOMAIN items}
<1>1. /\ phase' = "append" /\ todo' = items /\ phase = "idle"
      /\ touched' = [n \in DOMAIN items |-> TouchedBy(items[n])]
      /\ UNCHANGED <<live, ix, sec, cap, victims, lax>>
  BY Zenon DEF Begin
<1>2. DOMAIN items = 1 .. Len(items) /\ Len(items) \in Nat /\ \A n \in DOMAIN items : items[n] \in Items
  OBVIOUS
<1>3. touched' \in Seq(SUBSET Groups)
  <2>1. \A n \in 1 .. Len(items) : TouchedBy(items[n]) \in SUBSET Groups
    BY <1>2, TouchedType, Zenon
  <2> QED BY <1>1, <1>2, <2>1
<1>4. Unenforced' = UNION {TouchedBy(items[n]) : n \in DOMAIN items}
  <2>1. DOMAIN touched' = DOMAIN items /\ \A n \in DOMAIN items : touched'[n] = TouchedBy(items[n])
    BY <1>1, Zenon
  <2> QED BY <2>1, Zenon DEF Unenforced
<1>5. TypeOK'
  BY <1>1, <1>3, Zenon DEF CapInv, TypeOK
<1>6. CallInv'
  <2>1. \A n \in DOMAIN items : TouchedBy(items[n]) \subseteq Unenforced'
    BY <1>4, Zenon
  <2>2. \A n \in DOMAIN todo' : TouchedBy(todo'[n]) \subseteq Unenforced'
    BY <1>1, <2>1, Zenon
  <2>3. victims' = {}
    BY <1>1, Zenon DEF CapInv, CallInv
  <2> QED BY <1>1, <2>2, <2>3, Zenon DEF CallInv, TouchedBy, Groups
<1> QED BY <1>4, <1>5, <1>6

LEMMA BeginCaps ==
    ASSUME SecInv, CapInv, NEW items \in Seq(Items), items # <<>>, Begin(items), wrote' \subseteq Keys
    PROVE  CapInv'
<1>1. /\ phase = "idle" /\ phase' = "append" /\ UNCHANGED <<sec, cap, victims, lax>>
  BY Zenon DEF Begin
<1>2. TypeOK' /\ CallInv'
  BY BeginCall, Zenon
<1>3. touched = <<>> /\ cap \in Caps
  BY <1>1, Zenon DEF CapInv, CallInv, TypeOK
<1>4. Unenforced = {}
  BY <1>3 DEF Unenforced
<1>5. ASSUME NEW i \in Indexes, NEW v \in Vals PROVE GroupInv(i, v)'
  <2>1. Group(i, v)' = Group(i, v)
    BY <1>1, Zenon DEF Group
  <2>2. GroupInv(i, v)
    BY <1>1, Zenon DEF CapInv
  <2>3. lax \cup Unenforced \subseteq (lax \cup Unenforced)'
    BY <1>1, <1>4, Zenon
  <2> QED BY <1>1, <1>3, <2>1, <2>2, <2>3, GroupKept, Zenon
<1> QED BY <1>1, <1>2, <1>5, Zenon DEF CapInv

(* A Put that is let through leaves room above its key in all its groups.  *)
LEMMA PutRoom ==
    ASSUME SecInv, CapInv, NEW item \in Items, Put(item)
    PROVE  CapInv' /\ WroteInv'
<1>1. <<item>> \in Seq(Items) /\ <<item>> # <<>> /\ DOMAIN <<item>> = {1} /\ <<item>>[1] = item
  OBVIOUS
<1>2. item.key \in Keys /\ item.ix \in IxVals
  BY DEF Items
<1>3. /\ Begin(<<item>>) /\ wrote' \subseteq Keys
      /\ \A k \in wrote' : k = item.key /\ TouchedBy(item) \cap lax = {}
  BY <1>2, Zenon DEF Put
<1>4. CapInv' /\ Unenforced' = UNION {TouchedBy(<<item>>[n]) : n \in DOMAIN <<item>>}
  BY <1>1, <1>3, BeginCall, BeginCaps, Zenon
<1>5. Unenforced' = TouchedBy(item)
  BY <1>1, <1>4, Zenon
<1>6. phase' = "append" /\ todo' = <<item>> /\ phase = "idle" /\ UNCHANGED <<sec, cap>> /\ CheckSelfEviction(item)
  BY <1>1, <1>3, Zenon DEF Begin
<1>7. Tail(<<item>>) = <<>> /\ Head(<<item>>) = item
  OBVIOUS
<1>8. cap \in Caps /\ victims = {} /\ touched = <<>>
  BY <1>6, Zenon DEF CapInv, TypeOK, CallInv
<1>9. ASSUME NEW k \in wrote', NEW i \in Indexes, NEW v \in Vals PROVE RoomAbove(i, v, k)'
  <2> SUFFICES ASSUME <<i, v>> \in TouchedBy(item), cap[i] > 0
               PROVE  Cardinality(Above(Group(i, v)', k)) < cap[i]
    BY <1>5, <1>6, Zenon DEF RoomAbove
  <2>1. <<i, v>> \notin lax /\ k = item.key /\ k \in Keys
    BY <1>2, <1>3, <1>9, Zenon
  <2>2. item.ix[i] = v
    BY DEF TouchedBy
  <2>3. v # NoVal
    BY SecAssumption, Zenon
  <2>4. ~WouldSelfEvict(i, v, k)
    BY <1>6, <2>1, <2>2, <2>3, Zenon DEF CheckSelfEviction
  <2>5. Unenforced = {}
    BY <1>8 DEF Unenforced
  <2>6. Cardinality(Group(i, v)) <= cap[i]
    <3>1. cap[i] # 0
      OBVIOUS
    <3>2. Cardinality(Group(i, v) \ victims) <= cap[i]
      BY <1>6, <2>1, <2>5, <3>1, Zenon DEF CapInv, GroupInv
    <3>3. Group(i, v) \ {} = Group(i, v)
      OBVIOUS
    <3> QED BY <1>8, <3>2, <3>3, Zenon
  <2>7. Cardinality(Above(Group(i, v), k)) < cap[i]
    BY <1>8, <2>1, <2>4, <2>6, CheckedRoom, Zenon
  <2>8. Group(i, v)' = Group(i, v)
    BY <1>6, Zenon DEF Group
  <2> QED BY <2>7, <2>8, Zenon
<1>10. WroteInv'
  BY <1>3, <1>6, <1>7, <1>9, Zenon DEF WroteInv
<1> QED BY <1>4, <1>10

LEMMA AppendCaps ==
    ASSUME SecInv, SecInv', CapInv, WroteInv, AppendRecord
    PROVE  CapInv' /\ WroteInv'
<1> DEFINE item == Head(todo)
           k == item.key
           x == item.ix
<1>1. /\ todo \in Seq(Items) /\ todo # <<>> /\ phase = "append" /\ victims = {} /\ cap \in Caps
      /\ \A n \in DOMAIN todo : TouchedBy(todo[n]) \subseteq Unenforced
  BY Zenon DEF SecInv, SecType, AppendRecord, CapInv, CallInv, TypeOK
<1>2. /\ item \in Items /\ Tail(todo) \in Seq(Items) /\ 1 \in DOMAIN todo /\ todo[1] = item
      /\ \A n \in DOMAIN Tail(todo) : n + 1 \in DOMAIN todo /\ Tail(todo)[n] = todo[n + 1]
  BY <1>1
<1>3. k \in Keys /\ x \in IxVals
  BY <1>2, Zenon DEF Items
<1>4. /\ live' = live \cup {k} /\ sec' = RefreshSec(k, x)
      /\ todo' = Tail(todo) /\ phase' = IF Tail(todo) = <<>> THEN "enforce" ELSE "append"
      /\ UNCHANGED <<cap, touched, victims, lax, wrote>>
  BY Zenon DEF AppendRecord
<1>5. \A i \in Indexes, v \in Vals : x[i] = v => <<i, v>> \in Unenforced
  <2>1. \A i \in Indexes, v \in Vals : x[i] = v => <<i, v>> \in TouchedBy(item)
    BY <1>3 DEF TouchedBy, Groups
  <2> QED BY <1>1, <1>2, <2>1, Zenon
<1> HIDE DEF item, k, x
<1>6. Unenforced' = Unenforced
  BY <1>4, Zenon DEF Unenforced
<1>7. TypeOK'
  BY <1>4, Zenon DEF SecInv, SecType, CapInv, TypeOK
<1>8. CallInv'
  <2>1. \A n \in DOMAIN todo' : TouchedBy(todo'[n]) \subseteq Unenforced
    BY <1>1, <1>2, <1>4, Zenon
  <2> QED BY <1>1, <1>4, <1>6, <2>1, Zenon DEF CallInv, TouchedBy
<1>9. ASSUME NEW i \in Indexes, NEW v \in Vals PROVE GroupInv(i, v)'
  <2>1. CASE x[i] = v
    BY <1>5, <1>6, <2>1, Zenon DEF GroupInv
  <2>2. CASE x[i] # v
    <3>1. Group(i, v)' \subseteq Group(i, v)
      BY <1>1, <1>3, <1>4, <2>2, GroupsAppended, Zenon
    <3>2. GroupInv(i, v)
      BY <1>1, Zenon DEF CapInv
    <3> QED BY <1>1, <1>4, <1>6, <3>1, <3>2, GroupKept, Zenon
  <2> QED BY <2>1, <2>2
<1>10. ASSUME NEW w \in wrote
       PROVE  w = k /\ Tail(todo) = <<>> /\ \A i \in Indexes, v \in Vals : RoomAbove(i, v, w)'
  <2>1. w = k /\ Tail(todo) = <<>>
    BY <1>1, Zenon DEF WroteInv, k, item
  <2>2. ASSUME NEW i \in Indexes, NEW v \in Vals PROVE RoomAbove(i, v, w)'
    <3>1. \A j : j # k => (j \in Group(i, v)' <=> j \in Group(i, v))
      BY <1>1, <1>3, <1>4, GroupsAppended, Zenon
    <3>2. ~(k > k)
      BY <1>3, SecAssumption
    <3>3. Above(Group(i, v)', w) \subseteq Above(Group(i, v), w)
      BY <2>1, <3>1, <3>2, Zenon DEF Above
    <3>4. RoomAbove(i, v, w)
      BY Zenon DEF WroteInv
    <3> QED BY <1>1, <1>4, <1>6, <3>3, <3>4, RoomKept, Zenon
  <2> QED BY <2>1, <2>2
<1>11. CapInv'
  BY <1>4, <1>7, <1>8, <1>9, Zenon DEF CapInv
<1>12. WroteInv'
  BY <1>1, <1>4, <1>10, Zenon DEF WroteInv
<1> QED BY <1>11, <1>12

LEMMA EnforceCaps ==
    ASSUME SecInv, SecInv', CapInv, WroteInv, NEW i \in Indexes, NEW v \in Vals, EnforceGroup(i, v)
    PROVE  CapInv' /\ WroteInv'
<1>1. /\ phase = "enforce" /\ victims = {} /\ victims' = Victims(i, v)
      /\ touched' = [n \in DOMAIN touched |-> touched[n] \ {<<i, v>>}]
      /\ lax' = lax \ {<<i, v>>}
      /\ UNCHANGED <<live, ix, sec, cap, phase, todo, wrote>>
      /\ \E n \in DOMAIN touched : <<i, v>> \in touched[n]
  BY Zenon DEF EnforceGroup
<1>2. touched \in Seq(SUBSET Groups) /\ cap \in Caps /\ todo = <<>> /\ wrote \subseteq Keys
  BY <1>1, Zenon DEF CapInv, CallInv, TypeOK
<1>3. Unenforced' = Unenforced \ {<<i, v>>} /\ <<i, v>> \in Unenforced
  <2>1. DOMAIN touched' = DOMAIN touched /\ \A n \in DOMAIN touched : touched'[n] = touched[n] \ {<<i, v>>}
    BY <1>1, Zenon
  <2>2. \A g : g \in Unenforced <=> \E n \in DOMAIN touched : g \in touched[n]
    BY Zenon DEF Unenforced
  <2>3. \A g : g \in Unenforced' <=> \E n \in DOMAIN touched : g \in touched[n] \ {<<i, v>>}
    BY <2>1, Zenon DEF Unenforced
  <2>4. \A g : g \in Unenforced' <=> g \in Unenforced /\ g # <<i, v>>
    BY <2>2, <2>3, Zenon
  <2>5. <<i, v>> \in Unenforced
    BY <1>1, <2>2, Zenon
  <2> HIDE DEF Unenforced
  <2> QED BY <2>4, <2>5, Zenon
<1>4. touched' \in Seq(SUBSET Groups)
  <2> DEFINE left == [n \in DOMAIN touched |-> touched[n] \ {<<i, v>>}]
  <2>1. DOMAIN touched = 1 .. Len(touched) /\ Len(touched) \in Nat /\ \A n \in 1 .. Len(touched) : touched[n] \in SUBSET Groups
    BY <1>2
  <2>2. \A n \in 1 .. Len(touched) : touched[n] \ {<<i, v>>} \in SUBSET Groups
    BY <2>1, Zenon
  <2>3. left \in [1 .. Len(touched) -> SUBSET Groups]
    BY <2>1, <2>2, Zenon
  <2>4. left \in Seq(SUBSET Groups)
    <3> HIDE DEF left
    <3> QED BY <2>1, <2>3
  <2> QED BY <1>1, <2>4, Zenon
<1>5. TypeOK'
  BY <1>1, <1>4, Zenon DEF SecInv, SecType, CapInv, TypeOK
<1>6. CallInv'
  <2>1. DOMAIN todo' = {}
    BY <1>1, <1>2
  <2> QED BY <1>1, <1>2, <2>1, Zenon DEF CallInv
<1>7. ASSUME NEW j \in Indexes, NEW w \in Vals PROVE Group(j, w)' = Group(j, w)
  BY <1>1, Zenon DEF Group
<1>8. cap[i] > 0 => Cardinality(Group(i, v) \ Victims(i, v)) <= cap[i]
  <2> SUFFICES ASSUME cap[i] > 0 PROVE Cardinality(Group(i, v) \ Victims(i, v)) <= cap[i]
    OBVIOUS
  <2> DEFINE G == Group(i, v)
  <2>1. G \in SUBSET Keys /\ cap[i] \in Nat
    BY <1>2 DEF Group, Caps
  <2>2. G \ Victims(i, v) = {k \in G : ~(Rank(G, k) <= Cardinality(G) - cap[i])}
    BY Zenon DEF Victims
  <2> QED BY <2>1, <2>2, KeptCount, Zenon
<1>9. ASSUME NEW j \in Indexes, NEW w \in Vals PROVE GroupInv(j, w)'
  <2>1. CASE j = i /\ w = v
    <3>1. cap[i] = 0 \/ cap[i] > 0
      BY <1>2 DEF Caps
    <3> QED BY <1>1, <1>7, <1>8, <2>1, <3>1, Zenon DEF GroupInv
  <2>2. CASE ~(j = i /\ w = v)
    <3>1. <<j, w>> # <<i, v>>
      BY <2>2
    <3>2. GroupInv(j, w)
      BY <1>1, Zenon DEF CapInv
    <3>3. CASE <<j, w>> \in lax \cup Unenforced
      BY <1>1, <1>3, <3>1, <3>3, Zenon DEF GroupInv
    <3>4. CASE cap[j] = 0
      BY <1>1, <3>4, Zenon DEF GroupInv
    <3>5. CASE Cardinality(Group(j, w) \ victims) <= cap[j]
      <4> DEFINE S == Group(j, w)
                 T == Group(j, w) \ Victims(i, v)
      <4>1. S \in SUBSET Keys /\ T \in SUBSET S /\ Group(j, w) \ victims = S
        BY <1>1, Zenon DEF Group
      <4>2. Cardinality(T) <= Cardinality(S) /\ Cardinality(T) \in Nat /\ Cardinality(S) \in Nat
        BY <4>1, FewerKeys, Zenon
      <4>3. Cardinality(S) <= cap[j] /\ cap[j] \in Nat
        <5>1. cap[j] \in Nat
          BY <1>2 DEF Caps
        <5> QED BY <3>5, <4>1, <5>1, Zenon
      <4>4. Cardinality(T) <= cap[j]
        <5> HIDE DEF S, T
        <5> QED BY <4>2, <4>3
      <4> QED BY <1>1, <1>7, <4>4, Zenon DEF GroupInv
    <3> QED BY <3>2, <3>3, <3>4, <3>5, Zenon DEF GroupInv
  <2> QED BY <2>1, <2>2
<1>10. ASSUME NEW k \in wrote
       PROVE  k \notin Victims(i, v) /\ \A j \in Indexes, w \in Vals : RoomAbove(j, w, k)'
  <2>1. RoomAbove(i, v, k) /\ k \in Keys
    BY <1>2, Zenon DEF WroteInv
  <2>2. CASE cap[i] > 0
    <3>1. Cardinality(Above(Group(i, v), k)) < cap[i]
      BY <1>3, <2>1, <2>2, Zenon DEF RoomAbove
    <3> QED BY <1>1, <1>2, <1>3, <1>7, <2>1, <2>2, <3>1, RoomSpares, Zenon DEF WroteInv, RoomAbove
  <2>3. CASE ~(cap[i] > 0)
    BY <1>1, <1>2, <1>3, <1>7, <2>3, Zenon DEF Victims, WroteInv, RoomAbove
  <2> QED BY <2>2, <2>3
<1>11. CapInv'
  BY <1>5, <1>6, <1>9, Zenon DEF CapInv
<1>12. WroteInv'
  BY <1>1, <1>10, Zenon DEF WroteInv
<1> QED BY <1>11, <1>12

LEMMA EvictCaps ==
    ASSUME SecInv, SecInv', CapInv, WroteInv, Evict
    PROVE  CapInv' /\ WroteInv'
<1>1. PICK k \in victims : DeleteLocked(k) /\ victims' = victims \ {k}
  BY Zenon DEF Evict
<1>2. phase = "enforce" /\ UNCHANGED <<cap, phase, todo, touched, lax, wrote>>
  BY Zenon DEF Evict
<1>3. k \in Keys /\ live' = live \ {k} /\ todo = <<>>
  BY <1>1, <1>2, Zenon DEF SecInv, SecType, DeleteLocked, CapInv, CallInv
<1>4. Unenforced' = Unenforced
  BY <1>2, Zenon DEF Unenforced
<1>5. TypeOK'
  BY <1>2, Zenon DEF SecInv, SecType, CapInv, TypeOK
<1>6. CallInv'
  <2>1. DOMAIN todo' = {}
    BY <1>2, <1>3
  <2> QED BY <1>2, <1>3, <2>1, Zenon DEF CallInv
<1>7. \A i \in Indexes, v \in Vals : Group(i, v)' = Group(i, v) \ {k}
  BY <1>1, <1>2, <1>3, GroupsDeleted, Zenon
<1>8. CapInv' /\ \A w \in wrote, i \in Indexes, v \in Vals : RoomAbove(i, v, w)'
  <2>1. \A i \in Indexes, v \in Vals : /\ Group(i, v)' \subseteq Group(i, v)
                                       /\ Group(i, v)' \ victims' \subseteq Group(i, v) \ victims
    BY <1>1, <1>7, Zenon
  <2> QED BY <1>2, <1>4, <1>5, <1>6, <2>1, SmallerGroups, Zenon
<1>9. WroteInv'
  BY <1>1, <1>2, <1>3, <1>8, Zenon DEF WroteInv
<1> QED BY <1>8, <1>9

LEMMA FinishCaps ==
    ASSUME SecInv, SecInv', CapInv, WroteInv, Finish
    PROVE  CapInv' /\ WroteInv'
<1>1. /\ phase = "enforce" /\ victims = {} /\ Unenforced = {} /\ phase' = "idle" /\ touched' = <<>>
      /\ UNCHANGED <<live, ix, sec, cap, todo, victims, lax, wrote>>
  BY Zenon DEF Finish
<1>2. todo = <<>>
  BY <1>1, Zenon DEF CapInv, CallInv
<1>3. Unenforced' = {}
  BY <1>1 DEF Unenforced
<1>4. TypeOK'
  <2>1. touched' \in Seq(SUBSET Groups)
    BY <1>1
  <2> QED BY <1>1, <2>1, Zenon DEF CapInv, TypeOK
<1>5. CallInv'
  <2>1. DOMAIN todo' = {}
    BY <1>1, <1>2
  <2> QED BY <1>1, <1>2, <2>1, Zenon DEF CallInv
<1>6. CapInv' /\ \A w \in wrote, i \in Indexes, v \in Vals : RoomAbove(i, v, w)'
  <2>1. \A i \in Indexes, v \in Vals : Group(i, v)' = Group(i, v)
    BY <1>1, Zenon DEF Group
  <2> QED BY <1>1, <1>3, <1>4, <1>5, <2>1, SmallerGroups, Zenon
<1>7. WroteInv'
  BY <1>1, <1>6, Zenon DEF WroteInv
<1> QED BY <1>6, <1>7

(* A failed append: whatever is over its cap is so in lax.                 *)
LEMMA FailCaps ==
    ASSUME SecInv, SecInv', CapInv, WroteInv, WriteFails
    PROVE  CapInv' /\ WroteInv'
<1>1. /\ phase' = "idle" /\ todo' = <<>> /\ touched' = <<>> /\ victims' = {} /\ wrote' = {}
      /\ lax' = lax \cup {g \in Groups : OverCap(g[1], g[2])}
      /\ UNCHANGED <<live, ix, sec, cap>>
  BY Zenon DEF WriteFails
<1>2. TypeOK'
  <2>1. touched' \in Seq(SUBSET Groups)
    BY <1>1
  <2>2. lax' \subseteq Groups /\ wrote' \subseteq Keys
    BY <1>1, Zenon DEF CapInv, TypeOK
  <2> QED BY <1>1, <2>1, <2>2, Zenon DEF SecInv, SecType, CapInv, TypeOK
<1>3. CallInv'
  <2>1. DOMAIN todo' = {}
    BY <1>1
  <2> QED BY <1>1, <2>1, Zenon DEF CallInv
<1>4. ASSUME NEW i \in Indexes, NEW v \in Vals PROVE GroupInv(i, v)'
  <2>1. Group(i, v)' \ victims' = Group(i, v)
    BY <1>1, Zenon DEF Group
  <2>2. cap[i] \in Nat /\ Cardinality(Group(i, v)) \in Nat
    <3>1. Group(i, v) \in SUBSET Keys
      BY Zenon DEF Group
    <3>2. cap[i] \in Nat
      BY DEF CapInv, TypeOK, Caps
    <3> QED BY <3>1, <3>2, KeySet, Zenon
  <2>3. CASE OverCap(i, v)
    <3>1. <<i, v>> \in lax'
      BY <1>1, <2>3 DEF Groups
    <3> QED BY <3>1, Zenon DEF GroupInv
  <2>4. CASE ~OverCap(i, v)
    <3>1. cap[i] = 0 \/ Cardinality(Group(i, v)) <= cap[i]
      BY <2>2, <2>4 DEF OverCap
    <3> QED BY <1>1, <2>1, <3>1, Zenon DEF GroupInv
  <2> QED BY <2>3, <2>4
<1>5. CapInv' /\ WroteInv'
  BY <1>1, <1>2, <1>3, <1>4, Zenon DEF CapInv, WroteInv
<1> QED BY <1>5

(* Deletes and compaction, between writes.                                 *)
LEMMA IdleCaps ==
    ASSUME SecInv, SecInv', CapInv, WroteInv, phase = "idle",
           UNCHANGED <<cap, phase, todo, touched, victims, lax>>,
           wrote' = {} \/ UNCHANGED <<wrote, live>>,
           \A i \in Indexes, v \in Vals : Group(i, v)' \subseteq Group(i, v)
    PROVE  CapInv' /\ WroteInv'
<1>1. todo = <<>> /\ touched = <<>> /\ victims = {}
  BY Zenon DEF CapInv, CallInv
<1>2. Unenforced' = Unenforced
  BY Zenon DEF Unenforced
<1>3. TypeOK'
  BY Zenon DEF SecInv, SecType, CapInv, TypeOK
<1>4. CallInv'
  <2>1. DOMAIN todo' = {}
    BY <1>1
  <2> QED BY <1>1, <2>1, Zenon DEF CallInv
<1>5. CapInv' /\ \A w \in wrote, i \in Indexes, v \in Vals : RoomAbove(i, v, w)'
  BY <1>1, <1>2, <1>3, <1>4, SmallerGroups, Zenon
<1>6. WroteInv'
  BY <1>5, Zenon DEF WroteInv
<1> QED BY <1>5, <1>6

LEMMA CrashCaps ==
    ASSUME SecInv, SecInv', CapInv, WroteInv, Crash
    PROVE  CapInv' /\ WroteInv'
<1>1. /\ phase' = "down" /\ todo' = <<>> /\ touched' = <<>> /\ victims' = {} /\ wrote' = {}
      /\ UNCHANGED <<cap, lax>>
  BY Zenon DEF Crash
<1>2. touched' \in Seq(SUBSET Groups) /\ DOMAIN todo' = {}
  BY <1>1
<1> QED BY <1>1, <1>2, Zenon DEF SecInv, SecType, CapInv, TypeOK, CallInv, WroteInv

LEMMA OpenCaps ==
    ASSUME SecInv, SecInv', CapInv, WroteInv, NEW c \in Caps, Open(c)
    PROVE  CapInv' /\ WroteInv'
<1>1. /\ phase = "down" /\ phase' = "idle" /\ cap' = c /\ sec' = RebuildSec
      /\ lax' = {g \in Groups : /\ c[g[1]] > 0
                                /\ Cardinality({k \in live : ix[k][g[1]] = g[2]}) > c[g[1]]}
      /\ UNCHANGED <<live, ix, todo, touched, victims, wrote>>
  BY Zenon DEF Open
<1>2. todo = <<>> /\ touched = <<>> /\ victims = {} /\ wrote = {} /\ live \subseteq Keys
  BY <1>1, Zenon DEF CapInv, CallInv, WroteInv, SecInv, SecType
<1>3. TypeOK'
  BY <1>1, Zenon DEF SecInv, SecType, CapInv, TypeOK
<1>4. CallInv'
  <2>1. DOMAIN todo' = {}
    BY <1>1, <1>2
  <2> QED BY <1>1, <1>2, <2>1, Zenon DEF CallInv
<1>5. ASSUME NEW i \in Indexes, NEW v \in Vals PROVE GroupInv(i, v)'
  <2> DEFINE G == {k \in live : ix[k][i] = v}
  <2>1. Group(i, v)' \ victims' = G
    BY <1>1, <1>2, GroupsRebuilt, Zenon
  <2>2. c[i] \in Nat /\ Cardinality(G) \in Nat
    <3>1. G \in SUBSET Keys
      BY <1>2, Zenon
    <3>2. c[i] \in Nat
      BY DEF Caps
    <3> QED BY <3>1, <3>2, KeySet, Zenon
  <2>3. CASE c[i] > 0 /\ Cardinality(G) > c[i]
    <3>1. <<i, v>> \in lax'
      <4> DEFINE g == <<i, v>>
      <4>1. g \in Groups /\ g[1] = i /\ g[2] = v
        BY DEF Groups
      <4> HIDE DEF g
      <4>2. g \in lax'
        BY <1>1, <2>3, <4>1, Zenon
      <4> QED BY <4>2, Zenon DEF g
    <3> QED BY <3>1, Zenon DEF GroupInv
  <2>4. CASE ~(c[i] > 0 /\ Cardinality(G) > c[i])
    <3>1. c[i] = 0 \/ Cardinality(G) <= c[i]
      <4> HIDE DEF G
      <4> QED BY <2>2, <2>4
    <3> QED BY <1>1, <2>1, <3>1, Zenon DEF GroupInv
  <2> QED BY <2>3, <2>4, Zenon
<1> QED BY <1>1, <1>2, <1>3, <1>4, <1>5, Zenon DEF CapInv, WroteInv

LEMMA CapInit == Init => CapInv /\ WroteInv
<1> SUFFICES ASSUME Init PROVE CapInv /\ WroteInv
  OBVIOUS
<1>1. /\ live = {} /\ ix = [k \in Keys |-> NoIx] /\ sec = [i \in Indexes |-> {}] /\ cap \in Caps
      /\ phase = "idle" /\ todo = <<>> /\ touched = <<>> /\ victims = {} /\ lax = {} /\ wrote = {}
  BY Zenon DEF Init
<1>2. todo \in Seq(Items) /\ touched \in Seq(SUBSET Groups) /\ DOMAIN todo = {}
  BY <1>1
<1>3. SecType
  BY SecInit, Zenon DEF SecInv
<1>4. TypeOK /\ CallInv /\ WroteInv
  BY <1>1, <1>2, <1>3, Zenon DEF SecType, TypeOK, CallInv, WroteInv
<1>5. ASSUME NEW i \in Indexes, NEW v \in Vals PROVE GroupInv(i, v)
  <2>1. Group(i, v) \ victims = {}
    BY <1>1, Zenon DEF Group
  <2>2. Cardinality({}) = 0 /\ cap[i] \in Nat
    BY <1>1, FS_EmptySet DEF Caps
  <2>3. Cardinality({}) <= cap[i]
    BY <2>2
  <2> QED BY <2>1, <2>3, Zenon DEF GroupInv
<1> QED BY <1>4, <1>5, Zenon DEF CapInv

LEMMA CapStep ==
    ASSUME SecInv, CapInv, WroteInv, [Next]_vars
    PROVE  CapInv' /\ WroteInv'
<1>1. SecInv'
  BY SecStep, Zenon
<1>2. CASE \E item \in Items : Put(item)
  BY <1>2, PutRoom, Zenon
<1>3. CASE \E items \in Batches : PutBatch(items)
  <2>1. PICK items \in Batches : PutBatch(items)
    BY <1>3, Zenon
  <2>2. PICK n \in 2 .. MaxBatch : items \in [1 .. n -> Items]
    BY Zenon DEF Batches
  <2>3. n \in Nat /\ n # 0
    BY SecAssumption
  <2>4. items \in Seq(Items) /\ Len(items) = n
    BY <2>2, <2>3
  <2>5. items # <<>>
    BY <2>3, <2>4
  <2>6. Begin(items) /\ wrote' = {}
    BY <2>1, Zenon DEF PutBatch
  <2>7. CapInv'
    BY <2>4, <2>5, <2>6, BeginCaps, Zenon
  <2> QED BY <2>6, <2>7, Zenon DEF WroteInv
<1>4. CASE AppendRecord
  BY <1>1, <1>4, AppendCaps, Zenon
<1>5. CASE \E i \in Indexes, v \in Vals : EnforceGroup(i, v)
  BY <1>1, <1>5, EnforceCaps, Zenon
<1>6. CASE Evict \/ Finish \/ WriteFails \/ Crash
  BY <1>1, <1>6, EvictCaps, FinishCaps, FailCaps, CrashCaps, Zenon
<1>7. CASE \E k \in Keys : Delete(k) \/ RemoveByPkLess(k) \/ RemoveByPkGreater(k)
  <2>1. PICK k \in Keys : Delete(k) \/ RemoveByPkLess(k) \/ RemoveByPkGreater(k)
    BY <1>7, Zenon
  <2>2. CASE Delete(k)
    <3>1. /\ phase = "idle" /\ DeleteLocked(k) /\ wrote' = {}
          /\ UNCHANGED <<cap, phase, todo, touched, victims, lax>>
      BY <2>2, Zenon DEF Delete
    <3>2. \A i \in Indexes, v \in Vals : Group(i, v)' = Group(i, v) \ {k}
      BY <3>1, GroupsDeleted, Zenon
    <3> QED BY <1>1, <3>1, <3>2, IdleCaps, Zenon
  <2>3. ASSUME NEW D, RemovePkEntries(D) PROVE CapInv' /\ WroteInv'
    <3>1. /\ phase = "idle" /\ wrote' = {}
          /\ UNCHANGED <<cap, phase, todo, touched, victims, lax>>
          /\ sec' = [i \in Indexes |-> {e \in sec[i] : e[2] \notin D}]
      BY <2>3, Zenon DEF RemovePkEntries, RemovePKs
    <3>2. \A i \in Indexes, v \in Vals : Group(i, v)' = Group(i, v) \ D
      BY <3>1, GroupsRemoved, Zenon
    <3> QED BY <1>1, <3>1, <3>2, IdleCaps, Zenon
  <2> QED BY <2>1, <2>2, <2>3, Zenon DEF RemoveByPkLess, RemoveByPkGreater
<1>8. CASE Compact
  <2>1. /\ phase = "idle" /\ sec' = RebuildSec
        /\ UNCHANGED <<live, ix, cap, phase, todo, touched, victims, lax, wrote>>
    BY <1>8, Zenon DEF Compact
  <2>2. live \subseteq Keys
    BY Zenon DEF SecInv, SecType
  <2>3. ASSUME NEW i \in Indexes, NEW v \in Vals PROVE Group(i, v)' \subseteq Group(i, v)
    BY <2>1, <2>2, GroupsRebuilt, GroupIs, Zenon
  <2> QED BY <1>1, <2>1, <2>3, IdleCaps, Zenon
<1>9. CASE \E c \in Caps : Open(c)
  BY <1>1, <1>9, OpenCaps, Zenon
<1>10. CASE UNCHANGED vars
  <2>1. /\ UNCHANGED <<live, ix, sec, cap, phase, todo, touched, victims, lax, wrote>>
        /\ Unenforced' = Unenforced
    BY <1>10, Zenon DEF vars, Unenforced
  <2>2. \A i \in Indexes, v \in Vals : Group(i, v)' = Group(i, v)
    BY <2>1, Zenon DEF Group
  <2>3. TypeOK' /\ CallInv'
    BY <2>1, Zenon DEF CapInv, TypeOK, CallInv, TouchedBy
  <2> QED BY <2>1, <2>2, <2>3, Zenon DEF CapInv, GroupInv, WroteInv, RoomAbove
<1> QED BY <1>2, <1>3, <1>4, <1>5, <1>6, <1>7, <1>8, <1>9, <1>10, Zenon DEF Next

(* For every set of keys, indexes and values and every cap: a write that   *)
(* has returned leaves no group over its cap, but for those that a failed  *)
(* write, a crash or a lowered cap left so (enforceMaxPerValue, PutBatch). *)
THEOREM CapsCorrect == Spec => []CapKept
<1>1. CapInv => CapKept
  <2> SUFFICES ASSUME CapInv, phase = "idle", NEW g \in Groups, OverCap(g[1], g[2])
               PROVE  g \in lax
    BY Zenon DEF CapKept
  <2>1. g[1] \in Indexes /\ g[2] \in Vals /\ g = <<g[1], g[2]>>
    BY DEF Groups
  <2>2. PICK i \in Indexes, v \in Vals : i = g[1] /\ v = g[2]
    BY <2>1, Zenon
  <2>3. touched = <<>> /\ victims = {} /\ GroupInv(i, v)
    BY <2>2, Zenon DEF CapInv, CallInv
  <2>4. Unenforced = {}
    BY <2>3 DEF Unenforced
  <2>5. cap[i] > 0 /\ Cardinality(Group(i, v)) > cap[i]
    BY <2>2, Zenon DEF OverCap
  <2>6. cap[i] \in Nat /\ Cardinality(Group(i, v)) \in Nat /\ Group(i, v) \ victims = Group(i, v)
    <3>1. Group(i, v) \in SUBSET Keys
      BY Zenon DEF Group
    <3>2. cap[i] \in Nat
      BY DEF CapInv, TypeOK, Caps
    <3> QED BY <2>3, <3>1, <3>2, KeySet, Zenon
  <2>7. cap[i] # 0 /\ ~(Cardinality(Group(i, v)) <= cap[i])
    BY <2>5, <2>6
  <2>8. <<i, v>> \in lax
    BY <2>3, <2>4, <2>6, <2>7, Zenon DEF GroupInv
  <2> QED BY <2>1, <2>2, <2>8, Zenon
<1>2. SecInv /\ CapInv /\ WroteInv /\ [Next]_vars => CapInv' /\ WroteInv'
  BY CapStep, Zenon
<1> QED BY SecInit, SecStep, CapInit, <1>1, <1>2, PTL DEF Spec

(* For every set of keys, indexes and values and every cap: enforcing the  *)
(* caps of all the indexes of a record never deletes the record whose Put  *)
(* was let through, unless it wrote to a group already over its cap        *)
(* (checkSelfEviction).                                                    *)
THEOREM PutCorrect == Spec => []PutSurvives
<1>1. WroteInv => PutSurvives
  BY Zenon DEF WroteInv, PutSurvives
<1>2. SecInv /\ CapInv /\ WroteInv /\ [Next]_vars => CapInv' /\ WroteInv'
  BY CapStep, Zenon
<1> QED BY SecInit, SecStep, CapInit, <1>1, <1>2, PTL DEF Spec

(* For every value of the constants, index values, trees, caps and the     *)
(* progress of a call keep their types: evictions, failed appends, crashes *)
(* and reopening included (write, PutBatch, enforceMaxPerValue).           *)
THEOREM SecTypeCorrect == Spec => []TypeOK
<1>1. CapInv => TypeOK
  BY Zenon DEF CapInv
<1>2. SecInv /\ CapInv /\ WroteInv /\ [Next]_vars => CapInv' /\ WroteInv'
  BY CapStep, Zenon
<1> QED BY SecInit, SecStep, CapInit, <1>1, <1>2, PTL DEF Spec

=============================================================================
