------------------------------ MODULE SecIndex ------------------------------
(***************************************************************************)
(* The secondary indexes (secindex.go, batch.go, rangedel.go): an index is *)
(* a tree of <<value, primary key>> pairs, kept beside the primary entries,*)
(* which carry the index values of their record.  A capped index keeps at  *)
(* most MaxPerValue records per value and deletes the lowest keys beyond.  *)
(*                                                                         *)
(* A call runs under the write lock, so no reader sees it half done, but a *)
(* crash or an I/O error may come between any two of its log appends.  The *)
(* primary entries here are also what replaying the log gives (Store): each*)
(* step that changes them appends exactly one record for the key.          *)
(***************************************************************************)
EXTENDS Integers, Sequences, FiniteSets

CONSTANTS Keys,      \* primary keys, as their ranks in the key order
          Indexes,   \* the declared index names
          Vals,      \* index values
          NoVal,     \* a record without a value for an index
          MaxCap,    \* bound: the largest MaxPerValue
          MaxBatch   \* bound: the longest batch

ASSUME SecAssumption ==
    /\ Keys \subseteq Nat /\ IsFiniteSet(Keys)
    /\ NoVal \notin Vals
    /\ MaxCap \in Nat /\ MaxBatch \in Nat

VARIABLES live,      \* the keys of the primary index
          ix,        \* the index values on a primary entry
          sec,       \* the index trees
          cap,       \* MaxPerValue of each index, 0 for none
          phase,     \* where the call holding the write lock is
          todo,      \* the records it has still to append
          touched,   \* the groups it has still to enforce, item by item
          victims,   \* the keys of one group it is evicting
          lax,       \* groups that may be over their cap
          wrote      \* the key that the last completed Put must have left

vars == <<live, ix, sec, cap, phase, todo, touched, victims, lax, wrote>>

IxVals == [Indexes -> Vals \cup {NoVal}]
NoIx == [i \in Indexes |-> NoVal]
Items == [key: Keys, ix: IxVals]
Groups == Indexes \X Vals
Caps == [Indexes -> 0 .. MaxCap]

TypeOK ==
    /\ live \subseteq Keys
    /\ ix \in [Keys -> IxVals]
    /\ sec \in [Indexes -> SUBSET (Vals \X Keys)]
    /\ cap \in Caps
    /\ phase \in {"idle", "append", "enforce", "down"}
    /\ todo \in Seq(Items)
    /\ touched \in Seq(SUBSET Groups)
    /\ victims \subseteq Keys
    /\ lax \subseteq Groups
    /\ wrote \subseteq Keys

-----------------------------------------------------------------------------
(* Reading a tree.                                                         *)
Group(i, v) == {k \in Keys : <<v, k>> \in sec[i]}
Rank(S, k) == Cardinality({x \in S : x <= k})
OverCap(i, v) == cap[i] > 0 /\ Cardinality(Group(i, v)) > cap[i]

(* Mutant: the keys beyond the cap are counted from the top.               *)
VictimsHighest(i, v) ==
    {k \in Group(i, v) : cap[i] > 0 /\ Rank(Group(i, v), k) > cap[i]}

(* Mutant: one record more than the cap is kept.                           *)
VictimsOneFewer(i, v) ==
    {k \in Group(i, v) :
        cap[i] > 0 /\ Rank(Group(i, v), k) < Cardinality(Group(i, v)) - cap[i]}

Victims(i, v) ==
    {k \in Group(i, v) :
        cap[i] > 0 /\ Rank(Group(i, v), k) <= Cardinality(Group(i, v)) - cap[i]}

(* Mutant: the boundary member itself is taken to be safe.                 *)
WouldSelfEvictOffByOne(i, v, k) ==
    LET G == Group(i, v)
        excess == Cardinality(G) + 1 - cap[i]
    IN /\ cap[i] > 0 /\ excess > 1 /\ k \notin G
       /\ \E m \in G : Rank(G, m) = excess - 1 /\ k <= m

(* A new key would be evicted by its own write when it sorts at or below   *)
(* the excess-th smallest member.                                          *)
WouldSelfEvict(i, v, k) ==
    LET G == Group(i, v)
        excess == Cardinality(G) + 1 - cap[i]
    IN /\ cap[i] > 0 /\ excess > 0 /\ k \notin G
       /\ \E m \in G : Rank(G, m) = excess /\ k <= m

CheckSelfEviction(item) ==
    \A i \in Indexes : item.ix[i] # NoVal => ~WouldSelfEvict(i, item.ix[i], item.key)

-----------------------------------------------------------------------------
(* Updating the trees, from the values on the key's primary entry.         *)
RetractSec(k) == [i \in Indexes |-> sec[i] \ {<<ix[k][i], k>>}]

InsertSec(s, k, x) ==
    [i \in Indexes |-> IF x[i] = NoVal THEN s[i] ELSE s[i] \cup {<<x[i], k>>}]

(* Mutant: an overwrite only inserts.                                      *)
RefreshSecInsertOnly(k, x) == InsertSec(sec, k, x)

RefreshSec(k, x) == InsertSec(RetractSec(k), k, x)
RemovePKs(D) == [i \in Indexes |-> {e \in sec[i] : e[2] \notin D}]
RebuildSec ==
    [i \in Indexes |-> {e \in Vals \X Keys : e[2] \in live /\ ix[e[2]][i] = e[1]}]

DeleteLocked(k) ==
    /\ sec' = RetractSec(k)
    /\ live' = live \ {k} /\ ix' = [ix EXCEPT ![k] = NoIx]

TouchedBy(item) == {g \in Groups : item.ix[g[1]] = g[2]}
Unenforced == UNION {touched[n] : n \in DOMAIN touched}

-----------------------------------------------------------------------------
Init ==
    /\ live = {} /\ ix = [k \in Keys |-> NoIx]
    /\ sec = [i \in Indexes |-> {}]
    /\ cap \in Caps
    /\ phase = "idle" /\ todo = <<>> /\ touched = <<>> /\ victims = {}
    /\ lax = {} /\ wrote = {}

(* Validation happens before anything is appended; a batch is validated    *)
(* against the state before it.                                            *)
Begin(items) ==
    /\ phase = "idle"
    /\ \A n \in DOMAIN items : CheckSelfEviction(items[n])
    /\ phase' = "append" /\ todo' = items
    /\ touched' = [n \in DOMAIN items |-> TouchedBy(items[n])]
    /\ UNCHANGED <<live, ix, sec, cap, victims, lax>>

Put(item) ==
    /\ Begin(<<item>>)
    /\ wrote' = IF TouchedBy(item) \cap lax = {} THEN {item.key} ELSE {}

PutBatch(items) == Begin(items) /\ wrote' = {}

AppendRecord ==
    LET item == Head(todo) IN
    /\ phase = "append"
    /\ live' = live \cup {item.key} /\ ix' = [ix EXCEPT ![item.key] = item.ix]
    /\ sec' = RefreshSec(item.key, item.ix)
    /\ todo' = Tail(todo)
    /\ phase' = IF Tail(todo) = <<>> THEN "enforce" ELSE "append"
    /\ UNCHANGED <<cap, touched, victims, lax, wrote>>

(* enforceMaxPerValue on one group: the groups of an item come in the order*)
(* of a map iteration, a group that was seen before is skipped.            *)
EnforceGroup(i, v) ==
    /\ phase = "enforce" /\ victims = {}
    /\ \E n \in DOMAIN touched :
        /\ <<i, v>> \in touched[n]
        /\ \A m \in 1 .. n - 1 : touched[m] = {}
    /\ victims' = Victims(i, v)
    /\ touched' = [n \in DOMAIN touched |-> touched[n] \ {<<i, v>>}]
    /\ lax' = lax \ {<<i, v>>}
    /\ UNCHANGED <<live, ix, sec, cap, phase, todo, wrote>>

Evict ==
    /\ phase = "enforce"
    /\ \E k \in victims :
        /\ \A x \in victims : k <= x
        /\ DeleteLocked(k)
        /\ victims' = victims \ {k}
    /\ UNCHANGED <<cap, phase, todo, touched, lax, wrote>>

Finish ==
    /\ phase = "enforce" /\ victims = {} /\ Unenforced = {}
    /\ phase' = "idle" /\ touched' = <<>>
    /\ UNCHANGED <<live, ix, sec, cap, todo, victims, lax, wrote>>

(* An append fails: the call returns an error and leaves what it has done, *)
(* the groups it did not enforce included.                                 *)
WriteFails ==
    /\ phase = "append" \/ (phase = "enforce" /\ victims # {})
    /\ phase' = "idle" /\ todo' = <<>> /\ touched' = <<>> /\ victims' = {}
    /\ lax' = lax \cup {g \in Groups : OverCap(g[1], g[2])}
    /\ wrote' = {}
    /\ UNCHANGED <<live, ix, sec, cap>>

Delete(k) ==
    /\ phase = "idle" /\ k \in live
    /\ DeleteLocked(k)
    /\ wrote' = {}
    /\ UNCHANGED <<cap, phase, todo, touched, victims, lax>>

RemovePkEntries(D) ==
    /\ phase = "idle" /\ D # {}
    /\ sec' = RemovePKs(D)
    /\ live' = live \ D /\ ix' = [k \in Keys |-> IF k \in D THEN NoIx ELSE ix[k]]
    /\ wrote' = {}
    /\ UNCHANGED <<cap, phase, todo, touched, victims, lax>>

RemoveByPkLess(c) == RemovePkEntries({k \in live : k < c})
RemoveByPkGreater(c) == RemovePkEntries({k \in live : k > c})

Compact ==
    /\ phase = "idle"
    /\ sec' = RebuildSec
    /\ UNCHANGED <<live, ix, cap, phase, todo, touched, victims, lax, wrote>>

(* The process stops, in the middle of a call or not.                      *)
Crash ==
    /\ phase # "down"
    /\ phase' = "down" /\ sec' = [i \in Indexes |-> {}]
    /\ todo' = <<>> /\ touched' = <<>> /\ victims' = {} /\ wrote' = {}
    /\ UNCHANGED <<live, ix, cap, lax>>

(* Boot replays the log, inserting index values and evicting nothing; the  *)
(* caps are those of this Open.                                            *)
Open(c) ==
    /\ phase = "down"
    /\ phase' = "idle" /\ cap' = c /\ sec' = RebuildSec
    /\ lax' = {g \in Groups :
                 /\ c[g[1]] > 0
                 /\ Cardinality({k \in live : ix[k][g[1]] = g[2]}) > c[g[1]]}
    /\ UNCHANGED <<live, ix, todo, touched, victims, wrote>>

Batches == UNION {[1 .. n -> Items] : n \in 2 .. MaxBatch}

Next ==
    \/ \E item \in Items : Put(item)
    \/ \E items \in Batches : PutBatch(items)
    \/ AppendRecord
    \/ \E i \in Indexes, v \in Vals : EnforceGroup(i, v)
    \/ Evict \/ Finish \/ WriteFails
    \/ \E k \in Keys : Delete(k) \/ RemoveByPkLess(k) \/ RemoveByPkGreater(k)
    \/ Compact \/ Crash
    \/ \E c \in Caps : Open(c)

Spec == Init /\ [][Next]_vars

-----------------------------------------------------------------------------
(* While the store is open, an index holds exactly the pairs the primary   *)
(* entries carry: no write, eviction, range delete, batch or reopening     *)
(* leaves a stale pair behind or loses one (refreshSec, retractSec,        *)
(* removePKs, rebuildSec).                                                 *)
SecMatchesPk ==
    phase # "down" =>
        \A i \in Indexes, v \in Vals, k \in Keys :
            <<v, k>> \in sec[i] <=> (k \in live /\ ix[k][i] = v)

(* Once a write has returned, no group exceeds its cap, except those that  *)
(* a failed or interrupted write or a lowered cap left over it and that no *)
(* write has touched since (enforceMaxPerValue, README "Enforcement        *)
(* happens on the write path only").                                       *)
CapKept ==
    phase = "idle" =>
        \A g \in Groups : OverCap(g[1], g[2]) => g \in lax

(* A Put that returned without an error has left its record: enforcing the *)
(* caps of its several indexes never deletes the key that was just written,*)
(* unless it wrote to a group already over its cap (checkSelfEviction,     *)
(* "Put would report success while Get finds nothing").                    *)
PutSurvives == phase = "idle" => wrote \subseteq live

(* A record that enforcement deletes is below every record of a group it   *)
(* shares with it that is to stay: caps drop the lowest keys first.        *)
EvictsLowest ==
    [][ victims' # victims /\ phase = "enforce" /\ victims' # {} =>
          \E i \in Indexes, v \in Vals :
              /\ victims' \subseteq Group(i, v)'
              /\ \A k \in victims', m \in Group(i, v)' \ victims' : k < m ]_vars

(* secindex.go on enforceMaxPerValue: "An overwrite of an existing key  *)
(* never grows a group ... so it cannot trigger eviction".  A write whose  *)
(* groups all hold its key already evicts nothing.                         *)
OverwriteEvictsNothing ==
    [][ phase = "append" /\ Len(todo) = 1 /\ Len(touched) = 1
          /\ (\A g \in Head(touched) : Head(todo).key \in Group(g[1], g[2]))
        => \A g \in Head(touched) : Victims(g[1], g[2])' = {} \/ phase' # "enforce" ]_vars

=============================================================================
