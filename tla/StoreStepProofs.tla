-------------------------- MODULE StoreStepProofs ---------------------------
(***************************************************************************)
(* The inductive invariant of Store, and what the steps do to it.          *)
(*                                                                         *)
(* First, what replaying a log computes, without recursion: the first n    *)
(* lines of a log say that key k has entry e, and an index agrees with a   *)
(* prefix of the log when the prefix says every one of its entries.  Then  *)
(* the invariant in these terms, and one lemma for each way of writing the *)
(* log and for each way of stopping, applied action by action.             *)
(* StoreProofs draws the conclusions.                                      *)
(***************************************************************************)
EXTENDS Store, TLAPS

Says(log, n, k, e) ==
    \/ \E i \in 1 .. n : LastAt(log, n, k, i) /\ e = EntryAt(log, i)
    \/ (\A i \in 1 .. n : log[i].key # k) /\ e = NoEntry

Agrees(idx, log, n) == \A k \in Keys : Says(log, n, k, idx[k])

NoTorn(log, n) == \A i \in 1 .. n : log[i].kind # "torn"

(* Two logs whose first n lines differ at most in their values.            *)
SameShape(log, log2, n) ==
    \A i \in 1 .. n : /\ log2[i].key = log[i].key
                      /\ log2[i].kind = log[i].kind
                      /\ log2[i].exp = log[i].exp

-----------------------------------------------------------------------------
(* At most one line is the last one about a key (the CHOOSE in Replay has  *)
(* one candidate).                                                         *)
LEMMA LastAtUnique ==
    ASSUME NEW log, NEW n \in Nat, NEW k, NEW i, NEW j,
           LastAt(log, n, k, i), LastAt(log, n, k, j)
    PROVE  i = j
<1>1. i \in 1 .. n /\ j \in 1 .. n
  BY Zenon DEF LastAt
<1>2. ~(i < j)
  <2>1. i < j => j \in i + 1 .. n
    BY <1>1
  <2> QED BY <2>1, Zenon DEF LastAt
<1>3. ~(j < i)
  <2>1. j < i => i \in j + 1 .. n
    BY <1>1
  <2> QED BY <2>1, Zenon DEF LastAt
<1> QED BY <1>1, <1>2, <1>3

(* A log says at most one entry for a key.                                 *)
LEMMA SaysUnique ==
    ASSUME NEW log, NEW n \in Nat, NEW k, NEW e, NEW f,
           Says(log, n, k, e), Says(log, n, k, f)
    PROVE  e = f
<1>1. CASE \E i \in 1 .. n : LastAt(log, n, k, i) /\ e = EntryAt(log, i)
  <2>1. PICK i \in 1 .. n : LastAt(log, n, k, i) /\ e = EntryAt(log, i)
    BY <1>1, Zenon
  <2>2. PICK j \in 1 .. n : LastAt(log, n, k, j) /\ f = EntryAt(log, j)
    BY <2>1, Zenon DEF Says, LastAt
  <2>3. i = j
    BY <2>1, <2>2, LastAtUnique, Zenon
  <2> QED BY <2>1, <2>2, <2>3, Zenon
<1>2. CASE (\A i \in 1 .. n : log[i].key # k) /\ e = NoEntry
  BY <1>2, Zenon DEF Says, LastAt
<1> QED BY <1>1, <1>2, Zenon DEF Says

(* What a prefix says depends on keys, kinds and expiries only: an in-place*)
(* counter patch, and anything written after the prefix, leave it alone.   *)
LEMMA SaysSameShape ==
    ASSUME NEW log, NEW log2, NEW n \in Nat, NEW k, NEW e,
           SameShape(log, log2, n), Says(log, n, k, e)
    PROVE  Says(log2, n, k, e)
<1>1. CASE \E i \in 1 .. n : LastAt(log, n, k, i) /\ e = EntryAt(log, i)
  <2>1. PICK i \in 1 .. n : LastAt(log, n, k, i) /\ e = EntryAt(log, i)
    BY <1>1, Zenon
  <2>2. \A j \in i + 1 .. n : j \in 1 .. n
    OBVIOUS
  <2>3. LastAt(log2, n, k, i)
    BY <2>1, <2>2, Zenon DEF LastAt, SameShape
  <2>4. EntryAt(log2, i) = EntryAt(log, i)
    BY Zenon DEF EntryAt, SameShape
  <2> QED BY <2>1, <2>3, <2>4, Zenon DEF Says
<1>2. CASE (\A i \in 1 .. n : log[i].key # k) /\ e = NoEntry
  BY <1>2, Zenon DEF Says, SameShape
<1> QED BY <1>1, <1>2, Zenon DEF Says

(* Appending a line about another key changes nothing for k ...            *)
LEMMA SaysAppendOther ==
    ASSUME NEW S, NEW log \in Seq(S), NEW line \in S, NEW k, NEW e,
           line.key # k, Says(log, Len(log), k, e)
    PROVE  Says(Append(log, line), Len(log) + 1, k, e)
<1> DEFINE new == Append(log, line)
           n == Len(log)
<1>1. n \in Nat /\ \A i \in 1 .. n : new[i] = log[i]
  OBVIOUS
<1>2. new[n + 1] = line
  OBVIOUS
<1>3. CASE \E i \in 1 .. n : LastAt(log, n, k, i) /\ e = EntryAt(log, i)
  <2>1. PICK i \in 1 .. n : LastAt(log, n, k, i) /\ e = EntryAt(log, i)
    BY <1>3, Zenon
  <2>2. ASSUME NEW j \in i + 1 .. n + 1 PROVE new[j].key # k
    <3>1. CASE j = n + 1
      BY <3>1, <1>2, Zenon
    <3>2. CASE j # n + 1
      <4>1. j \in i + 1 .. n /\ j \in 1 .. n
        BY <3>2, <1>1
      <4> QED BY <4>1, <2>1, <1>1, Zenon DEF LastAt
    <3> QED BY <3>1, <3>2, Zenon
  <2>3. LastAt(new, n + 1, k, i)
    BY <1>1, <2>1, <2>2 DEF LastAt
  <2>4. EntryAt(new, i) = EntryAt(log, i)
    BY <1>1, Zenon DEF EntryAt
  <2>5. i \in 1 .. n + 1
    BY <1>1
  <2> HIDE DEF new
  <2>6. Says(new, n + 1, k, e)
    BY <2>1, <2>3, <2>4, <2>5, Zenon DEF Says
  <2> QED BY <2>6, Zenon DEF new
<1>4. CASE (\A i \in 1 .. n : log[i].key # k) /\ e = NoEntry
  <2>1. ASSUME NEW i \in 1 .. n + 1 PROVE new[i].key # k
    <3>1. CASE i = n + 1
      BY <3>1, <1>2, Zenon
    <3>2. CASE i # n + 1
      BY <3>2, <1>1, <1>4
    <3> QED BY <3>1, <3>2, Zenon
  <2> QED BY <2>1, <1>4, Zenon DEF Says
<1> QED BY <1>3, <1>4, Zenon DEF Says

(* ... and a line about k decides the entry of k.                          *)
LEMMA SaysAppendSame ==
    ASSUME NEW S, NEW log \in Seq(S), NEW line \in S, NEW k,
           line.key = k
    PROVE  Says(Append(log, line), Len(log) + 1, k,
                EntryAt(Append(log, line), Len(log) + 1))
<1> DEFINE new == Append(log, line)
           n == Len(log)
<1>1. n \in Nat /\ new[n + 1] = line
  OBVIOUS
<1>2. LastAt(new, n + 1, k, n + 1)
  BY <1>1 DEF LastAt
<1>3. n + 1 \in 1 .. n + 1
  BY <1>1
<1> HIDE DEF new
<1>4. Says(new, n + 1, k, EntryAt(new, n + 1))
  BY <1>2, <1>3, Zenon DEF Says
<1> QED BY <1>4, Zenon DEF new

-----------------------------------------------------------------------------
(* An index that agrees with the whole log is what a full scan computes... *)
LEMMA ReplayAgrees ==
    ASSUME NEW base, NEW idx \in Index, NEW log, NEW from \in Nat,
           Len(log) \in Nat, from <= Len(log),
           Agrees(base, log, from), Agrees(idx, log, Len(log))
    PROVE  Replay(base, log, from) = idx
<1> DEFINE n == Len(log)
           R == Replay(base, log, from)
<1>1. ASSUME NEW k \in Keys PROVE R[k] = idx[k]
  <2> DEFINE Here(i) == LastAt(log, n, k, i)
  <2>0. Says(log, n, k, idx[k]) /\ Says(log, from, k, base[k])
    BY Zenon DEF Agrees
  <2>1. CASE \E i \in from + 1 .. n : Here(i)
    <3> DEFINE c == CHOOSE i \in from + 1 .. n : Here(i)
    <3>1. c \in from + 1 .. n /\ Here(c)
      BY <2>1, Zenon
    <3>2. R[k] = EntryAt(log, c)
      BY <2>1, Zenon DEF Replay
    <3>3. c \in 1 .. n
      BY <3>1
    <3> HIDE DEF c
    <3>4. Says(log, n, k, EntryAt(log, c))
      BY <3>1, <3>3, Zenon DEF Says
    <3> QED BY <2>0, <3>2, <3>4, SaysUnique, Zenon
  <2>2. CASE ~\E i \in from + 1 .. n : Here(i)
    <3>1. R[k] = base[k]
      BY <2>2, Zenon DEF Replay
    <3>2. Says(log, n, k, base[k])
      <4>1. CASE \E i \in 1 .. n : Here(i)
        <5>1. PICK i \in 1 .. n : Here(i)
          BY <4>1, Zenon
        <5>2. i \in 1 .. from /\ from \in 1 .. n
          BY <5>1, <2>2
        <5>3. \A j \in i + 1 .. from : j \in i + 1 .. n
          BY <5>2
        <5>4. LastAt(log, from, k, i)
          BY <5>1, <5>2, <5>3, Zenon DEF LastAt
        <5>5. Says(log, from, k, EntryAt(log, i))
          BY <5>2, <5>4, Zenon DEF Says
        <5>6. base[k] = EntryAt(log, i)
          BY <5>5, <2>0, SaysUnique, Zenon
        <5> QED BY <5>1, <5>6, Zenon DEF Says
      <4>2. CASE ~\E i \in 1 .. n : Here(i)
        <5>1. \A i \in 1 .. n : log[i].key # k
          BY <4>2, <2>0, Zenon DEF Says
        <5>2. \A i \in 1 .. from : i \in 1 .. n
          OBVIOUS
        <5>3. base[k] = NoEntry
          BY <5>1, <5>2, <2>0, Zenon DEF Says, LastAt
        <5> QED BY <5>1, <5>3, Zenon DEF Says
      <4> QED BY <4>1, <4>2, Zenon
    <3> QED BY <2>0, <3>1, <3>2, SaysUnique, Zenon
  <2> QED BY <2>1, <2>2, Zenon
<1>2. R = [k \in Keys |-> R[k]] /\ idx = [k \in Keys |-> idx[k]]
  BY Zenon DEF Replay, Index
<1> HIDE DEF R
<1>3. R = idx
  BY <1>1, <1>2, Zenon
<1> QED BY <1>3, Zenon DEF R

LEMMA EmptyAgrees ==
    ASSUME NEW log
    PROVE  Agrees(EmptyIndex, log, 0)
BY DEF Agrees, Says, EmptyIndex

LEMMA FullScanAgrees ==
    ASSUME NEW idx \in Index, NEW log, Len(log) \in Nat,
           Agrees(idx, log, Len(log))
    PROVE  FullScan(log) = idx
BY EmptyAgrees, ReplayAgrees DEF FullScan

(* ... and its entries name records of their keys.                         *)
LEMMA AgreesEntry ==
    ASSUME NEW idx, NEW log, NEW n \in Nat, NEW k \in Keys,
           Agrees(idx, log, n), idx[k] # NoEntry
    PROVE  /\ idx[k].off \in 1 .. n
           /\ log[idx[k].off].key = k
           /\ log[idx[k].off].kind # "tomb"
           /\ log[idx[k].off].exp = idx[k].exp
<1>1. PICK i \in 1 .. n : LastAt(log, n, k, i) /\ idx[k] = EntryAt(log, i)
  BY Zenon DEF Agrees, Says
<1>2. log[i].kind # "tomb" /\ idx[k] = [off |-> i, exp |-> log[i].exp]
  BY <1>1, Zenon DEF EntryAt
<1> QED BY <1>1, <1>2 DEF LastAt

-----------------------------------------------------------------------------
(* Writing a record about k and pointing k's entry at it.                  *)
LEMMA AgreesUpsert ==
    ASSUME NEW idx \in Index, NEW log \in Seq(Line), NEW line \in Line,
           line.kind \notin {"tomb", "torn"}, line.key \in Keys,
           Agrees(idx, log, Len(log))
    PROVE  Agrees(Upsert(idx, line.key, Len(log) + 1, line.exp),
                  Append(log, line), Len(log) + 1)
<1> DEFINE n == Len(log)
           new == Append(log, line)
           up == Upsert(idx, line.key, n + 1, line.exp)
<1> SUFFICES ASSUME NEW k \in Keys PROVE Says(new, n + 1, k, up[k])
  BY Zenon DEF Agrees
<1>1. CASE k = line.key
  <2>1. Says(new, n + 1, k, EntryAt(new, n + 1))
    BY <1>1, SaysAppendSame, Zenon
  <2>2. new[n + 1] = line
    OBVIOUS
  <2>3. EntryAt(new, n + 1) = [off |-> n + 1, exp |-> line.exp]
    BY <2>2, Zenon DEF EntryAt
  <2>4. up[k] = [off |-> n + 1, exp |-> line.exp]
    BY <1>1, Zenon DEF Upsert, Index
  <2> QED BY <2>1, <2>3, <2>4, Zenon
<1>2. CASE k # line.key
  <2>1. up[k] = idx[k]
    BY <1>2, Zenon DEF Upsert, Index
  <2>2. Says(log, n, k, idx[k])
    BY Zenon DEF Agrees
  <2> QED BY <1>2, <2>1, <2>2, SaysAppendOther, Zenon
<1> QED BY <1>1, <1>2, Zenon

(* Writing a tombstone for k and dropping k's entry, where the keys of S   *)
(* have been dropped before.                                               *)
LEMMA AgreesRemove ==
    ASSUME NEW idx \in Index, NEW log \in Seq(Line), NEW k \in Keys, NEW S,
           Agrees(RemoveKeys(idx, S), log, Len(log))
    PROVE  Agrees(RemoveKeys(idx, S \cup {k}), Append(log, Tombstone(k)),
                  Len(log) + 1)
<1> DEFINE n == Len(log)
           new == Append(log, Tombstone(k))
           up == RemoveKeys(idx, S \cup {k})
<1>0. Tombstone(k) \in Line
  BY CounterMaxAssumption DEF Tombstone, Line, Kinds, Counters
<1> SUFFICES ASSUME NEW j \in Keys PROVE Says(new, n + 1, j, up[j])
  BY Zenon DEF Agrees
<1>1. CASE j = k
  <2>1. Says(new, n + 1, j, EntryAt(new, n + 1))
    BY <1>0, <1>1, SaysAppendSame, Zenon DEF Tombstone
  <2>2. new[n + 1] = Tombstone(k)
    BY <1>0
  <2>3. EntryAt(new, n + 1) = NoEntry
    BY <2>2 DEF EntryAt, Tombstone
  <2>4. up[j] = NoEntry
    BY <1>1, Zenon DEF RemoveKeys
  <2> QED BY <2>1, <2>3, <2>4, Zenon
<1>2. CASE j # k
  <2>1. up[j] = RemoveKeys(idx, S)[j]
    BY <1>2, Zenon DEF RemoveKeys
  <2>2. Says(log, n, j, RemoveKeys(idx, S)[j])
    BY Zenon DEF Agrees
  <2> QED BY <1>0, <1>2, <2>1, <2>2, SaysAppendOther, Zenon DEF Tombstone
<1> QED BY <1>1, <1>2, Zenon

(* A prefix is left alone by an append.                                    *)
LEMMA AgreesAppend ==
    ASSUME NEW idx, NEW log \in Seq(Line), NEW line \in Line,
           NEW n \in Nat, n <= Len(log), Agrees(idx, log, n)
    PROVE  Agrees(idx, Append(log, line), n)
<1>1. SameShape(log, Append(log, line), n)
  BY DEF SameShape
<1> QED BY <1>1, SaysSameShape, Zenon DEF Agrees

LEMMA AgreesSameShape ==
    ASSUME NEW idx, NEW log, NEW log2, NEW n \in Nat,
           SameShape(log, log2, n), Agrees(idx, log, n)
    PROVE  Agrees(idx, log2, n)
BY SaysSameShape, Zenon DEF Agrees

LEMMA RemoveNothing ==
    ASSUME NEW idx \in Index
    PROVE  RemoveKeys(idx, {}) = idx
BY Zenon DEF RemoveKeys, Index

-----------------------------------------------------------------------------
(* A log without a torn line is replayed whole ...                         *)
LEMMA IntactWhole ==
    ASSUME NEW log \in Seq(Line), NoTorn(log, Len(log)), NEW from \in Nat
    PROVE  Intact(log, from) = log
<1>1. ASSUME NEW i \in 1 .. Len(log) PROVE ~FirstTorn(log, from, i)
  BY Zenon DEF FirstTorn, NoTorn
<1> QED BY <1>1, Zenon DEF Intact

(* ... and a torn last line is cut off.                                    *)
LEMMA IntactTorn ==
    ASSUME NEW log \in Seq(Line), NoTorn(log, Len(log)),
           NEW from \in Nat, from <= Len(log)
    PROVE  Intact(Append(log, Torn), from) = log
<1> DEFINE new == Append(log, Torn)
           n == Len(log)
<1>0. Torn \in Line
  BY CounterMaxAssumption DEF Torn, Line, Kinds, Counters
<1>1. n \in Nat /\ Len(new) = n + 1 /\ new[n + 1] = Torn
  BY <1>0
<1>2. \A i \in 1 .. n : new[i] = log[i]
  BY <1>0
<1>3. FirstTorn(new, from, n + 1)
  <2>1. \A j \in from + 1 .. (n + 1) - 1 : j \in 1 .. n
    BY <1>1
  <2>2. n + 1 \in from + 1 .. Len(new)
    BY <1>1
  <2>3. new[n + 1].kind = "torn"
    BY <1>1 DEF Torn
  <2> QED BY <1>2, <2>1, <2>2, <2>3, Zenon DEF FirstTorn, NoTorn
<1>4. ASSUME NEW i \in 1 .. Len(new), FirstTorn(new, from, i) PROVE i = n + 1
  <2>1. ~(i \in 1 .. n)
    BY <1>2, <1>4, Zenon DEF FirstTorn, NoTorn
  <2> QED BY <1>1, <2>1
<1>5. n + 1 \in 1 .. Len(new)
  BY <1>1
<1> DEFINE c == CHOOSE i \in 1 .. Len(new) : FirstTorn(new, from, i)
<1>6. c = n + 1
  <2> HIDE DEF new
  <2>1. c \in 1 .. Len(new) /\ FirstTorn(new, from, c)
    BY <1>3, <1>5, Zenon
  <2> HIDE DEF c
  <2> QED BY <2>1, <1>4, Zenon
<1>7. Intact(new, from) = SubSeq(new, 1, c - 1)
  <2> HIDE DEF new
  <2> QED BY <1>3, <1>5, Zenon DEF Intact
<1>8. SubSeq(new, 1, n) = log
  <2>1. new \in Seq(Line)
    BY <1>0
  <2>2. SubSeq(new, 1, n) \in Seq(Line) /\ Len(SubSeq(new, 1, n)) = n
    BY <1>1, <2>1
  <2>3. \A i \in 1 .. n : SubSeq(new, 1, n)[i] = log[i]
    BY <1>1, <1>2, <2>1
  <2> QED BY <1>1, <2>2, <2>3
<1> HIDE DEF c, new
<1>9. c - 1 = n
  BY <1>1, <1>6
<1>10. Intact(new, from) = log
  BY <1>7, <1>8, <1>9, Zenon
<1> QED BY <1>10, Zenon DEF new

-----------------------------------------------------------------------------
(* What the log says of a key at time t, and what an index says of it.     *)
LiveAt(log, k, i, t) ==
    LastAt(log, Len(log), k, i) /\ log[i].kind # "tomb" /\ ~ExpiredAt(log[i], t)

LiveRecordAt(log, k, t) ==
    IF \E i \in DOMAIN log : LiveAt(log, k, i, t)
    THEN log[CHOOSE i \in DOMAIN log : LiveAt(log, k, i, t)]
    ELSE Tombstone(k)

EntryRecord(idx, log, k, t) ==
    IF idx[k] # NoEntry /\ ~ExpiredAt(idx[k], t) THEN log[idx[k].off] ELSE Tombstone(k)

(* They are the same when the index agrees with the log.                   *)
LEMMA LiveOfEntry ==
    ASSUME NEW log \in Seq(Line), NEW idx, NEW k \in Keys, NEW t,
           Agrees(idx, log, Len(log))
    PROVE  LiveRecordAt(log, k, t) = EntryRecord(idx, log, k, t)
<1>0. Len(log) \in Nat /\ DOMAIN log = 1 .. Len(log)
  OBVIOUS
<1>1. Says(log, Len(log), k, idx[k])
  BY Zenon DEF Agrees
<1>2. CASE \E i \in 1 .. Len(log) : LastAt(log, Len(log), k, i) /\ idx[k] = EntryAt(log, i)
  <2>1. PICK i \in 1 .. Len(log) : LastAt(log, Len(log), k, i) /\ idx[k] = EntryAt(log, i)
    BY <1>2, Zenon
  <2>2. \A j \in DOMAIN log : LiveAt(log, k, j, t) => j = i
    BY <1>0, <2>1, LastAtUnique, Zenon DEF LiveAt
  <2>3. CASE log[i].kind = "tomb"
    <3>1. idx[k] = NoEntry
      BY <2>1, <2>3, Zenon DEF EntryAt
    <3>2. ~\E j \in DOMAIN log : LiveAt(log, k, j, t)
      BY <2>2, <2>3, Zenon DEF LiveAt
    <3> QED BY <3>1, <3>2, Zenon DEF LiveRecordAt, EntryRecord
  <2>4. CASE log[i].kind # "tomb"
    <3>1. idx[k] = [off |-> i, exp |-> log[i].exp]
      BY <2>1, <2>4, Zenon DEF EntryAt
    <3>2. idx[k] # NoEntry /\ idx[k].off = i
      BY <3>1 DEF NoEntry
    <3>3. ExpiredAt(idx[k], t) <=> ExpiredAt(log[i], t)
      BY <3>1 DEF ExpiredAt
    <3>4. CASE ExpiredAt(log[i], t)
      <4>1. ~\E j \in DOMAIN log : LiveAt(log, k, j, t)
        BY <2>2, <3>4, Zenon DEF LiveAt
      <4> QED BY <3>3, <3>4, <4>1, Zenon DEF LiveRecordAt, EntryRecord
    <3>5. CASE ~ExpiredAt(log[i], t)
      <4>1. i \in DOMAIN log /\ LiveAt(log, k, i, t)
        BY <1>0, <2>1, <2>4, <3>5, Zenon DEF LiveAt
      <4> DEFINE c == CHOOSE j \in DOMAIN log : LiveAt(log, k, j, t)
      <4>2. c \in DOMAIN log /\ LiveAt(log, k, c, t)
        BY <4>1, Zenon
      <4>3. c = i
        <5> HIDE DEF c
        <5> QED BY <2>2, <4>2, Zenon
      <4>4. LiveRecordAt(log, k, t) = log[c]
        BY <4>1, Zenon DEF LiveRecordAt
      <4>5. EntryRecord(idx, log, k, t) = log[i]
        BY <3>2, <3>3, <3>5, Zenon DEF EntryRecord
      <4> HIDE DEF c
      <4> QED BY <4>3, <4>4, <4>5, Zenon
    <3> QED BY <3>4, <3>5, Zenon
  <2> QED BY <2>3, <2>4, Zenon
<1>3. CASE (\A i \in 1 .. Len(log) : log[i].key # k) /\ idx[k] = NoEntry
  <2>1. ~\E j \in DOMAIN log : LiveAt(log, k, j, t)
    BY <1>0, <1>3, Zenon DEF LiveAt, LastAt
  <2> QED BY <1>3, <2>1, Zenon DEF LiveRecordAt, EntryRecord
<1> QED BY <1>1, <1>2, <1>3, Zenon DEF Says

-----------------------------------------------------------------------------
(* h describes a prefix of the log.                                        *)
HintFits(h, log) == h.covers <= Len(log) /\ Agrees(h.idx, log, h.covers)

(* A running store: the log is whole, appends go to its end, and the index *)
(* less the keys a range delete has already buried is what the log says.   *)
UpInv ==
    status # "down" =>
        /\ size = Len(main)
        /\ NoTorn(main, Len(main))
        /\ Agrees(RemoveKeys(pk, doomed \ todo), main, Len(main))
        /\ mu # "hintSwap" => HintFits(hint, main)

(* A store at rest: all but a torn last line is intact, and the hint fits. *)
DownInv ==
    status = "down" =>
        /\ mu = "free" /\ gate = "down" /\ job = NoJob
        /\ Intact(main, 0) \in Seq(Line)
        /\ NoTorn(Intact(main, 0), Len(Intact(main, 0)))
        /\ main \in {Intact(main, 0), Append(Intact(main, 0), Torn)}
        /\ Agrees(FullScan(Intact(main, 0)), Intact(main, 0), Len(Intact(main, 0)))
        /\ FullScan(Intact(main, 0)) \in Index
        /\ HintFits(hint, Intact(main, 0))

(* A snapshot the background writer may still write fits the log, unless   *)
(* the log has just been swapped; and then a checkpoint marks it stale     *)
(* before it lets go of the lock.                                          *)
JobInv ==
    /\ (job.phase # "none" /\ mu # "hintSwap" /\ (~job.stale \/ job.phase = "write"))
          => HintFits([covers |-> job.covers, idx |-> job.idx], main)
    /\ bumped => /\ mu \in {"hintRange", "hintSwap", "hintClose"}
                 /\ job.phase # "none" => job.stale

(* The rewrite under construction is a log with its index.                 *)
BuildInv ==
    gate = "build" =>
        /\ status # "down"
        /\ mu \in {"free", "failStop"}
        /\ NoTorn(newMain, Len(newMain))
        /\ Agrees(newIdx, newMain, Len(newMain))
        /\ \A k \in scan : pk[k] # NoEntry

(* What only one holder of the lock uses.                                  *)
SectionInv ==
    /\ todo \subseteq doomed
    /\ mu # "range" => doomed = {}
    /\ mu = "counter" => pend.key \in Keys
    /\ mu # "free" => status # "down"

IInv == TypeOK /\ UpInv /\ DownInv /\ JobInv /\ BuildInv /\ SectionInv

-----------------------------------------------------------------------------
(* Types of what the actions build.                                        *)
LEMMA LineTypes ==
    /\ \A k \in Keys \cup {0}, v \in Values, e \in Nat : Plain(k, v, e) \in Line
    /\ \A k \in Keys \cup {0}, n \in Counters, e \in Nat : Counter(k, n, e) \in Line
    /\ \A k \in Keys : Tombstone(k) \in Line
    /\ Torn \in Line
BY CounterMaxAssumption
   DEF Plain, Counter, Tombstone, Torn, Line, Kinds, Counters

LEMMA DeadlinesType ==
    ASSUME NEW t \in Nat
    PROVE  Deadlines(t) \subseteq Nat
BY TTLAssumption DEF Deadlines

LEMMA IndexTypes ==
    NoEntry \in Entry /\ EmptyIndex \in Index /\ NoHint \in Hint
BY Zenon DEF NoEntry, Entry, EmptyIndex, Index, NoHint, Hint

LEMMA UpsertType ==
    ASSUME NEW idx \in Index, NEW k, NEW off \in Nat, NEW exp \in Nat
    PROVE  Upsert(idx, k, off, exp) \in Index
BY Zenon DEF Entry, Index, Upsert

LEMMA RemoveType ==
    ASSUME NEW idx \in Index, NEW S
    PROVE  RemoveKeys(idx, S) \in Index
BY IndexTypes, Zenon DEF Index, RemoveKeys

LEMMA AppendType ==
    ASSUME NEW S, NEW seq \in Seq(S), NEW e \in S
    PROVE  Append(seq, e) \in Seq(S) /\ Len(Append(seq, e)) = Len(seq) + 1
OBVIOUS

LEMMA ExceptType ==
    ASSUME NEW S, NEW seq \in Seq(S), NEW i \in 1 .. Len(seq), NEW e \in S
    PROVE  /\ [seq EXCEPT ![i] = e] \in Seq(S)
           /\ Len([seq EXCEPT ![i] = e]) = Len(seq)
           /\ \A j \in 1 .. Len(seq) : [seq EXCEPT ![i] = e][j] = IF j = i THEN e ELSE seq[j]
OBVIOUS

LEMMA EmptyTypes ==
    <<>> \in Seq(Line) /\ <<>> \in Seq(Request) /\ Len(<<>>) = 0
OBVIOUS

(* The entry of a key in a running store outside a range delete.           *)
LEMMA EntryInLog ==
    ASSUME IInv, status # "down", mu # "range", NEW k \in Keys, pk[k] # NoEntry
    PROVE  /\ pk[k].off \in 1 .. Len(main)
           /\ main[pk[k].off].key = k
           /\ main[pk[k].off].kind \notin {"tomb", "torn"}
           /\ main[pk[k].off].exp = pk[k].exp
<1>1. main \in Seq(Line) /\ pk \in Index /\ Len(main) \in Nat
  BY DEF IInv, TypeOK
<1>2. doomed \ todo = {}
  BY Zenon DEF IInv, SectionInv
<1>3. Agrees(pk, main, Len(main))
  BY <1>1, <1>2, RemoveNothing, Zenon DEF IInv, UpInv
<1>4. NoTorn(main, Len(main))
  BY Zenon DEF IInv, UpInv
<1> QED BY <1>1, <1>3, <1>4, AgreesEntry DEF NoTorn

(* What Open reads back is what the log says, whatever the hint.           *)
LEMMA OpenLoads ==
    ASSUME IInv, mu # "hintSwap"
    PROVE  LET good == Intact(main, 0)
           IN  /\ good \in Seq(Line)
               /\ NoTorn(good, Len(good))
               /\ LoadedLog(hint, main) = good
               /\ Load(hint, main) = FullScan(good)
               /\ FullScan(good) \in Index
               /\ Agrees(FullScan(good), good, Len(good))
               /\ HintFits(hint, good)
<1> DEFINE good == Intact(main, 0)
<1>0. TypeOK /\ main \in Seq(Line) /\ Len(main) \in Nat
  BY DEF IInv, TypeOK
<1>1. /\ good \in Seq(Line)
      /\ NoTorn(good, Len(good))
      /\ main \in {good, Append(good, Torn)}
      /\ FullScan(good) \in Index
      /\ Agrees(FullScan(good), good, Len(good))
      /\ HintFits(hint, good)
  <2>1. CASE status = "down"
    BY <2>1, Zenon DEF IInv, DownInv
  <2>2. CASE status # "down"
    <3> DEFINE idx == RemoveKeys(pk, doomed \ todo)
    <3>1. NoTorn(main, Len(main)) /\ Agrees(idx, main, Len(main)) /\ HintFits(hint, main)
      BY <2>2, Zenon DEF IInv, UpInv
    <3>2. good = main
      BY <1>0, <3>1, IntactWhole, Zenon
    <3>3. idx \in Index
      BY <1>0, RemoveType, Zenon DEF TypeOK
    <3>4. FullScan(main) = idx
      BY <1>0, <3>1, <3>3, FullScanAgrees, Zenon
    <3> QED BY <1>0, <3>1, <3>2, <3>3, <3>4, Zenon
  <2> QED BY <2>1, <2>2, Zenon
<1> HIDE DEF good
<1>2. hint.covers \in Nat /\ hint.idx \in Index /\ Len(good) \in Nat
  BY <1>0, <1>1 DEF TypeOK, Hint
<1>3. hint.covers <= Len(good) /\ Agrees(hint.idx, good, hint.covers)
  BY <1>1, Zenon DEF HintFits
<1>4. hint.covers <= Len(main)
  BY <1>1, <1>2, <1>3, LineTypes
<1>5. Intact(main, hint.covers) = good
  BY <1>1, <1>2, <1>3, IntactWhole, IntactTorn, Zenon
<1>6. Replay(hint.idx, good, hint.covers) = FullScan(good)
  BY <1>1, <1>2, <1>3, ReplayAgrees
<1>7. UsableHint(hint, main) = hint
  BY <1>4, Zenon DEF UsableHint
<1> QED BY <1>1, <1>5, <1>6, <1>7, Zenon DEF LoadedLog, Load, good

-----------------------------------------------------------------------------
(* The rest of the invariant.  Steps that write the log come in three      *)
(* kinds: a record, a tombstone, and the last step of a store object.      *)
Rest == UpInv /\ DownInv /\ JobInv /\ BuildInv /\ SectionInv

(* Steps that leave alone what a conjunct is about.                        *)
LEMMA UpFrame ==
    ASSUME UpInv, UNCHANGED <<main, hint, status, pk, size>>,
           doomed' \ todo' = doomed \ todo, mu = "hintSwap" => mu' = "hintSwap"
    PROVE  UpInv'
BY Zenon DEF UpInv

LEMMA JobFrame ==
    ASSUME JobInv, UNCHANGED <<main, job, bumped>>,
           mu = "hintSwap" => mu' = "hintSwap", bumped => mu' = mu
    PROVE  JobInv'
BY Zenon DEF JobInv

LEMMA HintFitsAppend ==
    ASSUME NEW h, h.covers \in Nat, NEW log \in Seq(Line), NEW line \in Line,
           HintFits(h, log)
    PROVE  HintFits(h, Append(log, line))
<1>1. h.covers <= Len(Append(log, line))
  BY DEF HintFits
<1>2. Agrees(h.idx, Append(log, line), h.covers)
  BY AgreesAppend, Zenon DEF HintFits
<1> QED BY <1>1, <1>2, Zenon DEF HintFits

LEMMA NoTornAppend ==
    ASSUME NEW log \in Seq(Line), NEW line \in Line, line.kind # "torn",
           NoTorn(log, Len(log))
    PROVE  NoTorn(Append(log, line), Len(Append(log, line)))
<1>1. Len(Append(log, line)) = Len(log) + 1 /\ Len(log) \in Nat
  OBVIOUS
<1>2. \A i \in 1 .. Len(log) : Append(log, line)[i] = log[i]
  OBVIOUS
<1>3. Append(log, line)[Len(log) + 1] = line
  OBVIOUS
<1>4. ASSUME NEW i \in 1 .. Len(log) + 1 PROVE Append(log, line)[i].kind # "torn"
  <2>1. CASE i = Len(log) + 1
    BY <1>3, <2>1, Zenon
  <2>2. CASE i # Len(log) + 1
    <3>1. i \in 1 .. Len(log)
      BY <1>1, <2>2
    <3> QED BY <1>2, <3>1, Zenon DEF NoTorn
  <2> QED BY <2>1, <2>2, Zenon
<1> QED BY <1>1, <1>4, Zenon DEF NoTorn

(* Outside a range delete the index is what the log says.                  *)
LEMMA IdleAgrees ==
    ASSUME IInv, status # "down", mu # "range"
    PROVE  /\ main \in Seq(Line) /\ Len(main) \in Nat /\ size = Len(main)
           /\ pk \in Index /\ doomed = {} /\ todo = {}
           /\ NoTorn(main, Len(main))
           /\ Agrees(pk, main, Len(main))
<1>1. main \in Seq(Line) /\ pk \in Index /\ doomed = {} /\ todo = {}
  BY Zenon DEF IInv, TypeOK, SectionInv
<1>2. RemoveKeys(pk, doomed \ todo) = pk
  <2>1. doomed \ todo = {}
    BY <1>1, Zenon
  <2> QED BY <1>1, <2>1, RemoveNothing, Zenon
<1> QED BY <1>1, <1>2 DEF IInv, UpInv

(* The background writer's snapshot through an append: the one in flight   *)
(* still fits, and a new one is the index after the append.                *)
LEMMA JobAppend ==
    ASSUME IInv, NEW line \in Line, main' = Append(main, line), ~bumped, UNCHANGED bumped,
           mu # "hintSwap",
           \/ UNCHANGED job
           \/ \E w : MaybeWriteHint(pk', size', w) /\ HintFits([covers |-> size', idx |-> pk'], main')
    PROVE  JobInv'
<1> DEFINE Snap == [covers |-> job.covers, idx |-> job.idx]
<1>1. main \in Seq(Line) /\ job.covers \in Nat
  BY Zenon DEF IInv, TypeOK
<1>2. CASE UNCHANGED job
  <2>1. HintFits(Snap, main) => HintFits(Snap, main')
    BY <1>1, HintFitsAppend, Zenon
  <2> QED BY <1>2, <2>1, Zenon DEF IInv, JobInv
<1>3. CASE job' = [NoJob EXCEPT !.phase = "flush", !.idx = pk', !.covers = size']
           /\ HintFits([covers |-> size', idx |-> pk'], main')
  BY <1>3, Zenon DEF JobInv, NoJob
<1> QED BY <1>2, <1>3, Zenon DEF MaybeWriteHint

(* A record is appended and indexed: Put, and a counter that is created.   *)
LEMMA UpsertStep ==
    ASSUME IInv, status # "down", mu \in {"free", "counter"}, gate # "build",
           NEW line \in Line, line.key \in Keys, line.kind \notin {"tomb", "torn"},
           AppendLine(line), pk' = Upsert(pk, line.key, size + 1, line.exp),
           NEW w, MaybeWriteHint(pk', size', w),
           mu' = "free", UNCHANGED <<hint, status, doomed, todo, bumped, gate>>
    PROVE  Rest'
<1>1. /\ main \in Seq(Line) /\ Len(main) \in Nat /\ size = Len(main)
      /\ pk \in Index /\ doomed = {} /\ todo = {}
      /\ NoTorn(main, Len(main)) /\ Agrees(pk, main, Len(main))
  BY IdleAgrees, Zenon
<1>2. main' = Append(main, line) /\ Len(main') = Len(main) + 1 /\ size' = Len(main')
  BY <1>1 DEF AppendLine
<1>3. Agrees(pk', main', Len(main'))
  BY <1>1, <1>2, AgreesUpsert, Zenon
<1>4. pk' \in Index
  BY <1>1, UpsertType DEF Line
<1>5. HintFits([covers |-> size', idx |-> pk'], main')
  BY <1>2, <1>3, <1>1 DEF HintFits
<1>6. ~bumped
  BY Zenon DEF IInv, JobInv
<1>7. JobInv'
  BY <1>2, <1>5, <1>6, JobAppend, Zenon
<1>8. HintFits(hint, main')
  BY <1>1, <1>2, HintFitsAppend, Zenon DEF IInv, UpInv, TypeOK, Hint
<1>9. NoTorn(main', Len(main'))
  BY <1>1, <1>2, NoTornAppend, Zenon
<1>10. RemoveKeys(pk', doomed' \ todo') = pk'
  <2>1. doomed' \ todo' = {}
    BY <1>1, Zenon
  <2> QED BY <1>4, <2>1, RemoveNothing, Zenon
<1>11. UpInv'
  BY <1>2, <1>3, <1>8, <1>9, <1>10, Zenon DEF UpInv
<1>12. DownInv' /\ BuildInv' /\ SectionInv'
  BY <1>1, Zenon DEF DownInv, BuildInv, SectionInv
<1> QED BY <1>7, <1>11, <1>12, Zenon DEF Rest

(* A tombstone is appended and the entry dropped: Delete, a counter that   *)
(* lapses, the reaper.                                                     *)
LEMMA RemoveStep ==
    ASSUME IInv, status # "down", mu \in {"free", "reap"}, gate # "build",
           NEW k \in Keys, DeleteLocked(k),
           UNCHANGED job \/ \E w : MaybeWriteHint(pk', size', w),
           mu' \in {"free", "reap", "counter"}, mu' = "counter" => pend'.key \in Keys,
           UNCHANGED <<hint, status, doomed, todo, bumped, gate>>
    PROVE  Rest'
<1>1. /\ main \in Seq(Line) /\ Len(main) \in Nat /\ size = Len(main)
      /\ pk \in Index /\ doomed = {} /\ todo = {}
      /\ NoTorn(main, Len(main)) /\ Agrees(pk, main, Len(main))
  BY IdleAgrees, Zenon
<1> DEFINE line == Tombstone(k)
<1>2. line \in Line /\ line.kind # "torn"
  BY LineTypes, Zenon DEF Tombstone
<1>3. main' = Append(main, line) /\ Len(main') = Len(main) + 1 /\ size' = Len(main')
  BY <1>1, <1>2, AppendType, Zenon DEF AppendLine, DeleteLocked
<1>4. Agrees(pk', main', Len(main'))
  <2>1. Agrees(RemoveKeys(pk, {}), main, Len(main))
    BY <1>1, RemoveNothing, Zenon
  <2>2. Agrees(RemoveKeys(pk, {} \cup {k}), main', Len(main) + 1)
    BY <1>1, <1>3, <2>1, AgreesRemove, Zenon
  <2>3. {} \cup {k} = {k}
    OBVIOUS
  <2> QED BY <1>3, <2>2, <2>3, Zenon DEF DeleteLocked
<1>5. pk' \in Index
  BY <1>1, RemoveType, Zenon DEF DeleteLocked
<1> HIDE DEF line
<1>6. HintFits([covers |-> size', idx |-> pk'], main')
  BY <1>1, <1>3, <1>4 DEF HintFits
<1>7. ~bumped
  BY Zenon DEF IInv, JobInv
<1>8. JobInv'
  BY <1>2, <1>3, <1>6, <1>7, JobAppend, Zenon
<1>9. HintFits(hint, main')
  BY <1>1, <1>2, <1>3, HintFitsAppend, Zenon DEF IInv, UpInv, TypeOK, Hint
<1>10. NoTorn(main', Len(main'))
  BY <1>1, <1>2, <1>3, NoTornAppend, Zenon
<1>11. RemoveKeys(pk', doomed' \ todo') = pk'
  <2>1. doomed' \ todo' = {}
    BY <1>1, Zenon
  <2> QED BY <1>5, <2>1, RemoveNothing, Zenon
<1>12. UpInv'
  BY <1>3, <1>4, <1>9, <1>10, <1>11, Zenon DEF UpInv
<1>13. DownInv' /\ BuildInv' /\ SectionInv'
  BY <1>1, Zenon DEF DownInv, BuildInv, SectionInv
<1> QED BY <1>8, <1>12, <1>13, Zenon DEF Rest

(* The store object goes away, leaving a hint that fits and a log that is  *)
(* whole up to a torn last line.                                           *)
LEMMA HaltStep ==
    ASSUME IInv, status # "down", Halt, HintFits(hint', main), hint'.covers \in Nat,
           main' \in {main, Append(main, Torn)}
    PROVE  Rest'
<1> DEFINE idx == RemoveKeys(pk, doomed \ todo)
<1>1. main \in Seq(Line) /\ Len(main) \in Nat /\ idx \in Index
  BY RemoveType DEF IInv, TypeOK
<1>2. NoTorn(main, Len(main)) /\ Agrees(idx, main, Len(main))
  BY Zenon DEF IInv, UpInv
<1>3. Intact(main', 0) = main
  <2>1. Intact(main, 0) = main
    BY <1>1, <1>2, IntactWhole, Zenon
  <2>2. Intact(Append(main, Torn), 0) = main
    <3>1. 0 \in Nat /\ 0 <= Len(main)
      BY <1>1
    <3> QED BY <1>1, <1>2, <3>1, IntactTorn, Zenon
  <2> QED BY <2>1, <2>2, Zenon
<1>4. FullScan(main) = idx
  BY <1>1, <1>2, FullScanAgrees, Zenon
<1> HIDE DEF idx
<1>5. DownInv'
  BY <1>1, <1>2, <1>3, <1>4, Zenon DEF DownInv, Halt
<1>6. UpInv' /\ JobInv' /\ BuildInv' /\ SectionInv'
  BY Zenon DEF UpInv, JobInv, BuildInv, SectionInv, Halt, NoJob
<1> QED BY <1>5, <1>6, Zenon DEF Rest

-----------------------------------------------------------------------------
(* A counter's digits are patched in place: no index entry, no snapshot    *)
(* and no hint changes its meaning.                                        *)
LEMMA PatchStep ==
    ASSUME IInv, NEW k \in Keys, NEW n \in Counters, CounterPatch(k, n)
    PROVE  Rest'
<1> DEFINE o == pk[k].off
<1>0. status # "down" /\ mu = "free" /\ gate = "down" /\ pk[k] # NoEntry
  BY Zenon DEF CounterPatch, CanWrite
<1>1. main \in Seq(Line) /\ Len(main) \in Nat /\ o \in 1 .. Len(main)
  BY <1>0, EntryInLog, SMTT(30) DEF IInv, TypeOK
<1>2. main' = [main EXCEPT ![o] = [main[o] EXCEPT !.val = n]]
  BY Zenon DEF CounterPatch
<1>3. main[o] \in Line
  BY <1>1
<1>4. [main[o] EXCEPT !.val = n] \in Line
  BY <1>3, Zenon DEF Line
<1> HIDE DEF o
<1>5. Len(main') = Len(main)
  BY <1>1, <1>2, <1>4, ExceptType
<1>6. SameShape(main, main', Len(main))
  <2> SUFFICES ASSUME NEW i \in 1 .. Len(main)
               PROVE  /\ main'[i].key = main[i].key
                      /\ main'[i].kind = main[i].kind
                      /\ main'[i].exp = main[i].exp
    BY Zenon DEF SameShape
  <2>1. main'[i] = IF i = o THEN [main[o] EXCEPT !.val = n] ELSE main[i]
    BY <1>1, <1>2, <1>4, ExceptType
  <2> QED BY <1>3, <2>1, Zenon DEF Line
<1>7. ASSUME NEW idx, NEW m \in Nat, m <= Len(main), Agrees(idx, main, m)
      PROVE  Agrees(idx, main', m)
  <2>1. SameShape(main, main', m)
    BY <1>1, <1>6, <1>7 DEF SameShape
  <2> QED BY <1>7, <2>1, AgreesSameShape, Zenon
<1>8. ASSUME NEW h, h.covers \in Nat, HintFits(h, main) PROVE HintFits(h, main')
  BY <1>5, <1>7, <1>8, Zenon DEF HintFits
<1>9. NoTorn(main', Len(main'))
  <2>1. NoTorn(main, Len(main))
    BY <1>0, Zenon DEF IInv, UpInv
  <2> QED BY <1>5, <1>6, <2>1, Zenon DEF NoTorn, SameShape
<1>10. UNCHANGED <<hint, status, pk, size, mu, doomed, todo, bumped, pend, gate,
                   newMain, newIdx, scan, job>>
  BY Zenon DEF CounterPatch, section, rebuild
<1>11. UpInv'
  <2>1. Agrees(RemoveKeys(pk, doomed \ todo), main', Len(main))
    BY <1>0, <1>1, <1>7 DEF IInv, UpInv
  <2>2. HintFits(hint, main')
    BY <1>0, <1>8, Zenon DEF IInv, UpInv, TypeOK, Hint
  <2> QED BY <1>0, <1>5, <1>9, <1>10, <2>1, <2>2, Zenon DEF IInv, UpInv
<1>12. JobInv'
  <2> DEFINE Snap == [covers |-> job.covers, idx |-> job.idx]
  <2>1. Snap.covers \in Nat
    BY Zenon DEF IInv, TypeOK
  <2>2. HintFits(Snap, main) => HintFits(Snap, main')
    BY <1>8, <2>1, Zenon
  <2> QED BY <1>10, <2>2, Zenon DEF IInv, JobInv
<1>13. DownInv' /\ BuildInv'
  BY <1>0, <1>10, Zenon DEF DownInv, BuildInv
<1>14. SectionInv'
  BY <1>10, Zenon DEF IInv, SectionInv
<1> QED BY <1>11, <1>12, <1>13, <1>14, Zenon DEF Rest

(* A tombstone of a range delete: the index in memory keeps the key until  *)
(* RangeApply, the log no longer does.                                     *)
LEMMA RangeStep ==
    ASSUME IInv, NEW k \in Keys, RangeTombstone(k)
    PROVE  Rest'
<1> DEFINE line == Tombstone(k)
<1>0. /\ mu = "range" /\ mu' = "range" /\ k \in todo
      /\ UNCHANGED <<hint, status, pk, doomed, bumped, pend, gate, job>>
      /\ todo' = todo \ {k}
  BY Zenon DEF RangeTombstone, Least
<1>1. status # "down" /\ gate # "build" /\ todo \subseteq doomed /\ ~bumped
  BY <1>0, Zenon DEF IInv, SectionInv, BuildInv, JobInv
<1>2. main \in Seq(Line) /\ Len(main) \in Nat /\ size = Len(main) /\ pk \in Index
  BY <1>1, Zenon DEF IInv, TypeOK, UpInv
<1>3. line \in Line /\ line.kind # "torn"
  BY LineTypes, Zenon DEF Tombstone
<1>4. main' = Append(main, line) /\ Len(main') = Len(main) + 1 /\ size' = Len(main')
  BY <1>2, <1>3, AppendType, Zenon DEF AppendLine, RangeTombstone
<1>5. Agrees(RemoveKeys(pk', doomed' \ todo'), main', Len(main'))
  <2>1. Agrees(RemoveKeys(pk, doomed \ todo), main, Len(main))
    BY <1>1, Zenon DEF IInv, UpInv
  <2>2. doomed' \ todo' = (doomed \ todo) \cup {k}
    BY <1>0, <1>1, Zenon
  <2>3. Agrees(RemoveKeys(pk, (doomed \ todo) \cup {k}), main', Len(main) + 1)
    BY <1>2, <1>4, <2>1, AgreesRemove, Zenon
  <2> QED BY <1>0, <1>4, <2>2, <2>3, Zenon
<1> HIDE DEF line
<1>6. HintFits(hint, main')
  BY <1>0, <1>1, <1>2, <1>3, <1>4, HintFitsAppend, Zenon DEF IInv, UpInv, TypeOK, Hint
<1>7. NoTorn(main', Len(main'))
  BY <1>1, <1>2, <1>3, <1>4, NoTornAppend, Zenon DEF IInv, UpInv
<1>8. UpInv'
  BY <1>0, <1>4, <1>5, <1>6, <1>7, Zenon DEF UpInv
<1>9. JobInv'
  BY <1>0, <1>1, <1>3, <1>4, JobAppend, Zenon
<1>10. DownInv' /\ BuildInv' /\ SectionInv'
  BY <1>0, <1>1, Zenon DEF DownInv, BuildInv, SectionInv
<1> QED BY <1>8, <1>9, <1>10, Zenon DEF Rest

(* A record enters the rewrite.                                            *)
LEMMA BuildStep ==
    ASSUME IInv, NEW k \in Keys, BuildRecord(k)
    PROVE  Rest'
<1>0. gate = "build" /\ status # "down" /\ mu \in {"free", "failStop"}
      /\ k \in scan /\ pk[k] # NoEntry /\ scan' \subseteq scan
  BY Zenon DEF BuildRecord, Least, IInv, BuildInv
<1>1. UNCHANGED <<main, hint, status, pk, size, mu, doomed, todo, bumped, pend, gate, job>>
  BY Zenon DEF BuildRecord, disk, section
<1>2. NoTorn(newMain', Len(newMain')) /\ Agrees(newIdx', newMain', Len(newMain'))
  <2>1. CASE ExpiredAt(pk[k], scanNow)
    BY <1>0, <2>1, Zenon DEF BuildRecord, IInv, BuildInv
  <2>2. CASE ~ExpiredAt(pk[k], scanNow)
    <3> DEFINE rec == main[pk[k].off]
    <3>1. rec \in Line /\ rec.key = k /\ rec.kind \notin {"tomb", "torn"}
      <4>1. main \in Seq(Line)
        BY Zenon DEF IInv, TypeOK
      <4>2. pk[k].off \in 1 .. Len(main) /\ rec.key = k /\ rec.kind \notin {"tomb", "torn"}
        BY <1>0, EntryInLog, Zenon
      <4> HIDE DEF rec
      <4>3. rec \in Line
        BY <4>1, <4>2 DEF rec
      <4> QED BY <4>2, <4>3, Zenon
    <3>2. newMain' = Append(newMain, rec)
          /\ newIdx' = Upsert(newIdx, k, Len(newMain) + 1, rec.exp)
      BY <2>2, Zenon DEF BuildRecord
    <3> HIDE DEF rec
    <3>3. newMain \in Seq(Line) /\ newIdx \in Index
          /\ NoTorn(newMain, Len(newMain)) /\ Agrees(newIdx, newMain, Len(newMain))
      BY <1>0, Zenon DEF IInv, TypeOK, BuildInv
    <3>4. Len(newMain') = Len(newMain) + 1
      BY <3>1, <3>2, <3>3, AppendType, Zenon
    <3>5. Agrees(newIdx', newMain', Len(newMain'))
      BY <3>1, <3>2, <3>3, <3>4, AgreesUpsert, Zenon
    <3> QED BY <3>1, <3>2, <3>3, <3>5, NoTornAppend, Zenon
  <2> QED BY <2>1, <2>2, Zenon
<1>3. BuildInv'
  BY <1>0, <1>1, <1>2, Zenon DEF IInv, BuildInv
<1>4. UpInv' /\ JobInv'
  BY <1>1, UpFrame, JobFrame, Zenon DEF IInv
<1>5. DownInv' /\ SectionInv'
  BY <1>0, <1>1, Zenon DEF IInv, DownInv, SectionInv
<1> QED BY <1>3, <1>4, <1>5, Zenon DEF Rest

-----------------------------------------------------------------------------
(* What a client asked for.                                               *)
LEMMA ClientRest ==
    ASSUME IInv, Client
    PROVE  Rest'
<1> USE DEF Rest
<1>0. TypeOK /\ UpInv /\ DownInv /\ JobInv /\ BuildInv /\ SectionInv
  BY Zenon DEF IInv
<1>1. ASSUME NEW k \in Keys, NEW v \in Values, NEW e \in Deadlines(now), Put(k, v, e)
      PROVE  Rest'
  <2> DEFINE line == Plain(k, v, e)
  <2>1. e \in Nat
    BY <1>0, DeadlinesType, Zenon DEF TypeOK
  <2>2. line \in Line /\ line.key = k /\ line.exp = e /\ line.kind = "plain"
    BY <2>1, LineTypes, Zenon DEF Plain
  <2> HIDE DEF line
  <2>3. AppendLine(line) /\ status # "down" /\ mu = "free" /\ gate = "down"
        /\ pk' = Upsert(pk, line.key, size + 1, line.exp)
        /\ UNCHANGED <<hint, status, mu, doomed, todo, bumped, gate>>
    BY <1>1, <2>2, Zenon DEF Put, CanWrite, section, line
  <2>4. \E w : MaybeWriteHint(pk', size', w)
    BY <1>1, Zenon DEF Put
  <2> HIDE DEF Rest
  <2> QED BY <2>2, <2>3, <2>4, UpsertStep, Zenon
<1>2. ASSUME NEW k \in Keys, Delete(k)
      PROVE  Rest'
  <2>1. DeleteLocked(k) /\ status # "down" /\ mu = "free" /\ gate = "down"
        /\ UNCHANGED <<hint, status, mu, doomed, todo, bumped, gate>>
    BY <1>2, Zenon DEF Delete, CanWrite, section
  <2>2. \E w : MaybeWriteHint(pk', size', w)
    BY <1>2, Zenon DEF Delete
  <2> HIDE DEF Rest
  <2> QED BY <2>1, <2>2, RemoveStep, Zenon
<1>3. ASSUME NEW k \in Keys, NEW n \in Counters, CounterPatch(k, n)
      PROVE  Rest'
  BY <1>3, PatchStep, Zenon
<1>4. ASSUME NEW k \in Keys, NEW n \in Counters, NEW e \in Deadlines(now),
             CounterCreate(k, n, e)
      PROVE  Rest'
  <2> DEFINE line == Counter(k, n, e)
  <2>1. e \in Nat
    BY <1>0, DeadlinesType, Zenon DEF TypeOK
  <2>2. line \in Line /\ line.key = k /\ line.exp = e /\ line.kind = "counter"
    BY <2>1, LineTypes, Zenon DEF Counter
  <2> HIDE DEF line
  <2>3. AppendLine(line) /\ status # "down" /\ mu = "free" /\ gate = "down"
        /\ pk' = Upsert(pk, line.key, size + 1, line.exp)
        /\ UNCHANGED <<hint, status, mu, doomed, todo, bumped, gate>>
    BY <1>4, <2>2, Zenon DEF CounterCreate, CanWrite, section, line
  <2>4. \E w : MaybeWriteHint(pk', size', w)
    BY <1>4, Zenon DEF CounterCreate
  <2> HIDE DEF Rest
  <2> QED BY <2>2, <2>3, <2>4, UpsertStep, Zenon
<1>5. ASSUME NEW k \in Keys, NEW e \in Deadlines(now), CounterLapse(k, e)
      PROVE  Rest'
  <2>1. DeleteLocked(k) /\ status # "down" /\ mu = "free" /\ gate = "down"
        /\ mu' = "counter" /\ pend'.key = k
        /\ UNCHANGED <<hint, status, doomed, todo, bumped, gate, job>>
    BY <1>5, Zenon DEF CounterLapse, CanWrite
  <2> HIDE DEF Rest
  <2> QED BY <2>1, RemoveStep, Zenon
<1>6. ASSUME NEW n \in Counters, CounterRecreate(n)
      PROVE  Rest'
  <2> DEFINE line == Counter(pend.key, n, pend.exp)
  <2>1. mu = "counter" /\ pend.key \in Keys /\ status # "down" /\ gate # "build"
    BY <1>0, <1>6, Zenon DEF CounterRecreate, SectionInv, BuildInv
  <2>2. pend.exp \in Nat
    BY <1>0, Zenon DEF TypeOK
  <2>3. line \in Line /\ line.key = pend.key /\ line.exp = pend.exp /\ line.kind = "counter"
    BY <2>1, <2>2, LineTypes, Zenon DEF Counter
  <2> HIDE DEF line
  <2>4. AppendLine(line) /\ mu' = "free"
        /\ pk' = Upsert(pk, line.key, size + 1, line.exp)
        /\ UNCHANGED <<hint, status, doomed, todo, bumped, gate>>
    BY <1>6, <2>3, Zenon DEF CounterRecreate, line
  <2>5. \E w : MaybeWriteHint(pk', size', w)
    BY <1>6, Zenon DEF CounterRecreate
  <2> HIDE DEF Rest
  <2> QED BY <2>1, <2>3, <2>4, <2>5, UpsertStep, Zenon
<1>7. CASE CounterDecline
  <2>1. mu = "counter" /\ mu' = "free"
        /\ UNCHANGED <<main, hint, status, pk, size, doomed, todo, bumped, gate, job>>
    BY <1>7, Zenon DEF CounterDecline, disk
  <2>2. status # "down" /\ gate # "build" /\ ~bumped
    BY <1>0, <2>1, Zenon DEF SectionInv, BuildInv, JobInv
  <2>3. UpInv' /\ JobInv'
    BY <1>0, <2>1, <2>2, UpFrame, JobFrame, Zenon
  <2> QED BY <1>0, <2>1, <2>2, <2>3, Zenon DEF DownInv, BuildInv, SectionInv
<1>8. ASSUME NEW cutoff, NEW side, RangeStart(cutoff, side)
      PROVE  Rest'
  <2>1. status # "down" /\ mu = "free" /\ gate = "down" /\ mu' = "range"
        /\ doomed' = todo' /\ doomed = {}
        /\ UNCHANGED <<main, hint, status, pk, size, bumped, pend, gate, job>>
    BY <1>0, <1>8, Zenon DEF RangeStart, CanWrite, SectionInv, disk
  <2>2. doomed' \ todo' = doomed \ todo
    BY <2>1, Zenon
  <2> QED BY <1>0, <2>1, <2>2, Zenon DEF UpInv, DownInv, JobInv, BuildInv, SectionInv
<1>9. ASSUME NEW k \in Keys, RangeTombstone(k)
      PROVE  Rest'
  BY <1>9, RangeStep, Zenon
<1>10. CASE RangeApply
  <2>1. /\ mu = "range" /\ todo = {} /\ todo' = {} /\ doomed' = {} /\ mu' = "hintRange"
        /\ pk' = RemoveKeys(pk, doomed)
        /\ UNCHANGED <<main, hint, status, size, bumped, pend, gate, job>>
    BY <1>10, Zenon DEF RangeApply, disk
  <2>2. status # "down" /\ gate # "build" /\ ~bumped
    BY <1>0, <2>1, Zenon DEF SectionInv, BuildInv, JobInv
  <2>3. pk' \in Index
    BY <1>0, <2>1, RemoveType, Zenon DEF TypeOK
  <2>4. doomed \ todo = doomed /\ doomed' \ todo' = {}
    BY <2>1, Zenon
  <2>5. RemoveKeys(pk', doomed' \ todo') = RemoveKeys(pk, doomed \ todo)
    BY <2>1, <2>3, <2>4, RemoveNothing, Zenon
  <2>6. UpInv'
    BY <1>0, <2>1, <2>2, <2>5, Zenon DEF UpInv
  <2>7. JobInv'
    BY <1>0, <2>1, <2>2, JobFrame, Zenon
  <2> QED BY <1>0, <2>1, <2>2, <2>6, <2>7, Zenon DEF DownInv, BuildInv, SectionInv
<1> HIDE DEF Rest
<1> QED BY <1>1, <1>2, <1>3, <1>4, <1>5, <1>6, <1>7, <1>8, <1>9, <1>10, Zenon DEF Client

(* Reads that meet an expired entry, and the reaper.                      *)
LEMMA ReapRest ==
    ASSUME IInv, (\E k \in Keys : ReadExpired(k)) \/ (\E n \in 1 .. BatchMax : ReapStart(n))
           \/ ReapDelete \/ ReapSkip \/ ReapEnd
    PROVE  Rest'
<1> USE DEF Rest
<1>0. TypeOK /\ UpInv /\ DownInv /\ JobInv /\ BuildInv /\ SectionInv
  BY Zenon DEF IInv
<1>1. ASSUME NEW k \in Keys, ReadExpired(k)
       PROVE  Rest'
  BY <1>0, <1>1, Zenon DEF ReadExpired, disk, section, rebuild,
                     UpInv, DownInv, JobInv, BuildInv, SectionInv
<1>2. ASSUME NEW n \in 1 .. BatchMax, ReapStart(n)
       PROVE  Rest'
  BY <1>0, <1>2, Zenon DEF ReapStart, CanWrite, disk, rebuild,
                     UpInv, DownInv, JobInv, BuildInv, SectionInv
<1>3. CASE ReapDelete
  <2>1. Head(batch).key \in Keys
    <3>1. batch \in Seq(Request) /\ batch # <<>>
      BY <1>0, <1>3, Zenon DEF ReapDelete, TypeOK
    <3>2. Head(batch) \in Request
      BY <3>1
    <3> QED BY <3>2, Zenon DEF Request
  <2>2. DeleteLocked(Head(batch).key) /\ mu = "reap"
        /\ UNCHANGED <<hint, status, mu, doomed, todo, bumped, gate, job>>
    BY <1>3, Zenon DEF ReapDelete
  <2>3. status # "down" /\ gate # "build"
    BY <1>0, <2>2, Zenon DEF SectionInv, BuildInv
  <2>4. mu \in {"free", "reap"} /\ mu' \in {"free", "reap", "counter"} /\ mu' # "counter"
    BY <2>2, Zenon
  <2> HIDE DEF Rest
  <2> QED BY <2>1, <2>2, <2>3, <2>4, RemoveStep, Zenon
<1>4. CASE ReapSkip
  BY <1>0, <1>4, Zenon DEF ReapSkip, disk, rebuild, UpInv, DownInv, JobInv, BuildInv, SectionInv
<1>5. CASE ReapEnd
  <2>1. mu = "reap" /\ mu' = "free"
        /\ UNCHANGED <<main, hint, status, pk, size, doomed, todo, bumped, pend, gate, rebuild>>
    BY <1>5, Zenon DEF ReapEnd, disk
  <2>2. status # "down" /\ gate # "build" /\ ~bumped
    BY <1>0, <2>1, Zenon DEF SectionInv, BuildInv, JobInv
  <2>3. HintFits([covers |-> size, idx |-> pk], main)
    BY <2>1, <2>2, IdleAgrees DEF HintFits
  <2>4. job' = job \/ job' = [NoJob EXCEPT !.phase = "flush", !.idx = pk, !.covers = size]
    BY <1>5, Zenon DEF ReapEnd, MaybeWriteHint
  <2>5. JobInv'
    <3>1. CASE job' = job
      BY <1>0, <2>1, <2>2, <3>1, Zenon DEF JobInv
    <3>2. CASE job' = [NoJob EXCEPT !.phase = "flush", !.idx = pk, !.covers = size]
      BY <2>1, <2>2, <2>3, <3>2, Zenon DEF JobInv, NoJob
    <3> QED BY <2>4, <3>1, <3>2, Zenon
  <2>6. UpInv'
    BY <1>0, <2>1, UpFrame, Zenon
  <2> QED BY <1>0, <2>1, <2>2, <2>5, <2>6, Zenon DEF DownInv, BuildInv, SectionInv
<1> HIDE DEF Rest
<1> QED BY <1>1, <1>2, <1>3, <1>4, <1>5, Zenon

(* Compaction.                                                            *)
LEMMA CompactRest ==
    ASSUME IInv, \/ CompactStart \/ (\E k \in Keys : BuildRecord(k)) \/ BuildFail
           \/ Swap \/ SwapFail \/ FailStop \/ LowerGate
    PROVE  Rest'
<1> USE DEF Rest
<1>0. TypeOK /\ UpInv /\ DownInv /\ JobInv /\ BuildInv /\ SectionInv
  BY Zenon DEF IInv
<1>1. CASE CompactStart
  <2>1. NoTorn(<<>>, Len(<<>>)) /\ Agrees(EmptyIndex, <<>>, Len(<<>>))
    BY EmptyAgrees DEF NoTorn
  <2>2. /\ status # "down" /\ mu = "free" /\ newMain' = <<>> /\ newIdx' = EmptyIndex
        /\ scan' = {k \in Keys : pk[k] # NoEntry}
        /\ UNCHANGED <<main, hint, status, pk, size, mu, doomed, todo, bumped, pend, job>>
    BY <1>1, Zenon DEF CompactStart, CanWrite, disk, section
  <2>3. UpInv' /\ JobInv'
    BY <1>0, <2>2, UpFrame, JobFrame, Zenon
  <2>4. BuildInv'
    BY <2>1, <2>2, Zenon DEF BuildInv
  <2> QED BY <1>0, <2>2, <2>3, <2>4, Zenon DEF DownInv, SectionInv
<1>2. ASSUME NEW k \in Keys, BuildRecord(k)
       PROVE  Rest'
  BY <1>2, BuildStep, Zenon
<1>3. CASE BuildFail
  BY <1>0, <1>3, Zenon DEF BuildFail, disk, section, rebuild,
                     UpInv, DownInv, JobInv, BuildInv, SectionInv
<1>4. CASE Swap
  <2>1. /\ gate = "build" /\ mu = "free" /\ main' = newMain /\ pk' = newIdx
        /\ size' = Len(newMain) /\ gate' = "lower" /\ mu' = "hintSwap"
        /\ UNCHANGED <<status, doomed, todo, bumped>>
    BY <1>4, Zenon DEF Swap, section
  <2>2. /\ status # "down" /\ doomed = {} /\ todo = {} /\ ~bumped
        /\ NoTorn(newMain, Len(newMain)) /\ Agrees(newIdx, newMain, Len(newMain))
    BY <1>0, <2>1, Zenon DEF BuildInv, SectionInv, JobInv
  <2>3. RemoveKeys(pk', doomed' \ todo') = newIdx
    <3>1. doomed' \ todo' = {} /\ newIdx \in Index
      BY <1>0, <2>1, <2>2, Zenon DEF TypeOK
    <3> QED BY <2>1, <3>1, RemoveNothing, Zenon
  <2> QED BY <2>1, <2>2, <2>3, Zenon DEF UpInv, DownInv, JobInv, BuildInv, SectionInv
<1>5. CASE SwapFail
  <2>1. /\ gate = "build" /\ mu = "free" /\ mu' = "failStop" /\ status' = "closing"
        /\ job'.phase = job.phase /\ job'.stale = job.stale
        /\ job'.covers = job.covers /\ job'.idx = job.idx
        /\ UNCHANGED <<main, hint, pk, size, doomed, todo, bumped, pend, gate,
                       newMain, newIdx, scan>>
    BY <1>0, <1>5, Zenon DEF SwapFail, CloseHandle, disk, section, rebuild, TypeOK
  <2>2. status # "down"
    BY <1>0, <2>1, Zenon DEF BuildInv
  <2> QED BY <1>0, <2>1, <2>2, Zenon DEF UpInv, DownInv, JobInv, BuildInv, SectionInv
<1>6. CASE FailStop
  <2>1. mu = "failStop" /\ Halt /\ UNCHANGED <<main, hint>>
    BY <1>6, Zenon DEF FailStop, disk
  <2>2. status # "down" /\ HintFits(hint, main)
    BY <1>0, <2>1, Zenon DEF SectionInv, UpInv
  <2>3. hint.covers \in Nat
    BY <1>0, Zenon DEF TypeOK, Hint
  <2> HIDE DEF Rest
  <2> QED BY <2>1, <2>2, <2>3, HaltStep, Zenon
<1>7. CASE LowerGate
  BY <1>0, <1>7, Zenon DEF LowerGate, disk, section,
                     UpInv, DownInv, JobInv, BuildInv, SectionInv
<1> HIDE DEF Rest
<1> QED BY <1>1, <1>2, <1>3, <1>4, <1>5, <1>6, <1>7, Zenon

(* The two writers of the hint.                                           *)
LEMMA HintRest ==
    ASSUME IInv, \/ HintBump \/ HintWrite \/ HintFail("hintRange")
           \/ AsyncFlush \/ AsyncCheck \/ AsyncWrite \/ AsyncGiveUp
    PROVE  Rest'
<1> USE DEF Rest
<1>0. TypeOK /\ UpInv /\ DownInv /\ JobInv /\ BuildInv /\ SectionInv
  BY Zenon DEF IInv
<1>1. CASE HintBump
  <2>1. /\ mu \in {"hintRange", "hintSwap", "hintClose"}
        /\ UNCHANGED <<main, hint, status, pk, size, mu, doomed, todo, pend, gate, rebuild>>
        /\ job' = IF job.phase = "none" THEN job ELSE [job EXCEPT !.stale = TRUE]
    BY <1>1, Zenon DEF HintBump, disk
  <2>2. status # "down" /\ gate # "build"
    BY <1>0, <2>1, Zenon DEF SectionInv, BuildInv
  <2>3. /\ job'.phase = job.phase /\ job'.covers = job.covers /\ job'.idx = job.idx
        /\ job'.phase # "none" => job'.stale
    BY <1>0, <2>1, Zenon DEF TypeOK
  <2>4. JobInv'
    BY <1>0, <2>1, <2>3, Zenon DEF JobInv
  <2> QED BY <1>0, <2>1, <2>2, <2>4, Zenon DEF UpInv, DownInv, BuildInv, SectionInv
<1>2. CASE HintWrite
  <2>1. /\ mu \in {"hintRange", "hintSwap"} /\ bumped /\ job.phase # "write"
        /\ hint' = [covers |-> size, idx |-> pk] /\ mu' = "free" /\ bumped' = FALSE
        /\ UNCHANGED <<main, status, pk, size, doomed, todo, pend, gate, job, rebuild>>
    BY <1>2, Zenon DEF HintWrite, HintMuFree
  <2>2. status # "down" /\ gate # "build"
    BY <1>0, <2>1, Zenon DEF SectionInv, BuildInv
  <2>3. HintFits(hint', main)
    BY <2>1, <2>2, IdleAgrees DEF HintFits
  <2>4. job.phase # "none" => job.stale
    BY <1>0, <2>1, Zenon DEF JobInv
  <2> QED BY <1>0, <2>1, <2>2, <2>3, <2>4, Zenon DEF UpInv, DownInv, JobInv, BuildInv, SectionInv
<1>3. CASE HintFail("hintRange")
  <2>1. /\ mu = "hintRange" /\ mu' = "free" /\ bumped' = FALSE
        /\ UNCHANGED <<main, hint, status, pk, size, doomed, todo, pend, gate, job, rebuild>>
    BY <1>3, Zenon DEF HintFail, disk
  <2>2. status # "down" /\ gate # "build"
    BY <1>0, <2>1, Zenon DEF SectionInv, BuildInv
  <2> QED BY <1>0, <2>1, <2>2, Zenon DEF UpInv, DownInv, JobInv, BuildInv, SectionInv
<1>4. CASE AsyncFlush \/ AsyncCheck
  <2>1. /\ UNCHANGED <<main, hint, status, pk, size, mu, doomed, todo, bumped, pend, gate, rebuild>>
        /\ job.phase # "none" /\ job'.phase # "none" /\ (job'.phase = "write" => ~job.stale)
        /\ job'.stale = job.stale /\ job'.covers = job.covers /\ job'.idx = job.idx
    BY <1>0, <1>4, Zenon DEF AsyncFlush, AsyncCheck, disk, section, TypeOK
  <2>2. JobInv'
    BY <1>0, <2>1, Zenon DEF JobInv
  <2>3. status # "down"
    BY <1>0, <2>1, SMTT(30) DEF DownInv, NoJob
  <2> QED BY <1>0, <2>1, <2>2, <2>3, Zenon DEF rebuild, UpInv, DownInv, BuildInv, SectionInv
<1>5. CASE AsyncWrite
  <2>1. /\ job.phase = "write" /\ hint' = [covers |-> job.covers, idx |-> job.idx]
        /\ job' = NoJob
        /\ UNCHANGED <<main, status, pk, size, mu, doomed, todo, bumped, pend, gate, rebuild>>
    BY <1>5, Zenon DEF AsyncWrite, section
  <2>2. status # "down"
    BY <1>0, <2>1, SMTT(30) DEF DownInv, NoJob
  <2>3. mu # "hintSwap" => HintFits(hint', main)
    BY <1>0, <2>1, Zenon DEF JobInv
  <2>4. JobInv'
    BY <1>0, <2>1, Zenon DEF JobInv, NoJob
  <2> QED BY <1>0, <2>1, <2>2, <2>3, <2>4, Zenon
     DEF rebuild, UpInv, DownInv, BuildInv, SectionInv
<1>6. CASE AsyncGiveUp
  <2>1. /\ job' = NoJob
        /\ UNCHANGED <<main, hint, status, pk, size, mu, doomed, todo, bumped, pend, gate, rebuild>>
    BY <1>6, Zenon DEF AsyncGiveUp, disk, section
  <2>2. JobInv'
    BY <1>0, <2>1, Zenon DEF JobInv, NoJob
  <2> QED BY <1>0, <2>1, <2>2, Zenon DEF rebuild, UpInv, DownInv, BuildInv, SectionInv
<1> HIDE DEF Rest
<1> QED BY <1>1, <1>2, <1>3, <1>4, <1>5, <1>6, Zenon

(* Close, a crash, the next Open, and time.                               *)
LEMMA LifeRest ==
    ASSUME IInv, CloseStart \/ CloseEnd \/ Crash \/ Open \/ Tick \/ UNCHANGED vars
    PROVE  Rest'
<1> USE DEF Rest
<1>0. TypeOK /\ UpInv /\ DownInv /\ JobInv /\ BuildInv /\ SectionInv
  BY Zenon DEF IInv
<1>1. CASE CloseStart
  BY <1>0, <1>1, Zenon DEF CloseStart, CanWrite, disk, section, rebuild,
                     UpInv, DownInv, JobInv, BuildInv, SectionInv
<1>2. CASE CloseEnd
  <2>1. /\ mu = "hintClose" /\ Halt /\ UNCHANGED main
        /\ hint' = [covers |-> size, idx |-> pk] \/ hint' = hint
    BY <1>2, Zenon DEF CloseEnd
  <2>2. status # "down" /\ HintFits(hint, main)
    BY <1>0, <2>1, Zenon DEF SectionInv, UpInv
  <2>3. HintFits([covers |-> size, idx |-> pk], main) /\ size \in Nat
    BY <2>1, <2>2, IdleAgrees DEF HintFits
  <2>4. HintFits(hint', main) /\ hint'.covers \in Nat
    BY <1>0, <2>1, <2>2, <2>3, SMTT(30) DEF TypeOK, Hint
  <2> HIDE DEF Rest
  <2> QED BY <2>1, <2>2, <2>4, HaltStep, Zenon
<1>3. CASE Crash
  <2>1. /\ status # "down" /\ mu # "hintSwap" /\ Halt /\ hint' = hint
        /\ main' \in {main, Append(main, Torn)}
    BY <1>3, Zenon DEF Crash
  <2>2. HintFits(hint, main) /\ hint.covers \in Nat
    BY <1>0, <2>1, Zenon DEF UpInv, TypeOK, Hint
  <2> HIDE DEF Rest
  <2> QED BY <2>1, <2>2, HaltStep, Zenon
<1>4. CASE Open
  <2>1. mu = "free" /\ gate = "down" /\ job = NoJob
    BY <1>0, <1>4, Zenon DEF Open, DownInv
  <2>2. /\ main' = LoadedLog(hint, main) /\ pk' = Load(hint, main) /\ size' = Len(main')
        /\ status' = "open" /\ UNCHANGED <<hint, mu, doomed, todo, bumped, pend, gate, job>>
    BY <1>4, Zenon DEF Open, section
  <2>3. mu # "hintSwap"
    BY <2>1, Zenon
  <2>4. /\ NoTorn(main', Len(main')) /\ Agrees(pk', main', Len(main'))
        /\ HintFits(hint, main') /\ pk' \in Index
    BY <2>2, <2>3, OpenLoads, Zenon
  <2>5. RemoveKeys(pk', doomed' \ todo') = pk'
    <3>1. doomed' \ todo' = {}
      BY <1>0, <2>1, <2>2, Zenon DEF SectionInv
    <3> QED BY <2>4, <3>1, RemoveNothing, Zenon
  <2>6. UpInv'
    BY <2>2, <2>4, <2>5, Zenon DEF UpInv
  <2>7. JobInv'
    BY <1>0, <2>1, <2>2, Zenon DEF JobInv, NoJob
  <2> QED BY <1>0, <2>1, <2>2, <2>6, <2>7, Zenon DEF DownInv, BuildInv, SectionInv
<1>5. CASE Tick
  BY <1>0, <1>5, Zenon DEF Tick, disk, section, rebuild,
                     UpInv, DownInv, JobInv, BuildInv, SectionInv
<1>6. CASE UNCHANGED vars
  BY <1>0, <1>6, Zenon DEF vars, section, rebuild,
                     UpInv, DownInv, JobInv, BuildInv, SectionInv
<1> HIDE DEF Rest
<1> QED BY <1>1, <1>2, <1>3, <1>4, <1>5, <1>6, Zenon

LEMMA RestStep ==
    ASSUME IInv, [Next]_vars
    PROVE  Rest'
BY ClientRest, ReapRest, CompactRest, HintRest, LifeRest, Zenon DEF Next, Background

-----------------------------------------------------------------------------
JobType == [phase: JobPhases, idx: Index, covers: Nat, stale: BOOLEAN, fdClosed: BOOLEAN]

LEMMA NoJobType == NoJob \in JobType
BY IndexTypes, Zenon DEF NoJob, JobType, JobPhases

LEMMA CountWritesType ==
    ASSUME NEW w \in Nat, NEW n \in Nat
    PROVE  CountWrites(w, n) \in Nat
BY StoreAssumption DEF CountWrites

LEMMA MaybeWriteHintType ==
    ASSUME NEW idx \in Index, NEW covers \in Nat, NEW w \in Nat, job \in JobType,
           MaybeWriteHint(idx, covers, w)
    PROVE  job' \in JobType /\ writes' \in Nat
BY NoJobType, Zenon DEF MaybeWriteHint, JobType, JobPhases, NoJob

-----------------------------------------------------------------------------
(* The state after Halt is typed.                                          *)
LEMMA HaltType ==
    ASSUME Halt, main' \in Seq(Line), hint' \in Hint, now' \in Nat
    PROVE  TypeOK'
<1>1. /\ newMain' \in Seq(Line) /\ batch' \in Seq(Request)
      /\ reapQ' \in Seq(Request) /\ Len(reapQ') <= ReapCap
  BY EmptyTypes, StoreAssumption DEF Halt, DropRebuild
<1>2. pk' \in Index /\ newIdx' \in Index
  BY IndexTypes, Zenon DEF Halt, DropRebuild
<1>3. job' \in JobType
  BY NoJobType, Zenon DEF Halt
<1>4. pend' \in [key: Keys \cup {0}, exp: Nat]
  BY Zenon DEF Halt, NoCounter
<1>5. /\ doomed' \in SUBSET Keys /\ todo' \in SUBSET Keys /\ scan' \in SUBSET Keys
      /\ reaped' \in BOOLEAN /\ bumped' \in BOOLEAN
      /\ status' \in {"open", "closing", "down"} /\ mu' \in Holders /\ gate' \in Gates
  BY Zenon DEF Halt, DropRebuild, Holders, Gates
<1>6. /\ scanNow' \in Nat /\ batchNow' \in Nat /\ size' \in Nat /\ writes' \in Nat
  BY Zenon DEF Halt, DropRebuild
<1> QED BY <1>1, <1>2, <1>3, <1>4, <1>5, <1>6, Zenon DEF TypeOK, JobType

(* TypeOK is preserved: one step per action.  That the set a removal is    *)
(* after can be counted is a hypothesis here; StoreProofs discharges it.   *)
LEMMA TypeStep ==
    ASSUME IInv, [Next]_vars, Cardinality(doomed) \in Nat
    PROVE  TypeOK'
<1> USE DEF TypeOK
<1>0. TypeOK
  BY Zenon DEF IInv
<1>1. ASSUME NEW k \in Keys, NEW v \in Values, NEW e \in Deadlines(now), Put(k, v, e)
      PROVE  TypeOK'
  <2>1. e \in Nat
    BY <1>0, DeadlinesType, Zenon
  <2>2. main' \in Seq(Line) /\ size' \in Nat /\ pk' \in Index
    BY <1>0, <1>1, <2>1, LineTypes, UpsertType, AppendType DEF Put, AppendLine
  <2>3. job' \in JobType /\ writes' \in Nat
    BY <1>0, <1>1, <2>2, CountWritesType, MaybeWriteHintType, Zenon DEF Put, JobType
  <2> QED BY <1>0, <1>1, <2>2, <2>3, Zenon DEF Put, section, rebuild, JobType
<1>2. ASSUME NEW k \in Keys, Delete(k)
      PROVE  TypeOK'
  <2>2. main' \in Seq(Line) /\ size' \in Nat /\ pk' \in Index
    BY <1>0, <1>2, LineTypes, RemoveType, AppendType DEF Delete, DeleteLocked, AppendLine
  <2>3. job' \in JobType /\ writes' \in Nat
    BY <1>0, <1>2, <2>2, CountWritesType, MaybeWriteHintType, Zenon DEF Delete, JobType
  <2> QED BY <1>0, <1>2, <2>2, <2>3, Zenon DEF Delete, section, rebuild, JobType
<1>3. ASSUME NEW k \in Keys, NEW n \in Counters, CounterPatch(k, n)
      PROVE  TypeOK'
  <2>1. status # "down" /\ mu # "range" /\ pk[k] # NoEntry
    BY <1>3, Zenon DEF CounterPatch, CanWrite
  <2>2. pk[k].off \in 1 .. Len(main)
    BY <2>1, EntryInLog, Zenon
  <2> DEFINE o == pk[k].off
  <2>3. [main[o] EXCEPT !.val = n] \in Line
    <3>1. main[o] \in Line /\ n \in Values \cup Counters
      BY <1>0, <2>2
    <3> QED BY <3>1, Zenon DEF Line
  <2>4. main' = [main EXCEPT ![o] = [main[o] EXCEPT !.val = n]]
    BY <1>3, Zenon DEF CounterPatch
  <2> HIDE DEF o
  <2>5. main' \in Seq(Line)
    <3>1. o \in 1 .. Len(main)
      BY <2>2, Zenon DEF o
    <3> QED BY <1>0, <2>3, <2>4, <3>1, ExceptType, Zenon
  <2> QED BY <1>0, <1>3, <2>5, Zenon DEF CounterPatch, section, rebuild
<1>4. ASSUME NEW k \in Keys, NEW n \in Counters, NEW e \in Deadlines(now),
             CounterCreate(k, n, e)
      PROVE  TypeOK'
  <2>1. e \in Nat
    BY <1>0, DeadlinesType, Zenon
  <2>2. main' \in Seq(Line) /\ size' \in Nat /\ pk' \in Index
    BY <1>0, <1>4, <2>1, LineTypes, UpsertType, AppendType DEF CounterCreate, AppendLine
  <2>3. job' \in JobType /\ writes' \in Nat
    BY <1>0, <1>4, <2>2, CountWritesType, MaybeWriteHintType, Zenon DEF CounterCreate, JobType
  <2> QED BY <1>0, <1>4, <2>2, <2>3, Zenon DEF CounterCreate, section, rebuild, JobType
<1>5. ASSUME NEW k \in Keys, NEW e \in Deadlines(now), CounterLapse(k, e)
      PROVE  TypeOK'
  <2>1. e \in Nat
    BY <1>0, DeadlinesType, Zenon
  <2>2. main' \in Seq(Line) /\ size' \in Nat /\ pk' \in Index
    BY <1>0, <1>5, LineTypes, RemoveType, AppendType DEF CounterLapse, DeleteLocked, AppendLine
  <2>3. writes' \in Nat
    BY <1>0, <1>5, CountWritesType, Zenon DEF CounterLapse
  <2> QED BY <1>0, <1>5, <2>1, <2>2, <2>3, Zenon DEF CounterLapse, rebuild, Holders
<1>6. ASSUME NEW n \in Counters, CounterRecreate(n)
      PROVE  TypeOK'
  <2>1. pend.key \in Keys \cup {0} /\ pend.exp \in Nat
    BY <1>0, Zenon
  <2>2. main' \in Seq(Line) /\ size' \in Nat /\ pk' \in Index
    BY <1>0, <1>6, <2>1, LineTypes, UpsertType, AppendType DEF CounterRecreate, AppendLine
  <2>3. job' \in JobType /\ writes' \in Nat
    BY <1>0, <1>6, <2>2, CountWritesType, MaybeWriteHintType, Zenon DEF CounterRecreate, JobType
  <2> QED BY <1>0, <1>6, <2>2, <2>3, Zenon
          DEF CounterRecreate, rebuild, JobType, Holders, NoCounter
<1>7. CASE CounterDecline
  BY <1>0, <1>7, Zenon DEF CounterDecline, disk, rebuild, Holders, NoCounter
<1>8. ASSUME NEW cutoff, NEW side, RangeStart(cutoff, side)
      PROVE  TypeOK'
  BY <1>0, <1>8, Zenon DEF RangeStart, Doomed, disk, rebuild, Holders
<1>9. ASSUME NEW k \in Keys, RangeTombstone(k)
      PROVE  TypeOK'
  <2>1. main' \in Seq(Line) /\ size' \in Nat
    BY <1>0, <1>9, LineTypes DEF RangeTombstone, AppendLine
  <2> QED BY <1>0, <1>9, <2>1, Zenon DEF RangeTombstone, rebuild
<1>10. CASE RangeApply
  <2>2. writes' \in Nat
    BY <1>0, <1>10, CountWritesType, Zenon DEF RangeApply
  <2>3. pk' \in Index
    BY <1>0, <1>10, RemoveType, Zenon DEF RangeApply
  <2> QED BY <1>0, <1>10, <2>2, <2>3, Zenon DEF RangeApply, disk, rebuild, Holders
<1>11. ASSUME NEW k \in Keys, ReadExpired(k)
       PROVE  TypeOK'
  <2>1. [key |-> k, off |-> pk[k].off] \in Request
    BY <1>0, Zenon DEF Request, Index, Entry
  <2>2. reapQ' \in Seq(Request) /\ Len(reapQ') <= ReapCap
    BY <1>0, <1>11, <2>1, StoreAssumption DEF ReadExpired, ReapQueueHasRoom
  <2> QED BY <1>0, <1>11, <2>2, Zenon DEF ReadExpired, disk, section, rebuild
<1>12. ASSUME NEW n \in 1 .. BatchMax, ReapStart(n)
       PROVE  TypeOK'
  <2>1. n \in 1 .. Len(reapQ) /\ reapQ \in Seq(Request) /\ Len(reapQ) \in Nat
    BY <1>0, <1>12, StoreAssumption DEF ReapStart
  <2>2. SubSeq(reapQ, 1, n) \in Seq(Request)
    BY <2>1
  <2>3. /\ SubSeq(reapQ, n + 1, Len(reapQ)) \in Seq(Request)
        /\ Len(SubSeq(reapQ, n + 1, Len(reapQ))) <= Len(reapQ)
    BY <2>1
  <2>4. reapQ' \in Seq(Request) /\ Len(reapQ') <= ReapCap /\ batch' \in Seq(Request)
    BY <1>0, <1>12, <2>2, <2>3, StoreAssumption, SMTT(30) DEF ReapStart
  <2> QED BY <1>0, <1>12, <2>4, Zenon DEF ReapStart, disk, rebuild, Holders
<1>13. CASE ReapDelete
  <2>1. Head(batch).key \in Keys /\ Tail(batch) \in Seq(Request)
    <3>1. batch \in Seq(Request) /\ batch # <<>>
      BY <1>0, <1>13, Zenon DEF ReapDelete
    <3>2. Head(batch) \in Request /\ Tail(batch) \in Seq(Request)
      BY <3>1
    <3> QED BY <3>2, Zenon DEF Request
  <2>2. main' \in Seq(Line) /\ size' \in Nat /\ pk' \in Index
    BY <1>0, <1>13, <2>1, LineTypes, RemoveType, AppendType DEF ReapDelete, DeleteLocked, AppendLine
  <2>3. writes' \in Nat
    BY <1>0, <1>13, CountWritesType, Zenon DEF ReapDelete
  <2> QED BY <1>0, <1>13, <2>1, <2>2, <2>3, Zenon DEF ReapDelete, rebuild
<1>14. CASE ReapSkip
  <2>1. Tail(batch) \in Seq(Request)
    BY <1>0, <1>14 DEF ReapSkip
  <2> QED BY <1>0, <1>14, <2>1, Zenon DEF ReapSkip, disk, rebuild
<1>15. CASE ReapEnd
  <2>1. job' \in JobType /\ writes' \in Nat
    BY <1>0, <1>15, MaybeWriteHintType, Zenon DEF ReapEnd, JobType
  <2> QED BY <1>0, <1>15, <2>1, Zenon DEF ReapEnd, disk, rebuild, JobType, Holders
<1>16. CASE CompactStart
  BY <1>0, <1>16, IndexTypes, EmptyTypes, Zenon DEF CompactStart, disk, section, Gates
<1>17. ASSUME NEW k \in Keys, BuildRecord(k)
       PROVE  TypeOK'
  <2>1. CASE ExpiredAt(pk[k], scanNow)
    BY <1>0, <1>17, <2>1, Zenon DEF BuildRecord, disk, section
  <2>2. CASE ~ExpiredAt(pk[k], scanNow)
    <3> DEFINE rec == main[pk[k].off]
    <3>1. status # "down" /\ mu # "range" /\ pk[k] # NoEntry
      BY <1>17, Zenon DEF BuildRecord, Least, IInv, BuildInv
    <3>2. rec \in Line
      BY SMTT(30), <1>0, <3>1, EntryInLog
    <3>3. rec.exp \in Nat
      BY <3>2, Zenon DEF Line
    <3>4. newMain' = Append(newMain, rec) /\ newIdx' = Upsert(newIdx, k, Len(newMain) + 1, rec.exp)
      BY <1>17, <2>2, Zenon DEF BuildRecord
    <3> HIDE DEF rec
    <3>5. newMain' \in Seq(Line) /\ newIdx' \in Index
      BY <1>0, <3>2, <3>3, <3>4, UpsertType, AppendType
    <3> QED BY <1>0, <1>17, <3>5, Zenon DEF BuildRecord, disk, section
  <2> QED BY <2>1, <2>2, Zenon
<1>18. CASE BuildFail
  BY <1>0, <1>18, Zenon DEF BuildFail, disk, section, rebuild, Gates
<1>19. CASE Swap
  <2>1. job' \in JobType
    BY <1>0, <1>19, Zenon DEF Swap, CloseHandle, JobType
  <2>2. main' \in Seq(Line) /\ size' \in Nat /\ pk' \in Index
    BY <1>0, <1>19 DEF Swap
  <2> QED BY <1>0, <1>19, <2>1, <2>2, Zenon DEF Swap, section, rebuild, Gates, Holders, JobType
<1>20. CASE SwapFail
  BY <1>0, <1>20, Zenon DEF SwapFail, CloseHandle, disk, section, rebuild, Gates, Holders
<1>21. CASE FailStop
  BY <1>0, <1>21, HaltType, Zenon DEF FailStop, disk
<1>22. CASE LowerGate
  BY <1>0, <1>22, IndexTypes, EmptyTypes, Zenon DEF LowerGate, DropRebuild, disk, section, Gates
<1>23. CASE HintBump
  BY <1>0, <1>23, Zenon DEF HintBump, disk, rebuild
<1>24. CASE HintWrite
  BY <1>0, <1>24, Zenon DEF HintWrite, Hint, rebuild, Holders
<1>25. CASE HintFail("hintRange")
  BY <1>0, <1>25, Zenon DEF HintFail, disk, rebuild, Holders
<1>26. CASE AsyncFlush
  BY <1>0, <1>26, Zenon DEF AsyncFlush, disk, section, rebuild, JobPhases
<1>27. CASE AsyncCheck
  BY <1>0, <1>27, Zenon DEF AsyncCheck, disk, section, rebuild, JobPhases
<1>28. CASE AsyncWrite
  BY <1>0, <1>28, NoJobType, Zenon DEF AsyncWrite, section, rebuild, Hint, JobType
<1>29. CASE AsyncGiveUp
  BY <1>0, <1>29, NoJobType, Zenon DEF AsyncGiveUp, disk, section, rebuild, JobType
<1>30. CASE CloseStart
  BY <1>0, <1>30, Zenon DEF CloseStart, disk, section, rebuild, Holders
<1>31. CASE CloseEnd
  <2>1. [covers |-> size, idx |-> pk] \in Hint
    BY <1>0, Zenon DEF Hint
  <2>2. Halt /\ main' \in Seq(Line) /\ hint' \in Hint /\ now' \in Nat
    BY <1>0, <1>31, <2>1, Zenon DEF CloseEnd
  <2> HIDE DEF TypeOK
  <2> QED BY <2>2, HaltType, Zenon
<1>32. CASE Crash
  <2>1. main' \in Seq(Line)
    <3>1. CASE UNCHANGED main
      BY <1>0, <3>1, Zenon
    <3>2. CASE main' = Append(main, Torn)
      BY <1>0, <3>2, LineTypes, AppendType, Zenon
    <3> QED BY <1>32, <3>1, <3>2, Zenon DEF Crash
  <2> QED BY <1>0, <1>32, <2>1, HaltType, Zenon DEF Crash
<1>33. CASE Open
  <2>1. main' \in Seq(Line) /\ pk' \in Index
    <3>1. mu # "hintSwap"
      BY <1>33, Zenon DEF Open, IInv, DownInv
    <3>2. LoadedLog(hint, main) \in Seq(Line) /\ Load(hint, main) \in Index
      BY <3>1, OpenLoads, Zenon
    <3> QED BY <1>33, <3>2, Zenon DEF Open
  <2>2. size' \in Nat
    <3> HIDE DEF TypeOK
    <3> QED BY <1>33, <2>1 DEF Open
  <2> QED BY <1>0, <1>33, <2>1, <2>2, Zenon DEF Open, section, rebuild
<1>34. CASE Tick
  <2>1. now' \in Nat
    <3>1. now \in Nat /\ now' = now + 1
      BY <1>0, <1>34, Zenon DEF Tick
    <3> HIDE DEF TypeOK
    <3> QED BY <3>1
  <2> QED BY <1>0, <1>34, <2>1, Zenon DEF Tick, disk, section, rebuild
<1>35. CASE UNCHANGED vars
  BY <1>0, <1>35, Zenon DEF vars, section, rebuild
<1> HIDE DEF TypeOK
<1>36. CASE Client
  BY <1>36, <1>1, <1>2, <1>3, <1>4, <1>5, <1>6, <1>7, <1>8, <1>9, <1>10, Zenon DEF Client
<1>37. CASE Background
  BY <1>37, <1>11, <1>12, <1>13, <1>14, <1>15, <1>16, <1>17, <1>18, <1>19, <1>20,
     <1>21, <1>22, <1>23, <1>24, <1>25, <1>26, <1>27, <1>28, <1>29, <1>30, <1>31,
     <1>32, <1>33, Zenon DEF Background
<1> QED BY <1>34, <1>35, <1>36, <1>37, Zenon DEF Next

-----------------------------------------------------------------------------
(* A new store satisfies the invariant.                                    *)
LEMMA InitIInv ==
    ASSUME Init
    PROVE  IInv
<1>1. TypeOK
  <2>1. /\ main \in Seq(Line) /\ newMain \in Seq(Line) /\ batch \in Seq(Request)
        /\ reapQ \in Seq(Request) /\ Len(reapQ) <= ReapCap
    BY EmptyTypes, StoreAssumption DEF Init
  <2>2. hint \in Hint /\ pk \in Index /\ newIdx \in Index /\ job \in JobType
    BY IndexTypes, NoJobType, Zenon DEF Init
  <2>3. pend \in [key: Keys \cup {0}, exp: Nat]
    BY Zenon DEF Init, NoCounter
  <2>4. /\ doomed \in SUBSET Keys /\ todo \in SUBSET Keys /\ scan \in SUBSET Keys
        /\ reaped \in BOOLEAN /\ bumped \in BOOLEAN
        /\ status \in {"open", "closing", "down"} /\ mu \in Holders /\ gate \in Gates
    BY Zenon DEF Init, Holders, Gates
  <2>5. /\ now \in Nat /\ scanNow \in Nat /\ batchNow \in Nat
        /\ size \in Nat /\ writes \in Nat
    BY Zenon DEF Init
  <2> QED BY <2>1, <2>2, <2>3, <2>4, <2>5, Zenon DEF TypeOK, JobType
<1>0. NoTorn(<<>>, Len(<<>>))
  BY DEF NoTorn
<1>2. Intact(main, 0) = <<>>
  BY <1>0, EmptyTypes, IntactWhole, Zenon DEF Init
<1>3. Agrees(EmptyIndex, <<>>, Len(<<>>)) /\ FullScan(<<>>) = EmptyIndex
  <2>1. Agrees(EmptyIndex, <<>>, Len(<<>>))
    BY EmptyAgrees, EmptyTypes, Zenon
  <2> QED BY <2>1, EmptyTypes, IndexTypes, FullScanAgrees, Zenon
<1>4. HintFits(NoHint, <<>>)
  BY EmptyAgrees, EmptyTypes DEF HintFits, NoHint
<1>5. DownInv
  BY <1>0, <1>2, <1>3, <1>4, EmptyTypes, IndexTypes, Zenon DEF Init, DownInv
<1> QED BY <1>1, <1>5, Zenon DEF IInv, Init, UpInv, JobInv, BuildInv, SectionInv, NoJob
=============================================================================
