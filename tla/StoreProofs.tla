---------------------------- MODULE StoreProofs -----------------------------
(***************************************************************************)
(* For every set of keys and values, every bound and every interleaving:   *)
(* the index in memory is what a replay of the log gives, the hint on disk *)
(* never changes what a boot recovers, and the store implements the map of *)
(* KVStore.  Contents is read off the log; an index that agrees with the   *)
(* log says the same of every key (LiveOfEntry), so each step is judged by *)
(* what it does to the entries.  The invariant and its steps are in        *)
(* StoreStepProofs; the temporal conclusions are at the end.               *)
(***************************************************************************)
EXTENDS StoreKV, StoreStepProofs, FiniteSetTheorems

(* Contents in these terms.                                                *)
LEMMA ContentsAt ==
    /\ Contents = [k \in Keys |-> LiveRecordAt(Intact(main, 0), k, now)]
    /\ Contents' = [k \in Keys |-> LiveRecordAt(Intact(main', 0), k, now')]
BY Zenon DEF Contents, LiveRecord, IsLive, LiveRecordAt, LiveAt

(* Steps that keep what Open would read of the log.                        *)
LEMMA SameLog ==
    ASSUME Intact(main', 0) = Intact(main, 0), now' = now
    PROVE  Contents' = Contents
BY ContentsAt, Zenon

(* Steps from one whole log to another that agree, entry by entry.         *)
LEMMA SameEntries ==
    ASSUME NEW log \in Seq(Line), NEW idx, NEW log2 \in Seq(Line), NEW idx2,
           main = log, main' = log2, now' = now,
           NoTorn(log, Len(log)), Agrees(idx, log, Len(log)),
           NoTorn(log2, Len(log2)), Agrees(idx2, log2, Len(log2)),
           \A k \in Keys : EntryRecord(idx2, log2, k, now) = EntryRecord(idx, log, k, now)
    PROVE  Contents' = Contents
<1>1. Intact(main, 0) = log /\ Intact(main', 0) = log2
  BY IntactWhole, Zenon
<1>2. \A k \in Keys : LiveRecordAt(log, k, now) = EntryRecord(idx, log, k, now)
  BY LiveOfEntry
<1>3. \A k \in Keys : LiveRecordAt(log2, k, now) = EntryRecord(idx2, log2, k, now)
  BY LiveOfEntry
<1>4. Contents = [k \in Keys |-> LiveRecordAt(log, k, now)]
  BY <1>1, ContentsAt, Zenon
<1>5. Contents' = [k \in Keys |-> LiveRecordAt(log2, k, now)]
  BY <1>1, ContentsAt, Zenon
<1> QED BY <1>2, <1>3, <1>4, <1>5, Zenon

-----------------------------------------------------------------------------
(* What the rewrite has copied so far: the entries that had not expired    *)
(* when it started, with their records; nothing else.                      *)
Copied(k) ==
    IF k \notin scan /\ pk[k] # NoEntry /\ ~ExpiredAt(pk[k], scanNow)
    THEN /\ newIdx[k] # NoEntry
         /\ newIdx[k].exp = pk[k].exp
         /\ newMain[newIdx[k].off] = main[pk[k].off]
    ELSE newIdx[k] = NoEntry

CopyInv == gate = "build" => \A k \in Keys : Copied(k)

(* The reaper's and the rewrite's idea of the time is not ahead.           *)
TimeInv == batchNow <= now /\ scanNow <= now

(* While the rewrite is built only its own steps touch what Copied is      *)
(* about: writers wait for the gate.                                       *)
LEMMA BuildAlone ==
    ASSUME IInv, [Next]_vars, gate' = "build"
    PROVE  \/ CompactStart
           \/ \E k \in Keys : BuildRecord(k)
           \/ UNCHANGED <<gate, pk, main, newIdx, newMain, scan, scanNow>>
<1> DEFINE Same == UNCHANGED <<gate, pk, main, newIdx, newMain, scan, scanNow>>
<1>0. /\ gate = "build" => status # "down" /\ mu \in {"free", "failStop"}
      /\ status = "down" => gate = "down"
  BY Zenon DEF IInv, BuildInv, DownInv
<1>1. CASE Client
  <2>1. ASSUME NEW k \in Keys, NEW v \in Values, NEW e \in Deadlines(now), Put(k, v, e)
        PROVE  FALSE
    BY <2>1, Zenon DEF Put, CanWrite
  <2>2. ASSUME NEW k \in Keys, Delete(k) PROVE FALSE
    BY <2>2, Zenon DEF Delete, CanWrite
  <2>3. ASSUME NEW k \in Keys, NEW n \in Counters, CounterPatch(k, n) PROVE FALSE
    BY <2>3, Zenon DEF CounterPatch, CanWrite
  <2>4. ASSUME NEW k \in Keys, NEW n \in Counters, NEW e \in Deadlines(now),
               CounterCreate(k, n, e)
        PROVE  FALSE
    BY <2>4, Zenon DEF CounterCreate, CanWrite
  <2>5. ASSUME NEW k \in Keys, NEW e \in Deadlines(now), CounterLapse(k, e) PROVE FALSE
    BY <2>5, Zenon DEF CounterLapse, CanWrite
  <2>6. ASSUME NEW k \in Keys, RangeTombstone(k) PROVE FALSE
    BY <1>0, <2>6, Zenon DEF RangeTombstone
  <2>7. ASSUME NEW c, NEW side, RangeStart(c, side) PROVE FALSE
    BY <2>7, Zenon DEF RangeStart, CanWrite
  <2>8. ASSUME NEW n \in Counters, CounterRecreate(n) PROVE FALSE
    BY <1>0, <2>8, Zenon DEF CounterRecreate
  <2>9. ~CounterDecline /\ ~RangeApply
    BY <1>0, Zenon DEF CounterDecline, RangeApply
  <2> QED BY <1>1, <2>1, <2>2, <2>3, <2>4, <2>5, <2>6, <2>7, <2>8, <2>9 DEF Client
<1>2. CASE Background
  <2>1. ASSUME NEW k \in Keys, ReadExpired(k) PROVE Same
    BY <2>1, Zenon DEF ReadExpired, disk, rebuild
  <2>2. ASSUME NEW n \in 1 .. BatchMax, ReapStart(n) PROVE FALSE
    BY <2>2, Zenon DEF ReapStart, CanWrite
  <2>3. ~ReapDelete /\ ~ReapSkip /\ ~ReapEnd
    BY <1>0, Zenon DEF ReapDelete, ReapSkip, ReapEnd
  <2>4. ~BuildFail /\ ~Swap /\ ~FailStop /\ ~LowerGate
    BY Zenon DEF BuildFail, Swap, FailStop, LowerGate, Halt
  <2>5. SwapFail => Same
    BY Zenon DEF SwapFail, disk, rebuild
  <2>6. ~HintBump /\ ~HintWrite /\ ~HintFail("hintRange")
    BY <1>0, Zenon DEF HintBump, HintWrite, HintFail
  <2>7. AsyncFlush \/ AsyncCheck \/ AsyncWrite \/ AsyncGiveUp => Same
    BY Zenon DEF AsyncFlush, AsyncCheck, AsyncWrite, AsyncGiveUp, disk, rebuild
  <2>8. ~CloseStart /\ ~CloseEnd /\ ~Crash /\ ~Open
    BY <1>0, Zenon DEF CloseStart, CanWrite, CloseEnd, Crash, Halt, Open
  <2> QED BY <1>2, <2>1, <2>2, <2>3, <2>4, <2>5, <2>6, <2>7, <2>8, Zenon DEF Background
<1>3. CASE Tick
  BY <1>3, Zenon DEF Tick, disk, rebuild
<1>4. CASE UNCHANGED vars
  BY <1>4, Zenon DEF vars, rebuild
<1> QED BY <1>1, <1>2, <1>3, <1>4 DEF Next

LEMMA CopyStep ==
    ASSUME IInv, CopyInv, [Next]_vars
    PROVE  CopyInv'
<1> SUFFICES ASSUME gate' = "build", NEW j \in Keys PROVE Copied(j)'
  BY Zenon DEF CopyInv
<1>1. CASE CompactStart
  <2>1. /\ scan' = {k \in Keys : pk[k] # NoEntry} /\ newIdx' = EmptyIndex /\ pk' = pk
    BY <1>1, Zenon DEF CompactStart
  <2> QED BY <2>1, Zenon DEF Copied, EmptyIndex
<1>2. ASSUME NEW k \in Keys, BuildRecord(k) PROVE Copied(j)'
  <2>0. /\ gate = "build" /\ k \in scan /\ scan' = scan \ {k}
        /\ UNCHANGED <<pk, main, scanNow>>
    BY <1>2, Zenon DEF BuildRecord, Least, disk
  <2>1. /\ newMain \in Seq(Line) /\ newIdx \in Index /\ Len(newMain) \in Nat
        /\ Agrees(newIdx, newMain, Len(newMain)) /\ pk[k] # NoEntry
        /\ status # "down" /\ mu # "range"
    BY <2>0 DEF IInv, TypeOK, BuildInv
  <2>2. Copied(j) /\ Copied(k)
    BY <2>0, Zenon DEF CopyInv
  <2>3. CASE ExpiredAt(pk[k], scanNow)
    <3>1. UNCHANGED <<newMain, newIdx>>
      BY <1>2, <2>3, Zenon DEF BuildRecord
    <3> QED BY <2>0, <2>2, <2>3, <3>1, Zenon DEF Copied
  <2>4. CASE ~ExpiredAt(pk[k], scanNow)
    <3> DEFINE rec == main[pk[k].off]
    <3>1. pk[k].off \in 1 .. Len(main) /\ rec.exp = pk[k].exp /\ main \in Seq(Line)
      BY <2>1, EntryInLog, Zenon DEF IInv, TypeOK
    <3>2. rec \in Line
      BY <3>1
    <3>3. newMain' = Append(newMain, rec)
          /\ newIdx' = Upsert(newIdx, k, Len(newMain) + 1, rec.exp)
      BY <1>2, <2>4, Zenon DEF BuildRecord
    <3>7. main[pk[k].off] = rec
      OBVIOUS
    <3> HIDE DEF rec
    <3>4. /\ newMain'[Len(newMain) + 1] = rec
          /\ \A i \in 1 .. Len(newMain) : newMain'[i] = newMain[i]
      BY <2>1, <3>2, <3>3
    <3>5. CASE j = k
      <4>1. newIdx'[k] = [off |-> Len(newMain) + 1, exp |-> rec.exp]
        BY <2>1, <3>3, Zenon DEF Upsert, Index
      <4>2. newIdx'[k] # NoEntry /\ newIdx'[k].exp = pk[k].exp
            /\ newMain'[newIdx'[k].off] = rec
        BY <2>1, <3>1, <3>4, <4>1 DEF NoEntry
      <4> QED BY <2>0, <2>1, <2>4, <3>5, <3>7, <4>2, Zenon DEF Copied
    <3>6. CASE j # k
      <4>1. newIdx'[j] = newIdx[j]
        BY <2>1, <3>3, <3>6, Zenon DEF Upsert, Index
      <4>2. newIdx[j] # NoEntry => newIdx[j].off \in 1 .. Len(newMain)
        BY <2>1, AgreesEntry, Zenon
      <4> QED BY <2>0, <2>2, <3>4, <3>6, <4>1, <4>2, Zenon DEF Copied
    <3> QED BY <3>5, <3>6, Zenon
  <2> QED BY <2>3, <2>4, Zenon
<1>3. CASE UNCHANGED <<gate, pk, main, newIdx, newMain, scan, scanNow>>
  BY <1>3, Zenon DEF CopyInv, Copied
<1> QED BY <1>1, <1>2, <1>3, BuildAlone, Zenon

LEMMA BackgroundTime ==
    ASSUME Background
    PROVE  /\ now' = now
           /\ batchNow' \in {batchNow, now, 0}
           /\ scanNow' \in {scanNow, now, 0}
<1> DEFINE Kept == /\ now' = now
                   /\ batchNow' \in {batchNow, now, 0}
                   /\ scanNow' \in {scanNow, now, 0}
<1>1. ASSUME NEW k, ReadExpired(k) \/ BuildRecord(k) PROVE Kept
  BY <1>1, Zenon DEF ReadExpired, BuildRecord, section, rebuild
<1>2. ASSUME NEW n, ReapStart(n) PROVE Kept
  BY <1>2, Zenon DEF ReapStart, rebuild
<1>3. ReapDelete \/ ReapSkip \/ ReapEnd => Kept
  BY Zenon DEF ReapDelete, ReapSkip, ReapEnd, rebuild
<1>4. CompactStart \/ BuildFail \/ Swap \/ SwapFail \/ LowerGate => Kept
  BY Zenon DEF CompactStart, BuildFail, Swap, SwapFail, LowerGate, DropRebuild, section, rebuild
<1>5. FailStop \/ CloseEnd \/ Crash => Kept
  BY Zenon DEF FailStop, CloseEnd, Crash, Halt, DropRebuild
<1>6. HintBump \/ HintWrite \/ HintFail("hintRange") => Kept
  BY Zenon DEF HintBump, HintWrite, HintFail, rebuild
<1>7. AsyncFlush \/ AsyncCheck \/ AsyncWrite \/ AsyncGiveUp => Kept
  BY Zenon DEF AsyncFlush, AsyncCheck, AsyncWrite, AsyncGiveUp, section, rebuild
<1>8. CloseStart \/ Open => Kept
  BY Zenon DEF CloseStart, Open, section, rebuild
<1> HIDE DEF Kept
<1>9. Kept
  BY <1>1, <1>2, <1>3, <1>4, <1>5, <1>6, <1>7, <1>8, Zenon DEF Background
<1> QED BY <1>9, Zenon DEF Kept

LEMMA TimeStep ==
    ASSUME TypeOK, TimeInv, [Next]_vars
    PROVE  TimeInv'
<1> DEFINE Same == UNCHANGED <<now, batchNow, scanNow>>
<1>0. now \in Nat /\ batchNow \in Nat /\ scanNow \in Nat /\ batchNow <= now /\ scanNow <= now
  BY Zenon DEF TypeOK, TimeInv
<1>1. CASE Client
  <2>1. ASSUME NEW k, NEW v, NEW e, Put(k, v, e) PROVE Same
    BY <2>1, Zenon DEF Put, section, rebuild
  <2>2. ASSUME NEW k, Delete(k) \/ RangeTombstone(k) PROVE Same
    BY <2>2, Zenon DEF Delete, RangeTombstone, section, rebuild
  <2>3. ASSUME NEW k, NEW n, CounterPatch(k, n) PROVE Same
    BY <2>3, Zenon DEF CounterPatch, section, rebuild
  <2>4. ASSUME NEW k, NEW n, NEW e, CounterCreate(k, n, e) PROVE Same
    BY <2>4, Zenon DEF CounterCreate, section, rebuild
  <2>5. ASSUME NEW k, NEW e, CounterLapse(k, e) PROVE Same
    BY <2>5, Zenon DEF CounterLapse, rebuild
  <2>6. ASSUME NEW c, NEW side, RangeStart(c, side) PROVE Same
    BY <2>6, Zenon DEF RangeStart, rebuild
  <2>7. ASSUME NEW n, CounterRecreate(n) PROVE Same
    BY <2>7, Zenon DEF CounterRecreate, rebuild
  <2>8. CounterDecline \/ RangeApply => Same
    BY Zenon DEF CounterDecline, RangeApply, rebuild
  <2>9. Same
    BY <1>1, <2>1, <2>2, <2>3, <2>4, <2>5, <2>6, <2>7, <2>8, Zenon DEF Client
  <2> QED BY <1>0, <2>9, Zenon DEF TimeInv
<1>2. CASE Background
  BY <1>0, <1>2, BackgroundTime DEF TimeInv
<1>3. CASE Tick
  BY <1>0, <1>3 DEF Tick, TimeInv, section, rebuild
<1>4. CASE UNCHANGED vars
  BY <1>0, <1>4, Zenon DEF vars, section, rebuild, TimeInv
<1> QED BY <1>1, <1>2, <1>3, <1>4, Zenon DEF Next

-----------------------------------------------------------------------------
(* The steps of Background that write the log.                             *)

(* The reaper buries a key that had expired anyway.                        *)
LEMMA ReapKeeps ==
    ASSUME IInv, TimeInv, ReapDelete
    PROVE  Contents' = Contents
<1> DEFINE r == Head(batch)
<1>1. /\ mu = "reap" /\ status # "down" /\ now' = now
      /\ Reapable(r) /\ DeleteLocked(r.key) /\ batch # <<>>
  <2>1. /\ mu = "reap" /\ now' = now
        /\ Reapable(r) /\ DeleteLocked(r.key) /\ batch # <<>>
    BY Zenon DEF ReapDelete
  <2>2. status # "down"
    BY <2>1, Zenon DEF IInv, SectionInv
  <2> QED BY <2>1, <2>2, Zenon
<1>2. r.key \in Keys
  <2>1. batch \in Seq(Request)
    BY Zenon DEF IInv, TypeOK
  <2>2. r \in Request
    BY <1>1, <2>1
  <2> QED BY <2>2, Zenon DEF Request
<1> HIDE DEF r
<1>3. /\ main' = Append(main, Tombstone(r.key))
      /\ pk' = RemoveKeys(pk, {r.key})
  BY <1>1, Zenon DEF DeleteLocked, AppendLine
<1>4. /\ main \in Seq(Line) /\ Len(main) \in Nat /\ pk \in Index
      /\ NoTorn(main, Len(main)) /\ Agrees(pk, main, Len(main))
  BY <1>1, IdleAgrees, Zenon
<1>5. Tombstone(r.key) \in Line /\ Tombstone(r.key).kind # "torn"
  BY <1>2, LineTypes, Zenon DEF Tombstone
<1>6. /\ main' \in Seq(Line) /\ Len(main') = Len(main) + 1
      /\ NoTorn(main', Len(main'))
  BY <1>3, <1>4, <1>5, NoTornAppend, AppendType, Zenon
<1>7. Agrees(pk', main', Len(main'))
  <2>1. Agrees(RemoveKeys(pk, {}), main, Len(main))
    BY <1>4, RemoveNothing, Zenon
  <2>2. Agrees(RemoveKeys(pk, {} \cup {r.key}), main', Len(main) + 1)
    BY <1>2, <1>3, <1>4, <2>1, AgreesRemove, Zenon
  <2>3. {} \cup {r.key} = {r.key}
    OBVIOUS
  <2> QED BY <1>3, <1>6, <2>2, <2>3, Zenon
<1>8. ASSUME NEW k \in Keys
      PROVE  EntryRecord(pk', main', k, now) = EntryRecord(pk, main, k, now)
  <2>1. CASE k = r.key
    <3>1. pk'[k] = NoEntry
      BY <1>3, <2>1, Zenon DEF RemoveKeys
    <3>2. pk[k].exp \in Nat /\ now \in Nat /\ batchNow \in Nat /\ batchNow <= now
      BY <1>4, Zenon DEF IInv, TypeOK, TimeInv, Index, Entry
    <3>3. ExpiredAt(pk[k], now)
      BY <1>1, <2>1, <3>2 DEF Reapable, ExpiredAt
    <3> QED BY <3>1, <3>3, Zenon DEF EntryRecord
  <2>2. CASE k # r.key
    <3>1. pk'[k] = pk[k]
      BY <1>3, <2>2, Zenon DEF RemoveKeys
    <3>2. pk[k] # NoEntry => main'[pk[k].off] = main[pk[k].off]
      <4>1. pk[k] # NoEntry => pk[k].off \in 1 .. Len(main)
        BY <1>4, AgreesEntry, Zenon
      <4> QED BY <1>3, <1>4, <1>5, <4>1
    <3> QED BY <3>1, <3>2, Zenon DEF EntryRecord
  <2> QED BY <2>1, <2>2, Zenon
<1> QED BY <1>1, <1>4, <1>6, <1>7, <1>8, SameEntries

(* The swap puts a log in place that says the same.                        *)
LEMMA SwapKeeps ==
    ASSUME IInv, TimeInv, CopyInv, Swap
    PROVE  Contents' = Contents
<1>1. /\ gate = "build" /\ scan = {} /\ mu = "free" /\ now' = now
      /\ main' = newMain
  BY Zenon DEF Swap
<1>2. /\ status # "down" /\ newMain \in Seq(Line)
      /\ NoTorn(newMain, Len(newMain)) /\ Agrees(newIdx, newMain, Len(newMain))
  BY <1>1, Zenon DEF IInv, TypeOK, BuildInv
<1>3. /\ main \in Seq(Line) /\ pk \in Index
      /\ NoTorn(main, Len(main)) /\ Agrees(pk, main, Len(main))
  BY <1>1, <1>2, IdleAgrees, Zenon
<1>4. ASSUME NEW k \in Keys
      PROVE  EntryRecord(newIdx, newMain, k, now) = EntryRecord(pk, main, k, now)
  <2>1. Copied(k)
    BY <1>1, Zenon DEF CopyInv
  <2>2. pk[k].exp \in Nat /\ now \in Nat /\ scanNow \in Nat /\ scanNow <= now
    BY <1>3, Zenon DEF IInv, TypeOK, TimeInv, Index, Entry
  <2>3. CASE pk[k] # NoEntry /\ ~ExpiredAt(pk[k], scanNow)
    <3>1. newIdx[k] # NoEntry /\ newIdx[k].exp = pk[k].exp
          /\ newMain[newIdx[k].off] = main[pk[k].off]
      BY <1>1, <2>1, <2>3, Zenon DEF Copied
    <3>2. ExpiredAt(newIdx[k], now) <=> ExpiredAt(pk[k], now)
      BY <3>1, Zenon DEF ExpiredAt
    <3> QED BY <2>3, <3>1, <3>2, Zenon DEF EntryRecord
  <2>4. CASE pk[k] = NoEntry \/ ExpiredAt(pk[k], scanNow)
    <3>1. newIdx[k] = NoEntry
      BY <2>1, <2>4, Zenon DEF Copied
    <3>2. pk[k] = NoEntry \/ ExpiredAt(pk[k], now)
      BY <2>2, <2>4 DEF ExpiredAt
    <3> QED BY <3>1, <3>2, Zenon DEF EntryRecord
  <2> QED BY <2>3, <2>4, Zenon
<1> QED BY <1>1, <1>2, <1>3, <1>4, SameEntries

(* A crash tears at most a line that was not there before, and a boot      *)
(* cuts off no more than that.                                             *)
LEMMA RestartKeeps ==
    ASSUME IInv, Crash \/ Open
    PROVE  Contents' = Contents
<1>1. CASE Crash
  <2>1. status # "down" /\ main' \in {main, Append(main, Torn)} /\ now' = now
    BY <1>1, Zenon DEF Crash
  <2>2. main \in Seq(Line) /\ Len(main) \in Nat /\ NoTorn(main, Len(main))
    BY <2>1, Zenon DEF IInv, TypeOK, UpInv
  <2>3. Intact(main, 0) = main /\ Intact(Append(main, Torn), 0) = main
    BY <2>2, IntactWhole, IntactTorn
  <2>4. Intact(main', 0) = Intact(main, 0)
    BY <2>1, <2>3, Zenon
  <2> QED BY <2>1, <2>4, SameLog, Zenon
<1>2. CASE Open
  <2>1. mu # "hintSwap" /\ main' = LoadedLog(hint, main) /\ now' = now
    BY <1>2, Zenon DEF Open, IInv, DownInv
  <2>2. main' = Intact(main, 0) /\ main' \in Seq(Line) /\ NoTorn(main', Len(main'))
    BY <2>1, OpenLoads, Zenon
  <2>3. Intact(main', 0) = main'
    BY <2>2, IntactWhole, Zenon
  <2> QED BY <2>1, <2>2, <2>3, SameLog, Zenon
<1> QED BY <1>1, <1>2, Zenon

LEMMA BackgroundStep ==
    ASSUME IInv, TimeInv, CopyInv, Background
    PROVE  Contents' = Contents
<1> DEFINE Same == UNCHANGED <<main, now>>
<1>1. ASSUME NEW k, ReadExpired(k) \/ BuildRecord(k) PROVE Same
  BY <1>1, Zenon DEF ReadExpired, BuildRecord, disk
<1>2. ASSUME NEW n, ReapStart(n) PROVE Same
  BY <1>2, Zenon DEF ReapStart, disk
<1>3. ReapSkip \/ ReapEnd => Same
  BY Zenon DEF ReapSkip, ReapEnd, disk
<1>4. CompactStart \/ BuildFail \/ SwapFail \/ LowerGate \/ FailStop => Same
  BY Zenon DEF CompactStart, BuildFail, SwapFail, LowerGate, FailStop, disk
<1>5. HintBump \/ HintWrite \/ HintFail("hintRange") => Same
  BY Zenon DEF HintBump, HintWrite, HintFail, disk
<1>6. AsyncFlush \/ AsyncCheck \/ AsyncWrite \/ AsyncGiveUp => Same
  BY Zenon DEF AsyncFlush, AsyncCheck, AsyncWrite, AsyncGiveUp, disk
<1>7. CloseStart \/ CloseEnd => Same
  BY Zenon DEF CloseStart, CloseEnd, disk
<1>8. Same => Contents' = Contents
  BY SameLog, Zenon
<1> HIDE DEF Same
<1> QED BY <1>1, <1>2, <1>3, <1>4, <1>5, <1>6, <1>7, <1>8,
           ReapKeeps, SwapKeeps, RestartKeeps, Zenon DEF Background

-----------------------------------------------------------------------------
(* An operation of KVStore, from what becomes of each key.                 *)
LEMMA OperateStep ==
    ASSUME NEW k \in Keys, NEW rec, rec \in KV!Outcomes(k, Contents[k]), now' = now,
           \A j \in Keys : j # k => Contents'[j] = Contents[j],
           Contents'[k] = IF ExpiredAt(rec, now) THEN Tombstone(k) ELSE rec
    PROVE  KV!Operate(k)
<1>1. Contents' = [Contents EXCEPT ![k] = Contents'[k]]
  <2> DEFINE f == [j \in Keys |-> LiveRecordAt(Intact(main, 0), j, now)]
             g == [j \in Keys |-> LiveRecordAt(Intact(main', 0), j, now')]
  <2>1. Contents = f /\ Contents' = g
    BY ContentsAt, Zenon
  <2>2. \A j \in Keys : j # k => g[j] = f[j]
    BY <2>1, Zenon
  <2>3. g = [f EXCEPT ![k] = g[k]]
    BY <2>2, Zenon
  <2> HIDE DEF f, g
  <2> QED BY <2>1, <2>3, Zenon
<1>2. Contents'[k] \in {IF KV!ExpiredAt(r, now) THEN KV!Absent(k) ELSE r :
                           r \in KV!Outcomes(k, Contents[k])}
  BY Zenon DEF KV!Absent, KV!Tombstone, KV!ExpiredAt, ExpiredAt, Tombstone
<1> QED BY <1>1, <1>2, Zenon DEF KV!Operate

(* What the store contains when an index agrees with its log.              *)
LEMMA ContentsOfEntry ==
    ASSUME NEW idx, main \in Seq(Line), NoTorn(main, Len(main)),
           Agrees(idx, main, Len(main)), NEW k \in Keys
    PROVE  Contents[k] = EntryRecord(idx, main, k, now)
<1>1. Intact(main, 0) = main
  BY IntactWhole, Zenon
<1>2. Contents[k] = LiveRecordAt(main, k, now)
  BY <1>1, ContentsAt, Zenon
<1> QED BY <1>2, LiveOfEntry, Zenon

LEMMA ContentsOfEntryPrimed ==
    ASSUME NEW idx, main' \in Seq(Line), NoTorn(main', Len(main')),
           Agrees(idx, main', Len(main')), NEW k \in Keys
    PROVE  Contents'[k] = EntryRecord(idx, main', k, now')
<1>1. Intact(main', 0) = main'
  BY IntactWhole, Zenon
<1>2. Contents'[k] = LiveRecordAt(main', k, now')
  BY <1>1, ContentsAt, Zenon
<1> QED BY <1>2, LiveOfEntry, Zenon

(* A line about k decides what the store contains under k.                 *)
LEMMA AppendShows ==
    ASSUME NEW idx \in Index, main \in Seq(Line), NoTorn(main, Len(main)),
           Agrees(idx, main, Len(main)),
           NEW k \in Keys, NEW line \in Line, line.key = k, line.kind # "torn",
           line.kind = "tomb" => line = Tombstone(k),
           main' = Append(main, line), now' = now
    PROVE  /\ \A j \in Keys : j # k => Contents'[j] = Contents[j]
           /\ Contents'[k] = IF ExpiredAt(line, now) THEN Tombstone(k) ELSE line
<1> DEFINE new == IF line.kind = "tomb" THEN RemoveKeys(idx, {k})
                  ELSE Upsert(idx, k, Len(main) + 1, line.exp)
<1>0. /\ Len(main) \in Nat /\ main' \in Seq(Line) /\ Len(main') = Len(main) + 1
      /\ main'[Len(main) + 1] = line
      /\ \A i \in 1 .. Len(main) : main'[i] = main[i]
  OBVIOUS
<1>1. NoTorn(main', Len(main'))
  BY NoTornAppend, Zenon
<1>2. Agrees(new, main', Len(main'))
  <2>1. CASE line.kind = "tomb"
    <3>1. Agrees(RemoveKeys(idx, {}), main, Len(main))
      BY RemoveNothing, Zenon
    <3>2. Agrees(RemoveKeys(idx, {} \cup {k}), main', Len(main) + 1)
      BY <2>1, <3>1, AgreesRemove, Zenon
    <3>3. {} \cup {k} = {k}
      OBVIOUS
    <3> QED BY <1>0, <2>1, <3>2, <3>3, Zenon
  <2>2. CASE line.kind # "tomb"
    BY <1>0, <2>2, AgreesUpsert, Zenon
  <2> QED BY <2>1, <2>2, Zenon
<1>3. ASSUME NEW j \in Keys, j # k PROVE Contents'[j] = Contents[j]
  <2>1. new[j] = idx[j]
    BY <1>3, Zenon DEF RemoveKeys, Upsert, Index
  <2>2. idx[j] # NoEntry => idx[j].off \in 1 .. Len(main)
    BY <1>0, AgreesEntry, Zenon
  <2>3. EntryRecord(new, main', j, now) = EntryRecord(idx, main, j, now)
    <3> HIDE DEF new
    <3> QED BY <1>0, <2>1, <2>2, Zenon DEF EntryRecord
  <2> HIDE DEF new
  <2>4. Contents'[j] = EntryRecord(new, main', j, now')
    BY <1>0, <1>1, <1>2, ContentsOfEntryPrimed, Zenon
  <2>5. Contents[j] = EntryRecord(idx, main, j, now)
    BY ContentsOfEntry, Zenon
  <2> QED BY <2>3, <2>4, <2>5, Zenon
<1>4. Contents'[k] = IF ExpiredAt(line, now) THEN Tombstone(k) ELSE line
  <2>1. EntryRecord(new, main', k, now) = IF ExpiredAt(line, now) THEN Tombstone(k) ELSE line
    <3>1. CASE line.kind = "tomb"
      <4>1. new[k] = NoEntry
        BY <3>1, Zenon DEF RemoveKeys
      <4> HIDE DEF new
      <4> QED BY <3>1, <4>1, Zenon DEF EntryRecord
    <3>2. CASE line.kind # "tomb"
      <4>1. new[k] = [off |-> Len(main) + 1, exp |-> line.exp]
        BY <3>2, Zenon DEF Upsert, Index
      <4> HIDE DEF new
      <4>2. new[k] # NoEntry /\ main'[new[k].off] = line
        BY <1>0, <4>1 DEF NoEntry
      <4>3. ExpiredAt(new[k], now) <=> ExpiredAt(line, now)
        BY <4>1 DEF ExpiredAt
      <4> QED BY <4>2, <4>3, Zenon DEF EntryRecord
    <3> QED BY <3>1, <3>2, Zenon
  <2> HIDE DEF new
  <2>2. Contents'[k] = EntryRecord(new, main', k, now')
    BY <1>0, <1>1, <1>2, ContentsOfEntryPrimed, Zenon
  <2> QED BY <2>1, <2>2, Zenon
<1> QED BY <1>3, <1>4, Zenon

-----------------------------------------------------------------------------
(* Between the two writes of a counter call that found its key expired the *)
(* key has no entry, and the new deadline is one a call may carry.         *)
PendInv == mu = "counter" => pk[pend.key] = NoEntry /\ pend.exp \in Deadlines(now)

LEMMA DeadlinesGrow ==
    ASSUME NEW t \in Nat
    PROVE  Deadlines(t) \subseteq Deadlines(t + 1)
<1>1. 1 .. t \subseteq 1 .. t + 1
  OBVIOUS
<1> QED BY <1>1 DEF Deadlines

LEMMA PendStep ==
    ASSUME IInv, PendInv, [Next]_vars
    PROVE  PendInv'
<1> DEFINE Same == UNCHANGED <<mu, pk, pend, now>>
<1> SUFFICES ASSUME mu' = "counter" PROVE PendInv'
  BY Zenon DEF PendInv
<1>0. Same => PendInv'
  BY Zenon DEF PendInv
<1>1. CASE Client
  <2>1. ASSUME NEW k, NEW v, NEW e, Put(k, v, e) PROVE FALSE
    BY <2>1, Zenon DEF Put, CanWrite
  <2>2. ASSUME NEW k, Delete(k) \/ RangeTombstone(k) PROVE FALSE
    BY <2>2, Zenon DEF Delete, CanWrite, RangeTombstone
  <2>3. ASSUME NEW k, NEW n, CounterPatch(k, n) PROVE FALSE
    BY <2>3, Zenon DEF CounterPatch, CanWrite
  <2>4. ASSUME NEW k, NEW n, NEW e, CounterCreate(k, n, e) PROVE FALSE
    BY <2>4, Zenon DEF CounterCreate, CanWrite
  <2>5. ASSUME NEW k \in Keys, NEW e \in Deadlines(now), CounterLapse(k, e) PROVE PendInv'
    BY <2>5, Zenon DEF CounterLapse, DeleteLocked, RemoveKeys, PendInv
  <2>6. ASSUME NEW c, NEW side, RangeStart(c, side) PROVE FALSE
    BY <2>6, Zenon DEF RangeStart
  <2>7. ASSUME NEW n, CounterRecreate(n) PROVE FALSE
    BY <2>7, Zenon DEF CounterRecreate
  <2>8. ~CounterDecline /\ ~RangeApply
    BY Zenon DEF CounterDecline, RangeApply
  <2> QED BY <1>1, <2>1, <2>2, <2>3, <2>4, <2>5, <2>6, <2>7, <2>8, Zenon DEF Client
<1>2. CASE Background
  <2>1. ASSUME NEW k, ReadExpired(k) \/ BuildRecord(k) PROVE Same
    BY <2>1, Zenon DEF ReadExpired, BuildRecord, section
  <2>2. ASSUME NEW n, ReapStart(n) PROVE FALSE
    BY <2>2, Zenon DEF ReapStart
  <2>3. ~ReapDelete /\ ~ReapSkip /\ ~ReapEnd
    BY Zenon DEF ReapDelete, ReapSkip, ReapEnd
  <2>4. ~Swap /\ ~SwapFail /\ ~LowerGate /\ ~CompactStart
    BY Zenon DEF Swap, SwapFail, LowerGate, CompactStart, CanWrite
  <2>5. ~FailStop /\ ~CloseStart /\ ~CloseEnd /\ ~Crash
    BY Zenon DEF FailStop, CloseStart, CloseEnd, Crash, Halt
  <2>6. ~HintBump /\ ~HintWrite /\ ~HintFail("hintRange")
    BY Zenon DEF HintBump, HintWrite, HintFail
  <2>7. BuildFail \/ AsyncFlush \/ AsyncCheck \/ AsyncWrite \/ AsyncGiveUp => Same
    BY Zenon DEF BuildFail, AsyncFlush, AsyncCheck, AsyncWrite, AsyncGiveUp, section
  <2>8. ~Open
    BY Zenon DEF Open, IInv, DownInv
  <2> HIDE DEF Same
  <2> QED BY <1>0, <1>2, <2>1, <2>2, <2>3, <2>4, <2>5, <2>6, <2>7, <2>8, Zenon DEF Background
<1>3. CASE Tick
  <2>1. now \in Nat /\ now' = now + 1 /\ UNCHANGED <<mu, pk, pend>>
    BY <1>3, Zenon DEF Tick, section, IInv, TypeOK
  <2> QED BY <2>1, DeadlinesGrow, Zenon DEF PendInv
<1>4. CASE UNCHANGED vars
  BY <1>0, <1>4, Zenon DEF vars, section
<1> QED BY <1>1, <1>2, <1>3, <1>4, Zenon DEF Next

-----------------------------------------------------------------------------
(* What KVStore allows an operation to leave behind.                       *)
LEMMA OutcomesOf ==
    ASSUME NEW k \in Keys, NEW old
    PROVE  /\ \A v \in Values, e \in Deadlines(now) : Plain(k, v, e) \in KV!Outcomes(k, old)
           /\ Tombstone(k) \in KV!Outcomes(k, old)
           /\ old = Tombstone(k) =>
                 \A n \in Counters, e \in Deadlines(now) :
                     Counter(k, n, e) \in KV!Outcomes(k, old)
           /\ old.kind = "counter" =>
                 \A n \in Counters : [old EXCEPT !.val = n] \in KV!Outcomes(k, old)
<1>0. KV!Deadlines(now) = Deadlines(now) /\ KV!Counters = Counters
  BY DEF KV!Deadlines, Deadlines, KV!Counters, Counters
<1> USE DEF KV!Outcomes
<1>1. ASSUME NEW v \in Values, NEW e \in Deadlines(now)
      PROVE  Plain(k, v, e) \in KV!Outcomes(k, old)
  <2>1. Plain(k, v, e) \in KV!Puts(k)
    <3>1. Plain(k, v, e) = KV!Plain(k, v, e)
      BY Zenon DEF KV!Plain, Plain
    <3> QED BY <1>0, <3>1 DEF KV!Puts
  <2> QED BY <2>1, Zenon
<1>2. Tombstone(k) \in KV!Outcomes(k, old)
  <2>1. Tombstone(k) = KV!Absent(k)
    BY Zenon DEF KV!Absent, KV!Tombstone, Tombstone
  <2> QED BY <2>1, Zenon
<1>3. ASSUME old = Tombstone(k), NEW n \in Counters, NEW e \in Deadlines(now)
      PROVE  Counter(k, n, e) \in KV!Outcomes(k, old)
  <2>1. old = KV!Absent(k)
    BY <1>3, Zenon DEF KV!Absent, KV!Tombstone, Tombstone
  <2>2. Counter(k, n, e) \in KV!CreatedCounters(k)
    <3>1. Counter(k, n, e) = KV!Counter(k, n, e)
      BY Zenon DEF KV!Counter, Counter
    <3> QED BY <1>0, <3>1 DEF KV!CreatedCounters
  <2> QED BY <2>1, <2>2, Zenon
<1>4. ASSUME old.kind = "counter", NEW n \in Counters
      PROVE  [old EXCEPT !.val = n] \in KV!Outcomes(k, old)
  <2>1. [old EXCEPT !.val = n] \in KV!UpdatedCounters(old)
    BY Zenon DEF KV!UpdatedCounters, KV!Counters, Counters
  <2> QED BY <1>4, <2>1, Zenon
<1> QED BY <1>1, <1>2, <1>3, <1>4, Zenon

(* A running store and the index its log stands for.                       *)
LEMMA UpAgrees ==
    ASSUME IInv, status # "down"
    PROVE  /\ main \in Seq(Line) /\ NoTorn(main, Len(main))
           /\ RemoveKeys(pk, doomed \ todo) \in Index
           /\ Agrees(RemoveKeys(pk, doomed \ todo), main, Len(main))
BY RemoveType, Zenon DEF IInv, TypeOK, UpInv

(* A line an operation appends is an operation of KVStore.                 *)
LEMMA AppendOperates ==
    ASSUME IInv, status # "down", NEW k \in Keys, NEW line \in Line,
           line.key = k, line.kind # "torn", line.kind = "tomb" => line = Tombstone(k),
           line \in KV!Outcomes(k, Contents[k]),
           main' = Append(main, line), now' = now
    PROVE  KV!Operate(k)
<1>1. /\ \A j \in Keys : j # k => Contents'[j] = Contents[j]
      /\ Contents'[k] = IF ExpiredAt(line, now) THEN Tombstone(k) ELSE line
  BY UpAgrees, AppendShows, Zenon
<1> QED BY <1>1, OperateStep, Zenon

LEMMA TombstoneOperates ==
    ASSUME IInv, status # "down", NEW k \in Keys,
           main' = Append(main, Tombstone(k)), now' = now
    PROVE  KV!Operate(k)
<1>1. Tombstone(k) \in Line /\ Tombstone(k).key = k /\ Tombstone(k).kind = "tomb"
  BY LineTypes, Zenon DEF Tombstone
<1>2. Tombstone(k) \in KV!Outcomes(k, Contents[k])
  BY OutcomesOf, Zenon
<1> QED BY <1>1, <1>2, AppendOperates, Zenon

(* A counter is created where there was no record.                         *)
LEMMA CreateOperates ==
    ASSUME IInv, status # "down", mu # "range", NEW k \in Keys, pk[k] = NoEntry,
           NEW n \in Counters, NEW e \in Deadlines(now),
           main' = Append(main, Counter(k, n, e)), now' = now
    PROVE  KV!Operate(k)
<1>1. e \in Nat
  BY DeadlinesType, Zenon DEF IInv, TypeOK
<1>2. /\ Counter(k, n, e) \in Line /\ Counter(k, n, e).key = k
      /\ Counter(k, n, e).kind = "counter"
  BY <1>1, LineTypes, Zenon DEF Counter
<1>3. Contents[k] = EntryRecord(pk, main, k, now)
  BY IdleAgrees, ContentsOfEntry, Zenon
<1>4. Contents[k] = Tombstone(k)
  BY <1>3, Zenon DEF EntryRecord
<1>5. Counter(k, n, e) \in KV!Outcomes(k, Contents[k])
  BY <1>4, OutcomesOf, Zenon
<1> QED BY <1>2, <1>5, AppendOperates, Zenon

(* A counter patched in place keeps its deadline and its neighbours.       *)
LEMMA PatchOperates ==
    ASSUME IInv, NEW k \in Keys, NEW n \in Counters, CounterPatch(k, n)
    PROVE  KV!Operate(k)
<1>1. /\ status # "down" /\ mu # "range" /\ now' = now
      /\ pk[k] # NoEntry /\ ~ExpiredAt(pk[k], now) /\ IsCounter(k)
      /\ main' = [main EXCEPT ![pk[k].off].val = n]
  BY Zenon DEF CounterPatch, CanWrite
<1>2. /\ main \in Seq(Line) /\ Len(main) \in Nat /\ pk \in Index
      /\ NoTorn(main, Len(main)) /\ Agrees(pk, main, Len(main))
  BY <1>1, IdleAgrees, Zenon
<1> DEFINE o == pk[k].off
           rec == main[o]
           new == [rec EXCEPT !.val = n]
<1>3. o \in 1 .. Len(main) /\ rec.key = k /\ rec.exp = pk[k].exp
  BY <1>1, EntryInLog, Zenon
<1>4. rec \in Line /\ rec.kind = "counter"
  BY <1>1, <1>2, <1>3 DEF IsCounter
<1>5. new \in Line /\ new.key = rec.key /\ new.kind = rec.kind /\ new.exp = rec.exp
  <2> HIDE DEF rec
  <2> QED BY <1>4, Zenon DEF Line
<1>6. main' = [main EXCEPT ![o] = new]
  BY <1>1, Zenon
<1> HIDE DEF new
<1>7. /\ main' \in Seq(Line) /\ Len(main') = Len(main) /\ main'[o] = new
      /\ \A i \in 1 .. Len(main) : i # o => main'[i] = main[i]
  BY <1>2, <1>3, <1>5, <1>6
<1>8. SameShape(main, main', Len(main))
  <2> SUFFICES ASSUME NEW i \in 1 .. Len(main)
               PROVE  /\ main'[i].key = main[i].key
                      /\ main'[i].kind = main[i].kind
                      /\ main'[i].exp = main[i].exp
    BY Zenon DEF SameShape
  <2>1. CASE i = o
    BY <1>5, <1>7, <2>1, Zenon
  <2>2. CASE i # o
    BY <1>7, <2>2, Zenon
  <2> QED BY <2>1, <2>2, Zenon
<1>9. NoTorn(main', Len(main')) /\ Agrees(pk, main', Len(main'))
  BY <1>2, <1>7, <1>8, AgreesSameShape, Zenon DEF NoTorn, SameShape
<1>10. ASSUME NEW j \in Keys
       PROVE  /\ Contents[j] = EntryRecord(pk, main, j, now)
              /\ Contents'[j] = EntryRecord(pk, main', j, now)
  BY <1>1, <1>2, <1>7, <1>9, ContentsOfEntry, ContentsOfEntryPrimed, Zenon
<1>11. ASSUME NEW j \in Keys, j # k PROVE Contents'[j] = Contents[j]
  <2>1. pk[j] # NoEntry => pk[j].off \in 1 .. Len(main) /\ main[pk[j].off].key = j
    BY <1>2, AgreesEntry
  <2>2. pk[j] # NoEntry => main'[pk[j].off] = main[pk[j].off]
    BY <1>3, <1>7, <1>11, <2>1, Zenon
  <2> QED BY <1>10, <2>2, Zenon DEF EntryRecord
<1>12. Contents[k] = rec /\ Contents'[k] = new
  BY <1>1, <1>7, <1>10, Zenon DEF EntryRecord
<1>13. new \in KV!Outcomes(k, Contents[k])
  BY <1>4, <1>12, OutcomesOf, Zenon DEF new
<1>14. ~ExpiredAt(new, now)
  BY <1>1, <1>3, <1>5, Zenon DEF ExpiredAt
<1> QED BY <1>1, <1>11, <1>12, <1>13, <1>14, OperateStep, Zenon

(* Every step a client asked for is an operation of KVStore or invisible.  *)
LEMMA ClientStep ==
    ASSUME IInv, PendInv, Client
    PROVE  (\E k \in Keys : KV!Operate(k)) \/ UNCHANGED <<Contents, now>>
<1>1. ASSUME NEW k \in Keys, NEW v \in Values, NEW e \in Deadlines(now), Put(k, v, e)
      PROVE  KV!Operate(k)
  <2>1. e \in Nat
    BY DeadlinesType, Zenon DEF IInv, TypeOK
  <2>2. Plain(k, v, e) \in Line /\ Plain(k, v, e).key = k /\ Plain(k, v, e).kind = "plain"
    BY <2>1, LineTypes, Zenon DEF Plain
  <2>3. status # "down" /\ main' = Append(main, Plain(k, v, e)) /\ now' = now
    BY <1>1, Zenon DEF Put, CanWrite, AppendLine
  <2>4. Plain(k, v, e) \in KV!Outcomes(k, Contents[k])
    BY OutcomesOf, Zenon
  <2> QED BY <2>2, <2>3, <2>4, AppendOperates, Zenon
<1>2. ASSUME NEW k \in Keys, Delete(k) PROVE KV!Operate(k)
  <2>1. status # "down" /\ main' = Append(main, Tombstone(k)) /\ now' = now
    BY <1>2, Zenon DEF Delete, CanWrite, DeleteLocked, AppendLine
  <2> QED BY <2>1, TombstoneOperates, Zenon
<1>3. ASSUME NEW k \in Keys, NEW n \in Counters, CounterPatch(k, n) PROVE KV!Operate(k)
  BY <1>3, PatchOperates, Zenon
<1>4. ASSUME NEW k \in Keys, NEW n \in Counters, NEW e \in Deadlines(now),
             CounterCreate(k, n, e)
      PROVE  KV!Operate(k)
  <2>1. /\ status # "down" /\ mu # "range" /\ pk[k] = NoEntry
        /\ main' = Append(main, Counter(k, n, e)) /\ now' = now
    BY <1>4, Zenon DEF CounterCreate, CanWrite, AppendLine
  <2> QED BY <2>1, CreateOperates, Zenon
<1>5. ASSUME NEW k \in Keys, NEW e \in Deadlines(now), CounterLapse(k, e)
      PROVE  KV!Operate(k)
  <2>1. status # "down" /\ main' = Append(main, Tombstone(k)) /\ now' = now
    BY <1>5, Zenon DEF CounterLapse, CanWrite, DeleteLocked, AppendLine
  <2> QED BY <2>1, TombstoneOperates, Zenon
<1>6. ASSUME NEW k \in Keys, RangeTombstone(k) PROVE KV!Operate(k)
  <2>1. status # "down" /\ main' = Append(main, Tombstone(k)) /\ now' = now
    BY <1>6, Zenon DEF RangeTombstone, AppendLine, IInv, SectionInv
  <2> QED BY <2>1, TombstoneOperates, Zenon
<1>7. ASSUME NEW n \in Counters, CounterRecreate(n) PROVE \E k \in Keys : KV!Operate(k)
  <2>1. /\ status # "down" /\ mu = "counter" /\ pend.key \in Keys
        /\ main' = Append(main, Counter(pend.key, n, pend.exp)) /\ now' = now
    BY <1>7, Zenon DEF CounterRecreate, AppendLine, IInv, SectionInv
  <2>2. pk[pend.key] = NoEntry /\ pend.exp \in Deadlines(now)
    BY <2>1, Zenon DEF PendInv
  <2>3. KV!Operate(pend.key)
    BY <2>1, <2>2, CreateOperates, Zenon
  <2> QED BY <2>1, <2>3, Zenon
<1>8. ASSUME NEW c, NEW side, RangeStart(c, side) PROVE UNCHANGED <<Contents, now>>
  <2>1. UNCHANGED <<main, now>>
    BY <1>8, Zenon DEF RangeStart, disk
  <2> QED BY <2>1, SameLog, Zenon
<1>9. ASSUME CounterDecline \/ RangeApply PROVE UNCHANGED <<Contents, now>>
  <2>1. UNCHANGED <<main, now>>
    BY <1>9, Zenon DEF CounterDecline, RangeApply, disk
  <2> QED BY <2>1, SameLog, Zenon
<1> QED BY <1>1, <1>2, <1>3, <1>4, <1>5, <1>6, <1>7, <1>8, <1>9, Zenon DEF Client

(* A record disappears when its time-to-live has passed.                   *)
LEMMA TickStep ==
    ASSUME IInv, Tick
    PROVE  KV!Tick
<1> DEFINE log == Intact(main, 0)
<1>1. now \in Nat /\ now' = now + 1 /\ main' = main
  BY Zenon DEF Tick, disk, IInv, TypeOK
<1>2. PICK idx \in Index : log \in Seq(Line) /\ Agrees(idx, log, Len(log))
  <2>1. CASE status = "down"
    BY <2>1, Zenon DEF IInv, DownInv
  <2>2. CASE status # "down"
    <3>1. log = main
      BY <2>2, UpAgrees, IntactWhole, Zenon
    <3> HIDE DEF log
    <3> QED BY <2>2, <3>1, UpAgrees, Zenon
  <2> QED BY <2>1, <2>2, Zenon
<1>3. /\ Contents = [k \in Keys |-> LiveRecordAt(log, k, now)]
      /\ Contents' = [k \in Keys |-> LiveRecordAt(log, k, now + 1)]
  BY <1>1, ContentsAt, Zenon
<1> HIDE DEF log
<1>4. ASSUME NEW k \in Keys
      PROVE  LiveRecordAt(log, k, now + 1) =
                IF ExpiredAt(LiveRecordAt(log, k, now), now + 1)
                THEN Tombstone(k) ELSE LiveRecordAt(log, k, now)
  <2>1. /\ LiveRecordAt(log, k, now) = EntryRecord(idx, log, k, now)
        /\ LiveRecordAt(log, k, now + 1) = EntryRecord(idx, log, k, now + 1)
    BY <1>2, LiveOfEntry, Zenon
  <2>2. ~ExpiredAt(Tombstone(k), now + 1)
    BY Zenon DEF ExpiredAt, Tombstone
  <2>3. idx[k].exp \in Nat
    BY <1>2, Zenon DEF Index, Entry
  <2>4. ExpiredAt(idx[k], now) => ExpiredAt(idx[k], now + 1)
    BY <1>1, <2>3 DEF ExpiredAt
  <2>5. idx[k] # NoEntry =>
            (ExpiredAt(log[idx[k].off], now + 1) <=> ExpiredAt(idx[k], now + 1))
    <3>1. Len(log) \in Nat
      BY <1>2
    <3>2. idx[k] # NoEntry => log[idx[k].off].exp = idx[k].exp
      BY <1>2, <3>1, AgreesEntry
    <3> QED BY <3>2, Zenon DEF ExpiredAt
  <2> QED BY <2>1, <2>2, <2>4, <2>5, Zenon DEF EntryRecord
<1>5. Contents' = [k \in Keys |-> IF ExpiredAt(Contents[k], now') THEN Tombstone(k)
                                  ELSE Contents[k]]
  BY <1>1, <1>3, <1>4, Zenon
<1>6. Contents' = [k \in Keys |-> IF KV!ExpiredAt(Contents[k], now') THEN KV!Absent(k)
                                  ELSE Contents[k]]
  BY <1>5, Zenon DEF KV!Absent, KV!Tombstone, KV!ExpiredAt, ExpiredAt, Tombstone
<1> QED BY <1>1, <1>6, Zenon DEF KV!Tick

-----------------------------------------------------------------------------
(* The keys a range removal is after are finitely many (RemoveByPk).       *)
LEMMA DoomedCount ==
    ASSUME TypeOK
    PROVE  Cardinality(doomed) \in Nat
<1>1. doomed \in SUBSET Keys
  BY Zenon DEF TypeOK
<1>2. IsFiniteSet(doomed)
  BY <1>1, KeysAssumption, FS_Subset, Zenon
<1> QED BY <1>2, FS_CardinalityType, Zenon

(* IInv is inductive.                                                      *)
THEOREM Invariance == Spec => []IInv
<1>1. Init => IInv
  BY InitIInv, Zenon
<1>2. IInv /\ [Next]_vars => IInv'
  BY DoomedCount, TypeStep, RestStep, Zenon DEF IInv, Rest
<1> QED BY <1>1, <1>2, PTL DEF Spec

(* Every variable keeps its type; the reaper's channel never holds more    *)
(* than its capacity (db.go, reapAsync).                                   *)
THEOREM TypeCorrect == Spec => []TypeOK
<1>1. IInv => TypeOK
  BY Zenon DEF IInv
<1> QED BY <1>1, Invariance, PTL

(* The index in memory is always what a replay of the log would give, and  *)
(* the next append goes to the end of the file (db.go, every mutation;     *)
(* compact.go, the swap).                                                  *)
THEOREM IndexCorrect == Spec => []IndexMatchesLog
<1>1. IInv => IndexMatchesLog
  <2> SUFFICES ASSUME IInv, status # "down"
               PROVE  RemoveKeys(pk, doomed \ todo) = FullScan(main) /\ size = Len(main)
    BY Zenon DEF IndexMatchesLog
  <2>1. size = Len(main) /\ Agrees(RemoveKeys(pk, doomed \ todo), main, Len(main))
    BY Zenon DEF IInv, UpInv
  <2>2. RemoveKeys(pk, doomed \ todo) \in Index /\ Len(main) \in Nat
    BY RemoveType DEF IInv, TypeOK
  <2> QED BY <2>1, <2>2, FullScanAgrees, Zenon
<1> QED BY <1>1, Invariance, PTL

(* A boot with the hint recovers what a boot without it would, whenever    *)
(* the process stops, except between a compaction's rename and the hint    *)
(* that follows it (db.go, load, writeHint, writeHintAsync).               *)
THEOREM HintCorrect == Spec => []HintRecovers
<1>1. IInv => HintRecovers
  BY OpenLoads, Zenon DEF HintRecovers
<1> QED BY <1>1, Invariance, PTL

-----------------------------------------------------------------------------
(* Nothing the store does of its own accord changes what a client sees:    *)
(* reaping (db.go, reapBatch), compaction and its failures (compact.go),   *)
(* checkpoints, Close, a crash and the boot after it (db.go, load).        *)
THEOREM BackgroundCorrect == Spec => BackgroundKeepsContents
<1>1. Init => CopyInv /\ TimeInv
  BY DEF Init, CopyInv, TimeInv
<1>2. IInv /\ CopyInv /\ TimeInv /\ [Next]_vars => (CopyInv /\ TimeInv)'
  BY CopyStep, TimeStep, Zenon DEF IInv
<1>3. IInv /\ CopyInv /\ TimeInv => [Background => Contents' = Contents]_vars
  BY BackgroundStep, Zenon
<1> QED BY <1>1, <1>2, <1>3, Invariance, PTL DEF Spec, BackgroundKeepsContents

(* The store implements the map of KVStore: every operation, in however    *)
(* many writes, is one step of the map or none, and expiry, reaping,       *)
(* compaction, checkpoints, crashes and boots are invisible in it.         *)
THEOREM KVCorrect == Spec => ImplementsKV
<1>1. Init => KV!Init /\ PendInv
  <2> SUFFICES ASSUME Init PROVE KV!Init /\ PendInv
    OBVIOUS
  <2>1. main = <<>> /\ now = 1 /\ mu = "free"
    BY Zenon DEF Init
  <2>2. NoTorn(main, Len(main)) /\ main \in Seq(Line) /\ Agrees(EmptyIndex, main, Len(main))
    BY <2>1, EmptyTypes, EmptyAgrees DEF NoTorn
  <2>3. \A k \in Keys : Contents[k] = Tombstone(k)
    BY <2>2, ContentsOfEntry DEF EntryRecord, EmptyIndex
  <2>4. Contents = [k \in Keys |-> KV!Absent(k)]
    <3>1. \A k \in Keys : Tombstone(k) = KV!Absent(k)
      BY Zenon DEF KV!Absent, KV!Tombstone, Tombstone
    <3>2. Contents = [k \in Keys |-> Contents[k]]
      BY ContentsAt, Zenon
    <3> QED BY <2>3, <3>1, <3>2, Zenon
  <2> QED BY <2>1, <2>4, Zenon DEF KV!Init, PendInv
<1>2. IInv /\ PendInv /\ [Next]_vars => PendInv'
  BY PendStep, Zenon
<1>3. IInv /\ PendInv /\ [Next]_vars /\ [Background => Contents' = Contents]_vars
         => [KV!Next]_(KV!vars)
  <2> SUFFICES ASSUME IInv, PendInv, [Next]_vars, [Background => Contents' = Contents]_vars
               PROVE  [KV!Next]_(KV!vars)
    OBVIOUS
  <2>1. CASE Client
    BY <2>1, ClientStep, Zenon DEF KV!Next, KV!vars
  <2>2. CASE Tick
    BY <2>2, TickStep, Zenon DEF KV!Next
  <2>3. CASE Background
    <3>1. now' = now
      BY <2>3, BackgroundTime, Zenon
    <3>2. Contents' = Contents
      <4>1. CASE UNCHANGED vars
        BY <4>1, SameLog, Zenon DEF vars
      <4> QED BY <2>3, <4>1, Zenon
    <3> QED BY <3>1, <3>2, Zenon DEF KV!vars
  <2>4. CASE UNCHANGED vars
    <3>1. UNCHANGED <<main, now>>
      BY <2>4, Zenon DEF vars
    <3> QED BY <3>1, SameLog, Zenon DEF KV!vars
  <2> QED BY <2>1, <2>2, <2>3, <2>4, Zenon DEF Next
<1> QED
  BY <1>1, <1>2, <1>3, Invariance, BackgroundCorrect, PTL
  DEF Spec, BackgroundKeepsContents, ImplementsKV, KV!Spec
=============================================================================
