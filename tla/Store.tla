------------------------------- MODULE Store --------------------------------
(***************************************************************************)
(* The storage engine of one open store: mutations, lazy time-to-live and  *)
(* its reaper, compaction behind its gate, the asynchronous and the        *)
(* synchronous hint checkpoints, Close, a process crash, and the next Open.*)
(*                                                                         *)
(* An action is one critical section under db.mu, or one step of a section *)
(* that writes to disk more than once, so that a crash or the background   *)
(* hint writer can come between any two writes.  `mu` says what the holder *)
(* of the exclusive lock is doing; readers and writers need it "free".     *)
(***************************************************************************)
EXTENDS LogIndex

CONSTANTS HintEveryN,  \* writes between two asynchronous hints; 0 turns them off
          ReapCap,     \* capacity of the reaper's channel (1024 in the code)
          BatchMax,    \* most requests the reaper drains per cycle (64 in the code)
          MaxLog,      \* bound: lines in the main log
          MaxTime      \* bound: the clock

ASSUME StoreAssumption ==
    /\ HintEveryN \in Nat
    /\ ReapCap \in Nat
    /\ BatchMax \in Nat \ {0}
    /\ MaxLog \in Nat
    /\ MaxTime \in Nat

VARIABLES
    main,      \* main.jsonl
    hint,      \* the index hint file
    status,    \* "open", "closing" (closed is set, Close still runs), "down"
    now,       \* nowMillis
    pk,        \* db.pk
    size,      \* mainLog.size: where the next append believes it writes
    writes,    \* db.writes, up to HintEveryN
    mu,        \* what the holder of db.mu is doing
    doomed, todo,  \* range delete: the keys, and those without a tombstone so far
    batch,     \* reapBatch: requests still to be looked at
    batchNow,  \* reapBatch: now
    reaped,    \* reapBatch: reaped
    pend,      \* counterUpdate past an expired counter: the key and createExp
    bumped,    \* writeHint: hintGen has been bumped
    gate,      \* "down", or the gate is up: "build" before the swap, "lower" after it
    newMain, newIdx, scan, scanNow,   \* buildRewrite's file, index, cursor, now
    job,       \* the asynchronous hint writer and its snapshot
    reapQ      \* db.reapCh

disk == <<main, hint>>
section == <<doomed, todo, batch, batchNow, reaped, pend, bumped>>
rebuild == <<newMain, newIdx, scan, scanNow>>
vars == <<main, hint, status, now, pk, size, writes, mu, section, gate, rebuild,
          job, reapQ>>

Holders == {"free", "counter", "range", "reap",
            "hintRange", "hintSwap", "hintClose", "failStop"}
Gates == {"down", "build", "lower"}
JobPhases == {"none", "flush", "check", "write"}
Request == [key: Keys, off: Nat]

(* hintGen is only ever compared with the snapshot's copy of it, so the    *)
(* job records whether they differ (stale).  fdClosed: the swap has closed *)
(* the file handle the snapshot holds.                                     *)
NoJob == [phase |-> "none", idx |-> EmptyIndex, covers |-> 0,
          stale |-> FALSE, fdClosed |-> FALSE]

NoCounter == [key |-> 0, exp |-> 0]

TypeOK ==
    /\ main \in Seq(Line) /\ newMain \in Seq(Line)
    /\ hint \in Hint
    /\ status \in {"open", "closing", "down"}
    /\ now \in Nat /\ scanNow \in Nat /\ batchNow \in Nat
    /\ pk \in Index /\ newIdx \in Index
    /\ size \in Nat /\ writes \in Nat
    /\ mu \in Holders /\ gate \in Gates
    /\ doomed \in SUBSET Keys /\ todo \in SUBSET Keys /\ scan \in SUBSET Keys
    /\ batch \in Seq(Request)
    /\ reapQ \in Seq(Request) /\ Len(reapQ) <= ReapCap
    /\ reaped \in BOOLEAN /\ bumped \in BOOLEAN
    /\ pend \in [key: Keys \cup {0}, exp: Nat]
    /\ job \in [phase: JobPhases, idx: Index, covers: Nat,
                stale: BOOLEAN, fdClosed: BOOLEAN]

-----------------------------------------------------------------------------
(* An empty directory that no process has open.                            *)
Init ==
    /\ main = <<>> /\ hint = NoHint /\ now = 1
    /\ status = "down" /\ mu = "free" /\ gate = "down"
    /\ pk = EmptyIndex /\ size = 0 /\ writes = 0
    /\ doomed = {} /\ todo = {} /\ batch = <<>> /\ batchNow = 0 /\ reaped = FALSE
    /\ pend = NoCounter /\ bumped = FALSE
    /\ newMain = <<>> /\ newIdx = EmptyIndex /\ scan = {} /\ scanNow = 0
    /\ job = NoJob /\ reapQ = <<>>

DropRebuild == newMain' = <<>> /\ newIdx' = EmptyIndex /\ scan' = {} /\ scanNow' = 0

(* The store object is gone: closed, disabled, or its process has died.    *)
Halt ==
    /\ status' = "down" /\ mu' = "free" /\ gate' = "down"
    /\ pk' = EmptyIndex /\ size' = 0 /\ writes' = 0
    /\ doomed' = {} /\ todo' = {} /\ batch' = <<>> /\ batchNow' = 0 /\ reaped' = FALSE
    /\ pend' = NoCounter /\ bumped' = FALSE
    /\ DropRebuild
    /\ job' = NoJob /\ reapQ' = <<>>

-----------------------------------------------------------------------------
Room(n) == Len(main) + n <= MaxLog

(* lockWrite: a mutation needs the lock and waits out a raised gate.       *)
CanWrite == status = "open" /\ mu = "free" /\ gate = "down"
CanRead == status = "open" /\ mu = "free"

(* Mutant: the tracked size does not move.                                 *)
AppendLineKeepsSize(line) ==
    /\ main' = Append(main, line)
    /\ UNCHANGED size

(* mainLog.append at the tracked size, which is where the record is as     *)
(* long as the size is the length of the file.                             *)
AppendLine(line) ==
    /\ main' = Append(main, line)
    /\ size' = size + 1

(* db.writes is only compared with HintEveryN, so it stops there.          *)
CountWrites(w, n) == IF w + n < HintEveryN THEN w + n ELSE HintEveryN

(* maybeWriteHint after w writes: snapshot the index and start the writer  *)
(* unless one is in flight.                                                *)
MaybeWriteHint(idx, covers, w) ==
    IF HintEveryN > 0 /\ w >= HintEveryN /\ job.phase = "none"
    THEN /\ job' = [NoJob EXCEPT !.phase = "flush", !.idx = idx, !.covers = covers]
         /\ writes' = 0
    ELSE /\ writes' = w
         /\ UNCHANGED job

(* Put.                                                                    *)
Put(k, v, e) ==
    /\ CanWrite /\ Room(1)
    /\ e \in Deadlines(now)
    /\ AppendLine(Plain(k, v, e))
    /\ pk' = Upsert(pk, k, size + 1, e)
    /\ MaybeWriteHint(pk', size', CountWrites(writes, 1))
    /\ UNCHANGED <<hint, status, now, mu, section, gate, rebuild, reapQ>>

(* deleteLocked: tombstone, then the in-memory removal.                    *)
DeleteLocked(k) ==
    /\ AppendLine(Tombstone(k))
    /\ pk' = RemoveKeys(pk, {k})

(* Delete of a key that has an entry, expired or not.                      *)
Delete(k) ==
    /\ CanWrite /\ Room(1)
    /\ pk[k] # NoEntry
    /\ DeleteLocked(k)
    /\ MaybeWriteHint(pk', size', CountWrites(writes, 1))
    /\ UNCHANGED <<hint, status, now, mu, section, gate, rebuild, reapQ>>

-----------------------------------------------------------------------------
(* counterUpdate.  What Incr, Topup and Take compute is in Counter.tla;    *)
(* here an applied step yields some counter value.                         *)

(* No entry: an applied step appends a fresh counter.                      *)
CounterCreate(k, n, e) ==
    /\ CanWrite /\ Room(1)
    /\ pk[k] = NoEntry
    /\ e \in Deadlines(now)
    /\ AppendLine(Counter(k, n, e))
    /\ pk' = Upsert(pk, k, size + 1, e)
    /\ MaybeWriteHint(pk', size', CountWrites(writes, 1))
    /\ UNCHANGED <<hint, status, now, mu, section, gate, rebuild, reapQ>>

(* Mutant: any value is patched.                                           *)
IsCounterUnchecked(k) == TRUE

(* The record of k is flagged as a counter and holds one; otherwise the    *)
(* call fails with ErrNotCounter.                                          *)
IsCounter(k) == main[pk[k].off].kind = "counter"

(* A live counter: the digits are overwritten in place; offset, expiry and *)
(* index stay.                                                             *)
CounterPatch(k, n) ==
    /\ CanWrite
    /\ pk[k] # NoEntry /\ ~ExpiredAt(pk[k], now)
    /\ IsCounter(k)
    /\ main' = [main EXCEPT ![pk[k].off].val = n]
    /\ UNCHANGED <<hint, status, now, pk, size, writes, mu, section, gate,
                   rebuild, job, reapQ>>

(* An expired entry of any kind is deleted first ...                       *)
CounterLapse(k, e) ==
    /\ CanWrite /\ Room(2)
    /\ pk[k] # NoEntry /\ ExpiredAt(pk[k], now)
    /\ e \in Deadlines(now)
    /\ DeleteLocked(k)
    /\ writes' = CountWrites(writes, 1)
    /\ mu' = "counter"
    /\ pend' = [key |-> k, exp |-> e]
    /\ UNCHANGED <<hint, status, now, doomed, todo, batch, batchNow, reaped, bumped,
                   gate, rebuild, job, reapQ>>

(* ... and then created afresh, or left deleted when the step declines.    *)
CounterRecreate(n) ==
    /\ mu = "counter"
    /\ AppendLine(Counter(pend.key, n, pend.exp))
    /\ pk' = Upsert(pk, pend.key, size + 1, pend.exp)
    /\ MaybeWriteHint(pk', size', CountWrites(writes, 1))
    /\ mu' = "free"
    /\ pend' = NoCounter
    /\ UNCHANGED <<hint, status, now, doomed, todo, batch, batchNow, reaped, bumped,
                   gate, rebuild, reapQ>>

CounterDecline ==
    /\ mu = "counter"
    /\ mu' = "free"
    /\ pend' = NoCounter
    /\ UNCHANGED <<disk, status, now, pk, size, writes, doomed, todo, batch, batchNow,
                   reaped, bumped, gate, rebuild, job, reapQ>>

-----------------------------------------------------------------------------
(* RemoveByPkLess / RemoveByPkGreater: every key strictly on one side of   *)
(* the cutoff that has an entry, expired or not.                           *)
Doomed(cutoff, side) ==
    {k \in Keys : /\ pk[k] # NoEntry
                  /\ IF side = "less" THEN k < cutoff ELSE k > cutoff}

RangeStart(cutoff, side) ==
    /\ CanWrite
    /\ Doomed(cutoff, side) # {}
    /\ Room(Cardinality(Doomed(cutoff, side)))
    /\ mu' = "range"
    /\ doomed' = Doomed(cutoff, side)
    /\ todo' = doomed'
    /\ UNCHANGED <<disk, status, now, pk, size, writes, batch, batchNow, reaped,
                   pend, bumped, gate, rebuild, job, reapQ>>

Least(k, S) == k \in S /\ \A j \in S : k <= j

(* removePkEntries appends all tombstones, in key order, before it touches *)
(* memory ...                                                              *)
RangeTombstone(k) ==
    /\ mu = "range" /\ Least(k, todo)
    /\ AppendLine(Tombstone(k))
    /\ todo' = todo \ {k}
    /\ UNCHANGED <<hint, status, now, pk, writes, mu, doomed, batch, batchNow,
                   reaped, pend, bumped, gate, rebuild, job, reapQ>>

(* ... then drops the entries and goes on to a synchronous hint.           *)
RangeApply ==
    /\ mu = "range" /\ todo = {}
    /\ pk' = RemoveKeys(pk, doomed)
    /\ writes' = CountWrites(writes, Cardinality(doomed))
    /\ doomed' = {}
    /\ mu' = "hintRange"
    /\ UNCHANGED <<disk, status, now, size, todo, batch, batchNow, reaped, pend,
                   bumped, gate, rebuild, job, reapQ>>

-----------------------------------------------------------------------------
(* Mutant: the channel has no bound.                                       *)
ReapQueueUnbounded == Len(reapQ) <= ReapCap

(* reapAsync drops the request when the channel is full.                   *)
ReapQueueHasRoom == Len(reapQ) < ReapCap

(* Lazy time-to-live.  A read (Get, Has, GetMany, PrefixScan) that meets   *)
(* an expired entry reports the key missing and queues it, unless the      *)
(* queue is full; any other read changes nothing.                          *)
ReadExpired(k) ==
    /\ CanRead
    /\ pk[k] # NoEntry /\ ExpiredAt(pk[k], now)
    /\ ReapQueueHasRoom
    /\ reapQ' = Append(reapQ, [key |-> k, off |-> pk[k].off])
    /\ UNCHANGED <<disk, status, now, pk, size, writes, mu, section, gate,
                   rebuild, job>>

(* reapLoop drains up to BatchMax requests; reapBatch takes the lock.      *)
ReapStart(n) ==
    /\ CanWrite /\ Room(n)
    /\ n \in 1 .. BatchMax /\ n <= Len(reapQ)
    /\ batch' = SubSeq(reapQ, 1, n)
    /\ reapQ' = SubSeq(reapQ, n + 1, Len(reapQ))
    /\ mu' = "reap"
    /\ batchNow' = now
    /\ UNCHANGED <<disk, status, now, pk, size, writes, doomed, todo, reaped,
                   pend, bumped, gate, rebuild, job>>

(* Mutant: only the offset guards against a rewritten key.                 *)
ReapableByOffset(r) == pk[r.key] # NoEntry /\ pk[r.key].off = r.off

(* Still the entry that was observed, and still expired.                   *)
Reapable(r) ==
    /\ pk[r.key] # NoEntry
    /\ pk[r.key].off = r.off
    /\ ExpiredAt(pk[r.key], batchNow)

ReapDelete ==
    /\ mu = "reap" /\ batch # <<>>
    /\ Reapable(Head(batch))
    /\ DeleteLocked(Head(batch).key)
    /\ writes' = CountWrites(writes, 1)
    /\ reaped' = TRUE
    /\ batch' = Tail(batch)
    /\ UNCHANGED <<hint, status, now, mu, doomed, todo, batchNow, pend, bumped,
                   gate, rebuild, job, reapQ>>

ReapSkip ==
    /\ mu = "reap" /\ batch # <<>>
    /\ ~Reapable(Head(batch))
    /\ batch' = Tail(batch)
    /\ UNCHANGED <<disk, status, now, pk, size, writes, mu, doomed, todo,
                   batchNow, reaped, pend, bumped, gate, rebuild, job, reapQ>>

ReapEnd ==
    /\ mu = "reap" /\ batch = <<>>
    /\ IF reaped THEN MaybeWriteHint(pk, size, writes)
                 ELSE UNCHANGED <<job, writes>>
    /\ mu' = "free" /\ reaped' = FALSE /\ batchNow' = 0
    /\ UNCHANGED <<disk, status, now, pk, size, doomed, todo, batch, pend,
                   bumped, gate, rebuild, reapQ>>

-----------------------------------------------------------------------------
(* Compact.  raiseGate: from here on writers wait, readers do not.         *)
CompactStart ==
    /\ CanWrite
    /\ gate' = "build"
    /\ newMain' = <<>> /\ newIdx' = EmptyIndex
    /\ scan' = {k \in Keys : pk[k] # NoEntry}
    /\ scanNow' = now
    /\ UNCHANGED <<disk, status, now, pk, size, writes, mu, section, job, reapQ>>

(* buildRewrite visits the entries in key order, without the lock; an      *)
(* expired one is left out.                                                *)
BuildRecord(k) ==
    /\ gate = "build" /\ Least(k, scan)
    /\ scan' = scan \ {k}
    /\ IF ExpiredAt(pk[k], scanNow)
       THEN UNCHANGED <<newMain, newIdx>>
       ELSE LET rec == main[pk[k].off]
            IN  /\ rec.kind # "torn"
                /\ newMain' = Append(newMain, rec)
                /\ newIdx' = Upsert(newIdx, k, Len(newMain) + 1, rec.exp)
    /\ UNCHANGED <<disk, status, now, pk, size, writes, mu, section, gate,
                   scanNow, job, reapQ>>

(* Any error before the swap drops the new file and lowers the gate.       *)
BuildFail ==
    /\ gate = "build"
    /\ gate' = "lower"
    /\ UNCHANGED <<disk, status, now, pk, size, writes, mu, section, rebuild,
                   job, reapQ>>

CloseHandle == IF job.phase = "none" THEN job ELSE [job EXCEPT !.fdClosed = TRUE]

(* rewriteBody's exclusive phase up to the rename and the new handles.     *)
(* The hint on disk still describes the old file.                          *)
Swap ==
    /\ gate = "build" /\ scan = {} /\ mu = "free"
    /\ main' = newMain
    /\ pk' = newIdx
    /\ size' = Len(newMain)
    /\ writes' = 0
    /\ job' = CloseHandle
    /\ gate' = "lower" /\ mu' = "hintSwap"
    /\ UNCHANGED <<hint, status, now, section, rebuild, reapQ>>

(* The rename fails: failStop closes the store and waits for the hint      *)
(* writer, whose file handle is gone.                                      *)
SwapFail ==
    /\ gate = "build" /\ scan = {} /\ mu = "free"
    /\ status' = "closing"
    /\ job' = CloseHandle
    /\ mu' = "failStop"
    /\ UNCHANGED <<disk, now, pk, size, writes, section, gate, rebuild, reapQ>>

FailStop ==
    /\ mu = "failStop" /\ job.phase = "none"
    /\ Halt
    /\ UNCHANGED <<disk, now>>

LowerGate ==
    /\ gate = "lower" /\ mu = "free"
    /\ gate' = "down"
    /\ DropRebuild
    /\ UNCHANGED <<disk, status, now, pk, size, writes, mu, section, job, reapQ>>

-----------------------------------------------------------------------------
(* writeHint, under db.mu: bump hintGen, then take hintMu, flush and       *)
(* replace the hint file.  The background writer can run in between.       *)
HintBump ==
    /\ mu \in {"hintRange", "hintSwap", "hintClose"} /\ ~bumped
    /\ mu = "hintClose" => job.phase = "none"     \* Close: hintWG.Wait()
    /\ bumped' = TRUE
    /\ job' = IF job.phase = "none" THEN job ELSE [job EXCEPT !.stale = TRUE]
    /\ UNCHANGED <<disk, status, now, pk, size, writes, mu, doomed, todo, batch,
                   batchNow, reaped, pend, gate, rebuild, reapQ>>

(* Mutant: the checkpoint does not take hintMu.                            *)
HintMuIgnored == TRUE

(* hintMu: the background writer holds it from its check to its write.     *)
HintMuFree == job.phase # "write"

(* A checkpoint of a store that goes on running.                           *)
HintWrite ==
    /\ mu \in {"hintRange", "hintSwap"} /\ bumped /\ HintMuFree
    /\ hint' = [covers |-> size, idx |-> pk]
    /\ writes' = 0
    /\ mu' = "free" /\ bumped' = FALSE
    /\ UNCHANGED <<main, status, now, pk, size, doomed, todo, batch, batchNow,
                   reaped, pend, gate, rebuild, job, reapQ>>

(* A range delete whose checkpoint fails reports the error; the keys stay  *)
(* deleted.                                                                *)
HintFail(holder) ==
    /\ mu = holder /\ bumped /\ HintMuFree
    /\ mu' = "free" /\ bumped' = FALSE
    /\ UNCHANGED <<disk, status, now, pk, size, writes, doomed, todo, batch,
                   batchNow, reaped, pend, gate, rebuild, job, reapQ>>

(* writeHintAsync: flush the files of the snapshot, giving up on an error  *)
(* (always, once the swap has closed them) ...                             *)
AsyncFlush ==
    /\ job.phase = "flush" /\ ~job.fdClosed
    /\ job' = [job EXCEPT !.phase = "check"]
    /\ UNCHANGED <<disk, status, now, pk, size, writes, mu, section, gate,
                   rebuild, reapQ>>

(* ... under hintMu give up if a synchronous checkpoint came first ...     *)
AsyncCheck ==
    /\ job.phase = "check" /\ ~job.stale
    /\ job' = [job EXCEPT !.phase = "write"]
    /\ UNCHANGED <<disk, status, now, pk, size, writes, mu, section, gate,
                   rebuild, reapQ>>

(* ... and write the snapshot.                                             *)
AsyncWrite ==
    /\ job.phase = "write"
    /\ hint' = [covers |-> job.covers, idx |-> job.idx]
    /\ job' = NoJob
    /\ UNCHANGED <<main, status, now, pk, size, writes, mu, section, gate,
                   rebuild, reapQ>>

(* Giving up: a failed flush, a stale snapshot, a failed write.            *)
AsyncGiveUp ==
    /\ \/ job.phase \in {"flush", "write"}
       \/ job.phase = "check" /\ job.stale
    /\ job' = NoJob
    /\ UNCHANGED <<disk, status, now, pk, size, writes, mu, section, gate,
                   rebuild, reapQ>>

-----------------------------------------------------------------------------
(* Close stops the reaper, waits for the lock and an open gate, then waits *)
(* for the background writer (in HintBump) and writes a last hint.         *)
CloseStart ==
    /\ CanWrite
    /\ status' = "closing" /\ mu' = "hintClose"
    /\ UNCHANGED <<disk, now, pk, size, writes, section, gate, rebuild, job, reapQ>>

CloseEnd ==
    /\ mu = "hintClose" /\ bumped
    /\ \/ hint' = [covers |-> size, idx |-> pk]
       \/ UNCHANGED hint          \* the checkpoint failed; Close goes on
    /\ Halt
    /\ UNCHANGED <<main, now>>

(* The process dies.  What it wrote stays in the files; an append cut      *)
(* short leaves a torn line.  A crash inside the swap window, between the  *)
(* rename and the hint that follows it, is SwapCrash.                      *)
Appending == status = "open" /\ gate = "down" /\ mu \in {"free", "counter", "range", "reap"}

Crash ==
    /\ status # "down" /\ mu # "hintSwap"
    /\ \/ UNCHANGED main
       \/ Appending /\ Room(1) /\ main' = Append(main, Torn)
    /\ Halt
    /\ UNCHANGED <<hint, now>>

Open ==
    /\ status = "down"
    /\ status' = "open"
    /\ main' = LoadedLog(hint, main)
    /\ pk' = Load(hint, main)
    /\ size' = Len(main')
    /\ UNCHANGED <<hint, now, writes, mu, section, gate, rebuild, job, reapQ>>

Tick ==
    /\ now < MaxTime
    /\ now' = now + 1
    /\ UNCHANGED <<disk, status, pk, size, writes, mu, section, gate, rebuild,
                   job, reapQ>>

-----------------------------------------------------------------------------
(* What a client asked for.                                                *)
Client ==
    \/ \E k \in Keys :
          \/ \E v \in Values, e \in Deadlines(now) : Put(k, v, e)
          \/ Delete(k)
          \/ \E n \in Counters : CounterPatch(k, n)
          \/ \E n \in Counters, e \in Deadlines(now) : CounterCreate(k, n, e)
          \/ \E e \in Deadlines(now) : CounterLapse(k, e)
          \/ RangeTombstone(k)
    \/ \E cutoff \in Keys \cup {0}, side \in {"less", "greater"} : RangeStart(cutoff, side)
    \/ \E n \in Counters : CounterRecreate(n)
    \/ CounterDecline
    \/ RangeApply

(* What the store does of its own accord, or what happens to it.           *)
Background ==
    \/ \E k \in Keys : ReadExpired(k) \/ BuildRecord(k)
    \/ \E n \in 1 .. BatchMax : ReapStart(n)
    \/ ReapDelete \/ ReapSkip \/ ReapEnd
    \/ CompactStart \/ BuildFail \/ Swap \/ SwapFail \/ FailStop \/ LowerGate
    \/ HintBump \/ HintWrite \/ HintFail("hintRange")
    \/ AsyncFlush \/ AsyncCheck \/ AsyncWrite \/ AsyncGiveUp
    \/ CloseStart \/ CloseEnd \/ Crash \/ Open

Next == Client \/ Background \/ Tick

Spec == Init /\ [][Next]_vars

-----------------------------------------------------------------------------
(* Correctness.                                                            *)

(* What the log says the store contains: the record of each key that is    *)
(* neither deleted nor expired.                                            *)
IsLive(log, k, i) ==
    LastAt(log, Len(log), k, i) /\ log[i].kind # "tomb" /\ ~ExpiredAt(log[i], now)

LiveRecord(log, k) ==
    IF \E i \in DOMAIN log : IsLive(log, k, i)
    THEN log[CHOOSE i \in DOMAIN log : IsLive(log, k, i)]
    ELSE Tombstone(k)

Contents ==
    LET log == Intact(main, 0)
    IN  [k \in Keys |-> LiveRecord(log, k)]

(* The index in memory is what a full replay of the log would give, at     *)
(* every step of every operation (a range delete's tombstones precede its  *)
(* removals): Get never returns a record the log does not name, and an     *)
(* append is recorded at the place it was written to.                      *)
IndexMatchesLog ==
    status # "down" => /\ RemoveKeys(pk, doomed \ todo) = FullScan(main)
                       /\ size = Len(main)

(* The hint is only an optimisation: at any moment a boot that uses it     *)
(* recovers what a boot without it would (load, writeHint, writeHintAsync),*)
(* outside the swap window.                                                *)
HintRecovers ==
    mu # "hintSwap" => Load(hint, main) = FullScan(Intact(main, 0))

(* The offset an append reports is the offset of the record it wrote.      *)
EntryNamesItsRecord ==
    status = "open" =>
        \A k \in Keys : pk[k] # NoEntry => /\ pk[k].off \in 1 .. Len(main)
                                           /\ main[pk[k].off].key = k

(* Nothing the store does of its own accord changes what a client sees:    *)
(* reaping, compaction and its failures, checkpoints, Close, a crash and   *)
(* the boot after it.                                                      *)
BackgroundKeepsContents == [][Background => Contents' = Contents]_vars

-----------------------------------------------------------------------------
(* Faults outside Spec, each for one run of its own.                       *)

(* The process dies, or failStop runs because the new file cannot be       *)
(* opened, after the rename and before the hint is rewritten.              *)
SwapCrash ==
    /\ mu = "hintSwap"
    /\ Halt
    /\ UNCHANGED <<disk, now>>

(* Compact's writeHint may also fail: the error is returned, the store     *)
(* goes on, and the window stays open until the next checkpoint.           *)
SwapFaultSpec == Init /\ [][Next \/ SwapCrash \/ HintFail("hintSwap")]_vars

(* appendSync fails after some, or (a failing fsync) all bytes of the line *)
(* have reached the file; the tracked size does not move.                  *)
AppendFail(k) ==
    /\ CanWrite /\ Room(1)
    /\ main' \in {Append(main, Torn)} \cup {Append(main, Plain(k, v, 0)) : v \in Values}
    /\ UNCHANGED <<hint, status, now, pk, size, writes, mu, section, gate,
                   rebuild, job, reapQ>>

AppendFailSpec == Init /\ [][Next \/ \E k \in Keys : AppendFail(k)]_vars

(* A tombstone of a range delete cannot be written (nothing of it reaches  *)
(* the file): the error is returned with the earlier ones in the log.      *)
RangeFail ==
    /\ mu = "range" /\ todo # {}
    /\ mu' = "free" /\ todo' = {} /\ doomed' = {}
    /\ UNCHANGED <<disk, status, now, pk, size, writes, batch, batchNow, reaped,
                   pend, bumped, gate, rebuild, job, reapQ>>

RangeFailSpec == Init /\ [][Next \/ RangeFail]_vars
=============================================================================
