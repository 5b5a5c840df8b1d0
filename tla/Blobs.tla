-------------------------------- MODULE Blobs -------------------------------
(***************************************************************************)
(* Values kept outside the main log (blob.go, db.go Open, secindex.go      *)
(* appendRecord, compact.go BlobsRelieve and rewriteBody): the order in    *)
(* which blob bytes, log records, renames and removals reach the disk, and *)
(* what a crash, a power loss or an I/O error leaves at each point.        *)
(*                                                                         *)
(* A blob is one slot of a generation file, and so is what a write that    *)
(* failed part-way leaves at its end.  Bytes that were not fsynced may be  *)
(* lost with the power, from the end of a file; creations, renames and     *)
(* removals are taken to reach the disk in order.                          *)
(***************************************************************************)
EXTENDS Integers, Sequences, FiniteSets, TLC

CONSTANTS Keys,            \* ranks in the key order
          Vals,
          MaxGen,          \* bound: generations
          MaxSlots,        \* bound: slots of one generation
          MaxLog,          \* bound: records in the main log
          MaxTorn          \* bound: generations with a part-written value, when one fails

ASSUME BlobAssumption ==
    /\ Keys \subseteq Nat
    /\ MaxGen \in Nat /\ MaxSlots \in Nat /\ MaxLog \in Nat /\ MaxTorn \in Nat

VARIABLES durable,   \* Options.SyncEveryWrite, the same at every open
          main,      \* the main log: values by reference, and tombstones
          msync,     \* how many of them are durable
          gens,      \* the generation files that exist
          file,      \* their contents
          fsync,     \* how many slots of each are durable
          cur,       \* curGen of the open store, -1 when it is not open
          size,      \* blobStore.size of curGen: where append takes its end to be
          step,      \* where the writer or the relieve is
          pend,      \* the record of the write in progress
          fresh      \* the rewritten main log of the relieve in progress

vars == <<durable, main, msync, gens, file, fsync, cur, size, step, pend, fresh>>

Gens == 0 .. MaxGen
Torn == "torn"             \* the part of a value that a failed write left
Cells == Vals \cup {Torn}

(* A record of the main log.  Two fields are history: the bytes at its     *)
(* place when it was made, and whether size was not the end of the file    *)
(* then.  A tombstone names no bytes.                                      *)
Refs == [key: Keys, del: BOOLEAN, val: Cells, gen: Gens, pos: Nat,
         bytes: Cells, skew: BOOLEAN]
Tombstone(k) == [key |-> k, del |-> TRUE, val |-> Torn, gen |-> 0, pos |-> 0,
                 bytes |-> Torn, skew |-> FALSE]
NoPend == [key |-> "none"]
Steps == {"idle", "blob", "record", "copy", "flushed", "retire"}

TypeOK ==
    /\ durable \in BOOLEAN
    /\ main \in Seq(Refs) /\ msync \in 0 .. Len(main)
    /\ gens \subseteq Gens
    /\ file \in [Gens -> Seq(Cells)]
    /\ \A g \in Gens : fsync[g] \in 0 .. Len(file[g])
    /\ cur \in gens \cup {-1}
    /\ size \in Nat
    /\ step \in Steps
    /\ pend \in Refs \cup {NoPend}
    /\ fresh \in Seq(Refs)

Newest(log) == {i \in DOMAIN log : \A j \in DOMAIN log : log[j].key = log[i].key => j <= i}
Live(log) == {log[i] : i \in {j \in Newest(log) : ~log[j].del}}
Idle == cur # -1 /\ step = "idle"
Readable(r) == r.gen \in gens /\ r.pos \in 1 .. Len(file[r.gen])

Init ==
    /\ durable \in BOOLEAN
    /\ main = <<>> /\ msync = 0
    /\ gens = {} /\ file = [g \in Gens |-> <<>>] /\ fsync = [g \in Gens |-> 0]
    /\ cur = -1 /\ size = 0 /\ step = "idle" /\ pend = NoPend /\ fresh = <<>>

(* replayTail, from the watermark of the hint: the log is cut at the first *)
(* record that names bytes past the end of its generation.                 *)
Dangling(r) == ~r.del /\ (r.gen \notin gens \/ r.pos > Len(file[r.gen]))

ReplayTail(from) ==
    LET intact == {i \in from .. Len(main) : \A j \in from + 1 .. i : ~Dangling(main[j])}
        end == CHOOSE i \in intact : \A j \in intact : j <= i
    IN  /\ main' = SubSeq(main, 1, end)
        /\ msync' = IF msync > end THEN end ELSE msync

(* A hint covers flushed records only, and there may be none.  Every       *)
(* generation on disk is opened and the highest one is appended to; a store*)
(* without any gets generation 0.                                          *)
Open ==
    /\ cur = -1
    /\ \E covers \in 0 .. msync : ReplayTail(covers)
    /\ cur' = IF gens = {} THEN 0 ELSE CHOOSE g \in gens : \A h \in gens : h <= g
    /\ gens' = gens \cup {cur'}
    /\ size' = Len(file[cur'])
    /\ UNCHANGED <<durable, file, fsync, step, pend, fresh>>

-----------------------------------------------------------------------------
(* appendRecord: the bytes, their fsync, then the record that names them.  *)
(* The file is opened with O_APPEND, so the bytes land at its end; the     *)
(* reference says they are at size.                                        *)
PutBlob(k, v) ==
    /\ Idle /\ Len(main) < MaxLog /\ Len(file[cur]) < MaxSlots
    /\ file' = [file EXCEPT ![cur] = Append(@, v)]
    /\ size' = size + 1
    /\ pend' = [key |-> k, del |-> FALSE, val |-> v, gen |-> cur, pos |-> size + 1,
                bytes |-> file'[cur][size + 1], skew |-> size # Len(file[cur])]
    /\ step' = "blob"
    /\ UNCHANGED <<durable, main, msync, gens, fsync, cur, fresh>>

(* blobStore.append's write fails part-way: some bytes are in the file,    *)
(* size does not count them, and the caller has the error.                 *)
PutTorn ==
    /\ Idle /\ Len(file[cur]) < MaxSlots
    /\ Cardinality({g \in gens : \E p \in DOMAIN file[g] : file[g][p] = Torn}) < MaxTorn
    /\ file' = [file EXCEPT ![cur] = Append(@, Torn)]
    /\ UNCHANGED <<durable, main, msync, gens, fsync, cur, size, step, pend, fresh>>

(* Mutant: the bytes are left to the page cache.                           *)
BlobFlushSkipped ==
    /\ step = "blob"
    /\ step' = "record"
    /\ UNCHANGED <<durable, main, msync, gens, file, fsync, cur, size, pend, fresh>>

BlobFlush ==
    /\ step = "blob"
    /\ fsync' = [fsync EXCEPT ![cur] = Len(file[cur])]
    /\ step' = "record"
    /\ UNCHANGED <<durable, main, msync, gens, file, cur, size, pend, fresh>>

AppendRecord ==
    /\ step = "record"
    /\ main' = Append(main, pend)
    /\ msync' = IF durable THEN Len(main) + 1 ELSE msync
    /\ step' = "idle" /\ pend' = NoPend
    /\ UNCHANGED <<durable, gens, file, fsync, cur, size, fresh>>

(* The fsync, or the append of the record, fails: the bytes stay as an     *)
(* orphan that size counts.                                                *)
PutFails ==
    /\ step \in {"blob", "record"}
    /\ step' = "idle" /\ pend' = NoPend
    /\ UNCHANGED <<durable, main, msync, gens, file, fsync, cur, size, fresh>>

-----------------------------------------------------------------------------
(* BlobsRelieve.                                                           *)
RelieveStart ==
    /\ Idle /\ cur < MaxGen
    /\ gens' = gens \cup {cur + 1}
    /\ fresh' = <<>> /\ step' = "copy"
    /\ UNCHANGED <<durable, main, msync, file, fsync, cur, size, pend>>

(* Mutant: the copy stops one record early.                                *)
UncopiedShort ==
    IF Len(fresh) + 1 = Cardinality(Live(main)) THEN {}
    ELSE {r \in Live(main) : \A i \in DOMAIN fresh : fresh[i].key # r.key}

Uncopied == {r \in Live(main) : \A i \in DOMAIN fresh : fresh[i].key # r.key}

RelieveCopy(r) ==
    /\ step = "copy" /\ \A s \in Uncopied : r.key <= s.key
    /\ file' = [file EXCEPT ![cur + 1] = Append(@, file[r.gen][r.pos])]
    /\ fresh' = Append(fresh, [r EXCEPT !.gen = cur + 1, !.pos = Len(file[cur + 1]) + 1])
    /\ UNCHANGED <<durable, main, msync, gens, fsync, cur, size, step, pend>>

RelieveFlush ==
    /\ step = "copy" /\ Uncopied = {}
    /\ fsync' = [fsync EXCEPT ![cur + 1] = Len(file[cur + 1])]
    /\ step' = "flushed"
    /\ UNCHANGED <<durable, main, msync, gens, file, cur, size, pend, fresh>>

(* The rename of the main log, written and fsynced by buildRewrite, commits*)
(* the new references; curGen moves.                                       *)
RelieveCommit ==
    /\ step = "flushed"
    /\ main' = fresh /\ msync' = Len(fresh) /\ fresh' = <<>>
    /\ cur' = cur + 1 /\ size' = Len(file[cur + 1]) /\ step' = "retire"
    /\ UNCHANGED <<durable, gens, file, fsync, pend>>

(* Mutant: the highest generation in the directory is retired as well.     *)
RetireAny ==
    /\ step = "retire"
    /\ \E g \in gens :
        /\ gens' = gens \ {g}
        /\ file' = [file EXCEPT ![g] = <<>>] /\ fsync' = [fsync EXCEPT ![g] = 0]
    /\ UNCHANGED <<durable, main, msync, cur, size, step, pend, fresh>>

Retire ==
    /\ step = "retire"
    /\ \E g \in gens \ {cur} :
        /\ gens' = gens \ {g}
        /\ file' = [file EXCEPT ![g] = <<>>] /\ fsync' = [fsync EXCEPT ![g] = 0]
    /\ UNCHANGED <<durable, main, msync, cur, size, step, pend, fresh>>

RelieveDone ==
    /\ step = "retire" /\ gens = {cur}
    /\ step' = "idle"
    /\ UNCHANGED <<durable, main, msync, gens, file, fsync, cur, size, pend, fresh>>

(* A read, a copy or the flush fails before the commit: the generation is  *)
(* removed again.                                                          *)
RelieveFails ==
    /\ step = "copy"
    /\ gens' = gens \ {cur + 1}
    /\ file' = [file EXCEPT ![cur + 1] = <<>>] /\ fsync' = [fsync EXCEPT ![cur + 1] = 0]
    /\ step' = "idle" /\ fresh' = <<>>
    /\ UNCHANGED <<durable, main, msync, cur, size, pend>>

(* The hint that ends rewriteBody cannot be written: the store is not      *)
(* closed, so BlobsRelieve takes the failure for one before the commit and *)
(* removes the generation.  Every later call on a blob fails.              *)
RelieveHintFails ==
    /\ step = "retire" /\ gens = {cur}
    /\ gens' = gens \ {cur}
    /\ file' = [file EXCEPT ![cur] = <<>>] /\ fsync' = [fsync EXCEPT ![cur] = 0]
    /\ cur' = -1 /\ size' = 0 /\ step' = "idle"
    /\ UNCHANGED <<durable, main, msync, pend, fresh>>

(* The rename fails, or the reopening after it: the store stops and the    *)
(* files stay.                                                             *)
FailStop ==
    /\ step = "flushed"
    /\ \/ UNCHANGED <<main, msync>>
       \/ main' = fresh /\ msync' = Len(fresh)
    /\ cur' = -1 /\ size' = 0 /\ step' = "idle" /\ fresh' = <<>>
    /\ UNCHANGED <<durable, gens, file, fsync, pend>>

(* buildRewrite: the live records in the order of their keys.              *)
Rewrite(log) ==
    {s \in UNION {[1 .. n -> Live(log)] : n \in 0 .. Len(log)} :
        /\ \A r \in Live(log) : \E i \in DOMAIN s : s[i] = r
        /\ \A i, j \in DOMAIN s : i < j => s[i].key < s[j].key}

(* Compact and Reindex copy references as they are; the new log is fsynced *)
(* and renamed.                                                            *)
Compact ==
    /\ Idle
    /\ main' \in Rewrite(main) /\ msync' = Len(main')
    /\ UNCHANGED <<durable, gens, file, fsync, cur, size, step, pend, fresh>>

Delete(k) ==
    /\ Idle /\ Len(main) < MaxLog
    /\ \E r \in Live(main) : r.key = k
    /\ main' = Append(main, Tombstone(k))
    /\ msync' = IF durable THEN Len(main) + 1 ELSE msync
    /\ UNCHANGED <<durable, gens, file, fsync, cur, size, step, pend, fresh>>

Stop ==
    /\ cur' = -1 /\ size' = 0 /\ step' = "idle" /\ pend' = NoPend /\ fresh' = <<>>

(* The process dies: what was written stays.                               *)
Crash ==
    /\ cur # -1
    /\ Stop
    /\ UNCHANGED <<durable, main, msync, gens, file, fsync>>

(* The power fails: every file keeps its durable prefix and any part of the*)
(* rest.                                                                   *)
PowerLoss ==
    /\ \E m \in msync .. Len(main) : main' = SubSeq(main, 1, m) /\ msync' = m
    /\ \E keep \in [gens -> 0 .. MaxSlots] :
        /\ \A g \in gens : keep[g] \in fsync[g] .. Len(file[g])
        /\ file' = [g \in Gens |-> IF g \in gens THEN SubSeq(file[g], 1, keep[g]) ELSE <<>>]
        /\ fsync' = [g \in Gens |-> IF g \in gens THEN keep[g] ELSE 0]
    /\ Stop
    /\ UNCHANGED <<durable, gens>>

Next ==
    \/ Open
    \/ \E k \in Keys, v \in Vals : PutBlob(k, v)
    \/ BlobFlush \/ AppendRecord \/ PutFails \/ PutTorn
    \/ RelieveStart
    \/ \E r \in Uncopied : RelieveCopy(r)
    \/ RelieveFlush \/ RelieveCommit \/ Retire \/ RelieveDone
    \/ RelieveFails \/ FailStop
    \/ Compact \/ \E k \in Keys : Delete(k)
    \/ Crash \/ PowerLoss

Spec == Init /\ [][Next]_vars

Symmetry == Permutations(Vals)

(* With a hint that fails to be written at the end of a relieve.           *)
NextHintFails == Next \/ RelieveHintFails
SpecHintFails == Init /\ [][NextHintFails]_vars

-----------------------------------------------------------------------------
(* Every record of the main log, live or not, names bytes that exist and   *)
(* are still those it was made with, in the running store and after any    *)
(* crash, power loss or failed relieve; and they are its value, unless a   *)
(* write to that generation had failed part-way since the store was opened *)
(* (appendRecord: "With it, a crash can only ever orphan a blob").         *)
RefsResolve ==
    \A i \in DOMAIN main : main[i].del \/
        /\ Readable(main[i]) /\ file[main[i].gen][main[i].pos] = main[i].bytes
        /\ main[i].skew \/ main[i].bytes = main[i].val

(* What blobStore.append says of itself ("writes value at the end of the   *)
(* blob file and returns a ref to it"): the bytes a record names are its   *)
(* value, whatever failed before.                                          *)
RefsExact == \A i \in DOMAIN main : main[i].del \/ main[i].bytes = main[i].val

Reads == {<<r.key, IF Readable(r) THEN file[r.gen][r.pos] ELSE "lost">> : r \in Live(main)}

(* What the keys read as changes by a write, a delete or the loss of what  *)
(* was not yet durable, and by nothing else: no step of a relieve or of a  *)
(* compaction, failed, interrupted or completed, shows in a read, and in   *)
(* durable mode neither does a power loss.                                 *)
OnlyWritesChange ==
    [][ \/ step = "record"
        \/ Idle /\ Len(main') = Len(main) + 1
        \/ ~durable /\ Len(main') < Len(main) /\ cur' = -1
        \/ UNCHANGED Reads ]_vars

=============================================================================
