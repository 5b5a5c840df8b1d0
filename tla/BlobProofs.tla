----------------------------- MODULE BlobProofs -----------------------------
(***************************************************************************)
(* For every set of keys and values, every number of generations and every *)
(* point at which an error, a crash or a power loss strikes: the records   *)
(* of the main log name bytes that are there and do not change, which are  *)
(* the value unless a failed write had left a part of another behind; and  *)
(* nothing but a write, a delete or the loss of what was not durable shows *)
(* in a read.                                                              *)
(***************************************************************************)
EXTENDS Blobs, WellFoundedInduction, TLAPS

(* The bytes of r are its value, unless size was not the end of the file.  *)
Exact(r) == r.skew \/ r.bytes = r.val

(* r names durable bytes that are those it was made with, in files gs with *)
(* contents fl and durable lengths fs.                                     *)
Safe(gs, fl, fs, r) ==
    /\ r.gen \in gs /\ r.pos \in 1 .. fs[r.gen] /\ fl[r.gen][r.pos] = r.bytes
    /\ Exact(r)

AllSafe(log, gs, fl, fs) == \A i \in DOMAIN log : log[i].del \/ Safe(gs, fl, fs, log[i])

(* The bytes are durable before the record is written, so a power loss     *)
(* takes none that a record names.                                         *)
RefInv == AllSafe(main, gens, file, fsync)

(* The open store appends to the highest generation; a relieve that has    *)
(* not committed fills the one above it.                                   *)
TopInv ==
    /\ cur = -1 => step = "idle"
    /\ cur # -1 => \A g \in gens : g <= cur \/ (step \in {"copy", "flushed"} /\ g = cur + 1)
    /\ step \in {"copy", "flushed"} =>
         /\ cur + 1 \in gens
         /\ \A i \in DOMAIN main : main[i].del \/ main[i].gen <= cur
    /\ step = "retire" => \A i \in DOMAIN main : main[i].del \/ main[i].gen = cur

(* The record of a write in progress names the bytes just written.         *)
PendInv ==
    step \in {"blob", "record"} =>
        /\ pend \in Refs /\ ~pend.del /\ pend.gen = cur
        /\ pend.pos \in 1 .. Len(file[cur]) /\ file[cur][pend.pos] = pend.bytes
        /\ step = "record" => pend.pos <= fsync[cur]
        /\ Exact(pend)

(* What a relieve has copied so far: one record of the new generation for  *)
(* each of some live records, with its value.                              *)
FreshInv ==
    step \in {"copy", "flushed"} =>
        /\ \A i \in DOMAIN fresh :
             /\ ~fresh[i].del /\ fresh[i].gen = cur + 1
             /\ fresh[i].pos \in 1 .. Len(file[cur + 1])
             /\ file[cur + 1][fresh[i].pos] = fresh[i].bytes /\ Exact(fresh[i])
             /\ \E r \in Live(main) : r.key = fresh[i].key /\ r.bytes = fresh[i].bytes
        /\ \A i, j \in DOMAIN fresh : fresh[i].key = fresh[j].key => i = j
        /\ step = "flushed" => Uncopied = {} /\ fsync[cur + 1] = Len(file[cur + 1])

(* With SyncEveryWrite no record is left to the page cache.                *)
DurableInv == durable => msync = Len(main)

(* size is never past the end of the file: a write that fails part-way     *)
(* leaves it behind, and nothing else separates the two.                   *)
SizeInv == cur # -1 => size <= Len(file[cur])

Shape == TypeOK /\ fsync \in [Gens -> Nat]
IInv == Shape /\ RefInv /\ TopInv /\ PendInv /\ FreshInv /\ DurableInv

-----------------------------------------------------------------------------
(* Files that keep their durable bytes keep what records name.             *)
Keeps(gs, fl, fs, g) ==
    g \in gs /\ fs[g] >= fsync[g] /\ \A p \in 1 .. fsync[g] : fl[g][p] = file[g][p]

LEMMA SafeKept ==
    ASSUME Shape, NEW log \in Seq(Refs), AllSafe(log, gens, file, fsync),
           NEW gs, NEW fl, NEW fs \in [Gens -> Nat],
           \A i \in DOMAIN log : log[i].del \/ Keeps(gs, fl, fs, log[i].gen)
    PROVE  AllSafe(log, gs, fl, fs)
<1> SUFFICES ASSUME NEW i \in DOMAIN log, ~log[i].del
             PROVE  Safe(gs, fl, fs, log[i])
  BY Zenon DEF AllSafe
<1>1. log[i] \in Refs
  OBVIOUS
<1>2. /\ log[i].gen \in gens /\ log[i].pos \in 1 .. fsync[log[i].gen]
      /\ file[log[i].gen][log[i].pos] = log[i].bytes /\ Exact(log[i])
  BY Zenon DEF AllSafe, Safe
<1>3. Keeps(gs, fl, fs, log[i].gen)
  BY Zenon
<1>4. fs[log[i].gen] \in Nat /\ fsync[log[i].gen] \in Nat
  BY <1>1 DEF Refs, Shape
<1> QED BY <1>2, <1>3, <1>4 DEF Safe, Keeps

(* A part of a log that is safe is safe.                                   *)
LEMMA SafePart ==
    ASSUME NEW log, NEW part, NEW gs, NEW fl, NEW fs, AllSafe(log, gs, fl, fs),
           \A i \in DOMAIN part : \E j \in DOMAIN log : part[i] = log[j]
    PROVE  AllSafe(part, gs, fl, fs)
BY Zenon DEF AllSafe

LEMMA LiveFacts ==
    ASSUME NEW log \in Seq(Refs), NEW r \in Live(log)
    PROVE  /\ r \in Refs /\ ~r.del
           /\ \E i \in DOMAIN log : log[i] = r
           /\ \A s \in Live(log) : s.key = r.key => s = r
<1>1. PICK i \in Newest(log) : r = log[i] /\ ~log[i].del
  BY DEF Live
<1>2. i \in DOMAIN log
  BY DEF Newest
<1>3. ASSUME NEW s \in Live(log), s.key = r.key PROVE s = r
  <2>1. PICK j \in Newest(log) : s = log[j]
    BY DEF Live
  <2>2. i <= j /\ j <= i /\ i \in Nat /\ j \in Nat
    BY <1>1, <1>3, <2>1 DEF Newest
  <2>3. i = j
    BY <2>2
  <2> QED BY <1>1, <2>1, <2>3
<1> QED BY <1>1, <1>2, <1>3

LEMMA RewriteFacts ==
    ASSUME NEW log \in Seq(Refs), NEW new \in Rewrite(log)
    PROVE  /\ new \in Seq(Refs)
           /\ \A i \in DOMAIN new : \E j \in DOMAIN log : new[i] = log[j]
<1>1. PICK n \in 0 .. Len(log) : new \in [1 .. n -> Live(log)]
  BY DEF Rewrite
<1>2. \A i \in 1 .. n : new[i] \in Live(log)
  BY <1>1
<1>3. \A i \in 1 .. n : new[i] \in Refs /\ \E j \in DOMAIN log : new[i] = log[j]
  BY <1>2, LiveFacts, Zenon
<1>4. DOMAIN new = 1 .. n /\ n \in Nat
  BY <1>1
<1>5. new \in [1 .. n -> Refs]
  BY <1>1, <1>3
<1> QED BY <1>3, <1>4, <1>5

LEMMA PrefixFacts ==
    ASSUME NEW S, NEW log \in Seq(S), NEW n \in 0 .. Len(log)
    PROVE  /\ SubSeq(log, 1, n) \in Seq(S) /\ Len(SubSeq(log, 1, n)) = n
           /\ DOMAIN SubSeq(log, 1, n) = 1 .. n
           /\ \A i \in 1 .. n : SubSeq(log, 1, n)[i] = log[i]
           /\ n = Len(log) => SubSeq(log, 1, n) = log
OBVIOUS

LEMMA AppendFacts ==
    ASSUME NEW S, NEW log \in Seq(S), NEW r \in S
    PROVE  /\ Append(log, r) \in Seq(S) /\ Len(Append(log, r)) = Len(log) + 1
           /\ DOMAIN Append(log, r) = 1 .. Len(log) + 1
           /\ Append(log, r)[Len(log) + 1] = r
           /\ \A i \in 1 .. Len(log) : Append(log, r)[i] = log[i]
OBVIOUS

LEMMA ShapeFacts ==
    ASSUME Shape
    PROVE  /\ durable \in BOOLEAN /\ main \in Seq(Refs) /\ msync \in 0 .. Len(main)
           /\ gens \subseteq Gens /\ file \in [Gens -> Seq(Cells)] /\ fsync \in [Gens -> Nat]
           /\ \A g \in Gens : fsync[g] \in 0 .. Len(file[g]) /\ file[g] \in Seq(Cells)
           /\ cur \in Gens \cup {-1} /\ (cur # -1 => cur \in gens /\ cur \in Gens)
           /\ size \in Nat /\ step \in Steps /\ pend \in Refs \cup {NoPend} /\ fresh \in Seq(Refs)
BY Zenon DEF Shape, TypeOK

(* Bytes appended to a file, a file flushed, a file removed.               *)
LEMMA FileGrows ==
    ASSUME Shape, NEW g \in Gens, NEW v \in Cells, file' = [file EXCEPT ![g] = Append(@, v)]
    PROVE  /\ file' \in [Gens -> Seq(Cells)]
           /\ Len(file'[g]) = Len(file[g]) + 1 /\ file'[g][Len(file[g]) + 1] = v
           /\ \A p \in 1 .. Len(file[g]) : file'[g][p] = file[g][p]
           /\ \A h \in Gens : /\ h # g => file'[h] = file[h]
                              /\ fsync[h] \in 0 .. Len(file'[h])
                              /\ \A p \in 1 .. fsync[h] : file'[h][p] = file[h][p]
<1>1. /\ file \in [Gens -> Seq(Cells)] /\ \A h \in Gens : fsync[h] \in 0 .. Len(file[h])
      /\ file[g] \in Seq(Cells)
  BY ShapeFacts, Zenon
<1>2. file'[g] = Append(file[g], v) /\ \A h \in Gens : h # g => file'[h] = file[h]
  BY <1>1, Zenon
<1>3. /\ Append(file[g], v) \in Seq(Cells) /\ Len(file'[g]) = Len(file[g]) + 1
      /\ file'[g][Len(file[g]) + 1] = v
      /\ \A p \in 1 .. Len(file[g]) : file'[g][p] = file[g][p]
  BY <1>1, <1>2, AppendFacts
<1>4. file' \in [Gens -> Seq(Cells)]
  BY <1>1, <1>3, Zenon
<1>5. Len(file[g]) \in Nat /\ fsync[g] \in 0 .. Len(file[g])
  BY <1>1
<1>6. fsync[g] \in 0 .. Len(file'[g]) /\ \A p \in 1 .. fsync[g] : file'[g][p] = file[g][p]
  BY <1>3, <1>5
<1> QED BY <1>1, <1>2, <1>3, <1>4, <1>6, Zenon

LEMMA FileFlushed ==
    ASSUME Shape, NEW g \in Gens, fsync' = [fsync EXCEPT ![g] = Len(file[g])]
    PROVE  /\ fsync' \in [Gens -> Nat] /\ fsync'[g] = Len(file[g])
           /\ \A h \in Gens : fsync'[h] \in 0 .. Len(file[h]) /\ fsync'[h] >= fsync[h]
<1>1. /\ fsync \in [Gens -> Nat] /\ \A h \in Gens : fsync[h] \in 0 .. Len(file[h])
      /\ file[g] \in Seq(Cells)
  BY ShapeFacts, Zenon
<1>2. fsync'[g] = Len(file[g]) /\ \A h \in Gens : h # g => fsync'[h] = fsync[h]
  BY <1>1, Zenon
<1>3. Len(file[g]) \in Nat
  BY <1>1
<1>4. fsync' \in [Gens -> Nat]
  BY <1>1, <1>3, Zenon
<1>5. \A h \in Gens : fsync[h] \in Nat
  BY <1>1, Zenon
<1> QED BY <1>1, <1>2, <1>3, <1>4, <1>5

LEMMA FileRemoved ==
    ASSUME Shape, NEW g \in Gens, gens' = gens \ {g},
           file' = [file EXCEPT ![g] = <<>>], fsync' = [fsync EXCEPT ![g] = 0]
    PROVE  /\ gens' \subseteq Gens /\ file' \in [Gens -> Seq(Cells)] /\ fsync' \in [Gens -> Nat]
           /\ \A h \in Gens : fsync'[h] \in 0 .. Len(file'[h])
           /\ \A h \in gens : h # g => Keeps(gens', file', fsync', h)
<1>1. /\ file \in [Gens -> Seq(Cells)] /\ \A h \in Gens : fsync[h] \in 0 .. Len(file[h])
      /\ fsync \in [Gens -> Nat] /\ gens \subseteq Gens
  BY ShapeFacts, Zenon
<1>2. /\ file'[g] = <<>> /\ \A h \in Gens : h # g => file'[h] = file[h]
      /\ fsync'[g] = 0 /\ \A h \in Gens : h # g => fsync'[h] = fsync[h]
  BY <1>1, Zenon
<1>3. <<>> \in Seq(Cells) /\ Len(<<>>) = 0 /\ 0 \in Nat /\ 0 \in 0 .. 0
  OBVIOUS
<1>4. file' \in [Gens -> Seq(Cells)] /\ fsync' \in [Gens -> Nat]
  BY <1>1, <1>3, Zenon
<1>5. \A h \in Gens : fsync'[h] \in 0 .. Len(file'[h])
  BY <1>1, <1>2, <1>3, Zenon
<1>6. \A h \in Gens : fsync[h] \in Nat /\ fsync[h] >= fsync[h]
  BY <1>1
<1>7. \A h \in gens : h # g => Keeps(gens', file', fsync', h)
  BY <1>1, <1>2, <1>6, Zenon DEF Keeps
<1> QED BY <1>1, <1>4, <1>5, <1>7, Zenon

(* Every file keeps its durable bytes: no record is affected.              *)
LEMMA RefKept ==
    ASSUME Shape, RefInv, gens \subseteq gens', fsync' \in [Gens -> Nat],
           \A h \in Gens : fsync'[h] >= fsync[h] /\ \A p \in 1 .. fsync[h] : file'[h][p] = file[h][p]
    PROVE  AllSafe(main, gens', file', fsync')
<1>1. main \in Seq(Refs) /\ gens \subseteq Gens
  BY ShapeFacts, Zenon
<1>2. AllSafe(main, gens, file, fsync)
  BY Zenon DEF RefInv
<1>3. \A i \in DOMAIN main : main[i].del \/ Keeps(gens', file', fsync', main[i].gen)
  BY <1>1, <1>2, Zenon DEF AllSafe, Safe, Keeps
<1> QED BY <1>1, <1>2, <1>3, SafeKept, Zenon

-----------------------------------------------------------------------------
(* The writer: bytes, flush, record.                                       *)
LEMMA PutBlobKeeps ==
    ASSUME IInv, SizeInv, NEW k \in Keys, NEW v \in Vals, PutBlob(k, v)
    PROVE  IInv'
<1>0. Shape /\ RefInv /\ TopInv /\ DurableInv
  BY Zenon DEF IInv
<1>1. /\ cur # -1 /\ step = "idle" /\ step' = "blob" /\ size' = size + 1
      /\ file' = [file EXCEPT ![cur] = Append(@, v)]
      /\ pend' = [key |-> k, del |-> FALSE, val |-> v, gen |-> cur, pos |-> size + 1,
                  bytes |-> file'[cur][size + 1], skew |-> size # Len(file[cur])]
      /\ UNCHANGED <<durable, main, msync, gens, fsync, cur, fresh>>
  BY Zenon DEF PutBlob, Idle
<1>2. /\ cur \in Gens /\ cur \in gens /\ file[cur] \in Seq(Cells) /\ fsync \in [Gens -> Nat]
      /\ size \in Nat /\ size <= Len(file[cur]) /\ v \in Cells
  BY <1>0, <1>1, ShapeFacts, Zenon DEF SizeInv, Cells
<1>3. /\ file' \in [Gens -> Seq(Cells)]
      /\ Len(file'[cur]) = Len(file[cur]) + 1 /\ file'[cur][Len(file[cur]) + 1] = v
      /\ \A h \in Gens : /\ fsync[h] \in 0 .. Len(file'[h])
                         /\ \A p \in 1 .. fsync[h] : file'[h][p] = file[h][p]
  BY <1>0, <1>1, <1>2, FileGrows, Zenon
<1>4. size + 1 \in Nat /\ size + 1 \in 1 .. Len(file'[cur])
  BY <1>2, <1>3
<1>5. /\ pend' \in Refs /\ ~pend'.del /\ pend'.gen = cur /\ Exact(pend')
      /\ pend'.pos = size + 1 /\ pend'.bytes = file'[cur][size + 1]
  <2>1. file'[cur] \in Seq(Cells)
    BY <1>2, <1>3, Zenon
  <2>2. file'[cur][size + 1] \in Cells
    BY <1>4, <2>1
  <2>3. size = Len(file[cur]) => file'[cur][size + 1] = v
    BY <1>3
  <2>4. (size # Len(file[cur])) \in BOOLEAN
    OBVIOUS
  <2>5. pend' \in Refs
    BY <1>1, <1>2, <1>4, <2>2, <2>4, Zenon DEF Refs
  <2>6. /\ pend'.del = FALSE /\ pend'.gen = cur /\ pend'.pos = size + 1 /\ pend'.val = v
        /\ pend'.bytes = file'[cur][size + 1] /\ pend'.skew = (size # Len(file[cur]))
    BY <1>1
  <2> QED BY <2>3, <2>5, <2>6 DEF Exact
<1>6. \A h \in Gens : fsync[h] >= fsync[h]
  BY <1>2
<1>7. TypeOK' /\ Shape'
  BY <1>0, <1>1, <1>3, <1>4, <1>5, ShapeFacts, Zenon DEF Shape, TypeOK, Steps
<1>8. RefInv'
  BY <1>0, <1>1, <1>2, <1>3, <1>6, RefKept, Zenon DEF RefInv
<1>9. TopInv' /\ DurableInv'
  BY <1>0, <1>1, Zenon DEF TopInv, DurableInv
<1>10. PendInv' /\ FreshInv'
  BY <1>1, <1>4, <1>5, Zenon DEF PendInv, FreshInv
<1> QED BY <1>7, <1>8, <1>9, <1>10, Zenon DEF IInv

LEMMA PutTornKeeps ==
    ASSUME IInv, PutTorn
    PROVE  IInv'
<1>0. Shape /\ RefInv /\ TopInv /\ DurableInv
  BY Zenon DEF IInv
<1>1. /\ cur # -1 /\ step = "idle" /\ file' = [file EXCEPT ![cur] = Append(@, Torn)]
      /\ UNCHANGED <<durable, main, msync, gens, fsync, cur, size, step, pend, fresh>>
  BY Zenon DEF PutTorn, Idle
<1>2. cur \in Gens /\ fsync \in [Gens -> Nat] /\ Torn \in Cells
  BY <1>0, <1>1, ShapeFacts, Zenon DEF Cells
<1>3. /\ file' \in [Gens -> Seq(Cells)]
      /\ \A h \in Gens : /\ fsync[h] \in 0 .. Len(file'[h])
                         /\ \A p \in 1 .. fsync[h] : file'[h][p] = file[h][p]
  BY <1>0, <1>1, <1>2, FileGrows, Zenon
<1>4. \A h \in Gens : fsync[h] >= fsync[h]
  BY <1>2
<1>5. Shape'
  BY <1>0, <1>1, <1>3, ShapeFacts, Zenon DEF Shape, TypeOK
<1>6. RefInv'
  BY <1>0, <1>1, <1>2, <1>3, <1>4, RefKept, Zenon DEF RefInv
<1>7. TopInv' /\ PendInv' /\ FreshInv' /\ DurableInv'
  BY <1>0, <1>1, Zenon DEF TopInv, PendInv, FreshInv, DurableInv
<1> QED BY <1>5, <1>6, <1>7, Zenon DEF IInv

LEMMA BlobFlushKeeps ==
    ASSUME IInv, BlobFlush
    PROVE  IInv'
<1>0. Shape /\ RefInv /\ TopInv /\ PendInv /\ DurableInv
  BY Zenon DEF IInv
<1>1. /\ step = "blob" /\ step' = "record" /\ cur # -1
      /\ fsync' = [fsync EXCEPT ![cur] = Len(file[cur])]
      /\ UNCHANGED <<durable, main, msync, gens, file, cur, size, pend, fresh>>
  BY <1>0, Zenon DEF BlobFlush, TopInv
<1>2. cur \in Gens
  BY <1>0, <1>1, ShapeFacts, Zenon
<1>3. /\ fsync' \in [Gens -> Nat] /\ fsync'[cur] = Len(file[cur])
      /\ \A h \in Gens : fsync'[h] \in 0 .. Len(file[h]) /\ fsync'[h] >= fsync[h]
  BY <1>0, <1>1, <1>2, FileFlushed, Zenon
<1>4. /\ pend \in Refs /\ ~pend.del /\ pend.gen = cur
      /\ pend.pos \in 1 .. Len(file[cur]) /\ file[cur][pend.pos] = pend.bytes /\ Exact(pend)
  BY <1>0, <1>1, Zenon DEF PendInv
<1>5. pend.pos <= fsync'[cur]
  BY <1>3, <1>4
<1>6. Shape'
  BY <1>0, <1>1, <1>3, ShapeFacts, Zenon DEF Shape, TypeOK, Steps
<1>7. RefInv'
  BY <1>0, <1>1, <1>3, RefKept, Zenon DEF RefInv
<1>8. TopInv' /\ DurableInv'
  BY <1>0, <1>1, Zenon DEF TopInv, DurableInv
<1>9. PendInv' /\ FreshInv'
  BY <1>1, <1>4, <1>5, Zenon DEF PendInv, FreshInv
<1> QED BY <1>6, <1>7, <1>8, <1>9, Zenon DEF IInv

(* A log with one record more.                                             *)
LEMMA LogGrows ==
    ASSUME Shape, DurableInv, NEW r \in Refs, main' = Append(main, r), durable' = durable,
           msync' = IF durable THEN Len(main) + 1 ELSE msync
    PROVE  /\ main' \in Seq(Refs) /\ msync' \in 0 .. Len(main') /\ DurableInv'
           /\ \A i \in DOMAIN main' : main'[i] = r \/ \E j \in DOMAIN main : main'[i] = main[j]
<1>1. main \in Seq(Refs) /\ msync \in 0 .. Len(main)
  BY ShapeFacts, Zenon
<1>2. /\ main' \in Seq(Refs) /\ Len(main') = Len(main) + 1
      /\ DOMAIN main' = 1 .. Len(main) + 1 /\ main'[Len(main) + 1] = r
      /\ \A i \in 1 .. Len(main) : main'[i] = main[i]
  BY <1>1, AppendFacts
<1>3. msync' \in 0 .. Len(main')
  BY <1>1, <1>2
<1>4. DurableInv'
  BY <1>2, Zenon DEF DurableInv
<1>5. ASSUME NEW i \in DOMAIN main' PROVE main'[i] = r \/ \E j \in DOMAIN main : main'[i] = main[j]
  <2>1. i = Len(main) + 1 \/ i \in 1 .. Len(main)
    BY <1>1, <1>2, <1>5
  <2>2. DOMAIN main = 1 .. Len(main)
    BY <1>1
  <2> QED BY <1>2, <2>1, <2>2, Zenon
<1> QED BY <1>2, <1>3, <1>4, <1>5, Zenon

LEMMA AppendRecordKeeps ==
    ASSUME IInv, AppendRecord
    PROVE  IInv'
<1>0. Shape /\ RefInv /\ TopInv /\ PendInv /\ DurableInv
  BY Zenon DEF IInv
<1>1. /\ step = "record" /\ step' = "idle" /\ pend' = NoPend /\ cur # -1
      /\ main' = Append(main, pend) /\ msync' = IF durable THEN Len(main) + 1 ELSE msync
      /\ UNCHANGED <<durable, gens, file, fsync, cur, size, fresh>>
  BY <1>0, Zenon DEF AppendRecord, TopInv
<1>2. /\ pend \in Refs /\ ~pend.del /\ pend.gen = cur /\ pend.pos \in 1 .. Len(file[cur])
      /\ file[cur][pend.pos] = pend.bytes /\ pend.pos <= fsync[cur] /\ Exact(pend)
  BY <1>0, <1>1, Zenon DEF PendInv
<1>3. cur \in gens /\ fsync[cur] \in Nat /\ file[cur] \in Seq(Cells)
  BY <1>0, <1>1, ShapeFacts, Zenon
<1>4. pend.pos \in 1 .. fsync[cur]
  BY <1>2, <1>3
<1>5. /\ main' \in Seq(Refs) /\ msync' \in 0 .. Len(main') /\ DurableInv'
      /\ \A i \in DOMAIN main' : main'[i] = pend \/ \E j \in DOMAIN main : main'[i] = main[j]
  BY <1>0, <1>1, <1>2, LogGrows, Zenon
<1>6. Safe(gens, file, fsync, pend)
  BY <1>2, <1>3, <1>4, Zenon DEF Safe
<1>7. Shape'
  BY <1>0, <1>1, <1>5, ShapeFacts, Zenon DEF Shape, TypeOK, Steps
<1>8. RefInv'
  BY <1>0, <1>1, <1>5, <1>6, Zenon DEF RefInv, AllSafe
<1>9. TopInv' /\ PendInv' /\ FreshInv'
  BY <1>0, <1>1, Zenon DEF TopInv, PendInv, FreshInv
<1> QED BY <1>5, <1>7, <1>8, <1>9, Zenon DEF IInv

LEMMA PutFailsKeeps ==
    ASSUME IInv, PutFails
    PROVE  IInv'
<1>0. Shape /\ RefInv /\ TopInv /\ DurableInv
  BY Zenon DEF IInv
<1>1. /\ step \in {"blob", "record"} /\ step' = "idle" /\ pend' = NoPend
      /\ UNCHANGED <<durable, main, msync, gens, file, fsync, cur, size, fresh>>
  BY Zenon DEF PutFails
<1>2. Shape' /\ RefInv' /\ DurableInv'
  BY <1>0, <1>1, Zenon DEF Shape, TypeOK, Steps, RefInv, DurableInv
<1>3. TopInv' /\ PendInv' /\ FreshInv'
  BY <1>0, <1>1, Zenon DEF TopInv, PendInv, FreshInv
<1> QED BY <1>2, <1>3, Zenon DEF IInv

LEMMA DeleteKeeps ==
    ASSUME IInv, NEW k \in Keys, Delete(k)
    PROVE  IInv'
<1>0. Shape /\ RefInv /\ TopInv /\ DurableInv /\ main \in Seq(Refs)
  BY ShapeFacts, Zenon DEF IInv
<1>1. main' = Append(main, Tombstone(k))
  BY Zenon DEF Delete
<1>2. /\ cur # -1 /\ step = "idle" /\ msync' = IF durable THEN Len(main) + 1 ELSE msync
      /\ UNCHANGED <<durable, gens, file, fsync, cur, size, step, pend, fresh>>
  BY Zenon DEF Delete, Idle
<1>3. 0 \in Gens /\ 0 \in Nat
  BY BlobAssumption DEF Gens
<1>4. Tombstone(k) \in Refs /\ Tombstone(k).del
  BY <1>3, Zenon DEF Refs, Tombstone, Cells
<1>5. /\ main' \in Seq(Refs) /\ msync' \in 0 .. Len(main') /\ DurableInv'
      /\ \A i \in DOMAIN main' : main'[i] = Tombstone(k) \/ \E j \in DOMAIN main : main'[i] = main[j]
  BY <1>0, <1>1, <1>2, <1>4, LogGrows, Zenon
<1>6. Shape'
  BY <1>0, <1>2, <1>5, ShapeFacts, Zenon DEF Shape, TypeOK, Steps
<1>7. RefInv'
  BY <1>0, <1>2, <1>4, <1>5, Zenon DEF RefInv, AllSafe
<1>8. TopInv' /\ PendInv' /\ FreshInv'
  BY <1>0, <1>2, Zenon DEF TopInv, PendInv, FreshInv
<1> QED BY <1>5, <1>6, <1>7, <1>8, Zenon DEF IInv

-----------------------------------------------------------------------------
(* A relieve up to its commit.                                             *)
LEMMA RelieveStartKeeps ==
    ASSUME IInv, RelieveStart
    PROVE  IInv'
<1>0. Shape /\ RefInv /\ TopInv /\ DurableInv
  BY Zenon DEF IInv
<1>1. /\ cur # -1 /\ step = "idle" /\ cur < MaxGen /\ gens' = gens \cup {cur + 1}
      /\ fresh' = <<>> /\ step' = "copy"
      /\ UNCHANGED <<durable, main, msync, file, fsync, cur, size, pend>>
  BY Zenon DEF RelieveStart, Idle
<1>2. cur \in Gens /\ cur \in gens /\ main \in Seq(Refs) /\ fsync \in [Gens -> Nat]
  BY <1>0, <1>1, ShapeFacts, Zenon
<1>3. cur + 1 \in Gens
  BY <1>1, <1>2, BlobAssumption DEF Gens
<1>4. fresh' \in Seq(Refs) /\ DOMAIN fresh' = {}
  BY <1>1
<1>5. Shape'
  BY <1>0, <1>1, <1>3, <1>4, ShapeFacts, Zenon DEF Shape, TypeOK, Steps
<1>6. RefInv'
  BY <1>0, <1>1, Zenon DEF RefInv, AllSafe, Safe
<1>7. TopInv'
  <2>1. \A g \in gens' : g <= cur \/ g = cur + 1
    BY <1>0, <1>1, Zenon DEF TopInv
  <2>2. \A i \in DOMAIN main : main[i].del \/ main[i].gen <= cur
    BY <1>0, <1>1, Zenon DEF TopInv, RefInv, AllSafe, Safe
  <2> QED BY <1>1, <2>1, <2>2, Zenon DEF TopInv
<1>8. PendInv' /\ DurableInv'
  BY <1>0, <1>1, Zenon DEF PendInv, DurableInv
<1>9. FreshInv'
  BY <1>1, <1>4, Zenon DEF FreshInv
<1> QED BY <1>5, <1>6, <1>7, <1>8, <1>9, Zenon DEF IInv

LEMMA RelieveCopyKeeps ==
    ASSUME IInv, NEW r \in Uncopied, RelieveCopy(r)
    PROVE  IInv'
<1>0. Shape /\ RefInv /\ TopInv /\ FreshInv /\ DurableInv
  BY Zenon DEF IInv
<1>1. /\ step = "copy" /\ cur # -1
      /\ file' = [file EXCEPT ![cur + 1] = Append(@, file[r.gen][r.pos])]
      /\ fresh' = Append(fresh, [r EXCEPT !.gen = cur + 1, !.pos = Len(file[cur + 1]) + 1])
      /\ UNCHANGED <<durable, main, msync, gens, fsync, cur, size, step, pend>>
  BY <1>0, Zenon DEF RelieveCopy, TopInv
<1>2. /\ main \in Seq(Refs) /\ fresh \in Seq(Refs) /\ cur \in gens /\ fsync \in [Gens -> Nat]
      /\ cur + 1 \in gens /\ cur + 1 \in Gens /\ file[cur + 1] \in Seq(Cells)
  BY <1>0, <1>1, ShapeFacts, Zenon DEF TopInv
<1>3. r \in Live(main) /\ \A i \in DOMAIN fresh : fresh[i].key # r.key
  BY Zenon DEF Uncopied
<1>4. r \in Refs /\ ~r.del /\ \E i \in DOMAIN main : main[i] = r
  BY <1>2, <1>3, LiveFacts, Zenon
<1>5. file[r.gen][r.pos] = r.bytes /\ Exact(r)
  BY <1>0, <1>4, Zenon DEF RefInv, AllSafe, Safe
<1>6. /\ file' \in [Gens -> Seq(Cells)]
      /\ Len(file'[cur + 1]) = Len(file[cur + 1]) + 1
      /\ file'[cur + 1][Len(file[cur + 1]) + 1] = r.bytes
      /\ \A p \in 1 .. Len(file[cur + 1]) : file'[cur + 1][p] = file[cur + 1][p]
      /\ \A h \in Gens : /\ fsync[h] \in 0 .. Len(file'[h])
                         /\ \A p \in 1 .. fsync[h] : file'[h][p] = file[h][p]
  <2>1. r.bytes \in Cells
    BY <1>4 DEF Refs
  <2> QED BY <1>0, <1>1, <1>2, <1>5, <2>1, FileGrows, Zenon
<1> DEFINE n == [r EXCEPT !.gen = cur + 1, !.pos = Len(file[cur + 1]) + 1]
<1>7. Len(file[cur + 1]) \in Nat
  BY <1>2
<1>8. /\ n \in Refs /\ ~n.del /\ Exact(n) /\ n.key = r.key /\ n.bytes = r.bytes /\ n.gen = cur + 1
      /\ n.pos = Len(file[cur + 1]) + 1
  <2>1. \A g \in Gens : \A p \in Nat : [r EXCEPT !.gen = g, !.pos = p] \in Refs
    BY <1>4, Zenon DEF Refs
  <2>2. Len(file[cur + 1]) + 1 \in Nat
    BY <1>7
  <2>3. n \in Refs
    BY <1>2, <2>1, <2>2, Zenon
  <2>4. DOMAIN r = {"key", "del", "val", "gen", "pos", "bytes", "skew"}
    BY <1>4 DEF Refs
  <2>5. /\ n.del = r.del /\ n.key = r.key /\ n.bytes = r.bytes /\ n.gen = cur + 1
        /\ n.pos = Len(file[cur + 1]) + 1 /\ n.val = r.val /\ n.skew = r.skew
    BY <2>4
  <2>6. ~n.del /\ Exact(n)
    <3> HIDE DEF n
    <3> QED BY <1>4, <1>5, <2>5 DEF Exact
  <2> QED BY <2>3, <2>5, <2>6, Zenon
<1>9. /\ fresh' \in Seq(Refs) /\ DOMAIN fresh' = 1 .. Len(fresh) + 1
      /\ fresh'[Len(fresh) + 1] = n
      /\ \A i \in 1 .. Len(fresh) : fresh'[i] = fresh[i]
  <2> HIDE DEF n
  <2> QED BY <1>1, <1>2, <1>8, AppendFacts DEF n
<1> HIDE DEF n
<1>10. Shape'
  BY <1>0, <1>1, <1>6, <1>9, ShapeFacts, Zenon DEF Shape, TypeOK
<1>11. RefInv'
  <2>1. \A h \in Gens : fsync[h] >= fsync[h]
    BY <1>2
  <2> QED BY <1>0, <1>1, <1>2, <1>6, <2>1, RefKept, Zenon DEF RefInv
<1>12. TopInv' /\ PendInv' /\ DurableInv'
  BY <1>0, <1>1, Zenon DEF TopInv, PendInv, DurableInv
<1>13. FreshInv'
  <2>1. DOMAIN fresh = 1 .. Len(fresh) /\ Len(fresh) \in Nat
    BY <1>2
  <2>2. \A i \in DOMAIN fresh' : i \in DOMAIN fresh \/ i = Len(fresh) + 1
    BY <1>9, <2>1
  <2>3. ASSUME NEW i \in DOMAIN fresh'
        PROVE  /\ ~fresh'[i].del /\ fresh'[i].gen = cur + 1
               /\ fresh'[i].pos \in 1 .. Len(file'[cur + 1])
               /\ file'[cur + 1][fresh'[i].pos] = fresh'[i].bytes /\ Exact(fresh'[i])
               /\ \E q \in Live(main) : q.key = fresh'[i].key /\ q.bytes = fresh'[i].bytes
    <3>1. CASE i = Len(fresh) + 1
      <4>1. Len(file[cur + 1]) + 1 \in 1 .. Len(file'[cur + 1])
        BY <1>6, <1>7
      <4> QED BY <1>3, <1>6, <1>8, <1>9, <3>1, <4>1, Zenon
    <3>2. CASE i \in DOMAIN fresh
      <4>1. /\ ~fresh[i].del /\ fresh[i].gen = cur + 1
            /\ fresh[i].pos \in 1 .. Len(file[cur + 1])
            /\ file[cur + 1][fresh[i].pos] = fresh[i].bytes /\ Exact(fresh[i])
            /\ \E q \in Live(main) : q.key = fresh[i].key /\ q.bytes = fresh[i].bytes
        BY <1>0, <1>1, <3>2, Zenon DEF FreshInv
      <4>2. fresh[i].pos \in 1 .. Len(file'[cur + 1])
        BY <1>6, <1>7, <4>1
      <4> QED BY <1>6, <1>9, <2>1, <3>2, <4>1, <4>2, Zenon
    <3> QED BY <2>2, <2>3, <3>1, <3>2, Zenon
  <2>4. ASSUME NEW i \in DOMAIN fresh', NEW j \in DOMAIN fresh', fresh'[i].key = fresh'[j].key
        PROVE  i = j
    <3>1. \A m \in DOMAIN fresh : fresh'[m].key # r.key /\ fresh'[m] = fresh[m]
      BY <1>3, <1>9, <2>1, Zenon
    <3>2. fresh'[Len(fresh) + 1].key = r.key
      BY <1>8, <1>9, Zenon
    <3>3. CASE i \in DOMAIN fresh /\ j \in DOMAIN fresh
      BY <1>0, <1>1, <2>4, <3>1, <3>3, Zenon DEF FreshInv
    <3> QED BY <2>2, <2>4, <3>1, <3>2, <3>3, Zenon
  <2>5. step' # "flushed" /\ cur' = cur /\ Live(main') = Live(main)
    BY <1>1, Zenon
  <2> QED BY <2>3, <2>4, <2>5, Zenon DEF FreshInv
<1> QED BY <1>10, <1>11, <1>12, <1>13, Zenon DEF IInv

LEMMA RelieveFlushKeeps ==
    ASSUME IInv, RelieveFlush
    PROVE  IInv'
<1>0. Shape /\ RefInv /\ TopInv /\ FreshInv /\ DurableInv
  BY Zenon DEF IInv
<1>1. /\ step = "copy" /\ Uncopied = {} /\ step' = "flushed" /\ cur # -1
      /\ fsync' = [fsync EXCEPT ![cur + 1] = Len(file[cur + 1])]
      /\ UNCHANGED <<durable, main, msync, gens, file, cur, size, pend, fresh>>
  BY <1>0, Zenon DEF RelieveFlush, TopInv
<1>2. cur + 1 \in Gens
  BY <1>0, <1>1, ShapeFacts, Zenon DEF TopInv
<1>3. /\ fsync' \in [Gens -> Nat] /\ fsync'[cur + 1] = Len(file[cur + 1])
      /\ \A h \in Gens : fsync'[h] \in 0 .. Len(file[h]) /\ fsync'[h] >= fsync[h]
  BY <1>0, <1>1, <1>2, FileFlushed, Zenon
<1>4. Shape'
  BY <1>0, <1>1, <1>3, ShapeFacts, Zenon DEF Shape, TypeOK, Steps
<1>5. RefInv'
  BY <1>0, <1>1, <1>3, RefKept, Zenon DEF RefInv
<1>6. TopInv' /\ PendInv' /\ DurableInv'
  BY <1>0, <1>1, Zenon DEF TopInv, PendInv, DurableInv
<1>7. FreshInv'
  <2>1. Uncopied' = Uncopied
    BY <1>1, Zenon DEF Uncopied
  <2> QED BY <1>0, <1>1, <1>3, <2>1, Zenon DEF FreshInv
<1> QED BY <1>4, <1>5, <1>6, <1>7, Zenon DEF IInv

LEMMA RelieveFailsKeeps ==
    ASSUME IInv, RelieveFails
    PROVE  IInv'
<1>0. Shape /\ RefInv /\ TopInv /\ DurableInv
  BY Zenon DEF IInv
<1>1. /\ step = "copy" /\ cur # -1 /\ gens' = gens \ {cur + 1} /\ step' = "idle" /\ fresh' = <<>>
      /\ file' = [file EXCEPT ![cur + 1] = <<>>] /\ fsync' = [fsync EXCEPT ![cur + 1] = 0]
      /\ UNCHANGED <<durable, main, msync, cur, size, pend>>
  BY <1>0, Zenon DEF RelieveFails, TopInv
<1>2. /\ cur + 1 \in Gens /\ cur \in Gens /\ cur \in gens /\ main \in Seq(Refs) /\ gens \subseteq Gens
      /\ \A i \in DOMAIN main : main[i].del \/ main[i].gen <= cur
  BY <1>0, <1>1, ShapeFacts, Zenon DEF TopInv
<1>3. cur # cur + 1 /\ \A g \in Gens : g <= cur => g # cur + 1
  BY <1>2, BlobAssumption DEF Gens
<1>4. /\ gens' \subseteq Gens /\ file' \in [Gens -> Seq(Cells)] /\ fsync' \in [Gens -> Nat]
      /\ \A h \in Gens : fsync'[h] \in 0 .. Len(file'[h])
      /\ \A h \in gens : h # cur + 1 => Keeps(gens', file', fsync', h)
  BY <1>0, <1>1, <1>2, FileRemoved, Zenon
<1>5. fresh' \in Seq(Refs)
  BY <1>1
<1>6. cur \in gens'
  BY <1>1, <1>2, <1>3, Zenon
<1>7. Shape'
  BY <1>0, <1>1, <1>4, <1>5, <1>6, ShapeFacts, Zenon DEF Shape, TypeOK, Steps
<1>8. RefInv'
  <2>1. \A i \in DOMAIN main : main[i].del \/ Keeps(gens', file', fsync', main[i].gen)
    BY <1>0, <1>2, <1>3, <1>4, Zenon DEF RefInv, AllSafe, Safe
  <2> QED BY <1>0, <1>1, <1>2, <1>4, <2>1, SafeKept, Zenon DEF RefInv
<1>9. TopInv' /\ PendInv' /\ FreshInv' /\ DurableInv'
  BY <1>0, <1>1, Zenon DEF TopInv, PendInv, FreshInv, DurableInv
<1> QED BY <1>7, <1>8, <1>9, Zenon DEF IInv

-----------------------------------------------------------------------------
(* The commit of a relieve, and what follows it.                           *)
LEMMA FreshSafe ==
    ASSUME IInv, step = "flushed"
    PROVE  /\ fresh \in Seq(Refs) /\ cur # -1 /\ cur \in Gens /\ cur + 1 \in gens
           /\ AllSafe(fresh, gens, file, fsync)
           /\ \A i \in DOMAIN fresh : fresh[i].gen = cur + 1
<1>0. Shape /\ TopInv /\ FreshInv
  BY Zenon DEF IInv
<1>1. fresh \in Seq(Refs) /\ cur # -1 /\ cur \in Gens /\ cur + 1 \in gens
  BY <1>0, ShapeFacts, Zenon DEF TopInv
<1>2. /\ fsync[cur + 1] = Len(file[cur + 1])
      /\ \A i \in DOMAIN fresh : /\ fresh[i].gen = cur + 1 /\ fresh[i].pos \in 1 .. Len(file[cur + 1])
                                 /\ file[cur + 1][fresh[i].pos] = fresh[i].bytes /\ Exact(fresh[i])
  BY <1>0, Zenon DEF FreshInv
<1> QED BY <1>1, <1>2, Zenon DEF AllSafe, Safe

LEMMA CommitKeeps ==
    ASSUME IInv, RelieveCommit
    PROVE  IInv'
<1>0. Shape /\ TopInv
  BY Zenon DEF IInv
<1>1. /\ step = "flushed" /\ step' = "retire" /\ cur' = cur + 1 /\ size' = Len(file[cur + 1])
      /\ main' = fresh /\ msync' = Len(fresh) /\ fresh' = <<>>
      /\ UNCHANGED <<durable, gens, file, fsync, pend>>
  BY Zenon DEF RelieveCommit
<1>2. /\ fresh \in Seq(Refs) /\ cur # -1 /\ cur \in Gens /\ cur + 1 \in gens
      /\ AllSafe(fresh, gens, file, fsync)
      /\ \A i \in DOMAIN fresh : fresh[i].gen = cur + 1
  BY <1>1, FreshSafe, Zenon
<1>a. file[cur + 1] \in Seq(Cells)
  BY <1>0, <1>2, ShapeFacts, Zenon
<1>3. fresh' \in Seq(Refs) /\ msync' \in 0 .. Len(main') /\ size' \in Nat
  BY <1>1, <1>2, <1>a
<1>4. Shape'
  BY <1>0, <1>1, <1>2, <1>3, ShapeFacts, Zenon DEF Shape, TypeOK, Steps
<1>5. RefInv' /\ DurableInv' /\ PendInv' /\ FreshInv'
  BY <1>1, <1>2, Zenon DEF RefInv, DurableInv, PendInv, FreshInv
<1>6. TopInv'
  <2>1. cur + 1 # -1 /\ \A g \in Gens : g <= cur \/ g = cur + 1 => g <= cur + 1
    BY <1>2, BlobAssumption DEF Gens
  <2>2. \A g \in gens : g \in Gens /\ (g <= cur \/ g = cur + 1)
    BY <1>0, <1>1, <1>2, ShapeFacts, Zenon DEF TopInv
  <2> QED BY <1>1, <1>2, <2>1, <2>2, Zenon DEF TopInv
<1> QED BY <1>4, <1>5, <1>6, Zenon DEF IInv

LEMMA FailStopKeeps ==
    ASSUME IInv, FailStop
    PROVE  IInv'
<1>0. Shape /\ RefInv /\ DurableInv
  BY Zenon DEF IInv
<1>1. /\ step = "flushed" /\ cur' = -1 /\ size' = 0 /\ step' = "idle" /\ fresh' = <<>>
      /\ UNCHANGED <<durable, gens, file, fsync, pend>>
      /\ UNCHANGED <<main, msync>> \/ (main' = fresh /\ msync' = Len(fresh))
  BY Zenon DEF FailStop
<1>2. fresh \in Seq(Refs) /\ AllSafe(fresh, gens, file, fsync)
  BY <1>1, FreshSafe, Zenon
<1>3. fresh' \in Seq(Refs) /\ Len(fresh) \in 0 .. Len(fresh) /\ size' \in Nat
  BY <1>1, <1>2
<1>4. main' \in Seq(Refs) /\ msync' \in 0 .. Len(main')
  BY <1>0, <1>1, <1>2, <1>3, ShapeFacts, Zenon
<1>5. Shape'
  BY <1>0, <1>1, <1>3, <1>4, ShapeFacts, Zenon DEF Shape, TypeOK, Steps
<1>6. RefInv' /\ DurableInv'
  BY <1>0, <1>1, <1>2, Zenon DEF RefInv, DurableInv
<1>7. TopInv' /\ PendInv' /\ FreshInv'
  BY <1>1, Zenon DEF TopInv, PendInv, FreshInv
<1> QED BY <1>5, <1>6, <1>7, Zenon DEF IInv

LEMMA RetireKeeps ==
    ASSUME IInv, Retire
    PROVE  IInv'
<1>0. Shape /\ RefInv /\ TopInv /\ DurableInv
  BY Zenon DEF IInv
<1>1. PICK g \in gens \ {cur} :
        /\ gens' = gens \ {g}
        /\ file' = [file EXCEPT ![g] = <<>>] /\ fsync' = [fsync EXCEPT ![g] = 0]
  BY Zenon DEF Retire
<1>2. step = "retire" /\ cur # -1 /\ UNCHANGED <<durable, main, msync, cur, size, step, pend, fresh>>
  BY <1>0, Zenon DEF Retire, TopInv
<1>3. /\ main \in Seq(Refs) /\ g \in Gens /\ cur \in gens
      /\ \A i \in DOMAIN main : main[i].del \/ main[i].gen = cur
  BY <1>0, <1>2, ShapeFacts, Zenon DEF TopInv
<1>4. /\ gens' \subseteq Gens /\ file' \in [Gens -> Seq(Cells)] /\ fsync' \in [Gens -> Nat]
      /\ \A h \in Gens : fsync'[h] \in 0 .. Len(file'[h])
      /\ \A h \in gens : h # g => Keeps(gens', file', fsync', h)
  BY <1>0, <1>1, <1>3, FileRemoved, Zenon
<1>5. Shape'
  BY <1>0, <1>1, <1>2, <1>3, <1>4, ShapeFacts, Zenon DEF Shape, TypeOK
<1>6. RefInv'
  <2>1. \A i \in DOMAIN main : main[i].del \/ Keeps(gens', file', fsync', main[i].gen)
    BY <1>1, <1>3, <1>4, Zenon
  <2> QED BY <1>0, <1>2, <1>3, <1>4, <2>1, SafeKept, Zenon DEF RefInv
<1>7. TopInv' /\ PendInv' /\ FreshInv' /\ DurableInv'
  BY <1>0, <1>1, <1>2, Zenon DEF TopInv, PendInv, FreshInv, DurableInv
<1> QED BY <1>5, <1>6, <1>7, Zenon DEF IInv

LEMMA RelieveDoneKeeps ==
    ASSUME IInv, RelieveDone
    PROVE  IInv'
<1>0. Shape /\ RefInv /\ TopInv /\ DurableInv
  BY Zenon DEF IInv
<1>1. /\ step = "retire" /\ step' = "idle" /\ cur # -1
      /\ UNCHANGED <<durable, main, msync, gens, file, fsync, cur, size, pend, fresh>>
  BY <1>0, Zenon DEF RelieveDone, TopInv
<1>2. Shape' /\ RefInv' /\ DurableInv'
  BY <1>0, <1>1, Zenon DEF Shape, TypeOK, Steps, RefInv, DurableInv
<1>3. TopInv' /\ PendInv' /\ FreshInv'
  BY <1>0, <1>1, Zenon DEF TopInv, PendInv, FreshInv
<1> QED BY <1>2, <1>3, Zenon DEF IInv

LEMMA CompactKeeps ==
    ASSUME IInv, Compact
    PROVE  IInv'
<1>0. Shape /\ RefInv /\ TopInv /\ main \in Seq(Refs)
  BY ShapeFacts, Zenon DEF IInv
<1>1. /\ step = "idle" /\ cur # -1 /\ main' \in Rewrite(main) /\ msync' = Len(main')
      /\ UNCHANGED <<durable, gens, file, fsync, cur, size, step, pend, fresh>>
  BY Zenon DEF Compact, Idle
<1>2. /\ main' \in Seq(Refs)
      /\ \A i \in DOMAIN main' : \E j \in DOMAIN main : main'[i] = main[j]
  BY <1>0, <1>1, RewriteFacts, Zenon
<1>3. msync' \in 0 .. Len(main')
  BY <1>1, <1>2
<1>4. Shape'
  BY <1>0, <1>1, <1>2, <1>3, ShapeFacts, Zenon DEF Shape, TypeOK
<1>5. RefInv'
  BY <1>0, <1>1, <1>2, Zenon DEF RefInv, AllSafe
<1>6. TopInv' /\ PendInv' /\ FreshInv' /\ DurableInv'
  BY <1>0, <1>1, Zenon DEF TopInv, PendInv, FreshInv, DurableInv
<1> QED BY <1>4, <1>5, <1>6, Zenon DEF IInv

-----------------------------------------------------------------------------
(* Stopping and starting.                                                  *)
LEMMA MinExists ==
    ASSUME NEW T, T \subseteq Nat, T # {}
    PROVE  \E x \in T : \A y \in T : x <= y
<1>1. PICK x \in T : \A y \in T : ~(<<y, x>> \in OpToRel(<, Nat))
  BY NatLessThanWellFounded, WFMin, Zenon
<1>2. \A y \in T : ~(y < x)
  BY <1>1, Zenon DEF OpToRel
<1> QED BY <1>2

(* There is a highest generation for Open to append to.                    *)
LEMMA MaxExists ==
    ASSUME NEW n \in Nat, NEW S, S \subseteq 0 .. n, S # {}
    PROVE  \E x \in S : \A y \in S : y <= x
<1> DEFINE T == {t \in Nat : n - t \in S}
<1>1. ASSUME NEW s \in S PROVE n - s \in T
  BY <1>1
<1>2. T \subseteq Nat /\ T # {}
  BY <1>1, Zenon
<1>3. PICK t \in T : \A y \in T : t <= y
  BY <1>2, MinExists, Zenon
<1>4. n - t \in S /\ t \in Nat
  BY <1>3
<1>5. \A y \in S : t <= n - y
  BY <1>1, <1>3
<1>6. \A y \in S : y <= n - t
  BY <1>4, <1>5
<1> QED BY <1>4, <1>6, Zenon

(* load finds no record to cut off.                                        *)
LEMMA ReplayAll ==
    ASSUME Shape, RefInv, NEW from \in 0 .. msync, ReplayTail(from)
    PROVE  main' = main /\ msync' = msync
<1>0. /\ main \in Seq(Refs) /\ msync \in 0 .. Len(main) /\ fsync \in [Gens -> Nat]
      /\ gens \subseteq Gens /\ \A g \in Gens : fsync[g] \in 0 .. Len(file[g]) /\ file[g] \in Seq(Cells)
  BY ShapeFacts, Zenon
<1>1. ASSUME NEW i \in DOMAIN main PROVE ~Dangling(main[i])
  <2> SUFFICES ASSUME ~main[i].del PROVE ~(main[i].gen \notin gens \/ main[i].pos > Len(file[main[i].gen]))
    BY Zenon DEF Dangling
  <2>1. main[i].gen \in gens /\ main[i].pos \in 1 .. fsync[main[i].gen]
    BY <1>1, Zenon DEF RefInv, AllSafe, Safe
  <2>2. /\ main[i].gen \in Gens /\ fsync[main[i].gen] \in 0 .. Len(file[main[i].gen])
        /\ file[main[i].gen] \in Seq(Cells)
    BY <1>0, <2>1, Zenon
  <2>3. Len(file[main[i].gen]) \in Nat
    BY <2>2
  <2> QED BY <2>1, <2>2, <2>3
<1> DEFINE intact == {i \in from .. Len(main) : \A j \in from + 1 .. i : ~Dangling(main[j])}
           end == CHOOSE i \in intact : \A j \in intact : j <= i
<1>2. main' = SubSeq(main, 1, end) /\ msync' = IF msync > end THEN end ELSE msync
  BY Zenon DEF ReplayTail
<1>3. Len(main) \in Nat /\ from \in Nat /\ from <= Len(main) /\ DOMAIN main = 1 .. Len(main)
  BY <1>0
<1>4. Len(main) \in intact /\ \A j \in intact : j <= Len(main) /\ j \in Nat
  <2>1. \A j \in from + 1 .. Len(main) : j \in DOMAIN main
    BY <1>3
  <2>2. Len(main) \in from .. Len(main)
    BY <1>3
  <2>3. Len(main) \in intact
    BY <1>1, <2>1, <2>2, Zenon
  <2>4. \A j \in from .. Len(main) : j <= Len(main) /\ j \in Nat
    BY <1>3
  <2> QED BY <2>3, <2>4, Zenon
<1>5. end \in intact /\ \A j \in intact : j <= end
  BY <1>4, Zenon
<1> HIDE DEF intact, end
<1>6. end = Len(main)
  BY <1>3, <1>4, <1>5
<1> QED BY <1>0, <1>2, <1>6

LEMMA OpenKeeps ==
    ASSUME IInv, Open
    PROVE  IInv' /\ main' = main
<1>0. Shape /\ RefInv /\ TopInv /\ DurableInv /\ gens \subseteq Gens /\ fsync \in [Gens -> Nat]
  BY ShapeFacts, Zenon DEF IInv
<1>1. /\ cur = -1 /\ step = "idle" /\ gens' = gens \cup {cur'}
      /\ cur' = IF gens = {} THEN 0 ELSE CHOOSE g \in gens : \A h \in gens : h <= g
      /\ size' = Len(file[cur'])
      /\ UNCHANGED <<durable, file, fsync, step, pend, fresh>>
  BY <1>0, Zenon DEF Open, TopInv
<1>2. main' = main /\ msync' = msync
  BY <1>0, ReplayAll, Zenon DEF Open
<1>3. cur' \in Gens /\ (\A h \in gens : h <= cur') /\ cur' <= cur' /\ cur' # -1
  <2>1. CASE gens = {}
    BY <1>1, <2>1, BlobAssumption DEF Gens
  <2>2. CASE gens # {}
    <3>1. \E g \in gens : \A h \in gens : h <= g
      BY <1>0, <2>2, MaxExists, BlobAssumption, Zenon DEF Gens
    <3>2. cur' \in gens /\ \A h \in gens : h <= cur'
      BY <1>1, <2>2, <3>1, Zenon
    <3>3. cur' \in Gens
      BY <1>0, <3>2, Zenon
    <3> QED BY <3>2, <3>3 DEF Gens
  <2> QED BY <2>1, <2>2, Zenon
<1>4. Shape'
  <2>0. gens' = gens \cup {cur'} /\ cur' \in Gens
    BY <1>1, <1>3, Zenon
  <2>1. gens' \subseteq Gens /\ cur' \in gens' \cup {-1}
    BY <1>0, <2>0, Zenon
  <2>2. main' \in Seq(Refs) /\ msync' \in 0 .. Len(main')
    BY <1>0, <1>2, ShapeFacts, Zenon
  <2>3. file[cur'] \in Seq(Cells)
    BY <1>0, <2>0, ShapeFacts, Zenon
  <2>4. size' \in Nat
    BY <1>1, <2>3
  <2> QED BY <1>0, <1>1, <2>1, <2>2, <2>4, ShapeFacts, Zenon DEF Shape, TypeOK
<1>5. RefInv' /\ DurableInv'
  BY <1>0, <1>1, <1>2, Zenon DEF RefInv, AllSafe, Safe, DurableInv
<1>6. TopInv' /\ PendInv' /\ FreshInv'
  BY <1>1, <1>3, Zenon DEF TopInv, PendInv, FreshInv
<1> QED BY <1>2, <1>4, <1>5, <1>6, Zenon DEF IInv

LEMMA CrashKeeps ==
    ASSUME IInv, Crash
    PROVE  IInv'
<1>0. Shape /\ RefInv /\ DurableInv
  BY Zenon DEF IInv
<1>1. /\ cur' = -1 /\ size' = 0 /\ step' = "idle" /\ pend' = NoPend /\ fresh' = <<>>
      /\ UNCHANGED <<durable, main, msync, gens, file, fsync>>
  BY Zenon DEF Crash, Stop
<1>2. fresh' \in Seq(Refs) /\ size' \in Nat
  BY <1>1
<1>3. Shape' /\ RefInv' /\ DurableInv'
  BY <1>0, <1>1, <1>2, ShapeFacts, Zenon DEF Shape, TypeOK, Steps, RefInv, DurableInv
<1>4. TopInv' /\ PendInv' /\ FreshInv'
  BY <1>1, Zenon DEF TopInv, PendInv, FreshInv
<1> QED BY <1>3, <1>4, Zenon DEF IInv

LEMMA PowerLossKeeps ==
    ASSUME IInv, PowerLoss
    PROVE  IInv' /\ (main' = main \/ (~durable /\ Len(main') < Len(main)))
<1>0. Shape /\ RefInv /\ DurableInv
  BY Zenon DEF IInv
<1>a. /\ main \in Seq(Refs) /\ msync \in 0 .. Len(main) /\ fsync \in [Gens -> Nat]
      /\ gens \subseteq Gens /\ \A g \in Gens : fsync[g] \in 0 .. Len(file[g]) /\ file[g] \in Seq(Cells)
  BY <1>0, ShapeFacts, Zenon
<1>1. /\ cur' = -1 /\ size' = 0 /\ step' = "idle" /\ pend' = NoPend /\ fresh' = <<>>
      /\ UNCHANGED <<durable, gens>>
  BY Zenon DEF PowerLoss, Stop
<1>2. PICK m \in msync .. Len(main) : main' = SubSeq(main, 1, m) /\ msync' = m
  BY Zenon DEF PowerLoss
<1>3. PICK keep \in [gens -> 0 .. MaxSlots] :
        /\ \A g \in gens : keep[g] \in fsync[g] .. Len(file[g])
        /\ file' = [g \in Gens |-> IF g \in gens THEN SubSeq(file[g], 1, keep[g]) ELSE <<>>]
        /\ fsync' = [g \in Gens |-> IF g \in gens THEN keep[g] ELSE 0]
  BY Zenon DEF PowerLoss
<1>4. m \in 0 .. Len(main)
  BY <1>a
<1>5. /\ main' \in Seq(Refs) /\ Len(main') = m /\ DOMAIN main' = 1 .. m
      /\ \A i \in 1 .. m : main'[i] = main[i]
      /\ m = Len(main) => main' = main
  BY <1>a, <1>2, <1>4, PrefixFacts
<1>6. msync' \in 0 .. Len(main') /\ (m = Len(main) \/ m < Len(main)) /\ 1 .. m \subseteq DOMAIN main
  BY <1>a, <1>2, <1>4, <1>5
<1>7. durable => m = Len(main)
  <2>1. msync = Len(main) => m = Len(main)
    BY <1>a
  <2> QED BY <1>0, <2>1, Zenon DEF DurableInv
<1>8. ASSUME NEW g \in Gens
      PROVE  /\ file'[g] \in Seq(Cells) /\ fsync'[g] \in 0 .. Len(file'[g]) /\ fsync'[g] \in Nat
             /\ g \in gens => Keeps(gens', file', fsync', g)
  <2>1. CASE g \notin gens
    BY <1>3, <1>8, <2>1
  <2>2. CASE g \in gens
    <3>1. file'[g] = SubSeq(file[g], 1, keep[g]) /\ fsync'[g] = keep[g] /\ keep[g] \in fsync[g] .. Len(file[g])
      BY <1>3, <1>8, <2>2, Zenon
    <3>2. fsync[g] \in Nat /\ file[g] \in Seq(Cells)
      BY <1>a, <1>8, Zenon
    <3>3. keep[g] \in 0 .. Len(file[g])
      BY <3>1, <3>2
    <3>4. /\ file'[g] \in Seq(Cells) /\ Len(file'[g]) = keep[g]
          /\ \A p \in 1 .. keep[g] : file'[g][p] = file[g][p]
      BY <3>1, <3>2, <3>3, PrefixFacts
    <3>5. keep[g] \in Nat /\ keep[g] >= fsync[g] /\ keep[g] \in 0 .. keep[g] /\ 1 .. fsync[g] \subseteq 1 .. keep[g]
      BY <3>1, <3>2
    <3> QED BY <1>1, <2>2, <3>1, <3>4, <3>5, Zenon DEF Keeps
  <2> QED BY <2>1, <2>2, Zenon
<1>9. file' \in [Gens -> Seq(Cells)] /\ fsync' \in [Gens -> Nat]
  <2>1. \A g \in Gens : /\ (IF g \in gens THEN SubSeq(file[g], 1, keep[g]) ELSE <<>>) \in Seq(Cells)
                        /\ (IF g \in gens THEN keep[g] ELSE 0) \in Nat
    BY <1>3, <1>8, Zenon
  <2> QED BY <1>3, <2>1, Zenon
<1>10. fresh' \in Seq(Refs) /\ size' \in Nat
  BY <1>1
<1>11. Shape'
  BY <1>0, <1>1, <1>5, <1>6, <1>8, <1>9, <1>10, ShapeFacts, Zenon DEF Shape, TypeOK, Steps
<1>12. RefInv'
  <2>1. AllSafe(main', gens, file, fsync)
    BY <1>0, <1>5, <1>6, Zenon DEF RefInv, AllSafe
  <2>2. \A i \in DOMAIN main' : main'[i].del \/ Keeps(gens', file', fsync', main'[i].gen)
    BY <1>a, <1>8, <2>1, Zenon DEF AllSafe, Safe
  <2>3. \A log \in Seq(Refs) :
          /\ AllSafe(log, gens, file, fsync)
          /\ \A i \in DOMAIN log : log[i].del \/ Keeps(gens', file', fsync', log[i].gen)
          => AllSafe(log, gens', file', fsync')
    BY <1>0, <1>9, SafeKept, Zenon
  <2> QED BY <1>5, <2>1, <2>2, <2>3, Zenon DEF RefInv
<1>13. TopInv' /\ PendInv' /\ FreshInv'
  BY <1>1, Zenon DEF TopInv, PendInv, FreshInv
<1>14. DurableInv'
  BY <1>1, <1>2, <1>5, Zenon DEF DurableInv
<1> QED BY <1>5, <1>6, <1>7, <1>11, <1>12, <1>13, <1>14, Zenon DEF IInv

-----------------------------------------------------------------------------
LEMMA InitIInv == Init => IInv
<1> SUFFICES ASSUME Init PROVE IInv
  OBVIOUS
<1>1. /\ durable \in BOOLEAN /\ main = <<>> /\ msync = 0 /\ gens = {}
      /\ file = [g \in Gens |-> <<>>] /\ fsync = [g \in Gens |-> 0]
      /\ cur = -1 /\ size = 0 /\ step = "idle" /\ pend = NoPend /\ fresh = <<>>
  BY Zenon DEF Init
<1>2. <<>> \in Seq(Refs) /\ <<>> \in Seq(Cells) /\ Len(<<>>) = 0 /\ 0 \in 0 .. 0 /\ 0 \in Nat /\ DOMAIN <<>> = {}
  OBVIOUS
<1>3. Shape
  BY <1>1, <1>2, Zenon DEF Shape, TypeOK, Steps
<1>4. RefInv /\ DurableInv
  BY <1>1, <1>2, Zenon DEF RefInv, AllSafe, DurableInv
<1>5. TopInv /\ PendInv /\ FreshInv
  BY <1>1, Zenon DEF TopInv, PendInv, FreshInv
<1> QED BY <1>3, <1>4, <1>5, Zenon DEF IInv

LEMMA StutterKeeps == ASSUME IInv, UNCHANGED vars PROVE IInv'
<1>1. UNCHANGED <<durable, main, msync, gens, file, fsync, cur, size, step, pend, fresh>>
  BY Zenon DEF vars
<1>2. Shape' /\ RefInv' /\ DurableInv' /\ TopInv' /\ PendInv'
  BY <1>1, Zenon DEF IInv, Shape, TypeOK, RefInv, DurableInv, TopInv, PendInv
<1>3. FreshInv'
  <2>1. Uncopied' = Uncopied
    BY <1>1, Zenon DEF Uncopied
  <2> QED BY <1>1, <2>1, Zenon DEF IInv, FreshInv
<1> QED BY <1>2, <1>3, Zenon DEF IInv

(* size is read from the file when it is opened and moves with each write. *)
LEMMA SizeStep == IInv /\ SizeInv /\ [Next]_vars => SizeInv'
<1> SUFFICES ASSUME IInv, SizeInv, [Next]_vars, cur' # -1
             PROVE  size' <= Len(file'[cur'])
  BY Zenon DEF SizeInv
<1>0. Shape /\ TopInv /\ gens \subseteq Gens /\ size \in Nat
  BY ShapeFacts, Zenon DEF IInv
<1>1. CASE Open
  <2>0. IInv'
    BY <1>1, OpenKeeps, Zenon
  <2>1. cur' \in Gens /\ size' = Len(file[cur']) /\ file' = file
    BY <1>1, <2>0, Zenon DEF Open, IInv, Shape, TypeOK
  <2>2. file[cur'] \in Seq(Cells)
    BY <1>0, <2>1, ShapeFacts, Zenon
  <2> QED BY <2>1, <2>2
<1>2. CASE RelieveCommit
  <2>1. cur + 1 \in Gens /\ cur' = cur + 1 /\ size' = Len(file[cur + 1]) /\ file' = file
    BY <1>0, <1>2, FreshSafe, Zenon DEF RelieveCommit
  <2>2. file[cur + 1] \in Seq(Cells)
    BY <1>0, <2>1, ShapeFacts, Zenon
  <2> QED BY <2>1, <2>2
<1>3. CASE cur' = cur /\ size' = size /\ file' = file
  BY <1>3, Zenon DEF SizeInv
<1>4. ASSUME cur' = cur, NEW v \in Cells, file' = [file EXCEPT ![cur] = Append(@, v)],
             size' \in {size, size + 1}
      PROVE  size' <= Len(file'[cur'])
  <2>1. cur \in Gens /\ file[cur] \in Seq(Cells) /\ size <= Len(file[cur])
    BY <1>0, <1>4, ShapeFacts, Zenon DEF SizeInv
  <2>2. Len(file'[cur]) = Len(file[cur]) + 1
    BY <1>0, <1>4, <2>1, FileGrows, Zenon
  <2> QED BY <1>0, <1>4, <2>1, <2>2
<1>5. ASSUME cur' = cur, size' = size, NEW g \in Gens, g # cur, NEW c,
             file' = [file EXCEPT ![g] = c]
      PROVE  size' <= Len(file'[cur'])
  <2>1. cur \in Gens /\ file \in [Gens -> Seq(Cells)]
    BY <1>0, <1>5, ShapeFacts, Zenon
  <2>2. file'[cur] = file[cur]
    BY <1>5, <2>1, Zenon
  <2> QED BY <1>5, <2>2, Zenon DEF SizeInv
<1>6. step = "copy" => cur + 1 \in Gens /\ cur + 1 # cur
  <2>1. step = "copy" => cur + 1 \in Gens /\ cur \in Gens
    BY <1>0, ShapeFacts, Zenon DEF TopInv
  <2> QED BY <2>1 DEF Gens
<1>7. ASSUME NEW r \in Uncopied, RelieveCopy(r) PROVE size' <= Len(file'[cur'])
  BY <1>5, <1>6, <1>7, Zenon DEF RelieveCopy
<1>8. CASE RelieveFails
  BY <1>5, <1>6, <1>8, Zenon DEF RelieveFails
<1>9. CASE Retire
  BY <1>0, <1>5, <1>9, Zenon DEF Retire
<1>10. ASSUME NEW k \in Keys, NEW v \in Vals, PutBlob(k, v) PROVE size' <= Len(file'[cur'])
  BY <1>4, <1>10, Zenon DEF PutBlob, Cells
<1>11. CASE PutTorn
  BY <1>4, <1>11, Zenon DEF PutTorn, Cells
<1>12. CASE FailStop \/ Crash \/ PowerLoss
  BY <1>12, Zenon DEF FailStop, Crash, PowerLoss, Stop
<1>13. CASE BlobFlush \/ AppendRecord \/ PutFails \/ RelieveStart \/ RelieveFlush \/ RelieveDone
            \/ Compact \/ (\E k \in Keys : Delete(k)) \/ UNCHANGED vars
  BY <1>3, <1>13, Zenon DEF BlobFlush, AppendRecord, PutFails, RelieveStart, RelieveFlush,
       RelieveDone, Compact, Delete, vars
<1> QED BY <1>1, <1>2, <1>7, <1>8, <1>9, <1>10, <1>11, <1>12, <1>13, Zenon DEF Next

LEMMA IInvStep == IInv /\ SizeInv /\ [Next]_vars => IInv'
BY PutBlobKeeps, PutTornKeeps, BlobFlushKeeps, AppendRecordKeeps, PutFailsKeeps, DeleteKeeps,
   RelieveStartKeeps, RelieveCopyKeeps, RelieveFlushKeeps, RelieveFailsKeeps, CommitKeeps,
   FailStopKeeps, RetireKeeps, RelieveDoneKeeps, CompactKeeps, OpenKeeps, CrashKeeps,
   PowerLossKeeps, StutterKeeps, Zenon
   DEF Next

LEMMA BlobInvariance == Spec => []IInv
<1>1. Init => SizeInv
  BY Zenon DEF Init, SizeInv
<1> QED BY <1>1, InitIInv, IInvStep, SizeStep, PTL DEF Spec

(* The variables keep their types; the store appends to a generation that  *)
(* exists, also after a relieve that failed or was interrupted (openBlobs, *)
(* BlobsRelieve).                                                          *)
THEOREM BlobTypeCorrect == Spec => []TypeOK
<1>1. IInv => TypeOK
  BY Zenon DEF IInv, Shape
<1> QED BY <1>1, BlobInvariance, PTL

(* Every record names bytes that exist and are those it was made with, and *)
(* they are its value unless a write to that generation had failed         *)
(* part-way: the blob is durable before its record is written, a relieve   *)
(* commits only what it has flushed, and it retires only generations no    *)
(* record names (blobStore.append, appendRecord, BlobsRelieve,             *)
(* rewriteBody).                                                           *)
THEOREM RefsCorrect == Spec => []RefsResolve
<1>1. IInv => RefsResolve
  <2> SUFFICES ASSUME IInv, NEW i \in DOMAIN main, ~main[i].del
               PROVE  /\ Readable(main[i]) /\ file[main[i].gen][main[i].pos] = main[i].bytes
                      /\ main[i].skew \/ main[i].bytes = main[i].val
    BY Zenon DEF RefsResolve
  <2>1. Shape /\ RefInv
    BY Zenon DEF IInv
  <2>2. /\ main[i].gen \in gens /\ main[i].pos \in 1 .. fsync[main[i].gen]
        /\ file[main[i].gen][main[i].pos] = main[i].bytes /\ Exact(main[i])
    BY <2>1, Zenon DEF RefInv, AllSafe, Safe
  <2>3. fsync[main[i].gen] \in 0 .. Len(file[main[i].gen]) /\ file[main[i].gen] \in Seq(Cells)
    BY <2>1, <2>2, ShapeFacts, Zenon
  <2>4. Len(file[main[i].gen]) \in Nat
    BY <2>3
  <2>5. main[i].pos \in 1 .. Len(file[main[i].gen])
    BY <2>2, <2>3, <2>4
  <2> QED BY <2>2, <2>5, Zenon DEF Readable, Exact
<1> QED BY <1>1, BlobInvariance, PTL

-----------------------------------------------------------------------------
(* What the keys read as is a matter of the log alone.                     *)
Seen(log) == {<<r.key, r.bytes>> : r \in Live(log)}

LEMMA ReadsSeen ==
    ASSUME RefsResolve, main \in Seq(Refs)
    PROVE  Reads = Seen(main)
<1>1. \A r \in Live(main) : Readable(r) /\ file[r.gen][r.pos] = r.bytes
  <2> SUFFICES ASSUME NEW r \in Live(main) PROVE Readable(r) /\ file[r.gen][r.pos] = r.bytes
    OBVIOUS
  <2>1. PICK i \in DOMAIN main : main[i] = r /\ ~r.del
    BY LiveFacts, Zenon
  <2> QED BY <2>1, Zenon DEF RefsResolve
<1>2. \A r \in Live(main) : <<r.key, IF Readable(r) THEN file[r.gen][r.pos] ELSE "lost">> = <<r.key, r.bytes>>
  BY <1>1, Zenon
<1> QED BY <1>2, Zenon DEF Reads, Seen

(* A log with one record for each live key of another, and no other, reads *)
(* the same.                                                               *)
LEMMA SameSeen ==
    ASSUME NEW log \in Seq(Refs), NEW new \in Seq(Refs),
           \A i \in DOMAIN new : ~new[i].del /\ \E r \in Live(log) : r.key = new[i].key /\ r.bytes = new[i].bytes,
           \A i, j \in DOMAIN new : new[i].key = new[j].key => i = j,
           \A r \in Live(log) : \E i \in DOMAIN new : new[i].key = r.key
    PROVE  Seen(new) = Seen(log)
<1>1. \A i \in DOMAIN new : i <= i
  OBVIOUS
<1>2. Newest(new) = DOMAIN new
  BY <1>1, Zenon DEF Newest
<1>3. \A r : r \in Live(new) <=> \E i \in DOMAIN new : r = new[i]
  BY <1>2, Zenon DEF Live
<1>4. ASSUME NEW r \in Live(new) PROVE <<r.key, r.bytes>> \in Seen(log)
  <2>1. PICK i \in DOMAIN new : r = new[i]
    BY <1>3, <1>4, Zenon
  <2>2. PICK q \in Live(log) : q.key = new[i].key /\ q.bytes = new[i].bytes
    BY Zenon
  <2> QED BY <2>1, <2>2, Zenon DEF Seen
<1>5. ASSUME NEW r \in Live(log) PROVE <<r.key, r.bytes>> \in Seen(new)
  <2>1. PICK i \in DOMAIN new : new[i].key = r.key
    BY <1>5, Zenon
  <2>2. PICK q \in Live(log) : q.key = new[i].key /\ q.bytes = new[i].bytes
    BY Zenon
  <2>3. q = r
    <3>1. \A s \in Live(log) : s.key = r.key => s = r
      BY <1>5, LiveFacts, Zenon
    <3> QED BY <2>1, <2>2, <3>1, Zenon
  <2>4. new[i] \in Live(new)
    BY <1>3, Zenon
  <2> QED BY <2>1, <2>2, <2>3, <2>4, Zenon DEF Seen
<1>6. ASSUME NEW x \in Seen(new) PROVE x \in Seen(log)
  <2>1. PICK r \in Live(new) : x = <<r.key, r.bytes>>
    BY <1>6, Zenon DEF Seen
  <2> QED BY <1>4, <2>1, Zenon
<1>7. ASSUME NEW x \in Seen(log) PROVE x \in Seen(new)
  <2>1. PICK r \in Live(log) : x = <<r.key, r.bytes>>
    BY <1>7, Zenon DEF Seen
  <2> QED BY <1>5, <2>1, Zenon
<1> QED BY <1>6, <1>7, Zenon

LEMMA FreshSeen ==
    ASSUME IInv, step = "flushed"
    PROVE  Seen(fresh) = Seen(main)
<1>1. main \in Seq(Refs) /\ fresh \in Seq(Refs)
  BY ShapeFacts, Zenon DEF IInv
<1>2. /\ \A i \in DOMAIN fresh : ~fresh[i].del /\ \E r \in Live(main) : r.key = fresh[i].key /\ r.bytes = fresh[i].bytes
      /\ \A i, j \in DOMAIN fresh : fresh[i].key = fresh[j].key => i = j
      /\ Uncopied = {}
  BY Zenon DEF IInv, FreshInv
<1>3. \A r \in Live(main) : \E i \in DOMAIN fresh : fresh[i].key = r.key
  BY <1>2, Zenon DEF Uncopied
<1> QED BY <1>1, <1>2, <1>3, SameSeen, Zenon

LEMMA RewriteSeen ==
    ASSUME NEW log \in Seq(Refs), NEW new \in Rewrite(log)
    PROVE  Seen(new) = Seen(log)
<1>1. new \in Seq(Refs)
  BY RewriteFacts, Zenon
<1>2. \A i \in DOMAIN new : new[i] \in Live(log)
  BY DEF Rewrite
<1>3. \A i \in DOMAIN new : ~new[i].del /\ \E r \in Live(log) : r.key = new[i].key /\ r.bytes = new[i].bytes
  BY <1>2, LiveFacts, Zenon
<1>4. \A r \in Live(log) : \E i \in DOMAIN new : new[i].key = r.key
  BY Zenon DEF Rewrite
<1>5. ASSUME NEW i \in DOMAIN new, NEW j \in DOMAIN new, new[i].key = new[j].key PROVE i = j
  <2>1. \A m, n \in DOMAIN new : m < n => new[m].key < new[n].key
    BY Zenon DEF Rewrite
  <2>2. new[i] \in Refs /\ new[j] \in Refs /\ i \in Nat /\ j \in Nat
    BY <1>1, <1>5
  <2>3. new[i].key \in Nat /\ new[j].key \in Nat
    BY <2>2, BlobAssumption, Zenon DEF Refs
  <2> QED BY <1>5, <2>1, <2>2, <2>3
<1> QED BY <1>1, <1>3, <1>4, <1>5, SameSeen, Zenon

SeenInv == Reads = Seen(main)

(* What the keys read as changes by a write, a delete or the loss of what  *)
(* was not durable: no step of a relieve or of a compaction, failed,       *)
(* interrupted or completed, shows in a read, and a power loss does only   *)
(* without SyncEveryWrite (rewriteBody, BlobsRelieve, replayTail).         *)
THEOREM ReadsCorrect == Spec => OnlyWritesChange
<1>1. IInv /\ RefsResolve => SeenInv
  BY ReadsSeen, ShapeFacts, Zenon DEF IInv, SeenInv
<1>2. IInv /\ SeenInv /\ SeenInv' /\ [Next]_vars =>
        [ \/ step = "record"
          \/ Idle /\ Len(main') = Len(main) + 1
          \/ ~durable /\ Len(main') < Len(main) /\ cur' = -1
          \/ UNCHANGED Reads ]_vars
  <2> SUFFICES ASSUME IInv, Next, Seen(main') # Seen(main)
               PROVE  \/ step = "record"
                      \/ Idle /\ Len(main') = Len(main) + 1
                      \/ ~durable /\ Len(main') < Len(main) /\ cur' = -1
    BY Zenon DEF SeenInv
  <2>0. Shape /\ main \in Seq(Refs)
    BY ShapeFacts, Zenon DEF IInv
  <2>1. main' # main
    BY Zenon
  <2>2. CASE Open
    BY <2>1, <2>2, OpenKeeps, Zenon
  <2>3. CASE AppendRecord
    BY <2>3, Zenon DEF AppendRecord
  <2>4. CASE RelieveCommit \/ FailStop
    <3>1. step = "flushed" /\ main' = fresh
      BY <2>1, <2>4, Zenon DEF RelieveCommit, FailStop
    <3> QED BY <3>1, FreshSeen, Zenon
  <2>5. CASE Compact
    BY <2>0, <2>5, RewriteSeen, Zenon DEF Compact
  <2>6. ASSUME NEW k \in Keys, Delete(k) PROVE Idle /\ Len(main') = Len(main) + 1
    <3>1. main' = Append(main, Tombstone(k))
      BY <2>6, Zenon DEF Delete
    <3>2. Len(main') = Len(main) + 1
      BY <2>0, <3>1
    <3> QED BY <2>6, <3>2, Zenon DEF Delete
  <2>7. CASE PowerLoss
    BY <2>1, <2>7, PowerLossKeeps, Zenon DEF PowerLoss, Stop
  <2>8. (\E k \in Keys, v \in Vals : PutBlob(k, v)) \/ PutTorn \/ BlobFlush \/ PutFails \/ RelieveStart
          \/ (\E r \in Uncopied : RelieveCopy(r)) \/ RelieveFlush \/ Retire \/ RelieveDone
          \/ RelieveFails \/ Crash => main' = main
    BY Zenon DEF PutBlob, PutTorn, BlobFlush, PutFails, RelieveStart, RelieveCopy, RelieveFlush, Retire,
                 RelieveDone, RelieveFails, Crash
  <2> QED BY <2>1, <2>2, <2>3, <2>4, <2>5, <2>6, <2>7, <2>8, Zenon DEF Next
<1> QED BY <1>1, <1>2, BlobInvariance, RefsCorrect, PTL DEF Spec, OnlyWritesChange
=============================================================================
