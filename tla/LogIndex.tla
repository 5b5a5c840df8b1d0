------------------------------ MODULE LogIndex ------------------------------
(***************************************************************************)
(* The on-disk main log, the primary-key index and the boot path that      *)
(* derives one from the other (mainlog.go, pkindex.go, indexhint.go, the   *)
(* load/replayTail half of db.go).                                         *)
(*                                                                         *)
(* A JSONL line is one element of a sequence and a byte offset is a line   *)
(* number, so an offset that is wrong in the code (it points into some     *)
(* other record) is a wrong line number here.                              *)
(***************************************************************************)
EXTENDS Records

(* pkEntry: where the latest record of a key is, and its expiry.  Line     *)
(* numbers start at 1, so off = 0 says that the key has no entry.          *)
Entry == [off: Nat, exp: Nat]
NoEntry == [off |-> 0, exp |-> 0]
Index == [Keys -> Entry]
EmptyIndex == [k \in Keys |-> NoEntry]

(* upsert and remove on the in-memory tree (the ix of an entry is not      *)
(* modelled here).                                                         *)
Upsert(idx, k, off, exp) == [idx EXCEPT ![k] = [off |-> off, exp |-> exp]]
RemoveKeys(idx, S) == [k \in Keys |-> IF k \in S THEN NoEntry ELSE idx[k]]

-----------------------------------------------------------------------------
(* scanMainLog reads on from line `from` and stops at the first line that  *)
(* does not parse; that line and what follows it is the torn tail, which   *)
(* replayTail truncates.                                                   *)
FirstTorn(log, from, i) ==
    /\ i \in from + 1 .. Len(log)
    /\ log[i].kind = "torn"
    /\ \A j \in from + 1 .. i - 1 : log[j].kind # "torn"

Intact(log, from) ==
    IF \E i \in 1 .. Len(log) : FirstTorn(log, from, i)
    THEN SubSeq(log, 1, (CHOOSE i \in 1 .. Len(log) : FirstTorn(log, from, i)) - 1)
    ELSE log

(* Line i is the last one about key k among the first n lines.             *)
LastAt(log, n, k, i) ==
    /\ i \in 1 .. n
    /\ log[i].key = k
    /\ \A j \in i + 1 .. n : log[j].key # k

EntryAt(log, i) ==
    IF log[i].kind = "tomb" THEN NoEntry ELSE [off |-> i, exp |-> log[i].exp]

(* replayTail applies the lines after `from` to the entries in base: the   *)
(* last line about a key decides its entry.                                *)
Replay(base, log, from) ==
    [k \in Keys |->
        IF \E i \in from + 1 .. Len(log) : LastAt(log, Len(log), k, i)
        THEN EntryAt(log, CHOOSE i \in from + 1 .. Len(log) :
                              LastAt(log, Len(log), k, i))
        ELSE base[k]]

(* What the log alone says: the full scan of a store without a hint.       *)
FullScan(log) == Replay(EmptyIndex, log, 0)

(* The hint file: an index snapshot and the length of the log it covers.   *)
(* A missing or unparseable hint is the same as one that covers nothing.   *)
Hint == [covers: Nat, idx: Index]
NoHint == [covers |-> 0, idx |-> EmptyIndex]

(* load: the hint is the starting point if it does not claim more than the *)
(* file holds, and the scan starts at its watermark; otherwise the scan    *)
(* starts at 0 with an empty index.  A hint that is not used stays on disk.*)
UsableHint(hint, log) == IF hint.covers <= Len(log) THEN hint ELSE NoHint
LoadedLog(hint, log) == Intact(log, UsableHint(hint, log).covers)
Load(hint, log) ==
    LET h == UsableHint(hint, log)
    IN  Replay(h.idx, Intact(log, h.covers), h.covers)
=============================================================================
