------------------------------- MODULE KVStore ------------------------------
(***************************************************************************)
(* What the store promises its clients: a map from keys to records, in     *)
(* which a record disappears when its time-to-live has passed.  Files,     *)
(* indexes, hints, compaction, crashes and restarts are not visible.       *)
(***************************************************************************)
EXTENDS Records

VARIABLES kv,    \* the latest record of each key; a tombstone if it has none
          now    \* the clock

Absent(k) == Tombstone(k)

Init ==
    /\ kv = [k \in Keys |-> Absent(k)]
    /\ now \in Nat

(* The records that an operation may give a key which now has rec: Put and *)
(* Delete always, a counter where there is no record, another value for a  *)
(* counter where there is one.                                             *)
Puts(k) == {Plain(k, v, e) : v \in Values, e \in Deadlines(now)}
CreatedCounters(k) == {Counter(k, n, e) : n \in Counters, e \in Deadlines(now)}
UpdatedCounters(rec) == {[rec EXCEPT !.val = n] : n \in Counters}

Outcomes(k, rec) ==
    Puts(k) \cup {Absent(k)}
      \cup (IF rec = Absent(k) THEN CreatedCounters(k) ELSE {})
      \cup (IF rec.kind = "counter" THEN UpdatedCounters(rec) ELSE {})

(* An operation on k changes the record of k only; a write that arrives    *)
(* after its own deadline stores nothing visible.                          *)
Operate(k) ==
    /\ UNCHANGED now
    /\ kv' = [kv EXCEPT ![k] = kv'[k]]
    /\ kv'[k] \in {IF ExpiredAt(rec, now) THEN Absent(k) ELSE rec : rec \in Outcomes(k, kv[k])}

Tick ==
    /\ now' = now + 1
    /\ kv' = [k \in Keys |-> IF ExpiredAt(kv[k], now') THEN Absent(k) ELSE kv[k]]

Next == Tick \/ \E k \in Keys : Operate(k)

vars == <<kv, now>>
Spec == Init /\ [][Next]_vars
=============================================================================
