------------------------------- MODULE Records ------------------------------
(***************************************************************************)
(* The records a store holds (record.go), with the data cut down to what   *)
(* the properties tell apart.  Keys are positive numbers, ordered as Go    *)
(* orders the key strings; key 0 belongs to a line that does not parse.    *)
(***************************************************************************)
EXTENDS Naturals, Sequences, FiniteSets

CONSTANTS Keys,         \* primary keys, in key order
          Values,       \* plain values a client stores
          CounterMax,   \* counters take the values 0..CounterMax
          TTLs          \* time-to-live arguments, in clock ticks; 0 is a sub-millisecond ttl

ASSUME KeysAssumption == Keys \subseteq Nat \ {0} /\ IsFiniteSet(Keys)
ASSUME CounterMaxAssumption == CounterMax \in Nat
ASSUME TTLAssumption == TTLs \subseteq Nat

Counters == 0 .. CounterMax

(* record (record.go): a plain value, a counter or a tombstone; "torn" is  *)
(* what a crash in the middle of an append leaves behind.                  *)
Kinds == {"plain", "counter", "tomb", "torn"}
Line == [key: Keys \cup {0}, kind: Kinds, val: Values \cup Counters, exp: Nat]

Plain(k, v, e)   == [key |-> k, kind |-> "plain", val |-> v, exp |-> e]
Counter(k, n, e) == [key |-> k, kind |-> "counter", val |-> n, exp |-> e]
Tombstone(k)     == [key |-> k, kind |-> "tomb", val |-> 0, exp |-> 0]
Torn             == [key |-> 0, kind |-> "torn", val |-> 0, exp |-> 0]

(* expiredAt: exp = 0 means that the key has no time-to-live.              *)
ExpiredAt(e, t) == e.exp # 0 /\ e.exp <= t

(* resolveTTL runs before the lock is taken, so a write that gets it at    *)
(* time t may carry the deadline of any earlier call; 0 is no deadline.    *)
Deadlines(t) == {0} \cup {called + ttl : called \in 1 .. t, ttl \in TTLs}
=============================================================================
