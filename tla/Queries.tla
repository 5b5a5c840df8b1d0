------------------------------ MODULE Queries -------------------------------
(***************************************************************************)
(* The queries of a secondary index (secindex.go exact, exists, prefix,    *)
(* rangeQuery): walks of an iterator over a tree in (value, key) order.    *)
(*                                                                         *)
(* An index value is a string, a sequence of characters 0, 1, ...; a key is*)
(* its rank, above 0, the empty string.  A tree is a set of entries        *)
(* <<value, key>>, T the same entries in order, an iterator a position in  *)
(* it, Len(T) + 1 past the end.  The state is the tree of one index, which *)
(* writes change, and the query that is reading it.                        *)
(***************************************************************************)
EXTENDS Integers, Sequences, FiniteSets

CONSTANTS QueryVals,   \* index values
          QueryKeys,   \* primary keys
          Probes,      \* the values, prefixes and bounds that are asked for
          MaxLimit     \* bound: the largest magnitude of a limit

ASSUME QueryAssumption ==
    /\ QueryKeys \subseteq Nat \ {0} /\ IsFiniteSet(QueryKeys)
    /\ QueryVals \cup Probes \subseteq Seq(Nat) /\ IsFiniteSet(QueryVals)
    /\ MaxLimit \in Nat

VARIABLES entries,   \* the tree of the index
          reply      \* the query under the read lock and what it returns

queryVars == <<entries, reply>>

Limits == -MaxLimit .. MaxLimit
Trees == SUBSET (QueryVals \X QueryKeys)

(* Strings compare character by character.                                 *)
StrLess(s, t) ==
    \E n \in 0 .. Len(s) :
        /\ n < Len(t)
        /\ \A i \in 1 .. n : s[i] = t[i]
        /\ n = Len(s) \/ s[n + 1] < t[n + 1]

HasPrefix(s, p) == Len(p) <= Len(s) /\ \A i \in 1 .. Len(p) : s[i] = p[i]

EntryLess(a, b) == IF a[1] # b[1] THEN StrLess(a[1], b[1]) ELSE a[2] < b[2]

(* The position of an entry in the tree's order, from 0.                   *)
Below(tree, e) == Cardinality({x \in tree : EntryLess(x, e)})
Ordered(tree) ==
    [n \in 1 .. Cardinality(tree) |-> CHOOSE e \in tree : Below(tree, e) = n - 1]

-----------------------------------------------------------------------------
(* Moving the iterator.                                                    *)
Seek(T, e) == Cardinality({i \in DOMAIN T : EntryLess(T[i], e)}) + 1

(* The last position that Next reaches from i, and the first that Prev     *)
(* reaches from j, without leaving value v.                                *)
RunEnd(T, i, v) ==
    i - 1 + Cardinality({j \in i .. Len(T) : \A x \in i .. j : T[x][1] = v})
RunStart(T, j, v) ==
    j + 1 - Cardinality({i \in 1 .. j : \A x \in i .. j : T[x][1] = v})

(* The keys from i up to j, and from j down to i.                          *)
Pks(T, i, j) == [n \in 1 .. j - i + 1 |-> T[i + n - 1][2]]
PksDown(T, i, j) == [n \in 1 .. j - i + 1 |-> T[j - n + 1][2]]

Least(a, b) == IF a < b THEN a ELSE b
Greatest(a, b) == IF a < b THEN b ELSE a

Exact(T, v, limit) ==
    LET i == Seek(T, <<v, 0>>)
        j == RunEnd(T, i, v)
    IN  CASE limit = 0 -> Pks(T, i, j)
          [] limit > 0 -> Pks(T, i, Least(j, i + limit - 1))
          [] limit < 0 -> PksDown(T, Greatest(i, j + 1 + limit), j)

Exists(T, v) ==
    LET i == Seek(T, <<v, 0>>) IN i <= Len(T) /\ T[i][1] = v

(* Mutant: the next group is sought one character too far.                 *)
SuccessorFar(v) == Append(v, 1)

(* The value that a grouped query seeks to leave the group of v.           *)
Successor(v) == Append(v, 0)

(* What prefix takes of the group that starts at i.                        *)
GroupPks(T, i, limit) ==
    LET v == T[i][1]
        j == RunEnd(T, i, v)
        back == Seek(T, <<Successor(v), 0>>) - 1
    IN  CASE limit = 0 -> Pks(T, i, j)
          [] limit > 0 -> Pks(T, i, Least(j, i + limit - 1))
          [] limit < 0 -> PksDown(T, Greatest(RunStart(T, back, v), back + 1 + limit), back)

(* Where it goes on: it has stepped out of the group, or seeks out of it.  *)
NextGroup(T, i, limit) ==
    LET v == T[i][1]
        j == RunEnd(T, i, v)
    IN  IF limit >= 0 /\ (limit = 0 \/ j < i + limit) THEN j + 1
        ELSE Seek(T, <<Successor(v), 0>>)

PrefixFrom(T, p, limit) ==
    LET from[i \in 1 .. Len(T) + 1] ==
          IF i > Len(T) THEN <<>>
          ELSE IF ~HasPrefix(T[i][1], p) THEN <<>>
          ELSE GroupPks(T, i, limit) \o from[NextGroup(T, i, limit)]
    IN from

Prefix(T, p, limit) == PrefixFrom(T, p, limit)[Seek(T, <<p, 0>>)]

RangeQuery(T, lo, hi) ==
    LET i == Seek(T, <<lo, 0>>)
        past == {x \in i .. Len(T) : StrLess(hi, T[x][1])}
    IN Pks(T, i, IF past = {} THEN Len(T) ELSE (CHOOSE x \in past : \A y \in past : x <= y) - 1)

-----------------------------------------------------------------------------
NoReply == [op |-> "none"]

QueryInit == entries = {} /\ reply = NoReply

(* A write gives a key its value in the index, in the place of an earlier  *)
(* one; a deletion, or a write without a value, takes it out.              *)
Retracted(k) == {e \in entries : e[2] # k}
Write(tree) == reply = NoReply /\ entries' = tree /\ UNCHANGED reply
Index(k, v) == Write(Retracted(k) \cup {<<v, k>>})
Unindex(k) == Write(Retracted(k))

(* A query takes the read lock and walks the tree, and then returns.       *)
Reply(op, val, arg, res) ==
    /\ reply = NoReply
    /\ reply' = [op |-> op, val |-> val, arg |-> arg, res |-> res]
    /\ UNCHANGED entries

Return == reply # NoReply /\ reply' = NoReply /\ UNCHANGED entries

ByIndex(v, limit) == Reply("exact", v, limit, Exact(Ordered(entries), v, limit))
ByIndexHas(v) == Reply("exists", v, 0, Exists(Ordered(entries), v))
ByIndexPrefix(p, limit) == Reply("prefix", p, limit, Prefix(Ordered(entries), p, limit))
ByIndexRange(lo, hi) == Reply("range", lo, hi, RangeQuery(Ordered(entries), lo, hi))

QueryNext ==
    \/ \E k \in QueryKeys : Unindex(k) \/ \E v \in QueryVals : Index(k, v)
    \/ \E p \in Probes : ByIndexHas(p)
    \/ \E p \in Probes, limit \in Limits : ByIndex(p, limit) \/ ByIndexPrefix(p, limit)
    \/ \E lo \in Probes, hi \in Probes : ByIndexRange(lo, hi)
    \/ Return

QuerySpec == QueryInit /\ [][QueryNext]_queryVars

-----------------------------------------------------------------------------
(* What the doc comments promise, from the set of entries alone: which     *)
(* entries, and in which order their keys.                                 *)
Before(a, b, limit) ==
    IF a[1] # b[1] THEN StrLess(a[1], b[1])
    ELSE IF limit < 0 THEN b[2] < a[2] ELSE a[2] < b[2]

(* All entries of the values in V, or the first ones of each value in the  *)
(* direction of the limit.                                                 *)
Chosen(tree, V, limit) ==
    {e \in tree :
        /\ e[1] \in V
        /\ limit # 0 =>
             Cardinality({x \in tree : x[1] = e[1] /\ Before(x, e, limit)})
               < Greatest(limit, -limit)}

Answer(tree, V, limit) ==
    LET S == Chosen(tree, V, limit)
        nth(n) == CHOOSE e \in S : Cardinality({x \in S : Before(x, e, limit)}) = n - 1
    IN [n \in 1 .. Cardinality(S) |-> nth(n)[2]]

(* Every query returns what its comment promises, on every tree that writes*)
(* leave and for every limit: exact and prefix the keys of each value in   *)
(* the direction and number the limit asks for, exists and rangeQuery those*)
(* of the values they name.  No group is skipped, repeated or left too     *)
(* early when one value is a prefix of another or its successor.           *)
QueriesMatch ==
    /\ reply.op = "exact" => reply.res = Answer(entries, {reply.val}, reply.arg)
    /\ reply.op = "exists" => reply.res = (\E k \in QueryKeys : <<reply.val, k>> \in entries)
    /\ reply.op = "prefix" =>
         reply.res = Answer(entries, {v \in QueryVals : HasPrefix(v, reply.val)}, reply.arg)
    /\ reply.op = "range" =>
         reply.res = Answer(entries, {v \in QueryVals : ~StrLess(v, reply.val)
                                                        /\ ~StrLess(reply.arg, v)}, 0)

=============================================================================
