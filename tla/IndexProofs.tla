---------------------------- MODULE IndexProofs -----------------------------
(***************************************************************************)
(* Asking an index, and declaring one.                                     *)
(*                                                                         *)
(* Queries: for every finite set of values and keys, every tree that writes*)
(* leave, every probe and every limit, the walks return what the set of    *)
(* entries promises.                                                       *)
(*                                                                         *)
(* Schema: for every set of keys and of index names, and every sequence of *)
(* opens, declarations, writes, compactions, reindexes and crashes,        *)
(* meta.json is right about which indexes cover the store and which have   *)
(* left values behind.                                                     *)
(*                                                                         *)
(* Where it may not be is part of the state: Schema keeps the history of a *)
(* meta.json written by a Reindex that outlived its store, and of an index *)
(* that was declared without Extract.                                      *)
(***************************************************************************)
EXTENDS Schema, Queries, FiniteSetTheorems, TLAPS

(* The least element of a set of naturals: induction, as the provers can   *)
(* use it.                                                                 *)
LEMMA LeastNat ==
    ASSUME NEW S \in SUBSET Nat, S # {}
    PROVE  \E m \in S : \A x \in S : m <= x
<1>1. IsWellFoundedOn(OpToRel(<, Nat), Nat)
  BY NatLessThanWellFounded, Zenon
<1>2. PICK m \in S : \A x \in S : ~(<<x, m>> \in OpToRel(<, Nat))
  BY <1>1, WFMin, Zenon
<1>3. ASSUME NEW x \in S PROVE m <= x
  <2>1. x \in Nat /\ m \in Nat /\ ~(x < m)
    BY <1>2, Zenon DEF OpToRel
  <2> QED BY <2>1
<1> QED BY <1>3, Zenon

-----------------------------------------------------------------------------
(* Strings are totally ordered.                                            *)
Strings == Seq(Nat)

(* s is below t because of what they have at position n + 1.               *)
LessAt(s, t, n) ==
    /\ n \in Nat /\ n <= Len(s) /\ n < Len(t)
    /\ \A i \in 1 .. n : s[i] = t[i]
    /\ n = Len(s) \/ s[n + 1] < t[n + 1]

LEMMA StrLessAt ==
    ASSUME NEW s \in Strings, NEW t \in Strings
    PROVE  StrLess(s, t) <=> \E n \in Nat : LessAt(s, t, n)
BY DEF StrLess, LessAt, Strings

LEMMA CharType ==
    ASSUME NEW s \in Strings, NEW i \in 1 .. Len(s)
    PROVE  s[i] \in Nat
BY DEF Strings

LEMMA StrIrreflexive ==
    ASSUME NEW s \in Strings
    PROVE  ~StrLess(s, s)
<1> SUFFICES ASSUME NEW n \in Nat, LessAt(s, s, n) PROVE FALSE
  BY StrLessAt, Zenon
<1>1. n # Len(s) /\ n < Len(s) /\ n + 1 \in 1 .. Len(s)
  BY DEF LessAt, Strings
<1>2. s[n + 1] \in Nat
  BY <1>1 DEF Strings
<1> QED BY <1>1, <1>2 DEF LessAt

LEMMA StrTransitive ==
    ASSUME NEW s \in Strings, NEW t \in Strings, NEW u \in Strings, StrLess(s, t), StrLess(t, u)
    PROVE  StrLess(s, u)
<1>1. PICK n \in Nat : LessAt(s, t, n)
  BY StrLessAt, Zenon
<1>2. PICK m \in Nat : LessAt(t, u, m)
  BY StrLessAt, Zenon
<1>3. Len(s) \in Nat /\ Len(t) \in Nat /\ Len(u) \in Nat
  BY DEF Strings
<1>4. CASE n < m
  <2>1. LessAt(s, u, n)
    BY <1>1, <1>2, <1>3, <1>4 DEF LessAt
  <2> QED BY <2>1, StrLessAt, Zenon
<1>5. CASE m < n
  <2>1. m # Len(t) /\ m + 1 \in 1 .. n
    BY <1>1, <1>3, <1>5 DEF LessAt
  <2>2. LessAt(s, u, m)
    BY <1>1, <1>2, <1>3, <1>5, <2>1 DEF LessAt
  <2> QED BY <2>2, StrLessAt, Zenon
<1>6. CASE n = m
  <2>1. n # Len(t) /\ n < Len(t) /\ n < Len(u) /\ n <= Len(s) /\ t[n + 1] < u[n + 1]
    BY <1>1, <1>2, <1>3, <1>6 DEF LessAt
  <2>2. ASSUME n # Len(s) PROVE s[n + 1] < u[n + 1]
    <3>1. n + 1 \in 1 .. Len(s) /\ n + 1 \in 1 .. Len(t) /\ n + 1 \in 1 .. Len(u)
      <4>1. \A a, b \in Nat : a < b \/ (a <= b /\ a # b) => a + 1 \in 1 .. b
        OBVIOUS
      <4> QED BY <1>3, <2>1, <2>2, <4>1, Zenon
    <3>2. s[n + 1] \in Nat /\ t[n + 1] \in Nat /\ u[n + 1] \in Nat
      BY <3>1, CharType, Zenon
    <3>3. s[n + 1] < t[n + 1]
      BY <1>1, <2>2, Zenon DEF LessAt
    <3>4. \A a, b, c \in Nat : a < b /\ b < c => a < c
      OBVIOUS
    <3> QED BY <2>1, <3>2, <3>3, <3>4, Zenon
  <2>3. \A i \in 1 .. n : s[i] = u[i]
    BY <1>1, <1>2, <1>6 DEF LessAt
  <2>4. LessAt(s, u, n)
    BY <2>1, <2>2, <2>3 DEF LessAt
  <2> QED BY <2>4, StrLessAt, Zenon
<1> QED BY <1>4, <1>5, <1>6

LEMMA StrTotal ==
    ASSUME NEW s \in Strings, NEW t \in Strings, s # t
    PROVE  StrLess(s, t) \/ StrLess(t, s)
<1> DEFINE D == {i \in Nat : i \in 1 .. Len(s) /\ i \in 1 .. Len(t) /\ s[i] # t[i]}
<1>1. Len(s) \in Nat /\ Len(t) \in Nat
  BY DEF Strings
<1>2. CASE D = {}
  <2>1. ASSUME NEW i \in Nat, i \in 1 .. Len(s), i \in 1 .. Len(t) PROVE s[i] = t[i]
    BY <1>2, <2>1, Zenon
  <2>2. Len(s) # Len(t)
    <3> SUFFICES ASSUME Len(s) = Len(t) PROVE s = t
      OBVIOUS
    <3> QED BY <1>1, <2>1 DEF Strings
  <2>3. CASE Len(s) < Len(t)
    <3>1. LessAt(s, t, Len(s))
      BY <1>1, <2>1, <2>3 DEF LessAt
    <3> QED BY <1>1, <3>1, StrLessAt, Zenon
  <2>4. CASE Len(t) < Len(s)
    <3>1. LessAt(t, s, Len(t))
      BY <1>1, <2>1, <2>4 DEF LessAt
    <3> QED BY <1>1, <3>1, StrLessAt, Zenon
  <2> QED BY <1>1, <2>2, <2>3, <2>4
<1>3. CASE D # {}
  <2>1. PICK d \in D : \A x \in D : d <= x
    BY <1>3, LeastNat, Zenon
  <2>2. PICK n \in Nat : n + 1 = d
    <3>1. d - 1 \in Nat /\ (d - 1) + 1 = d
      BY <2>1
    <3> QED BY <3>1, Zenon
  <2>3. n < Len(s) /\ n < Len(t) /\ s[n + 1] # t[n + 1]
    BY <1>1, <2>1, <2>2
  <2>4. \A i \in 1 .. n : s[i] = t[i]
    <3> SUFFICES ASSUME NEW i \in 1 .. n, s[i] # t[i] PROVE FALSE
      OBVIOUS
    <3>1. i \in Nat /\ i \in 1 .. Len(s) /\ i \in 1 .. Len(t) /\ ~(d <= i)
      BY <1>1, <2>2, <2>3
    <3> QED BY <2>1, <3>1, Zenon
  <2>5. s[n + 1] \in Nat /\ t[n + 1] \in Nat
    BY <1>1, <2>3 DEF Strings
  <2>6. s[n + 1] < t[n + 1] \/ t[n + 1] < s[n + 1]
    BY <2>3, <2>5
  <2>7. LessAt(s, t, n) \/ LessAt(t, s, n)
    BY <1>1, <2>3, <2>4, <2>6 DEF LessAt
  <2> QED BY <2>7, StrLessAt, Zenon
<1> QED BY <1>2, <1>3

LEMMA StrAsymmetric ==
    ASSUME NEW s \in Strings, NEW t \in Strings, StrLess(s, t)
    PROVE  ~StrLess(t, s) /\ s # t
BY StrTransitive, StrIrreflexive, Zenon

-----------------------------------------------------------------------------
(* So are entries, in either direction of the keys.                        *)
Entries == Strings \X Nat

LEMMA EntryType ==
    ASSUME NEW e \in Entries
    PROVE  e[1] \in Strings /\ e[2] \in Nat /\ e = <<e[1], e[2]>>
BY DEF Entries

LEMMA EntryIsBefore ==
    ASSUME NEW a, NEW b
    PROVE  EntryLess(a, b) <=> Before(a, b, 0)
<1>1. ~(0 < 0)
  OBVIOUS
<1> QED BY <1>1, Zenon DEF EntryLess, Before

LEMMA BeforeIrreflexive ==
    ASSUME NEW a \in Entries, NEW limit \in Int
    PROVE  ~Before(a, a, limit)
<1>1. a[2] \in Nat /\ ~(a[2] < a[2])
  BY EntryType
<1> QED BY <1>1, Zenon DEF Before

LEMMA BeforeTransitive ==
    ASSUME NEW a \in Entries, NEW b \in Entries, NEW c \in Entries, NEW limit \in Int,
           Before(a, b, limit), Before(b, c, limit)
    PROVE  Before(a, c, limit)
<1>1. /\ a[1] \in Strings /\ b[1] \in Strings /\ c[1] \in Strings
      /\ a[2] \in Nat /\ b[2] \in Nat /\ c[2] \in Nat
  BY EntryType, Zenon
<1>2. \A x, y, z \in Nat : x < y /\ y < z => x < z
  OBVIOUS
<1>3. CASE a[1] # b[1] /\ b[1] # c[1]
  <2>1. StrLess(a[1], b[1]) /\ StrLess(b[1], c[1])
    BY <1>3, Zenon DEF Before
  <2>2. StrLess(a[1], c[1])
    BY <1>1, <2>1, StrTransitive, Zenon
  <2>3. a[1] # c[1]
    BY <1>1, <2>2, StrIrreflexive, Zenon
  <2> QED BY <2>2, <2>3, Zenon DEF Before
<1>4. CASE a[1] = b[1] /\ b[1] # c[1]
  BY <1>4, Zenon DEF Before
<1>5. CASE a[1] # b[1] /\ b[1] = c[1]
  BY <1>5, Zenon DEF Before
<1>6. CASE a[1] = b[1] /\ b[1] = c[1]
  BY <1>1, <1>2, <1>6, Zenon DEF Before
<1> QED BY <1>3, <1>4, <1>5, <1>6, Zenon

LEMMA BeforeTotal ==
    ASSUME NEW a \in Entries, NEW b \in Entries, NEW limit \in Int, a # b
    PROVE  Before(a, b, limit) \/ Before(b, a, limit)
<1>1. /\ a[1] \in Strings /\ b[1] \in Strings /\ a[2] \in Nat /\ b[2] \in Nat
      /\ a = <<a[1], a[2]>> /\ b = <<b[1], b[2]>>
  BY EntryType, Zenon
<1>2. \A x, y \in Nat : x # y => x < y \/ y < x
  OBVIOUS
<1>3. CASE a[1] # b[1]
  <2>1. StrLess(a[1], b[1]) \/ StrLess(b[1], a[1])
    BY <1>1, <1>3, StrTotal, Zenon
  <2> QED BY <1>3, <2>1, Zenon DEF Before
<1>4. CASE a[1] = b[1]
  <2>1. a[2] # b[2]
    BY <1>1, <1>4, Zenon
  <2>2. a[2] < b[2] \/ b[2] < a[2]
    BY <1>1, <1>2, <2>1, Zenon
  <2> QED BY <1>4, <2>2, Zenon DEF Before
<1> QED BY <1>3, <1>4

LEMMA BeforeAsymmetric ==
    ASSUME NEW a \in Entries, NEW b \in Entries, NEW limit \in Int, Before(a, b, limit)
    PROVE  ~Before(b, a, limit) /\ a # b
BY BeforeTransitive, BeforeIrreflexive, Zenon

-----------------------------------------------------------------------------
(* The elements of S in order.                                             *)
Lists(s, S, limit) ==
    /\ s \in Seq(S)
    /\ \A a, b \in 1 .. Len(s) : a < b => Before(s[a], s[b], limit)
    /\ \A e \in S : \E n \in 1 .. Len(s) : s[n] = e

LEMMA ListType ==
    ASSUME NEW S, NEW s \in Seq(S)
    PROVE  /\ Len(s) \in Nat /\ DOMAIN s = 1 .. Len(s) /\ s \in [1 .. Len(s) -> S]
           /\ \A n \in 1 .. Len(s) : s[n] \in S
OBVIOUS

LEMMA ListInjective ==
    ASSUME NEW S \in SUBSET Entries, NEW s, NEW limit \in Int, Lists(s, S, limit),
           NEW a \in 1 .. Len(s), NEW b \in 1 .. Len(s)
    PROVE  /\ s[a] = s[b] => a = b
           /\ Before(s[a], s[b], limit) <=> a < b
<1>1. Len(s) \in Nat /\ s[a] \in Entries /\ s[b] \in Entries
  BY ListType, Zenon DEF Lists
<1>2. a < b \/ a = b \/ b < a
  BY <1>1
<1>3. ~(a < a)
  BY <1>1
<1>4. a < b => ~(b < a)
  BY <1>1
<1>5. CASE a < b
  <2>1. Before(s[a], s[b], limit)
    BY <1>5, Zenon DEF Lists
  <2> QED BY <1>1, <1>5, <2>1, BeforeIrreflexive, Zenon
<1>6. CASE b < a
  <2>1. Before(s[b], s[a], limit)
    BY <1>6, Zenon DEF Lists
  <2>2. ~Before(s[a], s[b], limit) /\ s[b] # s[a]
    BY <1>1, <2>1, BeforeAsymmetric, Zenon
  <2> QED BY <1>4, <1>6, <2>2, Zenon
<1>7. CASE a = b
  BY <1>1, <1>3, <1>7, BeforeIrreflexive, Zenon
<1> QED BY <1>2, <1>5, <1>6, <1>7, Zenon

(* As many elements come before the n-th as it has positions before it.    *)
LEMMA ListCounts ==
    ASSUME NEW S \in SUBSET Entries, NEW s, NEW limit \in Int, Lists(s, S, limit)
    PROVE  /\ IsFiniteSet(S) /\ Cardinality(S) = Len(s)
           /\ \A n \in 1 .. Len(s) : Cardinality({x \in S : Before(x, s[n], limit)}) = n - 1
<1>1. Len(s) \in Nat /\ DOMAIN s = 1 .. Len(s) /\ \A n \in 1 .. Len(s) : s[n] \in S
  BY ListType, Zenon DEF Lists
<1>2. s \in Bijection(1 .. Len(s), S)
  <2>1. s \in [1 .. Len(s) -> S]
    BY ListType, Zenon DEF Lists
  <2>2. s \in Injection(1 .. Len(s), S)
    BY <1>1, <2>1, ListInjective, Zenon DEF Injection, IsInjective
  <2>3. s \in Surjection(1 .. Len(s), S)
    BY <2>1, Zenon DEF Surjection, Lists
  <2> QED BY <2>2, <2>3, Zenon DEF Bijection
<1>3. ExistsBijection(1 .. Len(s), S)
  BY <1>2, Zenon DEF ExistsBijection
<1>4. IsFiniteSet(S) /\ Cardinality(S) = Len(s)
  BY <1>1, <1>3, FS_NatBijection, FS_CountingElements, Zenon
<1>5. ASSUME NEW n \in 1 .. Len(s)
      PROVE  Cardinality({x \in S : Before(x, s[n], limit)}) = n - 1
  <2> DEFINE B == {x \in S : Before(x, s[n], limit)}
             g == [a \in 1 .. n - 1 |-> s[a]]
  <2>1. \A a \in 1 .. n - 1 : a \in 1 .. Len(s) /\ a < n
    BY <1>1
  <2>2. n - 1 \in Nat
    BY <1>1
  <2>3. g \in [1 .. n - 1 -> B]
    BY <1>1, <2>1, Zenon DEF Lists
  <2>4. g \in Injection(1 .. n - 1, B)
    <3>1. ASSUME NEW a \in 1 .. n - 1, NEW b \in 1 .. n - 1, g[a] = g[b] PROVE a = b
      BY <2>1, <3>1, ListInjective, Zenon
    <3>2. DOMAIN g = 1 .. n - 1
      BY Zenon
    <3> HIDE DEF g, B
    <3> QED BY <2>3, <3>1, <3>2, Zenon DEF Injection, IsInjective
  <2>5. ASSUME NEW x \in B PROVE \E a \in 1 .. n - 1 : g[a] = x
    <3>1. PICK a \in 1 .. Len(s) : s[a] = x
      BY Zenon DEF Lists
    <3>2. a < n
      BY <3>1, ListInjective, Zenon
    <3>3. a \in 1 .. n - 1
      BY <1>1, <3>2
    <3> QED BY <3>1, <3>3, Zenon
  <2>6. g \in Bijection(1 .. n - 1, B)
    BY <2>3, <2>4, <2>5, Zenon DEF Bijection, Surjection
  <2>7. ExistsBijection(1 .. n - 1, B)
    BY <2>6, Zenon DEF ExistsBijection
  <2> QED BY <2>2, <2>7, FS_CountingElements, Zenon
<1> QED BY <1>4, <1>5, Zenon

(* A list of the chosen entries gives the promised answer.                 *)
KeysOf(s) == [n \in 1 .. Len(s) |-> s[n][2]]

LEMMA ListAnswers ==
    ASSUME NEW tree \in SUBSET Entries, NEW V, NEW limit \in Int, NEW s,
           Lists(s, Chosen(tree, V, limit), limit)
    PROVE  Answer(tree, V, limit) = KeysOf(s)
<1> DEFINE S == Chosen(tree, V, limit)
           nth(n) == CHOOSE e \in S : Cardinality({x \in S : Before(x, e, limit)}) = n - 1
<1>1. S \in SUBSET Entries
  BY Zenon DEF Chosen
<1>2. /\ Cardinality(S) = Len(s)
      /\ \A n \in 1 .. Len(s) : Cardinality({x \in S : Before(x, s[n], limit)}) = n - 1
  BY <1>1, ListCounts, Zenon
<1>3. Len(s) \in Nat /\ \A n \in 1 .. Len(s) : s[n] \in S
  BY ListType, Zenon DEF Lists
<1> HIDE DEF S
<1>4. ASSUME NEW n \in 1 .. Len(s) PROVE nth(n) = s[n]
  <2> DEFINE e == nth(n)
  <2>1. e \in S /\ Cardinality({x \in S : Before(x, e, limit)}) = n - 1
    BY <1>2, <1>3, Zenon
  <2> HIDE DEF e
  <2>2. PICK m \in 1 .. Len(s) : s[m] = e
    BY <2>1, Zenon DEF Lists, S
  <2>3. m - 1 = n - 1
    BY <1>2, <2>1, <2>2, Zenon
  <2>4. m = n
    BY <1>3, <2>3
  <2> QED BY <2>2, <2>4, Zenon DEF e
<1>5. Answer(tree, V, limit) = [n \in 1 .. Cardinality(S) |-> nth(n)[2]]
  BY Zenon DEF Answer, S
<1> QED BY <1>2, <1>4, <1>5, Zenon DEF KeysOf

Gives(tree, V, limit, out) ==
    \E s : Lists(s, Chosen(tree, V, limit), limit) /\ out = KeysOf(s)

LEMMA GivesAnswer ==
    ASSUME NEW tree \in SUBSET Entries, NEW V, NEW limit \in Int, NEW out,
           Gives(tree, V, limit, out)
    PROVE  out = Answer(tree, V, limit)
BY ListAnswers, Zenon DEF Gives

-----------------------------------------------------------------------------
(* Ordered lists a tree.                                                   *)
LEMMA BelowOrder ==
    ASSUME NEW tree \in SUBSET Entries, IsFiniteSet(tree), NEW e \in tree
    PROVE  /\ Below(tree, e) \in 0 .. Cardinality(tree) - 1
           /\ \A d \in tree : Before(e, d, 0) => Below(tree, e) < Below(tree, d)
<1> DEFINE A(d) == {x \in tree : EntryLess(x, d)}
<1>1. 0 \in Int /\ Cardinality(tree) \in Nat
  BY FS_CardinalityType
<1>2. ASSUME NEW d \in tree PROVE IsFiniteSet(A(d)) /\ Cardinality(A(d)) \in Nat
  <2>1. A(d) \in SUBSET tree
    BY Zenon
  <2> QED BY <2>1, FS_Subset, FS_CardinalityType, Zenon
<1>3. A(e) \in SUBSET tree /\ e \notin A(e)
  BY <1>1, EntryIsBefore, BeforeIrreflexive, Zenon
<1>4. Cardinality(A(e)) <= Cardinality(tree) /\ Cardinality(A(e)) # Cardinality(tree)
  BY <1>3, FS_Subset, Zenon
<1>5. ASSUME NEW d \in tree, Before(e, d, 0) PROVE Cardinality(A(e)) < Cardinality(A(d))
  <2>1. ASSUME NEW x \in A(e) PROVE x \in A(d)
    <3>1. Before(x, e, 0) /\ x \in tree
      BY EntryIsBefore, Zenon
    <3>2. Before(x, d, 0)
      BY <1>1, <1>5, <3>1, BeforeTransitive, Zenon
    <3> QED BY <3>1, <3>2, EntryIsBefore, Zenon
  <2>2. e \in A(d)
    BY <1>5, EntryIsBefore, Zenon
  <2>3. A(e) \in SUBSET A(d) /\ A(e) # A(d)
    BY <1>3, <2>1, <2>2, Zenon
  <2>4. Cardinality(A(e)) <= Cardinality(A(d)) /\ Cardinality(A(e)) # Cardinality(A(d))
    BY <1>2, <2>3, FS_Subset, Zenon
  <2>5. \A a, b \in Nat : a <= b /\ a # b => a < b
    OBVIOUS
  <2> QED BY <1>2, <2>4, <2>5, Zenon
<1>6. \A a, b \in Nat : a <= b /\ a # b => a \in 0 .. b - 1
  OBVIOUS
<1>7. Below(tree, e) \in 0 .. Cardinality(tree) - 1
  BY <1>1, <1>2, <1>4, <1>6, Zenon DEF Below
<1> QED BY <1>5, <1>7, Zenon DEF Below

LEMMA OrderedLists ==
    ASSUME NEW tree \in SUBSET Entries, IsFiniteSet(tree)
    PROVE  Lists(Ordered(tree), tree, 0)
<1> DEFINE N == Cardinality(tree)
           T == Ordered(tree)
           f == [e \in tree |-> Below(tree, e)]
<1>1. N \in Nat /\ 0 \in Int /\ N - 1 \in Int
  <2>1. N \in Nat
    BY FS_CardinalityType, Zenon
  <2> HIDE DEF N
  <2> QED BY <2>1
<1>2. ASSUME NEW e \in tree, NEW d \in tree
      PROVE  /\ Below(tree, e) \in 0 .. N - 1 /\ Below(tree, d) \in 0 .. N - 1
             /\ Below(tree, e) = Below(tree, d) => e = d
             /\ Below(tree, e) < Below(tree, d) => Before(e, d, 0)
  <2>1. Below(tree, e) \in 0 .. N - 1 /\ Below(tree, d) \in 0 .. N - 1
    BY BelowOrder, Zenon
  <2>2. /\ Before(e, d, 0) => Below(tree, e) < Below(tree, d)
        /\ Before(d, e, 0) => Below(tree, d) < Below(tree, e)
    BY BelowOrder, Zenon
  <2>3. e = d \/ Before(e, d, 0) \/ Before(d, e, 0)
    BY <1>1, BeforeTotal, Zenon
  <2>4. \A a, b \in 0 .. N - 1 : a < b => ~(b < a) /\ a # b
    <3> HIDE DEF N
    <3> QED BY <1>1
  <2>5. \A a \in 0 .. N - 1 : ~(a < a)
    <3> HIDE DEF N
    <3> QED BY <1>1
  <2> QED BY <2>1, <2>2, <2>3, <2>4, <2>5, Zenon
<1>3. f \in Injection(tree, 0 .. N - 1)
  BY <1>2, Zenon DEF Injection, IsInjective
<1>4. IsFiniteSet(0 .. N - 1) /\ Cardinality(0 .. N - 1) = N
  <2>1. IsFiniteSet(0 .. N - 1) /\ Cardinality(0 .. N - 1) = IF 0 > N - 1 THEN 0 ELSE N - 1 - 0 + 1
    BY <1>1, FS_Interval, Zenon
  <2> HIDE DEF N
  <2> QED BY <1>1, <2>1
<1>5. f \in Surjection(tree, 0 .. N - 1)
  BY <1>3, <1>4, FS_Injection, Zenon
<1>6. ASSUME NEW n \in 1 .. N PROVE T[n] \in tree /\ Below(tree, T[n]) = n - 1
  <2>1. n - 1 \in 0 .. N - 1
    <3> HIDE DEF N
    <3> QED BY <1>1
  <2>2. \E e \in tree : Below(tree, e) = n - 1
    BY <1>5, <2>1, Zenon DEF Surjection
  <2>3. T[n] = CHOOSE e \in tree : Below(tree, e) = n - 1
    BY Zenon DEF Ordered
  <2> QED BY <2>2, <2>3, Zenon
<1>7. T = [n \in 1 .. N |-> CHOOSE e \in tree : Below(tree, e) = n - 1]
  BY Zenon DEF Ordered
<1> HIDE DEF T, N
<1>8. T \in [1 .. N -> tree]
  BY <1>6, <1>7, Zenon
<1>9. T \in Seq(tree) /\ Len(T) = N
  BY <1>1, <1>8
<1>10. ASSUME NEW a \in 1 .. N, NEW b \in 1 .. N, a < b PROVE Before(T[a], T[b], 0)
  <2>1. a - 1 < b - 1
    BY <1>1, <1>10
  <2> QED BY <1>2, <1>6, <2>1, Zenon
<1>11. ASSUME NEW e \in tree PROVE \E n \in 1 .. N : T[n] = e
  <2>1. PICK m \in 0 .. N - 1 : Below(tree, e) = m
    BY <1>2, Zenon
  <2>2. m + 1 \in 1 .. N /\ (m + 1) - 1 = m
    BY <1>1
  <2>3. T[m + 1] \in tree /\ Below(tree, T[m + 1]) = m
    BY <1>6, <2>2, Zenon
  <2> QED BY <1>2, <2>1, <2>2, <2>3, Zenon
<1>12. Lists(T, tree, 0)
  BY <1>9, <1>10, <1>11, Zenon DEF Lists
<1> QED BY <1>12, Zenon DEF T

-----------------------------------------------------------------------------
(* Counting gives a position: the positions of a set closed downwards are  *)
(* the first ones.                                                         *)
LEMMA Segment ==
    ASSUME NEW n \in Nat, NEW D \in SUBSET (1 .. n),
           \A x \in D : \A y \in 1 .. n : y <= x => y \in D
    PROVE  /\ Cardinality(D) \in 0 .. n
           /\ \A x \in 1 .. n : x \in D <=> x < Cardinality(D) + 1
<1> DEFINE M == {y \in Nat : y \in 1 .. n + 1 /\ y \notin D}
<1>1. n + 1 \in M
  <2>1. n + 1 \in Nat /\ n + 1 \in 1 .. n + 1 /\ n + 1 \notin 1 .. n
    OBVIOUS
  <2> QED BY <2>1, Zenon
<1>2. PICK m \in M : \A x \in M : m <= x
  <2>1. M \in SUBSET Nat /\ M # {}
    BY <1>1, Zenon
  <2> QED BY <2>1, LeastNat, Zenon
<1>3. m \in Nat /\ 1 <= m /\ m <= n + 1 /\ m \notin D
  BY <1>2
<1>4. ASSUME NEW x \in 1 .. n PROVE x \in D <=> x < m
  <2>1. CASE x < m
    <3>1. x \in Nat /\ x \in 1 .. n + 1 /\ ~(m <= x)
      BY <1>3, <2>1
    <3> QED BY <1>2, <2>1, <3>1, Zenon
  <2>2. CASE ~(x < m)
    <3>1. m <= x /\ m \in 1 .. n
      BY <1>3, <2>2
    <3> QED BY <1>3, <2>2, <3>1, Zenon
  <2> QED BY <2>1, <2>2
<1>5. D = 1 .. m - 1
  <2>1. \A x \in 1 .. m - 1 : x \in 1 .. n /\ x < m
    BY <1>3
  <2>2. \A x \in 1 .. n : x < m => x \in 1 .. m - 1
    BY <1>3
  <2> QED BY <1>4, <2>1, <2>2, Zenon
<1>6. Cardinality(D) = m - 1
  <2>1. 1 \in Int /\ m - 1 \in Int
    BY <1>3
  <2>2. Cardinality(1 .. m - 1) = IF 1 > m - 1 THEN 0 ELSE m - 1 - 1 + 1
    BY <2>1, FS_Interval, Zenon
  <2> QED BY <1>3, <1>5, <2>2
<1>7. m - 1 \in 0 .. n /\ (m - 1) + 1 = m
  BY <1>3
<1> QED BY <1>4, <1>6, <1>7, Zenon

-----------------------------------------------------------------------------
(* T is the tree in order: where an iterator stands after a seek.          *)
IsTree(T, tree) ==
    /\ tree \in SUBSET Entries /\ \A e \in tree : e[2] # 0
    /\ Lists(T, tree, 0)

LEMMA TreeType ==
    ASSUME NEW T, NEW tree, IsTree(T, tree)
    PROVE  /\ Len(T) \in Nat /\ DOMAIN T = 1 .. Len(T)
           /\ \A x \in 1 .. Len(T) :
                /\ T[x] \in tree /\ T[x] \in Entries
                /\ T[x][1] \in Strings /\ T[x][2] \in Nat /\ 0 < T[x][2]
<1>1. /\ Len(T) \in Nat /\ DOMAIN T = 1 .. Len(T)
      /\ \A x \in 1 .. Len(T) : T[x] \in tree
  BY ListType, Zenon DEF IsTree, Lists
<1>2. \A k \in Nat : k # 0 => 0 < k
  OBVIOUS
<1> QED BY <1>1, <1>2, EntryType, Zenon DEF IsTree

LEMMA ValueOrder ==
    ASSUME NEW T, NEW tree, IsTree(T, tree),
           NEW x \in 1 .. Len(T), NEW y \in 1 .. Len(T), x <= y
    PROVE  T[x][1] = T[y][1] \/ StrLess(T[x][1], T[y][1])
<1>1. x = y \/ x < y
  BY TreeType
<1>2. x < y => Before(T[x], T[y], 0)
  BY Zenon DEF IsTree, Lists
<1> QED BY <1>1, <1>2, Zenon DEF Before

LEMMA SeekAt ==
    ASSUME NEW T, NEW tree, IsTree(T, tree), NEW e \in Entries
    PROVE  /\ Seek(T, e) \in 1 .. Len(T) + 1
           /\ \A x \in 1 .. Len(T) : x < Seek(T, e) <=> EntryLess(T[x], e)
<1> DEFINE D == {i \in 1 .. Len(T) : EntryLess(T[i], e)}
<1>1. Len(T) \in Nat /\ DOMAIN T = 1 .. Len(T) /\ \A x \in 1 .. Len(T) : T[x] \in Entries
  BY TreeType, Zenon
<1>2. ASSUME NEW x \in D, NEW y \in 1 .. Len(T), y <= x PROVE y \in D
  <2>1. y = x \/ y < x
    BY <1>1, <1>2
  <2>2. CASE y < x
    <3>1. Before(T[y], T[x], 0) /\ Before(T[x], e, 0)
      BY <2>2, EntryIsBefore, Zenon DEF IsTree, Lists
    <3>2. 0 \in Int
      OBVIOUS
    <3>3. Before(T[y], e, 0)
      BY <1>1, <3>1, <3>2, BeforeTransitive, Zenon
    <3> QED BY <3>3, EntryIsBefore, Zenon
  <2> QED BY <2>1, <2>2, Zenon
<1>3. D \in SUBSET (1 .. Len(T))
  BY Zenon
<1>4. /\ Cardinality(D) \in 0 .. Len(T)
      /\ \A x \in 1 .. Len(T) : x \in D <=> x < Cardinality(D) + 1
  <2> HIDE DEF D
  <2> QED BY <1>1, <1>2, <1>3, Segment, Zenon
<1>5. \A n \in Nat : \A c \in 0 .. n : c + 1 \in 1 .. n + 1
  OBVIOUS
<1>6. Seek(T, e) = Cardinality(D) + 1
  BY <1>1, Zenon DEF Seek
<1> QED BY <1>1, <1>4, <1>5, <1>6, Zenon

(* A seek of a value stands before its first key.                          *)
LEMMA SeekValue ==
    ASSUME NEW T, NEW tree, IsTree(T, tree), NEW v \in Strings
    PROVE  /\ Seek(T, <<v, 0>>) \in 1 .. Len(T) + 1
           /\ \A x \in 1 .. Len(T) : x < Seek(T, <<v, 0>>) <=> StrLess(T[x][1], v)
<1> DEFINE e == <<v, 0>>
<1>1. e \in Entries /\ e[1] = v /\ e[2] = 0
  BY DEF Entries
<1> HIDE DEF e
<1>2. ASSUME NEW x \in 1 .. Len(T) PROVE EntryLess(T[x], e) <=> StrLess(T[x][1], v)
  <2>1. T[x][1] \in Strings /\ ~(T[x][2] < 0)
    BY TreeType
  <2> QED BY <1>1, <2>1, StrIrreflexive, Zenon DEF EntryLess
<1>3. /\ Seek(T, e) \in 1 .. Len(T) + 1
      /\ \A x \in 1 .. Len(T) : x < Seek(T, e) <=> StrLess(T[x][1], v)
  BY <1>1, <1>2, SeekAt, Zenon
<1> QED BY <1>3, Zenon DEF e

(* Nothing lies between a value and its successor.                         *)
LEMMA SuccessorNext ==
    ASSUME NEW v \in Strings, NEW w \in Strings
    PROVE  /\ Successor(v) \in Strings
           /\ StrLess(w, Successor(v)) <=> w = v \/ StrLess(w, v)
<1> DEFINE u == Successor(v)
<1>1. /\ u \in Strings /\ Len(u) = Len(v) + 1 /\ u[Len(v) + 1] = 0
      /\ \A i \in 1 .. Len(v) : u[i] = v[i]
  BY DEF Successor, Strings
<1>2. Len(v) \in Nat /\ Len(w) \in Nat
  BY DEF Strings
<1> HIDE DEF u
<1>3. ASSUME StrLess(w, u), w # v PROVE StrLess(w, v)
  <2>1. PICK n \in Nat : LessAt(w, u, n)
    BY <1>1, <1>3, StrLessAt, Zenon
  <2>2. CASE n < Len(v)
    <3>1. n + 1 \in 1 .. Len(v) /\ \A i \in 1 .. n : i \in 1 .. Len(v)
      BY <1>2, <2>2
    <3>2. LessAt(w, v, n)
      BY <1>1, <2>1, <2>2, <3>1, Zenon DEF LessAt
    <3> QED BY <3>2, StrLessAt, Zenon
  <2>3. CASE ~(n < Len(v))
    <3>1. n = Len(v) /\ n <= Len(w)
      BY <1>1, <1>2, <2>1, <2>3 DEF LessAt
    <3>2. n # Len(w)
      <4> SUFFICES ASSUME Len(w) = Len(v) PROVE FALSE
        BY <3>1
      <4>1. \A i \in 1 .. Len(v) : w[i] = v[i]
        BY <1>1, <2>1, <3>1, Zenon DEF LessAt
      <4> QED BY <1>3, <4>1 DEF Strings
    <3>3. n + 1 \in 1 .. Len(w)
      BY <1>2, <3>1, <3>2
    <3>4. w[n + 1] \in Nat /\ w[n + 1] < 0
      BY <1>1, <2>1, <3>1, <3>2, <3>3, CharType, Zenon DEF LessAt
    <3> QED BY <3>4
  <2> QED BY <2>2, <2>3
<1>4. StrLess(v, u)
  <2>1. LessAt(v, u, Len(v))
    BY <1>1, <1>2 DEF LessAt
  <2> QED BY <1>1, <1>2, <2>1, StrLessAt, Zenon
<1>5. ASSUME StrLess(w, v) PROVE StrLess(w, u)
  BY <1>1, <1>4, <1>5, StrTransitive, Zenon
<1> QED BY <1>1, <1>3, <1>4, <1>5, Zenon DEF u

(* The positions of a value: from its seek up to that of its successor.    *)
GroupAt(T, v, i, j) ==
    /\ i \in 1 .. Len(T) + 1 /\ j \in i - 1 .. Len(T)
    /\ \A x \in 1 .. Len(T) :
         /\ x < i <=> StrLess(T[x][1], v)
         /\ x \in i .. j <=> T[x][1] = v

LEMMA SeekGroup ==
    ASSUME NEW T, NEW tree, IsTree(T, tree), NEW v \in Strings
    PROVE  GroupAt(T, v, Seek(T, <<v, 0>>), Seek(T, <<Successor(v), 0>>) - 1)
<1> DEFINE i == Seek(T, <<v, 0>>)
           k == Seek(T, <<Successor(v), 0>>)
<1>1. Len(T) \in Nat /\ i \in 1 .. Len(T) + 1 /\ k \in 1 .. Len(T) + 1
  BY TreeType, SeekValue, SuccessorNext, Zenon
<1>2. ASSUME NEW x \in 1 .. Len(T)
      PROVE  /\ x < i <=> StrLess(T[x][1], v)
             /\ x < k <=> T[x][1] = v \/ StrLess(T[x][1], v)
             /\ ~(T[x][1] = v /\ StrLess(T[x][1], v))
  BY TreeType, SeekValue, SuccessorNext, StrIrreflexive, Zenon
<1> HIDE DEF i, k
<1>3. i - 1 <= k - 1
  <2>1. CASE i = 1
    BY <1>1, <2>1
  <2>2. CASE i # 1
    <3>1. i - 1 \in 1 .. Len(T) /\ i - 1 < i
      BY <1>1, <2>2
    <3>2. i - 1 < k
      BY <1>2, <3>1, Zenon
    <3> QED BY <1>1, <3>2
  <2> QED BY <2>1, <2>2
<1>4. k - 1 \in i - 1 .. Len(T)
  BY <1>1, <1>3
<1>5. \A x \in 1 .. Len(T) : x \in i .. k - 1 <=> ~(x < i) /\ x < k
  BY <1>1
<1>6. \A x \in 1 .. Len(T) : x \in i .. k - 1 <=> T[x][1] = v
  BY <1>2, <1>5, Zenon
<1>7. GroupAt(T, v, i, k - 1)
  BY <1>1, <1>2, <1>4, <1>6, Zenon DEF GroupAt
<1> QED BY <1>7, Zenon DEF i, k

LEMMA RunIs ==
    ASSUME NEW T, NEW tree, IsTree(T, tree), NEW v \in Strings, NEW i, NEW j, GroupAt(T, v, i, j)
    PROVE  RunStart(T, j, v) = i /\ \A h \in i .. j + 1 : RunEnd(T, h, v) = j
<1>1. Len(T) \in Nat /\ i \in Nat /\ j \in Nat /\ 1 <= i /\ i <= j + 1 /\ j <= Len(T)
  BY TreeType DEF GroupAt
<1>2. \A x \in 1 .. Len(T) : x \in i .. j <=> T[x][1] = v
  BY Zenon DEF GroupAt
<1>3. ASSUME NEW h \in i .. j + 1 PROVE {y \in h .. Len(T) : \A x \in h .. y : T[x][1] = v} = h .. j
  <2>1. \A y \in h .. Len(T) : y \in h .. y /\ y \in 1 .. Len(T) /\ (y \in i .. j => y \in h .. j)
    BY <1>1
  <2>2. \A y \in h .. j : y \in h .. Len(T) /\ \A x \in h .. y : x \in i .. j /\ x \in 1 .. Len(T)
    BY <1>1
  <2> QED BY <1>2, <2>1, <2>2, Zenon
<1>4. {y \in 1 .. j : \A x \in y .. j : T[x][1] = v} = i .. j
  <2>1. \A y \in 1 .. j : y \in y .. j /\ y \in 1 .. Len(T)
    BY <1>1
  <2>2. \A y \in i .. j : y \in 1 .. j /\ \A x \in y .. j : x \in i .. j /\ x \in 1 .. Len(T)
    BY <1>1
  <2> QED BY <1>2, <2>1, <2>2, Zenon
<1>5. ASSUME NEW h \in i .. j + 1 PROVE h \in Nat /\ Cardinality(h .. j) = j - h + 1
  <2>1. h \in Int /\ j \in Int /\ h \in Nat
    BY <1>1
  <2>2. Cardinality(h .. j) = IF h > j THEN 0 ELSE j - h + 1
    BY <2>1, FS_Interval, Zenon
  <2> QED BY <1>1, <2>1, <2>2
<1>6. ASSUME NEW h \in i .. j + 1 PROVE RunEnd(T, h, v) = j
  <2>1. RunEnd(T, h, v) = h - 1 + (j - h + 1)
    BY <1>3, <1>5, Zenon DEF RunEnd
  <2> QED BY <1>1, <1>5, <2>1
<1>7. RunStart(T, j, v) = i
  <2>1. i \in i .. j + 1
    BY <1>1
  <2>2. RunStart(T, j, v) = j + 1 - (j - i + 1)
    BY <1>4, <1>5, <2>1, Zenon DEF RunStart
  <2> QED BY <1>1, <2>2
<1> QED BY <1>6, <1>7, Zenon

-----------------------------------------------------------------------------
(* What an iterator collects between two positions.                        *)
Slice(T, a, b) == [n \in 1 .. b - a + 1 |-> T[a + n - 1]]
SliceDown(T, a, b) == [n \in 1 .. b - a + 1 |-> T[b - n + 1]]
At(T, a, b) == {T[x] : x \in a .. b}

LEMMA FunctionList ==
    ASSUME NEW S, NEW m \in Nat, NEW f \in [1 .. m -> S]
    PROVE  f \in Seq(S) /\ Len(f) = m
OBVIOUS

LEMMA ListsForward ==
    ASSUME NEW s, NEW S, NEW limit \in Int, ~(limit < 0), Lists(s, S, 0)
    PROVE  Lists(s, S, limit)
<1>1. ~(0 < 0)
  OBVIOUS
<1>2. \A a, b : Before(a, b, 0) <=> Before(a, b, limit)
  BY <1>1, Zenon DEF Before
<1> QED BY <1>2, Zenon DEF Lists

LEMMA SliceLists ==
    ASSUME NEW T, NEW tree, IsTree(T, tree), NEW a \in 1 .. Len(T) + 1, NEW b \in a - 1 .. Len(T)
    PROVE  /\ Lists(Slice(T, a, b), At(T, a, b), 0) /\ Len(Slice(T, a, b)) = b - a + 1
           /\ Pks(T, a, b) = KeysOf(Slice(T, a, b)) /\ At(T, a, b) \in SUBSET tree
<1> DEFINE s == Slice(T, a, b)
           S == At(T, a, b)
           m == b - a + 1
<1>1. Len(T) \in Nat /\ m \in Nat
  BY TreeType
<1>2. ASSUME NEW n \in 1 .. m
      PROVE  a + n - 1 \in a .. b /\ a + n - 1 \in 1 .. Len(T) /\ s[n] = T[a + n - 1]
  <2>1. a + n - 1 \in a .. b /\ a + n - 1 \in 1 .. Len(T)
    BY <1>1
  <2>2. s[n] = T[a + n - 1]
    BY Zenon DEF Slice
  <2> QED BY <2>1, <2>2
<1>3. s = [n \in 1 .. m |-> T[a + n - 1]]
  BY Zenon DEF Slice
<1>4. S \in SUBSET tree
  <2>1. \A x \in a .. b : x \in 1 .. Len(T)
    BY <1>1
  <2> QED BY <2>1, TreeType, Zenon DEF At
<1>5. s \in [1 .. m -> S]
  <2>1. \A n \in 1 .. m : T[a + n - 1] \in S
    BY <1>2, Zenon DEF At
  <2> HIDE DEF s, S, m
  <2> QED BY <1>3, <2>1, Zenon
<1>6. s \in Seq(S) /\ Len(s) = m
  <2> HIDE DEF s, S, m
  <2> QED BY <1>1, <1>5
<1>7. ASSUME NEW n \in 1 .. m, NEW k \in 1 .. m, n < k PROVE Before(s[n], s[k], 0)
  <2>1. a + n - 1 < a + k - 1
    BY <1>1, <1>7
  <2> HIDE DEF s, m
  <2> QED BY <1>2, <2>1, Zenon DEF IsTree, Lists
<1>8. ASSUME NEW e \in S PROVE \E n \in 1 .. m : s[n] = e
  <2>1. PICK x \in a .. b : e = T[x]
    BY Zenon DEF At
  <2>2. x - a + 1 \in 1 .. m /\ a + (x - a + 1) - 1 = x
    BY <1>1
  <2>3. s[x - a + 1] = T[a + (x - a + 1) - 1]
    BY <1>2, <2>2, Zenon
  <2> HIDE DEF s, m
  <2> QED BY <2>1, <2>2, <2>3, Zenon
<1>9. Pks(T, a, b) = KeysOf(s)
  <2>1. KeysOf(s) = [n \in 1 .. m |-> s[n][2]]
    BY <1>6, Zenon DEF KeysOf
  <2>2. Pks(T, a, b) = [n \in 1 .. m |-> T[a + n - 1][2]]
    BY Zenon DEF Pks
  <2> HIDE DEF s, m
  <2> QED BY <1>2, <2>1, <2>2, Zenon
<1>10. Lists(s, S, 0)
  <2> HIDE DEF s, S, m
  <2> QED BY <1>6, <1>7, <1>8, Zenon DEF Lists
<1> QED BY <1>4, <1>6, <1>9, <1>10, Zenon

LEMMA AtCount ==
    ASSUME NEW T, NEW tree, IsTree(T, tree), NEW a \in 1 .. Len(T) + 1, NEW b \in a - 1 .. Len(T)
    PROVE  Cardinality(At(T, a, b)) = b - a + 1
<1>1. 0 \in Int
  OBVIOUS
<1>2. At(T, a, b) \in SUBSET tree
  BY SliceLists, Zenon
<1>3. At(T, a, b) \in SUBSET Entries
  BY <1>2, Zenon DEF IsTree
<1>4. Lists(Slice(T, a, b), At(T, a, b), 0) /\ Len(Slice(T, a, b)) = b - a + 1
  BY SliceLists, Zenon
<1> QED BY <1>1, <1>3, <1>4, ListCounts, Zenon

LEMMA SliceDownLists ==
    ASSUME NEW T, NEW tree, IsTree(T, tree), NEW a \in 1 .. Len(T) + 1, NEW b \in a - 1 .. Len(T),
           NEW v, \A x \in a .. b : T[x][1] = v, NEW limit \in Int, limit < 0
    PROVE  /\ Lists(SliceDown(T, a, b), At(T, a, b), limit)
           /\ PksDown(T, a, b) = KeysOf(SliceDown(T, a, b))
<1> DEFINE s == SliceDown(T, a, b)
           S == At(T, a, b)
           m == b - a + 1
<1>1. Len(T) \in Nat /\ m \in Nat
  BY TreeType
<1>2. s = [n \in 1 .. m |-> T[b - n + 1]]
  BY Zenon DEF SliceDown
<1>3. ASSUME NEW n \in 1 .. m
      PROVE  b - n + 1 \in a .. b /\ b - n + 1 \in 1 .. Len(T) /\ s[n] = T[b - n + 1]
  <2>1. b - n + 1 \in a .. b /\ b - n + 1 \in 1 .. Len(T)
    BY <1>1
  <2>2. s[n] = T[b - n + 1]
    BY Zenon DEF SliceDown
  <2> QED BY <2>1, <2>2
<1> HIDE DEF s, S
<1>4. s \in Seq(S) /\ Len(s) = m
  <2>1. \A n \in 1 .. m : T[b - n + 1] \in S
    BY <1>3, Zenon DEF S, At
  <2> HIDE DEF m
  <2>2. s \in [1 .. m -> S]
    BY <1>2, <2>1, Zenon
  <2> QED BY <1>1, <2>2, FunctionList, Zenon
<1>5. ASSUME NEW n \in 1 .. m, NEW k \in 1 .. m, n < k PROVE Before(s[n], s[k], limit)
  <2>1. b - k + 1 < b - n + 1 /\ ~(0 < 0)
    BY <1>1, <1>5
  <2> HIDE DEF m
  <2>2. Before(T[b - k + 1], T[b - n + 1], 0)
    BY <1>3, <2>1, Zenon DEF IsTree, Lists
  <2>3. T[b - k + 1][1] = v /\ T[b - n + 1][1] = v
    BY <1>3, Zenon
  <2>4. Before(T[b - n + 1], T[b - k + 1], limit)
    BY <2>1, <2>2, <2>3, Zenon DEF Before
  <2> QED BY <1>3, <2>4, Zenon
<1>6. ASSUME NEW e \in S PROVE \E n \in 1 .. m : s[n] = e
  <2>1. PICK x \in a .. b : e = T[x]
    BY Zenon DEF S, At
  <2>2. b - x + 1 \in 1 .. m /\ b - (b - x + 1) + 1 = x
    BY <1>1
  <2> HIDE DEF m
  <2>3. s[b - x + 1] = T[b - (b - x + 1) + 1]
    BY <1>3, <2>2, Zenon
  <2> QED BY <2>1, <2>2, <2>3, Zenon
<1>7. PksDown(T, a, b) = KeysOf(s)
  <2>1. KeysOf(s) = [n \in 1 .. m |-> s[n][2]]
    BY <1>4, Zenon DEF KeysOf
  <2>2. PksDown(T, a, b) = [n \in 1 .. m |-> T[b - n + 1][2]]
    BY Zenon DEF PksDown
  <2> HIDE DEF m
  <2> QED BY <1>3, <2>1, <2>2, Zenon
<1>8. Lists(s, S, limit)
  <2> HIDE DEF m
  <2> QED BY <1>4, <1>5, <1>6, Zenon DEF Lists
<1> QED BY <1>7, <1>8, Zenon DEF s, S

-----------------------------------------------------------------------------
(* An exact query: the entries of a value come before one another as their *)
(* positions do, so a limit cuts the run of the value.                     *)
CountIs(T, tree, x, limit, c) ==
    Cardinality({y \in tree : y[1] = T[x][1] /\ Before(y, T[x], limit)}) = c

LEMMA GroupCount ==
    ASSUME NEW T, NEW tree, IsTree(T, tree), NEW v \in Strings, NEW i, NEW j,
           GroupAt(T, v, i, j), NEW x \in i .. j, NEW limit \in Int
    PROVE  CountIs(T, tree, x, limit, IF limit < 0 THEN j - x ELSE x - i)
<1> DEFINE C == {y \in tree : y[1] = T[x][1] /\ Before(y, T[x], limit)}
<1>1. Len(T) \in Nat /\ i \in Nat /\ j \in Nat /\ 1 <= i /\ i <= j + 1 /\ j <= Len(T)
  BY TreeType DEF GroupAt
<1>2. x \in 1 .. Len(T)
  BY <1>1
<1>3. T[x][1] = v /\ T[x] \in tree
  BY <1>2, TreeType, Zenon DEF GroupAt
<1>4. ASSUME NEW y \in 1 .. Len(T)
      PROVE  T[y] \in C <=> y \in i .. j /\ IF limit < 0 THEN x < y ELSE y < x
  <2>1. T[y] \in tree /\ (y \in i .. j <=> T[y][1] = v)
    BY TreeType, Zenon DEF GroupAt
  <2>2. 0 \in Int /\ tree \in SUBSET Entries /\ Lists(T, tree, 0)
    <3>1. 0 \in Int
      OBVIOUS
    <3> QED BY <3>1, Zenon DEF IsTree
  <2>3. (Before(T[y], T[x], 0) <=> y < x) /\ (Before(T[x], T[y], 0) <=> x < y)
    BY <1>2, <2>2, ListInjective, Zenon
  <2>4. ~(0 < 0)
    OBVIOUS
  <2>5. ASSUME T[y][1] = v
        PROVE  Before(T[y], T[x], limit) <=> IF limit < 0 THEN x < y ELSE y < x
    BY <1>3, <2>3, <2>4, <2>5, Zenon DEF Before
  <2> QED BY <1>3, <2>1, <2>5, Zenon
<1>5. \A e \in C : \E y \in 1 .. Len(T) : T[y] = e
  BY Zenon DEF IsTree, Lists
<1> HIDE DEF C
<1>6. CASE limit < 0
  <2>1. C = At(T, x + 1, j)
    <3>1. \A y \in 1 .. Len(T) : y \in x + 1 .. j <=> y \in i .. j /\ x < y
      BY <1>1
    <3>2. \A y \in x + 1 .. j : y \in 1 .. Len(T)
      BY <1>1
    <3>3. \A y \in 1 .. Len(T) : T[y] \in C <=> y \in x + 1 .. j
      BY <1>4, <1>6, <3>1, Zenon
    <3> QED BY <1>5, <3>2, <3>3, Zenon DEF At
  <2>2. x + 1 \in 1 .. Len(T) + 1 /\ j \in (x + 1) - 1 .. Len(T)
    BY <1>1
  <2>3. Cardinality(C) = j - (x + 1) + 1
    BY <2>1, <2>2, AtCount, Zenon
  <2>4. j - (x + 1) + 1 = j - x
    BY <1>1
  <2> QED BY <1>6, <2>3, <2>4, Zenon DEF C, CountIs
<1>7. CASE ~(limit < 0)
  <2>1. C = At(T, i, x - 1)
    <3>1. \A y \in 1 .. Len(T) : y \in i .. x - 1 <=> y \in i .. j /\ y < x
      BY <1>1
    <3>2. \A y \in i .. x - 1 : y \in 1 .. Len(T)
      BY <1>1
    <3>3. \A y \in 1 .. Len(T) : T[y] \in C <=> y \in i .. x - 1
      BY <1>4, <1>7, <3>1, Zenon
    <3> QED BY <1>5, <3>2, <3>3, Zenon DEF At
  <2>2. i \in 1 .. Len(T) + 1 /\ x - 1 \in i - 1 .. Len(T)
    BY <1>1
  <2>3. Cardinality(C) = (x - 1) - i + 1
    BY <2>1, <2>2, AtCount, Zenon
  <2>4. (x - 1) - i + 1 = x - i
    BY <1>1
  <2> QED BY <1>7, <2>3, <2>4, Zenon DEF C, CountIs
<1> QED BY <1>6, <1>7

(* The first and the last position that a limit leaves of i .. j.          *)
CutLo(i, j, limit) == IF limit < 0 THEN Greatest(i, j + 1 + limit) ELSE i
CutHi(i, j, limit) == IF limit > 0 THEN Least(j, i + limit - 1) ELSE j

CutsTo(T, tree, v, limit, lo, hi) ==
    /\ lo \in 1 .. Len(T) + 1 /\ hi \in lo - 1 .. Len(T)
    /\ \A x \in lo .. hi : T[x][1] = v
    /\ Chosen(tree, {v}, limit) = At(T, lo, hi)

LEMMA ChosenGroup ==
    ASSUME NEW T, NEW tree, IsTree(T, tree), NEW v \in Strings, NEW i, NEW j,
           GroupAt(T, v, i, j), NEW limit \in Int
    PROVE  CutsTo(T, tree, v, limit, CutLo(i, j, limit), CutHi(i, j, limit))
<1> DEFINE lo == CutLo(i, j, limit)
           hi == CutHi(i, j, limit)
           S == Chosen(tree, {v}, limit)
           C(e) == {y \in tree : y[1] = e[1] /\ Before(y, e, limit)}
           g == Greatest(limit, -limit)
<1>1. Len(T) \in Nat /\ i \in Nat /\ j \in Nat /\ 1 <= i /\ i <= j + 1 /\ j <= Len(T)
  BY TreeType DEF GroupAt
<1>2. lo \in 1 .. Len(T) + 1 /\ hi \in lo - 1 .. Len(T)
  BY <1>1 DEF CutLo, CutHi, Greatest, Least
<1>3. \A x \in lo .. hi : x \in i .. j /\ x \in 1 .. Len(T)
  BY <1>1 DEF CutLo, CutHi, Greatest, Least
<1>4. \A x \in lo .. hi : T[x][1] = v
  <2> HIDE DEF lo, hi
  <2> QED BY <1>3, Zenon DEF GroupAt
<1>5. ASSUME NEW x \in i .. j
      PROVE  x \in lo .. hi <=> (limit # 0 => (IF limit < 0 THEN j - x ELSE x - i) < g)
  BY <1>1 DEF CutLo, CutHi, Greatest, Least
<1>6. ASSUME NEW x \in i .. j
      PROVE  x \in lo .. hi <=> (limit # 0 => Cardinality(C(T[x])) < g)
  <2>1. CountIs(T, tree, x, limit, IF limit < 0 THEN j - x ELSE x - i)
    BY GroupCount, Zenon
  <2>2. Cardinality(C(T[x])) = IF limit < 0 THEN j - x ELSE x - i
    BY <2>1, Zenon DEF CountIs
  <2> HIDE DEF lo, hi, g
  <2> QED BY <1>5, <2>2, Zenon
<1>7. \A e : e \in S <=> e \in tree /\ e[1] = v /\ (limit # 0 => Cardinality(C(e)) < g)
  BY Zenon DEF Chosen
<1> HIDE DEF lo, hi, g, S
<1>8. \A x \in i .. j : T[x] \in tree /\ T[x][1] = v
  <2>1. \A x \in i .. j : x \in 1 .. Len(T)
    BY <1>1
  <2> QED BY <2>1, TreeType, Zenon DEF GroupAt
<1>9. ASSUME NEW e \in S PROVE e \in At(T, lo, hi)
  <2>1. PICK x \in 1 .. Len(T) : T[x] = e
    BY <1>7, <1>9, Zenon DEF IsTree, Lists
  <2>2. x \in i .. j
    BY <1>7, <1>9, <2>1, Zenon DEF GroupAt
  <2>3. x \in lo .. hi
    BY <1>6, <1>7, <1>9, <2>1, <2>2, Zenon
  <2> QED BY <2>1, <2>3, Zenon DEF At
<1>10. ASSUME NEW e \in At(T, lo, hi) PROVE e \in S
  <2>1. PICK x \in lo .. hi : T[x] = e
    BY Zenon DEF At
  <2>2. x \in i .. j
    BY <1>3, Zenon
  <2>3. limit # 0 => Cardinality(C(T[x])) < g
    BY <1>6, <2>2, Zenon
  <2>4. T[x] \in S
    BY <1>7, <1>8, <2>2, <2>3, Zenon
  <2> QED BY <2>1, <2>4, Zenon
<1>11. S = At(T, lo, hi)
  BY <1>9, <1>10, Zenon
<1> QED BY <1>2, <1>4, <1>11, Zenon DEF S, lo, hi, CutsTo

LEMMA ExactLists ==
    ASSUME NEW T, NEW tree, IsTree(T, tree), NEW v \in Strings, NEW limit \in Int
    PROVE  Gives(tree, {v}, limit, Exact(T, v, limit))
<1> DEFINE i == Seek(T, <<v, 0>>)
           j == Seek(T, <<Successor(v), 0>>) - 1
           lo == CutLo(i, j, limit)
           hi == CutHi(i, j, limit)
<1>1. GroupAt(T, v, i, j)
  BY SeekGroup, Zenon
<1>2. RunEnd(T, i, v) = j
  <2>1. i \in i .. j + 1
    <3> HIDE DEF i, j
    <3>1. Len(T) \in Nat /\ i \in 1 .. Len(T) + 1 /\ j \in i - 1 .. Len(T)
      BY <1>1, TreeType, Zenon DEF GroupAt
    <3> QED BY <3>1
  <2>2. \A h \in i .. j + 1 : RunEnd(T, h, v) = j
    <3> HIDE DEF i, j
    <3> QED BY <1>1, RunIs, Zenon
  <2> QED BY <2>1, <2>2, Zenon
<1>3. Exact(T, v, limit) = CASE limit = 0 -> Pks(T, i, j)
          [] limit > 0 -> Pks(T, i, Least(j, i + limit - 1))
          [] limit < 0 -> PksDown(T, Greatest(i, j + 1 + limit), j)
  BY <1>2, Zenon DEF Exact
<1> HIDE DEF i, j
<1>4. CutsTo(T, tree, v, limit, lo, hi)
  BY <1>1, ChosenGroup, Zenon
<1>5. Exact(T, v, limit) = IF limit < 0 THEN PksDown(T, lo, hi) ELSE Pks(T, lo, hi)
  <2>1. limit = 0 \/ limit > 0 \/ limit < 0
    OBVIOUS
  <2>2. ~(limit = 0 /\ limit > 0) /\ ~(limit = 0 /\ limit < 0) /\ ~(limit > 0 /\ limit < 0)
    OBVIOUS
  <2> QED BY <1>3, <2>1, <2>2, Zenon DEF CutLo, CutHi
<1> HIDE DEF lo, hi
<1>6. CASE limit < 0
  BY <1>4, <1>5, <1>6, SliceDownLists, Zenon DEF CutsTo, Gives
<1>7. CASE ~(limit < 0)
  <2>1. Lists(Slice(T, lo, hi), At(T, lo, hi), 0) /\ Pks(T, lo, hi) = KeysOf(Slice(T, lo, hi))
    BY <1>4, SliceLists, Zenon DEF CutsTo
  <2>2. Lists(Slice(T, lo, hi), At(T, lo, hi), limit)
    BY <1>7, <2>1, ListsForward, Zenon
  <2> QED BY <1>4, <1>5, <1>7, <2>1, <2>2, Zenon DEF CutsTo, Gives
<1> QED BY <1>6, <1>7

-----------------------------------------------------------------------------
LEMMA ExistsIs ==
    ASSUME NEW T, NEW tree, IsTree(T, tree), NEW v \in Strings
    PROVE  Exists(T, v) <=> \E e \in tree : e[1] = v
<1> DEFINE i == Seek(T, <<v, 0>>)
           j == Seek(T, <<Successor(v), 0>>) - 1
<1>1. GroupAt(T, v, i, j)
  BY SeekGroup, Zenon
<1>2. Exists(T, v) <=> i <= Len(T) /\ T[i][1] = v
  BY Zenon DEF Exists
<1> HIDE DEF i, j
<1>3. ASSUME Exists(T, v) PROVE \E e \in tree : e[1] = v
  <2>1. i \in 1 .. Len(T)
    BY <1>1, <1>2, <1>3, TreeType DEF GroupAt
  <2> QED BY <1>2, <1>3, <2>1, TreeType, Zenon
<1>4. ASSUME NEW e \in tree, e[1] = v PROVE Exists(T, v)
  <2>1. PICK x \in 1 .. Len(T) : T[x] = e
    BY Zenon DEF IsTree, Lists
  <2>2. x \in i .. j
    BY <1>1, <1>4, <2>1, Zenon DEF GroupAt
  <2>3. i \in i .. j /\ i \in 1 .. Len(T) /\ i <= Len(T)
    BY <1>1, <2>2, TreeType DEF GroupAt
  <2> QED BY <1>1, <1>2, <2>3, Zenon DEF GroupAt
<1> QED BY <1>3, <1>4, Zenon

(* A range query takes the positions between two bounds.                   *)
InRange(tree, V, lo, hi) ==
    \A e \in tree : e[1] \in V <=> ~StrLess(e[1], lo) /\ ~StrLess(hi, e[1])

LEMMA RangeLists ==
    ASSUME NEW T, NEW tree, IsTree(T, tree), NEW lo \in Strings, NEW hi \in Strings,
           NEW V, InRange(tree, V, lo, hi)
    PROVE  Gives(tree, V, 0, RangeQuery(T, lo, hi))
<1> DEFINE i == Seek(T, <<lo, 0>>)
           past == {x \in i .. Len(T) : StrLess(hi, T[x][1])}
           q == IF past = {} THEN Len(T) ELSE (CHOOSE x \in past : \A y \in past : x <= y) - 1
<1>1. RangeQuery(T, lo, hi) = Pks(T, i, q)
  BY Zenon DEF RangeQuery
<1>2. Len(T) \in Nat /\ i \in 1 .. Len(T) + 1
  BY TreeType, SeekValue, Zenon
<1>3. \A x \in 1 .. Len(T) : x < i <=> StrLess(T[x][1], lo)
  BY SeekValue, Zenon
<1> HIDE DEF i
<1>4. q \in i - 1 .. Len(T) /\ \A x \in i .. Len(T) : x <= q <=> ~StrLess(hi, T[x][1])
  <2>1. CASE past = {}
    <3>1. q = Len(T)
      BY <2>1, Zenon
    <3>2. \A x \in i .. Len(T) : ~StrLess(hi, T[x][1])
      BY <2>1, Zenon
    <3> HIDE DEF q, past
    <3>3. q \in i - 1 .. Len(T) /\ \A x \in i .. Len(T) : x <= q
      BY <1>2, <3>1
    <3> QED BY <3>2, <3>3, Zenon
  <2>2. CASE past # {}
    <3> DEFINE c == CHOOSE x \in past : \A y \in past : x <= y
    <3>1. past \in SUBSET Nat
      <4>1. \A x \in i .. Len(T) : x \in Nat
        BY <1>2
      <4> QED BY <4>1, Zenon
    <3>2. c \in past /\ \A y \in past : c <= y
      BY <2>2, <3>1, LeastNat, Zenon
    <3>3. q = c - 1
      BY <2>2, Zenon
    <3>4. c \in i .. Len(T) /\ StrLess(hi, T[c][1])
      BY <3>2, Zenon
    <3> HIDE DEF q, c
    <3>5. q \in i - 1 .. Len(T) /\ \A x \in i .. Len(T) : x <= q <=> ~(c <= x)
      BY <1>2, <3>3, <3>4
    <3>6. ASSUME NEW x \in i .. Len(T), c <= x PROVE StrLess(hi, T[x][1])
      <4>1. x \in 1 .. Len(T) /\ c \in 1 .. Len(T)
        BY <1>2, <3>4
      <4>2. T[c][1] = T[x][1] \/ StrLess(T[c][1], T[x][1])
        BY <3>6, <4>1, ValueOrder, Zenon
      <4>3. T[c][1] \in Strings /\ T[x][1] \in Strings
        BY <4>1, TreeType, Zenon
      <4> QED BY <3>4, <4>2, <4>3, StrTransitive, Zenon
    <3>7. ASSUME NEW x \in i .. Len(T), StrLess(hi, T[x][1]) PROVE c <= x
      BY <3>2, <3>7, Zenon
    <3> QED BY <3>5, <3>6, <3>7, Zenon
  <2> QED BY <2>1, <2>2, Zenon
<1> HIDE DEF q
<1>5. \A x \in 1 .. Len(T) : x \in i .. q <=> ~(x < i) /\ x \in i .. Len(T) /\ x <= q
  BY <1>2, <1>4
<1>6. \A x \in 1 .. Len(T) : ~(x < i) => x \in i .. Len(T)
  BY <1>2
<1>7. \A x \in 1 .. Len(T) : T[x] \in tree /\ (x \in i .. q <=> T[x][1] \in V)
  BY <1>3, <1>4, <1>5, <1>6, TreeType, Zenon DEF InRange
<1>8. Chosen(tree, V, 0) = At(T, i, q)
  <2>1. \A e : e \in Chosen(tree, V, 0) <=> e \in tree /\ e[1] \in V
    BY Zenon DEF Chosen
  <2>2. \A x \in i .. q : x \in 1 .. Len(T)
    BY <1>2, <1>4
  <2>3. \A e \in tree : \E x \in 1 .. Len(T) : T[x] = e
    BY Zenon DEF IsTree, Lists
  <2> QED BY <1>7, <2>1, <2>2, <2>3, Zenon DEF At
<1>9. Lists(Slice(T, i, q), At(T, i, q), 0) /\ Pks(T, i, q) = KeysOf(Slice(T, i, q))
  BY <1>2, <1>4, SliceLists, Zenon
<1> QED BY <1>1, <1>8, <1>9, Zenon DEF Gives

-----------------------------------------------------------------------------
(* A prefix query: the walk over the groups is defined ...                 *)
Walks(g, N, Stop, G, nx) ==
    g = [i \in 1 .. N + 1 |-> IF i \in Stop THEN <<>> ELSE G[i] \o g[nx[i]]]

LEMMA WalkExists ==
    ASSUME NEW N \in Nat, NEW Stop, NEW G, NEW nx,
           \A i \in 1 .. N + 1 : i \notin Stop => nx[i] \in i + 1 .. N + 1
    PROVE  \E g : Walks(g, N, Stop, G, nx)
<1> DEFINE From(k) == \E g : g = [i \in k .. N + 1 |-> IF i \in Stop THEN <<>> ELSE G[i] \o g[nx[i]]]
           M == {z \in Nat : z \in 0 .. N + 1 /\ ~From(N + 2 - z)}
<1>1. CASE M = {}
  <2>1. N + 1 \in Nat /\ N + 1 \in 0 .. N + 1 /\ N + 2 - (N + 1) = 1
    OBVIOUS
  <2>2. From(N + 2 - (N + 1))
    BY <1>1, <2>1, Zenon
  <2> QED BY <2>1, <2>2, Zenon DEF Walks
<1>2. CASE M # {}
  <2>1. PICK m \in M : \A x \in M : m <= x
    BY <1>2, LeastNat, Zenon
  <2>2. m \in Nat /\ m \in 0 .. N + 1 /\ ~From(N + 2 - m)
    BY <2>1, Zenon
  <2>3. m # 0
    <3>1. N + 2 - 0 = N + 2 /\ N + 2 .. N + 1 = {}
      OBVIOUS
    <3> DEFINE e == [i \in {} |-> <<>>]
    <3>2. e = [i \in N + 2 .. N + 1 |-> IF i \in Stop THEN <<>> ELSE G[i] \o e[nx[i]]]
      BY <3>1, Zenon
    <3>3. From(N + 2 - 0)
      BY <3>1, <3>2, Zenon
    <3> QED BY <2>2, <3>3, Zenon
  <2> DEFINE k == N + 2 - m
  <2>4. m - 1 \in Nat /\ m - 1 \in 0 .. N + 1 /\ ~(m <= m - 1) /\ N + 2 - (m - 1) = k + 1
    BY <2>2, <2>3
  <2>5. From(k + 1)
    <3>1. From(N + 2 - (m - 1))
      BY <2>1, <2>4, Zenon
    <3> HIDE DEF From
    <3> QED BY <2>4, <3>1, Zenon
  <2>6. PICK g : g = [i \in k + 1 .. N + 1 |-> IF i \in Stop THEN <<>> ELSE G[i] \o g[nx[i]]]
    BY <2>5, Zenon
  <2>7. k \in 1 .. N + 1
    BY <2>2, <2>3
  <2>8. ~From(k)
    BY <2>2, Zenon
  <2> HIDE DEF k, From, M
  <2> DEFINE h == [i \in k .. N + 1 |->
                     IF i = k THEN (IF k \in Stop THEN <<>> ELSE G[k] \o g[nx[k]]) ELSE g[i]]
  <2>9. \A i \in k .. N + 1 :
          /\ i \in 1 .. N + 1 /\ (i # k => i \in k + 1 .. N + 1)
          /\ \A x \in i + 1 .. N + 1 : x # k /\ x \in k .. N + 1
    BY <2>7
  <2>10. ASSUME NEW i \in k .. N + 1
         PROVE  h[i] = IF i \in Stop THEN <<>> ELSE G[i] \o h[nx[i]]
    <3>1. h[i] = IF i \in Stop THEN <<>> ELSE G[i] \o g[nx[i]]
      <4>1. CASE i = k
        BY <4>1, Zenon
      <4>2. CASE i # k
        <5>1. i \in k + 1 .. N + 1 /\ h[i] = g[i]
          BY <2>9, <4>2, Zenon
        <5>2. g[i] = IF i \in Stop THEN <<>> ELSE G[i] \o g[nx[i]]
          BY <2>6, <5>1, Zenon
        <5> QED BY <5>1, <5>2, Zenon
      <4> QED BY <4>1, <4>2
    <3>2. ASSUME i \notin Stop PROVE h[nx[i]] = g[nx[i]]
      BY <2>9, <3>2, Zenon
    <3> HIDE DEF h
    <3> QED BY <3>1, <3>2, Zenon
  <2>11. h = [i \in k .. N + 1 |-> h[i]]
    BY Zenon
  <2> HIDE DEF h
  <2>12. h = [i \in k .. N + 1 |-> IF i \in Stop THEN <<>> ELSE G[i] \o h[nx[i]]]
    BY <2>10, <2>11, Zenon
  <2> QED BY <2>8, <2>12, Zenon DEF From
<1> QED BY <1>1, <1>2, Zenon

(* ... its steps go from the seek of one group to the seek of the next ... *)
LEMMA GroupStep ==
    ASSUME NEW T, NEW tree, IsTree(T, tree), NEW x \in 1 .. Len(T), NEW limit \in Int
    PROVE  /\ NextGroup(T, x, limit) = Seek(T, <<Successor(T[x][1]), 0>>)
           /\ NextGroup(T, x, limit) \in x + 1 .. Len(T) + 1
           /\ x = Seek(T, <<T[x][1], 0>>) => GroupPks(T, x, limit) = Exact(T, T[x][1], limit)
<1> DEFINE v == T[x][1]
           i == Seek(T, <<v, 0>>)
           k == Seek(T, <<Successor(v), 0>>)
           j == k - 1
<1>1. v \in Strings /\ Len(T) \in Nat
  BY TreeType, Zenon
<1>2. Successor(v) \in Strings
  BY <1>1, SuccessorNext, Zenon
<1>3. GroupAt(T, v, i, j) /\ k \in 1 .. Len(T) + 1
  BY <1>1, <1>2, SeekGroup, SeekValue, Zenon
<1>4. /\ NextGroup(T, x, limit) = IF limit >= 0 /\ (limit = 0 \/ RunEnd(T, x, v) < x + limit)
                                 THEN RunEnd(T, x, v) + 1 ELSE k
      /\ GroupPks(T, x, limit) =
           CASE limit = 0 -> Pks(T, x, RunEnd(T, x, v))
             [] limit > 0 -> Pks(T, x, Least(RunEnd(T, x, v), x + limit - 1))
             [] limit < 0 -> PksDown(T, Greatest(RunStart(T, j, v), j + 1 + limit), j)
      /\ Exact(T, v, limit) =
           CASE limit = 0 -> Pks(T, i, RunEnd(T, i, v))
             [] limit > 0 -> Pks(T, i, Least(RunEnd(T, i, v), i + limit - 1))
             [] limit < 0 -> PksDown(T, Greatest(i, RunEnd(T, i, v) + 1 + limit), RunEnd(T, i, v))
  BY Zenon DEF NextGroup, GroupPks, Exact
<1> HIDE DEF i, k
<1>5. x \in i .. j
  BY <1>3, Zenon DEF GroupAt
<1>6. i \in Nat /\ x \in i .. j + 1 /\ i \in i .. j + 1 /\ j + 1 = k /\ k \in x + 1 .. Len(T) + 1
  <2>1. i \in 1 .. Len(T) + 1 /\ k \in 1 .. Len(T) + 1
    BY <1>3, Zenon DEF GroupAt
  <2> QED BY <1>1, <1>5, <2>1
<1> HIDE DEF j, v
<1>7. RunEnd(T, x, v) = j /\ RunEnd(T, i, v) = j /\ RunStart(T, j, v) = i
  <2>1. RunStart(T, j, v) = i /\ \A h \in i .. j + 1 : RunEnd(T, h, v) = j
    BY <1>1, <1>3, RunIs, Zenon
  <2> QED BY <1>6, <2>1, Zenon
<1>8. NextGroup(T, x, limit) = k
  BY <1>4, <1>6, <1>7, Zenon
<1>9. ASSUME x = i PROVE GroupPks(T, x, limit) = Exact(T, v, limit)
  BY <1>4, <1>7, <1>9, Zenon
<1> QED BY <1>6, <1>8, <1>9, Zenon DEF v, i, k

LEMMA PrefixWalk ==
    ASSUME NEW T, NEW tree, IsTree(T, tree), NEW p, NEW limit \in Int, NEW i \in 1 .. Len(T) + 1
    PROVE  LET f == PrefixFrom(T, p, limit) IN
           /\ (i > Len(T) \/ ~HasPrefix(T[i][1], p)) => f[i] = <<>>
           /\ ~(i > Len(T)) /\ HasPrefix(T[i][1], p)
                => f[i] = GroupPks(T, i, limit) \o f[NextGroup(T, i, limit)]
<1> DEFINE f == PrefixFrom(T, p, limit)
           N == Len(T)
           Stop == {x \in 1 .. N + 1 : x > N \/ ~HasPrefix(T[x][1], p)}
           G == [x \in 1 .. N + 1 |-> GroupPks(T, x, limit)]
           nx == [x \in 1 .. N + 1 |-> NextGroup(T, x, limit)]
           Is(g) == g = [x \in 1 .. N + 1 |-> IF x > N THEN <<>>
                              ELSE IF ~HasPrefix(T[x][1], p) THEN <<>>
                              ELSE GroupPks(T, x, limit) \o g[NextGroup(T, x, limit)]]
<1>1. N \in Nat
  BY TreeType, Zenon
<1>2. ASSUME NEW x \in 1 .. N + 1, x \notin Stop PROVE nx[x] \in x + 1 .. N + 1
  <2>1. ~(x > N)
    BY <1>2, Zenon
  <2>2. x \in 1 .. Len(T)
    BY <1>1, <2>1
  <2>3. nx[x] = NextGroup(T, x, limit)
    BY Zenon
  <2> QED BY <2>2, <2>3, GroupStep, Zenon
<1>3. \E g : Walks(g, N, Stop, G, nx)
  <2> HIDE DEF Stop, G, nx, N
  <2> QED BY <1>1, <1>2, WalkExists, Zenon
<1>4. PICK g : g = [x \in 1 .. N + 1 |-> IF x \in Stop THEN <<>> ELSE G[x] \o g[nx[x]]]
  BY <1>3, Zenon DEF Walks
<1>5. Is(g)
  <2>1. \A x \in 1 .. N + 1 :
          (IF x \in Stop THEN <<>> ELSE G[x] \o g[nx[x]])
            = IF x > N THEN <<>>
              ELSE IF ~HasPrefix(T[x][1], p) THEN <<>>
              ELSE GroupPks(T, x, limit) \o g[NextGroup(T, x, limit)]
    BY Zenon
  <2> HIDE DEF Stop, G, nx, N
  <2> QED BY <1>4, <2>1, Zenon
<1>6. Is(f)
  BY <1>5, Zenon DEF PrefixFrom
<1> HIDE DEF f
<1>7. f[i] = IF i > N THEN <<>> ELSE IF ~HasPrefix(T[i][1], p) THEN <<>>
             ELSE GroupPks(T, i, limit) \o f[NextGroup(T, i, limit)]
  BY <1>6, Zenon
<1> QED BY <1>7, Zenon DEF f

(* ... the values with a prefix are neighbours ...                         *)
LEMMA PrefixNotBelow ==
    ASSUME NEW p \in Strings, NEW u \in Strings, HasPrefix(u, p)
    PROVE  ~StrLess(u, p)
<1> SUFFICES ASSUME NEW n \in Nat, LessAt(u, p, n) PROVE FALSE
  BY StrLessAt, Zenon
<1>1. Len(p) <= Len(u) /\ \A i \in 1 .. Len(p) : p[i] = u[i]
  BY Zenon DEF HasPrefix
<1>2. Len(p) \in Nat /\ Len(u) \in Nat
  BY DEF Strings
<1>3. n + 1 \in 1 .. Len(p) /\ n + 1 \in 1 .. Len(u) /\ n # Len(u)
  BY <1>1, <1>2 DEF LessAt
<1>4. u[n + 1] \in Nat /\ u[n + 1] < u[n + 1]
  BY <1>1, <1>3, CharType, Zenon DEF LessAt
<1> QED BY <1>4

LEMMA PrefixConvex ==
    ASSUME NEW p \in Strings, NEW u \in Strings, NEW w \in Strings,
           ~StrLess(u, p), u = w \/ StrLess(u, w), HasPrefix(w, p)
    PROVE  HasPrefix(u, p)
<1>1. Len(p) \in Nat /\ Len(u) \in Nat /\ Len(w) \in Nat
  BY DEF Strings
<1>2. Len(p) <= Len(w) /\ \A i \in 1 .. Len(p) : p[i] = w[i]
  BY Zenon DEF HasPrefix
<1>3. CASE StrLess(u, w)
  <2>1. PICK n \in Nat : LessAt(u, w, n)
    BY <1>3, StrLessAt, Zenon
  <2>2. CASE n < Len(p)
    <3>1. n + 1 \in 1 .. Len(p) /\ \A i \in 1 .. n : i \in 1 .. Len(p)
      BY <1>1, <2>2
    <3>2. LessAt(u, p, n)
      BY <1>2, <2>1, <2>2, <3>1, Zenon DEF LessAt
    <3> QED BY <3>2, StrLessAt, Zenon
  <2>3. CASE ~(n < Len(p))
    <3>1. Len(p) <= Len(u) /\ \A i \in 1 .. Len(p) : i \in 1 .. n
      BY <1>1, <2>1, <2>3 DEF LessAt
    <3>2. \A i \in 1 .. Len(p) : p[i] = u[i]
      BY <1>2, <2>1, <3>1, Zenon DEF LessAt
    <3> QED BY <3>1, <3>2, Zenon DEF HasPrefix
  <2> QED BY <2>2, <2>3
<1> QED BY <1>3

(* ... and what it takes of a group lists the group's chosen entries.      *)
LEMMA EmptyLists ==
    ASSUME NEW limit
    PROVE  Lists(<<>>, {}, limit) /\ KeysOf(<<>>) = <<>>
<1>1. <<>> \in Seq({}) /\ Len(<<>>) = 0 /\ 1 .. 0 = {}
  OBVIOUS
<1>2. Lists(<<>>, {}, limit)
  BY <1>1, Zenon DEF Lists
<1>3. KeysOf(<<>>) = <<>>
  BY <1>1 DEF KeysOf
<1> QED BY <1>2, <1>3

LEMMA ConcatLists ==
    ASSUME NEW s, NEW t, NEW A, NEW B, NEW limit, Lists(s, A, limit), Lists(t, B, limit),
           \A a \in A : \A b \in B : Before(a, b, limit)
    PROVE  Lists(s \o t, A \cup B, limit) /\ KeysOf(s \o t) = KeysOf(s) \o KeysOf(t)
<1> DEFINE r == s \o t
           m == Len(s)
           n == Len(t)
<1>1. s \in Seq(A) /\ t \in Seq(B) /\ m \in Nat /\ n \in Nat
  BY ListType, Zenon DEF Lists
<1>2. r \in Seq(A \cup B) /\ Len(r) = m + n
  <2>1. s \in Seq(A \cup B) /\ t \in Seq(A \cup B)
    BY <1>1
  <2> QED BY <2>1
<1>3. \A x \in 1 .. m + n : r[x] = IF x <= m THEN s[x] ELSE t[x - m]
  BY <1>1
<1>4. \A x \in 1 .. m : s[x] \in A /\ x \in 1 .. m + n /\ r[x] = s[x]
  <2>1. \A x \in 1 .. m : s[x] \in A
    BY <1>1, ListType, Zenon
  <2> HIDE DEF r
  <2>2. \A x \in 1 .. m : x \in 1 .. m + n /\ x <= m
    BY <1>1
  <2> QED BY <1>3, <2>1, <2>2, Zenon
<1>5. \A x \in 1 .. n : t[x] \in B /\ m + x \in 1 .. m + n /\ r[m + x] = t[x]
  <2>1. \A x \in 1 .. n : t[x] \in B
    BY <1>1, ListType, Zenon
  <2> HIDE DEF r
  <2>2. \A x \in 1 .. n : m + x \in 1 .. m + n /\ ~(m + x <= m) /\ (m + x) - m = x
    BY <1>1
  <2> QED BY <1>3, <2>1, <2>2, Zenon
<1>6. ASSUME NEW x \in 1 .. m + n PROVE x \in 1 .. m \/ \E y \in 1 .. n : x = m + y
  <2>1. CASE x <= m
    BY <1>1, <2>1
  <2>2. CASE ~(x <= m)
    <3>1. x - m \in 1 .. n /\ x = m + (x - m)
      BY <1>1, <2>2
    <3> QED BY <3>1, Zenon
  <2> QED BY <2>1, <2>2
<1> HIDE DEF r
<1>7. ASSUME NEW x \in 1 .. m + n, NEW y \in 1 .. m + n, x < y PROVE Before(r[x], r[y], limit)
  <2>1. CASE x \in 1 .. m /\ y \in 1 .. m
    BY <1>4, <1>7, <2>1, Zenon DEF Lists
  <2>2. CASE x \in 1 .. m /\ \E z \in 1 .. n : y = m + z
    BY <1>4, <1>5, <2>2, Zenon
  <2>3. ASSUME NEW z \in 1 .. n, x = m + z, NEW u \in 1 .. n, y = m + u
        PROVE  Before(r[x], r[y], limit)
    <3>1. z < u
      BY <1>1, <1>7, <2>3
    <3> QED BY <1>5, <2>3, <3>1, Zenon DEF Lists
  <2>4. ASSUME NEW z \in 1 .. n, x = m + z, y \in 1 .. m PROVE FALSE
    BY <1>1, <1>7, <2>4
  <2> QED BY <1>6, <2>1, <2>2, <2>3, <2>4, Zenon
<1>8. ASSUME NEW e \in A \cup B PROVE \E x \in 1 .. m + n : r[x] = e
  BY <1>4, <1>5, Zenon DEF Lists
<1>9. KeysOf(r) = KeysOf(s) \o KeysOf(t)
  <2> DEFINE K == {s[x][2] : x \in 1 .. m} \cup {t[x][2] : x \in 1 .. n}
             a == KeysOf(s)
             b == KeysOf(t)
  <2>1. a \in [1 .. m -> K] /\ b \in [1 .. n -> K]
    BY Zenon DEF KeysOf
  <2>2. /\ \A x \in 1 .. m : a[x] = s[x][2]
        /\ \A x \in 1 .. n : b[x] = t[x][2]
    BY Zenon DEF KeysOf
  <2>3. KeysOf(r) = [x \in 1 .. m + n |-> r[x][2]]
    BY <1>2, Zenon DEF KeysOf
  <2> HIDE DEF K, a, b
  <2>4. a \in Seq(K) /\ Len(a) = m /\ b \in Seq(K) /\ Len(b) = n
    BY <1>1, <2>1, FunctionList, Zenon
  <2>5. /\ \A x \in 1 .. m + n : (a \o b)[x] = IF x <= m THEN a[x] ELSE b[x - m]
        /\ a \o b = [x \in 1 .. m + n |-> (a \o b)[x]]
    <3> HIDE DEF m, n
    <3>1. a \o b \in Seq(K) /\ Len(a \o b) = m + n
      BY <1>1, <2>4
    <3>2. \A x \in 1 .. m + n : (a \o b)[x] = IF x <= m THEN a[x] ELSE b[x - m]
      BY <1>1, <2>4
    <3>3. a \o b \in [1 .. m + n -> K]
      BY <3>1, ListType, Zenon
    <3> QED BY <3>2, <3>3, Zenon
  <2>6. \A x \in 1 .. m + n : IF x <= m THEN x \in 1 .. m ELSE x - m \in 1 .. n
    BY <1>1
  <2>7. ASSUME NEW x \in 1 .. m + n PROVE (a \o b)[x] = r[x][2]
    <3>1. CASE x <= m
      <4>1. r[x] = s[x] /\ (a \o b)[x] = a[x] /\ x \in 1 .. m
        BY <1>3, <2>5, <2>6, <3>1, Zenon
      <4> QED BY <2>2, <4>1, Zenon
    <3>2. CASE ~(x <= m)
      <4>1. r[x] = t[x - m] /\ (a \o b)[x] = b[x - m] /\ x - m \in 1 .. n
        BY <1>3, <2>5, <2>6, <3>2, Zenon
      <4> QED BY <2>2, <4>1, Zenon
    <3> QED BY <3>1, <3>2, Zenon
  <2>8. a \o b = KeysOf(r)
    BY <2>3, <2>5, <2>7, Zenon
  <2> QED BY <2>8, Zenon DEF a, b
<1>10. Lists(r, A \cup B, limit)
  BY <1>2, <1>7, <1>8, Zenon DEF Lists
<1> QED BY <1>9, <1>10, Zenon DEF r

(* The chosen entries at position i or after.                              *)
Rest(T, tree, V, limit, i) == {e \in Chosen(tree, V, limit) : \E x \in i .. Len(T) : T[x] = e}

(* The walk from a group's seek returns what is left.                      *)
Returns(T, tree, V, p, limit, i) ==
    \E s : /\ Lists(s, Rest(T, tree, V, limit, i), limit)
           /\ PrefixFrom(T, p, limit)[i] = KeysOf(s)

LEMMA SeekFirst ==
    ASSUME NEW T, NEW tree, IsTree(T, tree), NEW u \in Strings,
           NEW i \in 1 .. Len(T), i = Seek(T, <<u, 0>>)
    PROVE  i = Seek(T, <<T[i][1], 0>>)
<1> DEFINE v == T[i][1]
           k == Seek(T, <<v, 0>>)
<1>1. Len(T) \in Nat /\ v \in Strings
  BY TreeType, Zenon
<1>2. k \in 1 .. Len(T) + 1 /\ \A x \in 1 .. Len(T) : x < k <=> StrLess(T[x][1], v)
  BY <1>1, SeekValue, Zenon
<1>3. \A x \in 1 .. Len(T) : x < i <=> StrLess(T[x][1], u)
  BY SeekValue, Zenon
<1> HIDE DEF k
<1>4. ~(i < k)
  BY <1>1, <1>2, StrIrreflexive, Zenon
<1>5. ~(k < i)
  <2> SUFFICES ASSUME k < i PROVE FALSE
    OBVIOUS
  <2>1. k \in 1 .. Len(T) /\ ~(k < k) /\ ~(i < i) /\ k <= i
    BY <1>1, <1>2
  <2>2. StrLess(T[k][1], u) /\ ~StrLess(v, u) /\ ~StrLess(T[k][1], v)
    BY <1>2, <1>3, <2>1, Zenon
  <2>3. T[k][1] = v
    BY <2>1, <2>2, ValueOrder, Zenon
  <2> QED BY <2>2, <2>3, Zenon
<1>6. i = k
  BY <1>1, <1>2, <1>4, <1>5
<1> QED BY <1>6, Zenon DEF k

LEMMA RestStops ==
    ASSUME NEW T, NEW tree, IsTree(T, tree), NEW p \in Strings, NEW limit \in Int, NEW V,
           \A e \in tree : e[1] \in V <=> HasPrefix(e[1], p),
           NEW i \in 1 .. Len(T) + 1, Seek(T, <<p, 0>>) <= i,
           i > Len(T) \/ ~HasPrefix(T[i][1], p)
    PROVE  Returns(T, tree, V, p, limit, i)
<1>1. Len(T) \in Nat /\ Seek(T, <<p, 0>>) \in 1 .. Len(T) + 1
  BY TreeType, SeekValue, Zenon
<1>2. ASSUME NEW e \in Rest(T, tree, V, limit, i) PROVE FALSE
  <2>1. PICK x \in i .. Len(T) : T[x] = e
    BY Zenon DEF Rest
  <2>2. x \in 1 .. Len(T) /\ i \in 1 .. Len(T) /\ i <= x /\ ~(i > Len(T)) /\ ~(i < Seek(T, <<p, 0>>))
    BY <1>1
  <2>3. T[x][1] \in Strings /\ T[i][1] \in Strings
    BY <2>2, TreeType, Zenon
  <2>4. e \in tree /\ e[1] \in V
    BY <1>2, Zenon DEF Rest, Chosen
  <2>5. HasPrefix(T[x][1], p)
    BY <2>1, <2>4, Zenon
  <2>6. ~StrLess(T[i][1], p)
    BY <2>2, SeekValue, Zenon
  <2>7. T[i][1] = T[x][1] \/ StrLess(T[i][1], T[x][1])
    BY <2>2, ValueOrder, Zenon
  <2>8. HasPrefix(T[i][1], p)
    BY <2>3, <2>5, <2>6, <2>7, PrefixConvex, Zenon
  <2> QED BY <2>2, <2>8, Zenon
<1>3. Rest(T, tree, V, limit, i) = {}
  BY <1>2, Zenon
<1>4. PrefixFrom(T, p, limit)[i] = <<>>
  <2>1. (i > Len(T) \/ ~HasPrefix(T[i][1], p)) => PrefixFrom(T, p, limit)[i] = <<>>
    BY PrefixWalk, Zenon
  <2> QED BY <2>1, Zenon
<1> QED BY <1>3, <1>4, EmptyLists, Zenon DEF Returns

LEMMA RestStep ==
    ASSUME NEW T, NEW tree, IsTree(T, tree), NEW p \in Strings, NEW limit \in Int, NEW V,
           \A e \in tree : e[1] \in V <=> HasPrefix(e[1], p),
           NEW i \in 1 .. Len(T), i = Seek(T, <<T[i][1], 0>>), HasPrefix(T[i][1], p),
           Returns(T, tree, V, p, limit, Seek(T, <<Successor(T[i][1]), 0>>))
    PROVE  Returns(T, tree, V, p, limit, i)
<1> DEFINE v == T[i][1]
           k == Seek(T, <<Successor(v), 0>>)
           A == Chosen(tree, {v}, limit)
           B == Rest(T, tree, V, limit, k)
           f == PrefixFrom(T, p, limit)
<1>1. Len(T) \in Nat /\ v \in Strings /\ T[i] \in tree /\ i \in 1 .. Len(T) + 1 /\ ~(i > Len(T))
  <2>1. Len(T) \in Nat /\ v \in Strings /\ T[i] \in tree
    BY TreeType, Zenon
  <2>2. i \in 1 .. Len(T) + 1 /\ ~(i > Len(T))
    BY <2>1
  <2> QED BY <2>1, <2>2
<1>2. GroupAt(T, v, i, k - 1)
  <2>1. GroupAt(T, v, Seek(T, <<v, 0>>), k - 1)
    BY <1>1, SeekGroup, Zenon
  <2> QED BY <2>1, Zenon
<1>3. k \in i + 1 .. Len(T) + 1 /\ NextGroup(T, i, limit) = k /\ GroupPks(T, i, limit) = Exact(T, v, limit)
  <2>1. NextGroup(T, i, limit) = k /\ NextGroup(T, i, limit) \in i + 1 .. Len(T) + 1
    BY GroupStep, Zenon
  <2>2. GroupPks(T, i, limit) = Exact(T, v, limit)
    BY GroupStep, Zenon
  <2> QED BY <2>1, <2>2, Zenon
<1>4. f[i] = Exact(T, v, limit) \o f[k]
  <2>1. f[i] = GroupPks(T, i, limit) \o f[NextGroup(T, i, limit)]
    BY <1>1, PrefixWalk, Zenon
  <2> QED BY <1>3, <2>1, Zenon
<1>5. PICK s : Lists(s, A, limit) /\ Exact(T, v, limit) = KeysOf(s)
  BY <1>1, ExactLists, Zenon DEF Gives
<1>6. PICK t : Lists(t, B, limit) /\ f[k] = KeysOf(t)
  BY Zenon DEF Returns
<1>7. v \in V
  BY <1>1, Zenon
<1> HIDE DEF f, k, v
<1>8. \A x \in 1 .. Len(T) : x \in i .. k - 1 <=> T[x][1] = v
  BY <1>2, Zenon DEF GroupAt
<1>9. /\ \A x \in i .. k - 1 : x \in 1 .. Len(T) /\ x \in i .. Len(T)
      /\ \A x \in k .. Len(T) : x \in 1 .. Len(T) /\ x \in i .. Len(T) /\ i <= x /\ x \notin i .. k - 1
      /\ \A x \in i .. Len(T) : x \in i .. k - 1 \/ x \in k .. Len(T)
  BY <1>1, <1>3
<1>10. ASSUME NEW a \in A, NEW b \in B PROVE Before(a, b, limit)
  <2>1. a[1] = v
    BY Zenon DEF Chosen
  <2>2. PICK x \in k .. Len(T) : T[x] = b
    BY Zenon DEF Rest
  <2>3. T[x][1] # v /\ x \in 1 .. Len(T) /\ i <= x
    BY <1>8, <1>9, <2>2, Zenon
  <2>4. StrLess(v, T[x][1])
    BY <2>3, ValueOrder, Zenon DEF v
  <2> QED BY <2>1, <2>2, <2>3, <2>4, Zenon DEF Before
<1>11. ASSUME NEW e PROVE e \in A <=> e \in Chosen(tree, V, limit) /\ e[1] = v
  BY <1>7, Zenon DEF Chosen
<1>12. \A e \in Chosen(tree, V, limit) : \E x \in 1 .. Len(T) : T[x] = e
  BY Zenon DEF Chosen, IsTree, Lists
<1>13. Rest(T, tree, V, limit, i) = A \cup B
  <2>1. ASSUME NEW e \in Rest(T, tree, V, limit, i) PROVE e \in A \cup B
    <3>1. PICK x \in i .. Len(T) : T[x] = e
      BY Zenon DEF Rest
    <3>2. e \in Chosen(tree, V, limit)
      BY <2>1, Zenon DEF Rest
    <3>3. CASE x \in i .. k - 1
      <4>1. e[1] = v
        BY <1>8, <1>9, <3>1, <3>3, Zenon
      <4> QED BY <1>11, <3>2, <4>1, Zenon
    <3>4. CASE x \in k .. Len(T)
      BY <3>1, <3>2, <3>4, Zenon DEF Rest
    <3> QED BY <1>9, <3>3, <3>4, Zenon
  <2>2. ASSUME NEW e \in B PROVE e \in Rest(T, tree, V, limit, i)
    BY <1>9, <2>2, Zenon DEF Rest
  <2>3. ASSUME NEW e \in A PROVE e \in Rest(T, tree, V, limit, i)
    <3>1. e \in Chosen(tree, V, limit) /\ e[1] = v
      BY <1>11, <2>3, Zenon
    <3>2. PICK x \in 1 .. Len(T) : T[x] = e
      BY <1>12, <3>1, Zenon
    <3>3. x \in i .. Len(T)
      BY <1>8, <1>9, <3>1, <3>2, Zenon
    <3> QED BY <3>1, <3>2, <3>3, Zenon DEF Rest
  <2> QED BY <2>1, <2>2, <2>3, Zenon
<1>14. Lists(s \o t, A \cup B, limit) /\ KeysOf(s \o t) = KeysOf(s) \o KeysOf(t)
  <2> HIDE DEF A, B
  <2> QED BY <1>5, <1>6, <1>10, ConcatLists, Zenon
<1>15. f[i] = KeysOf(s \o t)
  BY <1>4, <1>5, <1>6, <1>14, Zenon
<1> QED BY <1>13, <1>14, <1>15, Zenon DEF Returns, f

LEMMA PrefixLists ==
    ASSUME NEW T, NEW tree, IsTree(T, tree), NEW p \in Strings, NEW limit \in Int, NEW V,
           \A e \in tree : e[1] \in V <=> HasPrefix(e[1], p)
    PROVE  Gives(tree, V, limit, Prefix(T, p, limit))
<1> DEFINE Pos(u) == Seek(T, <<u, 0>>)
           Bad(z, u) == /\ u \in Strings /\ Pos(p) <= Pos(u) /\ z = Len(T) + 1 - Pos(u)
                        /\ ~Returns(T, tree, V, p, limit, Pos(u))
           M == {z \in Nat : \E u : Bad(z, u)}
<1>1. Len(T) \in Nat /\ \A u \in Strings : Pos(u) \in 1 .. Len(T) + 1
  BY TreeType, SeekValue, Zenon
<1>2. ASSUME M # {} PROVE FALSE
  <2>1. PICK m \in M : \A x \in M : m <= x
    BY <1>2, LeastNat, Zenon
  <2>2. PICK u : Bad(m, u)
    BY <2>1, Zenon
  <2> DEFINE i == Pos(u)
             v == T[i][1]
             k == Pos(Successor(v))
  <2>3. i \in 1 .. Len(T) + 1 /\ Pos(p) <= i /\ Pos(p) \in 1 .. Len(T) + 1
    BY <1>1, <2>2, Zenon
  <2>4. i \in 1 .. Len(T) /\ HasPrefix(v, p)
    <3>1. ~(i > Len(T)) /\ HasPrefix(v, p)
      BY <2>2, <2>3, RestStops, Zenon
    <3> HIDE DEF i
    <3>2. i \in 1 .. Len(T)
      BY <1>1, <2>3, <3>1
    <3> QED BY <3>1, <3>2
  <2>5. i = Seek(T, <<v, 0>>)
    BY <2>2, <2>4, SeekFirst, Zenon
  <2>6. Successor(v) \in Strings /\ k \in i + 1 .. Len(T) + 1
    <3>1. Successor(v) \in Strings
      BY <2>4, TreeType, SuccessorNext, Zenon
    <3>2. k \in i + 1 .. Len(T) + 1
      BY <2>4, GroupStep, Zenon
    <3> QED BY <3>1, <3>2
  <2>7. ~Returns(T, tree, V, p, limit, k)
    BY <2>2, <2>4, <2>5, RestStep, Zenon
  <2>8. m = Len(T) + 1 - i
    BY <2>2, Zenon
  <2>9. Pos(p) <= k /\ Len(T) + 1 - k \in Nat /\ ~(m <= Len(T) + 1 - k)
    <3> HIDE DEF i, k, Pos
    <3> QED BY <1>1, <2>3, <2>6, <2>8
  <2>10. Bad(Len(T) + 1 - k, Successor(v))
    BY <2>6, <2>7, <2>9, Zenon
  <2>11. Len(T) + 1 - k \in M
    <3> HIDE DEF Bad, k, v
    <3> QED BY <2>9, <2>10, Zenon
  <2> QED BY <2>1, <2>9, <2>11, Zenon
<1>3. Returns(T, tree, V, p, limit, Pos(p))
  <2> SUFFICES ASSUME ~Returns(T, tree, V, p, limit, Pos(p)) PROVE FALSE
    OBVIOUS
  <2>1. Pos(p) <= Pos(p) /\ Len(T) + 1 - Pos(p) \in Nat
    <3>1. Pos(p) \in 1 .. Len(T) + 1
      BY <1>1, Zenon
    <3> HIDE DEF Pos
    <3> QED BY <1>1, <3>1
  <2>2. Bad(Len(T) + 1 - Pos(p), p)
    BY <2>1, Zenon
  <2>3. Len(T) + 1 - Pos(p) \in M
    <3> HIDE DEF Bad, Pos
    <3> QED BY <2>1, <2>2, Zenon
  <2> QED BY <1>2, <2>3, Zenon
<1>4. Rest(T, tree, V, limit, Pos(p)) = Chosen(tree, V, limit)
  <2>1. ASSUME NEW e \in Chosen(tree, V, limit) PROVE e \in Rest(T, tree, V, limit, Pos(p))
    <3>1. e \in tree /\ HasPrefix(e[1], p)
      BY <2>1, Zenon DEF Chosen
    <3>2. PICK x \in 1 .. Len(T) : T[x] = e
      BY <3>1, Zenon DEF IsTree, Lists
    <3>3. T[x][1] \in Strings
      BY TreeType, Zenon
    <3>4. ~(x < Pos(p)) /\ Pos(p) \in 1 .. Len(T) + 1
      BY <1>1, <3>1, <3>2, <3>3, PrefixNotBelow, SeekValue, Zenon
    <3>5. x \in Pos(p) .. Len(T)
      <4> HIDE DEF Pos
      <4> QED BY <1>1, <3>4
    <3> QED BY <2>1, <3>2, <3>5, Zenon DEF Rest
  <2> QED BY <2>1, Zenon DEF Rest
<1>5. Prefix(T, p, limit) = PrefixFrom(T, p, limit)[Pos(p)]
  BY Zenon DEF Prefix
<1> QED BY <1>3, <1>4, <1>5, Zenon DEF Returns, Gives

-----------------------------------------------------------------------------
(* Every walk over an ordered tree returns what the reference says, for    *)
(* every finite tree and every limit.                                      *)
WalksMatch(tree, p) ==
    LET T == Ordered(tree) IN
    /\ Exists(T, p) <=> \E k \in QueryKeys : <<p, k>> \in tree
    /\ \A limit \in Limits :
         /\ Exact(T, p, limit) = Answer(tree, {p}, limit)
         /\ Prefix(T, p, limit) =
              Answer(tree, {v \in QueryVals : HasPrefix(v, p)}, limit)
    /\ \A hi \in Probes :
         RangeQuery(T, p, hi) =
           Answer(tree, {v \in QueryVals : ~StrLess(v, p) /\ ~StrLess(hi, v)}, 0)

LEMMA WalksCorrect ==
    ASSUME NEW tree \in Trees, NEW p \in Probes
    PROVE  WalksMatch(tree, p)
<1> DEFINE T == Ordered(tree)
<1>1. tree \in SUBSET (QueryVals \X QueryKeys)
  BY Zenon DEF Trees
<1>2. /\ Probes \subseteq Strings /\ QueryVals \subseteq Strings /\ QueryKeys \subseteq Nat \ {0}
      /\ \A limit \in Limits : limit \in Int
  BY QueryAssumption DEF Limits, Strings
<1>3. ASSUME NEW e \in tree
      PROVE  e \in Entries /\ e[2] # 0 /\ e[1] \in QueryVals /\ e[2] \in QueryKeys /\ e = <<e[1], e[2]>>
  <2>1. e \in QueryVals \X QueryKeys
    BY <1>1, Zenon
  <2>2. e[1] \in QueryVals /\ e[2] \in QueryKeys /\ e = <<e[1], e[2]>>
    BY <2>1
  <2>3. e \in Strings \X Nat /\ e[2] # 0
    BY <1>2, <2>2
  <2> QED BY <2>2, <2>3, Zenon DEF Entries
<1>4. IsFiniteSet(tree)
  <2>1. IsFiniteSet(QueryVals \X QueryKeys)
    BY QueryAssumption, FS_Product, Zenon
  <2> QED BY <1>1, <2>1, FS_Subset, Zenon
<1>5. IsTree(T, tree)
  BY <1>3, <1>4, OrderedLists, Zenon DEF IsTree
<1>6. tree \in SUBSET Entries
  BY <1>3, Zenon
<1> HIDE DEF T
<1>7. Exists(T, p) <=> \E k \in QueryKeys : <<p, k>> \in tree
  <2>1. Exists(T, p) <=> \E e \in tree : e[1] = p
    BY <1>2, <1>5, ExistsIs, Zenon
  <2>2. \A k \in QueryKeys : <<p, k>>[1] = p
    OBVIOUS
  <2>3. (\E e \in tree : e[1] = p) <=> \E k \in QueryKeys : <<p, k>> \in tree
    BY <1>3, <2>2, Zenon
  <2> QED BY <2>1, <2>3, Zenon
<1>8. ASSUME NEW limit \in Limits
      PROVE  /\ Exact(T, p, limit) = Answer(tree, {p}, limit)
             /\ Prefix(T, p, limit) = Answer(tree, {v \in QueryVals : HasPrefix(v, p)}, limit)
  <2> DEFINE V == {v \in QueryVals : HasPrefix(v, p)}
  <2>1. limit \in Int /\ p \in Strings
    BY <1>2, Zenon
  <2>2. Gives(tree, {p}, limit, Exact(T, p, limit))
    BY <1>5, <2>1, ExactLists, Zenon
  <2>3. \A e \in tree : e[1] \in V <=> HasPrefix(e[1], p)
    BY <1>3, Zenon
  <2> HIDE DEF V
  <2>4. Gives(tree, V, limit, Prefix(T, p, limit))
    BY <1>5, <2>1, <2>3, PrefixLists, Zenon
  <2>5. Exact(T, p, limit) = Answer(tree, {p}, limit) /\ Prefix(T, p, limit) = Answer(tree, V, limit)
    BY <1>6, <2>1, <2>2, <2>4, GivesAnswer, Zenon
  <2> QED BY <2>5, Zenon DEF V
<1>9. ASSUME NEW hi \in Probes
      PROVE  RangeQuery(T, p, hi) =
               Answer(tree, {v \in QueryVals : ~StrLess(v, p) /\ ~StrLess(hi, v)}, 0)
  <2> DEFINE V == {v \in QueryVals : ~StrLess(v, p) /\ ~StrLess(hi, v)}
  <2>1. p \in Strings /\ hi \in Strings
    BY <1>2, Zenon
  <2>2. InRange(tree, V, p, hi)
    BY <1>3, Zenon DEF InRange
  <2> HIDE DEF V
  <2>3. Gives(tree, V, 0, RangeQuery(T, p, hi))
    BY <1>5, <2>1, <2>2, RangeLists, Zenon
  <2>4. 0 \in Int
    OBVIOUS
  <2>5. RangeQuery(T, p, hi) = Answer(tree, V, 0)
    BY <1>6, <2>3, <2>4, GivesAnswer, Zenon
  <2> QED BY <2>5, Zenon DEF V
<1> QED BY <1>7, <1>8, <1>9, Zenon DEF T, WalksMatch

LEMMA WritesKeepTrees ==
    ASSUME entries \in Trees, NEW k \in QueryKeys
    PROVE  /\ Retracted(k) \in Trees
           /\ \A v \in QueryVals : Retracted(k) \cup {<<v, k>>} \in Trees
BY DEF Retracted, Trees

LEMMA ReplyIs ==
    ASSUME NEW op, NEW val, NEW arg, NEW res, Reply(op, val, arg, res)
    PROVE  /\ reply'.op = op /\ reply'.val = val /\ reply'.arg = arg /\ reply'.res = res
           /\ entries' = entries
BY DEF Reply

LEMMA NoReplyMatches == reply = NoReply => QueriesMatch
BY DEF NoReply, QueriesMatch

(* A query leaves the tree alone, and the walk it makes is the one that    *)
(* WalksCorrect is about.                                                  *)
LEMMA ReplyMatches ==
    ASSUME entries \in Trees, NEW p \in Probes,
           \/ ByIndexHas(p)
           \/ \E limit \in Limits : ByIndex(p, limit) \/ ByIndexPrefix(p, limit)
           \/ \E hi \in Probes : ByIndexRange(p, hi)
    PROVE  entries' \in Trees /\ QueriesMatch'
<1>1. WalksMatch(entries, p)
  BY WalksCorrect, Zenon
<1>2. ASSUME ByIndexHas(p) PROVE entries' \in Trees /\ QueriesMatch'
  <2>1. /\ reply'.op = "exists" /\ reply'.val = p /\ reply'.res = Exists(Ordered(entries), p)
        /\ entries' = entries
    BY <1>2, ReplyIs, Zenon DEF ByIndexHas
  <2>2. Exists(Ordered(entries), p) = (\E k \in QueryKeys : <<p, k>> \in entries)
    BY <1>1, Zenon DEF WalksMatch, Exists
  <2>3. reply'.op # "exact" /\ reply'.op # "prefix" /\ reply'.op # "range"
    BY <2>1
  <2> QED BY <2>1, <2>2, <2>3, Zenon DEF QueriesMatch
<1>3. ASSUME NEW limit \in Limits, ByIndex(p, limit) PROVE entries' \in Trees /\ QueriesMatch'
  <2>1. /\ reply'.op = "exact" /\ reply'.val = p /\ reply'.arg = limit
        /\ reply'.res = Exact(Ordered(entries), p, limit) /\ entries' = entries
    BY <1>3, ReplyIs, Zenon DEF ByIndex
  <2>2. Exact(Ordered(entries), p, limit) = Answer(entries, {p}, limit)
    BY <1>1, Zenon DEF WalksMatch
  <2>3. reply'.op # "exists" /\ reply'.op # "prefix" /\ reply'.op # "range"
    BY <2>1
  <2> QED BY <2>1, <2>2, <2>3, Zenon DEF QueriesMatch
<1>4. ASSUME NEW limit \in Limits, ByIndexPrefix(p, limit) PROVE entries' \in Trees /\ QueriesMatch'
  <2>1. /\ reply'.op = "prefix" /\ reply'.val = p /\ reply'.arg = limit
        /\ reply'.res = Prefix(Ordered(entries), p, limit) /\ entries' = entries
    BY <1>4, ReplyIs, Zenon DEF ByIndexPrefix
  <2>2. Prefix(Ordered(entries), p, limit)
          = Answer(entries, {v \in QueryVals : HasPrefix(v, p)}, limit)
    BY <1>1, Zenon DEF WalksMatch
  <2>3. reply'.op # "exact" /\ reply'.op # "exists" /\ reply'.op # "range"
    BY <2>1
  <2> QED BY <2>1, <2>2, <2>3, Zenon DEF QueriesMatch
<1>5. ASSUME NEW hi \in Probes, ByIndexRange(p, hi) PROVE entries' \in Trees /\ QueriesMatch'
  <2>1. /\ reply'.op = "range" /\ reply'.val = p /\ reply'.arg = hi
        /\ reply'.res = RangeQuery(Ordered(entries), p, hi) /\ entries' = entries
    BY <1>5, ReplyIs, Zenon DEF ByIndexRange
  <2>2. RangeQuery(Ordered(entries), p, hi)
          = Answer(entries, {v \in QueryVals : ~StrLess(v, p) /\ ~StrLess(hi, v)}, 0)
    BY <1>1, Zenon DEF WalksMatch
  <2>3. reply'.op # "exact" /\ reply'.op # "exists" /\ reply'.op # "prefix"
    BY <2>1
  <2> QED BY <2>1, <2>2, <2>3, Zenon DEF QueriesMatch
<1> QED BY <1>2, <1>3, <1>4, <1>5, Zenon

(* Every query returns what the doc comments promise, for every finite set *)
(* of strings and keys, every sequence of writes to the tree and every     *)
(* limit (secindex.go exact, exists, prefix, rangeQuery).                  *)
THEOREM QueriesCorrect == QuerySpec => []QueriesMatch
<1> DEFINE IInv == entries \in Trees /\ QueriesMatch
<1>1. QueryInit => IInv
  <2>1. {} \in Trees
    BY Zenon DEF Trees
  <2> QED BY <2>1, NoReplyMatches, Zenon DEF QueryInit
<1>2. IInv /\ [QueryNext]_queryVars => IInv'
  <2> SUFFICES ASSUME entries \in Trees, QueriesMatch, [QueryNext]_queryVars
               PROVE  entries' \in Trees /\ QueriesMatch'
    BY Zenon
  <2>1. reply' = NoReply => QueriesMatch'
    BY DEF NoReply, QueriesMatch
  <2>2. ASSUME NEW k \in QueryKeys, Unindex(k) \/ \E v \in QueryVals : Index(k, v)
        PROVE  entries' \in Trees /\ reply' = NoReply
    BY <2>2, WritesKeepTrees, Zenon DEF Unindex, Index, Write
  <2>3. CASE Return
    BY <2>1, <2>3, Zenon DEF Return
  <2>4. CASE UNCHANGED queryVars
    BY <2>4, Zenon DEF queryVars, QueriesMatch
  <2> QED BY <2>1, <2>2, <2>3, <2>4, ReplyMatches, Zenon DEF QueryNext
<1>3. IInv => QueriesMatch
  BY Zenon
<1> QED BY <1>1, <1>2, <1>3, PTL DEF QuerySpec

-----------------------------------------------------------------------------
(* The index n has its value on every record it should.                    *)
Covers(n, kind) ==
    \A k \in Keys : recs[k].live /\ recs[k].obj /\ n \in recs[k].has => recs[k].ix[n] = kind

Lingers(n) == \E k \in Keys : recs[k].ix[n] # NoVal

(* A Reindex that is not late is one of the open store, which knows its    *)
(* indexes without Extract as patchy; a record that is gone has no values. *)
ShapeInv ==
    /\ TypeOK
    /\ marking => open
    /\ open => Plain(decl) \subseteq patchy
    /\ \A k \in Keys, n \in Names : ~recs[k].live => recs[k].ix[n] = NoVal

(* meta.json, unless a late Reindex wrote it: it names every index that has*)
(* values on records, agrees with the open store, and what it calls        *)
(* complete is.                                                            *)
DiskInv ==
    ~astray => \A n \in Names :
        /\ Lingers(n) => meta[n].known
        /\ open /\ decl[n].on => meta[n].known /\ ~meta[n].dropped /\ meta[n].kind = decl[n].kind
        /\ open /\ ~decl[n].on /\ meta[n].known => meta[n].dropped
        /\ meta[n].known /\ ~meta[n].dropped /\ meta[n].complete /\ n \notin patchy
             => Covers(n, meta[n].kind)

(* The open store, unless it has read such a meta.json.                    *)
MemInv ==
    open /\ ~misled => \A n \in Names :
        /\ Lingers(n) => decl[n].on \/ n \in dropped
        /\ Trusted(n) /\ n \notin patchy => Covers(n, decl[n].kind)

(* What the rewrite of a Reindex has left for it to mark.                  *)
MarkInv ==
    marking => \A n \in Names :
        /\ Lingers(n) => decl[n].on
        /\ decl[n].extract => Covers(n, decl[n].kind)

SchemaInv == ShapeInv /\ DiskInv /\ MemInv /\ MarkInv

-----------------------------------------------------------------------------
LEMMA NoTypes ==
    NoRec \in Recs /\ NoMeta \in Metas /\ NoDecl \in Decls
<1>1. NoRec \in Recs /\ NoMeta \in Metas
  BY DEF NoRec, Recs, NoMeta, Metas, Kinds, NoVal
<1>2. \A n \in Names : NoDef \in Defs(n)
  BY Zenon DEF Defs
<1>3. NoDecl \in Decls
  BY <1>2, Zenon DEF Decls, NoDecl
<1> QED BY <1>1, <1>3, Zenon

LEMMA DeclType ==
    ASSUME NEW d \in Decls, NEW n \in Names
    PROVE  /\ d[n] \in [on: BOOLEAN, kind: Kinds, extract: BOOLEAN]
           /\ d[n].extract => d[n].on
<1>1. d[n] \in Defs(n)
  BY Zenon DEF Decls
<1>2. CASE d[n] = NoDef
  BY <1>1, <1>2 DEF NoDef, Kinds
<1>3. CASE d[n] # NoDef
  <2>1. d[n] \in [on: {TRUE}, kind: Kinds, extract: BOOLEAN]
    BY <1>1, <1>3, Zenon DEF Defs
  <2> QED BY <1>1, <2>1, Zenon
<1> QED BY <1>2, <1>3, Zenon

LEMMA MarkedType ==
    ASSUME NEW d \in Decls, NEW p
    PROVE  /\ Marked(d, p) \in [Names -> Metas]
           /\ \A n \in Names :
                /\ d[n].on => /\ Marked(d, p)[n].known /\ ~Marked(d, p)[n].dropped
                              /\ Marked(d, p)[n].kind = d[n].kind
                /\ ~d[n].on => ~Marked(d, p)[n].known
<1> DEFINE left == Left(d, p)
           m == Marked(d, p)
<1>1. ASSUME NEW n \in Names, d[n].on
      PROVE  m[n] \in Metas /\ m[n].known /\ ~m[n].dropped /\ m[n].kind = d[n].kind
  <2>1. d[n].kind \in Kinds /\ (n \notin left) \in BOOLEAN
    BY DeclType
  <2>2. m[n] = [known |-> TRUE, kind |-> d[n].kind, complete |-> n \notin left, dropped |-> FALSE]
    BY <1>1, Zenon DEF Marked
  <2> HIDE DEF left, m
  <2> QED BY <2>1, <2>2 DEF Metas
<1>2. ASSUME NEW n \in Names, ~d[n].on PROVE m[n] \in Metas /\ ~m[n].known
  <2>1. m[n] = NoMeta
    BY <1>2, Zenon DEF Marked
  <2> HIDE DEF m
  <2> QED BY <2>1, NoTypes DEF NoMeta
<1>3. m \in [Names -> Metas]
  <2>1. \A n \in Names : m[n] \in Metas
    BY <1>1, <1>2, Zenon
  <2> QED BY <2>1, Zenon DEF Marked
<1> QED BY <1>1, <1>2, <1>3, Zenon

(* The values that an open, a Put or a rewrite makes.                      *)
LEMMA RowTypes ==
    ASSUME TypeOK
    PROVE  /\ \A n \in Names : \A d \in Decls : d[n].on => Adopted(n, d[n]) \in Metas
           /\ \A n \in Names : SoftDropped(n) \in Metas
           /\ \A obj : \A has, given : BuildIndexValues(obj, has, given) \in [Names -> Kinds \cup {NoVal}]
           /\ \A k \in Keys : FilterIXKnown(recs[k]) \in [Names -> Kinds \cup {NoVal}]
           /\ \A k \in Keys : ReindexTransform(recs[k]) \in [Names -> Kinds \cup {NoVal}]
<1>0. /\ recs \in [Keys -> Recs] /\ meta \in [Names -> Metas] /\ decl \in Decls
  BY Zenon DEF TypeOK
<1>1. \A n \in Names : decl[n].kind \in Kinds
  BY <1>0, DeclType
<1>2. \A k \in Keys : \A n \in Names : recs[k].ix[n] \in Kinds \cup {NoVal}
  BY <1>0 DEF Recs
<1>3. \A n \in Names : meta[n] \in Metas
  BY <1>0, Zenon
<1>4. ASSUME NEW n \in Names, NEW d \in Decls PROVE Adopted(n, d[n]) \in Metas
  <2>1. d[n].kind \in Kinds /\ meta[n].complete \in BOOLEAN /\ (~HadData) \in BOOLEAN
    BY <1>3, <1>4, DeclType DEF Metas
  <2> QED BY <2>1, Zenon DEF Adopted, Carried, Metas
<1>5. ASSUME NEW n \in Names PROVE SoftDropped(n) \in Metas
  BY <1>3, <1>5, NoTypes, Zenon DEF SoftDropped, Metas
<1>6. \A obj : \A has, given : BuildIndexValues(obj, has, given) \in [Names -> Kinds \cup {NoVal}]
  BY <1>1, Zenon DEF BuildIndexValues
<1>7. \A k \in Keys : FilterIXKnown(recs[k]) \in [Names -> Kinds \cup {NoVal}]
  BY <1>2, Zenon DEF FilterIXKnown
<1>8. \A k \in Keys : ReindexTransform(recs[k]) \in [Names -> Kinds \cup {NoVal}]
  <2>1. \A k \in Keys : \A n \in Names : FilterIX(recs[k])[n] \in Kinds \cup {NoVal}
    BY <1>2, Zenon DEF FilterIX
  <2> QED BY <1>1, <2>1, Zenon DEF ReindexTransform
<1> QED BY <1>4, <1>5, <1>6, <1>7, <1>8, Zenon

(* A rewrite changes the index values of live records and nothing else.    *)
LEMMA RewriteType ==
    ASSUME TypeOK, NEW ix, \A k \in Keys : ix[k] \in [Names -> Kinds \cup {NoVal}], Rewritten(ix)
    PROVE  /\ recs' \in [Keys -> Recs]
           /\ \A k \in Keys :
                /\ recs'[k].live = recs[k].live /\ recs'[k].obj = recs[k].obj
                /\ recs'[k].has = recs[k].has
                /\ recs'[k].ix = IF recs[k].live THEN ix[k] ELSE recs[k].ix
<1>1. \A k \in Keys : recs[k] \in Recs
  BY Zenon DEF TypeOK
<1>2. recs' = [k \in Keys |-> IF recs[k].live THEN [recs[k] EXCEPT !.ix = ix[k]] ELSE recs[k]]
  BY Zenon DEF Rewritten
<1>3. ASSUME NEW k \in Keys
      PROVE  /\ recs'[k] \in Recs
             /\ recs'[k].live = recs[k].live /\ recs'[k].obj = recs[k].obj
             /\ recs'[k].has = recs[k].has
             /\ recs'[k].ix = IF recs[k].live THEN ix[k] ELSE recs[k].ix
  BY <1>1, <1>2, <1>3 DEF Recs
<1>4. \A k \in Keys : recs'[k] \in Recs
  BY <1>3, Zenon
<1>5. recs' \in [Keys -> Recs]
  <2>1. \A k \in Keys : (IF recs[k].live THEN [recs[k] EXCEPT !.ix = ix[k]] ELSE recs[k]) \in Recs
    BY <1>2, <1>4, Zenon
  <2> QED BY <1>2, <2>1, Zenon
<1> QED BY <1>3, <1>5, Zenon

-----------------------------------------------------------------------------
(* What one record becomes.                                                *)
LEMMA PutRecs ==
    ASSUME TypeOK, NEW k \in Keys, NEW obj, NEW has, NEW given, Put(k, obj, has, given)
    PROVE  /\ \A l \in Keys \ {k} : recs'[l] = recs[l]
           /\ recs'[k].live /\ recs'[k].obj = obj /\ recs'[k].has = has
           /\ \A n \in Names : recs'[k].ix[n] =
                IF obj /\ decl[n].on /\ n \in (IF decl[n].extract THEN has \cup given ELSE given)
                THEN decl[n].kind ELSE NoVal
<1>1. recs \in [Keys -> Recs]
  BY Zenon DEF TypeOK
<1>2. recs' = [recs EXCEPT ![k] = [live |-> TRUE, obj |-> obj, has |-> has,
                                   ix |-> BuildIndexValues(obj, has, given)]]
  BY Zenon DEF Put
<1>3. recs'[k] = [live |-> TRUE, obj |-> obj, has |-> has, ix |-> BuildIndexValues(obj, has, given)]
  BY <1>1, <1>2, Zenon
<1>4. \A l \in Keys \ {k} : recs'[l] = recs[l]
  BY <1>1, <1>2, Zenon
<1>5. /\ recs'[k].live /\ recs'[k].obj = obj /\ recs'[k].has = has
      /\ recs'[k].ix = BuildIndexValues(obj, has, given)
  BY <1>3
<1> QED BY <1>4, <1>5, Zenon DEF BuildIndexValues

LEMMA DeleteRecs ==
    ASSUME TypeOK, NEW k \in Keys, Delete(k)
    PROVE  /\ \A l \in Keys \ {k} : recs'[l] = recs[l]
           /\ ~recs'[k].live /\ \A n \in Names : recs'[k].ix[n] = NoVal
<1>1. recs \in [Keys -> Recs] /\ recs' = [recs EXCEPT ![k] = NoRec]
  BY Zenon DEF TypeOK, Delete
<1>2. recs'[k] = NoRec /\ \A l \in Keys \ {k} : recs'[l] = recs[l]
  BY <1>1, Zenon
<1>3. ~recs'[k].live /\ recs'[k].ix = [n \in Names |-> NoVal]
  BY <1>2 DEF NoRec
<1> QED BY <1>2, <1>3, Zenon

LEMMA CompactRecs ==
    ASSUME TypeOK, Compact
    PROVE  \A k \in Keys :
             /\ recs'[k].live = recs[k].live /\ recs'[k].obj = recs[k].obj
             /\ recs'[k].has = recs[k].has
             /\ \A n \in Names :
                  recs'[k].ix[n] = IF recs[k].live /\ ~decl[n].on /\ n \notin dropped
                                   THEN NoVal ELSE recs[k].ix[n]
<1>1. Rewritten([k \in Keys |-> FilterIXKnown(recs[k])])
  BY Zenon DEF Compact
<1>2. \A k \in Keys : [l \in Keys |-> FilterIXKnown(recs[l])][k] \in [Names -> Kinds \cup {NoVal}]
  BY RowTypes, Zenon
<1>3. \A k \in Keys :
        /\ recs'[k].live = recs[k].live /\ recs'[k].obj = recs[k].obj
        /\ recs'[k].has = recs[k].has
        /\ recs'[k].ix = IF recs[k].live THEN [l \in Keys |-> FilterIXKnown(recs[l])][k] ELSE recs[k].ix
  BY <1>1, <1>2, RewriteType, Zenon
<1>4. ASSUME NEW k \in Keys, NEW n \in Names
      PROVE  recs'[k].ix[n] = IF recs[k].live /\ ~decl[n].on /\ n \notin dropped
                              THEN NoVal ELSE recs[k].ix[n]
  <2>1. FilterIXKnown(recs[k])[n] = IF decl[n].on \/ n \in dropped THEN recs[k].ix[n] ELSE NoVal
    BY Zenon DEF FilterIXKnown
  <2>2. recs'[k].ix = IF recs[k].live THEN FilterIXKnown(recs[k]) ELSE recs[k].ix
    BY <1>3, Zenon
  <2> QED BY <2>1, <2>2, Zenon
<1> QED BY <1>3, <1>4, Zenon

LEMMA ReindexRecs ==
    ASSUME TypeOK, ReindexRewrite
    PROVE  \A k \in Keys :
             /\ recs'[k].live = recs[k].live /\ recs'[k].obj = recs[k].obj
             /\ recs'[k].has = recs[k].has
             /\ ~recs[k].live => recs'[k].ix = recs[k].ix
             /\ recs[k].live => \A n \in Names :
                  /\ decl[n].extract /\ n \in recs[k].has => recs'[k].ix[n] = decl[n].kind
                  /\ recs'[k].ix[n] # NoVal => decl[n].on
<1>0. decl \in Decls
  BY Zenon DEF TypeOK
<1>1. Rewritten([k \in Keys |-> ReindexTransform(recs[k])])
  BY Zenon DEF ReindexRewrite
<1>2. \A k \in Keys : [l \in Keys |-> ReindexTransform(recs[l])][k] \in [Names -> Kinds \cup {NoVal}]
  BY RowTypes, Zenon
<1>3. \A k \in Keys :
        /\ recs'[k].live = recs[k].live /\ recs'[k].obj = recs[k].obj
        /\ recs'[k].has = recs[k].has
        /\ recs'[k].ix = IF recs[k].live THEN [l \in Keys |-> ReindexTransform(recs[l])][k] ELSE recs[k].ix
  BY <1>1, <1>2, RewriteType, Zenon
<1>4. ASSUME NEW k \in Keys, NEW n \in Names, recs[k].live
      PROVE  /\ decl[n].extract /\ n \in recs[k].has => recs'[k].ix[n] = decl[n].kind
             /\ recs'[k].ix[n] # NoVal => decl[n].on
  <2>1. recs'[k].ix[n] = IF decl[n].extract /\ n \in recs[k].has
                         THEN decl[n].kind ELSE FilterIX(recs[k])[n]
    BY <1>3, <1>4, Zenon DEF ReindexTransform
  <2>2. FilterIX(recs[k])[n] # NoVal => decl[n].on
    BY Zenon DEF FilterIX
  <2>3. decl[n].extract => decl[n].on
    BY <1>0, DeclType, Zenon
  <2> QED BY <2>1, <2>2, <2>3, Zenon
<1> QED BY <1>3, <1>4, Zenon

-----------------------------------------------------------------------------
(* The steps that leave the schema alone, and those that do not.           *)
Writes == (\E k \in Keys : Delete(k)) \/ Compact
          \/ \E k \in Keys, obj \in BOOLEAN, has, given \in SUBSET Names : Put(k, obj, has, given)

LEMMA WritesKeep == Writes => open /\ UNCHANGED <<schema, jobs, history>>
BY Zenon DEF Writes, Delete, Compact, Put

LEMMA OpenFacts ==
    ASSUME TypeOK, NEW d \in Decls, Open(d)
    PROVE  /\ ~open /\ open' = TRUE /\ decl' = d /\ misled' = astray
           /\ UNCHANGED <<recs, marking, late, astray>>
           /\ patchy' = Plain(d) \cup {n \in patchy : d[n].on /\ Carried(n, d[n])}
           /\ meta' \in [Names -> Metas]
           /\ prospective' = {n \in Names : d[n].on /\ ~meta'[n].complete}
           /\ dropped' = {n \in Names : ~d[n].on /\ meta'[n].known}
           /\ \A n \in Names :
                /\ d[n].on => meta'[n] = Adopted(n, d[n])
                /\ ~d[n].on => meta'[n] = SoftDropped(n)
<1> DEFINE m == [n \in Names |-> IF d[n].on THEN Adopted(n, d[n]) ELSE SoftDropped(n)]
<1>1. /\ ~open /\ open' = TRUE /\ decl' = d /\ misled' = astray /\ AdoptSchema(d)
      /\ UNCHANGED <<recs, marking, late, astray>>
      /\ patchy' = Plain(d) \cup {n \in patchy : d[n].on /\ Carried(n, d[n])}
  BY Zenon DEF Open, jobs
<1>2. m \in [Names -> Metas]
  BY RowTypes, Zenon
<1>3. /\ meta' = m
      /\ prospective' = {n \in Names : d[n].on /\ ~m[n].complete}
      /\ dropped' = {n \in Names : ~d[n].on /\ m[n].known}
  BY <1>1, Zenon DEF AdoptSchema
<1>4. \A n \in Names : /\ d[n].on => m[n] = Adopted(n, d[n])
                       /\ ~d[n].on => m[n] = SoftDropped(n)
  BY Zenon
<1> HIDE DEF m
<1> QED BY <1>1, <1>2, <1>3, <1>4, Zenon

(* What meta.json becomes for an index.                                    *)
LEMMA AdoptedFields ==
    ASSUME NEW n, NEW d
    PROVE  /\ Adopted(n, d).known /\ ~Adopted(n, d).dropped /\ Adopted(n, d).kind = d.kind
           /\ Adopted(n, d).complete = IF Carried(n, d) THEN meta[n].complete ELSE ~HadData
BY DEF Adopted

LEMMA SoftDroppedFields ==
    ASSUME TypeOK, NEW n \in Names
    PROVE  /\ SoftDropped(n).known => SoftDropped(n).dropped
           /\ meta[n].known => SoftDropped(n).known
<1>1. meta[n] \in Metas
  BY Zenon DEF TypeOK
<1> QED BY <1>1 DEF Metas, SoftDropped, NoMeta

(* What the open store writes carries values of its declared indexes only. *)
LEMMA WritesLinger ==
    ASSUME TypeOK, Writes, NEW n \in Names, Lingers(n)'
    PROVE  Lingers(n) \/ decl[n].on
<1> PICK l \in Keys : recs'[l].ix[n] # NoVal
  BY Zenon DEF Lingers
<1>1. ASSUME NEW k \in Keys, NEW obj \in BOOLEAN, NEW has \in SUBSET Names, NEW given \in SUBSET Names,
             Put(k, obj, has, given)
      PROVE  Lingers(n) \/ decl[n].on
  <2>1. /\ \A m \in Keys \ {k} : recs'[m] = recs[m]
        /\ recs'[k].ix[n] # NoVal => decl[n].on
    BY <1>1, PutRecs, Zenon
  <2> QED BY <2>1, Zenon DEF Lingers
<1>2. ASSUME NEW k \in Keys, Delete(k) PROVE Lingers(n)
  BY <1>2, DeleteRecs, Zenon DEF Lingers
<1>3. CASE Compact
  <2>1. recs'[l].ix[n] \in {NoVal, recs[l].ix[n]}
    BY <1>3, CompactRecs, Zenon
  <2> QED BY <2>1, Zenon DEF Lingers
<1> QED BY <1>1, <1>2, <1>3, Zenon DEF Writes

(* A write by the open store keeps what its declared indexes cover.        *)
LEMMA CoversKept ==
    ASSUME TypeOK, NEW n \in Names, decl[n].on, decl[n].extract,
           Covers(n, decl[n].kind), Writes
    PROVE  Covers(n, decl[n].kind)'
<1>0. decl' = decl
  BY WritesKeep, Zenon DEF schema
<1> SUFFICES ASSUME NEW l \in Keys, recs'[l].live, recs'[l].obj, n \in recs'[l].has
             PROVE  recs'[l].ix[n] = decl[n].kind
  BY <1>0, Zenon DEF Covers
<1>1. ASSUME NEW k \in Keys, NEW obj \in BOOLEAN, NEW has \in SUBSET Names, NEW given \in SUBSET Names,
             Put(k, obj, has, given)
      PROVE  recs'[l].ix[n] = decl[n].kind
  <2>0. /\ \A m \in Keys \ {k} : recs'[m] = recs[m]
        /\ recs'[k].obj = obj /\ recs'[k].has = has
        /\ \A m \in Names : recs'[k].ix[m] =
                IF obj /\ decl[m].on /\ m \in (IF decl[m].extract THEN has \cup given ELSE given)
                THEN decl[m].kind ELSE NoVal
    BY <1>1, PutRecs
  <2>1. CASE l = k
    <3>1. /\ recs'[k].obj = obj /\ recs'[k].has = has
          /\ recs'[k].ix[n] =
                IF obj /\ decl[n].on /\ n \in (IF decl[n].extract THEN has \cup given ELSE given)
                THEN decl[n].kind ELSE NoVal
      BY <2>0, Zenon
    <3>2. decl[n].extract /\ n \in has \cup given /\ obj
      BY <2>1, <3>1, Zenon
    <3> QED BY <2>1, <3>1, <3>2, Zenon
  <2>2. CASE l # k
    <3>1. recs'[l] = recs[l]
      BY <2>0, <2>2, Zenon
    <3> QED BY <3>1, Zenon DEF Covers
  <2> QED BY <2>1, <2>2, Zenon
<1>2. ASSUME NEW k \in Keys, Delete(k) PROVE recs'[l].ix[n] = decl[n].kind
  <2>1. l # k /\ recs'[l] = recs[l]
    BY <1>2, DeleteRecs, Zenon
  <2> QED BY <2>1, Zenon DEF Covers
<1>3. CASE Compact
  <2>1. /\ recs'[l].live = recs[l].live /\ recs'[l].obj = recs[l].obj /\ recs'[l].has = recs[l].has
        /\ recs'[l].ix[n] = recs[l].ix[n]
    BY <1>3, CompactRecs, Zenon
  <2> QED BY <2>1, Zenon DEF Covers
<1> QED BY <1>1, <1>2, <1>3, Zenon DEF Writes

(* A Reindex covers every Extract index of the schema it works on.         *)
LEMMA ReindexCovers ==
    ASSUME TypeOK, ReindexRewrite, NEW n \in Names, decl[n].extract
    PROVE  Covers(n, decl[n].kind)'
<1>1. \A k \in Keys : /\ recs'[k].live = recs[k].live /\ recs'[k].has = recs[k].has
                      /\ recs[k].live /\ n \in recs[k].has => recs'[k].ix[n] = decl[n].kind
  BY ReindexRecs, Zenon
<1>2. decl' = decl
  BY Zenon DEF ReindexRewrite, schema
<1> QED BY <1>1, <1>2, Zenon DEF Covers

LEMMA ReindexLingers ==
    ASSUME ShapeInv, ReindexRewrite, NEW n \in Names, Lingers(n)'
    PROVE  decl[n].on
<1> PICK l \in Keys : recs'[l].ix[n] # NoVal
  BY Zenon DEF Lingers
<1>1. /\ ~recs[l].live => recs'[l].ix = recs[l].ix
      /\ recs[l].live /\ recs'[l].ix[n] # NoVal => decl[n].on
  BY ReindexRecs, Zenon DEF ShapeInv
<1> QED BY <1>1, Zenon DEF ShapeInv

-----------------------------------------------------------------------------
LEMMA InitSchema == Init => SchemaInv
<1> SUFFICES ASSUME Init PROVE SchemaInv
  OBVIOUS
<1>1. recs \in [Keys -> Recs] /\ meta \in [Names -> Metas] /\ decl \in Decls
  BY NoTypes, Zenon DEF Init
<1>2. /\ prospective = {} /\ dropped = {} /\ open = FALSE /\ marking = FALSE /\ late = {}
      /\ astray = FALSE /\ misled = FALSE /\ patchy = {}
      /\ \A k \in Keys : recs[k] = NoRec
  BY Zenon DEF Init
<1>3. \A k \in Keys : ~recs[k].live /\ recs[k].ix = [n \in Names |-> NoVal]
  BY <1>2 DEF NoRec
<1>4. TypeOK
  BY <1>1, <1>2, Zenon DEF TypeOK
<1> QED BY <1>2, <1>3, <1>4, Zenon
        DEF SchemaInv, ShapeInv, DiskInv, MemInv, MarkInv, Lingers, Covers

(* Types and shape, action by action.                                      *)
LEMMA ShapeStep == ShapeInv /\ [Next]_vars => ShapeInv'
<1> SUFFICES ASSUME ShapeInv, [Next]_vars PROVE ShapeInv'
  OBVIOUS
<1>0. /\ TypeOK /\ (marking => open) /\ (open => Plain(decl) \subseteq patchy)
      /\ \A k \in Keys, n \in Names : ~recs[k].live => recs[k].ix[n] = NoVal
      /\ recs \in [Keys -> Recs] /\ meta \in [Names -> Metas] /\ decl \in Decls
      /\ prospective \subseteq {n \in Names : decl[n].on}
      /\ dropped \subseteq {n \in Names : ~decl[n].on} /\ open \in BOOLEAN
      /\ marking \in BOOLEAN /\ late \subseteq [Names -> Metas]
      /\ astray \in BOOLEAN /\ misled \in BOOLEAN /\ patchy \subseteq Names
  BY Zenon DEF ShapeInv, TypeOK
<1>a. TypeOK /\ \A k \in Keys, n \in Names : ~recs[k].live => recs[k].ix[n] = NoVal
  BY <1>0, Zenon
<1>1. ASSUME NEW d \in Decls, Open(d) PROVE ShapeInv'
  <2>1. /\ ~open /\ open' = TRUE /\ decl' = d /\ misled' = astray
        /\ UNCHANGED <<recs, marking, late, astray>>
        /\ patchy' = Plain(d) \cup {n \in patchy : d[n].on /\ Carried(n, d[n])}
        /\ meta' \in [Names -> Metas]
        /\ prospective' = {n \in Names : d[n].on /\ ~meta'[n].complete}
        /\ dropped' = {n \in Names : ~d[n].on /\ meta'[n].known}
    BY <1>0, <1>1, OpenFacts, Zenon
  <2>2. /\ prospective' \subseteq {n \in Names : d[n].on}
        /\ dropped' \subseteq {n \in Names : ~d[n].on}
    BY <2>1, Zenon
  <2>3. patchy' \subseteq Names /\ Plain(d) \subseteq patchy' /\ Plain(decl') = Plain(d)
    BY <1>0, <2>1, Zenon DEF Plain
  <2>4. TypeOK'
    BY <1>0, <2>1, <2>2, <2>3, Zenon DEF TypeOK
  <2> QED BY <1>0, <2>1, <2>3, <2>4, Zenon DEF ShapeInv
<1>2. CASE Close \/ Crash
  <2>1. /\ open' = FALSE /\ marking' = FALSE /\ misled' = FALSE /\ decl' = NoDecl
        /\ prospective' = {} /\ dropped' = {} /\ UNCHANGED <<recs, meta, astray, patchy>>
    BY <1>2, Zenon DEF Close, Crash, Gone
  <2>2. Marked(decl, prospective) \in [Names -> Metas]
    BY <1>0, MarkedType
  <2>3. late' \subseteq [Names -> Metas]
    BY <1>0, <1>2, <2>2, Zenon DEF Close, Crash
  <2>4. TypeOK'
    BY <1>0, <2>1, <2>3, NoTypes, Zenon DEF TypeOK
  <2> QED BY <1>0, <2>1, <2>4, Zenon DEF ShapeInv
<1>3. CASE Writes
  <2>1. /\ UNCHANGED <<meta, decl, prospective, dropped, open, marking, late, astray, misled, patchy>>
    BY <1>3, WritesKeep, Zenon DEF schema, jobs, history
  <2>2. /\ recs' \in [Keys -> Recs]
        /\ \A k \in Keys, n \in Names : ~recs'[k].live => recs'[k].ix[n] = NoVal
    <3>1. ASSUME NEW k \in Keys, NEW obj \in BOOLEAN, NEW has \in SUBSET Names, NEW given \in SUBSET Names,
                 Put(k, obj, has, given)
          PROVE  /\ recs' \in [Keys -> Recs]
                 /\ \A l \in Keys, n \in Names : ~recs'[l].live => recs'[l].ix[n] = NoVal
      <4>1. recs' = [recs EXCEPT ![k] = [live |-> TRUE, obj |-> obj, has |-> has,
                                         ix |-> BuildIndexValues(obj, has, given)]]
        BY <3>1, Zenon DEF Put
      <4>2. [live |-> TRUE, obj |-> obj, has |-> has, ix |-> BuildIndexValues(obj, has, given)] \in Recs
        BY <1>0, RowTypes, Zenon DEF Recs
      <4>3. recs' \in [Keys -> Recs]
        BY <1>0, <4>1, <4>2, Zenon
      <4>4. recs'[k].live /\ \A l \in Keys \ {k} : recs'[l] = recs[l]
        BY <1>0, <3>1, PutRecs, Zenon
      <4> QED BY <1>0, <4>3, <4>4, Zenon
    <3>2. ASSUME NEW k \in Keys, Delete(k)
          PROVE  /\ recs' \in [Keys -> Recs]
                 /\ \A l \in Keys, n \in Names : ~recs'[l].live => recs'[l].ix[n] = NoVal
      <4>1. recs' \in [Keys -> Recs]
        BY <1>0, <3>2, NoTypes, Zenon DEF Delete
      <4>2. (\A n \in Names : recs'[k].ix[n] = NoVal) /\ \A l \in Keys \ {k} : recs'[l] = recs[l]
        BY <1>a, <3>2, DeleteRecs, Zenon
      <4> QED BY <1>a, <4>1, <4>2, Zenon
    <3>3. CASE Compact
      <4>1. Rewritten([k \in Keys |-> FilterIXKnown(recs[k])])
        BY <3>3, Zenon DEF Compact
      <4>2. \A k \in Keys : [l \in Keys |-> FilterIXKnown(recs[l])][k] \in [Names -> Kinds \cup {NoVal}]
        BY <1>0, RowTypes, Zenon
      <4>3. recs' \in [Keys -> Recs]
        BY <1>0, <4>1, <4>2, RewriteType, Zenon
      <4>4. \A k \in Keys : /\ recs'[k].live = recs[k].live
                            /\ \A n \in Names : recs'[k].ix[n] \in {NoVal, recs[k].ix[n]}
        BY <1>a, <3>3, CompactRecs, Zenon
      <4>5. ASSUME NEW k \in Keys, NEW n \in Names, ~recs'[k].live PROVE recs'[k].ix[n] = NoVal
        <5>1. ~recs[k].live /\ recs'[k].ix[n] \in {NoVal, recs[k].ix[n]}
          BY <4>4, <4>5, Zenon
        <5>2. recs[k].ix[n] = NoVal
          BY <1>0, <5>1, Zenon
        <5> QED BY <5>1, <5>2, Zenon
      <4> QED BY <4>3, <4>5, Zenon
    <3> QED BY <1>3, <3>1, <3>2, <3>3, Zenon DEF Writes
  <2>3. TypeOK'
    BY <1>0, <2>1, <2>2, Zenon DEF TypeOK
  <2> QED BY <1>0, <2>1, <2>2, <2>3, Zenon DEF ShapeInv, Plain
<1>4. CASE ReindexRewrite
  <2>1. /\ Rewritten([k \in Keys |-> ReindexTransform(recs[k])]) /\ open /\ marking' = TRUE
        /\ UNCHANGED <<meta, decl, prospective, dropped, open, late, astray, misled, patchy>>
    BY <1>4, Zenon DEF ReindexRewrite, schema, history
  <2>2. \A k \in Keys : [l \in Keys |-> ReindexTransform(recs[l])][k] \in [Names -> Kinds \cup {NoVal}]
    BY <1>0, RowTypes, Zenon
  <2>3. recs' \in [Keys -> Recs]
    BY <1>0, <2>1, <2>2, RewriteType, Zenon
  <2>4. \A k \in Keys : recs'[k].live = recs[k].live /\ (~recs[k].live => recs'[k].ix = recs[k].ix)
    BY <1>0, <1>4, ReindexRecs, Zenon
  <2>5. TypeOK'
    BY <1>0, <2>1, <2>3, Zenon DEF TypeOK
  <2> QED BY <1>0, <2>1, <2>4, <2>5, Zenon DEF ShapeInv, Plain
<1>5. CASE MarkReindexed
  <2>1. /\ meta' \in {meta, Marked(decl, prospective)} /\ astray' \in {astray, FALSE}
        /\ prospective' = Left(decl, prospective) /\ dropped' = {} /\ marking' \in BOOLEAN
        /\ misled' = FALSE /\ patchy' = Plain(decl) /\ open /\ UNCHANGED <<recs, decl, open, late>>
    BY <1>5, Zenon DEF MarkReindexed
  <2>2. Marked(decl, prospective) \in [Names -> Metas]
    BY <1>0, MarkedType
  <2>3. /\ meta' \in [Names -> Metas] /\ astray' \in BOOLEAN
        /\ prospective' \subseteq {n \in Names : decl[n].on}
        /\ patchy' \subseteq Names /\ Plain(decl') = Plain(decl)
    BY <1>0, <2>1, <2>2, Zenon DEF Left, Plain
  <2>4. TypeOK'
    BY <1>0, <2>1, <2>3, Zenon DEF TypeOK
  <2> QED BY <1>0, <2>1, <2>3, <2>4, Zenon DEF ShapeInv
<1>6. ASSUME NEW m \in late, MarkLate(m) PROVE ShapeInv'
  <2>1. /\ meta' = m /\ astray' = TRUE /\ late' \in {late, late \ {m}}
        /\ UNCHANGED <<recs, decl, prospective, dropped, open, marking, misled, patchy>>
    BY <1>6, Zenon DEF MarkLate
  <2>2. meta' \in [Names -> Metas] /\ late' \subseteq [Names -> Metas]
    BY <1>0, <2>1, Zenon
  <2>3. TypeOK'
    BY <1>0, <2>1, <2>2, Zenon DEF TypeOK
  <2> QED BY <1>0, <2>1, <2>3, Zenon DEF ShapeInv, Plain
<1>7. CASE UNCHANGED vars
  BY <1>0, <1>7, Zenon DEF ShapeInv, TypeOK, Plain, vars, schema, jobs, history
<1> QED BY <1>1, <1>2, <1>3, <1>4, <1>5, <1>6, <1>7, Zenon DEF Next, Writes

(* The variables keep their types, and the lists of prospective and of     *)
(* soft-dropped indexes stay within the declared and the undeclared ones,  *)
(* also when a Reindex ends on a store that was closed meanwhile           *)
(* (adoptSchema, markReindexed).                                           *)
THEOREM SchemaTypeCorrect == Spec => []TypeOK
<1>1. Init => ShapeInv
  BY InitSchema, Zenon DEF SchemaInv
<1>2. ShapeInv => TypeOK
  BY Zenon DEF ShapeInv
<1> QED BY <1>1, <1>2, ShapeStep, PTL DEF Spec

-----------------------------------------------------------------------------
(* The three invariants, one lemma for each kind of step.                  *)
LEMMA OpenKeeps ==
    ASSUME SchemaInv, NEW d \in Decls, Open(d)
    PROVE  DiskInv' /\ MemInv' /\ MarkInv'
<1>0. /\ TypeOK /\ (marking => open)
  BY Zenon DEF SchemaInv, ShapeInv
<1>1. /\ ~open /\ decl' = d /\ misled' = astray /\ UNCHANGED <<recs, marking, astray>>
      /\ patchy' = Plain(d) \cup {n \in patchy : d[n].on /\ Carried(n, d[n])}
      /\ prospective' = {n \in Names : d[n].on /\ ~meta'[n].complete}
      /\ dropped' = {n \in Names : ~d[n].on /\ meta'[n].known}
  BY <1>0, OpenFacts, Zenon
<1>2. \A n \in Names : /\ d[n].on => meta'[n] = Adopted(n, d[n])
                       /\ ~d[n].on => meta'[n] = SoftDropped(n)
  BY <1>0, OpenFacts, Zenon
<1>3. ASSUME NEW n \in Names
      PROVE  /\ d[n].on => meta'[n].known /\ ~meta'[n].dropped /\ meta'[n].kind = d[n].kind
             /\ ~d[n].on /\ meta'[n].known => meta'[n].dropped
             /\ meta[n].known => meta'[n].known
  <2>1. CASE d[n].on
    <3>1. meta'[n] = Adopted(n, d[n])
      BY <1>2, <2>1, Zenon
    <3> QED BY <2>1, <3>1, AdoptedFields
  <2>2. CASE ~d[n].on
    <3>1. meta'[n] = SoftDropped(n)
      BY <1>2, <2>2, Zenon
    <3> QED BY <1>0, <2>2, <3>1, SoftDroppedFields, Zenon
  <2> QED BY <2>1, <2>2, Zenon
<1>4. ASSUME NEW n \in Names, ~astray, d[n].on, meta'[n].complete, n \notin patchy'
      PROVE  Covers(n, d[n].kind)
  <2>1. meta'[n].complete = IF Carried(n, d[n]) THEN meta[n].complete ELSE ~HadData
    <3>1. meta'[n] = Adopted(n, d[n])
      BY <1>2, <1>4, Zenon
    <3> QED BY <3>1, AdoptedFields
  <2>2. CASE Carried(n, d[n])
    <3>1. n \notin patchy
      BY <1>1, <1>4, <2>2, Zenon
    <3>2. meta[n].known /\ meta[n].kind = d[n].kind /\ ~meta[n].dropped /\ meta[n].complete
      BY <1>4, <2>1, <2>2, Zenon DEF Carried
    <3> QED BY <1>4, <3>1, <3>2, Zenon DEF SchemaInv, DiskInv
  <2>3. CASE ~Carried(n, d[n])
    <3>1. ~HadData
      BY <1>4, <2>1, <2>3, Zenon
    <3> QED BY <3>1, Zenon DEF HadData, Covers
  <2> QED BY <2>2, <2>3, Zenon
<1>5. ASSUME NEW n \in Names, ~astray, Lingers(n) PROVE meta'[n].known
  BY <1>3, <1>5, Zenon DEF SchemaInv, DiskInv
<1>6. DiskInv'
  <2> SUFFICES ASSUME ~astray', NEW n \in Names
               PROVE  /\ Lingers(n)' => meta'[n].known
                      /\ decl'[n].on => meta'[n].known /\ ~meta'[n].dropped /\ meta'[n].kind = decl'[n].kind
                      /\ ~decl'[n].on /\ meta'[n].known => meta'[n].dropped
                      /\ meta'[n].known /\ ~meta'[n].dropped /\ meta'[n].complete /\ n \notin patchy'
                           => Covers(n, meta[n].kind)'
    BY Zenon DEF DiskInv
  <2>1. Lingers(n)' => Lingers(n)
    BY <1>1, Zenon DEF Lingers
  <2>2. Covers(n, d[n].kind) => Covers(n, d[n].kind)'
    BY <1>1, Zenon DEF Covers
  <2>3. ASSUME meta'[n].known, ~meta'[n].dropped, meta'[n].complete, n \notin patchy'
        PROVE  Covers(n, meta[n].kind)'
    <3>1. d[n].on /\ meta'[n].kind = d[n].kind
      BY <1>3, <2>3, Zenon
    <3>2. Covers(n, d[n].kind)'
      BY <1>1, <1>4, <2>2, <2>3, <3>1, Zenon
    <3> QED BY <1>1, <3>1, <3>2, Zenon DEF Covers
  <2> QED BY <1>1, <1>3, <1>5, <2>1, <2>3, Zenon
<1>7. MemInv'
  <2> SUFFICES ASSUME ~misled', NEW n \in Names
               PROVE  /\ Lingers(n)' => d[n].on \/ n \in dropped'
                      /\ d[n].on /\ n \notin prospective' /\ n \notin patchy' => Covers(n, d[n].kind)
    BY <1>1, Zenon DEF MemInv, Trusted, Covers
  <2>1. Lingers(n)' => Lingers(n)
    BY <1>1, Zenon DEF Lingers
  <2> QED BY <1>1, <1>4, <1>5, <2>1, Zenon
<1>8. MarkInv'
  BY <1>0, <1>1, Zenon DEF MarkInv
<1> QED BY <1>6, <1>7, <1>8, Zenon

LEMMA WriteKeeps ==
    ASSUME SchemaInv, Writes \/ ReindexRewrite
    PROVE  DiskInv' /\ MemInv' /\ MarkInv'
<1>0. /\ ShapeInv /\ TypeOK /\ decl \in Decls
  BY Zenon DEF SchemaInv, ShapeInv, TypeOK
<1>1. open /\ UNCHANGED <<meta, decl, prospective, dropped, open, astray, misled, patchy>>
  BY WritesKeep, Zenon DEF ReindexRewrite, schema, history
<1>2. ASSUME NEW n \in Names, Lingers(n)'
      PROVE  (Writes /\ Lingers(n)) \/ decl[n].on
  BY <1>0, <1>2, WritesLinger, ReindexLingers, Zenon
<1>3. ASSUME NEW n \in Names, decl[n].extract, Covers(n, decl[n].kind) \/ ReindexRewrite
      PROVE  Covers(n, decl[n].kind)'
  <2>1. decl[n].on
    BY <1>0, <1>3, DeclType, Zenon
  <2> QED BY <1>0, <1>3, <2>1, CoversKept, ReindexCovers, Zenon
<1>4. ASSUME NEW n \in Names, decl[n].on, n \notin patchy PROVE decl[n].extract
  BY <1>0, <1>1, <1>4, Zenon DEF ShapeInv, Plain
<1>5. DiskInv'
  <2> SUFFICES ASSUME ~astray, NEW n \in Names
               PROVE  /\ Lingers(n)' => meta[n].known
                      /\ decl[n].on => meta[n].known /\ ~meta[n].dropped /\ meta[n].kind = decl[n].kind
                      /\ ~decl[n].on /\ meta[n].known => meta[n].dropped
                      /\ meta[n].known /\ ~meta[n].dropped /\ meta[n].complete /\ n \notin patchy
                           => Covers(n, meta[n].kind)'
    BY <1>1, Zenon DEF DiskInv, Covers
  <2>1. /\ Lingers(n) => meta[n].known
        /\ decl[n].on => meta[n].known /\ ~meta[n].dropped /\ meta[n].kind = decl[n].kind
        /\ ~decl[n].on /\ meta[n].known => meta[n].dropped
        /\ meta[n].known /\ ~meta[n].dropped /\ meta[n].complete /\ n \notin patchy
             => Covers(n, meta[n].kind)
    BY <1>1, Zenon DEF SchemaInv, DiskInv
  <2>2. ASSUME meta[n].known, ~meta[n].dropped, meta[n].complete, n \notin patchy
        PROVE  Covers(n, meta[n].kind)'
    <3>1. decl[n].on /\ meta[n].kind = decl[n].kind /\ decl[n].extract
      BY <1>4, <2>1, <2>2, Zenon
    <3>2. Covers(n, decl[n].kind)
      BY <2>1, <2>2, <3>1, Zenon
    <3>3. Covers(n, decl[n].kind)'
      BY <1>3, <3>1, <3>2, Zenon
    <3> QED BY <1>1, <3>1, <3>3, Zenon DEF Covers
  <2> QED BY <1>2, <2>1, <2>2, Zenon
<1>6. MemInv'
  <2> SUFFICES ASSUME ~misled, NEW n \in Names
               PROVE  /\ Lingers(n)' => decl[n].on \/ n \in dropped
                      /\ Trusted(n) /\ n \notin patchy => Covers(n, decl[n].kind)'
    BY <1>1, Zenon DEF MemInv, Trusted
  <2>1. /\ Lingers(n) => decl[n].on \/ n \in dropped
        /\ Trusted(n) /\ n \notin patchy => Covers(n, decl[n].kind)
    BY <1>1, Zenon DEF SchemaInv, MemInv
  <2> QED BY <1>2, <1>3, <2>1, Zenon DEF Trusted
<1>7. MarkInv'
  <2> SUFFICES ASSUME marking', NEW n \in Names
               PROVE  /\ Lingers(n)' => decl[n].on
                      /\ decl[n].extract => Covers(n, decl[n].kind)'
    BY <1>1, Zenon DEF MarkInv
  <2>1. Writes => marking
    BY WritesKeep, Zenon DEF jobs
  <2>2. marking => /\ Lingers(n) => decl[n].on
                   /\ decl[n].extract => Covers(n, decl[n].kind)
    BY Zenon DEF SchemaInv, MarkInv
  <2> QED BY <1>2, <1>3, <2>1, <2>2, Zenon
<1> QED BY <1>5, <1>6, <1>7, Zenon

LEMMA MarkKeeps ==
    ASSUME SchemaInv, MarkReindexed
    PROVE  DiskInv' /\ MemInv' /\ MarkInv'
<1>0. decl \in Decls
  BY Zenon DEF SchemaInv, ShapeInv, TypeOK
<1>1. /\ open /\ marking /\ dropped' = {} /\ patchy' = Plain(decl)
      /\ prospective' = Left(decl, prospective) /\ UNCHANGED <<recs, decl, open>>
      /\ (meta' = Marked(decl, prospective) /\ astray' = FALSE) \/ UNCHANGED <<meta, astray>>
  BY Zenon DEF MarkReindexed
<1>2. ASSUME NEW n \in Names
      PROVE  /\ Lingers(n) => decl[n].on
             /\ decl[n].extract => Covers(n, decl[n].kind)
             /\ Lingers(n)' => Lingers(n)
             /\ Covers(n, decl[n].kind) => Covers(n, decl[n].kind)'
  BY <1>1, Zenon DEF SchemaInv, MarkInv, Lingers, Covers
<1>3. ASSUME NEW n \in Names, decl[n].on, n \notin Plain(decl) PROVE Covers(n, decl[n].kind)'
  BY <1>2, <1>3, Zenon DEF Plain
<1>4. ASSUME ~astray', NEW n \in Names
      PROVE  /\ decl[n].on => meta'[n].known /\ ~meta'[n].dropped /\ meta'[n].kind = decl[n].kind
             /\ ~decl[n].on /\ meta'[n].known => meta'[n].dropped
  <2>1. CASE meta' = Marked(decl, prospective)
    BY <1>0, <2>1, MarkedType, Zenon
  <2>2. CASE UNCHANGED <<meta, astray>>
    BY <1>1, <1>4, <2>2, Zenon DEF SchemaInv, DiskInv
  <2> QED BY <1>1, <2>1, <2>2, Zenon
<1>5. DiskInv'
  <2> SUFFICES ASSUME ~astray', NEW n \in Names
               PROVE  /\ Lingers(n)' => meta'[n].known
                      /\ meta'[n].known /\ ~meta'[n].dropped /\ n \notin Plain(decl)
                           => Covers(n, meta[n].kind)'
    BY <1>1, <1>4, Zenon DEF DiskInv
  <2>1. ASSUME meta'[n].known, ~meta'[n].dropped, n \notin Plain(decl)
        PROVE  Covers(n, meta[n].kind)'
    <3>1. decl[n].on /\ meta'[n].kind = decl[n].kind
      BY <1>4, <2>1, Zenon
    <3>2. Covers(n, decl[n].kind)'
      BY <1>3, <2>1, <3>1, Zenon
    <3> QED BY <1>1, <3>1, <3>2, Zenon DEF Covers
  <2> QED BY <1>2, <1>4, <2>1, Zenon
<1>6. MemInv'
  BY <1>1, <1>2, <1>3, Zenon DEF MemInv, Trusted
<1>7. MarkInv'
  BY <1>1, <1>2, Zenon DEF MarkInv
<1> QED BY <1>5, <1>6, <1>7, Zenon

(* What holds in every state, with Reindexes that outlive their store and  *)
(* whatever is declared with Extract and without.                          *)
LEMMA SchemaInvariance == Spec => []SchemaInv
<1>1. SchemaInv /\ [Next]_vars => SchemaInv'
  <2> SUFFICES ASSUME SchemaInv, [Next]_vars PROVE DiskInv' /\ MemInv' /\ MarkInv'
    BY ShapeStep, Zenon DEF SchemaInv
  <2>1. CASE Close \/ Crash
    <3>1. /\ open' = FALSE /\ marking' = FALSE /\ UNCHANGED <<recs, meta, astray, patchy>>
      BY <2>1, Zenon DEF Close, Crash, Gone
    <3> QED BY <3>1, Zenon DEF SchemaInv, DiskInv, MemInv, MarkInv, Lingers, Covers
  <2>2. ASSUME NEW m \in late, MarkLate(m) PROVE DiskInv' /\ MemInv' /\ MarkInv'
    <3>1. /\ astray' = TRUE
          /\ UNCHANGED <<recs, decl, prospective, dropped, open, marking, misled, patchy>>
      BY <2>2, Zenon DEF MarkLate
    <3> QED BY <3>1, Zenon DEF SchemaInv, DiskInv, MemInv, MarkInv, Trusted, Lingers, Covers
  <2>3. CASE UNCHANGED vars
    BY <2>3, Zenon DEF SchemaInv, DiskInv, MemInv, MarkInv, Trusted, Lingers, Covers,
                       vars, schema, jobs, history
  <2> QED BY <2>1, <2>2, <2>3, OpenKeeps, WriteKeeps, MarkKeeps, Zenon DEF Next, Writes
<1> QED BY <1>1, InitSchema, PTL DEF Spec

(* An Extract index that the store does not report as prospective covers   *)
(* every record, through every sequence of declarations, removals, changes *)
(* of kind, writes, compactions, reindexes and crashes (adoptSchema,       *)
(* markReindexed, buildIndexValues, compactTransform), unless the store    *)
(* was opened on the meta.json of a Reindex that outlived its store, or the*)
(* index had no Extract since it last covered the records.                 *)
THEOREM CompleteCorrect == Spec => []CompleteIsComplete
<1>1. SchemaInv => CompleteIsComplete
  BY Zenon DEF SchemaInv, MemInv, Covers, Covered, CompleteIsComplete
<1> QED BY <1>1, SchemaInvariance, PTL

(* While values of an index are on records, the store has it declared or   *)
(* lists it as dropped: meta.json forgets an index only when a Reindex has *)
(* removed its values (adoptSchema, markReindexed), or when a Reindex that *)
(* outlived its store wrote it.                                            *)
THEOREM LingeringCorrect == Spec => []LingeringIsKnown
<1>1. SchemaInv => LingeringIsKnown
  BY Zenon DEF SchemaInv, MemInv, Lingers, LingeringIsKnown
<1> QED BY <1>1, SchemaInvariance, PTL

(* No step but a Reindex, a new write of the record or its deletion takes  *)
(* an index value off a record: compaction, reopening with another schema  *)
(* and crashes do not (compactTransform, adoptSchema), unless the store was*)
(* opened on the meta.json of a Reindex that outlived its store.           *)
THEOREM DroppedDataCorrect == Spec => DroppedDataStays
<1>1. SchemaInv /\ [Next]_vars =>
        [\A k \in Keys, n \in Names :
           recs[k].live /\ recs'[k].ix[n] # recs[k].ix[n] =>
               \/ ReindexRewrite \/ misled
               \/ \E obj \in BOOLEAN, has, given \in SUBSET Names : Put(k, obj, has, given)
               \/ ~recs'[k].live]_vars
  <2> SUFFICES ASSUME SchemaInv, Next, NEW k \in Keys, NEW n \in Names,
                      recs[k].live, recs'[k].ix[n] # recs[k].ix[n]
               PROVE  \/ ReindexRewrite \/ misled
                      \/ \E obj \in BOOLEAN, has, given \in SUBSET Names : Put(k, obj, has, given)
                      \/ ~recs'[k].live
    BY Zenon
  <2>0. TypeOK /\ MemInv
    BY Zenon DEF SchemaInv, ShapeInv
  <2>1. ASSUME NEW l \in Keys, NEW obj \in BOOLEAN, NEW has \in SUBSET Names, NEW given \in SUBSET Names,
               Put(l, obj, has, given)
        PROVE  k = l
    <3>1. \A m \in Keys \ {l} : recs'[m] = recs[m]
      BY <2>0, <2>1, PutRecs, Zenon
    <3> QED BY <3>1, Zenon
  <2>2. ASSUME NEW l \in Keys, Delete(l) PROVE ~recs'[k].live
    BY <2>0, <2>2, DeleteRecs, Zenon
  <2>3. CASE Compact
    <3>1. open
      BY <2>3, Zenon DEF Compact
    <3>2. ~decl[n].on /\ n \notin dropped /\ recs'[k].ix[n] = NoVal
      BY <2>0, <2>3, CompactRecs, Zenon
    <3> QED BY <2>0, <3>1, <3>2, Zenon DEF MemInv, Lingers
  <2>4. ASSUME (\E d \in Decls : Open(d)) \/ Close \/ Crash \/ MarkReindexed
               \/ \E m \in late : MarkLate(m)
        PROVE  UNCHANGED recs
    BY <2>4, Zenon DEF Open, Close, Crash, Gone, MarkReindexed, MarkLate
  <2> QED BY <2>1, <2>2, <2>3, <2>4, Zenon DEF Next
<1> QED BY <1>1, SchemaInvariance, PTL DEF Spec, DroppedDataStays

=============================================================================
