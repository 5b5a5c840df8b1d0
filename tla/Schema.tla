------------------------------- MODULE Schema -------------------------------
(***************************************************************************)
(* The declared index set across opens (db.go adoptSchema, meta.go,        *)
(* reindex.go, compact.go): which indexes cover the records written before *)
(* they were declared, what happens to the values of a dropped index, and  *)
(* what Reindex back-fills.                                                *)
(*                                                                         *)
(* A record's value is abstracted to whether it is a JSON object and the   *)
(* indexes for which Extract finds a value in it; an index value on a      *)
(* record to its kind.                                                     *)
(***************************************************************************)
EXTENDS Naturals, FiniteSets

CONSTANTS Keys, Names,
          MayExtract,    \* indexes that may be declared with Extract
          MaxLate        \* bound: Reindexes that outlive their store

Kinds == {"string", "number"}

ASSUME SchemaAssumption ==
    MayExtract \subseteq Names /\ MaxLate \in Nat

VARIABLES recs,          \* the live records
          meta,          \* meta.json
          decl,          \* Options.Indexes of the open store
          prospective,   \* declared indexes not known to cover every record
          dropped,       \* soft-dropped indexes
          open,
          marking,       \* a Reindex of it is between its rewrite and its meta write
          late,          \* those of closed stores that are: what they will write
          astray,        \* history: meta.json comes from such a late Reindex
          misled,        \* history: the open store has read such a meta.json
          patchy         \* history: indexes declared without Extract since they
                         \* were last known to cover the records

schema == <<meta, decl, prospective, dropped, open>>
jobs == <<marking, late>>
history == <<astray, misled, patchy>>
vars == <<recs, schema, jobs, history>>

NoVal == "none"
NoRec == [live |-> FALSE, obj |-> FALSE, has |-> {}, ix |-> [n \in Names |-> NoVal]]
Recs == [live: BOOLEAN, obj: BOOLEAN, has: SUBSET Names, ix: [Names -> Kinds \cup {NoVal}]]

NoDef == [on |-> FALSE, kind |-> "string", extract |-> FALSE]
Defs(n) ==
    {NoDef} \cup
    {d \in [on: {TRUE}, kind: Kinds, extract: BOOLEAN] :
        d.extract => n \in MayExtract}
Decls == {d \in [Names -> UNION {Defs(n) : n \in Names}] : \A n \in Names : d[n] \in Defs(n)}

NoDecl == [n \in Names |-> NoDef]

NoMeta == [known |-> FALSE, kind |-> "string", complete |-> FALSE, dropped |-> FALSE]
Metas == [known: BOOLEAN, kind: Kinds, complete: BOOLEAN, dropped: BOOLEAN]

TypeOK ==
    /\ recs \in [Keys -> Recs]
    /\ meta \in [Names -> Metas]
    /\ decl \in Decls
    /\ prospective \subseteq {n \in Names : decl[n].on}
    /\ dropped \subseteq {n \in Names : ~decl[n].on}
    /\ open \in BOOLEAN
    /\ marking \in BOOLEAN /\ late \subseteq [Names -> Metas]
    /\ astray \in BOOLEAN /\ misled \in BOOLEAN /\ patchy \subseteq Names

HadData == \E k \in Keys : recs[k].live

-----------------------------------------------------------------------------
(* Mutant: completeness is carried over from a soft-dropped index.         *)
AdoptedRevived(n, d) ==
    [known |-> TRUE, kind |-> d.kind, dropped |-> FALSE,
     complete |-> IF meta[n].known /\ meta[n].kind = d.kind
                  THEN meta[n].complete ELSE ~HadData]

(* An index declared as before keeps its completeness; one that is new, of *)
(* another kind or added again is complete on an empty store only.         *)
Carried(n, d) == meta[n].known /\ meta[n].kind = d.kind /\ ~meta[n].dropped
Adopted(n, d) ==
    [known |-> TRUE, kind |-> d.kind, dropped |-> FALSE,
     complete |-> IF Carried(n, d) THEN meta[n].complete ELSE ~HadData]

(* Mutant: only an index that was declared until now leaves a tombstone.   *)
SoftDroppedOnce(n) ==
    IF meta[n].known /\ ~meta[n].dropped THEN [meta[n] EXCEPT !.dropped = TRUE] ELSE NoMeta

SoftDropped(n) ==
    IF meta[n].known THEN [meta[n] EXCEPT !.dropped = TRUE] ELSE NoMeta

(* Mutant: everything incomplete is listed as prospective.                 *)
AdoptSchemaLoose(d) ==
    LET m == [n \in Names |-> IF d[n].on THEN Adopted(n, d[n]) ELSE SoftDropped(n)] IN
    /\ meta' = m
    /\ prospective' = {n \in Names : ~m[n].complete}
    /\ dropped' = {n \in Names : ~d[n].on /\ m[n].known}

AdoptSchema(d) ==
    LET m == [n \in Names |-> IF d[n].on THEN Adopted(n, d[n]) ELSE SoftDropped(n)] IN
    /\ meta' = m
    /\ prospective' = {n \in Names : d[n].on /\ ~m[n].complete}
    /\ dropped' = {n \in Names : ~d[n].on /\ m[n].known}

(* markReindexed: what it writes for the schema d with prospective indexes *)
(* p, of which those without Extract are left.                             *)
Left(d, p) == {n \in p : ~d[n].extract}
Marked(d, p) ==
    [n \in Names |->
        IF d[n].on THEN [known |-> TRUE, kind |-> d[n].kind, complete |-> n \notin Left(d, p),
                         dropped |-> FALSE]
        ELSE NoMeta]

Plain(d) == {n \in Names : d[n].on /\ ~d[n].extract}

Init ==
    /\ recs = [k \in Keys |-> NoRec]
    /\ meta = [n \in Names |-> NoMeta]
    /\ decl = NoDecl
    /\ prospective = {} /\ dropped = {} /\ open = FALSE
    /\ marking = FALSE /\ late = {}
    /\ astray = FALSE /\ misled = FALSE /\ patchy = {}

Open(d) ==
    /\ ~open
    /\ open' = TRUE /\ decl' = d
    /\ AdoptSchema(d)
    /\ misled' = astray
    /\ patchy' = Plain(d) \cup {n \in patchy : d[n].on /\ Carried(n, d[n])}
    /\ UNCHANGED <<recs, jobs, astray>>

(* Close waits for the write lock, not for a Reindex that is between two   *)
(* holds of it.  A crash ends the Reindexes of its process, whatever their *)
(* store.                                                                  *)
Gone ==
    /\ open' = FALSE /\ marking' = FALSE /\ misled' = FALSE
    /\ decl' = NoDecl /\ prospective' = {} /\ dropped' = {}
    /\ UNCHANGED <<recs, meta, astray, patchy>>

Close ==
    /\ open /\ Gone
    /\ late' = late \cup (IF marking THEN {Marked(decl, prospective)} ELSE {})

Crash ==
    /\ Gone
    /\ late' \in {late, {}}

(* buildIndexValues: the values Extract finds, and the explicit ones given,*)
(* in an object; none in an immediate value.                               *)
BuildIndexValues(obj, has, given) ==
    [n \in Names |->
        IF obj /\ decl[n].on /\ n \in (IF decl[n].extract THEN has \cup given ELSE given)
        THEN decl[n].kind ELSE NoVal]

Put(k, obj, has, given) ==
    /\ open
    /\ given # {} => obj /\ \A n \in given : decl[n].on
    /\ recs' = [recs EXCEPT ![k] =
                 [live |-> TRUE, obj |-> obj, has |-> has, ix |-> BuildIndexValues(obj, has, given)]]
    /\ UNCHANGED <<schema, jobs, history>>

Delete(k) ==
    /\ open /\ recs[k].live
    /\ recs' = [recs EXCEPT ![k] = NoRec]
    /\ UNCHANGED <<schema, jobs, history>>

(* buildRewrite: every live record is copied, with the values ix gives it. *)
Rewritten(ix) ==
    recs' = [k \in Keys |-> IF recs[k].live THEN [recs[k] EXCEPT !.ix = ix[k]]
                            ELSE recs[k]]

FilterIX(r) == [n \in Names |-> IF decl[n].on /\ r.ix[n] = decl[n].kind THEN r.ix[n] ELSE NoVal]

(* Mutant: values of an index's former kind go too, as in filterIX.        *)
FilterIXKnownTyped(r) ==
    [n \in Names |-> IF FilterIX(r)[n] # NoVal \/ n \in dropped THEN r.ix[n] ELSE NoVal]

(* compactTransform: values of declared and soft-dropped indexes stay.     *)
FilterIXKnown(r) ==
    [n \in Names |-> IF decl[n].on \/ n \in dropped THEN r.ix[n] ELSE NoVal]

Compact ==
    /\ open
    /\ Rewritten([k \in Keys |-> FilterIXKnown(recs[k])])
    /\ UNCHANGED <<schema, jobs, history>>

ReindexTransform(r) ==
    [n \in Names |-> IF decl[n].extract /\ n \in r.has THEN decl[n].kind ELSE FilterIX(r)[n]]

(* The rewrite is committed and the gate lowered before the meta is        *)
(* written under a second hold of the write lock.                          *)
ReindexRewrite ==
    /\ open /\ Cardinality(late) < MaxLate
    /\ Rewritten([k \in Keys |-> ReindexTransform(recs[k])])
    /\ marking' = TRUE
    /\ UNCHANGED <<schema, late, history>>

(* By the open store; writing meta.json may fail.  It is marking still when*)
(* another Reindex was called meanwhile.                                   *)
MarkReindexed ==
    /\ open /\ marking
    /\ \/ meta' = Marked(decl, prospective) /\ astray' = FALSE
       \/ UNCHANGED <<meta, astray>>
    /\ prospective' = Left(decl, prospective) /\ dropped' = {}
    /\ marking' \in BOOLEAN
    /\ misled' = FALSE /\ patchy' = Plain(decl)
    /\ UNCHANGED <<recs, decl, open, late>>

(* By a store that was closed meanwhile: nothing looks at db.closed.       *)
MarkLate(m) ==
    /\ meta' = m /\ astray' = TRUE
    /\ late' \in {late, late \ {m}}
    /\ UNCHANGED <<recs, decl, prospective, dropped, open, marking, misled, patchy>>

Next ==
    \/ \E d \in Decls : Open(d)
    \/ Close \/ Crash \/ Compact \/ ReindexRewrite \/ MarkReindexed
    \/ \E m \in late : MarkLate(m)
    \/ \E k \in Keys : Delete(k)
    \/ \E k \in Keys, obj \in BOOLEAN, has, given \in SUBSET Names : Put(k, obj, has, given)

Spec == Init /\ [][Next]_vars

-----------------------------------------------------------------------------
Covered(n) ==
    \A k \in Keys :
        recs[k].live /\ recs[k].obj /\ n \in recs[k].has => recs[k].ix[n] = decl[n].kind
Trusted(n) == decl[n].on /\ decl[n].extract /\ n \notin prospective

(* An Extract index that is not listed as prospective has an entry for     *)
(* every object its Extract finds a value in, whatever was declared,       *)
(* dropped, added again or changed in kind before (adoptSchema, meta.go:   *)
(* "known to cover every existing record").  Two cases are left out, in    *)
(* which it does not: a meta.json from a Reindex that outlived its store,  *)
(* and an Extract that was added to a declared index.                      *)
CompleteIsComplete ==
    open /\ ~misled => \A n \in Names : Trusted(n) /\ n \notin patchy => Covered(n)

(* meta.go on Complete: "true once the index is known to cover every       *)
(* existing record", with the one case left out, and with the other.       *)
CompleteDespiteLate == open => \A n \in Names : Trusted(n) /\ n \notin patchy => Covered(n)
CompleteDespitePatchy == open /\ ~misled => \A n \in Names : Trusted(n) => Covered(n)

(* The values of a dropped index stay on the records through reopenings    *)
(* and compactions until a Reindex, a rewrite of the record or its deletion*)
(* (README: "Re-adding a dropped index before a `Reindex` recovers its     *)
(* surviving data"; the comment on Compact says the contrary, see below),  *)
(* unless a late Reindex has made meta.json forget the index.              *)
DroppedDataStays ==
    [][ \A k \in Keys, n \in Names :
          recs[k].live /\ recs'[k].ix[n] # recs[k].ix[n] =>
              \/ ReindexRewrite \/ misled
              \/ \E obj \in BOOLEAN, has, given \in SUBSET Names : Put(k, obj, has, given)
              \/ ~recs'[k].live ]_vars

(* compact.go on Compact: "each record's ix is filtered to the currently   *)
(* declared indexes, so fields of dropped indexes are swept away".         *)
CompactSweeps ==
    open => \A k \in Keys, n \in Names : ~decl[n].on => FilterIXKnown(recs[k])[n] = NoVal

(* What a value on a record may be left over from: an index that is in     *)
(* meta.json, so that DroppedIndexes can name it while its data lingers,   *)
(* unless a late Reindex has made meta.json forget it.                     *)
LingeringIsKnown ==
    open /\ ~misled => \A n \in Names :
        (\E k \in Keys : recs[k].ix[n] # NoVal) => decl[n].on \/ n \in dropped

(* secindex.go on IndexDef: "Extract is never executed over an immediate   *)
(* value ... Immediate values are primary-key-only".                       *)
ImmediatesBare ==
    \A k \in Keys : ~recs[k].obj => \A n \in Names : recs[k].ix[n] = NoVal

=============================================================================
