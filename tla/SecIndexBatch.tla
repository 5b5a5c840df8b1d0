--------------------------- MODULE SecIndexBatch ----------------------------
(***************************************************************************)
(* PutBatch beside its reference: the same items written one at a time,    *)
(* each followed by the enforcement of its own groups.                     *)
(***************************************************************************)
EXTENDS SecIndex, SequencesExt

VARIABLE expected    \* what item-by-item enforcement would have left

State == [live |-> live, ix |-> ix]

GroupOf(s, g) == {k \in s.live : s.ix[k][g[1]] = g[2]}
Excess(s, g) ==
    {k \in GroupOf(s, g) :
        cap[g[1]] > 0 /\ Rank(GroupOf(s, g), k) <= Cardinality(GroupOf(s, g)) - cap[g[1]]}

Without(s, D) ==
    [live |-> s.live \ D, ix |-> [k \in Keys |-> IF k \in D THEN NoIx ELSE s.ix[k]]]

PerItem(s, item) ==
    LET w == [live |-> s.live \cup {item.key}, ix |-> [s.ix EXCEPT ![item.key] = item.ix]]
    IN Without(w, UNION {Excess(w, g) : g \in TouchedBy(item)})

InitPerItem == Init /\ expected = State

NextPerItem ==
    /\ Next
    /\ expected' = IF phase = "idle" /\ phase' = "append"
                   THEN FoldLeft(PerItem, State, todo') ELSE expected

SpecPerItem == InitPerItem /\ [][NextPerItem]_<<vars, expected>>

(* batch.go on enforcing once per distinct touched pair: "The final state  *)
(* matches per-item enforcement".  A batch that completes leaves what the  *)
(* same items written one by one would have left.                          *)
BatchMatchesPerItem ==
    [][ phase = "enforce" /\ victims = {} /\ phase' = "idle" => State = expected ]_<<vars, expected>>

=============================================================================
