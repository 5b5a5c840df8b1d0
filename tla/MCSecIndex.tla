----------------------------- MODULE MCSecIndex -----------------------------
(***************************************************************************)
(* The instance of the secondary indexes that TLC checks: SecIndex for how *)
(* the trees are kept, Queries for how one of them is read.  A behaviour   *)
(* follows one of the two, with the other standing still: the union of the *)
(* two state spaces, not their product.                                    *)
(***************************************************************************)
EXTENDS SecIndex, Queries

VARIABLE focus

(* Strings over the characters 0, 1 and 2: "1", its immediate successor    *)
(* "10", a longer one under the same prefix, and one after them.           *)
MCQueryVals == {<<1>>, <<1, 0>>, <<1, 1>>, <<2>>}
MCProbes == MCQueryVals \cup {<<>>, <<1, 0, 0>>}

MCInit ==
    /\ Init /\ QueryInit
    /\ focus \in {"writes", "queries"}
    /\ focus = "queries" => cap = [i \in Indexes |-> 0]

MCNext ==
    /\ \/ focus = "writes" /\ Next /\ UNCHANGED queryVars
       \/ focus = "queries" /\ QueryNext /\ UNCHANGED vars
    /\ UNCHANGED focus

MCSpec == MCInit /\ [][MCNext]_<<vars, queryVars, focus>>

=============================================================================
