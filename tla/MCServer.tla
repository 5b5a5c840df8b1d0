------------------------------ MODULE MCServer ------------------------------
(***************************************************************************)
(* The instance of the server process that TLC checks.  Its life           *)
(* (ServerLife) and what a tick of the compaction loop decides (Reclaim)   *)
(* share no state, so a behaviour follows one of them, with the other      *)
(* standing still: the union of the two state spaces, not their product.   *)
(***************************************************************************)
EXTENDS ServerLife, Reclaim

VARIABLE focus

allVars == <<vars, reclaimVars, focus>>

(* autoCompact in schema.json: nothing but true, explicit zeros, other     *)
(* ratios and floors, no relieving, false.                                 *)
NoneGiven == [enabled |-> TRUE, relieve |-> Unset, mainRatio |-> Unset, mainMin |-> Unset,
              blobRatio |-> Unset, blobMin |-> Unset]
MCSettings ==
    {NoneGiven,
     [NoneGiven EXCEPT !.mainRatio = 0, !.mainMin = 0, !.blobRatio = 0, !.blobMin = 0],
     [NoneGiven EXCEPT !.enabled = Unset, !.mainRatio = 2, !.mainMin = 2, !.blobRatio = 2, !.blobMin = 2],
     [NoneGiven EXCEPT !.relieve = FALSE],
     [NoneGiven EXCEPT !.enabled = FALSE]}

MCInit ==
    /\ Init /\ ReclaimInit
    /\ focus \in {"life", "policy"}
    /\ focus = "life" => pass = "off" /\ gens = 1

MCNext ==
    /\ \/ focus = "life" /\ Next /\ UNCHANGED reclaimVars
       \/ focus = "policy" /\ ReclaimNext /\ UNCHANGED vars
    /\ UNCHANGED focus

MCSpec == MCInit /\ [][MCNext]_allVars /\ Fairness /\ ReclaimFairness
StarvedSpec == MCSpec /\ CompactionSucceeds

-----------------------------------------------------------------------------
(* The variables of the server process keep their types: its connections,  *)
(* handlers and shutdown, and the accounting of the compaction loop.       *)
ServerTypeOK == TypeOK /\ ReclaimTypeOK

=============================================================================
