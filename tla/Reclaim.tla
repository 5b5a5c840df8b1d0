------------------------------ MODULE Reclaim -------------------------------
(***************************************************************************)
(* The server's automatic reclamation (server.go maybeCompact, schema.go   *)
(* AutoCompactConfig): the settings of schema.json become a policy, and on *)
(* every tick the policy reads the sizes of the store, each reading under  *)
(* its own hold of the lock, while clients write and administrators compact*)
(* in between.                                                             *)
(*                                                                         *)
(* Sizes are counted in units, one for a line of the log or a blob; a ratio*)
(* is a number of halves.                                                  *)
(***************************************************************************)
EXTENDS Integers

CONSTANTS Settings,    \* autoCompact values of schema.json
          Unset,       \* an option that is not given
          DefaultMin,  \* the default size floors
          MaxMain,     \* bound: the size of the log
          MaxBlob      \* bound: the size of the blob files

ASSUME ReclaimAssumption == DefaultMin \in Nat \ {0} /\ MaxMain \in Nat /\ MaxBlob \in Nat
ASSUME SettingsAssumption ==
    \A u \in Settings :
        {u.mainRatio, u.mainMin, u.blobRatio, u.blobMin} \subseteq Int \cup {Unset}

VARIABLES cfg,         \* the server's Config
          main,        \* db.main.size
          lines,       \* LiveBytes: the lines of the log in the index
          blobs,       \* the size of all blob files
          refs,        \* the blob bytes that those lines refer to
          gens,        \* the number of blob files
          open,        \* the store is not closed
          pass,        \* where maybeCompact is
          st,          \* the Stats it has read
          mainDirty,   \* history: a write since maybeCompact last rewrote the log
          blobDirty,   \* history: a change of refs since it last rewrote the blobs
          moved        \* history: an administrator has rewritten the log since Stats

space == <<main, lines, blobs, refs, gens, open>>
reclaimVars == <<cfg, space, pass, st, mainDirty, blobDirty, moved>>

ReclaimTypeOK ==
    /\ main \in 0 .. MaxMain /\ lines \in 0 .. main
    /\ blobs \in 0 .. MaxBlob /\ refs \in 0 .. blobs /\ refs <= lines
    /\ gens \in 1 .. 2 /\ open \in BOOLEAN
    /\ pass \in {"off", "idle", "blobs", "log", "relieve", "compact"}
    /\ st \in [main: 0 .. MaxMain, blobs: 0 .. MaxBlob]
    /\ mainDirty \in BOOLEAN /\ blobDirty \in BOOLEAN /\ moved \in BOOLEAN

-----------------------------------------------------------------------------
(* UnmarshalJSON, apply and NewServer: a plain bool is an object with that *)
(* "enabled" alone, an object enables unless it says otherwise; an option  *)
(* that is not given is zero, and one that is zero takes its default.      *)
(* Mutant: an option that is given as zero stays zero.                     *)
OrDefaultUnset(v, d) == IF v = Unset THEN d ELSE v

OrDefault(v, d) == IF v = Unset THEN d ELSE IF v <= 0 THEN d ELSE v

Resolved(u) ==
    [on |-> u.enabled # FALSE,
     relieve |-> u.enabled # FALSE /\ u.relieve # FALSE,
     mainRatio |-> OrDefault(u.mainRatio, 1), mainMin |-> OrDefault(u.mainMin, DefaultMin),
     blobRatio |-> OrDefault(u.blobRatio, 1), blobMin |-> OrDefault(u.blobMin, DefaultMin)]

NoStats == [main |-> 0, blobs |-> 0]

(* A server starts on a store of any shape; a crashed relieve may have left*)
(* a second blob file.                                                     *)
ReclaimInit ==
    /\ cfg \in {Resolved(u) : u \in Settings}
    /\ main = 0 /\ lines = 0 /\ blobs = 0 /\ refs = 0 /\ gens \in 1 .. 2 /\ open = TRUE
    /\ pass = (IF cfg.on THEN "idle" ELSE "off")
    /\ st = NoStats /\ mainDirty = TRUE /\ blobDirty = TRUE /\ moved = FALSE

-----------------------------------------------------------------------------
(* Clients and administrators.                                             *)

(* A record of the log takes the place of the key's old one: each of the   *)
(* two has its value in the log, has it in a blob file, or is not there.   *)
Kinds == {"none", "line", "blob"}
One(cond) == IF cond THEN 1 ELSE 0

AppendRecord(old, new) ==
    /\ open /\ <<old, new>> # <<"none", "none">>
    /\ old = "line" => lines > refs
    /\ old = "blob" => refs > 0
    /\ main < MaxMain /\ (new = "blob" => blobs < MaxBlob)
    /\ main' = main + 1
    /\ lines' = lines + One(new # "none") - One(old # "none")
    /\ blobs' = blobs + One(new = "blob")
    /\ refs' = refs + One(new = "blob") - One(old = "blob")
    /\ mainDirty' = TRUE /\ blobDirty' = TRUE
    /\ UNCHANGED <<cfg, gens, open, pass, st, moved>>

(* Compact and BlobsRelieve leave out expired records, some of them blobs. *)
Rewritten(lapsed, lapsedRefs) ==
    /\ lapsedRefs <= refs /\ lapsed - lapsedRefs \in 0 .. lines - refs
    /\ lines' = lines - lapsed /\ main' = lines - lapsed /\ refs' = refs - lapsedRefs

Compact(lapsed, lapsedRefs) ==
    Rewritten(lapsed, lapsedRefs) /\ UNCHANGED <<blobs, gens, open>>
BlobsRelieve(lapsed, lapsedRefs) ==
    Rewritten(lapsed, lapsedRefs) /\ blobs' = refs - lapsedRefs /\ gens' = 1 /\ UNCHANGED open

(* The admin commands compact, reindex and relieve, thresholds or not.     *)
AdminRewrites(lapsed, lapsedRefs) ==
    /\ open
    /\ Compact(lapsed, lapsedRefs) \/ BlobsRelieve(lapsed, lapsedRefs)
    /\ moved' = TRUE
    /\ blobDirty' = (blobDirty \/ lapsedRefs > 0)
    /\ UNCHANGED <<cfg, pass, st, mainDirty>>

-----------------------------------------------------------------------------
(* maybeCompact.  A closed store reads as empty.                           *)
Tick ==
    /\ pass = "idle"
    /\ st' = IF open THEN [main |-> main, blobs |-> blobs] ELSE NoStats
    /\ pass' = "blobs" /\ moved' = FALSE
    /\ UNCHANGED <<cfg, space, mainDirty, blobDirty>>

(* BlobUsage, and the share of it that is due.                             *)
OrphanedBytes == blobs - refs
Orphaned == 2 * OrphanedBytes >= cfg.blobRatio * blobs

(* blobsNeedRelieve: BlobUsage is read beyond the floor only, and may fail.*)
BlobsNeedRelieve ==
    /\ pass = "blobs"
    /\ pass' = IF cfg.relieve /\ st.blobs >= cfg.blobMin /\ open /\ (Orphaned \/ gens > 1)
               THEN "relieve" ELSE "log"
    /\ UNCHANGED <<cfg, space, st, mainDirty, blobDirty, moved>>

BlobUsageFails ==
    /\ pass = "blobs" /\ cfg.relieve /\ st.blobs >= cfg.blobMin
    /\ pass' = "log"
    /\ UNCHANGED <<cfg, space, st, mainDirty, blobDirty, moved>>

(* Mutant: the share must exceed the ratio.                                *)
MainDeadAbove(live) == 2 * (st.main - live) > cfg.mainRatio * st.main

(* Mutant: the live bytes are compared with the ratio, not the dead ones.  *)
MainDeadSwapped(live) == 2 * live >= cfg.mainRatio * st.main

MainDead(live) == 2 * (st.main - live) >= cfg.mainRatio * st.main

LiveBytes == IF open THEN lines ELSE 0

(* mainNeedsCompact: LiveBytes is read now, MainBytes was read with Stats. *)
MainNeedsCompact ==
    /\ pass = "log"
    /\ pass' = IF st.main >= cfg.mainMin /\ MainDead(LiveBytes)
               THEN "compact" ELSE "idle"
    /\ UNCHANGED <<cfg, space, st, mainDirty, blobDirty, moved>>

RunBlobsRelieve(lapsed, lapsedRefs) ==
    /\ pass = "relieve" /\ open
    /\ BlobsRelieve(lapsed, lapsedRefs)
    /\ pass' = "idle" /\ mainDirty' = FALSE /\ blobDirty' = FALSE
    /\ UNCHANGED <<cfg, st, moved>>

RunMainCompact(lapsed, lapsedRefs) ==
    /\ pass = "compact" /\ open
    /\ Compact(lapsed, lapsedRefs)
    /\ pass' = "idle" /\ mainDirty' = FALSE
    /\ blobDirty' = (blobDirty \/ lapsedRefs > 0)
    /\ UNCHANGED <<cfg, st, moved>>

(* Either may fail: without a trace, or after the swap, which closes the   *)
(* store.                                                                  *)
RunFails ==
    /\ pass \in {"relieve", "compact"}
    /\ pass' = "idle"
    /\ open' \in {open, FALSE}
    /\ UNCHANGED <<cfg, main, lines, blobs, refs, gens, st, mainDirty, blobDirty, moved>>

Lapses == (0 .. 1) \X (0 .. 1)

ReclaimNext ==
    \/ \E old, new \in Kinds : AppendRecord(old, new)
    \/ \E x \in Lapses : AdminRewrites(x[1], x[2])
    \/ Tick \/ BlobsNeedRelieve \/ BlobUsageFails \/ MainNeedsCompact
    \/ \E x \in Lapses : RunBlobsRelieve(x[1], x[2]) \/ RunMainCompact(x[1], x[2])
    \/ RunFails

ReclaimSpec == ReclaimInit /\ [][ReclaimNext]_reclaimVars

(* The ticker ticks, each step of a pass is taken and a rewrite that was   *)
(* begun ends, with success or without.                                    *)
RunEnds ==
    RunFails \/ \E x \in Lapses : RunBlobsRelieve(x[1], x[2]) \/ RunMainCompact(x[1], x[2])
ReclaimFairness ==
    /\ WF_reclaimVars(Tick) /\ WF_reclaimVars(BlobsNeedRelieve)
    /\ WF_reclaimVars(MainNeedsCompact) /\ WF_reclaimVars(RunEnds)

(* Beyond that: a compaction of the log, tried again and again, succeeds.  *)
CompactionSucceeds == SF_reclaimVars(\E x \in Lapses : RunMainCompact(x[1], x[2]))

-----------------------------------------------------------------------------
(* The policy settles: after it has rewritten the log or the blobs, it does*)
(* not start on them again before something has changed, whatever settings *)
(* a user has given, an explicit zero included (NewServer, maybeCompact).  *)
(* An administrator who compacts in the middle of a pass can make it.      *)
NoChurn ==
    /\ pass = "compact" => mainDirty \/ moved
    /\ pass = "relieve" => blobDirty

(* A pass that reads the size of the log and the live bytes at two moments *)
(* starts a compaction only when the share of the log it read is dead by   *)
(* then, unless an administrator has compacted in between: writes between  *)
(* the readings, or after them, never make it start one for nothing        *)
(* (mainNeedsCompact).                                                     *)
CompactsDeadSpace ==
    pass = "compact" /\ open /\ ~moved => 2 * (main - lines) >= cfg.mainRatio * st.main

(* README "Auto-compaction": "runs a compaction when the ratio reaches 50% *)
(* and the log is at least 1 MiB": a log past both limits does not stay so *)
(* unless rewrites fail again and again: whatever is written between the   *)
(* readings, no pass overlooks it for ever (maybeCompact).                 *)
PastLimits ==
    /\ cfg.on /\ open /\ main >= cfg.mainMin
    /\ 2 * (main - lines) >= cfg.mainRatio * main
SpaceReclaimed == []<><<RunFails>>_reclaimVars \/ (PastLimits ~> ~PastLimits)

(* The same sentence for a store whose blobs cannot be relieved: the log,  *)
(* which could be compacted, is not, because a pass that has decided for   *)
(* the blobs does not look at it (maybeCompact).                           *)
LogReclaimed == PastLimits ~> ~PastLimits

(* schema.go on apply: "explicitly set values win".                        *)
ExplicitWins ==
    \A u \in Settings : u.mainRatio # Unset => Resolved(u).mainRatio = u.mainRatio

=============================================================================
