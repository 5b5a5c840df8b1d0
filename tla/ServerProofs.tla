---------------------------- MODULE ServerProofs ----------------------------
(***************************************************************************)
(* The server process, for any number of connections and listeners and any *)
(* settings: what Close keeps of its promise (ServerLife), and that the    *)
(* policy of the compaction loop settles and compacts dead space only      *)
(* (Reclaim).                                                              *)
(***************************************************************************)
EXTENDS MCServer, FiniteSetTheorems, TLAPS

Active == {c \in Conns : handler[c] \in Running}

(* A listed connection has a handler to come, at work or at its end; one   *)
(* that Close has closed stays closed; the calls of Close past the first   *)
(* have nothing to do.                                                     *)
ListInv ==
    /\ \A c \in conns : handler[c] \in Running \cup {"listed"}
    /\ \A c \in swept : c \notin alive /\ handler[c] \in Running \cup {"listed", "gone"}

CloseInv ==
    /\ \A x \in Closers : closer[x] # "idle" => closed
    /\ \A x \in Closers : closer[x] \in {"stopping", "sweeping", "waiting"} => winner = x
    /\ closed <=> winner # "nobody"
    /\ \A x \in Closers : winner = x => closer[x] # "idle"
    /\ compactor = "gone" => closed

LifeInv == TypeOK /\ ListInv /\ CloseInv /\ SweptStayQuiet

-----------------------------------------------------------------------------
(* The wait group counts the handlers at work and the compaction loop.     *)
LEMMA ActiveFinite ==
    ASSUME TypeOK
    PROVE  IsFiniteSet(Active) /\ Cardinality(Active) \in Nat
<1>1. Active \subseteq Conns
  BY DEF Active
<1> QED BY <1>1, ServerAssumption, FS_Subset, FS_CardinalityType, Zenon

LEMMA WgZero ==
    ASSUME TypeOK, wg = 0
    PROVE  Active = {} /\ compactor = "gone"
<1>1. wg = Cardinality(Active) + (IF compactor = "gone" THEN 0 ELSE 1)
  BY Zenon DEF TypeOK, Active
<1>2. Cardinality(Active) = 0 /\ compactor = "gone"
  BY <1>1, ActiveFinite
<1> QED BY <1>2, ActiveFinite, FS_EmptySet, Zenon

(* A handler that stays at work, or stays out of it, leaves the count.     *)
LEMMA ActiveSame ==
    ASSUME TypeOK, NEW c \in Conns, NEW h, At(c, h), h \in Running <=> handler[c] \in Running
    PROVE  Active' = Active
BY Zenon DEF TypeOK, Active, At

LEMMA ActiveMore ==
    ASSUME TypeOK, NEW c \in Conns, NEW h \in Running, At(c, h), handler[c] \notin Running
    PROVE  Cardinality(Active') = Cardinality(Active) + 1
<1>1. Active' = Active \cup {c} /\ c \notin Active
  BY Zenon DEF TypeOK, Active, At
<1> QED BY <1>1, ActiveFinite, FS_AddElement, Zenon

LEMMA ActiveLess ==
    ASSUME TypeOK, NEW c \in Conns, NEW h, h \notin Running, At(c, h), handler[c] \in Running
    PROVE  Cardinality(Active') = Cardinality(Active) - 1
<1>1. Active' = Active \ {c} /\ c \in Active
  BY Zenon DEF TypeOK, Active, At
<1> QED BY <1>1, ActiveFinite, FS_RemoveElement, Zenon

-----------------------------------------------------------------------------
(* TypeOK but for the count.                                               *)
Shapes ==
    /\ handler \in [Conns -> {"none", "accepted", "listed", "reading", "ready", "busy",
                           "ending", "gone"}]
    /\ alive \subseteq Conns /\ conns \subseteq Conns /\ swept \subseteq Conns
    /\ listening \subseteq Listeners
    /\ loop \in [Listeners -> Conns \cup {NoConn, "failed", "ended"}]
    /\ closed \in BOOLEAN /\ db \in BOOLEAN
    /\ closer \in [Closers -> {"idle", "stopping", "sweeping", "waiting", "returned"}]
    /\ winner \in Closers \cup {"nobody"}
    /\ compactor \in {"idle", "compacting", "gone"}

Counted == wg = Cardinality(Active) + (IF compactor = "gone" THEN 0 ELSE 1)

LEMMA TypeParts == TypeOK <=> Shapes /\ Counted
BY Zenon DEF TypeOK, Shapes, Counted, Active

LEMMA TypePartsNext == TypeOK' <=> Shapes' /\ Counted'
BY Zenon DEF TypeOK, Shapes, Counted, Active

(* The accept loops.                                                       *)
LEMMA AcceptKeeps ==
    ASSUME LifeInv, NEW l \in Listeners,
           (\E c \in Conns : Accept(l, c)) \/ Register(l) \/ Spawn(l) \/ AcceptEnds(l)
    PROVE  LifeInv'
<1>0. TypeOK /\ Shapes /\ Counted /\ ListInv /\ CloseInv /\ SweptStayQuiet
  BY TypeParts, Zenon DEF LifeInv
<1>1. ASSUME NEW c \in Conns, Accept(l, c) PROVE LifeInv'
  <2>1. Shapes'
    BY <1>0, <1>1, Zenon DEF Shapes, Accept, At
  <2>2. Active' = Active
    BY <1>0, <1>1, ActiveSame, Zenon DEF Accept, Running
  <2>3. Counted'
    BY <1>0, <1>1, <2>2, Zenon DEF Counted, Accept
  <2>4. ListInv' /\ CloseInv' /\ SweptStayQuiet'
    BY <1>0, <1>1, Zenon DEF Shapes, Accept, At, ListInv, CloseInv, SweptStayQuiet, Running
  <2> QED BY <2>1, <2>3, <2>4, TypePartsNext, Zenon DEF LifeInv
<1>2. CASE Register(l)
  <2>0. PICK c \in Conns : /\ loop[l] = c /\ handler[c] = "accepted"
                           /\ conns' = conns \cup {c} /\ At(c, "listed")
    BY <1>2, Zenon DEF Register
  <2>9. UNCHANGED <<alive, wg, listening, loop, closed, closer, winner, compactor, db, swept>>
    BY <1>2, Zenon DEF Register
  <2>1. Shapes'
    BY <1>0, <2>0, <2>9, Zenon DEF Shapes, At
  <2>2. Active' = Active
    BY <1>0, <2>0, ActiveSame, Zenon DEF Running
  <2>3. Counted'
    BY <1>0, <2>2, <2>9, Zenon DEF Counted
  <2>4. ListInv' /\ CloseInv' /\ SweptStayQuiet'
    BY <1>0, <2>0, <2>9, Zenon DEF Shapes, At, ListInv, CloseInv, SweptStayQuiet, Running
  <2> QED BY <2>1, <2>3, <2>4, TypePartsNext, Zenon DEF LifeInv
<1>3. CASE Spawn(l)
  <2>0. PICK c \in Conns : /\ loop[l] = c /\ handler[c] = "listed" /\ wg' = wg + 1
                           /\ At(c, "reading") /\ loop' = [loop EXCEPT ![l] = NoConn]
    BY <1>3, Zenon DEF Spawn
  <2>9. UNCHANGED <<alive, conns, listening, closed, closer, winner, compactor, db, swept>>
    BY <1>3, Zenon DEF Spawn
  <2>1. Shapes'
    BY <1>0, <2>0, <2>9, Zenon DEF Shapes, At
  <2>2. Cardinality(Active') = Cardinality(Active) + 1
    BY <1>0, <2>0, ActiveMore, Zenon DEF Running
  <2>3. Counted'
    BY <1>0, <2>0, <2>2, <2>9, ActiveFinite DEF Counted
  <2>4. ListInv' /\ CloseInv' /\ SweptStayQuiet'
    BY <1>0, <2>0, <2>9, Zenon DEF Shapes, At, ListInv, CloseInv, SweptStayQuiet, Running
  <2> QED BY <2>1, <2>3, <2>4, TypePartsNext, Zenon DEF LifeInv
<1>4. CASE AcceptEnds(l)
  <2>1. Shapes' /\ Active' = Active /\ Counted'
    BY <1>0, <1>4, Zenon DEF Shapes, Active, Counted, AcceptEnds
  <2>2. ListInv' /\ CloseInv' /\ SweptStayQuiet'
    BY <1>0, <1>4, Zenon DEF AcceptEnds, ListInv, CloseInv, SweptStayQuiet
  <2> QED BY <2>1, <2>2, TypePartsNext, Zenon DEF LifeInv
<1> QED BY <1>1, <1>2, <1>3, <1>4, Zenon

(* The handler of a connection.                                            *)
LEMMA HandlerKeeps ==
    ASSUME LifeInv, NEW c \in Conns, CommandOn(c) \/ Answered(c) \/ ReadFails(c) \/ HandlerEnds(c)
    PROVE  LifeInv'
<1>0. TypeOK /\ Shapes /\ Counted /\ ListInv /\ CloseInv /\ SweptStayQuiet
  BY TypeParts, Zenon DEF LifeInv
<1>1. CASE CommandOn(c) \/ Answered(c) \/ ReadFails(c)
  <2>1. PICK h \in {"reading", "ready", "busy", "ending"} : At(c, h)
    BY <1>1, Zenon DEF CommandOn, Answered, ReadFails
  <2>2. /\ handler[c] \in Running /\ alive' \subseteq alive
        /\ UNCHANGED <<conns, wg, listening, loop, closed, closer, winner, compactor, db, swept>>
    BY <1>1, Zenon DEF CommandOn, Answered, ReadFails, Running
  <2>3. c \in swept /\ handler[c] \notin {"ready", "busy"} => h = "ending"
    BY <1>0, <1>1, <2>1, Zenon DEF CommandOn, Answered, ReadFails, At, ListInv, Shapes
  <2>4. Shapes'
    BY <1>0, <2>1, <2>2, Zenon DEF Shapes, At
  <2>5. Active' = Active
    BY <1>0, <2>1, <2>2, ActiveSame, Zenon DEF Running
  <2>6. Counted'
    BY <1>0, <2>2, <2>5, Zenon DEF Counted
  <2>7. ListInv' /\ CloseInv'
    BY <1>0, <2>1, <2>2, Zenon DEF Shapes, At, ListInv, CloseInv, Running
  <2>8. SweptStayQuiet'
    BY <1>0, <2>1, <2>2, <2>3, Zenon DEF Shapes, At, SweptStayQuiet
  <2> QED BY <2>4, <2>6, <2>7, <2>8, TypePartsNext, Zenon DEF LifeInv
<1>2. CASE HandlerEnds(c)
  <2>1. Shapes'
    BY <1>0, <1>2, Zenon DEF Shapes, HandlerEnds, At
  <2>2. Cardinality(Active') = Cardinality(Active) - 1
    BY <1>0, <1>2, ActiveLess, Zenon DEF HandlerEnds, Running
  <2>3. Counted'
    BY <1>0, <1>2, <2>2, ActiveFinite DEF Counted, HandlerEnds
  <2>4. ListInv' /\ CloseInv' /\ SweptStayQuiet'
    BY <1>0, <1>2, Zenon DEF Shapes, HandlerEnds, At, ListInv, CloseInv, SweptStayQuiet, Running
  <2> QED BY <2>1, <2>3, <2>4, TypePartsNext, Zenon DEF LifeInv
<1> QED BY <1>1, <1>2, Zenon

(* The compaction loop, and the calls of Close.                            *)
LEMMA CompactorKeeps ==
    ASSUME LifeInv, MaybeCompact \/ CompactorStops
    PROVE  LifeInv'
<1>0. TypeOK /\ Shapes /\ Counted /\ ListInv /\ CloseInv /\ SweptStayQuiet
  BY TypeParts, Zenon DEF LifeInv
<1>1. Active' = Active
  BY Zenon DEF MaybeCompact, CompactorStops, Active
<1>2. Shapes' /\ ListInv' /\ CloseInv' /\ SweptStayQuiet'
  <2>1. /\ compactor # "gone" /\ compactor' \in {"idle", "compacting", "gone"}
        /\ compactor' = "gone" => closed
        /\ UNCHANGED <<handler, alive, conns, listening, loop, closed, closer, winner, db, swept>>
    BY Zenon DEF MaybeCompact, CompactorStops
  <2>2. Shapes' /\ ListInv' /\ CloseInv'
    BY <1>0, <2>1, Zenon DEF Shapes, ListInv, CloseInv
  <2>3. SweptStayQuiet'
    BY <1>0, <2>1, Zenon DEF SweptStayQuiet
  <2> QED BY <2>2, <2>3
<1>3. CASE MaybeCompact
  <2>1. Counted'
    BY <1>0, <1>1, <1>3, Zenon DEF MaybeCompact, Counted
  <2> QED BY <1>2, <2>1, TypePartsNext, Zenon DEF LifeInv
<1>4. CASE CompactorStops
  <2>1. compactor = "idle" /\ compactor' = "gone" /\ wg' = wg - 1
    BY <1>4, Zenon DEF CompactorStops
  <2>2. Counted'
    BY <1>0, <1>1, <2>1, ActiveFinite DEF Counted
  <2> QED BY <1>2, <2>2, TypePartsNext, Zenon DEF LifeInv
<1> QED BY <1>3, <1>4, Zenon

LEMMA CloseKeeps ==
    ASSUME LifeInv, NEW x \in Closers,
           CloseCall(x) \/ CloseListeners(x) \/ CloseConns(x) \/ CloseWait(x)
    PROVE  LifeInv'
<1>0. TypeOK /\ Shapes /\ Counted /\ ListInv /\ CloseInv /\ SweptStayQuiet
  BY TypeParts, Zenon DEF LifeInv
<1>1. Active' = Active /\ UNCHANGED <<wg, compactor, handler>>
  BY Zenon DEF CloseCall, CloseListeners, CloseConns, CloseWait, Active
<1>2. Counted'
  BY <1>0, <1>1, Zenon DEF Counted
<1>3. CASE CloseCall(x)
  <2>1. Shapes' /\ ListInv'
    BY <1>0, <1>3, Zenon DEF CloseCall, Shapes, ListInv
  <2>2. CloseInv' /\ SweptStayQuiet'
    BY <1>0, <1>3, Zenon DEF CloseCall, Shapes, CloseInv, SweptStayQuiet, Closers
  <2> QED BY <1>2, <2>1, <2>2, TypePartsNext, Zenon DEF LifeInv
<1>4. CASE CloseListeners(x)
  <2>1. Shapes' /\ ListInv' /\ CloseInv' /\ SweptStayQuiet'
    BY <1>0, <1>4, Zenon DEF CloseListeners, Shapes, ListInv, CloseInv, SweptStayQuiet
  <2> QED BY <1>2, <2>1, TypePartsNext, Zenon DEF LifeInv
<1>5. CASE CloseConns(x)
  <2>1. Shapes' /\ ListInv' /\ CloseInv'
    BY <1>0, <1>5, Zenon DEF CloseConns, Shapes, ListInv, CloseInv, Running
  <2>2. winner = x /\ closer'[x] = "waiting" /\ winner' = winner
    BY <1>0, <1>5, Zenon DEF CloseConns, Shapes, CloseInv
  <2>3. SweptStayQuiet'
    BY <2>2, Zenon DEF SweptStayQuiet
  <2> QED BY <1>2, <2>1, <2>3, TypePartsNext, Zenon DEF LifeInv
<1>6. CASE CloseWait(x)
  <2>1. Shapes' /\ ListInv' /\ CloseInv'
    BY <1>0, <1>6, Zenon DEF CloseWait, Shapes, ListInv, CloseInv
  <2>2. Active = {} /\ compactor = "gone"
    BY <1>0, <1>6, WgZero, Zenon DEF CloseWait
  <2>3. \A c \in Conns : handler[c] \notin {"ready", "busy"}
    BY <2>2, Zenon DEF Active, Running
  <2>4. SweptStayQuiet'
    BY <1>0, <1>6, <2>2, <2>3, Zenon DEF CloseWait, SweptStayQuiet, ListInv, Shapes
  <2> QED BY <1>2, <2>1, <2>4, TypePartsNext, Zenon DEF LifeInv
<1> QED BY <1>3, <1>4, <1>5, <1>6, Zenon

LEMMA LifeStep ==
    ASSUME LifeInv, [Next]_vars
    PROVE  LifeInv'
<1>1. CASE DbClose \/ UNCHANGED vars
  <2>1. /\ db' \in BOOLEAN
        /\ UNCHANGED <<handler, alive, conns, wg, listening, loop, closed, closer, winner,
                       compactor, swept>>
    BY <1>1, Zenon DEF DbClose, vars, LifeInv, TypeOK
  <2>2. TypeOK'
    BY <2>1, Zenon DEF LifeInv, TypeOK
  <2> QED BY <2>1, <2>2, Zenon DEF LifeInv, ListInv, CloseInv, SweptStayQuiet
<1> QED BY <1>1, AcceptKeeps, HandlerKeeps, CompactorKeeps, CloseKeeps, Zenon DEF Next

LEMMA LifeInit == Init => LifeInv
<1> SUFFICES ASSUME Init PROVE LifeInv
  OBVIOUS
<1>1. Shapes /\ ListInv /\ CloseInv /\ SweptStayQuiet
  BY Zenon DEF Init, Shapes, ListInv, CloseInv, SweptStayQuiet, Closers
<1>2. Active = {}
  BY Zenon DEF Init, Active, Running
<1>3. Counted
  BY <1>2, FS_EmptySet DEF Init, Counted
<1> QED BY <1>1, <1>3, TypeParts, Zenon DEF LifeInv

(* Once the call of Server.Close that does the work has returned, no       *)
(* command runs on a connection it found and none will, and the compaction *)
(* loop is over: for any number of connections and listeners, whatever the *)
(* accept loops were in the middle of.                                     *)
THEOREM SweptCorrect == Spec => []SweptStayQuiet
<1>1. LifeInv => SweptStayQuiet
  BY Zenon DEF LifeInv
<1> QED BY <1>1, LifeInit, LifeStep, PTL DEF Spec

-----------------------------------------------------------------------------
(* The compaction loop's policy.                                           *)

Policies == [on: BOOLEAN, relieve: BOOLEAN, mainRatio: Nat \ {0}, mainMin: Nat \ {0},
             blobRatio: Nat \ {0}, blobMin: Nat \ {0}]

(* What the loop has rewritten and nobody has changed since is without     *)
(* garbage; what a pass has read of it is still so.                        *)
CleanInv ==
    /\ ~mainDirty => main = lines
    /\ ~blobDirty => blobs = refs /\ gens = 1
    /\ pass \in {"blobs", "log"} /\ ~open => st = NoStats
    /\ pass \in {"blobs", "log"} /\ open /\ ~mainDirty /\ ~moved => st.main = main
    /\ pass = "blobs" /\ open /\ ~blobDirty => st.blobs = blobs
    /\ pass \in {"blobs", "log"} /\ open /\ ~moved => st.main <= main

PolicyInv == ReclaimTypeOK /\ cfg \in Policies /\ CleanInv /\ NoChurn /\ CompactsDeadSpace

LEMMA ResolvedType == ASSUME NEW u \in Settings PROVE Resolved(u) \in Policies
<1>1. /\ u.mainRatio \in Int \cup {Unset} /\ u.mainMin \in Int \cup {Unset}
      /\ u.blobRatio \in Int \cup {Unset} /\ u.blobMin \in Int \cup {Unset}
  BY SettingsAssumption
<1>2. ASSUME NEW v \in Int \cup {Unset}, NEW d \in Nat \ {0} PROVE OrDefault(v, d) \in Nat \ {0}
  BY DEF OrDefault
<1>3. 1 \in Nat \ {0}
  OBVIOUS
<1> QED BY <1>1, <1>2, <1>3, ReclaimAssumption, Zenon DEF Resolved, Policies

LEMMA PolicyInit == ReclaimInit => PolicyInv
<1> SUFFICES ASSUME ReclaimInit PROVE PolicyInv
  OBVIOUS
<1>1. cfg \in Policies
  BY ResolvedType, Zenon DEF ReclaimInit
<1>2. ReclaimTypeOK
  <2>1. 0 \in 0 .. MaxMain /\ 0 \in 0 .. MaxBlob
    BY ReclaimAssumption
  <2>2. main \in 0 .. MaxMain /\ blobs \in 0 .. MaxBlob /\ st \in [main: 0 .. MaxMain, blobs: 0 .. MaxBlob]
    BY <2>1, Zenon DEF ReclaimInit, NoStats
  <2>3. lines \in 0 .. main /\ refs \in 0 .. blobs /\ refs <= lines
    BY DEF ReclaimInit
  <2> QED BY <2>2, <2>3, Zenon DEF ReclaimInit, ReclaimTypeOK
<1> QED BY <1>1, <1>2 DEF ReclaimInit, PolicyInv, CleanInv, NoChurn, CompactsDeadSpace

LEMMA MoreDead ==
    ASSUME NEW size \in Int, NEW live \in Int, NEW size2 \in Int, NEW live2 \in Int,
           NEW due \in Int, size - live <= size2 - live2, 2 * (size - live) >= due
    PROVE  2 * (size2 - live2) >= due
OBVIOUS

LEMMA NoneDue ==
    ASSUME NEW size \in Nat, NEW ratio \in Nat \ {0}, size >= 1,
           2 * (size - size) >= ratio * size
    PROVE  FALSE
<1>1. ratio >= 1 /\ ratio \in Int /\ size \in Int
  OBVIOUS
<1>2. ratio * size >= 1
  BY <1>1, SMTT(30)
<1> QED BY <1>2

(* A client writes: dead space only grows.                                 *)
LEMMA AppendKeeps ==
    ASSUME PolicyInv, NEW old \in Kinds, NEW new \in Kinds, AppendRecord(old, new)
    PROVE  PolicyInv'
<1>1. ReclaimTypeOK'
  <2>1. /\ main' = main + 1 /\ main < MaxMain
        /\ UNCHANGED <<cfg, gens, open, pass, st, moved>>
        /\ mainDirty' = TRUE /\ blobDirty' = TRUE
    BY Zenon DEF AppendRecord
  <2>2. main' \in 0 .. MaxMain
    BY <2>1, ReclaimAssumption DEF PolicyInv, ReclaimTypeOK
  <2>3. lines' \in 0 .. main' /\ blobs' \in 0 .. MaxBlob /\ refs' \in 0 .. blobs' /\ refs' <= lines'
    BY ReclaimAssumption, SMTT(30) DEF PolicyInv, ReclaimTypeOK, AppendRecord, Kinds, One
  <2> QED BY <2>1, <2>2, <2>3, Zenon DEF PolicyInv, ReclaimTypeOK
<1>2. CleanInv' /\ NoChurn'
  BY DEF PolicyInv, ReclaimTypeOK, CleanInv, NoChurn, AppendRecord
<1>3. main - lines <= main' - lines' /\ UNCHANGED <<cfg, open, pass, st, moved>>
  BY DEF PolicyInv, ReclaimTypeOK, AppendRecord, Kinds, One
<1>4. CompactsDeadSpace'
  <2>1. main \in Int /\ lines \in Int /\ main' \in Int /\ lines' \in Int
    BY <1>1 DEF PolicyInv, ReclaimTypeOK
  <2>2. cfg.mainRatio * st.main \in Int
    BY DEF PolicyInv, ReclaimTypeOK, Policies
  <2> QED BY <1>3, <2>1, <2>2, MoreDead, Zenon DEF PolicyInv, CompactsDeadSpace
<1> QED BY <1>1, <1>2, <1>3, <1>4 DEF PolicyInv

(* A rewrite of the log leaves the live lines and nothing else.            *)
LEMMA RewriteFacts ==
    ASSUME PolicyInv, NEW n \in 0 .. 1, NEW r \in 0 .. 1,
           Compact(n, r) \/ BlobsRelieve(n, r)
    PROVE  /\ main' \in 0 .. MaxMain /\ lines' \in 0 .. main' /\ main' = lines'
           /\ blobs' \in 0 .. MaxBlob /\ refs' \in 0 .. blobs' /\ refs' <= lines'
           /\ gens' \in 1 .. 2 /\ open' = open
           /\ BlobsRelieve(n, r) => blobs' = refs' /\ gens' = 1
           /\ ~blobDirty /\ r = 0 => blobs' = refs' /\ gens' = 1 /\ blobs' = blobs
<1>1. /\ main \in Nat /\ main <= MaxMain /\ lines \in Nat /\ lines <= main
      /\ blobs \in Nat /\ blobs <= MaxBlob /\ refs \in Nat /\ refs <= blobs /\ refs <= lines
      /\ gens \in 1 .. 2 /\ MaxMain \in Nat /\ MaxBlob \in Nat
      /\ ~blobDirty => blobs = refs /\ gens = 1
  BY ReclaimAssumption DEF PolicyInv, ReclaimTypeOK, CleanInv
<1>2. /\ r <= refs /\ n - r \in 0 .. lines - refs
      /\ lines' = lines - n /\ main' = lines - n /\ refs' = refs - r /\ open' = open
  BY Zenon DEF Compact, BlobsRelieve, Rewritten
<1>3. (blobs' = blobs /\ gens' = gens) \/ (blobs' = refs - r /\ gens' = 1)
  BY Zenon DEF Compact, BlobsRelieve
<1>4. BlobsRelieve(n, r) => blobs' = refs - r /\ gens' = 1
  BY Zenon DEF BlobsRelieve
<1> QED BY <1>1, <1>2, <1>3, <1>4

LEMMA RewriteKeeps ==
    ASSUME PolicyInv, NEW n \in 0 .. 1, NEW r \in 0 .. 1,
           AdminRewrites(n, r) \/ RunBlobsRelieve(n, r) \/ RunMainCompact(n, r)
    PROVE  PolicyInv'
<1>0. ReclaimTypeOK /\ cfg \in Policies /\ CleanInv /\ NoChurn
  BY Zenon DEF PolicyInv
<1>1. Compact(n, r) \/ BlobsRelieve(n, r)
  BY Zenon DEF AdminRewrites, RunBlobsRelieve, RunMainCompact
<1>2. /\ main' \in 0 .. MaxMain /\ lines' \in 0 .. main' /\ main' = lines'
      /\ blobs' \in 0 .. MaxBlob /\ refs' \in 0 .. blobs' /\ refs' <= lines'
      /\ gens' \in 1 .. 2 /\ open' = open
      /\ BlobsRelieve(n, r) => blobs' = refs' /\ gens' = 1
      /\ ~blobDirty /\ r = 0 => blobs' = refs' /\ gens' = 1 /\ blobs' = blobs
  BY <1>1, RewriteFacts
<1>3. UNCHANGED <<cfg, st>>
  BY Zenon DEF AdminRewrites, RunBlobsRelieve, RunMainCompact
<1>4. CASE AdminRewrites(n, r)
  <2>1. /\ pass' = pass /\ mainDirty' = mainDirty /\ moved' = TRUE
        /\ blobDirty' = (blobDirty \/ r > 0)
    BY <1>4, Zenon DEF AdminRewrites
  <2>2. ~(r > 0) => r = 0
    OBVIOUS
  <2>3. ReclaimTypeOK'
    BY <1>0, <1>2, <1>3, <2>1, Zenon DEF ReclaimTypeOK
  <2>4. CleanInv'
    BY <1>0, <1>2, <1>3, <2>1, <2>2, Zenon DEF CleanInv
  <2> QED BY <1>0, <1>3, <2>1, <2>3, <2>4, Zenon DEF PolicyInv, NoChurn, CompactsDeadSpace
<1>5. CASE RunBlobsRelieve(n, r)
  <2>1. /\ pass' = "idle" /\ mainDirty' = FALSE /\ blobDirty' = FALSE /\ moved' = moved
        /\ BlobsRelieve(n, r)
    BY <1>5, Zenon DEF RunBlobsRelieve
  <2>2. ReclaimTypeOK'
    BY <1>0, <1>2, <1>3, <2>1, Zenon DEF ReclaimTypeOK
  <2>3. CleanInv'
    BY <1>2, <2>1, Zenon DEF CleanInv
  <2> QED BY <1>0, <1>3, <2>1, <2>2, <2>3, Zenon DEF PolicyInv, NoChurn, CompactsDeadSpace
<1>6. CASE RunMainCompact(n, r)
  <2>1. /\ pass' = "idle" /\ mainDirty' = FALSE /\ moved' = moved
        /\ blobDirty' = (blobDirty \/ r > 0)
    BY <1>6, Zenon DEF RunMainCompact
  <2>2. ~(r > 0) => r = 0
    OBVIOUS
  <2>3. ReclaimTypeOK'
    BY <1>0, <1>2, <1>3, <2>1, Zenon DEF ReclaimTypeOK
  <2>4. CleanInv'
    BY <1>2, <2>1, <2>2, Zenon DEF CleanInv
  <2> QED BY <1>0, <1>3, <2>1, <2>3, <2>4, Zenon DEF PolicyInv, NoChurn, CompactsDeadSpace
<1> QED BY <1>4, <1>5, <1>6, Zenon

(* A pass of maybeCompact up to its decision, and a run that fails.        *)
LEMMA PassKeeps ==
    ASSUME PolicyInv, Tick \/ BlobsNeedRelieve \/ BlobUsageFails \/ MainNeedsCompact \/ RunFails
    PROVE  PolicyInv'
<1>0. ReclaimTypeOK /\ cfg \in Policies /\ CleanInv /\ NoChurn
  BY Zenon DEF PolicyInv
<1>1. CASE Tick
  <2>1. /\ pass' = "blobs" /\ moved' = FALSE
        /\ st' = IF open THEN [main |-> main, blobs |-> blobs] ELSE NoStats
        /\ UNCHANGED <<cfg, main, lines, blobs, refs, gens, open, mainDirty, blobDirty>>
    BY <1>1, Zenon DEF Tick, space
  <2>2. 0 \in 0 .. MaxMain /\ 0 \in 0 .. MaxBlob /\ main <= main
    BY <1>0, ReclaimAssumption DEF ReclaimTypeOK
  <2>3. ReclaimTypeOK'
    BY <1>0, <2>1, <2>2, Zenon DEF ReclaimTypeOK, NoStats
  <2>4. CleanInv'
    BY <1>0, <2>1, <2>2, Zenon DEF CleanInv
  <2> QED BY <1>0, <2>1, <2>3, <2>4, Zenon DEF PolicyInv, NoChurn, CompactsDeadSpace
<1>2. CASE BlobsNeedRelieve \/ BlobUsageFails
  <2>1. /\ pass = "blobs" /\ pass' \in {"relieve", "log"}
        /\ UNCHANGED <<cfg, main, lines, blobs, refs, gens, open, st, mainDirty, blobDirty, moved>>
    BY <1>2, Zenon DEF BlobsNeedRelieve, BlobUsageFails, space
  <2>2. ASSUME pass' = "relieve", ~blobDirty PROVE FALSE
    <3>1. st.blobs >= cfg.blobMin /\ open /\ (Orphaned \/ gens > 1)
      BY <1>2, <2>2, Zenon DEF BlobsNeedRelieve, BlobUsageFails
    <3>2. blobs = refs /\ gens = 1 /\ st.blobs = blobs
      BY <1>0, <2>1, <2>2, <3>1, Zenon DEF CleanInv
    <3>3. blobs \in Nat /\ cfg.blobMin \in Nat \ {0} /\ cfg.blobRatio \in Nat \ {0}
      BY <1>0 DEF ReclaimTypeOK, Policies
    <3>4. 2 * (blobs - refs) >= cfg.blobRatio * blobs /\ blobs >= 1
      BY <3>1, <3>2, <3>3 DEF Orphaned, OrphanedBytes
    <3> QED BY <3>2, <3>3, <3>4, NoneDue
  <2>3. ReclaimTypeOK'
    BY <1>0, <2>1, Zenon DEF ReclaimTypeOK
  <2>4. CleanInv'
    BY <1>0, <2>1, Zenon DEF CleanInv
  <2> QED BY <1>0, <2>1, <2>2, <2>3, <2>4, Zenon DEF PolicyInv, NoChurn, CompactsDeadSpace
<1>3. CASE MainNeedsCompact
  <2>1. /\ pass = "log" /\ pass' \in {"compact", "idle"}
        /\ UNCHANGED <<cfg, main, lines, blobs, refs, gens, open, st, mainDirty, blobDirty, moved>>
        /\ pass' = "compact" => st.main >= cfg.mainMin /\ MainDead(LiveBytes)
    BY <1>3, Zenon DEF MainNeedsCompact, space
  <2>2. /\ main \in Nat /\ lines \in Nat /\ st.main \in Nat
        /\ cfg.mainMin \in Nat \ {0} /\ cfg.mainRatio \in Nat \ {0}
    BY <1>0 DEF ReclaimTypeOK, Policies
  <2>3. cfg.mainRatio * st.main \in Int
    BY <2>2
  <2>4. ASSUME pass' = "compact" PROVE open /\ st.main >= 1 /\ 2 * (st.main - lines) >= cfg.mainRatio * st.main
    <3>1. st.main >= 1
      BY <2>1, <2>2, <2>4
    <3>2. open
      BY <1>0, <2>1, <3>1 DEF CleanInv, NoStats
    <3> QED BY <2>1, <2>4, <3>1, <3>2, Zenon DEF MainDead, LiveBytes
  <2>5. ASSUME pass' = "compact", ~mainDirty, ~moved PROVE FALSE
    <3>1. st.main = main /\ main = lines
      BY <1>0, <2>1, <2>4, <2>5, Zenon DEF CleanInv
    <3> QED BY <2>2, <2>4, <2>5, <3>1, NoneDue
  <2>6. ASSUME pass' = "compact", ~moved PROVE 2 * (main - lines) >= cfg.mainRatio * st.main
    <3>1. st.main <= main
      BY <1>0, <2>1, <2>4, <2>6, Zenon DEF CleanInv
    <3>2. st.main - lines <= main - lines
      BY <2>2, <3>1
    <3>3. st.main \in Int /\ main \in Int /\ lines \in Int
      BY <2>2
    <3> QED BY <2>3, <2>4, <2>6, <3>2, <3>3, MoreDead, Zenon
  <2>7. ReclaimTypeOK'
    BY <1>0, <2>1, Zenon DEF ReclaimTypeOK
  <2>8. CleanInv'
    BY <1>0, <2>1, Zenon DEF CleanInv
  <2> QED BY <1>0, <2>1, <2>5, <2>6, <2>7, <2>8, Zenon DEF PolicyInv, NoChurn, CompactsDeadSpace
<1>4. CASE RunFails
  <2>1. /\ pass' = "idle" /\ open' \in BOOLEAN
        /\ UNCHANGED <<cfg, main, lines, blobs, refs, gens, st, mainDirty, blobDirty, moved>>
    BY <1>0, <1>4, Zenon DEF RunFails, ReclaimTypeOK
  <2>2. ReclaimTypeOK' /\ CleanInv'
    BY <1>0, <2>1, Zenon DEF ReclaimTypeOK, CleanInv
  <2> QED BY <1>0, <2>1, <2>2, Zenon DEF PolicyInv, NoChurn, CompactsDeadSpace
<1> QED BY <1>1, <1>2, <1>3, <1>4, Zenon

LEMMA PolicyStep == PolicyInv /\ [ReclaimNext]_reclaimVars => PolicyInv'
<1> SUFFICES ASSUME PolicyInv, [ReclaimNext]_reclaimVars PROVE PolicyInv'
  OBVIOUS
<1>1. CASE UNCHANGED reclaimVars
  <2>1. UNCHANGED <<cfg, main, lines, blobs, refs, gens, open, pass, st, mainDirty, blobDirty, moved>>
    BY <1>1, Zenon DEF reclaimVars, space
  <2> QED BY <2>1, Zenon DEF PolicyInv, ReclaimTypeOK, CleanInv, NoChurn, CompactsDeadSpace
<1>2. CASE \E x \in Lapses : \/ AdminRewrites(x[1], x[2])
                             \/ RunBlobsRelieve(x[1], x[2]) \/ RunMainCompact(x[1], x[2])
  <2>1. \A x \in Lapses : x[1] \in 0 .. 1 /\ x[2] \in 0 .. 1
    BY DEF Lapses
  <2> QED BY <1>2, <2>1, RewriteKeeps, Zenon
<1>3. CASE \E old, new \in Kinds : AppendRecord(old, new)
  BY <1>3, AppendKeeps, Zenon
<1>4. CASE Tick \/ BlobsNeedRelieve \/ BlobUsageFails \/ MainNeedsCompact \/ RunFails
  BY <1>4, PassKeeps, Zenon
<1> QED BY <1>1, <1>2, <1>3, <1>4, Zenon DEF ReclaimNext

LEMMA PolicyInvariance == ReclaimSpec => []PolicyInv
BY PolicyInit, PolicyStep, PTL DEF ReclaimSpec

(* Whatever settings schema.json gives and however writes fall between the *)
(* readings of a pass, the policy never starts again on a log or on blobs  *)
(* it has just rewritten (NewServer's defaults, maybeCompact).             *)
THEOREM NoChurnCorrect == ReclaimSpec => []NoChurn
<1>1. PolicyInv => NoChurn
  BY Zenon DEF PolicyInv
<1> QED BY <1>1, PolicyInvariance, PTL

(* A compaction is started for space that is still dead when it starts,    *)
(* though the size of the log and the live bytes are read at two moments   *)
(* (mainNeedsCompact).                                                     *)
THEOREM DeadSpaceCorrect == ReclaimSpec => []CompactsDeadSpace
<1>1. PolicyInv => CompactsDeadSpace
  BY Zenon DEF PolicyInv
<1> QED BY <1>1, PolicyInvariance, PTL

(* The server process keeps its types: in particular the WaitGroup that    *)
(* Close waits on counts the running handlers and the compaction loop,     *)
(* neither more nor less (Serve, handleConn, autoCompactLoop).             *)
THEOREM ServerTypeCorrect == MCSpec => []ServerTypeOK
<1>1. MCInit => LifeInv /\ PolicyInv
  BY LifeInit, PolicyInit, Zenon DEF MCInit
<1>2. LifeInv /\ PolicyInv /\ [MCNext]_allVars => (LifeInv /\ PolicyInv)'
  <2>1. [MCNext]_allVars => [Next]_vars /\ [ReclaimNext]_reclaimVars
    BY Zenon DEF MCNext, allVars
  <2> QED BY <2>1, LifeStep, PolicyStep, Zenon
<1>3. LifeInv /\ PolicyInv => ServerTypeOK
  BY Zenon DEF LifeInv, PolicyInv, ServerTypeOK
<1> QED BY <1>1, <1>2, <1>3, PTL DEF MCSpec
=============================================================================
