----------------------------- MODULE LockProofs -----------------------------
(***************************************************************************)
(* Who may be where, for any number of actors.  First the lock of a store  *)
(* and the calls of an embedding process (Embedded): openers, objects and  *)
(* calls.  Then the locks inside the engine (Gate): readers, writers,      *)
(* rebuilds and Close calls.                                               *)
(***************************************************************************)
EXTENDS Embedded, Gate, FiniteSetTheorems, TLAPS

(* An opener holds the lock of its file exactly while it is past it, and no*)
(* two hold the lock of the same file.                                     *)
Stages == {"out", "locking", "loading", "open", "dropping"}
LInv ==
    /\ inodes \in Nat /\ inodes <= MaxInodes /\ dir \in 0 .. inodes
    /\ fd \in [Openers -> 0 .. inodes] /\ stage \in [Openers -> Stages]
    /\ locked \subseteq Openers
    /\ \A p \in Openers : p \in locked <=> Past(p)
    /\ \A p \in Openers : stage[p] = "locking" \/ Past(p) => fd[p] # 0
    /\ \A p, q \in locked : fd[p] = fd[q] => p = q

(* A step of one opener.                                                   *)
Moves(p) ==
    \/ OpenLockFile(p) \/ Flock(p) \/ FlockRefused(p) \/ Opened(p) \/ OpenFails(p)
    \/ Close(p) \/ Die(p) \/ DropClose(p) \/ Destroy(p)

(* Drop on a store that is closed already; Destroy of a store nobody uses. *)
Marks(p) == stage[p] = "out" /\ stage' = [stage EXCEPT ![p] = "dropping"] /\ UNCHANGED <<dir, inodes, fd, locked>>
Removes == dir' = 0 /\ UNCHANGED <<inodes, fd, locked, stage>>

LEMMA InitLock == LockInit => LInv
BY LockAssumption DEF LockInit, LInv, Stages, Past

LEMMA ReleaseKeeps ==
    ASSUME LInv, NEW p \in Openers, NEW then \in {"out", "dropping"},
           Release(p, then), UNCHANGED dir
    PROVE  LInv'
BY DEF LInv, Stages, Release, Past

LEMMA MoveKeeps ==
    ASSUME LInv, NEW p \in Openers, Moves(p)
    PROVE  LInv'
<1>1. CASE OpenLockFile(p)
  <2>1. dir' \in 1 .. inodes' /\ inodes' \in Nat /\ inodes <= inodes' /\ p \notin locked /\ inodes' <= MaxInodes
    BY <1>1, LockAssumption DEF OpenLockFile, LInv, Past
  <2>2. /\ fd' = [fd EXCEPT ![p] = dir'] /\ stage' = [stage EXCEPT ![p] = "locking"]
        /\ locked' = locked
    BY <1>1, Zenon DEF OpenLockFile
  <2>3. fd' \in [Openers -> 0 .. inodes'] /\ stage' \in [Openers -> Stages]
    BY <2>1, <2>2 DEF LInv, Stages
  <2>4. \A q \in Openers : q # p => fd'[q] = fd[q] /\ stage'[q] = stage[q]
    BY <2>2, Zenon DEF LInv
  <2>5. fd'[p] = dir' /\ stage'[p] = "locking"
    BY <2>2, Zenon DEF LInv
  <2> QED BY <2>1, <2>2, <2>3, <2>4, <2>5 DEF LInv, Past
<1>2. CASE Flock(p)
  BY <1>2 DEF Flock, Contended, LInv, Stages, Past
<1>3. CASE FlockRefused(p) \/ OpenFails(p) \/ Close(p) \/ Die(p) \/ DropClose(p)
  BY <1>3, ReleaseKeeps, Zenon DEF FlockRefused, OpenFails, Close, Die, DropClose
<1>4. CASE Opened(p)
  BY <1>4 DEF Opened, LInv, Stages, Past
<1>5. CASE Destroy(p)
  BY <1>5 DEF Destroy, LInv, Stages, Past
<1> QED BY <1>1, <1>2, <1>3, <1>4, <1>5, Zenon DEF Moves

LEMMA OtherKeeps ==
    ASSUME LInv, Removes \/ UNCHANGED lvars \/ \E p \in Openers : Marks(p)
    PROVE  LInv'
<1>1. CASE Removes
  BY <1>1 DEF Removes, LInv, Past
<1>2. CASE UNCHANGED lvars
  BY <1>2, Zenon DEF lvars, LInv, Past
<1>3. ASSUME NEW p \in Openers, Marks(p) PROVE LInv'
  BY <1>3 DEF Marks, LInv, Stages, Past
<1> QED BY <1>1, <1>2, <1>3, Zenon

LEMMA LockFacts ==
    ASSUME LInv
    PROVE  OneWriterPerFile /\ NoStaleLock
<1>1. NoStaleLock
  BY Zenon DEF LInv, NoStaleLock
<1>2. ASSUME NEW p \in Openers, NEW q \in Openers, Past(p), Past(q), p # q
      PROVE  fd[p] # fd[q] /\ inodes > 1
  BY <1>2 DEF LInv
<1> QED BY <1>1, <1>2, Zenon DEF OneWriterPerFile

(* However Open, Close, Drop, deaths and removals of the LOCK file         *)
(* interleave, no two openers are past the lock of one file, and no lock is*)
(* held by an opener that does not use the store (acquireLock, Destroy).   *)
THEOREM LockCorrect == LockSpecDrop => [](OneWriterPerFile /\ NoStaleLock)
<1>1. LInv /\ [LockNextDrop]_lvars => LInv'
  <2>1. [LockNextDrop]_lvars => UNCHANGED lvars \/ \E p \in Openers : Moves(p)
    BY Zenon DEF LockNextDrop, LockNext, Moves
  <2> QED BY <2>1, MoveKeeps, OtherKeeps, Zenon
<1> QED BY <1>1, InitLock, LockFacts, PTL DEF LockSpecDrop

(* Without a removal every opener has the same file open.                  *)
OneFile == LInv /\ \A p \in Openers : fd[p] # 0 => fd[p] = dir

(* As long as nobody drops or destroys the store, one opener at most is    *)
(* past the lock (acquireLock: a single writer process per store).         *)
THEOREM SingleWriterCorrect == LockSpec => []SingleWriter
<1>1. LockInit => OneFile
  BY InitLock, Zenon DEF LockInit, OneFile
<1>2. ASSUME OneFile, [LockNext]_lvars PROVE OneFile'
  <2>1. ASSUME NEW p \in Openers, OpenLockFile(p) PROVE \A q \in Openers : fd'[q] # 0 => fd'[q] = dir'
    BY <1>2, <2>1, Zenon DEF OneFile, LInv, OpenLockFile
  <2>2. ASSUME NEW p \in Openers,
               \/ Flock(p) \/ FlockRefused(p) \/ Opened(p) \/ OpenFails(p) \/ Close(p) \/ Die(p)
        PROVE  \A q \in Openers : fd'[q] # 0 => fd'[q] = dir'
    BY <1>2, <2>2 DEF OneFile, LInv, Flock, FlockRefused, Opened, OpenFails, Close, Die, Release
  <2>3. CASE UNCHANGED lvars
    BY <1>2, <2>3, OtherKeeps, Zenon DEF OneFile, lvars
  <2>4. LInv'
    BY <1>2, MoveKeeps, OtherKeeps, Zenon DEF OneFile, LockNext, Moves
  <2> QED BY <1>2, <2>1, <2>2, <2>3, <2>4, Zenon DEF OneFile, LockNext
<1>3. OneFile => SingleWriter
  BY Zenon DEF OneFile, LInv, SingleWriter, Past
<1> QED BY <1>1, <1>2, <1>3, PTL DEF LockSpec

-----------------------------------------------------------------------------
(* Objects, handles and the JavaScript thread.  A handle names one object  *)
(* for ever; a store that is being opened belongs to the call in progress. *)
RInv ==
    /\ regNext \in Nat /\ handle \in [Local -> 0 .. regNext]
    /\ registry \subseteq Local /\ shut \subseteq Local /\ registry \cap shut = {}
    /\ \A p, q \in Local : handle[p] = handle[q] /\ handle[p] # 0 => p = q
    /\ \A p \in registry \cup shut : handle[p] # 0
    /\ sync \in {Idle} \cup [op: {"open", "close", "drop"}, db: Local]
    /\ sync.op = "open" => handle[sync.db] = 0
    /\ \A p \in Local : stage[p] \in {"locking", "loading"} => sync.op = "open" /\ sync.db = p
    /\ NoOrphanStore

(* Calls: one that is on its way is on an object that was opened, waiting  *)
(* ones are distinct, and a worker has found the store of its object.      *)
UnderWay == {"waiting", "granted", "launched", "found", "marking"}
CInv ==
    /\ at \in [Calls -> {"none", "waiting"} \cup Holding]
    /\ on \in [Calls -> Local \cup {NoStore}] /\ db \in [Calls -> Local \cup {NoStore}]
    /\ \A c \in Calls : at[c] \in UnderWay => on[c] \in Local /\ handle[on[c]] # 0
    /\ \A c \in Calls : at[c] \in {"found", "marking"} => db[c] = on[c]
    /\ waiters \in Seq(Calls)
    /\ \A i \in DOMAIN waiters : at[waiters[i]] = "waiting"
    /\ \A i, j \in DOMAIN waiters : waiters[i] = waiters[j] => i = j

EInv == LInv /\ RInv /\ CInv

LEMMA InitEmbedded == EmbeddedInit => EInv
<1> SUFFICES ASSUME EmbeddedInit PROVE EInv
  OBVIOUS
<1>1. LInv
  BY InitLock, Zenon DEF EmbeddedInit
<1>2. RInv
  BY EmbeddedAssumption DEF EmbeddedInit, LockInit, RInv, Idle, NoOrphanStore, Past
<1>3. CInv
  BY DEF EmbeddedInit, CInv, Holding, UnderWay
<1> QED BY <1>1, <1>2, <1>3, Zenon DEF EInv

(* A step on one store moves no other.                                     *)
LEMMA MoveQuiet ==
    ASSUME LInv, NEW p \in Openers, Moves(p)
    PROVE  \A q \in Openers : q # p => stage'[q] = stage[q]
BY Zenon DEF LInv, Moves, OpenLockFile, Flock, FlockRefused, Opened, OpenFails, Close, Die,
       DropClose, Destroy, Release

LEMMA LockStep ==
    ASSUME EInv, [EmbeddedNext]_evars
    PROVE  LInv'
<1>0. LInv /\ Local \subseteq Openers /\ RInv /\ CInv
  BY EmbeddedAssumption, Zenon DEF EInv
<1>1. ASSUME NEW p \in Local,
             Open(p) \/ Shut(p, "close") \/ Shut(p, "drop") \/ SyncStep(p)
      PROVE  UNCHANGED lvars \/ Moves(p) \/ Marks(p)
  BY <1>1, Zenon DEF Open, Shut, SyncStep, OpenLocks, OpenThrows, OpenReturns, CloseStore, DropStore,
              DropFiles, Moves, Marks
<1>2. ASSUME NEW p \in Local, NEW c \in Calls, CallAsync(c, p) PROVE UNCHANGED lvars
  BY <1>2, Zenon DEF CallAsync
<1>3. ASSUME NEW c \in Calls, DispatchWaiter(c) \/ Lookup(c) \/ MarkReindexed(c) \/ Callback(c)
      PROVE  UNCHANGED lvars
  BY <1>3, Zenon DEF DispatchWaiter, Lookup, MarkReindexed, Callback
<1>4. ASSUME NEW c \in Calls, Execute(c)
      PROVE  UNCHANGED lvars \/ \E p \in Openers : Moves(p)
  BY <1>0, <1>4, Zenon DEF Execute, CInv, UnderWay, Moves
<1>5. CallbackEnds => UNCHANGED lvars
  BY Zenon DEF CallbackEnds
<1>6. DestroyDir => Removes
  BY Zenon DEF DestroyDir, Removes
<1>7. ASSUME NEW p \in Openers, OtherProcess(p) PROVE Moves(p)
  BY <1>7, Zenon DEF OtherProcess, Moves
<1>8. (UNCHANGED evars) => UNCHANGED lvars
  BY Zenon DEF evars
<1> QED BY <1>0, <1>1, <1>2, <1>3, <1>4, <1>5, <1>6, <1>7, <1>8, MoveKeeps, OtherKeeps, Zenon DEF EmbeddedNext

(* RInv is about the objects, and the stage of their stores.              *)
LEMMA RegistryFrame ==
    ASSUME EInv, UNCHANGED api,
           \A p \in Local : stage'[p] = stage[p] \/ stage'[p] \notin {"locking", "loading", "open"}
    PROVE  RInv'
BY Zenon DEF EInv, RInv, api, NoOrphanStore, Past

LEMMA RegistryStep ==
    ASSUME EInv, [EmbeddedNext]_evars
    PROVE  RInv'
<1>0. LInv /\ Local \subseteq Openers /\ RInv /\ CInv /\ NoStore \notin Local
  BY EmbeddedAssumption, Zenon DEF EInv
<1> DEFINE Called(op, p) == sync = [op |-> op, db |-> p]
<1>1. ASSUME NEW p \in Local, Open(p) PROVE RInv'
  <2>1. /\ UNCHANGED <<regNext, handle, registry, shut>> /\ sync' = [op |-> "open", db |-> p]
        /\ sync = Idle /\ handle[p] = 0 /\ stage' = [stage EXCEPT ![p] = "locking"]
    BY <1>1, Zenon DEF Open, JsFree, OpenLockFile
  <2>2. sync'.op = "open" /\ sync'.db = p /\ sync.op = "none" /\ sync.db = NoStore
    BY <2>1, Zenon DEF Idle
  <2>3. \A q \in Local : stage'[q] = IF q = p THEN "locking" ELSE stage[q]
    BY <1>0, <2>1, Zenon DEF LInv
  <2> QED BY <1>0, <2>1, <2>2, <2>3 DEF RInv, NoOrphanStore, Past
<1>2. ASSUME NEW p \in Local, OpenLocks(p) PROVE RInv'
  <2>1. UNCHANGED api /\ Called("open", p) /\ stage' = [stage EXCEPT ![p] = "loading"]
    BY <1>2, Zenon DEF OpenLocks, Flock
  <2>2. sync.op = "open" /\ sync.db = p
    BY <2>1, Zenon
  <2>3. \A q \in Local : stage'[q] = IF q = p THEN "loading" ELSE stage[q]
    BY <1>0, <2>1, Zenon DEF LInv
  <2> QED BY <1>0, <2>1, <2>2, <2>3 DEF RInv, NoOrphanStore, Past, api
<1>3. ASSUME NEW p \in Local, OpenThrows(p) PROVE RInv'
  <2>1. /\ UNCHANGED <<regNext, handle, registry, shut>> /\ sync' = Idle /\ Called("open", p)
        /\ stage' = [stage EXCEPT ![p] = "out"]
    BY <1>3, Zenon DEF OpenThrows, FlockRefused, OpenFails, Release
  <2>2. sync.op = "open" /\ sync.db = p /\ sync'.op = "none" /\ sync'.db = NoStore
    BY <2>1, Zenon DEF Idle
  <2>3. \A q \in Local : stage'[q] = IF q = p THEN "out" ELSE stage[q]
    BY <1>0, <2>1, Zenon DEF LInv
  <2> QED BY <1>0, <2>1, <2>2, <2>3 DEF RInv, NoOrphanStore, Past
<1>4. ASSUME NEW p \in Local, OpenReturns(p) PROVE RInv'
  <2>1. /\ regNext' = regNext + 1 /\ handle' = [handle EXCEPT ![p] = regNext + 1]
        /\ registry' = registry \cup {p} /\ shut' = shut
        /\ sync' = Idle /\ Called("open", p) /\ stage' = [stage EXCEPT ![p] = "open"]
    BY <1>4, Zenon DEF OpenReturns, Opened, RegPut
  <2>2. sync.op = "open" /\ sync.db = p /\ sync'.op = "none" /\ sync'.db = NoStore
    BY <2>1, Zenon DEF Idle
  <2>3. \A q \in Local : stage'[q] = IF q = p THEN "open" ELSE stage[q]
    BY <1>0, <2>1, Zenon DEF LInv
  <2>4. \A q \in Local : handle'[q] = IF q = p THEN regNext + 1 ELSE handle[q]
    BY <1>0, <2>1, Zenon DEF RInv
  <2>5. handle' \in [Local -> 0 .. regNext'] /\ regNext' \in Nat
    BY <1>0, <2>1 DEF RInv
  <2>6. \A q \in Local : handle[q] \in 0 .. regNext
    BY <1>0, Zenon DEF RInv
  <2>7. p \notin shut
    BY <1>0, <2>2, Zenon DEF RInv
  <2>8. \A q, r \in Local : handle'[q] = handle'[r] /\ handle'[q] # 0 => q = r
    BY <1>0, <2>4, <2>6 DEF RInv
  <2>9. \A q \in registry' \cup shut' : handle'[q] # 0
    BY <1>0, <2>1, <2>4 DEF RInv
  <2>10. \A q \in Local : stage'[q] \notin {"locking", "loading"}
    BY <1>0, <2>2, <2>3, Zenon DEF RInv
  <2>11. NoOrphanStore'
    BY <1>0, <2>1, <2>2, <2>3, Zenon DEF RInv, NoOrphanStore, Past
  <2> QED BY <1>0, <2>1, <2>2, <2>5, <2>7, <2>8, <2>9, <2>10, <2>11 DEF RInv
<1>5. ASSUME NEW p \in Local, NEW op \in {"close", "drop"}, Shut(p, op) PROVE RInv'
  <2>1. /\ UNCHANGED <<stage, regNext, handle>> /\ shut' = shut \cup {p}
        /\ sync = Idle /\ sync' = [op |-> op, db |-> p] /\ handle[p] # 0 /\ p \notin shut
        /\ registry' = registry \ RegGet(handle[p])
    BY <1>5, Zenon DEF Shut, JsFree, lvars
  <2>2. sync'.op = op /\ sync'.db = p /\ sync.op = "none" /\ sync.db = NoStore
    BY <2>1, Zenon DEF Idle
  <2>3. registry' = registry \ {p}
    BY <1>0, <2>1, Zenon DEF RegGet, RInv
  <2> QED BY <1>0, <2>1, <2>2, <2>3, Zenon DEF RInv, NoOrphanStore, Past
<1>6. ASSUME NEW p \in Local, CloseStore(p) \/ DropStore(p) \/ DropFiles(p) PROVE RInv'
  <2>1. UNCHANGED <<regNext, handle, registry, shut>> /\ (Called("close", p) \/ Called("drop", p))
    BY <1>6, Zenon DEF CloseStore, DropStore, DropFiles
  <2>2. sync.op \in {"close", "drop"} /\ sync.db = p
    BY <2>1
  <2>3. \A q \in Local : q # p => stage'[q] = stage[q]
    BY <1>0, <1>6, Zenon DEF LInv, CloseStore, DropStore, DropFiles, Close, DropClose, Destroy, Release, lvars
  <2>4. stage'[p] \notin {"locking", "loading", "open"}
    BY <1>0, <1>6, <2>2, Zenon DEF RInv, LInv, CloseStore, DropStore, DropFiles, Close, DropClose, Destroy,
                             Release, lvars, Stages
  <2>5. sync' = Idle \/ sync' = sync
    BY <1>6, Zenon DEF CloseStore, DropStore, DropFiles
  <2>6. sync' = Idle => sync'.op = "none" /\ sync'.db = NoStore
    BY DEF Idle
  <2> QED BY <1>0, <2>1, <2>2, <2>3, <2>4, <2>5, <2>6, Zenon DEF RInv, NoOrphanStore, Past
<1>7. ASSUME NEW c \in Calls, Execute(c) PROVE RInv'
  <2>1. UNCHANGED api /\ db[c] \in Local
    BY <1>0, <1>7, Zenon DEF Execute, CInv, UnderWay
  <2>2. \A p \in Local : stage'[p] = stage[p] \/ stage'[p] = "out"
    BY <1>0, <1>7, <2>1, Zenon DEF Execute, Close, Release, lvars, LInv
  <2> QED BY <2>1, <2>2, RegistryFrame, Zenon
<1>8. ASSUME NEW p \in Openers, OtherProcess(p) PROVE RInv'
  <2>1. p \notin Local /\ Moves(p) /\ UNCHANGED api
    BY <1>8, Zenon DEF OtherProcess, Moves
  <2> QED BY <1>0, <2>1, MoveQuiet, RegistryFrame, Zenon
<1>9. ASSUME UNCHANGED api, UNCHANGED stage PROVE RInv'
  BY <1>9, RegistryFrame, Zenon
<1>10. (UNCHANGED evars) \/ DestroyDir \/ CallbackEnds
         \/ (\E c \in Calls : \/ DispatchWaiter(c) \/ Lookup(c) \/ MarkReindexed(c) \/ Callback(c)
                              \/ \E p \in Local : CallAsync(c, p))
       => UNCHANGED api /\ UNCHANGED stage
  BY Zenon DEF evars, lvars, DestroyDir, CallbackEnds, DispatchWaiter, Lookup, MarkReindexed, Callback, CallAsync
<1> QED BY <1>1, <1>2, <1>3, <1>4, <1>5, <1>6, <1>7, <1>8, <1>9, <1>10, Zenon DEF EmbeddedNext, SyncStep

(* A slot given back wakes the first waiter, and the others still wait.    *)
LEMMA ReleasedWakes ==
    ASSUME CInv, NEW c \in Calls, at[c] # "waiting", NEW n,
           Released([at EXCEPT ![c] = "none"], n)
    PROVE  /\ at' \in [Calls -> {"none", "waiting"} \cup Holding]
           /\ \A x \in Calls : at'[x] = at[x] \/ (x = c /\ at'[x] = "none")
                                 \/ (at[x] = "waiting" /\ at'[x] = "granted")
           /\ at'[c] = "none"
           /\ waiters' \in Seq(Calls)
           /\ \A i \in DOMAIN waiters' : at'[waiters'[i]] = "waiting"
           /\ \A i, j \in DOMAIN waiters' : waiters'[i] = waiters'[j] => i = j
<1> DEFINE a == [at EXCEPT ![c] = "none"]
<1>1. at \in [Calls -> {"none", "waiting"} \cup Holding] /\ waiters \in Seq(Calls)
  BY Zenon DEF CInv
<1>2. a \in [Calls -> {"none", "waiting"} \cup Holding] /\ a[c] = "none"
      /\ \A x \in Calls : x # c => a[x] = at[x]
  BY <1>1, Zenon
<1>3. CASE waiters = <<>>
  <2>1. at' = a /\ waiters' = waiters
    BY <1>3, Zenon DEF Released
  <2> HIDE DEF a
  <2> QED BY <1>1, <1>2, <1>3, <2>1
<1>4. CASE waiters # <<>>
  <2>1. at' = [a EXCEPT ![Head(waiters)] = "granted"] /\ waiters' = Tail(waiters)
    BY <1>4, Zenon DEF Released
  <2>2. /\ Head(waiters) = waiters[1] /\ waiters[1] \in Calls /\ 1 \in DOMAIN waiters
        /\ waiters' \in Seq(Calls)
        /\ \A i \in DOMAIN waiters' : i + 1 \in DOMAIN waiters /\ waiters'[i] = waiters[i + 1] /\ i # 0 /\ i \in Nat
    BY <1>1, <1>4, <2>1
  <2>3. at[waiters[1]] = "waiting"
    BY <2>2, Zenon DEF CInv
  <2>4. "granted" \in Holding
    BY Zenon DEF Holding
  <2> HIDE DEF a
  <2>5. /\ at' \in [Calls -> {"none", "waiting"} \cup Holding]
        /\ \A x \in Calls : at'[x] = IF x = waiters[1] THEN "granted" ELSE a[x]
    BY <1>2, <2>1, <2>2, <2>4, Zenon
  <2>6. \A i \in DOMAIN waiters' : waiters'[i] # waiters[1] /\ at[waiters'[i]] = "waiting" /\ waiters'[i] \in Calls
    BY <1>1, <2>2 DEF CInv
  <2>7. \A i, j \in DOMAIN waiters' : waiters'[i] = waiters'[j] => i = j
    <3> SUFFICES ASSUME NEW i \in DOMAIN waiters', NEW j \in DOMAIN waiters', waiters'[i] = waiters'[j]
                 PROVE  i = j
      OBVIOUS
    <3>1. i + 1 = j + 1
      BY <2>2 DEF CInv
    <3> QED BY <2>2, <3>1
  <2> QED BY <1>2, <2>2, <2>3, <2>5, <2>6, <2>7, ZenonT(30)
<1> QED BY <1>3, <1>4, Zenon

LEMMA ReleasedKeeps ==
    ASSUME CInv, NEW c \in Calls, at[c] # "waiting", NEW n,
           Released([at EXCEPT ![c] = "none"], n),
           on' \in [Calls -> Local \cup {NoStore}], db' \in [Calls -> Local \cup {NoStore}],
           \A x \in Calls : x # c => on'[x] = on[x] /\ db'[x] = db[x],
           UNCHANGED handle
    PROVE  CInv'
<1>1. /\ at' \in [Calls -> {"none", "waiting"} \cup Holding]
      /\ \A x \in Calls : at'[x] = at[x] \/ (x = c /\ at'[x] = "none")
                            \/ (at[x] = "waiting" /\ at'[x] = "granted")
      /\ at'[c] = "none"
      /\ waiters' \in Seq(Calls)
      /\ \A i \in DOMAIN waiters' : at'[waiters'[i]] = "waiting"
      /\ \A i, j \in DOMAIN waiters' : waiters'[i] = waiters'[j] => i = j
  BY ReleasedWakes, Zenon
<1>2. \A x \in Calls : at'[x] \in UnderWay => on'[x] \in Local /\ handle'[on'[x]] # 0
  BY <1>1 DEF CInv, UnderWay
<1>3. \A x \in Calls : at'[x] \in {"found", "marking"} => db'[x] = on'[x]
  BY <1>1 DEF CInv
<1> QED BY <1>1, <1>2, <1>3, Zenon DEF CInv

(* CInv is about the calls, and the handles of the objects they are on.    *)
LEMMA CallsFrame ==
    ASSUME CInv, UNCHANGED flight, \A p \in Local : handle[p] # 0 => handle'[p] # 0
    PROVE  CInv'
BY Zenon DEF CInv, flight

LEMMA DispatchedKeeps ==
    ASSUME CInv, NEW c \in Calls, at[c] \in {"none", "granted"}, NEW p \in Local, handle[p] # 0, NEW n,
           Dispatched(c, p, n), UNCHANGED <<handle, db>>
    PROVE  CInv'
<1>1. CASE /\ at' = [at EXCEPT ![c] = "launched"] /\ on' = [on EXCEPT ![c] = p] /\ UNCHANGED waiters
  <2>1. at' \in [Calls -> {"none", "waiting"} \cup Holding] /\ on' \in [Calls -> Local \cup {NoStore}]
    BY <1>1, Zenon DEF CInv, Holding
  <2>2. \A x \in Calls : /\ at'[x] = IF x = c THEN "launched" ELSE at[x]
                         /\ on'[x] = IF x = c THEN p ELSE on[x]
    BY <1>1, Zenon DEF CInv
  <2>3. \A i \in DOMAIN waiters : waiters[i] \in Calls
    BY DEF CInv
  <2> QED BY <1>1, <2>1, <2>2, <2>3, Zenon DEF CInv
<1>2. CASE /\ Released([at EXCEPT ![c] = "none"], n) /\ on' = [on EXCEPT ![c] = NoStore]
  <2>1. on' \in [Calls -> Local \cup {NoStore}] /\ \A x \in Calls : x # c => on'[x] = on[x]
    BY <1>2, Zenon DEF CInv
  <2>2. at[c] # "waiting"
    OBVIOUS
  <2>3. db \in [Calls -> Local \cup {NoStore}]
    BY Zenon DEF CInv
  <2> QED BY <1>2, <2>1, <2>2, <2>3, ReleasedKeeps, Zenon
<1> QED BY <1>1, <1>2, Zenon DEF Dispatched

LEMMA CallsStep ==
    ASSUME EInv, [EmbeddedNext]_evars
    PROVE  CInv'
<1>0. LInv /\ RInv /\ CInv
  BY Zenon DEF EInv
<1>1. ASSUME NEW p \in Local, SyncStep(p) \/ Open(p) \/ Shut(p, "close") \/ Shut(p, "drop") PROVE CInv'
  <2>1. UNCHANGED flight
    BY <1>1, Zenon DEF SyncStep, Open, Shut, OpenLocks, OpenThrows, OpenReturns, CloseStore, DropStore, DropFiles
  <2>2. handle' = handle \/ (regNext \in Nat /\ handle' = [handle EXCEPT ![p] = regNext + 1])
    BY <1>0, <1>1, Zenon DEF SyncStep, Open, Shut, OpenLocks, OpenThrows, OpenReturns, CloseStore, DropStore,
                      DropFiles, RegPut, RInv, api
  <2>3. handle \in [Local -> 0 .. regNext]
    BY <1>0, Zenon DEF RInv
  <2>4. \A q \in Local : handle[q] # 0 => handle'[q] # 0
    BY <2>2, <2>3
  <2> QED BY <1>0, <2>1, <2>4, CallsFrame, Zenon
<1>2. ASSUME NEW p \in Local, NEW c \in Calls, CallAsync(c, p) PROVE CInv'
  <2>1. at[c] = "none" /\ handle[p] # 0 /\ UNCHANGED <<handle, db>>
    BY <1>2, Zenon DEF CallAsync, api
  <2>2. CASE Dispatched(c, p, inFlight + 1)
    BY <1>0, <2>1, <2>2, DispatchedKeeps, Zenon
  <2>3. CASE /\ at' = [at EXCEPT ![c] = "waiting"] /\ on' = [on EXCEPT ![c] = p]
             /\ waiters' = Append(waiters, c)
    <3>1. /\ at' \in [Calls -> {"none", "waiting"} \cup Holding] /\ on' \in [Calls -> Local \cup {NoStore}]
          /\ waiters' \in Seq(Calls)
      BY <1>0, <2>3 DEF CInv
    <3>2. \A x \in Calls : /\ at'[x] = IF x = c THEN "waiting" ELSE at[x]
                           /\ on'[x] = IF x = c THEN p ELSE on[x]
      BY <1>0, <2>3, Zenon DEF CInv
    <3>3. \A i \in DOMAIN waiters' : (i \in DOMAIN waiters /\ waiters'[i] = waiters[i] /\ waiters[i] \in Calls)
                                       \/ (i = Len(waiters) + 1 /\ waiters'[i] = c)
      BY <1>0, <2>3 DEF CInv
    <3>4. \A i \in DOMAIN waiters : waiters[i] # c
      BY <1>0, <2>1, Zenon DEF CInv
    <3>5. \A i \in DOMAIN waiters' : at'[waiters'[i]] = "waiting"
      BY <1>0, <3>2, <3>3, <3>4 DEF CInv
    <3>6. \A i, j \in DOMAIN waiters' : waiters'[i] = waiters'[j] => i = j
      BY <1>0, <3>3, <3>4 DEF CInv
    <3> QED BY <1>0, <2>1, <3>1, <3>2, <3>5, <3>6, SMTT(30) DEF CInv
  <2> QED BY <1>2, <2>2, <2>3, Zenon DEF CallAsync
<1>3. ASSUME NEW c \in Calls, DispatchWaiter(c) PROVE CInv'
  <2>1. at[c] = "granted" /\ Dispatched(c, on[c], inFlight) /\ UNCHANGED <<handle, db>>
    BY <1>3, Zenon DEF DispatchWaiter, api
  <2>2. on[c] \in Local /\ handle[on[c]] # 0
    BY <1>0, <2>1, Zenon DEF CInv, UnderWay
  <2> QED BY <1>0, <2>1, <2>2, DispatchedKeeps, Zenon
<1>4. ASSUME NEW c \in Calls, NEW to \in {"refused", "found", "marking", "ran"},
             at[c] \in {"launched", "found", "marking"}, at' = [at EXCEPT ![c] = to],
             db' = db \/ (db' = [db EXCEPT ![c] = on[c]] /\ on[c] \in Local), to \in {"found", "marking"} => db'[c] = on[c],
             UNCHANGED <<handle, on, waiters>>
      PROVE  CInv'
  <2>1. at' \in [Calls -> {"none", "waiting"} \cup Holding] /\ db' \in [Calls -> Local \cup {NoStore}]
    BY <1>0, <1>4, Zenon DEF CInv, Holding
  <2>2. \A x \in Calls : at'[x] = IF x = c THEN to ELSE at[x]
    BY <1>0, <1>4, Zenon DEF CInv
  <2>3. \A x \in Calls : x # c => db'[x] = db[x]
    BY <1>0, <1>4, Zenon DEF CInv
  <2>4. \A i \in DOMAIN waiters : waiters[i] \in Calls /\ waiters[i] # c
    BY <1>0, <1>4 DEF CInv
  <2>5. on[c] \in Local /\ handle[on[c]] # 0
    BY <1>0, <1>4, Zenon DEF CInv, UnderWay
  <2> QED BY <1>0, <1>4, <2>1, <2>2, <2>3, <2>4, <2>5 DEF CInv
<1>5. ASSUME NEW c \in Calls, Lookup(c) PROVE CInv'
  <2>1. at[c] = "launched" /\ UNCHANGED <<handle, on, waiters>>
    BY <1>5, Zenon DEF Lookup, api
  <2>2. on[c] \in Local /\ handle[on[c]] # 0
    BY <1>0, <2>1, Zenon DEF CInv, UnderWay
  <2>3. RegGet(handle[on[c]]) \subseteq {on[c]}
    BY <1>0, <2>2, Zenon DEF RegGet, RInv
  <2>4. \/ at' = [at EXCEPT ![c] = "refused"] /\ db' = db
        \/ at' = [at EXCEPT ![c] = "found"] /\ db' = [db EXCEPT ![c] = on[c]]
    BY <1>5, <2>3, Zenon DEF Lookup
  <2>5. db \in [Calls -> Local \cup {NoStore}]
    BY <1>0, Zenon DEF CInv
  <2> QED BY <1>4, <2>1, <2>2, <2>4, <2>5, Zenon
<1>6. ASSUME NEW c \in Calls, Execute(c) PROVE CInv'
  <2>1. /\ at[c] = "found" /\ UNCHANGED <<handle, on, waiters, db>>
        /\ \E to \in {"refused", "marking", "ran"} : at' = [at EXCEPT ![c] = to]
    BY <1>6, Zenon DEF Execute, api
  <2>2. db[c] = on[c]
    BY <1>0, <2>1, Zenon DEF CInv
  <2> QED BY <1>4, <2>1, <2>2, Zenon
<1>9. ASSUME NEW c \in Calls, MarkReindexed(c) PROVE CInv'
  <2>1. /\ at[c] = "marking" /\ UNCHANGED <<handle, on, waiters, db>>
        /\ \E to \in {"refused", "ran"} : at' = [at EXCEPT ![c] = to]
    BY <1>9, Zenon DEF MarkReindexed, api
  <2> QED BY <1>4, <2>1, Zenon
<1>7. ASSUME NEW c \in Calls, Callback(c) PROVE CInv'
  <2>1. /\ at[c] # "waiting" /\ Released([at EXCEPT ![c] = "none"], inFlight) /\ UNCHANGED handle
        /\ on' = [on EXCEPT ![c] = NoStore] /\ db' = [db EXCEPT ![c] = NoStore]
    BY <1>7, Zenon DEF Callback, api
  <2>2. /\ on' \in [Calls -> Local \cup {NoStore}] /\ db' \in [Calls -> Local \cup {NoStore}]
        /\ \A x \in Calls : x # c => on'[x] = on[x] /\ db'[x] = db[x]
    BY <1>0, <2>1, Zenon DEF CInv
  <2> QED BY <1>0, <2>1, <2>2, ReleasedKeeps, Zenon
<1>8. ASSUME CallbackEnds \/ DestroyDir \/ (\E p \in Openers : OtherProcess(p)) \/ UNCHANGED evars PROVE CInv'
  <2>1. UNCHANGED <<handle, at, on, db, waiters>>
    BY <1>8, Zenon DEF CallbackEnds, DestroyDir, OtherProcess, evars, api, flight
  <2> QED BY <1>0, <2>1, Zenon DEF CInv
<1> QED BY <1>1, <1>2, <1>3, <1>5, <1>6, <1>7, <1>8, <1>9, Zenon DEF EmbeddedNext

(* The inductive invariant: the locks (LInv), the objects of nteedb-js and *)
(* the registry of the C library (RInv), the asynchronous calls (CInv).    *)
THEOREM EmbeddedInvariant == EmbeddedSpec => []EInv
<1>1. EInv /\ [EmbeddedNext]_evars => EInv'
  <2> SUFFICES ASSUME EInv, [EmbeddedNext]_evars PROVE EInv'
    OBVIOUS
  <2>1. LInv'
    BY LockStep, Zenon
  <2>2. RInv'
    BY RegistryStep, Zenon
  <2>3. CInv'
    BY CallsStep, Zenon
  <2> QED BY <2>1, <2>2, <2>3, Zenon DEF EInv
<1> QED BY InitEmbedded, <1>1, PTL DEF EmbeddedSpec

(* With any number of objects, calls and processes, a dropped directory    *)
(* never lets two openers past the lock of one file, and no lock outlives  *)
(* its use (acquireLock, OpenDB, Close, Drop).                             *)
THEOREM EmbeddedLockCorrect == EmbeddedSpec => [](OneWriterPerFile /\ NoStaleLock)
<1>1. EInv => OneWriterPerFile /\ NoStaleLock
  BY LockFacts, Zenon DEF EInv
<1> QED BY EmbeddedInvariant, <1>1, PTL

(* Every store that this process holds open is one it can close (OpenDB,   *)
(* RegDelete, Close, Drop).                                                *)
THEOREM NoOrphanCorrect == EmbeddedSpec => []NoOrphanStore
<1>1. EInv => NoOrphanStore
  BY Zenon DEF EInv, RInv
<1> QED BY EmbeddedInvariant, <1>1, PTL

(* An asynchronous call takes effect on the store of its own object only,  *)
(* and on none whose close() or drop() has returned, but for the mark of a *)
(* reindex whose rewrite was committed before (regGet, regDelete, Reindex).*)
THEOREM StayHomeCorrect == EmbeddedSpec => CallsStayHome
<1> DEFINE Home == \A c \in Calls :
                     TakesEffect(c) =>
                         /\ db[c] = on[c]
                         /\ on[c] \in shut => sync.db = on[c] \/ at[c] = "marking"
<1>1. EInv /\ [EmbeddedNext]_evars => [Home]_evars
  <2> SUFFICES ASSUME EInv, EmbeddedNext, NEW c \in Calls, TakesEffect(c)
               PROVE  db[c] = on[c] /\ (on[c] \in shut => sync.db = on[c] \/ at[c] = "marking")
    OBVIOUS
  <2>0. at'[c] # at[c] /\ at'[c] \in {"marking", "ran"}
    BY Zenon DEF TakesEffect
  <2>1. CInv /\ RInv /\ at \in [Calls -> {"none", "waiting"} \cup Holding]
    BY Zenon DEF EInv, CInv
  <2>2. ASSUME NEW x \in Calls, NEW n, at[x] # "waiting", Released([at EXCEPT ![x] = "none"], n) PROVE FALSE
    BY <2>0, <2>1, <2>2, ReleasedWakes, Zenon
  <2>3. ASSUME NEW x \in Calls, NEW p, NEW n, at[x] \in {"none", "granted"}, Dispatched(x, p, n) PROVE FALSE
    BY <2>0, <2>1, <2>2, <2>3, Zenon DEF Dispatched
  <2>4. ASSUME NEW x \in Calls,
               DispatchWaiter(x) \/ Lookup(x) \/ Callback(x) \/ (\E p \in Local : CallAsync(x, p))
        PROVE  FALSE
    <3>1. CASE DispatchWaiter(x)
      BY <2>3, <3>1 DEF DispatchWaiter
    <3>2. CASE Lookup(x)
      BY <2>0, <2>1, <3>2, Zenon DEF Lookup
    <3>3. CASE Callback(x)
      BY <2>2, <3>3, Zenon DEF Callback
    <3>4. ASSUME NEW p \in Local, CallAsync(x, p) PROVE FALSE
      BY <2>0, <2>1, <2>3, <3>4 DEF CallAsync
    <3> QED BY <2>4, <3>1, <3>2, <3>3, <3>4, Zenon
  <2>5. PICK x \in Calls : Execute(x) \/ MarkReindexed(x)
    BY <2>0, <2>4, Zenon DEF EmbeddedNext, SyncStep, Open, Shut, OpenLocks, OpenThrows, OpenReturns,
                CloseStore, DropStore, DropFiles, DestroyDir, CallbackEnds, OtherProcess, flight
  <2>6. x = c /\ (at[c] = "marking" \/ (at[c] = "found" /\ stage[db[c]] = "open"))
    BY <2>0, <2>1, <2>5, Zenon DEF Execute, MarkReindexed
  <2>7. db[c] = on[c] /\ on[c] \in Local
    BY <2>1, <2>6, Zenon DEF CInv, UnderWay
  <2> QED BY <2>1, <2>6, <2>7, Zenon DEF RInv, NoOrphanStore, Past
<1> QED BY EmbeddedInvariant, <1>1, PTL DEF EmbeddedSpec, CallsStayHome

-----------------------------------------------------------------------------
(* The gate.  A call whose callback runs has given up its slot of the gate *)
(* and still has the one of the library.                                   *)
Hold == {c \in Calls : at[c] \in Holding}
Working == {c \in Calls : at[c] \in {"launched", "found", "marking", "ran", "refused"}}
SInv ==
    /\ turn \in Calls \cup {NoCall} /\ (turn # NoCall => at[turn] = "none")
    /\ native = Working \cup ({turn} \ {NoCall})
    /\ inFlight = Cardinality(Hold) /\ inFlight <= MaxInFlight
    /\ waiters # <<>> => inFlight = MaxInFlight

LEMMA HoldFinite == IsFiniteSet(Hold) /\ Cardinality(Hold) \in Nat
<1>1. Hold \in SUBSET Calls
  BY Zenon DEF Hold
<1>2. IsFiniteSet(Hold)
  BY <1>1, FS_Subset, EmbeddedAssumption, Zenon
<1> QED BY <1>2, FS_CardinalityType, Zenon

(* A slot given back is handed to a waiter, or counted as free.            *)
LEMMA ReleasedCounts ==
    ASSUME CInv, SInv, NEW c \in Hold, Released([at EXCEPT ![c] = "none"], inFlight)
    PROVE  /\ inFlight' = Cardinality(Hold') /\ inFlight' <= MaxInFlight
           /\ waiters' # <<>> => inFlight' = MaxInFlight
           /\ Working' = Working \ {c}
<1> DEFINE a == [at EXCEPT ![c] = "none"]
<1>1. at \in [Calls -> {"none", "waiting"} \cup Holding] /\ waiters \in Seq(Calls) /\ c \in Calls
      /\ at[c] \in Holding /\ "none" \notin Holding /\ "waiting" \notin Holding /\ "granted" \in Holding
  BY Zenon DEF CInv, Hold, Holding
<1>2. /\ a \in [Calls -> {"none", "waiting"} \cup Holding]
      /\ \A x \in Calls : a[x] = IF x = c THEN "none" ELSE at[x]
  BY <1>1, Zenon
<1> HIDE DEF a
<1>3. IsFiniteSet(Hold \ {c}) /\ Cardinality(Hold \ {c}) = Cardinality(Hold) - 1
  BY HoldFinite, FS_RemoveElement, Zenon
<1>4. CASE waiters = <<>>
  <2>1. at' = a /\ inFlight' = inFlight - 1 /\ waiters' = waiters
    BY <1>4, Zenon DEF Released, a
  <2>2. Hold' = Hold \ {c}
    BY <1>1, <1>2, <2>1, Zenon DEF Hold
  <2>3. Working' = Working \ {c}
    BY <1>1, <1>2, <2>1, Zenon DEF Working
  <2> QED BY <1>3, <1>4, <2>1, <2>2, <2>3, HoldFinite, EmbeddedAssumption DEF SInv
<1>5. CASE waiters # <<>>
  <2>1. at' = [a EXCEPT ![Head(waiters)] = "granted"] /\ inFlight' = inFlight
    BY <1>5, Zenon DEF Released, a
  <2>2. Head(waiters) \in Calls /\ at[Head(waiters)] = "waiting"
    BY <1>1, <1>5 DEF CInv
  <2>3. \A x \in Calls : at'[x] = IF x = Head(waiters) THEN "granted" ELSE a[x]
    BY <1>2, <2>1, <2>2, Zenon
  <2>4. Hold' = (Hold \ {c}) \cup {Head(waiters)} /\ Head(waiters) \notin Hold \ {c}
    BY <1>1, <1>2, <2>2, <2>3, Zenon DEF Hold
  <2>5. Working' = Working \ {c}
    BY <1>1, <1>2, <2>2, <2>3, Zenon DEF Working
  <2>6. Cardinality(Hold') = Cardinality(Hold \ {c}) + 1
    BY <1>3, <2>4, FS_AddElement, Zenon
  <2> QED BY <1>3, <1>5, <2>1, <2>5, <2>6, HoldFinite DEF SInv
<1> QED BY <1>4, <1>5, Zenon

LEMMA SlotsStep ==
    ASSUME EInv, SInv, [EmbeddedNext]_evars
    PROVE  SInv'
<1>0. CInv /\ at \in [Calls -> {"none", "waiting"} \cup Holding] /\ NoCall \notin Calls /\ waiters \in Seq(Calls)
  BY EmbeddedAssumption, Zenon DEF EInv, CInv
<1>1. "none" \notin Holding /\ "waiting" \notin Holding /\ "granted" \in Holding
      /\ {"launched", "found", "marking", "ran", "refused"} \subseteq Holding
  BY Zenon DEF Holding
<1>2. Hold \subseteq Calls /\ Working \subseteq Hold /\ inFlight \in Nat
  BY <1>1, HoldFinite, Zenon DEF Hold, Working, SInv
<1>3. ASSUME UNCHANGED <<at, waiters, inFlight, native, turn>> PROVE SInv'
  BY <1>3, Zenon DEF SInv, Hold, Working
<1>4. ASSUME NEW p \in Local, NEW c \in Calls, CallAsync(c, p) PROVE SInv'
  <2>1. at[c] = "none" /\ c # turn /\ turn' = turn
    BY <1>4, Zenon DEF CallAsync
  <2>2. ASSUME inFlight < MaxInFlight, at' = [at EXCEPT ![c] = "launched"],
               native' = native \cup {c}, inFlight' = inFlight + 1, UNCHANGED waiters
        PROVE  SInv'
    <3>1. \A x \in Calls : at'[x] = IF x = c THEN "launched" ELSE at[x]
      BY <1>0, <2>2, Zenon
    <3>2. Hold' = Hold \cup {c} /\ c \notin Hold
      BY <1>1, <2>1, <3>1, Zenon DEF Hold
    <3>3. Working' = Working \cup {c}
      BY <3>1, Zenon DEF Working
    <3>4. Cardinality(Hold') = Cardinality(Hold) + 1
      BY <3>2, HoldFinite, FS_AddElement, Zenon
    <3>5. turn # NoCall => at'[turn] = "none"
      BY <2>1, <3>1, Zenon DEF SInv
    <3> QED BY <1>2, <2>1, <2>2, <3>3, <3>4, <3>5, EmbeddedAssumption DEF SInv
  <2>3. ASSUME inFlight < MaxInFlight, Released([at EXCEPT ![c] = "none"], inFlight + 1), UNCHANGED native
        PROVE  SInv'
    <3>1. waiters = <<>> /\ [at EXCEPT ![c] = "none"] = at
      BY <1>0, <1>2, <2>1, <2>3, EmbeddedAssumption DEF SInv
    <3>2. UNCHANGED <<at, waiters, inFlight>>
      BY <1>2, <2>3, <3>1 DEF Released
    <3> QED BY <1>3, <2>1, <2>3, <3>2, Zenon
  <2>4. ASSUME inFlight >= MaxInFlight, at' = [at EXCEPT ![c] = "waiting"],
               UNCHANGED <<inFlight, native>>
        PROVE  SInv'
    <3>1. \A x \in Calls : at'[x] = IF x = c THEN "waiting" ELSE at[x]
      BY <1>0, <2>4, Zenon
    <3>2. Hold' = Hold /\ Working' = Working
      BY <1>1, <2>1, <3>1, Zenon DEF Hold, Working
    <3>3. turn # NoCall => at'[turn] = "none"
      BY <2>1, <3>1, Zenon DEF SInv
    <3> QED BY <1>2, <2>1, <2>4, <3>2, <3>3, EmbeddedAssumption DEF SInv
  <2> QED BY <1>4, <2>2, <2>3, <2>4, Zenon DEF CallAsync, Dispatched
<1>5. ASSUME NEW c \in Calls, DispatchWaiter(c) PROVE SInv'
  <2>1. at[c] = "granted" /\ turn' = turn /\ c # turn /\ c \in Hold /\ c \notin Working
    BY <1>0, <1>1, <1>5, Zenon DEF DispatchWaiter, SInv, Hold, Working
  <2>2. ASSUME at' = [at EXCEPT ![c] = "launched"], native' = native \cup {c}, inFlight' = inFlight,
               UNCHANGED waiters
        PROVE  SInv'
    <3>1. \A x \in Calls : at'[x] = IF x = c THEN "launched" ELSE at[x]
      BY <1>0, <2>2, Zenon
    <3>2. Hold' = Hold
      BY <1>1, <2>1, <3>1, Zenon DEF Hold
    <3>3. Working' = Working \cup {c}
      BY <3>1, Zenon DEF Working
    <3>4. turn # NoCall => at'[turn] = "none"
      BY <2>1, <3>1, Zenon DEF SInv
    <3> QED BY <2>1, <2>2, <3>2, <3>3, <3>4, Zenon DEF SInv
  <2>3. ASSUME Released([at EXCEPT ![c] = "none"], inFlight), UNCHANGED native PROVE SInv'
    <3>1. turn # NoCall => at'[turn] = "none"
      <4>1. \A x \in Calls : at'[x] = at[x] \/ (x = c /\ at'[x] = "none")
                               \/ (at[x] = "waiting" /\ at'[x] = "granted")
        BY <1>0, <2>1, <2>3, ReleasedWakes, Zenon
      <4> QED BY <2>1, <4>1, Zenon DEF SInv
    <3>2. /\ inFlight' = Cardinality(Hold') /\ inFlight' <= MaxInFlight
          /\ waiters' # <<>> => inFlight' = MaxInFlight
          /\ Working' = Working
      BY <1>0, <2>1, <2>3, ReleasedCounts, Zenon
    <3> QED BY <2>1, <2>3, <3>1, <3>2, Zenon DEF SInv
  <2> QED BY <1>5, <2>2, <2>3, Zenon DEF DispatchWaiter, Dispatched
<1>6. ASSUME NEW c \in Calls, Lookup(c) \/ Execute(c) \/ MarkReindexed(c) PROVE SInv'
  <2>1. /\ at[c] \in {"launched", "found", "marking"} /\ UNCHANGED <<waiters, inFlight, native, turn>>
        /\ \E to \in {"refused", "found", "marking", "ran"} : at' = [at EXCEPT ![c] = to]
    BY <1>6, Zenon DEF Lookup, Execute, MarkReindexed
  <2>2. \A x \in Calls : x # c => at'[x] = at[x]
    BY <1>0, <2>1, Zenon
  <2>3. at'[c] \in {"refused", "found", "marking", "ran"}
    BY <1>0, <2>1, Zenon
  <2>4. Hold' = Hold /\ Working' = Working
    <3>1. at[c] \in Holding /\ at'[c] \in Holding
      BY <1>1, <2>1, <2>3, Zenon
    <3> QED BY <2>1, <2>2, <2>3, <3>1, Zenon DEF Hold, Working
  <2>5. turn # NoCall => at'[turn] = "none"
    BY <2>1, <2>2, Zenon DEF SInv
  <2> QED BY <2>1, <2>4, <2>5, Zenon DEF SInv
<1>7. ASSUME NEW c \in Calls, Callback(c) PROVE SInv'
  <2>1. /\ at[c] \in {"ran", "refused"} /\ turn = NoCall /\ turn' = c /\ native' = native
        /\ Released([at EXCEPT ![c] = "none"], inFlight)
    BY <1>7, Zenon DEF Callback
  <2>2. c \in Hold /\ c \in Working /\ native = Working /\ at[c] # "waiting"
    BY <1>1, <2>1, Zenon DEF Hold, Working, SInv
  <2>3. at'[c] = "none"
    BY <1>0, <2>1, <2>2, ReleasedWakes, Zenon
  <2>4. /\ inFlight' = Cardinality(Hold') /\ inFlight' <= MaxInFlight
        /\ waiters' # <<>> => inFlight' = MaxInFlight
        /\ Working' = Working \ {c}
    BY <1>0, <2>1, <2>2, ReleasedCounts, Zenon
  <2> QED BY <1>0, <2>1, <2>2, <2>3, <2>4, Zenon DEF SInv
<1>8. ASSUME CallbackEnds PROVE SInv'
  <2>1. native' = native \ {turn} /\ turn' = NoCall /\ turn # NoCall /\ UNCHANGED <<at, waiters, inFlight>>
    BY <1>8, Zenon DEF CallbackEnds
  <2>2. turn \notin Working
    BY <2>1, Zenon DEF SInv, Working
  <2>3. Hold' = Hold /\ Working' = Working
    BY <2>1, Zenon DEF Hold, Working
  <2> QED BY <2>1, <2>2, <2>3, Zenon DEF SInv
<1>9. ASSUME \/ UNCHANGED evars \/ DestroyDir \/ \E p \in Openers : OtherProcess(p)
             \/ \E p \in Local : SyncStep(p) \/ Open(p) \/ Shut(p, "close") \/ Shut(p, "drop")
      PROVE  SInv'
  <2>1. UNCHANGED flight
    BY <1>9, Zenon DEF evars, DestroyDir, OtherProcess, SyncStep, Open, Shut, OpenLocks, OpenThrows,
                OpenReturns, CloseStore, DropStore, DropFiles
  <2> QED BY <1>3, <2>1, Zenon DEF flight
<1> QED BY <1>4, <1>5, <1>6, <1>7, <1>8, <1>9, Zenon DEF EmbeddedNext

(* The slots of the gate of nteedb-js and of the library under it (SInv).  *)
THEOREM SlotsInvariant == EmbeddedSpec => []SInv
<1>1. EmbeddedInit => SInv
  <2> SUFFICES ASSUME EmbeddedInit PROVE SInv
    OBVIOUS
  <2>1. Hold = {} /\ Working = {}
    BY Zenon DEF EmbeddedInit, Hold, Working, Holding
  <2> QED BY <2>1, FS_EmptySet, EmbeddedAssumption DEF EmbeddedInit, SInv
<1>2. EInv /\ SInv /\ [EmbeddedNext]_evars => SInv'
  BY SlotsStep, Zenon
<1> QED BY EmbeddedInvariant, <1>1, <1>2, PTL DEF EmbeddedSpec

(* Whatever MaxInFlight and NativeMax > MaxInFlight are, the counter of the*)
(* gate is exact, nobody waits while a slot is free, and a call that may be*)
(* dispatched finds a slot of the library (callAsync, release, dispatch).  *)
THEOREM GateCorrect == EmbeddedSpec => []GateExact
<1>1. SInv => GateExact
  <2> SUFFICES ASSUME SInv PROVE GateExact
    OBVIOUS
  <2>1. native \ {turn} \subseteq Hold /\ native \subseteq (native \ {turn}) \cup {turn}
    BY Zenon DEF SInv, Working, Hold, Holding
  <2> DEFINE rest == native \ {turn}
  <2>2. IsFiniteSet(rest) /\ Cardinality(rest) <= Cardinality(Hold) /\ Cardinality(rest) \in Nat
        /\ (Cardinality(Hold) = Cardinality(rest) => Hold = rest)
    BY <2>1, HoldFinite, FS_Subset, FS_CardinalityType, Zenon
  <2>3. IsFiniteSet(rest \cup {turn}) /\ Cardinality(rest \cup {turn}) <= Cardinality(rest) + 1
    BY <2>2, FS_AddElement
  <2>4. Cardinality(native) <= Cardinality(rest) + 1 /\ Cardinality(native) \in Nat
    <3>1. IsFiniteSet(native) /\ Cardinality(native) <= Cardinality(rest \cup {turn})
      BY <2>1, <2>3, FS_Subset, Zenon
    <3>2. Cardinality(native) \in Nat /\ Cardinality(rest \cup {turn}) \in Nat
      BY <2>3, <3>1, FS_CardinalityType, Zenon
    <3> QED BY <2>2, <2>3, <3>1, <3>2
  <2>5. ASSUME NEW c \in Calls, at[c] = "granted" PROVE Cardinality(rest) < Cardinality(Hold)
    <3>1. c \in Hold /\ c \notin rest
      BY <2>5, EmbeddedAssumption, Zenon DEF SInv, Working, Hold, Holding
    <3> QED BY <2>2, <3>1, HoldFinite
  <2>6. inFlight = Cardinality({c \in Calls : at[c] \in Holding})
    BY Zenon DEF SInv, Hold
  <2> HIDE DEF rest
  <2>7. inFlight < MaxInFlight \/ (\E c \in Calls : at[c] = "granted") => Cardinality(native) < NativeMax
    BY <2>2, <2>4, <2>5, HoldFinite, EmbeddedAssumption DEF SInv
  <2> QED BY <2>6, <2>7, Zenon DEF GateExact, SInv
<1> QED BY SlotsInvariant, <1>1, PTL

(* The variables keep their types: the lock file, the objects, the calls   *)
(* and the gate of nteedb-js, whatever fails or is closed.                 *)
THEOREM EmbeddedTypes == EmbeddedSpec => []EmbeddedTypeOK
<1>1. EInv /\ SInv => EmbeddedTypeOK
  <2> SUFFICES ASSUME LInv, RInv, CInv, SInv PROVE EmbeddedTypeOK
    BY Zenon DEF EInv
  <2>1. LockTypeOK
    BY LockAssumption DEF LInv, LockTypeOK, Stages, Past
  <2>2. inFlight \in 0 .. MaxInFlight /\ native \subseteq Calls
    BY HoldFinite, EmbeddedAssumption DEF SInv, Working
  <2> QED BY <2>1, <2>2, Zenon DEF EmbeddedTypeOK, RInv, CInv, SInv
<1> QED BY EmbeddedInvariant, SlotsInvariant, <1>1, PTL

-----------------------------------------------------------------------------
Held == {"cs", "waithint", "swap", "hint", "failwait"}
Gated == {"build", "swaplock", "swap", "hint", "failwait", "lower"}

(* Where each goroutine may be.                                            *)
Places ==
    /\ \A p \in Writers : pc[p] \in {"idle", "lock", "parked", "cs", "waithint"}
    /\ \A p \in Readers : pc[p] \in {"idle", "read"}
    /\ \A p \in Compactors : pc[p] \in {"idle", "lock", "parked", "cs"} \cup Gated
    /\ \A p \in Closers : pc[p] \in {"idle", "waitreap", "lock", "parked", "cs", "waithint", "done"}
    /\ pc[Reaper] \in {"idle", "lock", "parked", "cs", "gone"}
    /\ pc[HintWriter] \in {"idle", "flush", "check", "hint"}

(* The lock is held by the one goroutine that is in a section under it.    *)
LockInv ==
    /\ mu \in Lockers \cup {Nobody}
    /\ \A p \in Lockers : mu = p <=> pc[p] \in Held
    /\ mu # Nobody => Reading = {}

(* The gate is up exactly during a rebuild, one at a time, and then nobody *)
(* else is in a section of lockWrite.                                      *)
GateInv ==
    /\ compacting <=> \E c \in Compactors : pc[c] \in Gated
    /\ \A c, d \in Compactors : pc[c] \in Gated /\ pc[d] \in Gated => c = d
    /\ compacting => \A p \in Lockers : pc[p] \notin {"cs", "waithint"}

(* The handles are closed only during a swap and on a closed store, and a  *)
(* closed store whose hint writer still runs is one that waits for it.     *)
HandleInv ==
    /\ ~closed /\ ~handles => \E c \in Compactors : pc[c] = "swap"
    /\ \A c \in Compactors : pc[c] \in {"build", "swaplock", "swap"} => ~closed
    /\ \A p \in Closers : pc[p] \in {"waithint", "done"} => closed
    /\ \A p \in Closers : pc[p] = "done" => ~hintBusy
    /\ closed /\ hintBusy => \/ \E p \in Closers : pc[p] = "waithint"
                             \/ \E c \in Compactors : pc[c] = "failwait"

IInv ==
    /\ pc = [p \in Procs |-> pc[p]]
    /\ hintMu \in {HintWriter, Nobody}
    /\ compacting \in BOOLEAN /\ closed \in BOOLEAN /\ handles \in BOOLEAN
    /\ hintBusy \in BOOLEAN /\ reapStop \in BOOLEAN /\ rebuilds \in 0 .. MaxRebuilds
    /\ Places /\ LockInv /\ GateInv /\ HandleInv


LEMMA InitInv == Init => IInv
<1> SUFFICES ASSUME Init PROVE IInv
  OBVIOUS
<1>1. \A p \in Procs : pc[p] = "idle"
  BY Zenon DEF Init
<1>2. Places /\ Reading = {}
  BY <1>1, Zenon DEF Places, Procs, Lockers, Reading
<1>3. LockInv /\ GateInv /\ HandleInv
  BY <1>1, <1>2, GateAssumption, Zenon DEF Init, LockInv, GateInv, HandleInv, Procs, Lockers, Held, Gated
<1>4. pc = [p \in Procs |-> pc[p]]
  BY <1>1, Zenon DEF Init
<1>5. rebuilds \in 0 .. MaxRebuilds
  BY GateAssumption DEF Init
<1> QED BY <1>2, <1>3, <1>4, <1>5, Zenon DEF Init, IInv

LEMMA StepInv ==
    ASSUME IInv, Next
    PROVE  IInv'
<1> USE GateAssumption DEF IInv, Procs, Lockers, Reading, Held, Gated
<1>1. ASSUME NEW p \in Lockers, LockWrite(p) PROVE IInv'
  <2> USE <1>1 DEF LockWrite, Go, Free
  <2>1. Places'
    BY SMTT(30) DEF Places
  <2>2. LockInv'
    BY SMTT(30) DEF Places, LockInv
  <2>3. GateInv'
    BY SMTT(30) DEF Places, LockInv, GateInv
  <2>4. HandleInv'
    BY SMTT(30) DEF Places, LockInv, GateInv, HandleInv
  <2> QED BY <2>1, <2>2, <2>3, <2>4, Zenon
<1>2. ASSUME NEW p \in Writers, WriteCall(p) PROVE IInv'
  <2> USE <1>2 DEF WriteCall, Go
  <2>1. Places'
    BY Zenon DEF Places
  <2>2. LockInv'
    BY ZenonT(30) DEF Places, LockInv
  <2>3. GateInv'
    BY Zenon DEF Places, LockInv, GateInv
  <2>4. HandleInv'
    BY Zenon DEF Places, LockInv, GateInv, HandleInv
  <2> QED BY <2>1, <2>2, <2>3, <2>4, Zenon
<1>3. ASSUME NEW p \in Writers, WriteBody(p) PROVE IInv'
  <2> USE <1>3 DEF WriteBody, Go, Unlock, MaybeWriteHint
  <2>1. Places'
    BY ZenonT(30) DEF Places
  <2>2. LockInv'
    BY SMTT(30) DEF Places, LockInv
  <2>3. GateInv'
    BY SMTT(30) DEF Places, LockInv, GateInv
  <2>4. HandleInv'
    BY SMTT(30) DEF Places, LockInv, GateInv, HandleInv
  <2> QED BY <2>1, <2>2, <2>3, <2>4, Zenon
<1>4. ASSUME NEW p \in Writers, WriteSyncHint(p) PROVE IInv'
  <2> USE <1>4 DEF WriteSyncHint, Go
  <2>1. Places'
    BY Zenon DEF Places
  <2>2. LockInv'
    BY ZenonT(30) DEF Places, LockInv
  <2>3. GateInv'
    BY Zenon DEF Places, LockInv, GateInv
  <2>4. HandleInv'
    BY SMTT(30) DEF Places, LockInv, GateInv, HandleInv
  <2> QED BY <2>1, <2>2, <2>3, <2>4, Zenon
<1>5. ASSUME NEW p \in Writers, SyncHint(p) PROVE IInv'
  <2> USE <1>5 DEF SyncHint, Go, Unlock
  <2>1. Places'
    BY Zenon DEF Places
  <2>2. LockInv'
    BY SMTT(30) DEF Places, LockInv
  <2>3. GateInv'
    BY Zenon DEF Places, LockInv, GateInv
  <2>4. HandleInv'
    BY SMTT(30) DEF Places, LockInv, GateInv, HandleInv
  <2> QED BY <2>1, <2>2, <2>3, <2>4, Zenon
<1>6. ASSUME NEW p \in Readers, ReadLock(p) PROVE IInv'
  <2> USE <1>6 DEF ReadLock, Go
  <2>1. Places'
    BY SMTT(30) DEF Places
  <2>2. LockInv'
    BY Zenon DEF Places, LockInv
  <2>3. GateInv'
    BY ZenonT(30) DEF Places, LockInv, GateInv
  <2>4. HandleInv'
    BY Zenon DEF Places, LockInv, GateInv, HandleInv
  <2> QED BY <2>1, <2>2, <2>3, <2>4, Zenon
<1>7. ASSUME NEW p \in Readers, ReadUnlock(p) PROVE IInv'
  <2> USE <1>7 DEF ReadUnlock, Go
  <2>1. Places'
    BY Zenon DEF Places
  <2>2. LockInv'
    BY Zenon DEF Places, LockInv
  <2>3. GateInv'
    BY Zenon DEF Places, LockInv, GateInv
  <2>4. HandleInv'
    BY Zenon DEF Places, LockInv, GateInv, HandleInv
  <2> QED BY <2>1, <2>2, <2>3, <2>4, Zenon
<1>8. ASSUME ReapWake PROVE IInv'
  <2> USE <1>8 DEF ReapWake, Go
  <2>1. Places'
    BY Zenon DEF Places
  <2>2. LockInv'
    BY SMTT(30) DEF Places, LockInv
  <2>3. GateInv'
    BY SMTT(30) DEF Places, LockInv, GateInv
  <2>4. HandleInv'
    BY SMTT(30) DEF Places, LockInv, GateInv, HandleInv
  <2> QED BY <2>1, <2>2, <2>3, <2>4, Zenon
<1>9. ASSUME ReapBody PROVE IInv'
  <2> USE <1>9 DEF ReapBody, Go, Unlock, MaybeWriteHint
  <2>1. Places'
    BY Zenon DEF Places
  <2>2. LockInv'
    BY SMTT(30) DEF Places, LockInv
  <2>3. GateInv'
    BY SMTT(30) DEF Places, LockInv, GateInv
  <2>4. HandleInv'
    BY SMTT(30) DEF Places, LockInv, GateInv, HandleInv
  <2> QED BY <2>1, <2>2, <2>3, <2>4, Zenon
<1>10. ASSUME HintFlush PROVE IInv'
  <2> USE <1>10 DEF HintFlush, Go
  <2>1. Places'
    BY Zenon DEF Places
  <2>2. LockInv'
    BY SMTT(30) DEF Places, LockInv
  <2>3. GateInv'
    BY SMTT(30) DEF Places, LockInv, GateInv
  <2>4. HandleInv'
    BY SMTT(30) DEF Places, LockInv, GateInv, HandleInv
  <2> QED BY <2>1, <2>2, <2>3, <2>4, Zenon
<1>11. ASSUME HintLock PROVE IInv'
  <2> USE <1>11 DEF HintLock, Go
  <2>1. Places'
    BY Zenon DEF Places
  <2>2. LockInv'
    BY SMTT(30) DEF Places, LockInv
  <2>3. GateInv'
    BY SMTT(30) DEF Places, LockInv, GateInv
  <2>4. HandleInv'
    BY Zenon DEF Places, LockInv, GateInv, HandleInv
  <2> QED BY <2>1, <2>2, <2>3, <2>4, Zenon
<1>12. ASSUME HintDone PROVE IInv'
  <2> USE <1>12 DEF HintDone, Go
  <2>1. Places'
    BY Zenon DEF Places
  <2>2. LockInv'
    BY Zenon DEF Places, LockInv
  <2>3. GateInv'
    BY Zenon DEF Places, LockInv, GateInv
  <2>4. HandleInv'
    BY Zenon DEF Places, LockInv, GateInv, HandleInv
  <2> QED BY <2>1, <2>2, <2>3, <2>4, Zenon
<1>13. ASSUME NEW c \in Compactors, CompactCall(c) PROVE IInv'
  <2> USE <1>13 DEF CompactCall, Go
  <2>1. Places'
    BY Zenon DEF Places
  <2>2. LockInv'
    BY ZenonT(30) DEF Places, LockInv
  <2>3. GateInv'
    BY Zenon DEF Places, LockInv, GateInv
  <2>4. HandleInv'
    BY Zenon DEF Places, LockInv, GateInv, HandleInv
  <2>5. rebuilds' \in 0 .. MaxRebuilds
    OBVIOUS
  <2> QED BY <2>1, <2>2, <2>3, <2>4, <2>5, Zenon
<1>14. ASSUME NEW c \in Compactors, RaiseGate(c) PROVE IInv'
  <2> USE <1>14 DEF RaiseGate, Go, Unlock
  <2>1. Places'
    BY SMTT(30) DEF Places
  <2>2. LockInv'
    BY SMTT(30) DEF Places, LockInv
  <2>3. GateInv'
    BY SMTT(30) DEF Places, LockInv, GateInv
  <2>4. HandleInv'
    BY SMTT(30) DEF Places, LockInv, GateInv, HandleInv
  <2> QED BY <2>1, <2>2, <2>3, <2>4, Zenon
<1>15. ASSUME NEW c \in Compactors, BuildRewrite(c) PROVE IInv'
  <2> USE <1>15 DEF BuildRewrite, Go
  <2>1. Places'
    BY ZenonT(30) DEF Places
  <2>2. LockInv'
    BY SMTT(30) DEF Places, LockInv
  <2>3. GateInv'
    BY SMTT(30) DEF Places, LockInv, GateInv
  <2>4. HandleInv'
    BY SMTT(30) DEF Places, LockInv, GateInv, HandleInv
  <2> QED BY <2>1, <2>2, <2>3, <2>4, Zenon
<1>16. ASSUME NEW c \in Compactors, SwapLock(c) PROVE IInv'
  <2> USE <1>16 DEF SwapLock, Go, Free
  <2>1. Places'
    BY Zenon DEF Places
  <2>2. LockInv'
    BY ZenonT(60) DEF Places, LockInv
  <2>3. GateInv'
    BY SMTT(30) DEF Places, LockInv, GateInv
  <2>4. HandleInv'
    BY Zenon DEF Places, LockInv, GateInv, HandleInv
  <2> QED BY <2>1, <2>2, <2>3, <2>4, Zenon
<1>17. ASSUME NEW c \in Compactors, Swap(c) PROVE IInv'
  <2> USE <1>17 DEF Swap, Go
  <2>1. Places'
    BY ZenonT(30) DEF Places
  <2>2. LockInv'
    BY SMTT(30) DEF Places, LockInv
  <2>3. GateInv'
    BY SMTT(30) DEF Places, LockInv, GateInv
  <2>4. HandleInv'
    BY SMTT(30) DEF Places, LockInv, GateInv, HandleInv
  <2> QED BY <2>1, <2>2, <2>3, <2>4, Zenon
<1>18. ASSUME NEW c \in Compactors, SwapHint(c) PROVE IInv'
  <2> USE <1>18 DEF SwapHint, Go, Unlock
  <2>1. Places'
    BY Zenon DEF Places
  <2>2. LockInv'
    BY SMTT(30) DEF Places, LockInv
  <2>3. GateInv'
    BY ZenonT(30) DEF Places, LockInv, GateInv
  <2>4. HandleInv'
    BY Zenon DEF Places, LockInv, GateInv, HandleInv
  <2> QED BY <2>1, <2>2, <2>3, <2>4, Zenon
<1>19. ASSUME NEW c \in Compactors, FailStop(c) PROVE IInv'
  <2> USE <1>19 DEF FailStop, Go, Unlock
  <2>1. Places'
    BY Zenon DEF Places
  <2>2. LockInv'
    BY SMTT(30) DEF Places, LockInv
  <2>3. GateInv'
    BY SMTT(30) DEF Places, LockInv, GateInv
  <2>4. HandleInv'
    BY Zenon DEF Places, LockInv, GateInv, HandleInv
  <2> QED BY <2>1, <2>2, <2>3, <2>4, Zenon
<1>20. ASSUME NEW c \in Compactors, LowerGate(c) PROVE IInv'
  <2> USE <1>20 DEF LowerGate, Free
  <2>1. Places'
    BY Zenon DEF Places
  <2>2. LockInv'
    BY Zenon DEF Places, LockInv
  <2>3. GateInv'
    BY Zenon DEF Places, LockInv, GateInv
  <2>4. HandleInv'
    BY Zenon DEF Places, LockInv, GateInv, HandleInv
  <2> QED BY <2>1, <2>2, <2>3, <2>4, Zenon
<1>21. ASSUME NEW p \in Closers, CloseCall(p) PROVE IInv'
  <2> USE <1>21 DEF CloseCall, Go
  <2>1. Places'
    BY SMTT(30) DEF Places
  <2>2. LockInv'
    BY Zenon DEF Places, LockInv
  <2>3. GateInv'
    BY Zenon DEF Places, LockInv, GateInv
  <2>4. HandleInv'
    BY Zenon DEF Places, LockInv, GateInv, HandleInv
  <2> QED BY <2>1, <2>2, <2>3, <2>4, Zenon
<1>22. ASSUME NEW p \in Closers, CloseReaped(p) PROVE IInv'
  <2> USE <1>22 DEF CloseReaped, Go
  <2>1. Places'
    BY Zenon DEF Places
  <2>2. LockInv'
    BY Zenon DEF Places, LockInv
  <2>3. GateInv'
    BY Zenon DEF Places, LockInv, GateInv
  <2>4. HandleInv'
    BY Zenon DEF Places, LockInv, GateInv, HandleInv
  <2> QED BY <2>1, <2>2, <2>3, <2>4, Zenon
<1>23. ASSUME NEW p \in Closers, CloseBegin(p) PROVE IInv'
  <2> USE <1>23 DEF CloseBegin, Go, Unlock
  <2>1. Places'
    BY SMTT(30) DEF Places
  <2>2. LockInv'
    BY SMTT(60) DEF Places, LockInv
  <2>3. GateInv'
    BY SMTT(30) DEF Places, LockInv, GateInv
  <2>4. HandleInv'
    BY SMTT(30) DEF Places, LockInv, GateInv, HandleInv
  <2> QED BY <2>1, <2>2, <2>3, <2>4, Zenon
<1>24. ASSUME NEW p \in Closers, CloseEnd(p) PROVE IInv'
  <2> USE <1>24 DEF CloseEnd, Go, Unlock
  <2>1. Places'
    BY ZenonT(30) DEF Places
  <2>2. LockInv'
    BY SMTT(30) DEF Places, LockInv
  <2>3. GateInv'
    BY Zenon DEF Places, LockInv, GateInv
  <2>4. HandleInv'
    BY Zenon DEF Places, LockInv, GateInv, HandleInv
  <2> QED BY <2>1, <2>2, <2>3, <2>4, Zenon
<1> QED BY <1>1, <1>2, <1>3, <1>4, <1>5, <1>6, <1>7, <1>8, <1>9, <1>10, <1>11, <1>12,
           <1>13, <1>14, <1>15, <1>16, <1>17, <1>18, <1>19, <1>20, <1>21, <1>22, <1>23, <1>24, Zenon
       DEF Next, WriterStep, HintStep, CompactorStep, CloserStep

(* The inductive invariant: lockWrite, the compaction gate and Close keep  *)
(* the lock, the gate and the file handles in step (IInv).                 *)
THEOREM GateInvariant == Spec => []IInv
<1>1. IInv /\ UNCHANGED vars => IInv'
  BY DEF IInv, vars, Places, LockInv, GateInv, HandleInv, Reading
<1>2. IInv /\ [Next]_vars => IInv'
  BY <1>1, StepInv, Zenon
<1> QED BY InitInv, <1>2, PTL DEF Spec

(* The variables keep their types, and no reader is inside while a writer, *)
(* a swap or Close has the lock (mu is a sync.RWMutex).                    *)
THEOREM GateTypes == Spec => []TypeOK
<1>1. IInv => TypeOK
  <2> SUFFICES ASSUME IInv PROVE TypeOK
    OBVIOUS
  <2>1. \A p \in Procs : pc[p] \in {"idle", "lock", "parked", "cs", "build", "swaplock", "swap",
                                    "hint", "failwait", "lower", "waitreap", "waithint", "read",
                                    "flush", "check", "gone", "done"}
    BY Zenon DEF IInv, Places, Procs, Lockers, Gated
  <2> QED BY <2>1, Zenon DEF IInv, LockInv, TypeOK
<1> QED BY GateInvariant, <1>1, PTL

(* However many writers, readers, rebuilds and Close calls there are, a    *)
(* rebuild reads the old files alone (raiseGate, lockWrite, lowerGate).    *)
THEOREM RebuildAloneCorrect == Spec => []RebuildAlone
<1>1. IInv => RebuildAlone
  <2> SUFFICES ASSUME IInv, NEW c \in Compactors, pc[c] \in {"build", "swaplock"}
               PROVE  /\ handles /\ ~closed
                      /\ \A p \in Lockers \ {c} :
                           pc[p] \notin {"cs", "waithint", "build", "swaplock", "swap", "hint"}
    BY Zenon DEF RebuildAlone
  <2>1. handles /\ ~closed
    BY Zenon DEF IInv, GateInv, HandleInv, Gated
  <2>2. \A p \in Compactors \ {c} : pc[p] \notin Gated
    BY Zenon DEF IInv, GateInv, Gated
  <2>3. \A p \in Lockers : pc[p] \notin {"cs", "waithint"}
    BY Zenon DEF IInv, GateInv, Gated
  <2> QED BY <2>1, <2>2, <2>3, Zenon DEF IInv, Places, Lockers, Gated
<1> QED BY GateInvariant, <1>1, PTL

(* No reader and no writer past the closed check meets a file handle that  *)
(* a swap, a failed swap or Close has closed (swapFiles, failStop, Close). *)
THEOREM HandlesCorrect == Spec => []HandlesUsable
<1>1. IInv => HandlesUsable
  <2> SUFFICES ASSUME IInv PROVE HandlesUsable
    OBVIOUS
  <2>1. ~closed /\ ~handles => compacting /\ mu # Nobody
    BY GateAssumption DEF IInv, LockInv, GateInv, HandleInv, Gated, Held, Lockers
  <2>2. Reading # {} /\ ~closed => handles
    BY <2>1, Zenon DEF IInv, LockInv
  <2>3. \A p \in Writers : pc[p] = "cs" /\ ~closed => handles
    BY <2>1, Zenon DEF IInv, GateInv, Lockers
  <2> QED BY <2>2, <2>3, Zenon DEF IInv, HandleInv, HandlesUsable
<1> QED BY GateInvariant, <1>1, PTL
=============================================================================
