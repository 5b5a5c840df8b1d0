------------------------------ MODULE Embedded ------------------------------
(***************************************************************************)
(* The store embedded in a Node.js process (nteedb-js src/index.js and     *)
(* src/native.js, capi/exports.go and capi/registry.go): NteeDB objects    *)
(* hold handles of a registry; open, close, drop and destroy run on the    *)
(* JavaScript thread, the other operations on worker threads behind a gate *)
(* that keeps the calls in flight below the cap of the FFI library.  Other *)
(* processes open and drop the same store.                                 *)
(*                                                                         *)
(* put and delete also run on the JavaScript thread, from the lookup to the*)
(* answer, and change nothing but the data of the store (Store).           *)
(***************************************************************************)
EXTENDS FileLock, Sequences, FiniteSets

CONSTANTS Local,        \* the objects this process makes: one Open each
          Calls,        \* asynchronous calls that are under way at a time
          NoStore, NoCall,
          MaxInFlight,  \* maxInFlight
          NativeMax     \* the asynchronous calls the FFI library allows

ASSUME EmbeddedAssumption ==
    /\ Local \subseteq Openers /\ NoStore \notin Openers
    /\ IsFiniteSet(Calls) /\ NoCall \notin Calls
    /\ MaxInFlight \in Nat \ {0} /\ NativeMax \in Nat /\ MaxInFlight < NativeMax

VARIABLES regNext,      \* handles given out so far
          handle,       \* the handle of an object, 0 before it is opened
          registry,     \* the objects whose handle is registered
          shut,         \* the objects with #closed set
          sync,         \* the native call the JavaScript thread is in
          at,           \* where an asynchronous call is
          on,           \* the object it was made on
          db,           \* the store its worker has found
          waiters,      \* the calls that wait for a slot
          inFlight,     \* inFlight
          native,       \* the calls that occupy a slot of the FFI library
          turn          \* the call whose callback is on the JavaScript stack

api == <<regNext, handle, registry, shut, sync>>
flight == <<at, on, db, waiters, inFlight, native, turn>>
evars == <<lvars, api, flight>>

Holding == {"granted", "launched", "found", "marking", "ran", "refused"}
Idle == [op |-> "none", db |-> NoStore]

EmbeddedTypeOK ==
    /\ LockTypeOK
    /\ regNext \in Nat /\ handle \in [Local -> 0 .. regNext]
    /\ registry \subseteq Local /\ shut \subseteq Local
    /\ sync \in {Idle} \cup [op: {"open", "close", "drop"}, db: Local]
    /\ at \in [Calls -> {"none", "waiting"} \cup Holding]
    /\ on \in [Calls -> Local \cup {NoStore}]
    /\ db \in [Calls -> Local \cup {NoStore}]
    /\ waiters \in Seq(Calls) /\ inFlight \in 0 .. MaxInFlight
    /\ native \subseteq Calls /\ turn \in Calls \cup {NoCall}

EmbeddedInit ==
    /\ LockInit
    /\ regNext = 0 /\ handle = [p \in Local |-> 0] /\ registry = {} /\ shut = {}
    /\ sync = Idle
    /\ at = [c \in Calls |-> "none"] /\ on = [c \in Calls |-> NoStore]
    /\ db = [c \in Calls |-> NoStore]
    /\ waiters = <<>> /\ inFlight = 0 /\ native = {} /\ turn = NoCall

-----------------------------------------------------------------------------
(* The registry.                                                           *)

(* Mutant: the handle of a closed store is given out again.                *)
RegPutReusing(p) ==
    /\ regNext' = Cardinality(registry) + 1
    /\ handle' = [handle EXCEPT ![p] = regNext'] /\ registry' = registry \cup {p}

RegPut(p) ==
    /\ regNext' = regNext + 1
    /\ handle' = [handle EXCEPT ![p] = regNext'] /\ registry' = registry \cup {p}

RegGet(h) == {p \in registry : handle[p] = h}

-----------------------------------------------------------------------------
(* The calls of the JavaScript thread.  User code runs between any two     *)
(* callbacks and in their promise reactions, never during a native call.   *)
JsFree == sync = Idle

Open(p) ==
    /\ JsFree /\ p \in Local /\ handle[p] = 0
    /\ OpenLockFile(p)
    /\ sync' = [op |-> "open", db |-> p]
    /\ UNCHANGED <<regNext, handle, registry, shut, flight>>

OpenLocks(p) ==
    /\ sync = [op |-> "open", db |-> p]
    /\ Flock(p) /\ UNCHANGED <<api, flight>>

OpenThrows(p) ==
    /\ sync = [op |-> "open", db |-> p]
    /\ FlockRefused(p) \/ OpenFails(p)
    /\ sync' = Idle
    /\ UNCHANGED <<regNext, handle, registry, shut, flight>>

OpenReturns(p) ==
    /\ sync = [op |-> "open", db |-> p]
    /\ Opened(p) /\ RegPut(p)
    /\ sync' = Idle
    /\ UNCHANGED <<shut, flight>>

(* close and drop: the object first, then the registry, then the store.    *)
Shut(p, op) ==
    /\ JsFree /\ p \in Local /\ handle[p] # 0 /\ p \notin shut
    /\ shut' = shut \cup {p}
    /\ registry' = registry \ RegGet(handle[p])
    /\ sync' = [op |-> op, db |-> p]
    /\ UNCHANGED <<lvars, regNext, handle, flight>>

(* Mutant: the handle is released and the store left open.                 *)
CloseStoreNot(p) ==
    /\ sync = [op |-> "close", db |-> p]
    /\ sync' = Idle
    /\ UNCHANGED <<lvars, regNext, handle, registry, shut, flight>>

(* Close on the store; a failed compaction may have closed it before.      *)
CloseStore(p) ==
    /\ sync = [op |-> "close", db |-> p]
    /\ Close(p) \/ (stage[p] # "open" /\ UNCHANGED lvars)
    /\ sync' = Idle
    /\ UNCHANGED <<regNext, handle, registry, shut, flight>>

(* Drop: a Close that reports an error ends it, a store that is closed     *)
(* already does not.                                                       *)
DropStore(p) ==
    /\ sync = [op |-> "drop", db |-> p]
    /\ \/ DropClose(p) /\ UNCHANGED sync
       \/ Close(p) /\ sync' = Idle
       \/ stage[p] = "out" /\ stage' = [stage EXCEPT ![p] = "dropping"]
          /\ UNCHANGED <<dir, inodes, fd, locked, sync>>
    /\ UNCHANGED <<regNext, handle, registry, shut, flight>>

DropFiles(p) ==
    /\ sync = [op |-> "drop", db |-> p]
    /\ Destroy(p)
    /\ sync' = Idle
    /\ UNCHANGED <<regNext, handle, registry, shut, flight>>

(* NteeDB.destroy, on a store that nobody has open, as Destroy demands.    *)
DestroyDir ==
    /\ JsFree /\ dir # 0 /\ \A p \in Openers : ~Past(p)
    /\ dir' = 0
    /\ UNCHANGED <<inodes, fd, locked, stage, api, flight>>

-----------------------------------------------------------------------------
(* The gate of the asynchronous calls.  Released(a, n) gives back one of n *)
(* slots, a being where the calls are: to the first waiter, if any.        *)

(* Mutant: the slot is counted as free and no waiter is woken.             *)
ReleasedSilent(a, n) == at' = a /\ inFlight' = n - 1 /\ UNCHANGED waiters

Released(a, n) ==
    IF waiters = <<>>
    THEN at' = a /\ inFlight' = n - 1 /\ UNCHANGED waiters
    ELSE /\ at' = [a EXCEPT ![Head(waiters)] = "granted"]
         /\ inFlight' = n /\ waiters' = Tail(waiters)

(* dispatch of a call on p: the library takes it, or throws, for want of a *)
(* slot of its own or for an argument it cannot convert, and the call is   *)
(* over.                                                                   *)
Dispatched(c, p, n) ==
    \/ /\ Cardinality(native) < NativeMax
       /\ at' = [at EXCEPT ![c] = "launched"] /\ on' = [on EXCEPT ![c] = p]
       /\ native' = native \cup {c} /\ inFlight' = n /\ UNCHANGED waiters
    \/ /\ Released([at EXCEPT ![c] = "none"], n)
       /\ on' = [on EXCEPT ![c] = NoStore]
       /\ UNCHANGED native

(* callAsync, from an operation that has found the object open.            *)
CallAsync(c, p) ==
    /\ JsFree /\ at[c] = "none" /\ c # turn
    /\ p \in Local /\ handle[p] # 0 /\ p \notin shut
    /\ \/ inFlight < MaxInFlight /\ Dispatched(c, p, inFlight + 1)
       \/ /\ inFlight >= MaxInFlight
          /\ at' = [at EXCEPT ![c] = "waiting"] /\ on' = [on EXCEPT ![c] = p]
          /\ waiters' = Append(waiters, c)
          /\ UNCHANGED <<inFlight, native>>
    /\ UNCHANGED <<lvars, api, db, turn>>

(* Mutant: a call whose object was closed while it waited is not made.     *)
DispatchWaiterOpen(c) ==
    /\ JsFree /\ at[c] = "granted" /\ on[c] \notin shut
    /\ Dispatched(c, on[c], inFlight)
    /\ UNCHANGED <<lvars, api, db, turn>>

(* The promise reaction of a waiter that has been handed a slot.           *)
DispatchWaiter(c) ==
    /\ JsFree /\ at[c] = "granted"
    /\ Dispatched(c, on[c], inFlight)
    /\ UNCHANGED <<lvars, api, db, turn>>

(* On a worker thread: the lookup, then the operation on the store.        *)
Lookup(c) ==
    /\ at[c] = "launched"
    /\ \/ /\ RegGet(handle[on[c]]) = {}
          /\ at' = [at EXCEPT ![c] = "refused"] /\ UNCHANGED db
       \/ \E p \in RegGet(handle[on[c]]) :
             at' = [at EXCEPT ![c] = "found"] /\ db' = [db EXCEPT ![c] = p]
    /\ UNCHANGED <<lvars, api, on, waiters, inFlight, native, turn>>

(* The operation, or ErrClosed; a compaction may fail and close the store. *)
(* A reindex has committed its rewrite and let go of the lock: its mark is *)
(* still to come.                                                          *)
Execute(c) ==
    /\ at[c] = "found"
    /\ \/ /\ stage[db[c]] = "open"
          /\ \E s \in {"ran", "marking"} : at' = [at EXCEPT ![c] = s]
          /\ UNCHANGED lvars
       \/ stage[db[c]] # "open" /\ at' = [at EXCEPT ![c] = "refused"] /\ UNCHANGED lvars
       \/ Close(db[c]) /\ at' = [at EXCEPT ![c] = "refused"]
    /\ UNCHANGED <<api, on, db, waiters, inFlight, native, turn>>

(* Reindex takes the lock again and writes meta.json, or fails to, without *)
(* a look at whether the store has been closed or dropped meanwhile.       *)
MarkReindexed(c) ==
    /\ at[c] = "marking"
    /\ \E s \in {"ran", "refused"} : at' = [at EXCEPT ![c] = s]
    /\ UNCHANGED <<lvars, api, on, db, waiters, inFlight, native, turn>>

(* The completion callback: release, then the promise.                     *)
Callback(c) ==
    /\ JsFree /\ turn = NoCall /\ \A x \in Calls : at[x] # "granted"
    /\ at[c] \in {"ran", "refused"}
    /\ Released([at EXCEPT ![c] = "none"], inFlight)
    /\ on' = [on EXCEPT ![c] = NoStore] /\ db' = [db EXCEPT ![c] = NoStore]
    /\ turn' = c
    /\ UNCHANGED <<lvars, api, native>>

(* The callback returns to the library once the promise reactions have run,*)
(* and only then is its slot free.                                         *)
CallbackEnds ==
    /\ JsFree /\ turn # NoCall /\ \A x \in Calls : at[x] # "granted"
    /\ native' = native \ {turn} /\ turn' = NoCall
    /\ UNCHANGED <<lvars, api, at, on, db, waiters, inFlight>>

-----------------------------------------------------------------------------
OtherProcess(p) ==
    /\ p \in Openers \ Local
    /\ \/ OpenLockFile(p) \/ Flock(p) \/ FlockRefused(p) \/ Opened(p) \/ OpenFails(p)
       \/ Close(p) \/ Die(p) \/ DropClose(p) \/ Destroy(p)
    /\ UNCHANGED <<api, flight>>

SyncStep(p) ==
    OpenLocks(p) \/ OpenThrows(p) \/ OpenReturns(p) \/ CloseStore(p) \/ DropStore(p) \/ DropFiles(p)

EmbeddedNext ==
    \/ \E p \in Local :
        Open(p) \/ Shut(p, "close") \/ Shut(p, "drop") \/ SyncStep(p) \/ (\E c \in Calls : CallAsync(c, p))
    \/ DestroyDir
    \/ \E c \in Calls : DispatchWaiter(c) \/ Lookup(c) \/ Execute(c) \/ MarkReindexed(c) \/ Callback(c)
    \/ CallbackEnds
    \/ \E p \in Openers : OtherProcess(p)

(* Native calls return and worker threads go on; the event loop turns: user*)
(* code does not keep it for ever.                                         *)
EmbeddedSpec ==
    /\ EmbeddedInit /\ [][EmbeddedNext]_evars
    /\ \A p \in Local : WF_evars(SyncStep(p))
    /\ \A c \in Calls : WF_evars(Lookup(c)) /\ WF_evars(Execute(c)) /\ WF_evars(MarkReindexed(c))
    /\ \A c \in Calls : SF_evars(DispatchWaiter(c)) /\ SF_evars(Callback(c))
    /\ SF_evars(CallbackEnds)

-----------------------------------------------------------------------------
(* A call writes to the files of the store: the operation itself, and for  *)
(* a reindex the mark that follows it.                                     *)
TakesEffect(c) == at'[c] # at[c] /\ at'[c] \in {"marking", "ran"}

(* A call takes effect on the store of the object it was made on and on no *)
(* other, also one that waited for its slot while that object was closed   *)
(* and another one opened; and none does once close() or drop() has        *)
(* returned (regGet on the worker thread, regDelete before Close), but for *)
(* the mark of a reindex that had committed its rewrite before.            *)
CallsStayHome ==
    [][ \A c \in Calls :
          TakesEffect(c) =>
              /\ db[c] = on[c]
              /\ on[c] \in shut => sync.db = on[c] \/ at[c] = "marking" ]_evars

(* What close() and drop() say of themselves ("Flush and close.", "Close   *)
(* and delete all of the store's files."): nothing is written for a call on*)
(* the object once they have returned.                                     *)
CallsEndWithClose ==
    [][ \A c \in Calls : TakesEffect(c) => (on[c] \in shut => sync.db = on[c]) ]_evars

(* Every store that this process has open is one it can still close: the   *)
(* object has its handle in the registry or is being opened, closed or     *)
(* dropped.  Otherwise the store stays locked until the process ends.      *)
NoOrphanStore ==
    \A p \in Local : Past(p) => p \in registry \/ sync.db = p

(* The gate does its job: its counter is the number of calls that hold a   *)
(* slot, nobody waits while a slot is free, and whenever a call may be     *)
(* dispatched the library has a slot for it too, although it frees one only*)
(* after the callback that hands the gate's slot over (native.js:          *)
(* "completed-but-unfreed slots transiently coexist with newly launched    *)
(* ones").                                                                 *)
GateExact ==
    /\ inFlight = Cardinality({c \in Calls : at[c] \in Holding})
    /\ waiters # <<>> => inFlight = MaxInFlight
    /\ inFlight < MaxInFlight \/ (\E c \in Calls : at[c] = "granted")
          => Cardinality(native) < NativeMax

(* Every promise settles, whatever is closed, dropped or thrown meanwhile, *)
(* and every synchronous call returns.                                     *)
EveryCallSettles ==
    /\ \A c \in Calls : at[c] # "none" ~> at[c] = "none"
    /\ sync # Idle ~> sync = Idle

=============================================================================
