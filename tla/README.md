# A TLA+ model of ntee-db

ntee-db is an embedded key-value store in Go (`nteedb-core`) with a TCP server
(`nteedb-server`), a JavaScript client (`nteedb-client-js`) and an in-process
JavaScript binding over a C API (`nteedb-js`). This directory models the store,
the server and the binding in TLA+, model-checks them on small instances with TLC, and proves
the central invariants for every instance with TLAPS.

`tlc -config X.cfg M` runs a check, `tlapm XProofs.tla` checks a module of proofs. `PROJECT.json`
lists the runs, the definitions with the source lines they model, the hazards
and the findings.

## The system and its modules

| Part of the system | Source | Module |
|---|---|---|
| log records, primary index, replay, boot | `record.go` `pkindex.go` `mainlog.go` `db.go` `indexhint.go` `ttl.go` | `Records`, `LogIndex` |
| engine: writes, deletes, range deletes, counters' log traffic, TTL reaper, hint writers, compaction, Close, crash, recovery | `db.go` `compact.go` `rangedel.go` `counter.go` | `Store` |
| what the engine promises, and the engine seen that way | | `KVStore`, `StoreKV` |
| locks, compaction gate, background goroutines | `db.go` `compact.go` | `Gate` |
| counters: `Incr`, `Topup`, `Take`; the TTL of a command as a deadline | `counter.go` `ttl.go` `handlers.go` | `Counter` |
| secondary indexes, MaxPerValue, batches | `secindex.go` `batch.go` | `SecIndex`, `SecIndexBatch` |
| exact, prefix and range queries on an index | `secindex.go` | `Queries` (with `SecIndex` in `MCSecIndex`) |
| index schema, soft drops, Reindex | `meta.go` `reindex.go` `db.go` | `Schema` |
| blob files and `BlobsRelieve` | `blob.go` `compact.go` | `Blobs` |
| single-writer lock, Destroy, Drop | `lock.go` `destroy.go` | `FileLock` |
| the store in a Node.js process: objects, handle registry, gate of the asynchronous calls | `nteedb-js/src` `nteedb-js/capi` | `Embedded` (extends `FileLock`) |
| one connection: commands, frames, roles, pipelining client | `handlers.go` `proto.go` `auth.go`, `nteedb-client-js` | `Session` |
| server process: accept loops, handlers, shutdown | `server.go` `main.go` | `ServerLife` |
| automatic compaction: settings, thresholds, one pass of the loop | `schema.go` `server.go` `compact.go` `blob.go` | `Reclaim` (with `ServerLife` in `MCServer`) |

The modules share the seams of the code. `Store` is the whole engine under
one lock and takes from `Gate` that rebuilds exclude mutations; `Gate` has no
data, only who waits for whom. `Counter` zooms into the 20 bytes that `Store`
patches in place. `SecIndex` and `Blobs` add to a write what `Store` leaves out
of it. `Embedded` composes the lock file with the objects that take and
give it back. `Session` and `ServerLife` treat a command as one call that returns, which
is what `Gate` shows (`CallsReturn`).

### State and actions

* **Store.** `main` is the log file as a sequence of records (an offset is a
  position), `hint` the hint file, `pk`/`size`/`writes` the memory of the open
  store, `mu` who holds the lock and where, `gate` with `newMain`/`newIdx`/`scan`
  the rebuild, `job` the background hint writer with its snapshot, `reapQ` and
  `batch` the reaper. An operation that appends once is one action. Those that
  let something else happen in between are several: a range delete (one
  tombstone at a time, then memory, then the hint), a lapsed counter (delete,
  then create), the reaper's batch, the rebuild (one record at a time), both hint
  writers (generation, mutex, file). `Crash` may come between any two, leaving a
  torn last line.
* **Counter.** `cell` is a sign and a magnitude of `Digits` decimal digits, as
  `formatCounter` writes it; integers wrap at `MaxInt`. `TornPatch` is a crash
  in the middle of a `WriteAt`. A TTL in milliseconds becomes a `Duration` in
  nanoseconds (`Milli` of them to one, in an integer that wraps) and then a
  `Deadline` in milliseconds again.
* **SecIndex.** `live`/`ix` are the primary entries, `sec` the trees. A call goes
  through `Begin` (validation), `AppendRecord` per item, `EnforceGroup` and `Evict` per
  victim; it can fail or crash at each append. `touched` has the groups that each item
  leaves to enforce, in the order of the items; a group already enforced is taken out
  of all of them, as `seen` does.
* **Queries.** `entries` is the tree of one index, which writes change (`Index`,
  `Unindex`), `reply` what the query under the read lock returns. The walks (`Seek`,
  the end of a run of equal values, the successor of a group) are as the code does
  them; what they should return are set definitions (`Chosen`, `Answer`).
  `QueriesMatch` compares the two.
* **Schema.** `recs` with their index values, `meta.json`, the declarations of the
  current open, whether a Reindex of it is between its rewrite and its meta, and what
  the Reindexes of earlier openings that are there will still write (`late`). Three
  history variables say which openings and indexes the properties except: whether
  `meta.json` comes from such a late Reindex, whether the open store has read it then,
  and which indexes were declared without Extract since they last covered the records.
* **Blobs.** Generations of blob slots and the log, each with a synced prefix; a
  power loss keeps any longer prefix of each file. `size` is where the store takes the
  end of the open generation to be. A value written in part (`PutTorn`) is in the file
  and not in `size`, so later references of that opening are off; a record says of itself
  what was at its place when it was made (`bytes`) and whether `size` was off (`skew`).
* **FileLock.** The directory entry, inodes and descriptors; `flock` belongs to an
  inode.
* **Embedded.** Per object its handle and whether it is closed, the registry, the
  native call the JavaScript thread is in; per asynchronous call where it is, from
  the queue (`waiters`) through the worker's lookup and operation to its callback,
  with the counter of the gate and the slots of the FFI library beside it. close and
  drop are several steps (object, registry, store, files), with worker threads and
  other processes in between. A reindex takes the lock twice: its second hold, which
  writes `meta.json`, does not look at whether the store is closed (`MarkReindexed`).
* **Gate.** A program counter per goroutine, the RWMutex, `compacting`, `hintMu`,
  `hintBusy`, `closed`.
* **Session.** The client's queue, the two byte streams as lines and blocks, the
  handler's answer before its flush, the role. `assertToken` of the client and
  `strings.Fields` of the server do not agree on what a space is (U+0085 is one to Go and
  not to JavaScript's `\s`), so a put may arrive with a word more than was sent
  (`split`, `splitx`) and is then handled with its blocks unread.
* **ServerLife.** Per connection the stage of its handler; `conns`, the
  WaitGroup, the listeners, and two callers of `Close` (`run` and `Serve`).
* **Reclaim.** The sizes the policy reads (lines and bytes of the log, live and
  orphaned bytes of the blobs, generations), the resolved settings and the stage
  of the pass, with writes, lapses and admin rewrites between its readings.

## What the runs check

| Run | Shows | Distinct states |
|---|---|---|
| `store_hints` | the index in memory is the replay of the log at every step (`IndexMatchesLog`); a boot from the hint recovers what a boot from the whole log would (`HintRecovers`) | 1.8 M |
| `store_ttl` | types and the capacity of the reap channel; reaper, rebuilds, hints, Close, crash and boot change nothing a client can see (`BackgroundKeepsContents`); the engine implements `KVStore` (`ImplementsKV`) | 624 k |
| `counter` | replies add up to the stored value (`RepliesAddUp`), overflow is refused exactly (`StepsExact`), a TTL is honoured to the millisecond or cut short, never extended, also where its conversion wraps (`TTLHonoured`), a live window does not move (`WindowFixed`) | 2 k |
| `secindex` | trees equal the primary entries at every step (`SecMatchesPk`), caps hold after every successful call (`CapKept`), a successful put is still there (`PutSurvives`), only the lowest keys are evicted (`EvictsLowest`); the query walks return what they should, in order and within the limit (`QueriesMatch`) | 529 k |
| `schema` | an index listed complete covers every record it should; lingering values belong to known names; dropped values survive until a Reindex | 743 k |
| `blobs` | every reference in the log names the bytes it was made with, after any crash, power loss, part-written value or failed relieve (`RefsResolve`); only writes change what a key reads as (`OnlyWritesChange`), in durable mode not even a power loss | 1.1 M |
| `embedded` | no two openers are past the lock of one file (`OneWriterPerFile`) and no lock outlives its use (`NoStaleLock`); an open store can still be closed (`NoOrphanStore`); a call takes effect on its own store and, but for the mark of a reindex, not after close (`CallsStayHome`); the gate counts its slots exactly and the FFI library has one for every call let through (`GateExact`); every promise settles (`EveryCallSettles`) | 130 k |
| `gate` | a rebuild is alone (`RebuildAlone`); no closed handle is used (`HandlesUsable`); every call returns (`CallsReturn`) | 10 k |
| `session` | an answer settles the command it answers unless a put went ahead of auth or had its key split (`RepliesMatch`); operations run with the rights earned before them (`RanAsGranted`); every promise settles (`CallsSettle`) | 354 k |
| `serverlife` | types; what a returned Close guarantees about the connections it found (`SweptStayQuiet`); shutdown ends (`ShutdownEnds`); the loop rewrites only what a limit calls for (`NoChurn`), looks at what is dead (`CompactsDeadSpace`), and gets round to a log that stays past its limits unless rewrites keep failing (`SpaceReclaimed`) | 106 k |

Each property is broken by a listed mutant of the modelled code. The type
invariants of `Counter`, `Gate`, `Embedded` and `SecIndex` are proved and therefore in
no run; that of `SecIndex` also has a configuration, `SecIndex_types` (module
`MCSecIndex`, no error). `Embedded_three` checks the safety properties of
`embedded` with a third call, so that two of them wait.

`ServerLife` and `Reclaim` share no variable: a tick of the loop is a step of the
one in which the other decides what happens. `MCServer` follows one of them per
behaviour (`focus`), which gives TLC the union of the two state spaces and not
their product. `MCSecIndex` does the same with `SecIndex` and `Queries`: a query
needs more values and fewer stages of a write than the caps do.

### Where the code and its documentation disagree

Two runs check a sentence of the repository that TLC refutes; `findings` has the
quotations. Both end in lost data.

| Run | What happens |
|---|---|
| `store_swapfault` | a crash between the rename of a compaction and its hint boots the new log with offsets of the old one |
| `blobs_hintfail` | a relieve whose last hint fails removes the generation it has just committed to |

Smaller disagreements have a configuration of their own, each of one property
that TLC refutes, which is not among the runs of `PROJECT.json`. What leads to it is
part of the passing runs too, whose properties except it by a history variable or a
hypothesis, or else is kept to a specification of its own (`Store_*`, `FileLock_drop`).

| Configuration | Statement | What happens |
|---|---|---|
| `Store_appendfail` | `EntryNamesItsRecord` (`mainlog.go:16`) | after an append fails part way, the tracked size is short and later offsets are wrong |
| `Store_rangefail` | `HintRecovers` (`rangedel.go:62`) | a range delete that fails part way is undone by the next hint, though the log has its tombstones |
| `SecIndex_overwrite` | `OverwriteEvictsNothing` (`secindex.go:437`) | an overwrite evicts when the cap was lowered between opens |
| `SecIndex_peritem` (module `SecIndexBatch`) | `BatchMatchesPerItem` (`batch.go:67`) | a batch with a repeated key ends in another state than its items one by one |
| `Schema_immediates` | `ImmediatesBare` (`secindex.go:37`) | Reindex runs Extract over values that are not objects |
| `Schema_latemark` | `CompleteDespiteLate` (`meta.go:13`) | a Reindex overtaken by Close writes its meta over that of a later open |
| `Schema_extractadded` | `CompleteDespitePatchy` (`meta.go:13`) | adding an Extract to a declared index leaves it listed complete |
| `Schema_sweeps` | `CompactSweeps` (`compact.go:36`) | Compact keeps the fields of dropped indexes, as `filterIXKnown` says and this comment does not |
| `Blobs_shortwrite` | `RefsExact` (`blob.go:72`) | after a value was written in part, later references of the same opening are short of their bytes |
| `Embedded_latemark` | `CallsEndWithClose` (`nteedb-js/src/index.js:403`) | a reindex writes `meta.json` after close() or drop() has returned |
| `Session_splitkey` | `RepliesExact` (`nteedb-client-js/src/protocol.js:27`) | a key that the client lets pass and the server splits leaves the block of its put unread, and later answers settle other calls |
| `Reclaim_starved` (module `MCServer`) | `LogReclaimed` (`nteedb-server/README.md:96`) | a relieve that fails at every tick keeps the log from being compacted |
| `Reclaim_explicit` (module `MCServer`) | `ExplicitWins` (`schema.go:31`) | a threshold set to zero explicitly is replaced by its default |
| `FileLock_drop` | `SingleWriter` (`lock.go:24`) | Drop unlinks the lock file after releasing it, and two openers get in |
| `ServerLife_late` | `HandlersFinished` (`server.go:204`) | a connection accepted during Close gets a handler that Close has not waited for |
| `ServerLife_twice` | `DbClosedQuiet` (`server.go:204`) | a signal during Serve's own Close closes the store under running commands |

`RepliesMatch` has a precondition for the same kind of reason: `dispatch` refuses a
put on a connection that is not authenticated without reading its data block, and so it
does with a put that has a word too many. The block is then taken for a command line and
answered too, and the client matches answers by their order alone. The connection is
therefore not "usable" after that error, as `nteedb-client-js/src/index.js:18` has it.
`RefsResolve`, `CallsStayHome` and the properties of `Schema` name their exceptions in the
same way, so that their theorems below need no hypothesis on how the store is used.

## Bounds

All bounds are constants and are guards of the actions they limit.

* `Store`: two keys, one plain value, counters 0..1, a log of three or four
  records, hints every second write in `store_hints` and otherwise only
  synchronous, a clock that moves once where there are TTLs (`store_ttl`). Two keys in a log of four are enough for an overwrite, a
  tombstone and a survivor whose offset moves in a compaction, for a hint
  between them, and for a range delete with a step in the middle. A key lapses at
  the tick, so a read, the reaper, a counter operation and a compaction meet it on
  either side. Compaction shrinks the log, so runs do not stop at `MaxLog`.
* `Counter`: 4-bit integers and one decimal digit: every value, argument and
  torn mixture occurs, the least integer included. Three nanoseconds to the
  millisecond let TTLs 4 to 7 wrap, to a negative and to a smaller positive time. The proofs are for every width.
* `SecIndex`: three keys, two indexes with one value each, caps 0..2 per index,
  batches of one or two. A group can exceed its cap by one or two, evictions reach
  across indexes, and a record moves between the group of one index and that of
  the other as it would between two values of one.
* `Queries`: every tree over four keys and the values of `MCQueryVals`, with probes
  between, before and after them and limits from -2 to 2, so that a walk begins and
  ends inside a group and a prefix has a longer and a shorter neighbour.
* `Blobs`: two keys, generations 0..2 (a relieve on top of a relieve), two slots
  each, one of them with a part-written value, a log of two, with and without SyncEveryWrite; the two values are
  interchangeable, which the run uses (`Symmetry`).
* `Schema`: one record, one index that may have an Extract and one that never does, one
  Reindex that outlives its store. No operation of the module relates two records except
  that adoption asks whether there is any.
* `Embedded`: two objects and one other process, two inodes (a store dropped and
  made again), two calls over a gate of one slot and a library with two: a call
  waits while its object is closed and the other one opened.
* `Gate`: a writer, two rebuilds, a reader, a Close, the reaper and the hint
  writer. The proofs are for any number of each.
* `Session`: three calls, enough for auth, a put with two blocks and a command
  behind them in flight, and for a put with a split key and two calls behind it. `ServerLife`: two connections over two listeners.
* `Reclaim`: logs of up to four lines, up to three blobs, five settings (all
  defaults, explicit zeros, other thresholds, no relieving, disabled).

`Embedded`, `ServerLife` and `Session` do not check deadlock: a process that has made
its objects and calls, a server that is shut down and a client that has made its
calls stop. The other passing runs do.

## Fairness

* `Gate`: goroutines that can run do. Lock acquisition is strongly fair: Go's
  RWMutex keeps new readers out while a writer waits, and its Mutex hands over to a
  starved waiter. `select` eventually takes a stop channel that stays closed. The
  number of rebuilds is bounded: back-to-back compactions for ever could overtake a
  parked writer each time, which the code does not exclude.
* `Session`: the handler goes on with a command (its calls return, `Gate`), node
  delivers data and close events. The network may lose the connection at any point,
  and the client is taken to learn of it then: its socket has no timeout of its own
  besides that of `quit`, so on a connection that goes silent without an error a call can
  wait for ever. The peer need not send or answer anything.
* `ServerLife`: goroutines go on and a read on a socket closed by our side fails.
  Clients need never send or hang up, which is why `ShutdownEnds` excepts a
  connection that Close has missed.
* `Reclaim`: the loop ticks, a pass goes on and a rewrite ends (weak fairness; it may
  fail each time). `SpaceReclaimed` therefore excepts rewrites that fail for ever. That
  failing relieves alone are enough, though every compaction would succeed, is what
  `Reclaim_starved` shows. Writes are bounded by `MaxMain`, so a log that stays past its
  limits is not written between the two readings of some pass; writers that hit that
  moment at every tick are left out.
* `Embedded`: native calls return and worker threads go on, a reindex to its mark too; the event loop comes
  round to every ready callback and promise reaction, which are strongly fair
  because user code may run in between.

## What is proved

For all constants that satisfy the named assumptions (`Keys` a finite set of
positive naturals, TTLs and bounds naturals, `MaxInt + 1` representable in
`Digits` digits, `NoVal` not a value, finitely many connections, a natural number of
calls on a client, settings that are integers or unset, index values that are
finite strings, finitely many of them):

* **Store** (`StoreStepProofs`, `StoreProofs`): `TypeCorrect`,
  `IndexCorrect`, `HintCorrect`. None of the invariants is inductive by itself. The
  strengthening `IInv` says what each actor has in hand: while the store is up, the
  log is whole and the index agrees with all of it, apart from the keys a range
  delete has buried but not yet dropped (`UpInv`); when it is down, the log is whole
  up to a torn last line and the hint agrees with a prefix (`DownInv`); the
  background writer's snapshot agrees with a prefix of the current log unless a
  synchronous checkpoint has made it stale (`JobInv`); the partial rewrite agrees
  with its own index and the keys still to copy are there (`BuildInv`); and the
  lock holder's locals fit its stage (`SectionInv`). The argument rests on a
  relation, `Agrees(idx, log, n)`: the index is what the first `n` records say. It
  is preserved by an append on either side, by same-shape patches, and replay
  establishes it (the first part of
  `StoreStepProofs`), so recovery from any prefix plus its tail is
  recovery from the whole.
* **Store implements KVStore** (`StoreProofs`): `BackgroundCorrect` and `KVCorrect`, the
  refinement for every number of keys, every bound and every interleaving. What a
  client sees is read off the log (`Contents`); an index that agrees with the log
  says the same of every key (`LiveOfEntry`), so a step is judged by what it does to
  entries. Three facts are added to `IInv`: the rewrite holds exactly the entries
  visited so far that had not expired when it began, with their records (`CopyInv`);
  the reaper's and the rewrite's clock reading is not ahead (`TimeInv`), which is why
  what they drop has expired for a reader too; and between the two writes of a
  counter call that found its key expired, the key has no entry (`PendInv`).
* **Counter** (`ReplyProofs`): `RoundTrip` of the text form for every width and
  the least integer, `StepsCorrect` (the guards against overflow refuse exactly
  what does not fit), `RepliesCorrect`, `WindowCorrect`, `BucketCorrect`,
  `TTLCorrect` for every number of nanoseconds to the millisecond, `CounterTypes`.
* **SecIndex** (`SecIndexProofs`): `TreesCorrect`: at every step of every call,
  failed and interrupted ones included, the trees hold exactly the pairs on the
  primary entries. The strengthening adds that keys which are gone carry no
  values (`GoneBare`), which is the reason retraction must come before removal.
  `EvictionCorrect`: what enforcement still has to delete is the lowest part of one
  group (`VictimsLow`), for every cap and every number of keys. `CapsCorrect`,
  `PutCorrect` and `SecTypeCorrect`, for batches of any length. The caps hold between
  calls only, so `CapInv` says what holds inside one: a group is listed for enforcement
  (`Unenforced`), or known to be over its cap, or holds at most its cap besides the
  victims already picked. For a Put, `WroteInv` says that every group still to be
  enforced has fewer records above the key than its cap allows (`RoomAbove`). That is
  what `checkSelfEviction` establishes, for all the indexes at once and before the
  first append, and evictions on behalf of another index only make more room. The two
  counts meet in a lemma about finite sets: the lowest `n` of a set leave out an
  element with fewer than `Cardinality - n` others above it.
* **Queries** (`IndexProofs`): `QueriesCorrect`, for every finite set of strings and
  keys, every tree that writes leave, every probe in or out of it and every limit. Both sides
  of each equation are shown to list one set of entries in one order (`Lists`), and a
  set has one such list. `Seek` lands on the first entry not below its probe; a group
  is an interval of positions; no string lies between a value and its `Successor`, so
  seeking that leaves the group exactly; the values under a prefix are an interval of
  the string order, so that `prefix` may stop at the first value outside. The walk of
  `prefix` is a recursive function of the position: each group lists its part
  (`GroupStep`), what follows lists the rest, and the parts are put together from the
  back, by the least number of positions left for which it could fail.
* **Gate** (`LockProofs`): `RebuildAloneCorrect`, `HandlesCorrect`, `GateTypes`, for any
  number of goroutines of each kind. The strengthening `IInv` says who may be where
  (`Places`), that the lock is held by the one goroutine in a section under it
  (`LockInv`), that the gate is up exactly during one rebuild and that nobody is in
  a section of `lockWrite` then (`GateInv`), and that closed handles mean a swap or
  a closed store, with somebody waiting for a hint writer that still runs
  (`HandleInv`). `RebuildAlone` by itself does not survive the step that raises the
  gate.
* **FileLock and Embedded** (`LockProofs`): `LockCorrect` and, while nobody drops
  the store, `SingleWriterCorrect`, for any number of processes; `EmbeddedLockCorrect`,
  `NoOrphanCorrect`, `StayHomeCorrect`, `GateCorrect` and `EmbeddedTypes` for any number of objects and
  calls and any limits. `LInv` ties the lock to the stage of its opener, `RInv`
  handles, registry and closed objects to each other (handles are never given
  twice), `CInv` the queue to the calls in it, and `SInv` counts: the calls the
  library holds are those at work and the one whose callback is on the stack, one
  more than the gate counts at most. `StayHomeCorrect` excepts the mark of a reindex,
  which goes to the directory of its own store, whoever has opened that meanwhile.
* **Blobs** (`BlobProofs`): `BlobTypeCorrect`, `RefsCorrect`, `ReadsCorrect`, for any
  number of keys, values and generations and a crash or power loss at any point.
  `RefsResolve` is not inductive: a power loss takes bytes that are there now. The
  strengthening says that what a record names is durable (`RefInv`), also while a
  write has its bytes on disk and its record in hand (`PendInv`); that the open
  generation is the highest but for the one a relieve is filling, which no record
  names (`TopInv`); and that the copies made so far stand for live records, one each
  (`FreshInv`), so that the rename loses and changes none. That `size` is never past the
  end of the open generation is an invariant of its own (`SizeInv`): a reference made
  where it is short still names bytes that are there. `ReadsCorrect` needs that
  a log has at most one newest record of a key and, after `Compact`, exactly one:
  that some record of a key is the newest is where `WellFoundedInduction` comes in.
* **Schema** (`IndexProofs`): `SchemaTypeCorrect`, `CompleteCorrect`,
  `LingeringCorrect` and `DroppedDataCorrect`, without hypotheses. An opening that has read
  the `meta.json` of a late Reindex (`misled`) and an index that was declared without
  Extract (`patchy`) are excepted in the properties, and have to be (`Schema_latemark`,
  `Schema_extractadded`). They quantify over every history of declarations, so the
  invariant is about what outlives an open: what the store believes is what
  `meta.json` says (`BeliefInv`), `meta.json` names every index with values on records
  (`LingerInv`), and what it calls complete, or a Reindex between its two steps is
  about to call complete, covers the records (`CoverInv`).
* **ServerLife** (`ServerProofs`): `SweptCorrect` for any number of connections and
  listeners, and `ServerTypeCorrect`, whose heart is that the WaitGroup counts the
  handlers and the compaction loop exactly. `ListInv` ties the list of connections to
  the stages of their handlers, `CloseInv` the calls of Close to the one that does
  the work.
* **Reclaim** (`ServerProofs`): `NoChurnCorrect` and `DeadSpaceCorrect` for all
  settings and sizes. `CleanInv` says that a log or blobs rewritten and not touched
  since have no garbage and that the readings of the pass under way still fit them;
  `Policies`, that no resolved threshold is zero, which is what keeps a clean log from
  being past it.
* **Session** (`ReplyProofs`): `SessionTypeCorrect`, `RepliesMatchCorrect`,
  `RanAsGrantedCorrect`, for any number of calls in flight, with and without auth.
  Nothing in an answer says which call it belongs to, so the invariant counts. Calls
  are settled in the order they were made, and those that wait are the last ones
  (`QueueInv`). The stream to the server is made of whole frames of consecutive calls,
  up to the last one made, behind blocks that may be left of an earlier one
  (`StreamInv`). The k-th answer on the connection is that of the k-th call, or one of
  the first k calls was a put ahead of a valid auth or with a split key, and the next line to read is that
  of the call after the last one answered (`ReplyInv`). The role is that of the last
  valid auth ahead of the next line (`RoleInv`), and an answer that reports an
  operation done is given after the operation was called (`RanInv`). One lemma,
  `AnswerKeeps`, says what a handler has to do for all that to last; each command of
  `dispatch` is shown to do it.

Only model-checked: the liveness properties, since fairness and `ENABLED` are outside
TLAPS. Every other property of a passing run is proved. Where a proof needs
induction over data (the least element of a set, the recursion of `prefix`), it takes
a least counterexample: `NatLessThanWellFounded` and `WFMin` take no operator.

## What is not modelled

* Encodings (JSON lines, base64, number formats) beyond the counter's, and their
  errors; the B-tree library; byte lengths. An offset is the position of a record.
* Prefix scans over the primary index and statistics: they change no state and
  are walks of the kind `Queries` has.
* A query command that asks for records takes the keys from an index and reads the
  values in a second hold of the lock (`handlers.go:188`). A record that goes away
  in between is left out of the answer, which is not compared with anything.
* A query limit equal to the least integer, whose negation (`secindex.go:252`) wraps;
  the limits of `Queries` are integers without a width.
* Renames are durable and in order in `Schema` and `Store`; `Blobs` has power loss.
* Clock jumps backwards.
* Values of several lines, or that spell a command, in `Session`, and a split key whose
  second word happens to be the length of some run of lines that follow.
* The append that `counterUpdate` falls back on when the marshalled record does not have
  the length or the text it expects (`counter.go:285`): the comment there calls it
  defensive, and no record that the store writes leads to it. Nor a failing patch.
* In `Schema`, an Extract that makes a Reindex fail, and several Reindexes of one opening
  that end after it in different states.
* Decoding of options and of configuration files, flags, TLS, the marshalling of
  the C API, benchmarks and build scripts.

## What could come next

* A composition of `Session` with an abstract store, so that the order of pipelined
  writes becomes visible.
