-------------------------------- MODULE Gate --------------------------------
(***************************************************************************)
(* The locks of the engine (db.go lockWrite, Close, reapLoop,              *)
(* writeHintAsync; compact.go raiseGate, rewriteBody, lowerGate, failStop):*)
(* the exclusive lock mu with its readers, the compaction gate and its     *)
(* condition variable, hintMu, the background hint writer, the reaper, and *)
(* the waiting of Close for both.  What the calls do to the data is in     *)
(* Store; here only who waits for whom, and which file handles are usable. *)
(***************************************************************************)
EXTENDS Naturals, FiniteSets

CONSTANTS Writers, Readers, Compactors, Closers,
          Reaper, HintWriter, Nobody,
          MaxRebuilds    \* bound: rebuilds that are ever started

ASSUME GateAssumption ==
    /\ MaxRebuilds \in Nat
    /\ Nobody \notin Writers \cup Readers \cup Compactors \cup Closers \cup {Reaper, HintWriter}
    /\ Reaper # HintWriter /\ {Reaper, HintWriter} \cap (Writers \cup Readers \cup Compactors \cup Closers) = {}
    /\ Writers \cap (Readers \cup Compactors \cup Closers) = {}
    /\ Readers \cap (Compactors \cup Closers) = {} /\ Compactors \cap Closers = {}

Lockers == Writers \cup Compactors \cup Closers \cup {Reaper}
Procs == Lockers \cup Readers \cup {HintWriter}

VARIABLES pc,
          mu,            \* who holds the lock exclusively
          compacting,    \* the gate
          closed,
          handles,       \* the main log's file handles are open
          hintMu,        \* who holds hintMu
          hintBusy,      \* a background hint writer is running
          reapStop,      \* Close has told the reaper to stop
          rebuilds

vars == <<pc, mu, compacting, closed, handles, hintMu, hintBusy, reapStop, rebuilds>>

Reading == {p \in Readers : pc[p] = "read"}
Free == mu = Nobody /\ Reading = {}
Go(p, l) == pc' = [pc EXCEPT ![p] = l]

TypeOK ==
    /\ pc \in [Procs -> {"idle", "lock", "parked", "cs", "build", "swaplock", "swap",
                         "hint", "failwait", "lower", "waitreap", "waithint", "read",
                         "flush", "check", "gone", "done"}]
    /\ mu \in Lockers \cup {Nobody}
    /\ hintMu \in Lockers \cup {HintWriter, Nobody}
    /\ compacting \in BOOLEAN /\ closed \in BOOLEAN /\ handles \in BOOLEAN
    /\ hintBusy \in BOOLEAN /\ reapStop \in BOOLEAN
    /\ rebuilds \in 0 .. MaxRebuilds
    /\ mu # Nobody => Reading = {}

Init ==
    /\ pc = [p \in Procs |-> "idle"]
    /\ mu = Nobody /\ hintMu = Nobody
    /\ compacting = FALSE /\ closed = FALSE /\ handles = TRUE
    /\ hintBusy = FALSE /\ reapStop = FALSE /\ rebuilds = 0

-----------------------------------------------------------------------------
(* Mutant: a writer does not look at the gate.                             *)
LockWriteUngated(p) ==
    /\ pc[p] = "lock" /\ Free
    /\ Go(p, "cs") /\ mu' = p
    /\ UNCHANGED <<compacting, closed, handles, hintMu, hintBusy, reapStop, rebuilds>>

(* mu.Lock, then Wait while the gate is up; Wait gives the lock back.      *)
LockWrite(p) ==
    /\ pc[p] = "lock" /\ Free
    /\ IF compacting THEN Go(p, "parked") /\ mu' = mu ELSE Go(p, "cs") /\ mu' = p
    /\ UNCHANGED <<compacting, closed, handles, hintMu, hintBusy, reapStop, rebuilds>>

Unlock(p, l) == mu' = Nobody /\ Go(p, l)

(* maybeWriteHint: HintEveryN writes have come together, or not yet; one   *)
(* background writer at a time.                                            *)
MaybeWriteHint(p, l) ==
    /\ mu' = Nobody
    /\ \/ Go(p, l) /\ UNCHANGED hintBusy
       \/ /\ ~hintBusy /\ hintBusy' = TRUE
          /\ pc' = [pc EXCEPT ![p] = l, ![HintWriter] = "flush"]

WriteCall(p) ==
    /\ p \in Writers /\ pc[p] = "idle"
    /\ Go(p, "lock")
    /\ UNCHANGED <<mu, compacting, closed, handles, hintMu, hintBusy, reapStop, rebuilds>>

(* The mutation and its trigger of the background hint; on a closed store  *)
(* only ErrClosed.                                                         *)
WriteBody(p) ==
    /\ p \in Writers /\ pc[p] = "cs"
    /\ \/ closed /\ Unlock(p, "idle") /\ UNCHANGED hintBusy
       \/ ~closed /\ MaybeWriteHint(p, "idle")
    /\ UNCHANGED <<compacting, closed, handles, hintMu, reapStop, rebuilds>>

(* A range delete ends with a synchronous hint under both locks.           *)
WriteSyncHint(p) ==
    /\ p \in Writers /\ pc[p] = "cs" /\ ~closed
    /\ Go(p, "waithint")
    /\ UNCHANGED <<mu, compacting, closed, handles, hintMu, hintBusy, reapStop, rebuilds>>

SyncHint(p) ==
    /\ p \in Writers /\ pc[p] = "waithint" /\ hintMu = Nobody
    /\ Unlock(p, "idle")
    /\ UNCHANGED <<compacting, closed, handles, hintMu, hintBusy, reapStop, rebuilds>>

(* A read: the read lock is shared and does not look at the gate.          *)
ReadLock(p) ==
    /\ p \in Readers /\ pc[p] = "idle" /\ mu = Nobody
    /\ Go(p, "read")
    /\ UNCHANGED <<mu, compacting, closed, handles, hintMu, hintBusy, reapStop, rebuilds>>

ReadUnlock(p) ==
    /\ p \in Readers /\ pc[p] = "read"
    /\ Go(p, "idle")
    /\ UNCHANGED <<mu, compacting, closed, handles, hintMu, hintBusy, reapStop, rebuilds>>

-----------------------------------------------------------------------------
(* The reaper: stopped, or handed a batch of expired keys.                 *)
ReapWake ==
    /\ pc[Reaper] = "idle"
    /\ \/ reapStop /\ Go(Reaper, "gone")
       \/ Go(Reaper, "lock")
    /\ UNCHANGED <<mu, compacting, closed, handles, hintMu, hintBusy, reapStop, rebuilds>>

ReapBody ==
    /\ pc[Reaper] = "cs"
    /\ \/ Unlock(Reaper, "idle") /\ UNCHANGED hintBusy
       \/ ~closed /\ MaybeWriteHint(Reaper, "idle")
    /\ UNCHANGED <<compacting, closed, handles, hintMu, reapStop, rebuilds>>

(* The background hint writer: flush without a lock (an error, as when a   *)
(* compaction has closed the file, ends it), then hintMu, never mu.        *)
HintFlush ==
    /\ pc[HintWriter] = "flush"
    /\ \/ Go(HintWriter, "check") /\ UNCHANGED hintBusy
       \/ Go(HintWriter, "idle") /\ hintBusy' = FALSE
    /\ UNCHANGED <<mu, compacting, closed, handles, hintMu, reapStop, rebuilds>>

HintLock ==
    /\ pc[HintWriter] = "check" /\ hintMu = Nobody
    /\ hintMu' = HintWriter /\ Go(HintWriter, "hint")
    /\ UNCHANGED <<mu, compacting, closed, handles, hintBusy, reapStop, rebuilds>>

HintDone ==
    /\ pc[HintWriter] = "hint"
    /\ hintMu' = Nobody /\ hintBusy' = FALSE /\ Go(HintWriter, "idle")
    /\ UNCHANGED <<mu, compacting, closed, handles, reapStop, rebuilds>>

-----------------------------------------------------------------------------
(* Compact, Reindex and BlobsRelieve.                                      *)
CompactCall(c) ==
    /\ c \in Compactors /\ pc[c] = "idle" /\ rebuilds < MaxRebuilds
    /\ rebuilds' = rebuilds + 1 /\ Go(c, "lock")
    /\ UNCHANGED <<mu, compacting, closed, handles, hintMu, hintBusy, reapStop>>

RaiseGate(c) ==
    /\ c \in Compactors /\ pc[c] = "cs"
    /\ IF closed THEN Unlock(c, "idle") /\ UNCHANGED compacting
       ELSE Unlock(c, "build") /\ compacting' = TRUE
    /\ UNCHANGED <<closed, handles, hintMu, hintBusy, reapStop, rebuilds>>

(* The long phase without the lock, which may fail.                        *)
BuildRewrite(c) ==
    /\ pc[c] = "build"
    /\ Go(c, "swaplock") \/ Go(c, "lower")
    /\ UNCHANGED <<mu, compacting, closed, handles, hintMu, hintBusy, reapStop, rebuilds>>

SwapLock(c) ==
    /\ pc[c] = "swaplock" /\ Free
    /\ mu' = c /\ handles' = FALSE /\ Go(c, "swap")
    /\ UNCHANGED <<compacting, closed, hintMu, hintBusy, reapStop, rebuilds>>

(* Rename and reopen, or failStop, which waits for the hint writer with the*)
(* lock held.                                                              *)
Swap(c) ==
    /\ pc[c] = "swap"
    /\ \/ handles' = TRUE /\ Go(c, "hint") /\ UNCHANGED closed
       \/ closed' = TRUE /\ Go(c, "failwait") /\ UNCHANGED handles
    /\ UNCHANGED <<mu, compacting, hintMu, hintBusy, reapStop, rebuilds>>

SwapHint(c) ==
    /\ c \in Compactors /\ pc[c] = "hint" /\ hintMu = Nobody
    /\ Unlock(c, "lower")
    /\ UNCHANGED <<compacting, closed, handles, hintMu, hintBusy, reapStop, rebuilds>>

FailStop(c) ==
    /\ pc[c] = "failwait" /\ ~hintBusy
    /\ Unlock(c, "lower")
    /\ UNCHANGED <<compacting, closed, handles, hintMu, hintBusy, reapStop, rebuilds>>

(* Mutant: the gate is lowered without the broadcast.                      *)
LowerGateSilent(c) ==
    /\ pc[c] = "lower" /\ Free
    /\ compacting' = FALSE
    /\ Go(c, "idle")
    /\ UNCHANGED <<mu, closed, handles, hintMu, hintBusy, reapStop, rebuilds>>

LowerGate(c) ==
    /\ pc[c] = "lower" /\ Free
    /\ compacting' = FALSE
    /\ pc' = [p \in Procs |-> IF p = c THEN "idle" ELSE IF pc[p] = "parked" THEN "lock" ELSE pc[p]]
    /\ UNCHANGED <<mu, closed, handles, hintMu, hintBusy, reapStop, rebuilds>>

-----------------------------------------------------------------------------
(* Close: first the reaper, without the lock; then, under the lock, the    *)
(* hint writer and the final hint.                                         *)
CloseCall(p) ==
    /\ p \in Closers /\ pc[p] = "idle"
    /\ reapStop' = TRUE /\ Go(p, "waitreap")
    /\ UNCHANGED <<mu, compacting, closed, handles, hintMu, hintBusy, rebuilds>>

CloseReaped(p) ==
    /\ pc[p] = "waitreap" /\ pc[Reaper] = "gone"
    /\ Go(p, "lock")
    /\ UNCHANGED <<mu, compacting, closed, handles, hintMu, hintBusy, reapStop, rebuilds>>

CloseBegin(p) ==
    /\ p \in Closers /\ pc[p] = "cs"
    /\ IF closed THEN Unlock(p, "done") /\ UNCHANGED closed
       ELSE closed' = TRUE /\ Go(p, "waithint") /\ UNCHANGED mu
    /\ UNCHANGED <<compacting, handles, hintMu, hintBusy, reapStop, rebuilds>>

(* Mutant: the hint writer is not waited for.                              *)
CloseEndEarly(p) ==
    /\ p \in Closers /\ pc[p] = "waithint" /\ hintMu = Nobody
    /\ handles' = FALSE /\ Unlock(p, "done")
    /\ UNCHANGED <<compacting, closed, hintMu, hintBusy, reapStop, rebuilds>>

CloseEnd(p) ==
    /\ p \in Closers /\ pc[p] = "waithint" /\ ~hintBusy /\ hintMu = Nobody
    /\ handles' = FALSE /\ Unlock(p, "done")
    /\ UNCHANGED <<compacting, closed, hintMu, hintBusy, reapStop, rebuilds>>

WriterStep(p) == WriteBody(p) \/ WriteSyncHint(p) \/ SyncHint(p)
CompactorStep(c) ==
    \/ RaiseGate(c) \/ BuildRewrite(c) \/ SwapLock(c) \/ Swap(c)
    \/ SwapHint(c) \/ FailStop(c) \/ LowerGate(c)
CloserStep(p) == CloseReaped(p) \/ CloseBegin(p) \/ CloseEnd(p)
HintStep == HintFlush \/ HintLock \/ HintDone

Next ==
    \/ \E p \in Lockers : LockWrite(p)
    \/ \E p \in Writers : WriteCall(p) \/ WriterStep(p)
    \/ \E p \in Readers : ReadLock(p) \/ ReadUnlock(p)
    \/ ReapWake \/ ReapBody \/ HintStep
    \/ \E c \in Compactors : CompactCall(c) \/ CompactorStep(c)
    \/ \E p \in Closers : CloseCall(p) \/ CloserStep(p)

(* Goroutines that can run do run.  A waiting Lock is granted: a waiting   *)
(* writer of an RWMutex keeps new readers out, and a mutex hands over to a *)
(* starved waiter.  select takes a stop signal that stays ready.           *)
Fairness ==
    /\ \A p \in Writers : SF_vars(LockWrite(p) \/ WriterStep(p))
    /\ \A p \in Readers : WF_vars(ReadUnlock(p))
    /\ SF_vars(LockWrite(Reaper) \/ ReapBody) /\ SF_vars(ReapWake /\ pc'[Reaper] = "gone")
    /\ SF_vars(HintStep)
    /\ \A c \in Compactors : SF_vars(LockWrite(c) \/ CompactorStep(c))
    /\ \A p \in Closers : SF_vars(LockWrite(p) \/ CloserStep(p))

Spec == Init /\ [][Next]_vars
FairSpec == Spec /\ Fairness

-----------------------------------------------------------------------------
(* While a rebuild reads the old files and trees without the lock, no      *)
(* mutation is under way and no second rebuild runs, and the store is not  *)
(* closed (rewriteBody: "every mutation waits in lockWrite, which alone    *)
(* makes the long buildRewrite phase safe").                               *)
RebuildAlone ==
    \A c \in Compactors :
        pc[c] \in {"build", "swaplock"} =>
            /\ handles /\ ~closed
            /\ \A p \in Lockers \ {c} :
                 pc[p] \notin {"cs", "waithint", "build", "swaplock", "swap", "hint"}

(* Nobody uses a file handle of the main log that a swap, a failed swap or *)
(* Close has closed: not a reader, not a writer past the closed check, and *)
(* the background hint writer finds at worst the ones a swap replaced.     *)
HandlesUsable ==
    /\ Reading # {} /\ ~closed => handles
    /\ \A p \in Writers : pc[p] = "cs" /\ ~closed => handles
    /\ closed /\ (\E p \in Closers : pc[p] = "done") => ~hintBusy

(* Every call returns: a writer waiting for the lock or parked at the gate *)
(* gets through, a rebuild lowers the gate on every path, and Close ends,  *)
(* with the reaper and the hint writer each waited for on the right side   *)
(* of the lock.                                                            *)
CallsReturn ==
    /\ \A p \in Writers \cup Compactors : pc[p] # "idle" ~> pc[p] = "idle"
    /\ \A p \in Closers : pc[p] # "idle" ~> pc[p] = "done"

=============================================================================
