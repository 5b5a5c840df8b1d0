------------------------------ MODULE FileLock ------------------------------
(***************************************************************************)
(* One writer per store (lock.go, db.go Open and Close, compact.go         *)
(* failStop, destroy.go): openers race for a kernel lock on the inode that *)
(* the LOCK file of the directory names.  The kernel's flock is external   *)
(* and modelled by what acquireLock relies on: a lock belongs to an open   *)
(* file of an inode and ends when the file is closed or the process dies.  *)
(***************************************************************************)
EXTENDS Naturals

CONSTANTS Openers,     \* calls of Open, in one process or in several
          MaxInodes    \* bound: LOCK files ever created

ASSUME LockAssumption == MaxInodes \in Nat \ {0}

VARIABLES dir,         \* the inode the name LOCK stands for, 0 for no file
          inodes,      \* inodes created so far
          fd,          \* the inode an opener has open, 0 for none
          locked,      \* the openers whose open file holds the lock
          stage        \* where an opener is

lvars == <<dir, inodes, fd, locked, stage>>

LockTypeOK ==
    /\ dir \in 0 .. MaxInodes /\ inodes \in 0 .. MaxInodes
    /\ fd \in [Openers -> 0 .. MaxInodes]
    /\ locked \subseteq {p \in Openers : fd[p] # 0}
    /\ stage \in [Openers -> {"out", "locking", "loading", "open", "dropping"}]

LockInit ==
    /\ dir = 0 /\ inodes = 0
    /\ fd = [p \in Openers |-> 0] /\ locked = {}
    /\ stage = [p \in Openers |-> "out"]

Past(p) == stage[p] \in {"loading", "open"}

(* The LOCK file is opened, and created if the directory has none.         *)
OpenLockFile(p) ==
    /\ stage[p] = "out"
    /\ \/ dir # 0 /\ UNCHANGED <<dir, inodes>>
       \/ dir = 0 /\ inodes < MaxInodes /\ inodes' = inodes + 1 /\ dir' = inodes + 1
    /\ fd' = [fd EXCEPT ![p] = dir']
    /\ stage' = [stage EXCEPT ![p] = "locking"]
    /\ UNCHANGED locked

Contended(p) == \E q \in locked : fd[q] = fd[p]

(* Mutant: the answer of flock is not looked at.                           *)
FlockIgnored(p) ==
    /\ stage[p] = "locking"
    /\ locked' = locked \cup {p}
    /\ stage' = [stage EXCEPT ![p] = "loading"]
    /\ UNCHANGED <<dir, inodes, fd>>

Flock(p) ==
    /\ stage[p] = "locking" /\ ~Contended(p)
    /\ locked' = locked \cup {p}
    /\ stage' = [stage EXCEPT ![p] = "loading"]
    /\ UNCHANGED <<dir, inodes, fd>>

Release(p, then) ==
    /\ fd' = [fd EXCEPT ![p] = 0] /\ locked' = locked \ {p}
    /\ stage' = [stage EXCEPT ![p] = then]
    /\ UNCHANGED inodes

(* ErrLocked when the lock is taken, and any other error of flock.         *)
FlockRefused(p) ==
    /\ stage[p] = "locking"
    /\ Release(p, "out") /\ UNCHANGED dir

Opened(p) ==
    /\ stage[p] = "loading"
    /\ stage' = [stage EXCEPT ![p] = "open"]
    /\ UNCHANGED <<dir, inodes, fd, locked>>

(* Mutant: a failed Open keeps the lock file open.                         *)
OpenFailsKeeping(p) ==
    /\ stage[p] = "loading"
    /\ stage' = [stage EXCEPT ![p] = "out"]
    /\ UNCHANGED <<dir, inodes, fd, locked>>

(* Loading the store fails: the deferred close releases the lock.          *)
OpenFails(p) ==
    /\ stage[p] = "loading"
    /\ Release(p, "out") /\ UNCHANGED dir

(* Close, and failStop after a failed compaction swap.                     *)
Close(p) ==
    /\ stage[p] = "open"
    /\ Release(p, "out") /\ UNCHANGED dir

(* The kernel closes the files of a process that dies.                     *)
Die(p) ==
    /\ stage[p] # "out"
    /\ Release(p, "out") /\ UNCHANGED dir

LockNext ==
    \E p \in Openers :
        \/ OpenLockFile(p) \/ Flock(p) \/ FlockRefused(p)
        \/ Opened(p) \/ OpenFails(p) \/ Close(p) \/ Die(p)

LockSpec == LockInit /\ [][LockNext]_lvars

(* Drop: Close, then Destroy, which removes the LOCK file with the others. *)
DropClose(p) ==
    /\ stage[p] = "open"
    /\ Release(p, "dropping") /\ UNCHANGED dir

Destroy(p) ==
    /\ stage[p] = "dropping"
    /\ dir' = 0
    /\ stage' = [stage EXCEPT ![p] = "out"]
    /\ UNCHANGED <<inodes, fd, locked>>

LockNextDrop == LockNext \/ \E p \in Openers : DropClose(p) \/ Destroy(p)
LockSpecDrop == LockInit /\ [][LockNextDrop]_lvars

-----------------------------------------------------------------------------

(* At most one opener is past the lock at any time (acquireLock: "enforcing*)
(* a single writer process per store"), as long as nobody drops the store. *)
SingleWriter == \A p, q \in Openers : Past(p) /\ Past(q) => p = q

(* What is left of it when Drop and Destroy remove LOCK files under the    *)
(* feet of openers: one writer at most per LOCK file, hence one at most    *)
(* until the first removal.                                                *)
OneWriterPerFile ==
    \A p, q \in Openers : Past(p) /\ Past(q) => p = q \/ (fd[p] # fd[q] /\ inodes > 1)

(* The lock never outlives its use: whoever holds it is opening the store  *)
(* or has it open, so after a refused, failed or closed Open or a death the*)
(* next Open finds it free (acquireLock: "There is no stale-lock state to  *)
(* clean up").                                                             *)
NoStaleLock == \A p \in locked : Past(p)

=============================================================================
