----------------------------- MODULE MetaLocks ------------------------------
(***************************************************************************)
(* The map of per-key metadata locks (DiskCache.meta_locks) and its sweep, *)
(* for one hash.  A lock is an Arc<Mutex>: the map holds one reference,    *)
(* every task that is waiting for or holding the lock another, and the     *)
(* sweep a third while it looks at the files.  The sweep removes the map's *)
(* reference when it believes to have the last one; a task that comes      *)
(* later then creates a second mutex for the same key.                     *)
(***************************************************************************)
EXTENDS Naturals, FiniteSets

CONSTANTS
  Users,       \* commits, purges, lookups, refreshes, the evictor
  MaxLocks,    \* bound on mutexes created
  NoLock

ASSUME LockAssumption == MaxLocks \in Nat /\ NoLock \notin Nat
ASSUME UsersAssumption == IsFiniteSet(Users)

VARIABLES
  slot,        \* the mutex in the map, or NoLock
  nextLock,    \* address of the next mutex
  arc,         \* the mutex a task has cloned, or NoLock
  owner,       \* tasks inside their critical section
  onDisk,      \* the .meta.json file exists
  snap,        \* the mutex the sweep has cloned, or NoLock
  stale        \* the sweep found the hash stale

lockVars == <<slot, nextLock, arc, owner, onDisk, snap, stale>>

LockInit ==
  /\ slot = NoLock /\ nextLock = 0
  /\ arc = [t \in Users |-> NoLock]
  /\ owner = {}
  /\ onDisk \in BOOLEAN
  /\ snap = NoLock /\ stale = FALSE

\* meta_lock_for_hash: get or insert, and clone, under the map's mutex.
MetaLockForHash(t) ==
  /\ arc[t] = NoLock
  /\ IF slot = NoLock THEN nextLock < MaxLocks /\ slot' = nextLock /\ nextLock' = nextLock + 1
                    ELSE UNCHANGED <<slot, nextLock>>
  /\ arc' = [arc EXCEPT ![t] = slot']
  /\ UNCHANGED <<owner, onDisk, snap, stale>>

\* The tokio mutex: one of those that cloned this Arc may hold it.
Lock(t) ==
  /\ arc[t] # NoLock /\ t \notin owner
  /\ \A u \in owner : arc[u] # arc[t]
  /\ owner' = owner \cup {t}
  /\ UNCHANGED <<slot, nextLock, arc, onDisk, snap, stale>>

\* The critical section publishes or removes the metadata, or leaves it.
Unlock(t) ==
  /\ t \in owner
  /\ onDisk' \in BOOLEAN
  /\ owner' = owner \ {t}
  /\ arc' = [arc EXCEPT ![t] = NoLock]
  /\ UNCHANGED <<slot, nextLock, snap, stale>>

\* A waiter whose future is dropped gives up its reference.
Drop(t) ==
  /\ arc[t] # NoLock /\ t \notin owner
  /\ arc' = [arc EXCEPT ![t] = NoLock]
  /\ UNCHANGED <<slot, nextLock, owner, onDisk, snap, stale>>

Holders(l) == {t \in Users : arc[t] = l}

StrongCount(l) == Cardinality(Holders(l)) + (IF slot = l THEN 1 ELSE 0)
                    + (IF snap = l THEN 1 ELSE 0)

SweepSnapshot ==
  /\ snap = NoLock /\ ~stale /\ slot # NoLock
  /\ snap' = slot
  /\ UNCHANGED <<slot, nextLock, arc, owner, onDisk, stale>>

\* Busy locks are skipped, and so are hashes whose metadata exists or cannot be
\* probed.  The snapshot's references are dropped before the map is locked.
SweepProbe ==
  /\ snap # NoLock
  /\ \/ StrongCount(snap) <= 2 /\ ~onDisk /\ stale' = TRUE
     \/ stale' = FALSE
  /\ snap' = NoLock
  /\ UNCHANGED <<slot, nextLock, arc, owner, onDisk>>

\* Mutant: no second look at the reference count.
SweepRemoveBlindly ==
  /\ stale
  /\ stale' = FALSE
  /\ slot' = NoLock
  /\ UNCHANGED <<nextLock, arc, owner, onDisk, snap>>

\* The count is read again under the map's mutex: 1 is the map's own.
SweepRemove ==
  /\ stale
  /\ stale' = FALSE
  /\ slot' = IF slot # NoLock /\ StrongCount(slot) = 1 THEN NoLock ELSE slot
  /\ UNCHANGED <<nextLock, arc, owner, onDisk, snap>>

TaskStep(t) == MetaLockForHash(t) \/ Lock(t) \/ Unlock(t) \/ Drop(t)

Sweep == SweepSnapshot \/ SweepProbe \/ SweepRemove

LockNext == Sweep \/ \E t \in Users : TaskStep(t)

LockSpec == LockInit /\ [][LockNext]_lockVars
-----------------------------------------------------------------------------
Locks == 0 .. MaxLocks - 1

LockTypeOK ==
  /\ slot \in Locks \cup {NoLock}
  /\ nextLock \in Nat
  /\ arc \in [Users -> Locks \cup {NoLock}]
  /\ owner \subseteq Users
  /\ onDisk \in BOOLEAN /\ stale \in BOOLEAN
  /\ snap \in Locks \cup {NoLock}

(* A mutex that some task refers to is the one in the map: whoever comes     *)
(* next gets the same one.                                                   *)
OneLockPerKey == \A t \in Users : arc[t] # NoLock => arc[t] = slot

(* Only tasks with a reference are in a critical section.                    *)
OwnersRefer == \A t \in owner : arc[t] # NoLock

(* Owners of one mutex exclude one another.                                  *)
MutexExcludes == \A t, u \in owner : arc[t] = arc[u] => t = u

LockInv == LockTypeOK /\ OneLockPerKey /\ OwnersRefer /\ MutexExcludes

(* No two tasks are in the critical section of one key's files, however the  *)
(* sweep interleaves with the tasks that look the lock up, wait and leave.   *)
MutualExclusion == \A t, u \in owner : t = u
=============================================================================
