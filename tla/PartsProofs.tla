----------------------------- MODULE PartsProofs -----------------------------
(***************************************************************************)
(* Proofs about the four parts that MCParts checks together: the fill_id   *)
(* allocator, the singleflight registry, the map of metadata locks and the *)
(* calls to the backend.                                                   *)
(***************************************************************************)
EXTENDS FillIdCounter, SingleFlight, MetaLocks, BackendRetry, FiniteSetTheorems, TLAPS

-----------------------------------------------------------------------------
(***************************************************************************)
(* For every number of committers, every id width and every legacy         *)
(* directory: the allocator never hands out an id twice.  The argument is  *)
(* the inductive invariant IInv of FillIdCounter: each id is below every   *)
(* value a crash can leave in the counter file before it is handed out.    *)
(***************************************************************************)

LEMMA InitIInv == Init => IInv
  <1> SUFFICES ASSUME Init PROVE IInv
    OBVIOUS
  <1>1. live \subseteq Ids
    BY MaxIdAssumption, LegacyAssumption DEF Init, Ids
  <1>2. TypeOK
    <2>1. up \in BOOLEAN /\ issued \subseteq Ids
      BY DEF Init
    <2>2. next \in 0 .. MaxId /\ file \in 0 .. MaxId /\ survivors \subseteq 0 .. MaxId
      BY MaxIdAssumption DEF Init, Missing
    <2>3. QED
      BY <1>1, <2>1, <2>2, MaxIdAssumption DEF Init, TypeOK
  <1>3. CounterAboveIssued /\ MemoryAboveIssued
    BY DEF Init, CounterAboveIssued, MemoryAboveIssued, Missing
  <1>4. PersistInProgress
    BY NoOneAssumption DEF Init, PersistInProgress
  <1>5. QED
    BY <1>2, <1>3, <1>4 DEF IInv

LEMMA StartIInv == ASSUME IInv, Start PROVE IInv'
  <1> USE MaxIdAssumption, NoOneAssumption
      DEF IInv, TypeOK, CounterAboveIssued, MemoryAboveIssued,
          PersistInProgress, Ids, Missing
  <1>1. TypeOK'
    BY DEF Start, LoadNextFillId, IsScanMax, SaturatingSucc, MaxOf
  <1>2. CounterAboveIssued'
    BY DEF Start, LoadNextFillId, IsScanMax, SaturatingSucc, MaxOf
  <1>3. MemoryAboveIssued'
    BY DEF Start, LoadNextFillId, IsScanMax, SaturatingSucc, MaxOf
  <1>4. PersistInProgress'
    BY DEF Start, LoadNextFillId, IsScanMax, SaturatingSucc, MaxOf
  <1>5. QED
    BY <1>1, <1>2, <1>3, <1>4

LEMMA StepIInv == ASSUME IInv, NEW c \in Committers, Step(c) PROVE IInv'
  <1> USE MaxIdAssumption, NoOneAssumption
      DEF IInv, TypeOK, CounterAboveIssued, MemoryAboveIssued,
          PersistInProgress, Ids, Missing
  <1>1. CASE ReserveInMemory(c)
    <2>1. TypeOK'
      BY <1>1 DEF ReserveInMemory
    <2>2. CounterAboveIssued'
      BY <1>1 DEF ReserveInMemory
    <2>3. MemoryAboveIssued'
      BY <1>1 DEF ReserveInMemory
    <2>4. PersistInProgress'
      BY <1>1 DEF ReserveInMemory
    <2>5. QED
      BY <2>1, <2>2, <2>3, <2>4
  <1>2. CASE RenameCounter(c)
    <2>1. TypeOK'
      BY <1>2 DEF RenameCounter
    <2>2. CounterAboveIssued'
      BY <1>2 DEF RenameCounter
    <2>3. MemoryAboveIssued'
      BY <1>2 DEF RenameCounter
    <2>4. PersistInProgress'
      BY <1>2 DEF RenameCounter
    <2>5. QED
      BY <2>1, <2>2, <2>3, <2>4
  <1>3. CASE SyncCounterDir(c)
    <2>1. TypeOK'
      <3>1. id[c] \in Ids
        BY <1>3 DEF SyncCounterDir
      <3>2. issued' \subseteq Ids
        BY <3>1, <1>3 DEF SyncCounterDir
      <3>3. grants' \in Nat
        BY <1>3 DEF SyncCounterDir
      <3>4. /\ lock' \in Committers \cup {NoOne}
            /\ pc' \in [Committers -> {"idle", "persist", "dirsync", "reserved"}]
            /\ survivors' \subseteq 0 .. MaxId
        BY <1>3 DEF SyncCounterDir
      <3>5. QED
        BY <3>2, <3>3, <3>4, <1>3 DEF SyncCounterDir
    <2>2. CounterAboveIssued'
      BY <1>3 DEF SyncCounterDir
    <2>3. MemoryAboveIssued'
      BY <1>3 DEF SyncCounterDir
    <2>4. PersistInProgress'
      BY <1>3 DEF SyncCounterDir
    <2>5. QED
      BY <2>1, <2>2, <2>3, <2>4
  <1>4. CASE PersistFails(c)
    <2>1. TypeOK'
      BY <1>4 DEF PersistFails
    <2>2. CounterAboveIssued'
      BY <1>4 DEF PersistFails
    <2>3. MemoryAboveIssued'
      BY <1>4 DEF PersistFails
    <2>4. PersistInProgress'
      BY <1>4 DEF PersistFails
    <2>5. QED
      BY <2>1, <2>2, <2>3, <2>4
  <1>5. CASE Publish(c)
    <2>1. TypeOK'
      BY <1>5 DEF Publish
    <2>2. CounterAboveIssued'
      BY <1>5 DEF Publish
    <2>3. MemoryAboveIssued'
      BY <1>5 DEF Publish
    <2>4. PersistInProgress'
      BY <1>5 DEF Publish
    <2>5. QED
      BY <2>1, <2>2, <2>3, <2>4
  <1>6. CASE PublishFails(c)
    <2>1. TypeOK'
      BY <1>6 DEF PublishFails
    <2>2. CounterAboveIssued'
      BY <1>6 DEF PublishFails
    <2>3. MemoryAboveIssued'
      BY <1>6 DEF PublishFails
    <2>4. PersistInProgress'
      BY <1>6 DEF PublishFails
    <2>5. QED
      BY <2>1, <2>2, <2>3, <2>4
  <1>7. QED
    BY <1>1, <1>2, <1>3, <1>4, <1>5, <1>6 DEF Step

LEMMA RemoveIInv == ASSUME IInv, RemoveEntry PROVE IInv'
  <1> USE MaxIdAssumption, NoOneAssumption
      DEF IInv, TypeOK, CounterAboveIssued, MemoryAboveIssued,
          PersistInProgress, Ids, Missing
  <1>1. TypeOK'
    BY DEF RemoveEntry
  <1>2. CounterAboveIssued'
    BY DEF RemoveEntry
  <1>3. MemoryAboveIssued'
    BY DEF RemoveEntry
  <1>4. PersistInProgress'
    BY DEF RemoveEntry
  <1>5. QED
    BY <1>1, <1>2, <1>3, <1>4

LEMMA CrashIInv == ASSUME IInv, Crash PROVE IInv'
  <1> USE MaxIdAssumption, NoOneAssumption
      DEF IInv, TypeOK, CounterAboveIssued, MemoryAboveIssued,
          PersistInProgress, Ids, Missing
  <1>1. TypeOK'
    <2>1. live' \subseteq Ids /\ issued' \subseteq Ids
      BY DEF Crash
    <2>2. file' \in 0 .. MaxId /\ survivors' \subseteq 0 .. MaxId
      BY DEF Crash
    <2>3. up' \in BOOLEAN /\ lock' \in Committers \cup {NoOne}
      BY DEF Crash
    <2>4. /\ next' \in 0 .. MaxId
          /\ id' \in [Committers -> 0 .. MaxId]
          /\ pc' \in [Committers -> {"idle", "persist", "dirsync", "reserved"}]
      BY DEF Crash
    <2>5. grants' \in Nat
      BY DEF Crash
    <2>6. QED
      BY <2>1, <2>2, <2>3, <2>4, <2>5
  <1>2. CounterAboveIssued'
    <2>1. CASE UNCHANGED <<file, survivors, live>>
      BY <2>1 DEF Crash
    <2>2. CASE /\ \E v \in survivors : file' = v /\ survivors' = {v}
               /\ live' \in SUBSET (live \cup issued)
      BY <2>2 DEF Crash
    <2>3. QED
      BY <2>1, <2>2 DEF Crash
  <1>3. MemoryAboveIssued'
    BY DEF Crash
  <1>4. PersistInProgress'
    BY DEF Crash
  <1>5. QED
    BY <1>1, <1>2, <1>3, <1>4

LEMMA NextIInv == IInv /\ [Next]_vars => IInv'
  <1>1. ASSUME IInv, UNCHANGED vars PROVE IInv'
    BY <1>1 DEF vars, IInv, TypeOK, CounterAboveIssued, MemoryAboveIssued,
                PersistInProgress
  <1>2. QED
    BY <1>1, StartIInv, StepIInv, RemoveIInv, CrashIInv DEF Next

(* The inductive invariant holds in every reachable state: whatever a crash  *)
(* leaves in .fill_id_counter lies above every id reserve_fill_id returned.  *)
THEOREM CounterCorrect == Spec => []IInv
  <1>1. QED
    BY InitIInv, NextIInv, PTL DEF Spec

(* Only the directory fsync that ends persist_fill_id_counter hands out an   *)
(* id, and that id is above all earlier ones and above all ids on disk.      *)
LEMMA SyncIssues ==
  ASSUME IInv, NEW c \in Committers, SyncCounterDir(c)
  PROVE  /\ id[c] \in Ids /\ id[c] \notin issued /\ id[c] \notin live
         /\ issued' = issued \cup {id[c]} /\ grants' = grants + 1
  <1>1. id[c] \in Ids /\ id[c] \notin issued /\ id[c] \notin live
    BY MaxIdAssumption DEF SyncCounterDir, IInv, TypeOK, PersistInProgress, Ids
  <1>2. QED
    BY <1>1 DEF SyncCounterDir

LEMMA OthersIssueNothing ==
  ASSUME [Next]_vars, ~ \E c \in Committers : SyncCounterDir(c)
  PROVE  UNCHANGED <<issued, grants>>
  BY DEF Next, vars, Start, LoadNextFillId, Step, ReserveInMemory,
         RenameCounter, PersistFails, Publish, PublishFails, RemoveEntry, Crash

(* reserve_fill_id never returns an id twice: the allocator implements the   *)
(* abstract source of fresh ids.                                             *)
THEOREM NeverReuses == Spec => NoReuse
  <1>1. Init => Fresh!Init
    BY DEF Init, Fresh!Init
  <1>2. IInv /\ [Next]_vars => [Fresh!Next]_<<issued, grants>>
    BY SyncIssues, OthersIssueNothing DEF Fresh!Next, Fresh!Issue
  <1>3. QED
    BY <1>1, <1>2, CounterCorrect, PTL DEF Spec, NoReuse, Fresh!Spec

(* Only SyncCounterDir takes a committer from "dirsync" to "reserved".       *)
LEMMA ReservedBySync ==
  ASSUME IInv, [Next]_vars, NEW c \in Committers,
         pc[c] = "dirsync", pc'[c] = "reserved"
  PROVE  SyncCounterDir(c)
  <1>1. pc \in [Committers -> {"idle", "persist", "dirsync", "reserved"}]
    BY DEF IInv, TypeOK
  <1>2. CASE Start \/ RemoveEntry \/ Crash \/ UNCHANGED vars
    BY <1>1, <1>2 DEF Start, LoadNextFillId, RemoveEntry, Crash, vars
  <1>3. CASE \E d \in Committers : Step(d)
    <2>1. PICK d \in Committers : Step(d)
      BY <1>3
    <2>2. d = c
      BY <1>1, <2>1 DEF Step, ReserveInMemory, RenameCounter, SyncCounterDir,
                        PersistFails, Publish, PublishFails
    <2>3. QED
      BY <1>1, <2>1, <2>2 DEF Step, ReserveInMemory, RenameCounter,
                              PersistFails, Publish, PublishFails
  <1>4. QED
    BY <1>2, <1>3 DEF Next

(* reserve_fill_id never returns an id that metadata on disk carries.        *)
THEOREM NeverCollides == Spec => NoCollision
  <1>1. IInv /\ [Next]_vars =>
          [\A c \in Committers :
             pc[c] = "dirsync" /\ pc'[c] = "reserved" => id[c] \notin live]_vars
    BY SyncIssues, ReservedBySync
  <1>2. QED
    BY <1>1, CounterCorrect, PTL DEF Spec, NoCollision

-----------------------------------------------------------------------------
(***************************************************************************)
(* Miss coalescing is correct for any number of requests, flights and      *)
(* cancels: SFInv is inductive, and it implies that no registered flight   *)
(* is without an owner and that there is one leader at a time.             *)
(***************************************************************************)

(* A new SingleFlight satisfies the invariant: nothing is registered.        *)
LEMMA SFInitInv == SFInit => SFInv
BY DEF SFInit, SFInv, SFTypeOK, NoOrphanFlight, LeaderRegistered, CleanupsRetired,
       Waiters

(* try_acquire: a follower subscribes to what is registered; a leader        *)
(* registers a generation that nobody had before.                            *)
LEMMA AcquireInv ==
  ASSUME SFInv, NEW t \in Tasks, TryAcquire(t)
  PROVE  SFInv'
<1> USE FlightAssumption DEF SFInv
<1>1. CASE registry # NoFlight
  BY <1>1 DEF TryAcquire, SFTypeOK, NoOrphanFlight, LeaderRegistered,
              CleanupsRetired, Waiters
<1>2. CASE registry = NoFlight
  <2>1. \A u \in Tasks : role[u] # "none" => flight[u] # nextGeneration
    BY DEF SFTypeOK
  <2>2. SFTypeOK'
    BY <1>2, <2>1 DEF TryAcquire, SFTypeOK, Waiters
  <2>3. NoOrphanFlight'
    BY <1>2 DEF TryAcquire, SFTypeOK, NoOrphanFlight, Waiters
  <2>4. LeaderRegistered'
    <3>1. losses = 0 => \A u \in Tasks : role[u] # "leader"
      BY <1>2 DEF LeaderRegistered, SFTypeOK
    <3> QED
      BY <1>2, <3>1 DEF TryAcquire, SFTypeOK, LeaderRegistered
  <2>5. CleanupsRetired'
    BY <1>2 DEF TryAcquire, SFTypeOK, CleanupsRetired, Waiters
  <2> QED
    BY <2>2, <2>3, <2>4, <2>5
<1> QED
  BY <1>1, <1>2

(* complete() up to its send changes no registration.                        *)
LEMMA SendInv ==
  ASSUME SFInv, NEW t \in Tasks, CompleteSend(t)
  PROVE  SFInv'
BY DEF SFInv, CompleteSend, SFTypeOK, NoOrphanFlight, LeaderRegistered,
       CleanupsRetired, Waiters

(* complete() removes its own flight, and never the flight of another.       *)
LEMMA RemoveInv ==
  ASSUME SFInv, NEW t \in Tasks, CompleteRemove(t)
  PROVE  SFInv'
<1> USE FlightAssumption DEF SFInv, CompleteRemove, Unregistered
<1>1. t \in Waiters
  BY DEF Waiters
<1>2. SFTypeOK'
  BY DEF SFTypeOK, Waiters
<1>3. NoOrphanFlight'
  BY DEF SFTypeOK, NoOrphanFlight, Waiters
<1>4. LeaderRegistered'
  BY <1>1 DEF SFTypeOK, LeaderRegistered, Waiters
<1>5. CleanupsRetired'
  BY DEF SFTypeOK, CleanupsRetired, Waiters
<1> QED
  BY <1>2, <1>3, <1>4, <1>5

(* A dropped FlightWaiter unregisters its flight or leaves that to a task.   *)
LEMMA DropInv ==
  ASSUME SFInv, NEW t \in Tasks, DropWaiter(t)
  PROVE  SFInv'
<1> USE FlightAssumption DEF SFInv, DropWaiter, Leave, Unregistered
<1>1. t \in Waiters /\ flight[t] \in 1 .. nextGeneration - 1
  BY DEF Waiters, SFTypeOK
<1>2. SFTypeOK'
  BY <1>1 DEF SFTypeOK, Waiters
<1>3. NoOrphanFlight'
  BY DEF SFTypeOK, NoOrphanFlight, Waiters
<1>4. LeaderRegistered'
  BY <1>1 DEF SFTypeOK, LeaderRegistered, Waiters
<1>5. CleanupsRetired'
  BY <1>1 DEF SFTypeOK, CleanupsRetired, Waiters
<1> QED
  BY <1>2, <1>3, <1>4, <1>5

(* The spawned clean-up of a contended drop, however late it runs.           *)
LEMMA CleanupInv ==
  ASSUME SFInv, NEW g \in cleanups, Cleanup(g)
  PROVE  SFInv'
<1> USE FlightAssumption DEF SFInv, Cleanup, Unregistered
<1>1. SFTypeOK'
  BY DEF SFTypeOK, Waiters
<1>2. NoOrphanFlight'
  BY DEF NoOrphanFlight, Waiters
<1>3. LeaderRegistered'
  BY DEF LeaderRegistered, CleanupsRetired, Waiters
<1>4. CleanupsRetired'
  BY DEF CleanupsRetired, Waiters
<1> QED
  BY <1>1, <1>2, <1>3, <1>4

(* cancel() may take the registration away from a leader.                    *)
LEMMA CancelInv ==
  ASSUME SFInv, Cancel
  PROVE  SFInv'
BY FlightAssumption DEF SFInv, Cancel, SFTypeOK, NoOrphanFlight, LeaderRegistered,
       CleanupsRetired, Waiters

(* A follower that stops waiting holds no sender.                            *)
LEMMA FollowerLeavesInv ==
  ASSUME SFInv, NEW t \in Tasks, Wake(t) \/ Unsubscribe(t)
  PROVE  SFInv'
<1> USE FlightAssumption DEF SFInv, Wake, Unsubscribe, Leave
<1>1. SFTypeOK'
  <2>1. CASE Wake(t)
    BY <2>1 DEF SFTypeOK, Waiters
  <2>2. CASE Unsubscribe(t)
    BY <2>2 DEF SFTypeOK, Waiters
  <2> QED
    BY <2>1, <2>2
<1>2. NoOrphanFlight' /\ LeaderRegistered' /\ CleanupsRetired'
  BY DEF SFTypeOK, NoOrphanFlight, LeaderRegistered, CleanupsRetired, Waiters
<1> QED
  BY <1>1, <1>2

LEMMA SFNextInv == SFInv /\ [SFNext]_sfVars => SFInv'
<1> SUFFICES ASSUME SFInv, [SFNext]_sfVars
             PROVE  SFInv'
  OBVIOUS
<1>1. CASE SFNext
  BY <1>1, AcquireInv, SendInv, RemoveInv, DropInv, CleanupInv, CancelInv,
     FollowerLeavesInv DEF SFNext, Complete
<1>2. CASE UNCHANGED sfVars
  BY <1>2 DEF sfVars, SFInv, SFTypeOK, NoOrphanFlight, LeaderRegistered,
              CleanupsRetired, Waiters
<1> QED
  BY <1>1, <1>2

(* Generations, roles and registrations stay consistent, for any number of   *)
(* requests and flights.                                                     *)
THEOREM FlightsConsistent == SFSpec => []SFInv
<1>1. SFInit => SFInv
  BY SFInitInv
<1>2. SFInv /\ [SFNext]_sfVars => SFInv'
  BY SFNextInv
<1> QED
  BY <1>1, <1>2, PTL DEF SFSpec

(* No request can ever follow a flight that nobody will end: whatever drops, *)
(* cancels and late clean-ups there were, a registered flight has a          *)
(* FlightWaiter or a clean-up.                                               *)
THEOREM NeverOrphaned == SFSpec => []NoOrphanFlight
<1>1. SFInv => NoOrphanFlight
  BY DEF SFInv
<1> QED
  BY <1>1, FlightsConsistent, PTL

(* Without a cancel there is one leader at a time, so one backend fetch.     *)
THEOREM SingleLeader == SFSpec => []OneLeader
<1>1. SFInv => OneLeader
  BY DEF SFInv, SFTypeOK, LeaderRegistered, OneLeader, Waiters
<1> QED
  BY <1>1, FlightsConsistent, PTL

-----------------------------------------------------------------------------
(* Proofs about MetaLocks: any number of tasks and of mutexes.               *)

(* StrongCount, which the sweep reads, is 1 for the mutex in the map only if *)
(* no task refers to that mutex.                                             *)
LEMMA LastReference ==
  ASSUME LockInv, slot # NoLock, StrongCount(slot) = 1
  PROVE  \A t \in Users : arc[t] # slot
<1> SUFFICES ASSUME NEW t \in Users, arc[t] = slot PROVE FALSE
  OBVIOUS
<1> DEFINE H == Holders(slot)
<1>1. H \subseteq Users /\ t \in H
  BY DEF Holders
<1>2. IsFiniteSet(H)
  BY <1>1, UsersAssumption, FS_Subset
<1>3. Cardinality(H) \in Nat /\ Cardinality(H) # 0
  BY <1>1, <1>2, FS_CardinalityType, FS_EmptySet
<1>4. StrongCount(slot) = Cardinality(H) + 1 + (IF snap = slot THEN 1 ELSE 0)
  BY <1>3 DEF StrongCount
<1> HIDE DEF H
<1>5. StrongCount(slot) >= 2
  BY <1>3, <1>4
<1> QED
  BY <1>5

(* meta_lock_for_hash keeps the invariant: it hands out the mutex in the     *)
(* map, and creates one only when nobody refers to an older one.             *)
LEMMA MetaLockForHashKeeps ==
  ASSUME LockInv, NEW t \in Users, MetaLockForHash(t)
  PROVE  LockInv'
<1> USE LockAssumption DEF LockInv, MetaLockForHash
<1>1. slot' \in Locks /\ nextLock' \in Nat
  BY DEF LockTypeOK, Locks
<1>2. LockTypeOK'
  BY <1>1 DEF LockTypeOK
<1>3. slot' # NoLock
  BY <1>1 DEF Locks
<1>4. \A u \in Users : arc[u] # NoLock => arc[u] = slot'
  BY DEF OneLockPerKey
<1>5. OneLockPerKey'
  BY <1>4 DEF OneLockPerKey, LockTypeOK
<1>6. t \notin owner
  BY DEF OwnersRefer
<1>7. OwnersRefer' /\ MutexExcludes'
  BY <1>6 DEF OwnersRefer, MutexExcludes, LockTypeOK
<1> QED
  BY <1>2, <1>5, <1>7

(* Waiting, holding and leaving keep the invariant.                          *)
LEMMA TaskKeeps ==
  ASSUME LockInv, NEW t \in Users, Lock(t) \/ Unlock(t) \/ Drop(t)
  PROVE  LockInv'
<1> USE DEF LockInv
<1>1. CASE Lock(t)
  BY <1>1 DEF Lock, LockTypeOK, Locks, OneLockPerKey, OwnersRefer, MutexExcludes
<1>2. CASE Unlock(t)
  BY <1>2 DEF Unlock, LockTypeOK, Locks, OneLockPerKey, OwnersRefer, MutexExcludes
<1>3. CASE Drop(t)
  BY <1>3 DEF Drop, LockTypeOK, Locks, OneLockPerKey, OwnersRefer, MutexExcludes
<1> QED
  BY <1>1, <1>2, <1>3

(* The sweep keeps the invariant: it drops the map's mutex only when no task *)
(* refers to it.                                                             *)
LEMMA SweepKeeps ==
  ASSUME LockInv, Sweep
  PROVE  LockInv'
<1>1. CASE SweepSnapshot \/ SweepProbe
  BY <1>1 DEF SweepSnapshot, SweepProbe, LockInv, LockTypeOK, OneLockPerKey,
              OwnersRefer, MutexExcludes
<1>2. CASE SweepRemove
  <2>1. slot' = slot \/ (slot' = NoLock /\ \A t \in Users : arc[t] # slot)
    BY <1>2, LastReference DEF SweepRemove
  <2>2. LockTypeOK'
    BY <1>2, <2>1 DEF SweepRemove, LockInv, LockTypeOK
  <2>3. OneLockPerKey'
    BY <1>2, <2>1 DEF SweepRemove, LockInv, OneLockPerKey
  <2>4. OwnersRefer' /\ MutexExcludes'
    BY <1>2 DEF SweepRemove, LockInv, OwnersRefer, MutexExcludes
  <2> QED
    BY <2>2, <2>3, <2>4 DEF LockInv
<1> QED
  BY <1>1, <1>2 DEF Sweep

(* The lock map is consistent in every reachable state.                      *)
THEOREM LocksConsistent == LockSpec => []LockInv
<1>1. LockInit => LockInv
  <2> SUFFICES ASSUME LockInit PROVE LockInv
    OBVIOUS
  <2>1. onDisk \in BOOLEAN /\ stale \in BOOLEAN
    BY Zenon DEF LockInit
  <2>2. LockTypeOK
    BY <2>1 DEF LockInit, LockTypeOK
  <2>3. OneLockPerKey /\ OwnersRefer /\ MutexExcludes
    BY DEF LockInit, OneLockPerKey, OwnersRefer, MutexExcludes
  <2> QED
    BY <2>2, <2>3 DEF LockInv
<1>2. LockInv /\ [LockNext]_lockVars => LockInv'
  <2> SUFFICES ASSUME LockInv, [LockNext]_lockVars PROVE LockInv'
    OBVIOUS
  <2>1. CASE Sweep
    BY <2>1, SweepKeeps
  <2>2. CASE \E t \in Users : TaskStep(t)
    BY <2>2, MetaLockForHashKeeps, TaskKeeps DEF TaskStep
  <2>3. CASE UNCHANGED lockVars
    BY <2>3 DEF lockVars, LockInv, LockTypeOK, OneLockPerKey, OwnersRefer, MutexExcludes
  <2> QED
    BY <2>1, <2>2, <2>3 DEF LockNext
<1> QED
  BY <1>1, <1>2, PTL DEF LockSpec

(* MutualExclusion for any number of tasks: the sweep never splits a key's   *)
(* metadata lock in two.                                                     *)
THEOREM LocksExclude == LockSpec => []MutualExclusion
<1>1. LockInv => MutualExclusion
  BY DEF LockInv, OneLockPerKey, OwnersRefer, MutexExcludes, MutualExclusion, LockTypeOK
<1> QED
  BY <1>1, LocksConsistent, PTL

-----------------------------------------------------------------------------
(* Proofs about BackendRetry: any number of calls and attempts, any body     *)
(* limit.                                                                    *)

-----------------------------------------------------------------------------
(* The inductive invariant.                                                  *)

Pcs == {"idle", "send", "wait", "backoff", "exhausted", "done", "panic"}

CallRecs == [op : Typed \cup Raw \cup {None}, pc : Pcs, attempt : Nat, body : Nat,
             declared : Nat \cup {None}, result : Results \cup {None}, lastErr : Results \cup {None}]

(* What is on the wire for call c, and what comes back.                      *)
Pending(n, c) == {r \in n : r.call = c}
Replies(n, c) == {a \in n : a.call = c}

(* Budget and Streams under configuration k.                                 *)
Limit(k, op) ==
    IF op \in Raw THEN IF Idempotent(op) THEN AtLeastOne(k.attempts) ELSE 1
    ELSE IF Policy(op) = no_retry THEN 1 ELSE AtLeastOne(k.attempts)

Streamed(k, op) == op \in Raw /\ k.unsigned /\ ~Idempotent(op)

(* The requests of a call that were carried out (x of them) or may yet be.   *)
Load(P, x) == x + Cardinality(P)

(* Every attempt puts one request on the wire, and there are no more         *)
(* attempts than the budget.                                                 *)
BudgetOK(k, P, x, q) ==
    /\ q.attempt <= Limit(k, q.op)
    /\ q.pc = "idle" => q.attempt = 0
    /\ q.pc = "backoff" => q.attempt < Limit(k, q.op)
    /\ q.pc \in {"send", "wait", "backoff"} => q.attempt >= 1
    /\ Load(P, x) <= q.attempt
    /\ q.pc = "send" => Load(P, x) < q.attempt

(* A write that is not idempotent is on the wire once; it is repeated only   *)
(* when the backend refused it.                                              *)
OnceOK(P, A, x, q) ==
    NonIdempotent(q.op) =>
        /\ Load(P, x) <= 1
        /\ q.pc \in {"send", "backoff"} => Load(P, x) = 0
        /\ \A a \in A : a.attempt = q.attempt /\ a.status = 503 => Load(P, x) = 0

(* Answers belong to attempts that were sent.                                *)
SentOK(P, A, q) ==
    \A a \in P \cup A : a.attempt <= q.attempt /\ (q.pc = "send" => a.attempt < q.attempt)

(* What was sent, or will be, is within the body limit.                      *)
BodyOK(k, P, q) ==
    q.op \in Raw =>
        /\ P # {} => q.body <= BodyLimit
        /\ q.pc \in {"send", "wait", "backoff"} /\ ~Streamed(k, q.op) => q.body <= BodyLimit

CallOK(k, P, A, x, q) ==
    /\ q \in CallRecs /\ x \in Nat /\ IsFiniteSet(P)
    /\ q.pc # "panic" /\ (q.pc = "exhausted" => q.lastErr # None)
    /\ q.pc \in {"idle", "done"} \/ q.op # None
    /\ BudgetOK(k, P, x, q) /\ OnceOK(P, A, x, q) /\ SentOK(P, A, q) /\ BodyOK(k, P, q)

Requests == [call : Calls, attempt : Nat]
Responses == [call : Calls, attempt : Nat, status : Statuses]

RetryInv ==
    /\ config \in Configs
    /\ net \subseteq Requests /\ answers \subseteq Responses
    /\ applied \in [Calls -> Nat] /\ object \in Calls \cup {None}
    /\ call \in [Calls -> CallRecs]
    /\ \A c \in Calls : CallOK(config, Pending(net, c), Replies(answers, c), applied[c], call[c])
-----------------------------------------------------------------------------
(* Policies and budgets.                                                     *)

LEMMA PolicyFacts ==
  ASSUME NEW op, NonIdempotent(op)
  PROVE  Policy(op) \in {for_writes, no_retry} /\ op # None /\ op \notin {"GET", "HEAD", "DELETE"}
BY OpAssumption DEF NonIdempotent, Policy, Typed, Raw

LEMMA LimitFacts ==
  ASSUME NEW k \in Configs, NEW op
  PROVE  /\ Limit(k, op) \in Nat /\ Limit(k, op) >= 1
         /\ op \in Raw /\ NonIdempotent(op) => Limit(k, op) = 1
         /\ Policy(op) = no_retry /\ op \notin Raw => Limit(k, op) = 1
<1>1. k.attempts \in Nat
  BY LimitAssumption DEF Configs
<1>2. AtLeastOne(k.attempts) \in Nat /\ AtLeastOne(k.attempts) >= 1
  BY <1>1 DEF AtLeastOne
<1>3. NonIdempotent(op) => ~Idempotent(op)
  BY PolicyFacts DEF Idempotent
<1> QED
  BY <1>2, <1>3 DEF Limit

LEMMA LimitIsBudget ==
  ASSUME NEW op
  PROVE  Budget(op) = Limit(config, op) /\ Streams(op) = Streamed(config, op)
BY DEF Budget, Limit, Streams, Streamed

(* What is retryable for a write that is not idempotent.                     *)
LEMMA RetryFacts ==
  ASSUME NEW op, NonIdempotent(op), NEW err, is_retryable(Policy(op), err)
  PROVE  err.kind = "upstream" /\ err.status = 503
<1>1. Policy(op) = for_writes \/ Policy(op) = no_retry
  BY PolicyFacts
<1> QED
  BY <1>1 DEF is_retryable, for_writes, no_retry

LEMMA ErrorFacts ==
  ASSUME NEW failure, NEW status \in Statuses \cup {0}
  PROVE  /\ map_sdk_error(failure, status) \in Results
         /\ map_sdk_error(failure, status).kind = "upstream" =>
              failure = "answer" /\ map_sdk_error(failure, status).status = status
         /\ RawFailure(failure) \in Results
BY DEF map_sdk_error, RawFailure, Err, Results

LEMMA LoadFacts ==
  ASSUME NEW P, NEW x \in Nat, IsFiniteSet(P)
  PROVE  Load(P, x) \in Nat /\ (Load(P, x) = 0 => x = 0 /\ P = {}) /\ x <= Load(P, x)
<1>1. Cardinality(P) \in Nat /\ (Cardinality(P) = 0 <=> P = {})
  BY FS_CardinalityType, FS_EmptySet
<1> QED
  BY <1>1 DEF Load

-----------------------------------------------------------------------------
(* The steps of a call, on its own record.                                   *)

(* Record p is q at another point, on the same attempt.                      *)
Moved(q, p) ==
    /\ p \in CallRecs /\ p.op = q.op /\ p.attempt = q.attempt /\ p.body = q.body

(* Fewer answers do no harm.                                                 *)
LEMMA FewerAnswers ==
  ASSUME NEW k, NEW P, NEW A, NEW B, NEW x, NEW q, CallOK(k, P, A, x, q), B \subseteq A
  PROVE  CallOK(k, P, B, x, q)
BY DEF CallOK, OnceOK, SentOK

LEMMA FinishSound ==
  ASSUME NEW k, NEW P, NEW A, NEW x, NEW q, CallOK(k, P, A, x, q), NEW p, Moved(q, p),
         p.pc = "done" \/ (p.pc = "exhausted" /\ p.lastErr # None /\ q.pc # "idle" /\ q.pc # "done")
  PROVE  CallOK(k, P, A, x, p)
<1>1. p \in CallRecs /\ p.op = q.op /\ p.attempt = q.attempt /\ p.body = q.body
  BY DEF Moved
<1>2. BudgetOK(k, P, x, p)
  BY <1>1 DEF CallOK, BudgetOK
<1>3. OnceOK(P, A, x, p)
  BY <1>1 DEF CallOK, OnceOK
<1>4. SentOK(P, A, p) /\ BodyOK(k, P, p)
  BY <1>1 DEF CallOK, SentOK, BodyOK
<1> QED
  BY <1>1, <1>2, <1>3, <1>4 DEF CallOK

(* An attempt is to be repeated.                                             *)
LEMMA RepeatSound ==
  ASSUME NEW k, NEW P, NEW A, NEW x, NEW q, CallOK(k, P, A, x, q), NEW p, Moved(q, p),
         p.pc = "backoff", q.pc \in {"send", "wait"}, q.attempt < Limit(k, q.op),
         NonIdempotent(q.op) => Load(P, x) = 0
  PROVE  CallOK(k, P, A, x, p)
<1>1. p \in CallRecs /\ p.op = q.op /\ p.attempt = q.attempt /\ p.body = q.body
  BY DEF Moved
<1>2. BudgetOK(k, P, x, p)
  BY <1>1 DEF CallOK, BudgetOK
<1>3. OnceOK(P, A, x, p)
  BY <1>1 DEF CallOK, OnceOK
<1>4. SentOK(P, A, p)
  BY <1>1 DEF CallOK, SentOK
<1>5. BodyOK(k, P, p)
  BY <1>1 DEF CallOK, BodyOK
<1> QED
  BY <1>1, <1>2, <1>3, <1>4, <1>5 DEF CallOK

(* The backoff is over.                                                      *)
LEMMA AgainSound ==
  ASSUME NEW k \in Configs, NEW P \in SUBSET Requests, NEW A \in SUBSET Responses, NEW x, NEW q,
         CallOK(k, P, A, x, q), q.pc = "backoff",
         NEW p \in CallRecs, p.op = q.op, p.body = q.body, p.pc = "send", p.attempt = q.attempt + 1
  PROVE  CallOK(k, P, A, x, p)
<1>1. q \in CallRecs /\ q.attempt \in Nat /\ x \in Nat /\ IsFiniteSet(P)
  BY DEF CallOK, CallRecs
<1>2. Load(P, x) \in Nat /\ Limit(k, q.op) \in Nat
  BY <1>1, LoadFacts, LimitFacts
<1>3. BudgetOK(k, P, x, p)
  BY <1>1, <1>2 DEF CallOK, BudgetOK
<1>4. OnceOK(P, A, x, p)
  BY <1>1 DEF CallOK, OnceOK
<1>5. SentOK(P, A, p)
  <2>1. \A a \in P \cup A : a.attempt \in Nat
    BY DEF Requests, Responses
  <2> QED
    BY <1>1, <2>1 DEF CallOK, SentOK
<1>6. BodyOK(k, P, p)
  BY DEF CallOK, BodyOK
<1> QED
  BY <1>1, <1>3, <1>4, <1>5, <1>6 DEF CallOK

(* An attempt goes out.                                                      *)
LEMMA EmitSound ==
  ASSUME NEW k \in Configs, NEW P \in SUBSET Requests, NEW A \in SUBSET Responses, NEW x, NEW q,
         CallOK(k, P, A, x, q), q.pc = "send", q.op \in Raw => q.body <= BodyLimit,
         NEW r \in Requests, r.attempt = q.attempt, NEW p, Moved(q, p), p.pc = "wait"
  PROVE  CallOK(k, P \cup {r}, A, x, p)
<1> DEFINE R == P \cup {r}
<1>1. p \in CallRecs /\ p.op = q.op /\ p.attempt = q.attempt /\ p.body = q.body
  BY DEF Moved
<1>2. q \in CallRecs /\ q.attempt \in Nat /\ x \in Nat /\ IsFiniteSet(P) /\ q.op # None
  BY DEF CallOK, CallRecs
<1>0. IsFiniteSet(R) /\ Cardinality(R) = IF r \in P THEN Cardinality(P) ELSE Cardinality(P) + 1
  BY <1>2, FS_AddElement
<1>10. Cardinality(P) \in Nat
  BY <1>2, FS_CardinalityType
<1>3. IsFiniteSet(R) /\ Cardinality(R) \in Nat /\ Cardinality(R) <= Cardinality(P) + 1
      /\ Cardinality(P) \in Nat
  BY <1>0, <1>10
<1> HIDE DEF R
<1>4. Load(R, x) \in Nat /\ Load(P, x) \in Nat /\ Load(R, x) <= Load(P, x) + 1
  BY <1>2, <1>3 DEF Load
<1>5. BudgetOK(k, R, x, p)
  <2>1. Limit(k, q.op) \in Nat
    BY LimitFacts
  <2> QED
    BY <1>1, <1>2, <1>4, <2>1 DEF CallOK, BudgetOK
<1>6. \A a \in A : a.attempt \in Nat /\ a.attempt < q.attempt
  BY DEF CallOK, SentOK, Responses
<1>7. OnceOK(R, A, x, p)
  BY <1>1, <1>2, <1>4, <1>6 DEF CallOK, OnceOK
<1>8. SentOK(R, A, p)
  BY <1>1, <1>2 DEF CallOK, SentOK, R
<1>9. BodyOK(k, R, p)
  BY <1>1 DEF BodyOK
<1> QED
  BY <1>1, <1>2, <1>3, <1>5, <1>7, <1>8, <1>9 DEF CallOK, R

(* The backend takes an attempt off the wire, and carries it out or not.     *)
LEMMA ProcessSound ==
  ASSUME NEW k \in Configs, NEW P \in SUBSET Requests, NEW A \in SUBSET Responses, NEW x, NEW q,
         CallOK(k, P, A, x, q), NEW r \in P, NEW a \in Responses, a.attempt = r.attempt,
         NEW y, y = x \/ (y = x + 1 /\ a.status # 503)
  PROVE  CallOK(k, P \ {r}, A \cup {a}, y, q)
<1> DEFINE R == P \ {r}
           B == A \cup {a}
<1>1. /\ q \in CallRecs /\ q.attempt \in Nat /\ x \in Nat /\ y \in Nat /\ IsFiniteSet(P)
      /\ Limit(k, q.op) \in Nat
  BY LimitFacts DEF CallOK, CallRecs
<1>2. IsFiniteSet(R) /\ Cardinality(R) \in Nat /\ Cardinality(R) = Cardinality(P) - 1
      /\ Cardinality(P) \in Nat
  BY <1>1, FS_RemoveElement, FS_CardinalityType
<1> HIDE DEF R
<1>3. /\ Load(R, y) \in Nat /\ Load(P, x) \in Nat /\ Load(P, x) >= 1 /\ Load(R, y) <= Load(P, x)
      /\ a.status = 503 => Load(R, y) = Load(P, x) - 1
  BY <1>1, <1>2 DEF Load
<1>4. BudgetOK(k, R, y, q)
  BY <1>1, <1>3 DEF CallOK, BudgetOK
<1>5. OnceOK(R, B, y, q)
  <2>1. SUFFICES ASSUME NonIdempotent(q.op)
                 PROVE  /\ Load(R, y) <= 1
                        /\ q.pc \in {"send", "backoff"} => Load(R, y) = 0
                        /\ \A b \in B : b.attempt = q.attempt /\ b.status = 503 => Load(R, y) = 0
    BY DEF OnceOK
  <2>2. /\ Load(P, x) <= 1 /\ q.pc \notin {"send", "backoff"}
        /\ \A b \in A : ~(b.attempt = q.attempt /\ b.status = 503)
    BY <1>3, <2>1 DEF CallOK, OnceOK
  <2> QED
    BY <1>3, <2>2
<1>6. SentOK(R, B, q)
  BY DEF CallOK, SentOK, R
<1>7. BodyOK(k, R, q)
  BY DEF CallOK, BodyOK, R
<1> QED
  BY <1>1, <1>2, <1>4, <1>5, <1>6, <1>7 DEF CallOK, R

(* A call begins, or is refused at once.                                     *)
LEMMA BeginSound ==
  ASSUME NEW k \in Configs, NEW P \in SUBSET Requests, NEW A \in SUBSET Responses, NEW x, NEW q,
         CallOK(k, P, A, x, q), q.pc = "idle",
         NEW p \in CallRecs, p.op \in Typed \cup Raw,
         \/ p.pc = "done" /\ p.attempt = 0
         \/ p.pc = "send" /\ p.attempt = 1 /\
            (p.op \in Raw /\ ~Streamed(k, p.op) => p.body <= BodyLimit)
  PROVE  CallOK(k, P, A, x, p)
<1>1. x \in Nat /\ IsFiniteSet(P) /\ Load(P, x) <= 0 /\ q.attempt = 0
  BY DEF CallOK, BudgetOK
<1>2. Load(P, x) = 0 /\ P = {} /\ p.op # None
  BY <1>1, LoadFacts, OpAssumption
<1>3. Limit(k, p.op) \in Nat /\ Limit(k, p.op) >= 1
  BY LimitFacts
<1>4. \A a \in A : a.attempt \in Nat /\ a.attempt <= 0
  BY <1>1 DEF CallOK, SentOK, Responses
<1>5. BudgetOK(k, P, x, p)
  BY <1>2, <1>3 DEF BudgetOK
<1>6. OnceOK(P, A, x, p)
  BY <1>2 DEF OnceOK
<1>7. SentOK(P, A, p)
  BY <1>2, <1>4 DEF SentOK
<1>8. BodyOK(k, P, p)
  BY <1>2 DEF BodyOK
<1> QED
  BY <1>1, <1>2, <1>5, <1>6, <1>7, <1>8 DEF CallOK

-----------------------------------------------------------------------------
(* The actions.                                                              *)

CallInv(c) == CallOK(config, Pending(net, c), Replies(answers, c), applied[c], call[c])

(* Call c moves by itself, to a record that is sound in the world as it was. *)
Settles(c) ==
    /\ call' \in [Calls -> CallRecs] /\ \A d \in Calls \ {c} : call'[d] = call[d]
    /\ CallOK(config, Pending(net, c), Replies(answers, c), applied[c], call'[c])

LEMMA CallFacts ==
  ASSUME RetryInv, NEW c \in Calls
  PROVE  /\ config \in Configs /\ Pending(net, c) \in SUBSET Requests
         /\ Replies(answers, c) \in SUBSET Responses /\ applied[c] \in Nat
         /\ call \in [Calls -> CallRecs] /\ call[c] \in CallRecs /\ call[c].attempt \in Nat
         /\ CallInv(c)
<1>1. call[c] \in CallRecs /\ applied[c] \in Nat /\ CallInv(c)
  BY DEF RetryInv, CallInv
<1>2. call[c].attempt \in Nat
  BY <1>1 DEF CallRecs
<1> QED
  BY <1>1, <1>2 DEF RetryInv, Pending, Replies

LEMMA SettleStep ==
  ASSUME RetryInv, NEW c \in Calls, Settles(c), UNCHANGED <<config, net, applied, object>>,
         answers' \subseteq answers
  PROVE  RetryInv'
<1>1. \A d \in Calls : Replies(answers', d) \subseteq Replies(answers, d)
  BY DEF Replies
<1>2. ASSUME NEW d \in Calls
      PROVE  CallOK(config', Pending(net', d), Replies(answers', d), applied'[d], call'[d])
  <2>1. CallOK(config, Pending(net, d), Replies(answers, d), applied[d], call'[d])
    BY DEF Settles, RetryInv
  <2>2. CallOK(config, Pending(net, d), Replies(answers', d), applied[d], call'[d])
    BY <1>1, <2>1, FewerAnswers
  <2> QED
    BY <2>2
<1> QED
  BY <1>2 DEF RetryInv, Settles

LEMMA FinishStep ==
  ASSUME RetryInv, NEW c \in Calls, NEW result \in Results, Finish(c, result)
  PROVE  Settles(c)
<1>1. call \in [Calls -> CallRecs] /\ call[c] \in CallRecs /\ CallInv(c)
  BY CallFacts
<1>2. /\ \A d \in Calls \ {c} : call'[d] = call[d]
      /\ call'[c] = [call[c] EXCEPT !.pc = "done", !.result = result]
      /\ DOMAIN call' = Calls /\ call' = [d \in Calls |-> call'[d]]
  BY <1>1 DEF Finish
<1>3. Moved(call[c], call'[c]) /\ call'[c].pc = "done"
  BY <1>1, <1>2 DEF Moved, CallRecs, Pcs
<1>4. CallOK(config, Pending(net, c), Replies(answers, c), applied[c], call'[c])
  BY <1>1, <1>3, FinishSound DEF CallInv
<1>5. \A d \in Calls : call'[d] \in CallRecs
  BY <1>1, <1>2, <1>3 DEF Moved
<1> QED
  BY <1>2, <1>4, <1>5 DEF Settles

(* A failed attempt is repeated.                                             *)
LEMMA RepeatStep ==
  ASSUME RetryInv, NEW c \in Calls, call[c].pc \in {"send", "wait"},
         call[c].attempt < Limit(config, call[c].op),
         NonIdempotent(call[c].op) => Load(Pending(net, c), applied[c]) = 0,
         NEW err \in Results,
         \/ call' = [call EXCEPT ![c].pc = "backoff", ![c].lastErr = err]
         \/ call' = [call EXCEPT ![c].pc = "backoff"]
  PROVE  Settles(c)
<1>1. call \in [Calls -> CallRecs] /\ call[c] \in CallRecs /\ CallInv(c)
  BY CallFacts
<1>2. /\ \A d \in Calls \ {c} : call'[d] = call[d]
      /\ \/ call'[c] = [call[c] EXCEPT !.pc = "backoff", !.lastErr = err]
         \/ call'[c] = [call[c] EXCEPT !.pc = "backoff"]
      /\ DOMAIN call' = Calls /\ call' = [d \in Calls |-> call'[d]]
  BY <1>1
<1>3. Moved(call[c], call'[c]) /\ call'[c].pc = "backoff"
  BY <1>1, <1>2 DEF Moved, CallRecs, Pcs
<1>4. CallOK(config, Pending(net, c), Replies(answers, c), applied[c], call'[c])
  BY <1>1, <1>3, RepeatSound DEF CallInv
<1>5. \A d \in Calls : call'[d] \in CallRecs
  BY <1>1, <1>2, <1>3 DEF Moved
<1> QED
  BY <1>2, <1>4, <1>5 DEF Settles

(* with_retry: a write that is not idempotent is repeated only after 503.    *)
LEMMA WithRetryStep ==
  ASSUME RetryInv, NEW c \in Calls, call[c].pc \in {"send", "wait"}, NEW err \in Results,
         with_retry(c, err),
         err.kind = "upstream" /\ err.status = 503 /\ NonIdempotent(call[c].op)
           => Load(Pending(net, c), applied[c]) = 0
  PROVE  Settles(c)
<1>1. Budget(call[c].op) = Limit(config, call[c].op) /\ Limit(config, call[c].op) \in Nat
  BY CallFacts, LimitIsBudget, LimitFacts
<1>2. call[c].attempt \in Nat /\ call[c].attempt <= Limit(config, call[c].op)
  BY CallFacts DEF CallInv, CallOK, BudgetOK
<1>3. CASE ~is_retryable(Policy(call[c].op), err) \/ Budget(call[c].op) - call[c].attempt = 0
  BY <1>3, FinishStep DEF with_retry
<1>4. CASE is_retryable(Policy(call[c].op), err) /\ Budget(call[c].op) - call[c].attempt # 0
  <2>1. call' = [call EXCEPT ![c].pc = "backoff", ![c].lastErr = err]
    BY <1>4 DEF with_retry
  <2>2. call[c].attempt < Limit(config, call[c].op)
    BY <1>1, <1>2, <1>4
  <2>3. NonIdempotent(call[c].op) => Load(Pending(net, c), applied[c]) = 0
    BY <1>4, RetryFacts
  <2> QED
    BY <2>1, <2>2, <2>3, RepeatStep
<1> QED
  BY <1>3, <1>4

(* The raw loop: what is not idempotent has a budget of one.                 *)
LEMMA RawFacts ==
  ASSUME RetryInv, NEW c \in Calls, call[c].pc \in {"send", "wait"}, call[c].op \in Raw,
         call[c].attempt < Budget(call[c].op)
  PROVE  ~NonIdempotent(call[c].op) /\ call[c].attempt < Limit(config, call[c].op)
<1>1. Budget(call[c].op) = Limit(config, call[c].op)
  BY LimitIsBudget
<1>2. call[c].attempt \in Nat /\ call[c].attempt >= 1
  BY CallFacts DEF CallInv, CallOK, BudgetOK
<1>3. NonIdempotent(call[c].op) => Limit(config, call[c].op) = 1
  BY CallFacts, LimitFacts
<1> QED
  BY <1>1, <1>2, <1>3

LEMMA RawErrorStep ==
  ASSUME RetryInv, NEW c \in Calls, call[c].pc \in {"send", "wait"}, call[c].op \in Raw,
         NEW err \in Results, RawError(c, err)
  PROVE  Settles(c)
<1>1. CASE call[c].attempt < Budget(call[c].op)
  BY <1>1, RawFacts, RepeatStep DEF RawError
<1>2. CASE ~(call[c].attempt < Budget(call[c].op))
  <2>1. call \in [Calls -> CallRecs] /\ call[c] \in CallRecs /\ CallInv(c)
    BY CallFacts
  <2>2. /\ \A d \in Calls \ {c} : call'[d] = call[d]
        /\ call'[c] = [call[c] EXCEPT !.pc = "exhausted", !.lastErr = err]
        /\ DOMAIN call' = Calls /\ call' = [d \in Calls |-> call'[d]]
    BY <1>2, <2>1 DEF RawError
  <2>3. Moved(call[c], call'[c]) /\ call'[c].pc = "exhausted" /\ call'[c].lastErr # None
    BY <2>1, <2>2, ResultAssumption DEF Moved, CallRecs, Pcs
  <2>4. CallOK(config, Pending(net, c), Replies(answers, c), applied[c], call'[c])
    BY <2>1, <2>3, FinishSound DEF CallInv
  <2>5. \A d \in Calls : call'[d] \in CallRecs
    BY <2>1, <2>2, <2>3 DEF Moved
  <2> QED
    BY <2>2, <2>4, <2>5 DEF Settles
<1> QED
  BY <1>1, <1>2

LEMMA FailStep ==
  ASSUME RetryInv, NEW c \in Calls, call[c].pc \in {"send", "wait"}, NEW failure,
         failure # "answer", Fail(c, failure)
  PROVE  Settles(c)
<1>1. call[c].op \in Typed \cup Raw
  BY CallFacts DEF CallInv, CallOK, CallRecs
<1>2. /\ map_sdk_error(failure, 0) \in Results /\ map_sdk_error(failure, 0).kind # "upstream"
      /\ RawFailure(failure) \in Results
  BY ErrorFacts
<1>3. CASE call[c].op \in Typed
  <2>0. ~Streams(call[c].op)
    BY <1>3 DEF Streams, Typed, Raw
  <2>1. with_retry(c, map_sdk_error(failure, 0))
    BY <1>3, <2>0 DEF Fail
  <2> QED
    BY <1>2, <2>1, WithRetryStep
<1>4. CASE call[c].op \notin Typed /\ Streams(call[c].op)
  BY <1>2, <1>4, FinishStep DEF Fail
<1>5. CASE call[c].op \notin Typed /\ ~Streams(call[c].op)
  BY <1>1, <1>2, <1>5, RawErrorStep DEF Fail
<1> QED
  BY <1>3, <1>4, <1>5

LEMMA BeginStep ==
  ASSUME RetryInv, NEW c \in Calls, call[c].pc = "idle", NEW op \in Typed \cup Raw, NEW body \in Nat,
         NEW declared \in Nat \cup {None},
         \/ \E kind \in {"internal", "too_large"} : Refuse(c, op, kind)
         \/ Accept(c, op, body, declared)
            /\ (op \in Raw /\ ~Streams(op) => body <= BodyLimit)
  PROVE  Settles(c)
<1>1. call \in [Calls -> CallRecs] /\ CallInv(c) /\ config \in Configs
      /\ Pending(net, c) \in SUBSET Requests /\ Replies(answers, c) \in SUBSET Responses
  BY CallFacts
<1>2. PICK p : /\ call' = [call EXCEPT ![c] = p] /\ p \in CallRecs /\ p.op = op
               /\ \/ p.pc = "done" /\ p.attempt = 0
                  \/ p.pc = "send" /\ p.attempt = 1 /\ p.body = body
                     /\ (op \in Raw /\ ~Streams(op) => body <= BodyLimit)
  <2>1. ASSUME NEW kind \in {"internal", "too_large"}, Refuse(c, op, kind)
        PROVE  \E p : /\ call' = [call EXCEPT ![c] = p] /\ p \in CallRecs /\ p.op = op
                      /\ p.pc = "done" /\ p.attempt = 0
    <3> DEFINE p == [Idle EXCEPT !.op = op, !.pc = "done", !.result = Err(kind, 0)]
    <3>3. Err(kind, 0) \in Results
      BY DEF Err, Results
    <3>1. p \in CallRecs /\ p.op = op /\ p.pc = "done" /\ p.attempt = 0
      BY <3>3 DEF Idle, CallRecs, Pcs
    <3>2. call' = [call EXCEPT ![c] = p]
      BY <2>1 DEF Refuse
    <3> QED
      BY <3>1, <3>2
  <2>2. ASSUME Accept(c, op, body, declared)
        PROVE  \E p : /\ call' = [call EXCEPT ![c] = p] /\ p \in CallRecs /\ p.op = op
                      /\ p.pc = "send" /\ p.attempt = 1 /\ p.body = body
    <3> DEFINE p == [Idle EXCEPT !.op = op, !.pc = "send", !.attempt = 1, !.body = body,
                                 !.declared = declared]
    <3>1. p \in CallRecs /\ p.op = op /\ p.pc = "send" /\ p.attempt = 1 /\ p.body = body
      BY DEF Idle, CallRecs, Pcs
    <3>2. call' = [call EXCEPT ![c] = p]
      BY <2>2 DEF Accept
    <3> QED
      BY <3>1, <3>2
  <2> QED
    BY <2>1, <2>2
<1>3. p.op \in Raw /\ ~Streamed(config, p.op) /\ p.pc = "send" => p.body <= BodyLimit
  BY <1>2, LimitIsBudget
<1>4. CallOK(config, Pending(net, c), Replies(answers, c), applied[c], p)
  BY <1>1, <1>2, <1>3, BeginSound DEF CallInv
<1> QED
  BY <1>1, <1>2, <1>4 DEF Settles

LEMMA CallTypedSound ==
  ASSUME RetryInv, NEW c \in Calls, NEW op \in Typed, CallTyped(c, op)
  PROVE  RetryInv'
<1>1. op \notin Raw
  BY DEF Typed, Raw
<1>2. Settles(c)
  BY <1>1, BeginStep DEF CallTyped
<1> QED
  BY <1>2, SettleStep DEF CallTyped

LEMMA CallRawSound ==
  ASSUME RetryInv, NEW c \in Calls, NEW op \in Raw, NEW body \in Nat,
         NEW declared \in Nat \cup {None}, CallRaw(c, op, body, declared)
  PROVE  RetryInv'
<1>1. body > BodyLimit \/ body <= BodyLimit
  BY LimitAssumption
<1>2. Settles(c)
  BY <1>1, BeginStep DEF CallRaw
<1> QED
  BY <1>2, SettleStep DEF CallRaw

LEMMA FailuresSound ==
  ASSUME RetryInv, NEW c \in Calls,
         \/ \E f \in {"construction", "dispatch"} : FailToSend(c, f)
         \/ \E f \in {"timeout", "dispatch"} : GiveUp(c, f)
  PROVE  RetryInv'
<1>1. Settles(c) /\ UNCHANGED <<config, net, answers, applied, object>>
  BY FailStep DEF FailToSend, GiveUp
<1> QED
  BY <1>1, SettleStep

LEMMA AnswerSound ==
  ASSUME RetryInv, NEW c \in Calls, NEW a \in answers, Answer(c, a)
  PROVE  RetryInv'
<1>1. /\ call[c].pc = "wait" /\ a \in Replies(answers, c) /\ a.attempt = call[c].attempt
      /\ a.status \in Statuses /\ answers' \subseteq answers
      /\ UNCHANGED <<config, net, applied, object>>
  BY DEF Answer, Replies, RetryInv, Responses
<1>2. call[c].op \in Typed \cup Raw
  BY <1>1, CallFacts DEF CallInv, CallOK, CallRecs
<1>3. Settles(c)
  <2>1. CASE call[c].op \in Raw
    <3>0. call[c].op \notin Typed
      BY <2>1 DEF Typed, Raw
    <3>1. RawAnswer(c, a.status)
      BY <2>1, <3>0 DEF Answer
    <3>2. CASE Idempotent(call[c].op) /\ call[c].attempt < Budget(call[c].op) /\ a.status \in {500, 503}
      <4>1. call' = [call EXCEPT ![c].pc = "backoff"]
        BY <3>1, <3>2 DEF RawAnswer
      <4>2. ~NonIdempotent(call[c].op) /\ call[c].attempt < Limit(config, call[c].op)
        BY <1>1, <2>1, <3>2, RawFacts
      <4>3. Err("backend", 0) \in Results
        BY DEF Err, Results
      <4> QED
        BY <1>1, <4>1, <4>2, <4>3, RepeatStep
    <3>3. CASE ~(Idempotent(call[c].op) /\ call[c].attempt < Budget(call[c].op) /\ a.status \in {500, 503})
      <4>1. Finish(c, [kind |-> "answer", status |-> a.status])
        BY <3>1, <3>3 DEF RawAnswer
      <4>2. [kind |-> "answer", status |-> a.status] \in Results
        BY <1>1 DEF Results
      <4> QED
        BY <4>1, <4>2, FinishStep
    <3> QED
      BY <3>2, <3>3
  <2>2. CASE call[c].op \notin Raw /\ a.status = 200
    <3>1. Finish(c, [kind |-> "ok", status |-> 200])
      BY <1>2, <2>2 DEF Answer
    <3>2. [kind |-> "ok", status |-> 200] \in Results
      BY DEF Results, Statuses
    <3> QED
      BY <3>1, <3>2, FinishStep
  <2>3. CASE call[c].op \notin Raw /\ a.status # 200
    <3> DEFINE err == map_sdk_error("answer", a.status)
    <3>1. with_retry(c, err)
      BY <1>2, <2>3 DEF Answer
    <3>2. err \in Results /\ (err.kind = "upstream" => err.status = a.status)
      BY <1>1, ErrorFacts
    <3> HIDE DEF err
    <3>3. err.kind = "upstream" /\ err.status = 503 /\ NonIdempotent(call[c].op)
            => Load(Pending(net, c), applied[c]) = 0
      BY <1>1, <3>2, CallFacts DEF CallInv, CallOK, OnceOK
    <3> QED
      BY <1>1, <3>1, <3>2, <3>3, WithRetryStep
  <2> QED
    BY <2>1, <2>2, <2>3
<1> QED
  BY <1>1, <1>3, SettleStep

LEMMA BackoffSound ==
  ASSUME RetryInv, NEW c \in Calls, Backoff(c)
  PROVE  RetryInv'
<1>1. /\ call \in [Calls -> CallRecs] /\ call[c] \in CallRecs /\ CallInv(c) /\ config \in Configs
      /\ Pending(net, c) \in SUBSET Requests /\ Replies(answers, c) \in SUBSET Responses
      /\ call[c].attempt \in Nat /\ call[c].pc = "backoff"
  BY CallFacts DEF Backoff
<1>2. /\ \A d \in Calls \ {c} : call'[d] = call[d]
      /\ call'[c] = [call[c] EXCEPT !.pc = "send", !.attempt = @ + 1]
      /\ DOMAIN call' = Calls /\ call' = [d \in Calls |-> call'[d]]
  BY <1>1 DEF Backoff
<1>3. /\ call'[c] \in CallRecs /\ call'[c].op = call[c].op /\ call'[c].body = call[c].body
      /\ call'[c].pc = "send" /\ call'[c].attempt = call[c].attempt + 1
  <2>1. "send" \in Pcs /\ call[c].attempt + 1 \in Nat
    BY <1>1 DEF Pcs
  <2> QED
    BY <1>1, <1>2, <2>1 DEF CallRecs
<1>4. CallOK(config, Pending(net, c), Replies(answers, c), applied[c], call'[c])
  BY <1>1, <1>3, AgainSound DEF CallInv
<1>5. \A d \in Calls : call'[d] \in CallRecs
  BY <1>1, <1>2, <1>3
<1>6. Settles(c)
  BY <1>2, <1>4, <1>5 DEF Settles
<1> QED
  BY <1>6, SettleStep DEF Backoff

LEMMA ExhaustedSound ==
  ASSUME RetryInv, NEW c \in Calls, Exhausted(c)
  PROVE  RetryInv'
<1>1. call[c].lastErr # None /\ call[c].lastErr \in Results
  BY CallFacts DEF Exhausted, CallInv, CallOK, CallRecs
<1>2. Finish(c, call[c].lastErr)
  BY <1>1 DEF Exhausted
<1> QED
  BY <1>1, <1>2, FinishStep, SettleStep DEF Exhausted

LEMMA SendSound ==
  ASSUME RetryInv, NEW c \in Calls, Send(c)
  PROVE  RetryInv'
<1>1. /\ call \in [Calls -> CallRecs] /\ call[c] \in CallRecs /\ CallInv(c) /\ config \in Configs
      /\ Pending(net, c) \in SUBSET Requests /\ Replies(answers, c) \in SUBSET Responses
      /\ call[c].attempt \in Nat /\ call[c].pc = "send" /\ call[c].body \in Nat
      /\ UNCHANGED <<config, answers, applied, object>>
  BY CallFacts DEF Send, CallRecs
<1>2. CASE Finish(c, Err("too_large", 0)) /\ UNCHANGED net
  <2>1. Err("too_large", 0) \in Results
    BY DEF Err, Results
  <2> QED
    BY <1>1, <1>2, <2>1, FinishStep, SettleStep
<1>3. ASSUME Emit(c), call[c].op \in Raw => call[c].body <= BodyLimit PROVE RetryInv'
  <2> DEFINE r == [call |-> c, attempt |-> call[c].attempt]
  <2>1. r \in Requests /\ r.attempt = call[c].attempt /\ r.call = c /\ net' = net \cup {r}
    BY <1>1, <1>3 DEF Emit, Requests
  <2>2. /\ \A d \in Calls \ {c} : call'[d] = call[d]
        /\ call'[c] = [call[c] EXCEPT !.pc = "wait"]
        /\ DOMAIN call' = Calls /\ call' = [d \in Calls |-> call'[d]]
    BY <1>1, <1>3 DEF Emit
  <2> HIDE DEF r
  <2>3. Moved(call[c], call'[c]) /\ call'[c].pc = "wait"
    BY <1>1, <2>2 DEF Moved, CallRecs, Pcs
  <2>4. CallOK(config, Pending(net, c) \cup {r}, Replies(answers, c), applied[c], call'[c])
    BY <1>1, <1>3, <2>1, <2>3, EmitSound DEF CallInv
  <2>5. Pending(net', c) = Pending(net, c) \cup {r}
        /\ \A d \in Calls \ {c} : Pending(net', d) = Pending(net, d)
    BY <2>1 DEF Pending
  <2>6. \A d \in Calls : CallOK(config', Pending(net', d), Replies(answers', d), applied'[d], call'[d])
    BY <1>1, <2>2, <2>4, <2>5 DEF RetryInv
  <2>7. call' \in [Calls -> CallRecs]
    BY <1>1, <2>2, <2>3 DEF Moved
  <2>8. net' \subseteq Requests
    BY <2>1 DEF RetryInv
  <2> QED
    BY <1>1, <2>6, <2>7, <2>8 DEF RetryInv
<1>4. CASE SendTyped(c)
  <2>1. call[c].op \notin Raw
    BY <1>4 DEF SendTyped, Typed, Raw
  <2> QED
    BY <1>3, <1>4, <2>1 DEF SendTyped
<1>5. CASE SendBuffered(c)
  <2>1. call[c].body <= BodyLimit
    BY <1>1, <1>5, LimitIsBudget DEF SendBuffered, CallInv, CallOK, BodyOK
  <2> QED
    BY <1>3, <1>5, <2>1 DEF SendBuffered
<1>6. CASE SendStreamed(c)
  <2>1. call[c].body > BodyLimit \/ call[c].body <= BodyLimit
    BY <1>1, LimitAssumption
  <2>2. CASE call[c].body > BodyLimit
    BY <1>2, <1>6, <2>2 DEF SendStreamed
  <2>3. CASE ~(call[c].body > BodyLimit)
    BY <1>3, <1>6, <2>1, <2>3 DEF SendStreamed
  <2> QED
    BY <2>2, <2>3
<1> QED
  BY <1>4, <1>5, <1>6 DEF Send

LEMMA ProcessStep ==
  ASSUME RetryInv, NEW r \in net, NEW status \in Statuses, NEW effective \in BOOLEAN,
         Process(r, status, effective)
  PROVE  RetryInv'
<1> DEFINE c == r.call
           a == [call |-> r.call, attempt |-> r.attempt, status |-> status]
<1>1. r \in Requests /\ c \in Calls /\ r.attempt \in Nat
  BY DEF RetryInv, Requests
<1>2. /\ a \in Responses /\ a.call = c /\ a.attempt = r.attempt /\ a.status = status
      /\ answers' = answers \cup {a} /\ net' = net \ {r} /\ UNCHANGED <<config, call>>
  BY <1>1 DEF Process, Responses
<1>3. /\ config \in Configs /\ Pending(net, c) \in SUBSET Requests
      /\ Replies(answers, c) \in SUBSET Responses /\ applied[c] \in Nat /\ CallInv(c)
      /\ applied \in [Calls -> Nat]
  BY <1>1, CallFacts DEF RetryInv
<1>4. /\ applied' \in [Calls -> Nat] /\ \A d \in Calls \ {c} : applied'[d] = applied[d]
      /\ applied'[c] = applied[c] \/ (applied'[c] = applied[c] + 1 /\ a.status # 503)
  <2>1. effective => status # 503
    BY DEF Process
  <2> QED
    BY <1>1, <1>2, <1>3, <2>1 DEF Process
<1> HIDE DEF a
<1>5. r \in Pending(net, c)
  BY DEF Pending
<1>6. CallOK(config, Pending(net, c) \ {r}, Replies(answers, c) \cup {a}, applied'[c], call[c])
  BY <1>2, <1>3, <1>4, <1>5, ProcessSound DEF CallInv
<1>7. /\ Pending(net', c) = Pending(net, c) \ {r}
      /\ Replies(answers', c) = Replies(answers, c) \cup {a}
  BY <1>2 DEF Pending, Replies
<1>8. ASSUME NEW d \in Calls \ {c}
      PROVE  Pending(net', d) = Pending(net, d) /\ Replies(answers', d) = Replies(answers, d)
  BY <1>2, <1>8 DEF Pending, Replies
<1>9. ASSUME NEW d \in Calls
      PROVE  CallOK(config', Pending(net', d), Replies(answers', d), applied'[d], call'[d])
  <2>1. CASE d = c
    BY <1>2, <1>6, <1>7, <2>1
  <2>2. CASE d # c
    <3>1. CallOK(config, Pending(net, d), Replies(answers, d), applied[d], call[d])
      BY DEF RetryInv
    <3>2. Pending(net', d) = Pending(net, d) /\ Replies(answers', d) = Replies(answers, d)
          /\ applied'[d] = applied[d]
      BY <1>4, <1>8, <2>2
    <3> QED
      BY <1>2, <3>1, <3>2
  <2> QED
    BY <2>1, <2>2
<1>10. object' \in Calls \cup {None}
  BY <1>1 DEF Process, RetryInv
<1>11. net' \subseteq Requests /\ answers' \subseteq Responses
  BY <1>2 DEF RetryInv
<1> QED
  BY <1>2, <1>4, <1>9, <1>10, <1>11 DEF RetryInv

LEMMA InitSound ==
  ASSUME BackendInit
  PROVE  RetryInv
<1>1. Idle \in CallRecs
  BY DEF Idle, CallRecs, Pcs
<1>2. ASSUME NEW c \in Calls
      PROVE  CallOK(config, Pending(net, c), Replies(answers, c), applied[c], call[c])
  <2>1. Pending(net, c) = {} /\ Replies(answers, c) = {} /\ applied[c] = 0 /\ call[c] = Idle
        /\ config \in Configs
    BY DEF BackendInit, Pending, Replies
  <2>2. IsFiniteSet({}) /\ Load({}, 0) = 0
    BY FS_EmptySet DEF Load
  <2>3. Limit(config, None) \in Nat
    BY <2>1, LimitFacts
  <2>4. Idle.pc = "idle" /\ Idle.attempt = 0 /\ Idle.op = None
    BY DEF Idle
  <2>5. BudgetOK(config, {}, 0, Idle) /\ SentOK({}, {}, Idle)
    BY <2>2, <2>3, <2>4 DEF BudgetOK, SentOK
  <2>6. OnceOK({}, {}, 0, Idle) /\ BodyOK(config, {}, Idle)
    BY <2>2, <2>4 DEF OnceOK, BodyOK
  <2>7. CallOK(config, {}, {}, 0, Idle)
    BY <1>1, <2>2, <2>4, <2>5, <2>6 DEF CallOK
  <2> QED
    BY <2>1, <2>7
<1> QED
  BY <1>1, <1>2 DEF BackendInit, RetryInv

LEMMA NextSound ==
  ASSUME RetryInv, [BackendNext]_backendVars
  PROVE  RetryInv'
<1>1. ASSUME NEW c \in Calls, NEW op \in Ops \cap Typed, CallTyped(c, op) PROVE RetryInv'
  BY <1>1, CallTypedSound
<1>2. ASSUME NEW c \in Calls, NEW op \in Ops \cap Raw, NEW body \in 0..BodyLimit + 1,
             NEW declared \in (0..BodyLimit + 1) \cup {None}, CallRaw(c, op, body, declared)
      PROVE  RetryInv'
  <2>1. body \in Nat /\ declared \in Nat \cup {None}
    BY LimitAssumption
  <2> QED
    BY <1>2, <2>1, CallRawSound
<1>3. ASSUME NEW r \in net, NEW status \in Statuses, NEW effective \in BOOLEAN,
             Process(r, status, effective)
      PROVE  RetryInv'
  BY <1>3, ProcessStep
<1>4. ASSUME NEW c \in Calls, CallStep(c) PROVE RetryInv'
  BY <1>4, SendSound, FailuresSound, AnswerSound, BackoffSound, ExhaustedSound DEF CallStep
<1>5. CASE UNCHANGED backendVars
  <2>1. config' = config /\ call' = call /\ net' = net /\ answers' = answers /\ applied' = applied
        /\ object' = object
    BY <1>5 DEF backendVars
  <2> QED
    BY <2>1 DEF RetryInv
<1> QED
  BY <1>1, <1>2, <1>3, <1>4, <1>5 DEF BackendNext

(* The inductive invariant of the calls to the backend.                      *)
THEOREM CallsStayBounded == BackendSpec => []RetryInv
BY InitSound, NextSound, PTL DEF BackendSpec

(* For any number of calls and attempts: no write that is not idempotent is  *)
(* carried out twice, a call stays within its budget and its body limit, and *)
(* the unwrap after the raw loop finds an error (with_retry,                 *)
(* handle_passthrough).                                                      *)
THEOREM CallsAreSound == BackendSpec => []CallsSound
<1>1. ASSUME RetryInv PROVE CallsSound
  <2>1. ASSUME NEW c \in Calls
        PROVE  /\ CallInv(c) /\ call[c] \in CallRecs
               /\ applied[c] \in Nat /\ Load(Pending(net, c), applied[c]) \in Nat
               /\ applied[c] <= Load(Pending(net, c), applied[c])
               /\ Budget(call[c].op) = Limit(config, call[c].op) /\ Limit(config, call[c].op) \in Nat
    <3>1. CallInv(c) /\ call[c] \in CallRecs /\ applied[c] \in Nat /\ config \in Configs
      BY <1>1, CallFacts
    <3>2. IsFiniteSet(Pending(net, c))
      BY <3>1 DEF CallInv, CallOK
    <3> QED
      BY <3>1, <3>2, LoadFacts, LimitIsBudget, LimitFacts
  <2>2. BackendTypeOK
    BY <1>1, <2>1 DEF RetryInv, BackendTypeOK, CallRecs, Pcs, Requests, Responses
  <2>3. AtMostOnce
    BY <2>1 DEF AtMostOnce, CallInv, CallOK, OnceOK
  <2>4. WithinBudget
    <3>1. ASSUME NEW c \in Calls
          PROVE  call[c].attempt <= Budget(call[c].op) /\ applied[c] <= Budget(call[c].op)
      <4>1. call[c].attempt \in Nat
        BY <2>1 DEF CallRecs
      <4> QED
        BY <2>1, <4>1 DEF CallInv, CallOK, BudgetOK
    <3> QED
      BY <3>1 DEF WithinBudget
  <2>5. WithinBodyLimit
    <3>1. ASSUME NEW r \in net, call[r.call].op \in Raw PROVE call[r.call].body <= BodyLimit
      <4>1. r.call \in Calls /\ r \in Pending(net, r.call)
        BY <1>1 DEF RetryInv, Requests, Pending
      <4> QED
        BY <2>1, <3>1, <4>1 DEF CallInv, CallOK, BodyOK
    <3> QED
      BY <3>1 DEF WithinBodyLimit
  <2>6. NoPanic
    BY <2>1 DEF NoPanic, CallInv, CallOK
  <2> QED
    BY <2>2, <2>3, <2>4, <2>5, <2>6 DEF CallsSound, WithinLimits
<1> QED
  BY <1>1, CallsStayBounded, PTL
=============================================================================
