--------------------------- MODULE FillIdCounter ---------------------------
(***************************************************************************)
(* The fill_id allocator of the disk cache (src/cache/disk.rs):            *)
(* reserve_fill_id, persist_fill_id_counter and load_next_fill_id.         *)
(*                                                                         *)
(* Committers reserve an id in memory, write the next allocatable value to *)
(* <cache_dir>/.fill_id_counter (temp file, fsync, rename, fsync of the    *)
(* parent directory) and only then publish an entry that carries the id.   *)
(* Every I/O step can fail and the machine can crash between any two       *)
(* steps.  A rename that no directory fsync followed may or may not have   *)
(* reached the disk when a crash happens: `survivors' is the set of values *)
(* the counter file can hold after one.                                    *)
(***************************************************************************)
EXTENDS Naturals

CONSTANTS
  Committers,    \* tasks inside commit_fill_inner, on any keys
  MaxId,         \* u64::MAX
  LegacyIds,     \* fill_ids an older cache directory may contain
  NoOne          \* the persist lock is free

ASSUME MaxIdAssumption == MaxId \in Nat \ {0}
ASSUME LegacyAssumption == LegacyIds \subseteq 1 .. MaxId - 1
ASSUME NoOneAssumption == NoOne \notin Committers

VARIABLES
  up,            \* the process is running
  next,          \* DiskCache.next_fill_id
  lock,          \* holder of fill_id_persist_lock
  pc,            \* where a committer is
  id,            \* the id a committer reserved
  file,          \* .fill_id_counter as the process reads it, 0 if missing
  survivors,     \* what a crash may leave in .fill_id_counter
  live,          \* fill_ids of the metadata files on disk
  issued,        \* history: every id reserve_fill_id returned with Ok
  grants         \* history: how many times it did

vars == <<up, next, lock, pc, id, file, survivors, live, issued, grants>>

Missing == 0

\* checked_add fails before u64::MAX itself could be handed out.
Ids == 1 .. MaxId - 1

TypeOK ==
  /\ up \in BOOLEAN
  /\ next \in 0 .. MaxId
  /\ lock \in Committers \cup {NoOne}
  /\ pc \in [Committers -> {"idle", "persist", "dirsync", "reserved"}]
  /\ id \in [Committers -> 0 .. MaxId]
  /\ file \in 0 .. MaxId
  /\ survivors \subseteq 0 .. MaxId
  /\ live \subseteq Ids
  /\ issued \subseteq Ids
  /\ grants \in Nat

\* A cache directory that has never had a counter file: empty, or written by
\* a version that kept no counter.
Init ==
  /\ up = FALSE
  /\ next = 0
  /\ lock = NoOne
  /\ pc = [c \in Committers |-> "idle"]
  /\ id = [c \in Committers |-> 0]
  /\ file = Missing
  /\ survivors = {Missing}
  /\ live \in SUBSET LegacyIds
  /\ issued = {}
  /\ grants = 0

\* scan.max_fill_id: the fold of max over the metadata the scan could read,
\* from FillId::ZERO.
IsScanMax(m, seen) == m \in seen \cup {0} /\ \A i \in seen : i <= m

SaturatingSucc(n) == IF n < MaxId THEN n + 1 ELSE MaxId

MaxOf(a, b) == IF a < b THEN b ELSE a

\* Mutant: the counter file is not consulted.
LoadIgnoresCounter(seen) ==
  /\ ~up
  /\ file = Missing => seen = live
  /\ \E m \in 0 .. MaxId : IsScanMax(m, seen) /\ next' = SaturatingSucc(m)
  /\ up' = TRUE
  /\ UNCHANGED <<lock, pc, id, file, survivors, live, issued, grants>>

\* Mutant: a missing counter file is replaced by whatever the scan found.
LoadTrustsIncompleteScan(seen) ==
  /\ ~up
  /\ \E m \in 0 .. MaxId :
       /\ IsScanMax(m, seen)
       /\ next' = MaxOf(file, SaturatingSucc(m))
  /\ up' = TRUE
  /\ UNCHANGED <<lock, pc, id, file, survivors, live, issued, grants>>

\* load_next_fill_id, from what the scan saw.  A counter file wins over a
\* lower scan.  Without one an incomplete scan (seen # live) refuses to start.
LoadNextFillId(seen) ==
  /\ ~up
  /\ file = Missing => seen = live
  /\ \E m \in 0 .. MaxId :
       /\ IsScanMax(m, seen)
       /\ next' = MaxOf(file, SaturatingSucc(m))
  /\ up' = TRUE
  /\ UNCHANGED <<lock, pc, id, file, survivors, live, issued, grants>>

\* reserve_fill_id up to its first await: take the persist lock, bump the
\* in-memory counter.  checked_add fails at u64::MAX, which is an early return
\* that changes nothing.
ReserveInMemory(c) ==
  /\ up
  /\ pc[c] = "idle"
  /\ lock = NoOne
  /\ next < MaxId
  /\ lock' = c
  /\ id' = [id EXCEPT ![c] = next]
  /\ next' = next + 1
  /\ pc' = [pc EXCEPT ![c] = "persist"]
  /\ UNCHANGED <<up, file, survivors, live, issued, grants>>

\* persist_fill_id_counter: the fsynced temp file is renamed into place.
RenameCounter(c) ==
  /\ pc[c] = "persist"
  /\ file' = id[c] + 1
  /\ survivors' = survivors \cup {id[c] + 1}
  /\ pc' = [pc EXCEPT ![c] = "dirsync"]
  /\ UNCHANGED <<up, next, lock, id, live, issued, grants>>

\* persist_fill_id_counter: fsync of the parent directory; reserve_fill_id
\* returns the id and drops the lock.
SyncCounterDir(c) ==
  /\ pc[c] = "dirsync"
  /\ survivors' = {file}
  /\ lock' = NoOne
  /\ issued' = issued \cup {id[c]}
  /\ grants' = grants + 1
  /\ pc' = [pc EXCEPT ![c] = "reserved"]
  /\ UNCHANGED <<up, next, id, file, live>>

\* Any I/O step of persist_fill_id_counter fails, before or after the rename.
\* The id is leaked: next_fill_id is not rolled back.
PersistFails(c) ==
  /\ pc[c] \in {"persist", "dirsync"}
  /\ lock' = NoOne
  /\ pc' = [pc EXCEPT ![c] = "idle"]
  /\ UNCHANGED <<up, next, id, file, survivors, live, issued, grants>>

\* commit_fill_inner renames the metadata carrying the id into place.
Publish(c) ==
  /\ pc[c] = "reserved"
  /\ live' = live \cup {id[c]}
  /\ pc' = [pc EXCEPT ![c] = "idle"]
  /\ UNCHANGED <<up, next, lock, id, file, survivors, issued, grants>>

\* commit_fill_inner fails after the reservation.
PublishFails(c) ==
  /\ pc[c] = "reserved"
  /\ pc' = [pc EXCEPT ![c] = "idle"]
  /\ UNCHANGED <<up, next, lock, id, file, survivors, live, issued, grants>>

\* An entry is purged, evicted or replaced.
RemoveEntry ==
  /\ up
  /\ \E i \in live : live' = live \ {i}
  /\ UNCHANGED <<up, next, lock, pc, id, file, survivors, issued, grants>>

\* The process stops.  If the machine went down with it, the counter file is
\* one of the survivors, and any of the entries ever published may be found
\* again, because entry files are renamed and removed without a directory fsync.
Crash ==
  /\ up
  /\ up' = FALSE
  /\ next' = 0
  /\ lock' = NoOne
  /\ pc' = [c \in Committers |-> "idle"]
  /\ id' = [c \in Committers |-> 0]
  /\ \/ UNCHANGED <<file, survivors, live>>
     \/ /\ \E v \in survivors : file' = v /\ survivors' = {v}
        /\ live' \in SUBSET (live \cup issued)
  /\ UNCHANGED <<issued, grants>>

Start == \E seen \in SUBSET live : LoadNextFillId(seen)

Step(c) ==
  \/ ReserveInMemory(c)
  \/ RenameCounter(c)
  \/ SyncCounterDir(c)
  \/ PersistFails(c)
  \/ Publish(c)
  \/ PublishFails(c)

Next ==
  \/ Start
  \/ \E c \in Committers : Step(c)
  \/ RemoveEntry
  \/ Crash

Spec == Init /\ [][Next]_vars
-----------------------------------------------------------------------------
Fresh == INSTANCE FreshIds

(* reserve_fill_id never returns an id it returned before, across failed     *)
(* persists, crashes at any step and restarts ("ID reuse is not [acceptable] *)
(* because fill_id is the CAS fence for cache invalidation").                *)
NoReuse == Fresh!Spec

(* An id is never returned while metadata carrying it is on disk, even when  *)
(* the startup scan missed that metadata.                                    *)
NoCollision ==
  [][\A c \in Committers :
       pc[c] = "dirsync" /\ pc'[c] = "reserved" => id[c] \notin live]_vars

(* The part of the state that makes both true: every value the counter file  *)
(* can have after a crash, and the in-memory counter, lie above every id     *)
(* handed out and above every id on disk.                                    *)
CounterAboveIssued ==
  /\ \A i \in issued, v \in survivors : i < v
  /\ \A i \in live, v \in survivors : v # Missing => i < v
  /\ file \in survivors
  /\ \A v \in survivors : v <= file

MemoryAboveIssued ==
  up => /\ \A i \in issued \cup live : i < next
        /\ \A v \in survivors : v <= next
        /\ next # 0

\* The lock holder's id is the newest one and is not handed out yet.
PersistInProgress ==
  \A c \in Committers :
    /\ pc[c] # "idle" => up
    /\ (pc[c] \in {"persist", "dirsync"}) <=> (lock = c)
    /\ lock = c => /\ next = id[c] + 1
                   /\ id[c] # 0
                   /\ \A i \in issued \cup live : i < id[c]
    /\ pc[c] = "dirsync" => file = id[c] + 1
    /\ pc[c] = "reserved" => id[c] \in issued

IInv == TypeOK /\ CounterAboveIssued /\ MemoryAboveIssued /\ PersistInProgress
=============================================================================
