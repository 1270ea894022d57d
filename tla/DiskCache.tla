----------------------------- MODULE DiskCache -----------------------------
(***************************************************************************)
(* The disk cache (src/cache/disk.rs) as seen by one cache key.  Keys      *)
(* share nothing but the fill_id allocator (FillIdCounter), the eviction   *)
(* budget and the statistics, so one key with any number of concurrent     *)
(* tasks is the unit of interleaving.                                      *)
(*                                                                         *)
(* On disk: the .body file, the .meta.json file and the .poison marker.    *)
(* In memory: the set of poisoned hashes, the active_fills map with its    *)
(* reference-counted FillEntry objects (a task may hold an Arc of one that *)
(* has left the map), and the per-key metadata lock.                       *)
(*                                                                         *)
(* An action is the code between two points where another task can         *)
(* interfere: the acquisition of a lock, or an await inside a critical     *)
(* section at which a crash may leave the files half way.  Every file      *)
(* operation may fail; MaxFaults bounds how many do.                       *)
(***************************************************************************)
EXTENDS Naturals, FiniteSets

CONSTANTS
  Tasks,         \* concurrent requests and background fills
  Versions,      \* object contents (an ETag stands for one of them)
  EntryIds,      \* heap addresses of FillEntry objects
  HeadBits,      \* parts of the HEAD-only metadata a refresh can learn
  MaxFaults,     \* bound on failing file operations
  MaxCrashes,    \* bound on restarts
  MaxCancels,    \* bound on calls whose future is dropped half way
  MaxFailures,   \* bound on the three together
  MaxFills,      \* bound on reserved fill_ids
  MaxGen,        \* bound on invalidations that fence one FillEntry
  MaxRefs,       \* bound on registrations of one FillEntry, leaked ones included
  MaxHours,      \* bound on last_accessed_at
  None, Corrupt

ASSUME TaskAssumption == IsFiniteSet(Tasks)
ASSUME EntryAssumption == EntryIds \subseteq Nat
ASSUME BoundAssumption == {MaxFaults, MaxCrashes, MaxCancels, MaxFailures,
                                  MaxFills, MaxGen, MaxRefs, MaxHours} \subseteq Nat

VARIABLES
  body,          \* content of the .body file, or None
  meta,          \* the .meta.json file, Corrupt, or None
  poisonFile,    \* the .poison marker exists
  poisonMem,     \* the hash is in poisoned_hashes
  cur,           \* active_fills[key], or None
  entry,         \* the FillEntry objects: refcount, generation, commit_lock
  metaLock,      \* holder of the per-key metadata lock, or None
  entryCount,    \* CacheStats.entry_count, other keys' entries included
  nextFill,      \* what reserve_fill_id returns next
  pc,            \* where a task is in a DiskCache method
  loc,           \* the locals of that method
  res,           \* what the last method returned
  detached,      \* file operations that outlive the call that issued them
  faults, crashes, cancels

diskVars == <<body, meta, poisonFile>>
fillVars == <<cur, entry>>
lateVars == <<detached, crashes, cancels>>
vars == <<body, meta, poisonFile, poisonMem, cur, entry, metaLock, entryCount,
          nextFill, pc, loc, res, detached, faults, crashes, cancels>>

\* One entry of another key is in the cache throughout.
OtherEntries == 1

\* CacheMeta: fill_id, etag, metadata_version, last_accessed_at (hours after
\* the fill), the HEAD-only state, and whether the file was fsynced.
MetaOf(f, v, h) == [fill |-> f, etag |-> v, mver |-> 0, atime |-> 0,
                    head |-> h, synced |-> TRUE]

Metas == [fill : Nat, etag : Versions, mver : Nat, atime : Nat,
          head : SUBSET HeadBits, synced : BOOLEAN]

\* An absent file, map slot, lock holder or argument is told apart from every
\* present one, and so is a metadata file that does not parse.
ASSUME ValueAssumption ==
  /\ None \notin Nat /\ None \notin Tasks /\ None \notin Versions
  /\ None \notin Metas /\ Corrupt \notin Metas /\ None # Corrupt

Readable(m) == m # None /\ m # Corrupt

Nothing == [body |-> None, meta |-> None]

\* guard: FillGuard.generation while the task owns a guard.  ver: the content
\* it fetched.  arc: the FillEntry it cloned out of active_fills.  kind, exp:
\* which invalidation, with which expected_fill_id.  old: the backups.
\* new: the metadata to publish.
NoLocals == [guard |-> None, ver |-> None, arc |-> None, kind |-> None,
             exp |-> None, old |-> Nothing, new |-> None]

\* What a method returned; a hit also carries the content and the metadata.
Outcome(what) == [is |-> what, ver |-> None, meta |-> None]

FreshEntry == [refs |-> 0, gen |-> 0, owner |-> None]

Init ==
  /\ \/ body = None /\ meta = None
     \/ \E v \in Versions : body = v /\ meta = MetaOf(0, v, {})
  /\ poisonFile = FALSE
  /\ poisonMem = FALSE
  /\ cur = None
  /\ entry = [e \in EntryIds |-> FreshEntry]
  /\ metaLock = None
  /\ entryCount = OtherEntries + (IF body = None THEN 0 ELSE 1)
  /\ nextFill = 1
  /\ pc = [t \in Tasks |-> "idle"]
  /\ loc = [t \in Tasks |-> NoLocals]
  /\ res = [t \in Tasks |-> Outcome("none")]
  /\ faults = 0
  /\ crashes = 0
  /\ detached = {}
  /\ cancels = 0
-----------------------------------------------------------------------------
(* Helpers.                                                                  *)

Works == UNCHANGED faults
MayFail == faults + crashes + cancels < MaxFailures
Fails == MayFail /\ faults < MaxFaults /\ faults' = faults + 1

SaturatingPred(n) == IF n = 0 THEN 0 ELSE n - 1

Goto(t, l) == pc' = [pc EXCEPT ![t] = l]

\* A method returns r.  Its guards are dropped by the caller of this operator.
Return(t, r) ==
  /\ Goto(t, "idle")
  /\ res' = [res EXCEPT ![t] = r]
  /\ loc' = [loc EXCEPT ![t] = NoLocals]

\* The generation a check reads: unwrap_or(0) when the key has no entry.
CurrentGen == IF cur = None THEN 0 ELSE entry[cur].gen

\* The commit lock of the Arc that task t holds, if it holds one, is dropped.
Unlocked(t, ents) ==
  IF loc[t].arc = None THEN ents ELSE [ents EXCEPT ![loc[t].arc].owner = None]

Bumped(t, ents) ==
  IF loc[t].arc = None THEN ents ELSE [ents EXCEPT ![loc[t].arc].gen = @ + 1]

ReleaseLocks(t) ==
  /\ metaLock' = None
  /\ entry' = Unlocked(t, entry)
  /\ UNCHANGED cur

\* clear_poisoned_in_memory, then a removal of the marker whose failure is
\* ignored.
ClearPoison ==
  /\ poisonMem' = FALSE
  /\ \/ Works /\ poisonFile' = FALSE
     \/ poisonFile /\ Fails /\ UNCHANGED poisonFile

Poisoned == poisonMem \/ poisonFile

\* cleanup_orphaned_body_after_metadata_miss: a failing removal leaves the body,
\* a failing stat only loses the count.
CleanupOrphan ==
  \/ /\ Works
     /\ body' = None
     /\ entryCount' = IF body = None THEN entryCount ELSE SaturatingPred(entryCount)
  \/ body # None /\ Fails /\ UNCHANGED <<body, entryCount>>
  \/ body # None /\ Fails /\ body' = None /\ UNCHANGED entryCount
-----------------------------------------------------------------------------
(* Fills: begin_fill, commit_fill, abort_fill.                               *)

\* An address no map slot and no Arc refers to; the lowest one, which loses no
\* behaviour because addresses are never compared by order.
FreeEntry(e) ==
  LET Live == {cur} \cup {loc[u].arc : u \in Tasks}
  IN  e \notin Live /\ \A f \in EntryIds \ Live : e <= f

\* begin_fill: register and capture the generation under one write lock.
BeginFill(t) ==
  /\ pc[t] = "idle"
  /\ loc[t].guard = None
  /\ \E e \in EntryIds :
       /\ IF cur = None THEN FreeEntry(e) ELSE e = cur
       /\ LET old == IF cur = None THEN FreshEntry ELSE entry[e]
          IN  /\ entry' = [entry EXCEPT ![e] = [old EXCEPT !.refs = @ + 1]]
              /\ loc' = [loc EXCEPT ![t].guard = old.gen]
       /\ cur' = e
  /\ res' = [res EXCEPT ![t] = Outcome("done")]
  /\ UNCHANGED <<diskVars, poisonMem, metaLock, entryCount, nextFill, pc, faults,
                 lateVars>>

\* finish_fill: drop the registration, and the map slot with the last one.
FinishFill(t) ==
  /\ IF cur = None
       THEN UNCHANGED fillVars
       ELSE /\ entry' = [entry EXCEPT ![cur].refs = @ - 1]
            /\ cur' = IF entry[cur].refs <= 1 THEN None ELSE cur
  /\ Return(t, Outcome("done"))
  /\ UNCHANGED <<diskVars, poisonMem, metaLock, entryCount, nextFill, faults,
                 lateVars>>

AbortFill(t) ==
  /\ pc[t] = "idle"
  /\ loc[t].guard # None
  /\ FinishFill(t)

\* The future that owns the guard is dropped (client disconnect while the
\* leader awaits the backend).  FillGuard has no Drop: the registration leaks.
DropGuard(t) ==
  /\ pc[t] = "idle"
  /\ loc[t].guard # None
  /\ loc' = [loc EXCEPT ![t] = NoLocals]
  /\ UNCHANGED <<diskVars, poisonMem, fillVars, metaLock, entryCount, nextFill,
                 pc, res, faults, lateVars>>

CommitFill(t, v) ==
  /\ pc[t] = "idle"
  /\ loc[t].guard # None
  /\ loc' = [loc EXCEPT ![t].ver = v]
  /\ Goto(t, "early")
  /\ UNCHANGED <<diskVars, poisonMem, fillVars, metaLock, entryCount, nextFill,
                 res, faults, lateVars>>

\* A commit that gives up before it holds a lock.
GiveUp(t) ==
  /\ Goto(t, "finish")
  /\ UNCHANGED <<diskVars, poisonMem, fillVars, metaLock, entryCount, nextFill,
                 loc, res, lateVars>>

CommitEarlyCheck(t) ==
  /\ pc[t] = "early"
  /\ \/ /\ CurrentGen # loc[t].guard
        /\ Works /\ GiveUp(t)
     \/ /\ CurrentGen = loc[t].guard
        /\ Goto(t, "prepare")
        /\ UNCHANGED <<diskVars, poisonMem, fillVars, metaLock, entryCount,
                       nextFill, loc, res, faults, lateVars>>

\* ensure_shard_dirs_secure, the pre-publish check, and the clone of the Arc.
CommitPrepare(t) ==
  /\ pc[t] = "prepare"
  /\ \/ Fails /\ GiveUp(t)
     \/ /\ CurrentGen # loc[t].guard \/ cur = None
        /\ Works /\ GiveUp(t)
     \/ /\ CurrentGen = loc[t].guard /\ cur # None
        /\ loc' = [loc EXCEPT ![t].arc = cur]
        /\ Goto(t, "commitLock")
        /\ UNCHANGED <<diskVars, poisonMem, fillVars, metaLock, entryCount,
                       nextFill, res, faults, lateVars>>

CommitLock(t) ==
  /\ pc[t] = "commitLock"
  /\ entry[loc[t].arc].owner = None
  /\ entry' = [entry EXCEPT ![loc[t].arc].owner = t]
  /\ Goto(t, "commitMeta")
  /\ UNCHANGED <<diskVars, poisonMem, cur, metaLock, entryCount, nextFill, loc,
                 res, faults, lateVars>>

\* Mutant: an exit path keeps the commit lock.
GiveUpKeepsCommitLock(t) ==
  /\ metaLock' = None
  /\ UNCHANGED fillVars
  /\ Goto(t, "finish")

\* A commit that gives up with both locks held.
GiveUpLocked(t) ==
  /\ ReleaseLocks(t)
  /\ Goto(t, "finish")

\* Mutant: no late generation check.
CommitMetaLockUnchecked(t) ==
  /\ pc[t] = "commitMeta"
  /\ metaLock = None
  /\ metaLock' = t
  /\ Goto(t, "stage")
  /\ UNCHANGED <<diskVars, poisonMem, fillVars, entryCount, nextFill, loc, res,
                 faults, lateVars>>

\* The metadata lock, then the generation check that counts.
CommitMetaLock(t) ==
  /\ pc[t] = "commitMeta"
  /\ metaLock = None
  /\ \/ /\ CurrentGen # loc[t].guard
        /\ GiveUpLocked(t)
     \/ /\ CurrentGen = loc[t].guard
        /\ metaLock' = t
        /\ Goto(t, "stage")
        /\ UNCHANGED fillVars
  /\ UNCHANGED <<diskVars, poisonMem, entryCount, nextFill, loc, res, faults,
                 lateVars>>

\* Mutant: nothing is preserved.
PreserveNothing(v) == {}

\* preserve_same_etag_head_state_from
PreservedHead(v) == IF Readable(meta) /\ meta.etag = v THEN meta.head ELSE {}

\* Reconcile with the published metadata (if it can be read), reserve a fill_id
\* (leaked if this step fails), write and fsync the temp metadata.
CommitStage(t) ==
  /\ pc[t] = "stage"
  /\ nextFill' = nextFill + 1
  /\ \/ /\ Fails
        /\ GiveUpLocked(t)
        /\ UNCHANGED loc
     \/ /\ LET v == loc[t].ver
               Staged(h) == loc' = [loc EXCEPT ![t].new = MetaOf(nextFill, v, h)]
           IN  \/ Works /\ Staged(PreservedHead(v))
               \/ Readable(meta) /\ Fails /\ Staged({})
        /\ Goto(t, "backupBody")
        /\ UNCHANGED <<fillVars, metaLock>>
  /\ UNCHANGED <<diskVars, poisonMem, entryCount, res, lateVars>>

\* Move the old body aside.  A file whose stat fails counts as missing: it is
\* not backed up and the publish will overwrite it.
CommitBackupBody(t) ==
  /\ pc[t] = "backupBody"
  /\ \/ /\ body # None /\ Fails
        /\ GiveUpLocked(t)
        /\ UNCHANGED <<body, loc>>
     \/ /\ \/ Works /\ loc' = [loc EXCEPT ![t].old.body = body] /\ body' = None
           \/ body # None /\ Fails /\ UNCHANGED <<body, loc>>
        /\ Goto(t, "backupMeta")
        /\ UNCHANGED <<fillVars, metaLock>>
  /\ UNCHANGED <<meta, poisonFile, poisonMem, entryCount, nextFill, res, lateVars>>

\* Where a failure before the body is published rolls back to.
UndoUnpublished(t) == Goto(t, IF loc[t].old.body = None THEN "undoMeta" ELSE "undoBody")

CommitBackupMeta(t) ==
  /\ pc[t] = "backupMeta"
  /\ \/ /\ meta # None /\ Fails
        /\ UndoUnpublished(t)
        /\ UNCHANGED <<meta, loc>>
     \/ /\ \/ Works /\ loc' = [loc EXCEPT ![t].old.meta = meta] /\ meta' = None
           \/ meta # None /\ Fails /\ UNCHANGED <<meta, loc>>
        /\ Goto(t, "publishBody")
  /\ UNCHANGED <<body, poisonFile, poisonMem, fillVars, metaLock, entryCount,
                 nextFill, res, lateVars>>

CommitPublishBody(t) ==
  /\ pc[t] = "publishBody"
  /\ \/ Fails /\ UndoUnpublished(t) /\ UNCHANGED body
     \/ Works /\ Goto(t, "publishMeta") /\ body' = loc[t].ver
  /\ UNCHANGED <<meta, poisonFile, poisonMem, fillVars, metaLock, entryCount,
                 nextFill, loc, res, lateVars>>

\* Mutant: a failing metadata rename does not put the old body back.
PublishMetaNoUndo(t) ==
  /\ pc[t] = "publishMeta"
  /\ \/ Fails /\ Goto(t, "undoMeta") /\ UNCHANGED meta
     \/ Works /\ Goto(t, "published") /\ meta' = loc[t].new
  /\ UNCHANGED <<body, poisonFile, poisonMem, fillVars, metaLock, entryCount,
                 nextFill, loc, res, lateVars>>

CommitPublishMeta(t) ==
  /\ pc[t] = "publishMeta"
  /\ \/ Fails /\ Goto(t, "undoBody") /\ UNCHANGED meta
     \/ Works /\ Goto(t, "published") /\ meta' = loc[t].new
  /\ UNCHANGED <<body, poisonFile, poisonMem, fillVars, metaLock, entryCount,
                 nextFill, loc, res, lateVars>>

\* Roll back the body: restore_publish_backup, or remove what was published
\* over nothing.  A failure is logged and the roll-back goes on.
CommitUndoBody(t) ==
  /\ pc[t] = "undoBody"
  /\ \/ Works /\ body' = loc[t].old.body
     \/ body # loc[t].old.body /\ Fails /\ UNCHANGED body
  /\ Goto(t, "undoMeta")
  /\ UNCHANGED <<meta, poisonFile, poisonMem, fillVars, metaLock, entryCount,
                 nextFill, loc, res, lateVars>>

CommitUndoMeta(t) ==
  /\ pc[t] = "undoMeta"
  /\ \/ Works /\ meta' = IF loc[t].old.meta = None THEN meta ELSE loc[t].old.meta
     \/ loc[t].old.meta # None /\ Fails /\ UNCHANGED meta
  /\ GiveUpLocked(t)
  /\ UNCHANGED <<body, poisonFile, poisonMem, entryCount, nextFill, loc, res,
                 lateVars>>

\* Mutant: a replaced entry is counted twice.
ClearCountsTwice(t) ==
  /\ pc[t] = "published"
  /\ entryCount' = entryCount + 1
  /\ ClearPoison
  /\ GiveUpLocked(t)
  /\ UNCHANGED <<body, meta, nextFill, loc, res, lateVars>>

\* The backups are deleted, the statistics adjusted, and the poison cleared
\* while both locks are still held.
CommitClear(t) ==
  /\ pc[t] = "published"
  /\ entryCount' = 1 + IF loc[t].old = Nothing THEN entryCount
                                               ELSE SaturatingPred(entryCount)
  /\ ClearPoison
  /\ GiveUpLocked(t)
  /\ UNCHANGED <<body, meta, nextFill, loc, res, lateVars>>

CommitFinish(t) ==
  /\ pc[t] = "finish"
  /\ FinishFill(t)
-----------------------------------------------------------------------------
(* Invalidation: purge, purge_if_unchanged, poison, poison_if_unchanged.     *)

\* The call, and the clone of the Arc if a fill is active.
Invalidate(t, kind, expected) ==
  /\ pc[t] = "idle"
  /\ loc[t].guard = None
  /\ loc' = [loc EXCEPT ![t] = [@ EXCEPT !.kind = kind, !.exp = expected, !.arc = cur]]
  /\ Goto(t, IF cur = None THEN "invalMeta" ELSE "invalLock")
  /\ res' = [res EXCEPT ![t] = Outcome("none")]
  /\ UNCHANGED <<diskVars, poisonMem, fillVars, metaLock, entryCount, nextFill,
                 faults, lateVars>>

\* Mutant: an invalidation does not move the generation on.
InvalidateNoBump(t) ==
  /\ pc[t] = "invalLock"
  /\ entry[loc[t].arc].owner = None
  /\ entry' = [entry EXCEPT ![loc[t].arc].owner = t]
  /\ Goto(t, "invalMeta")
  /\ UNCHANGED <<diskVars, poisonMem, cur, metaLock, entryCount, nextFill, loc,
                 res, faults, lateVars>>

\* An unconditional invalidation fences the fills as soon as it has the lock.
InvalidateLock(t) ==
  /\ pc[t] = "invalLock"
  /\ entry[loc[t].arc].owner = None
  /\ LET ents == IF loc[t].exp = None THEN Bumped(t, entry) ELSE entry
     IN  entry' = [ents EXCEPT ![loc[t].arc].owner = t]
  /\ Goto(t, "invalMeta")
  /\ UNCHANGED <<diskVars, poisonMem, cur, metaLock, entryCount, nextFill, loc,
                 res, faults, lateVars>>

InvalidateMetaLock(t) ==
  /\ pc[t] = "invalMeta"
  /\ metaLock = None
  /\ metaLock' = t
  /\ Goto(t, loc[t].kind)
  /\ UNCHANGED <<diskVars, poisonMem, fillVars, entryCount, nextFill, loc, res,
                 faults, lateVars>>

ReturnUnlocked(t, r) == Return(t, r) /\ ReleaseLocks(t)

\* Mutant: any readable metadata will do.
MatchesAny(t) == Readable(meta)

\* A conditional invalidation that found the entry it was meant for.
Matches(t) == Readable(meta) /\ meta.fill = loc[t].exp

\* The purge has done its work and will return r: the hash leaves memory, and
\* the removal of the marker is awaited.
Unmarks(t, r) ==
  /\ poisonMem' = FALSE
  /\ res' = [res EXCEPT ![t] = r]
  /\ Goto(t, "unmark")
  /\ UNCHANGED <<poisonFile, fillVars, metaLock, loc>>

\* purge_inner up to the first removal.
PurgeCheck(t) ==
  LET conditional == loc[t].exp # None
      missing == meta = None /\ (conditional \/ body = None)
  IN
  /\ pc[t] = "purge"
  /\ \* a read or an existence check fails; the fence is up if the id matched
     \/ /\ Fails
        /\ \/ Return(t, Outcome("err")) /\ ReleaseLocks(t)
           \/ /\ conditional /\ Matches(t)
              /\ Return(t, Outcome("err"))
              /\ metaLock' = None
              /\ entry' = Unlocked(t, Bumped(t, entry))
              /\ UNCHANGED cur
        /\ UNCHANGED <<body, poisonMem, poisonFile, entryCount>>
     \* no metadata: a conditional purge removes an orphaned body (a failing
     \* stat, which would only lose the count, is left out)
     \/ /\ missing
        /\ Works
        /\ body' = None
        /\ entryCount' = IF body = None THEN entryCount
                                        ELSE SaturatingPred(entryCount)
        /\ Unmarks(t, Outcome("false"))
     \* unparsable metadata, or another fill's
     \/ /\ conditional /\ meta # None /\ ~Matches(t)
        /\ Works
        /\ ReturnUnlocked(t, Outcome(IF meta = Corrupt THEN "err" ELSE "false"))
        /\ UNCHANGED <<body, poisonMem, poisonFile, entryCount>>
     \/ /\ ~missing
        /\ conditional => Matches(t)
        /\ Works
        /\ Goto(t, "removeBody")
        /\ entry' = IF conditional THEN Bumped(t, entry) ELSE entry
        /\ UNCHANGED <<body, poisonMem, poisonFile, entryCount, cur, metaLock,
                       loc, res>>
  /\ UNCHANGED <<meta, nextFill, lateVars>>

PurgeRemoveBody(t) ==
  /\ pc[t] = "removeBody"
  /\ \/ /\ body # None /\ Fails
        /\ ReturnUnlocked(t, Outcome("err"))
        /\ UNCHANGED body
     \/ /\ Works
        /\ body' = None
        /\ Goto(t, "removeMeta")
        /\ UNCHANGED <<fillVars, metaLock, loc, res>>
  /\ UNCHANGED <<meta, poisonFile, poisonMem, entryCount, nextFill, lateVars>>

PurgeRemoveMeta(t) ==
  /\ pc[t] = "removeMeta"
  /\ \/ /\ meta # None /\ Fails
        /\ ReturnUnlocked(t, Outcome("err"))
        /\ UNCHANGED <<meta, poisonFile, poisonMem, entryCount>>
     \/ /\ Works
        /\ meta' = None
        /\ entryCount' = SaturatingPred(entryCount)
        /\ Unmarks(t, Outcome("true"))
  /\ UNCHANGED <<body, nextFill, lateVars>>

\* The last step of a purge; a failing removal of the marker is ignored.
PurgeUnmark(t) ==
  /\ pc[t] = "unmark"
  /\ \/ Works /\ poisonFile' = FALSE
     \/ poisonFile /\ Fails /\ UNCHANGED poisonFile
  /\ ReturnUnlocked(t, res[t])
  /\ UNCHANGED <<body, meta, poisonMem, entryCount, nextFill, lateVars>>

\* poison and poison_if_unchanged under the metadata lock: mark the hash in
\* memory first, so that a failing marker still fails closed.
PoisonMark(t) ==
  LET conditional == loc[t].exp # None
  IN
  /\ pc[t] = "poison"
  /\ \/ /\ conditional /\ Fails
        /\ ReturnUnlocked(t, Outcome("err"))
        /\ UNCHANGED poisonMem
     \/ /\ conditional /\ ~Matches(t)
        /\ Works
        /\ ReturnUnlocked(t, Outcome(IF meta = Corrupt THEN "err" ELSE "false"))
        /\ UNCHANGED poisonMem
     \/ /\ conditional => Matches(t)
        /\ Works
        /\ poisonMem' = TRUE
        /\ entry' = IF conditional THEN Bumped(t, entry) ELSE entry
        /\ Goto(t, "marker")
        /\ UNCHANGED <<cur, metaLock, loc, res>>
  /\ UNCHANGED <<diskVars, entryCount, nextFill, lateVars>>

\* write_poison_marker; a marker that exists already is a success.
PoisonWriteMarker(t) ==
  /\ pc[t] = "marker"
  /\ \/ Fails /\ ReturnUnlocked(t, Outcome("err")) /\ UNCHANGED poisonFile
     \/ Works /\ ReturnUnlocked(t, Outcome("true")) /\ poisonFile' = TRUE
  /\ UNCHANGED <<body, meta, poisonMem, entryCount, nextFill, lateVars>>
-----------------------------------------------------------------------------
(* Reads and metadata updates.                                               *)

Hit == [is |-> "hit", ver |-> body, meta |-> meta]

\* lookup_inner: the poison check before the metadata lock.
Lookup(t) ==
  /\ pc[t] = "idle"
  /\ loc[t].guard = None
  /\ \/ Fails /\ Return(t, Outcome("err"))
     \/ Poisoned /\ Works /\ Return(t, Outcome("miss"))
     \/ ~Poisoned /\ Works /\ Goto(t, "lookup") /\ UNCHANGED loc
                                    /\ res' = [res EXCEPT ![t] = Outcome("none")]
  /\ UNCHANGED <<diskVars, poisonMem, fillVars, metaLock, entryCount, nextFill,
                 lateVars>>

\* lookup_inner under the metadata lock.  The body is opened (or stat'ed)
\* before the lock is dropped, so the caller reads the content seen here.
LookupLocked(t) ==
  /\ pc[t] = "lookup"
  /\ metaLock = None
  /\ \/ /\ Fails
        /\ Return(t, Outcome("err"))
        /\ UNCHANGED <<body, meta, entryCount>>
     \/ /\ Poisoned
        /\ Works /\ Return(t, Outcome("miss"))
        /\ UNCHANGED <<body, meta, entryCount>>
     \* metadata gone: clean up an orphaned body, ignoring a failure
     \/ /\ ~Poisoned /\ meta = None
        /\ CleanupOrphan
        /\ Return(t, Outcome("miss"))
        /\ UNCHANGED meta
     \* corrupt metadata: remove both files, ignoring failures
     \/ /\ ~Poisoned /\ meta = Corrupt
        /\ \/ Works /\ meta' = None /\ body' = None
           \/ Fails /\ meta' = None /\ UNCHANGED body
           \/ Fails /\ body' = None /\ UNCHANGED meta
           \/ /\ MayFail /\ faults + 2 <= MaxFaults /\ faults' = faults + 2
              /\ UNCHANGED <<body, meta>>
        /\ entryCount' = SaturatingPred(entryCount)
        /\ Return(t, Outcome("miss"))
     \* body gone: remove the metadata, ignoring a failure
     \/ /\ ~Poisoned /\ Readable(meta) /\ body = None
        /\ \/ Works /\ meta' = None
           \/ Fails /\ UNCHANGED meta
        /\ entryCount' = SaturatingPred(entryCount)
        /\ Return(t, Outcome("miss"))
        /\ UNCHANGED body
     \/ /\ ~Poisoned /\ Readable(meta) /\ body # None
        /\ Works /\ Return(t, Hit)
        /\ UNCHANGED <<body, meta, entryCount>>
  /\ UNCHANGED <<poisonFile, poisonMem, fillVars, metaLock, nextFill, lateVars>>

UpdatedMeta(s, b) ==
  [s EXCEPT !.atime = meta.atime, !.mver = meta.mver + 1, !.head = @ \cup {b},
            !.synced = FALSE]

\* update_metadata_if_unchanged: s is the metadata the caller read earlier,
\* b what its HEAD learned.  cache_written_at, last_accessed_at and fill_id
\* come from the current file, everything else from the caller's copy.
UpdateMetadata(t, s, b) ==
  /\ pc[t] = "idle"
  /\ metaLock = None
  /\ \/ Fails /\ Return(t, Outcome("err")) /\ UNCHANGED meta
     \/ /\ body # None /\ meta = Corrupt
        /\ Works /\ Return(t, Outcome("err")) /\ UNCHANGED meta
     \/ /\ \/ body = None \/ meta = None
           \/ Readable(meta) /\ <<meta.fill, meta.mver>> # <<s.fill, s.mver>>
        /\ Works /\ Return(t, Outcome("false")) /\ UNCHANGED meta
     \/ /\ body # None /\ Readable(meta)
        /\ meta.fill = s.fill /\ meta.mver = s.mver
        /\ Works /\ Return(t, Outcome("true"))
        /\ meta' = UpdatedMeta(s, b)
  /\ UNCHANGED <<body, poisonFile, poisonMem, fillVars, metaLock, entryCount,
                 nextFill, lateVars>>

\* Mutant: the caller's copy is written back, not the file read under the lock.
RewriteCallersCopy(t, s, now) ==
  /\ pc[t] = "idle"
  /\ metaLock = None
  /\ \/ /\ Readable(meta) /\ meta.fill = s.fill /\ meta.atime < now
        /\ Works
        /\ meta' = [s EXCEPT !.atime = now, !.synced = FALSE]
     \/ /\ Readable(meta) => meta.fill # s.fill \/ meta.atime >= now
        /\ Works /\ UNCHANGED meta
     \/ Fails /\ UNCHANGED meta
  /\ Return(t, Outcome("none"))
  /\ UNCHANGED <<body, poisonFile, poisonMem, fillVars, metaLock, entryCount,
                 nextFill, lateVars>>

\* rewrite_last_accessed, spawned by note_hit for a hit more than an hour old.
\* Every failure is swallowed.
RewriteLastAccessed(t, s, now) ==
  /\ pc[t] = "idle"
  /\ metaLock = None
  /\ \/ /\ Readable(meta) /\ meta.fill = s.fill /\ meta.atime < now
        /\ Works
        /\ meta' = [meta EXCEPT !.atime = now, !.synced = FALSE]
     \/ /\ Readable(meta) => meta.fill # s.fill \/ meta.atime >= now
        /\ Works /\ UNCHANGED meta
     \/ Fails /\ UNCHANGED meta
  /\ Return(t, Outcome("none"))
  /\ UNCHANGED <<body, poisonFile, poisonMem, fillVars, metaLock, entryCount,
                 nextFill, lateVars>>
-----------------------------------------------------------------------------
(* The process dies and DiskCache::new runs: temp files and backups are      *)
(* swept, an orphaned body is removed, pairs of files are counted.  Metadata *)
(* that was rewritten without fsync may be unreadable.                       *)
Restart ==
  /\ MayFail
  /\ crashes < MaxCrashes
  /\ crashes' = crashes + 1
  /\ meta' \in {meta} \cup (IF Readable(meta) /\ ~meta.synced THEN {Corrupt} ELSE {})
  /\ \/ Works /\ body' = IF meta = None THEN None ELSE body
     \/ body # None /\ meta = None /\ Fails /\ UNCHANGED body
  /\ entryCount' = OtherEntries + IF body # None /\ meta # None THEN 1 ELSE 0
  /\ poisonMem' = FALSE
  /\ cur' = None
  /\ entry' = [e \in EntryIds |-> FreshEntry]
  /\ metaLock' = None
  /\ pc' = [t \in Tasks |-> "idle"]
  /\ loc' = [t \in Tasks |-> NoLocals]
  /\ res' = [t \in Tasks |-> Outcome("none")]
  /\ detached' = {}
  /\ UNCHANGED <<poisonFile, nextFill, cancels>>
-----------------------------------------------------------------------------
(* A client disconnects and axum drops the handler's future half way through *)
(* a call.  The guards are released at once, but a file operation that       *)
(* tokio::fs has handed to the blocking pool still runs, at any later time.  *)

Detach(ops) ==
  /\ MayFail
  /\ cancels < MaxCancels
  /\ cancels' = cancels + 1
  /\ detached' = detached \cup ops

\* An unlink of body or meta, the creation ("poison") or the unlink ("unmark")
\* of the poison marker.
FileOp(file) == [file |-> file, to |-> None]

\* What an invalidation has handed to the blocking pool where it awaits; at
\* "purge" a conditional one may be removing an orphaned body.
Pending(t) ==
  CASE pc[t] = "removeBody" -> {FileOp("body")}
    [] pc[t] = "removeMeta" -> {FileOp("meta")}
    [] pc[t] = "unmark"     -> {FileOp("unmark")}
    [] pc[t] = "marker"     -> {FileOp("poison")}
    [] pc[t] = "purge" /\ loc[t].exp # None /\ meta = None -> {FileOp("body")}
    [] OTHER                -> {}

\* A purge or poison is dropped at one of its awaits.
CancelInvalidate(t) ==
  /\ pc[t] \in {"invalLock", "invalMeta", "purge", "removeBody", "removeMeta",
                "unmark", "poison", "marker"}
  /\ Detach(Pending(t))
  /\ metaLock' = IF metaLock = t THEN None ELSE metaLock
  /\ entry' = [e \in EntryIds |->
                 IF entry[e].owner = t THEN [entry[e] EXCEPT !.owner = None]
                                       ELSE entry[e]]
  /\ Return(t, Outcome("none"))
  /\ UNCHANGED <<diskVars, poisonMem, cur, entryCount, nextFill, faults, crashes>>

\* lookup_inner is dropped while it cleans up: an orphaned body, corrupt
\* metadata (removed first) and its body, or metadata without a body.
CancelLookup(t) ==
  /\ pc[t] = "lookup"
  /\ metaLock = None
  /\ ~Poisoned
  /\ \/ meta = None /\ body # None /\ Detach({FileOp("body")}) /\ UNCHANGED meta
     \/ meta = Corrupt /\ Detach({FileOp("meta")}) /\ UNCHANGED meta
     \/ meta = Corrupt /\ Detach({FileOp("body")}) /\ meta' = None
     \/ Readable(meta) /\ body = None /\ Detach({FileOp("meta")}) /\ UNCHANGED meta
  /\ Return(t, Outcome("none"))
  /\ UNCHANGED <<body, poisonFile, poisonMem, fillVars, metaLock, entryCount,
                 nextFill, faults, crashes>>

\* update_metadata_if_unchanged is dropped while it awaits its rename.
CancelUpdate(t, s, b) ==
  /\ pc[t] = "idle"
  /\ metaLock = None
  /\ body # None /\ Readable(meta)
  /\ meta.fill = s.fill /\ meta.mver = s.mver
  /\ Detach({[file |-> "meta", to |-> UpdatedMeta(s, b)]})
  /\ Return(t, Outcome("none"))
  /\ UNCHANGED <<diskVars, poisonMem, fillVars, metaLock, entryCount, nextFill,
                 faults, crashes>>

\* The blocking pool gets to it: an unlink, the creation of the poison marker,
\* or the rename of a metadata file into place.
RunDetached ==
  \E op \in detached :
    /\ detached' = detached \ {op}
    /\ body' = IF op.file = "body" THEN None ELSE body
    /\ meta' = IF op.file = "meta" THEN op.to ELSE meta
    /\ poisonFile' = (op.file = "poison" \/ (poisonFile /\ op.file # "unmark"))
    /\ UNCHANGED <<poisonMem, fillVars, metaLock, entryCount, nextFill, pc, loc,
                   res, faults, crashes, cancels>>

\* The steps of a method that was called.
CommitStep(t) ==
  \/ CommitEarlyCheck(t) \/ CommitPrepare(t) \/ CommitLock(t) \/ CommitMetaLock(t)
  \/ CommitStage(t) \/ CommitBackupBody(t) \/ CommitBackupMeta(t)
  \/ CommitPublishBody(t) \/ CommitPublishMeta(t)
  \/ CommitUndoBody(t) \/ CommitUndoMeta(t) \/ CommitClear(t) \/ CommitFinish(t)

InvalidateStep(t) ==
  \/ InvalidateLock(t) \/ InvalidateMetaLock(t)
  \/ PurgeCheck(t) \/ PurgeRemoveBody(t) \/ PurgeRemoveMeta(t) \/ PurgeUnmark(t)
  \/ PoisonMark(t) \/ PoisonWriteMarker(t)

MethodStep(t) == CommitStep(t) \/ InvalidateStep(t) \/ LookupLocked(t)
-----------------------------------------------------------------------------
(* Callers: the handlers, each of which is one task, may call any method at  *)
(* any time, with the metadata of their last hit as the expected identity.   *)
(* The guards other than "a hit was returned" are the bounds.                *)

HitBy(t) == res[t].is = "hit"

CurrentRefs == IF cur = None THEN 0 ELSE entry[cur].refs

CallFill(t) ==
  \/ nextFill <= MaxFills /\ CurrentRefs < MaxRefs /\ BeginFill(t)
  \/ nextFill <= MaxFills /\ \E v \in Versions : CommitFill(t, v)
  \/ AbortFill(t)
  \/ DropGuard(t)

CallInvalidate(t) ==
  /\ CurrentGen < MaxGen
  /\ \E kind \in {"purge", "poison"} :
       \/ Invalidate(t, kind, None)
       \/ HitBy(t) /\ Invalidate(t, kind, res[t].meta.fill)

CallUpdate(t) ==
  /\ HitBy(t)
  /\ \/ \E b \in HeadBits \ res[t].meta.head :
          UpdateMetadata(t, res[t].meta, b) \/ CancelUpdate(t, res[t].meta, b)
     \/ \E h \in res[t].meta.atime + 1 .. MaxHours :
          RewriteLastAccessed(t, res[t].meta, h)

Call(t) == CallFill(t) \/ CallInvalidate(t) \/ Lookup(t) \/ CallUpdate(t)

Next ==
  \/ Restart
  \/ RunDetached
  \/ \E t \in Tasks : Call(t) \/ MethodStep(t) \/ CancelInvalidate(t) \/ CancelLookup(t)

Spec == Init /\ [][Next]_vars
-----------------------------------------------------------------------------
(* Properties.                                                               *)

(* Every variable of the cache has the shape the code gives it.              *)
TypeOK ==
  /\ body \in Versions \cup {None}
  /\ meta \in Metas \cup {Corrupt, None}
  /\ poisonFile \in BOOLEAN /\ poisonMem \in BOOLEAN
  /\ cur \in EntryIds \cup {None}
  /\ entry \in [EntryIds -> [refs : Nat, gen : Nat, owner : Tasks \cup {None}]]
  /\ metaLock \in Tasks \cup {None}
  /\ entryCount \in Nat /\ nextFill \in Nat

(* No reader can get metadata of one object version with the body of another *)
(* ("a transient publish failure cannot destroy a healthy entry").  It holds *)
(* whatever the interleaving if one file operation of all publishes, roll-   *)
(* backs, purges and lookups fails, or if the process dies once at any step, *)
(* or if one invalidation is dropped half way and its unlink runs late.      *)
NoTornEntry ==
  metaLock = None /\ Readable(meta) /\ body # None => body = meta.etag

Guarding == {t \in Tasks : loc[t].guard # None}

(* A registration keeps its FillEntry in active_fills until finish_fill, and *)
(* a committer locks the object that purges of the key lock ("Shouldn't      *)
(* happen (refcount > 0 keeps the entry alive)").                            *)
RegistrationHolds ==
  Guarding # {} =>
    /\ cur # None
    /\ entry[cur].refs >= Cardinality(Guarding)
    /\ \A t \in Guarding : loc[t].arc \in {None, cur}

Replacing == {"stage", "backupBody", "backupMeta", "publishBody", "publishMeta",
              "undoBody", "undoMeta", "published"}
Fenced(t) ==
  pc[t] \in Replacing =>
    /\ metaLock = t
    /\ cur # None /\ loc[t].arc = cur
    /\ entry[cur].owner = t
    /\ entry[cur].gen = loc[t].guard

(* While a fill replaces the files it holds the commit lock of the FillEntry *)
(* in active_fills and the metadata lock, and no invalidation has moved the  *)
(* generation on since its begin_fill: a purge or poison that overlaps a     *)
(* fill either waits until the fill has published, or the fill publishes     *)
(* nothing.                                                                  *)
PublishFenced == \A t \in Tasks : Fenced(t)

(* All of it: what fences a fill against the purges and poisons of its key   *)
(* holds from begin_fill until the fill has published or given up.           *)
FillsFenced == TypeOK /\ RegistrationHolds /\ PublishFenced

(* While no file operation has failed, no restart has happened and no call   *)
(* was dropped, entry_count is exact whenever no method is in progress,      *)
(* whatever the interleaving of fills, purges and lookups before.            *)
CountExact ==
  faults + crashes + cancels = 0 /\ (\A t \in Tasks : pc[t] = "idle") =>
    entryCount = OtherEntries + IF meta = None THEN 0 ELSE 1

KeepsUpdates ==
  Readable(meta) /\ Readable(meta') /\ meta'.fill = meta.fill =>
    /\ meta'.mver >= meta.mver
    /\ meta'.atime >= meta.atime
    /\ meta.head \subseteq meta'.head
    /\ meta'.etag = meta.etag

(* For one fill, a HEAD refresh, an access-time rewrite and their races      *)
(* never undo one another: metadata_version and last_accessed_at never go    *)
(* back and HEAD state that was learned is not lost.                         *)
NoLostUpdate == [][KeepsUpdates]_vars

HitsTarget(t) ==
  /\ metaLock = t /\ loc[t].exp # None
  /\ crashes' = crashes /\ detached \subseteq detached'
  /\ Readable(meta)
  /\ <<body, meta, poisonMem>>' # <<body, meta, poisonMem>>
  => meta.fill = loc[t].exp

(* purge_if_unchanged and poison_if_unchanged never touch an entry of        *)
(* another fill than the one the caller looked at, even if an operation of   *)
(* theirs fails or a dropped call's file operation runs in between.          *)
ConditionalHitsTarget == [][\A t \in Tasks : HitsTarget(t)]_vars

KeepsHeadState(t) ==
  LET old == loc[t].old.meta
  IN  /\ pc[t] = "publishMeta" /\ pc'[t] = "published"
      /\ Readable(old) /\ old.etag = loc[t].ver /\ faults = 0
      => meta'.head = old.head

(* A fill that replaces an entry of the same ETag publishes the HEAD-only    *)
(* state that entry had when it was replaced, even if a refresh wrote it     *)
(* while the fill was under way.  (The carry-over is best effort: a fill     *)
(* whose read of the old metadata failed publishes without it.)              *)
HeadStateKept == [][\A t \in Tasks : KeepsHeadState(t)]_vars

\* Tokio schedules every runnable task, and its mutexes are granted in FIFO
\* order, so a waiter for a lock that is released again and again gets it.
Fairness == \A t \in Tasks : SF_vars(MethodStep(t))

FairSpec == Spec /\ Fairness

(* Every method that was called returns: the commit lock, then metadata lock *)
(* order admits no deadlock and no exit path keeps a lock.                   *)
MethodsReturn == \A t \in Tasks : pc[t] # "idle" ~> pc[t] = "idle"
=============================================================================
