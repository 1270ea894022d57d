-------------------------- MODULE DiskFilesProofs ---------------------------
(* What happens to the two files of an entry, for any number of tasks: no    *)
(* torn entry, no lost update, no invalidation of the wrong entry, an exact  *)
(* count.                                                                    *)
EXTENDS DiskCacheProofs

Failures == faults + crashes + cancels

\* No metadata refresh is dropped while its rename is in the blocking pool:
\* either no call is dropped, or no refresh has anything to write.
NoLateRename == MaxCancels = 0 \/ HeadBits = {}
-----------------------------------------------------------------------------
(* Which fill a copy of the metadata belongs to.                             *)

\* s is metadata some task has read, m the metadata on disk or in a backup:
\* the same fill_id means the same ETag, the same metadata_version the same
\* HEAD state.
Agree(s, m) ==
  Readable(m) /\ m.fill = s.fill =>
    /\ s.etag = m.etag
    /\ s.mver <= m.mver
    /\ s.mver = m.mver => s.head = m.head

\* A commit between its staging and the rename of its metadata.
Moving == {"backupBody", "backupMeta", "publishBody", "publishMeta", "undoBody", "undoMeta"}

\* The old metadata, if it was moved aside, is not on disk.
MovedAside(t) ==
  pc[t] \in {"publishBody", "publishMeta", "undoBody", "undoMeta"} /\ loc[t].old.meta # None
    => meta = None

HitsAgree ==
  \A t \in Tasks :
    HitBy(t) =>
      /\ res[t].meta.fill < nextFill
      /\ Agree(res[t].meta, meta)
      /\ \A u \in Tasks :
           pc[u] \in Moving =>
             /\ Agree(res[t].meta, loc[u].old.meta)
             /\ res[t].meta.fill < loc[u].new.fill

\* What is staged gets a fill_id above every one in use, and the HEAD state of
\* the entry it replaces.
StagedFresh(t) ==
  /\ pc[t] \in Moving =>
       /\ loc[t].new.fill < nextFill
       /\ Readable(meta) => meta.fill < loc[t].new.fill
       /\ Readable(loc[t].old.meta) => loc[t].old.meta.fill < nextFill
  /\ pc[t] \in {"backupBody", "backupMeta"} =>
       /\ loc[t].old.meta = None
       /\ faults = 0 /\ Readable(meta) /\ meta.etag = loc[t].ver
            => loc[t].new.head = meta.head
  /\ pc[t] \in {"publishBody", "publishMeta"} =>
       LET old == loc[t].old.meta
       IN  faults = 0 /\ Readable(old) /\ old.etag = loc[t].ver
             => loc[t].new.head = old.head

\* A conditional invalidation that goes on to remove or mark has found its fill.
OnTarget(t) ==
  pc[t] \in {"removeBody", "removeMeta"} /\ loc[t].exp # None /\ Readable(meta)
    => meta.fill = loc[t].exp

IdInv ==
  /\ \A op \in detached : op.to = None
  /\ Readable(meta) => meta.fill < nextFill
  /\ HitsAgree
  /\ \A t \in Tasks : MovedAside(t) /\ StagedFresh(t) /\ OnTarget(t)
-----------------------------------------------------------------------------
\* A body and metadata that a reader may be given together.
Pair(b, m) == Readable(m) /\ b # None => b = m.etag

\* The metadata a roll-back leaves on disk.
Restored(t) == IF loc[t].old.meta = None THEN meta ELSE loc[t].old.meta

\* With one failure in all, the files of a commit under way can be rolled back
\* as long as it may still fail, and are published once it may not.
Recoverable(t) ==
  LET old == loc[t].old
  IN
  /\ pc[t] = "backupMeta" =>
       /\ old.meta = None
       /\ \/ body = None /\ Pair(old.body, meta)
          \/ Failures # 0 /\ old.body = None /\ Pair(body, meta)
  /\ pc[t] = "publishBody" /\ Failures = 0 =>
       body = None /\ meta = None /\ Pair(old.body, old.meta)
  /\ pc[t] = "publishMeta" =>
       /\ body \in {None, loc[t].ver}
       /\ Failures = 0 => meta = None /\ Pair(old.body, old.meta)
  /\ pc[t] = "undoBody" => Failures # 0 /\ Pair(old.body, Restored(t))
  /\ pc[t] = "undoMeta" => Failures # 0 /\ Pair(body, Restored(t))

FilesInv ==
  /\ Failures = 0 => detached = {}
  /\ (\A t \in Tasks : pc[t] \notin Moving \ {"backupBody"}) => Pair(body, meta)
  /\ \A t \in Tasks : Recoverable(t)
-----------------------------------------------------------------------------
Present(f) == IF f = None THEN 0 ELSE 1

\* A purge or commit whose files do not yet match the count.
Settled(l) == l \notin {"removeMeta", "published"} \cup (Moving \ {"backupBody"})

\* While nothing has failed, entry_count and the files match but for what the
\* holder of the metadata lock has done already.
Counted(t) ==
  LET old == loc[t].old
      Kept == (old.body = None <=> old.meta = None) /\ entryCount = OtherEntries + Present(old.meta)
  IN
  /\ pc[t] = "removeBody" => meta # None
  /\ pc[t] = "removeMeta" => body = None /\ meta # None /\ entryCount = OtherEntries + 1
  /\ pc[t] = "backupMeta" =>
       /\ body = None /\ (old.body = None <=> meta = None)
       /\ entryCount = OtherEntries + Present(meta)
  /\ pc[t] = "publishBody" => body = None /\ meta = None /\ Kept
  /\ pc[t] = "publishMeta" => body # None /\ meta = None /\ Kept
  /\ pc[t] = "published" => body # None /\ meta # None /\ Kept
  /\ pc[t] \notin {"undoBody", "undoMeta"}

Balanced == (body = None <=> meta = None) /\ entryCount = OtherEntries + Present(meta)

CountInv ==
  Failures = 0 =>
    /\ detached = {} /\ meta # Corrupt
    /\ (\A t \in Tasks : Settled(pc[t])) => Balanced
    /\ \A t \in Tasks : Counted(t)
-----------------------------------------------------------------------------
(* What a step does to the files, in terms of the fields of the locals.      *)

Steps(t) == Call(t) \/ MethodStep(t) \/ CancelInvalidate(t) \/ CancelLookup(t)

\* Points at which a task has its hands on the files.
Busy == Moving \cup {"removeBody", "removeMeta", "published"}

\* No new hit is returned, and the other tasks keep theirs.
NoNewHit(t) ==
  /\ \A u \in Tasks \ {t} : res'[u] = res[u]
  /\ res'[t].is # "hit" \/ res'[t] = res[t]

\* Files and count stay as they are, and the task has nothing in hand before
\* and after.
Quiet(t) ==
  /\ Only(t) /\ NoNewHit(t)
  /\ body' = body /\ meta' = meta /\ entryCount' = entryCount /\ detached' = detached
  /\ nextFill' \in {nextFill, nextFill + 1}
  /\ crashes' = crashes /\ cancels' = cancels /\ faults' \in {faults, faults + 1}
  /\ pc[t] \notin Busy /\ pc'[t] \notin Busy

(* A method that returns something other than a hit adds none.               *)
LEMMA ReturnsNoHit ==
  ASSUME FenceInv, NEW t \in Tasks, NEW s \in Answers, Return(t, Outcome(s))
  PROVE  Only(t) /\ NoNewHit(t) /\ pc'[t] = "idle"
<1>1. Outcome(s) \in Results /\ Outcome(s).is # "hit"
  BY Typed
<1> QED
  BY <1>1, Returns DEF NoNewHit, Return, Goto, FenceInv, TasksOK

(* Fills up to the generation check, invalidations before and after their    *)
(* removals, and the poisoning leave files and count alone.                  *)
LEMMA QuietSteps ==
  ASSUME FenceInv, NEW t \in Tasks,
         \/ BeginFill(t) \/ (loc[t].guard # None /\ pc[t] \in {"idle", "finish"} /\ FinishFill(t))
         \/ DropGuard(t) \/ (\E v \in Versions : CommitFill(t, v))
         \/ CommitEarlyCheck(t) \/ CommitPrepare(t) \/ CommitLock(t) \/ CommitMetaLock(t)
         \/ (\E k \in {"purge", "poison"}, x \in Nat \cup {None} : Invalidate(t, k, x))
         \/ InvalidateLock(t) \/ InvalidateMetaLock(t) \/ PurgeUnmark(t)
         \/ PoisonMark(t) \/ PoisonWriteMarker(t) \/ Lookup(t)
  PROVE  Quiet(t)
<1> USE DEF FenceInv, TasksOK, diskVars, fillVars, lateVars, Works, Fails, Goto,
            Busy, Moving
<1> USE Typed
<1>1. CASE BeginFill(t)
  BY <1>1 DEF BeginFill, Quiet, Only, NoNewHit, Answers
<1>2. CASE loc[t].guard # None /\ pc[t] \in {"idle", "finish"} /\ FinishFill(t)
  BY <1>2, ReturnsNoHit DEF FinishFill, Quiet, Answers
<1>3. CASE DropGuard(t)
  BY <1>3 DEF DropGuard, Quiet, Only, NoNewHit
<1>4. CASE \E v \in Versions : CommitFill(t, v)
  BY <1>4 DEF CommitFill, Quiet, Only, NoNewHit
<1>5. CASE CommitEarlyCheck(t)
  BY <1>5 DEF CommitEarlyCheck, GiveUp, Quiet, Only, NoNewHit
<1>6. CASE CommitPrepare(t)
  BY <1>6 DEF CommitPrepare, GiveUp, Quiet, Only, NoNewHit
<1>7. CASE CommitLock(t)
  BY <1>7 DEF CommitLock, Quiet, Only, NoNewHit
<1>8. CASE CommitMetaLock(t)
  BY <1>8 DEF CommitMetaLock, GiveUpLocked, Quiet, Only, NoNewHit
<1>9. CASE \E k \in {"purge", "poison"}, x \in Nat \cup {None} : Invalidate(t, k, x)
  BY <1>9 DEF Invalidate, Quiet, Only, NoNewHit, Answers
<1>10. CASE InvalidateLock(t)
  BY <1>10 DEF InvalidateLock, Quiet, Only, NoNewHit
<1>11. CASE InvalidateMetaLock(t)
  <2>1. loc[t].kind \in {"purge", "poison"}
    BY <1>11 DEF InvalidateMetaLock, Shape, Invalidating
  <2> QED
    BY <1>11, <2>1 DEF InvalidateMetaLock, Quiet, Only, NoNewHit
<1>12. CASE PoisonMark(t)
  <2>1. CASE \E s \in Answers : Return(t, Outcome(s))
    BY <1>12, <2>1, ReturnsNoHit DEF PoisonMark, ReturnUnlocked, Quiet
  <2>2. CASE pc' = [pc EXCEPT ![t] = "marker"] /\ UNCHANGED <<loc, res>> /\ Works
    BY <1>12, <2>2 DEF PoisonMark, Quiet, Only, NoNewHit
  <2> QED
    BY <1>12, <2>1, <2>2 DEF PoisonMark, ReturnUnlocked, Answers
<1>13. CASE PoisonWriteMarker(t)
  <2>1. CASE \E s \in Answers : Return(t, Outcome(s))
    BY <1>13, <2>1, ReturnsNoHit DEF PoisonWriteMarker, Quiet
  <2> QED
    BY <1>13, <2>1 DEF PoisonWriteMarker, ReturnUnlocked, Answers
<1>14. CASE Lookup(t)
  <2>1. CASE \E s \in Answers : Return(t, Outcome(s))
    BY <1>14, <2>1, ReturnsNoHit DEF Lookup, Quiet
  <2>2. CASE Works /\ pc' = [pc EXCEPT ![t] = "lookup"] /\ UNCHANGED loc
                   /\ res' = [res EXCEPT ![t] = Outcome("none")]
    BY <1>14, <2>2 DEF Lookup, Quiet, Only, NoNewHit, Answers
  <2> QED
    BY <1>14, <2>1, <2>2 DEF Lookup, Answers
<1>15. CASE PurgeUnmark(t)
  BY <1>15 DEF PurgeUnmark, ReturnUnlocked, Return, Quiet, Only, NoNewHit
<1> QED
  BY <1>1, <1>2, <1>3, <1>4, <1>5, <1>6, <1>7, <1>8, <1>9, <1>10, <1>11, <1>12, <1>13,
     <1>14, <1>15

(* Only the holder of the metadata lock, or nobody, has the files in hand.   *)
LEMMA OneHolder ==
  ASSUME FenceInv, NEW t \in Tasks, metaLock \in {None, t},
         NEW u \in Tasks \ {t}
  PROVE  pc[u] \notin Busy \cup Replacing \cup Removing
BY ValueAssumption DEF FenceInv, Holds, Busy, Moving, Replacing, Removing

(* CommitStage gives up, or stages metadata with the next fill_id and, if    *)
(* the old metadata could be read, its HEAD state.                           *)
LEMMA StageDoes ==
  ASSUME FenceInv, NEW t \in Tasks, CommitStage(t)
  PROVE  /\ Only(t) /\ NoNewHit(t) /\ metaLock = t /\ pc[t] = "stage"
         /\ UNCHANGED <<body, meta, entryCount, detached, crashes, cancels>>
         /\ faults' \in {faults, faults + 1} /\ nextFill' = nextFill + 1
         /\ \/ pc'[t] = "finish" /\ loc' = loc
            \/ /\ pc'[t] = "backupBody"
               /\ loc'[t].ver = loc[t].ver /\ loc'[t].exp = loc[t].exp
               /\ loc'[t].old = Nothing
               /\ loc'[t].new \in Metas /\ loc'[t].new.fill = nextFill
               /\ faults' = 0 => loc'[t].new.head = PreservedHead(loc[t].ver)
<1> USE DEF FenceInv, CommitStage
<1>1. /\ metaLock = t /\ loc[t] \in Locals /\ loc[t].ver \in Versions /\ loc[t].old = Nothing
      /\ nextFill \in Nat /\ faults \in Nat
  BY DEF Holds, Replacing, Shape, Filling, TypeOK, TasksOK, Locals
<1>2. faults' \in {faults, faults + 1}
  BY DEF Works, Fails
<1>3. CASE Fails /\ GiveUpLocked(t) /\ UNCHANGED loc
  BY <1>1, <1>2, <1>3 DEF GiveUpLocked, Goto, TasksOK, Only, NoNewHit, diskVars, lateVars
<1>4. ASSUME NEW h \in SUBSET HeadBits, faults' = 0 => h = PreservedHead(loc[t].ver),
             loc' = [loc EXCEPT ![t].new = MetaOf(nextFill, loc[t].ver, h)],
             Goto(t, "backupBody")
      PROVE  /\ Only(t) /\ pc'[t] = "backupBody"
             /\ loc'[t].ver = loc[t].ver /\ loc'[t].exp = loc[t].exp
             /\ loc'[t].old = Nothing
             /\ loc'[t].new \in Metas /\ loc'[t].new.fill = nextFill
             /\ faults' = 0 => loc'[t].new.head = PreservedHead(loc[t].ver)
  <2> DEFINE m == MetaOf(nextFill, loc[t].ver, h)
  <2>1. m \in Metas /\ m.fill = nextFill /\ m.head = h
    BY <1>1, StagedTyped DEF MetaOf
  <2>2. loc' = [loc EXCEPT ![t].new = m]
    BY <1>4
  <2> HIDE DEF m, CommitStage
  <2>3. /\ loc'[t].ver = loc[t].ver /\ loc'[t].exp = loc[t].exp
        /\ loc'[t].old = Nothing /\ loc'[t].new = m
        /\ \A u \in Tasks \ {t} : loc'[u] = loc[u]
    BY <1>1, <2>2 DEF TasksOK, Locals
  <2> QED
    BY <1>4, <2>1, <2>3 DEF Only, Goto, TasksOK
<1>5. PreservedHead(loc[t].ver) \in SUBSET HeadBits /\ {} \in SUBSET HeadBits
  BY DEF PreservedHead, Readable, TypeOK, Metas
<1>6. CASE /\ \/ /\ Works
                 /\ loc' = [loc EXCEPT ![t].new =
                              MetaOf(nextFill, loc[t].ver, PreservedHead(loc[t].ver))]
              \/ /\ Fails
                 /\ loc' = [loc EXCEPT ![t].new = MetaOf(nextFill, loc[t].ver, {})]
           /\ Goto(t, "backupBody")
  <2>1. Fails => faults' # 0
    BY <1>1 DEF Fails
  <2>2. NoNewHit(t) /\ UNCHANGED <<body, meta, entryCount, detached, crashes, cancels>>
    BY DEF NoNewHit, diskVars, lateVars
  <2> QED
    BY <1>1, <1>2, <1>4, <1>5, <1>6, <2>1, <2>2
<1> QED
  BY <1>3, <1>6

(* A commit's later steps leave the content and the staged metadata alone;   *)
(* its backups are what it moved aside.                                      *)
LEMMA MovesDo ==
  ASSUME FenceInv, NEW t \in Tasks,
         \/ CommitBackupBody(t) \/ CommitBackupMeta(t) \/ CommitPublishBody(t)
         \/ CommitPublishMeta(t) \/ CommitUndoBody(t) \/ CommitUndoMeta(t) \/ CommitClear(t)
  PROVE  /\ Only(t) /\ NoNewHit(t) /\ metaLock = t
         /\ UNCHANGED <<nextFill, detached, crashes, cancels>>
         /\ faults' \in {faults, faults + 1} /\ (faults' = faults \/ Fails)
         /\ loc'[t].ver = loc[t].ver /\ loc'[t].exp = loc[t].exp /\ loc'[t].new = loc[t].new
         /\ loc'[t].old.body # loc[t].old.body => CommitBackupBody(t)
         /\ loc'[t].old.meta # loc[t].old.meta => CommitBackupMeta(t)
<1> USE DEF FenceInv, TasksOK, Goto, diskVars, lateVars, Works, Fails, fillVars
<1>1. pc[t] \in Replacing /\ metaLock = t /\ loc[t] \in Locals /\ loc[t].old \in Files
  BY DEF CommitBackupBody, CommitBackupMeta, CommitPublishBody,
         CommitPublishMeta, CommitUndoBody, CommitUndoMeta, CommitClear, Replacing,
         Holds, Locals
<1>2. CASE CommitBackupBody(t)
  BY <1>1, <1>2 DEF CommitBackupBody, GiveUpLocked, Only, NoNewHit, Locals, Files
<1>3. CASE CommitBackupMeta(t)
  BY <1>1, <1>3 DEF CommitBackupMeta, UndoUnpublished, Only, NoNewHit, Locals, Files
<1>4. CASE CommitPublishBody(t)
  BY <1>1, <1>4 DEF CommitPublishBody, UndoUnpublished, Only, NoNewHit
<1>5. CASE CommitPublishMeta(t)
  BY <1>1, <1>5 DEF CommitPublishMeta, Only, NoNewHit
<1>6. CASE CommitUndoBody(t)
  BY <1>1, <1>6 DEF CommitUndoBody, Only, NoNewHit
<1>7. CASE CommitUndoMeta(t)
  BY <1>1, <1>7 DEF CommitUndoMeta, GiveUpLocked, Only, NoNewHit
<1>8. CASE CommitClear(t)
  BY <1>1, <1>8 DEF CommitClear, ClearPoison, GiveUpLocked, Only, NoNewHit
<1> QED
  BY <1>2, <1>3, <1>4, <1>5, <1>6, <1>7, <1>8
-----------------------------------------------------------------------------
(* The identity of metadata.                                                 *)

(* A step that publishes nothing, returns no hit and leaves its task without *)
(* anything in hand keeps IdInv.                                             *)
LEMMA IdsFrame ==
  ASSUME FenceInv, FenceInv', IdInv, NEW t \in Tasks, Only(t), NoNewHit(t),
         meta' \in {meta, None}, nextFill' \in {nextFill, nextFill + 1},
         \A op \in detached' : op.to = None,
         faults' # 0 \/ faults' = faults, pc'[t] \notin Busy
  PROVE  IdInv'
<1> USE ValueAssumption DEF FenceInv
<1>1. Readable(meta') => Readable(meta) /\ meta' = meta
  BY DEF Readable
<1>2. Readable(meta) => meta.fill \in Nat
  BY DEF TypeOK, Readable, Metas
<1>3. \A u \in Tasks : HitBy(u)' => HitBy(u) /\ res'[u] = res[u] /\ res[u].meta.fill \in Nat
  BY DEF HitBy, NoNewHit, TasksOK, Metas
<1>4. \A u \in Tasks : pc'[u] \in Busy => u # t /\ pc'[u] = pc[u] /\ loc'[u] = loc[u]
  BY DEF Only
<1>5. \A u \in Tasks : pc[u] \in Moving => loc[u].new.fill \in Nat /\
                          (Readable(loc[u].old.meta) => loc[u].old.meta.fill \in Nat)
  BY DEF TasksOK, Locals, Files, Readable, Metas, Shape, Moving, Replacing
<1>6. nextFill \in Nat
  BY DEF TypeOK
<1>7. Readable(meta') => meta'.fill < nextFill'
  BY <1>1, <1>2, <1>6 DEF IdInv
<1>8. HitsAgree'
  <2> SUFFICES ASSUME NEW u \in Tasks, HitBy(u)'
               PROVE  /\ res'[u].meta.fill < nextFill'
                      /\ Agree(res'[u].meta, meta')
                      /\ \A w \in Tasks :
                           pc'[w] \in Moving =>
                             /\ Agree(res'[u].meta, loc'[w].old.meta)
                             /\ res'[u].meta.fill < loc'[w].new.fill
    BY DEF HitsAgree, Agree
  <2>1. HitBy(u) /\ res'[u] = res[u] /\ res[u].meta.fill \in Nat
    BY <1>3
  <2>2. res'[u].meta.fill < nextFill'
    BY <1>6, <2>1 DEF IdInv, HitsAgree
  <2>3. Agree(res'[u].meta, meta')
    BY <2>1 DEF IdInv, HitsAgree, Agree, Readable
  <2> QED
    BY <1>4, <2>1, <2>2, <2>3 DEF IdInv, HitsAgree, Busy
<1>9. ASSUME NEW u \in Tasks PROVE MovedAside(u)' /\ StagedFresh(u)' /\ OnTarget(u)'
  <2>1. CASE pc'[u] \notin Busy
    BY <2>1 DEF MovedAside, StagedFresh, OnTarget, Busy, Moving
  <2>2. CASE pc'[u] \in Busy
    <3>1. pc'[u] = pc[u] /\ loc'[u] = loc[u]
      BY <1>4, <2>2
    <3>2. MovedAside(u) /\ StagedFresh(u) /\ OnTarget(u)
      BY DEF IdInv
    <3>3. MovedAside(u)' /\ OnTarget(u)'
      BY <3>1, <3>2 DEF MovedAside, OnTarget, Readable
    <3>4. StagedFresh(u)'
      BY <1>1, <1>5, <1>6, <3>1, <3>2 DEF StagedFresh, Readable, Moving
    <3> QED
      BY <3>3, <3>4
  <2> QED
    BY <2>1, <2>2
<1> QED
  BY <1>7, <1>8, <1>9 DEF IdInv

(* While a task has the metadata lock, or nobody has, only that task can     *)
(* have metadata in hand.                                                    *)
LEMMA IdsAlone ==
  ASSUME FenceInv, NEW t \in Tasks, metaLock \in {None, t}, Only(t),
         \A op \in detached' : op.to = None,
         Readable(meta') => meta'.fill < nextFill',
         \A u \in Tasks :
           HitBy(u)' =>
             /\ res'[u].meta.fill < nextFill'
             /\ Agree(res'[u].meta, meta')
             /\ pc'[t] \in Moving => /\ Agree(res'[u].meta, loc'[t].old.meta)
                                    /\ res'[u].meta.fill < loc'[t].new.fill,
         MovedAside(t)', StagedFresh(t)', OnTarget(t)'
  PROVE  IdInv'
<1>1. \A u \in Tasks \ {t} : pc'[u] \notin Busy
  BY OneHolder DEF Only
<1>2. \A u \in Tasks : pc'[u] \in Moving => u = t
  BY <1>1 DEF Busy
<1>3. HitsAgree'
  BY <1>2 DEF HitsAgree, Agree
<1>4. ASSUME NEW u \in Tasks PROVE MovedAside(u)' /\ StagedFresh(u)' /\ OnTarget(u)'
  <2>1. CASE u = t
    BY <2>1
  <2>2. CASE u # t
    BY <1>1, <2>2 DEF MovedAside, StagedFresh, OnTarget, Busy, Moving
  <2> QED
    BY <2>1, <2>2
<1> QED
  BY <1>3, <1>4 DEF IdInv

(* A commit stages, moves, publishes and rolls back metadata that no hit can *)
(* be mistaken for.                                                          *)
LEMMA IdsCommit ==
  ASSUME FenceInv, FenceInv', IdInv, NEW t \in Tasks,
         \/ CommitStage(t) \/ CommitBackupBody(t) \/ CommitBackupMeta(t)
         \/ CommitPublishBody(t) \/ CommitPublishMeta(t)
         \/ CommitUndoBody(t) \/ CommitUndoMeta(t) \/ CommitClear(t)
  PROVE  IdInv'
<1> USE ValueAssumption DEF FenceInv
<1>1. /\ nextFill \in Nat /\ faults \in Nat
      /\ Readable(meta) => meta.fill \in Nat /\ meta \in Metas
  BY DEF TypeOK, TasksOK, Readable, Metas
<1>2. \A u \in Tasks : HitBy(u) => res[u].meta.fill \in Nat
  BY DEF HitBy, TasksOK, Metas
<1>3. MovedAside(t) /\ StagedFresh(t) /\ (\A op \in detached : op.to = None)
  BY DEF IdInv
<1>4. pc[t] \in Moving => loc[t].new.fill \in Nat /\ loc[t].new \in Metas /\
         (Readable(loc[t].old.meta) => loc[t].old.meta.fill \in Nat)
  BY DEF TasksOK, Locals, Files, Readable, Metas, Shape, Moving, Replacing
<1>5. NoNewHit(t) => \A u \in Tasks : HitBy(u)' => HitBy(u) /\ res'[u] = res[u]
  BY DEF HitBy, NoNewHit
<1>6. CASE CommitStage(t)
  <2>1. CASE pc'[t] = "finish"
    <3>1. faults' # 0 \/ faults' = faults
      BY <1>1, <1>6, StageDoes
    <3>2. pc'[t] \notin Busy
      BY <2>1 DEF Busy, Moving
    <3> QED
      BY <1>3, <1>6, <3>1, <3>2, StageDoes, IdsFrame
  <2>2. CASE pc'[t] # "finish"
    <3>1. /\ Only(t) /\ NoNewHit(t) /\ metaLock = t /\ nextFill' = nextFill + 1
          /\ UNCHANGED <<meta, detached>> /\ pc'[t] = "backupBody"
          /\ loc'[t].ver = loc[t].ver /\ loc'[t].old = Nothing
          /\ loc'[t].new.fill = nextFill
          /\ faults' = 0 => loc'[t].new.head = PreservedHead(loc[t].ver)
      BY <1>6, <2>2, StageDoes
    <3>2. Readable(meta) => meta.fill < nextFill
      BY DEF IdInv
    <3>3. MovedAside(t)' /\ OnTarget(t)'
      BY <3>1 DEF MovedAside, OnTarget
    <3>4. StagedFresh(t)'
      BY <1>1, <3>1, <3>2 DEF StagedFresh, PreservedHead, Nothing, Readable, Moving
    <3>5. \A u \in Tasks : HitBy(u)' => /\ res'[u].meta.fill < nextFill
                                        /\ Agree(res'[u].meta, meta')
                                        /\ Agree(res'[u].meta, loc'[t].old.meta)
      BY <1>5, <3>1 DEF IdInv, HitsAgree, Agree, Nothing, Readable
    <3>6. \A u \in Tasks : HitBy(u)' => res'[u].meta.fill < nextFill + 1
      BY <1>1, <1>2, <1>5, <3>1, <3>5
    <3> QED
      BY <1>1, <1>3, <3>1, <3>2, <3>3, <3>4, <3>5, <3>6, IdsAlone
  <2> QED
    BY <2>1, <2>2
<1>7. ASSUME ~CommitStage(t)
      PROVE  /\ Only(t) /\ NoNewHit(t) /\ metaLock = t
             /\ nextFill' = nextFill /\ detached' = detached
             /\ faults' = faults \/ faults' # 0
             /\ loc'[t].ver = loc[t].ver /\ loc'[t].new = loc[t].new
             /\ loc'[t].old.meta # loc[t].old.meta => CommitBackupMeta(t)
  BY <1>1, <1>7, MovesDo
<1>8. \A u \in Tasks : HitBy(u) => /\ res[u].meta.fill < nextFill
                                   /\ Agree(res[u].meta, meta)
                                   /\ pc[t] \in Moving =>
                                        /\ Agree(res[u].meta, loc[t].old.meta)
                                        /\ res[u].meta.fill < loc[t].new.fill
  BY DEF IdInv, HitsAgree
<1>9. Readable(meta) => meta.fill < nextFill
  BY DEF IdInv
<1>10. CASE CommitBackupBody(t)
  <2>1. /\ pc[t] = "backupBody" /\ meta' = meta /\ ~CommitStage(t) /\ ~CommitBackupMeta(t)
        /\ pc'[t] \in {"finish", "backupMeta"}
    BY <1>10 DEF CommitBackupBody, CommitStage, CommitBackupMeta, GiveUpLocked, Goto, TasksOK
  <2>2. pc[t] \in Moving /\ loc'[t].old.meta = loc[t].old.meta
    BY <1>7, <2>1 DEF Moving
  <2>3. MovedAside(t)' /\ OnTarget(t)'
    BY <2>1 DEF MovedAside, OnTarget
  <2>4. StagedFresh(t)'
    BY <1>3, <1>7, <2>1, <2>2 DEF StagedFresh, Moving
  <2> QED
    BY <1>3, <1>5, <1>7, <1>8, <1>9, <2>1, <2>2, <2>3, <2>4, IdsAlone
<1>11. CASE CommitBackupMeta(t)
  <2>1. /\ pc[t] = "backupMeta" /\ ~CommitStage(t)
        /\ \/ /\ pc'[t] \in {"undoBody", "undoMeta"} /\ meta' = meta
              /\ loc'[t].old.meta = loc[t].old.meta
           \/ /\ pc'[t] = "publishBody" /\ meta' = None /\ loc'[t].old.meta = meta
              /\ faults' = faults
           \/ /\ pc'[t] = "publishBody" /\ meta' = meta /\ faults' # 0
              /\ loc'[t].old.meta = loc[t].old.meta
    <3>1. loc[t] \in Locals /\ loc[t].old \in Files
      BY DEF TasksOK, Locals
    <3> QED
      BY <1>1, <1>11, <3>1 DEF CommitBackupMeta, CommitStage, UndoUnpublished, Goto, TasksOK,
                         Works, Fails, Locals, Files
  <2>2. pc[t] \in Moving /\ loc[t].old.meta = None
    BY <1>3, <2>1 DEF Moving, StagedFresh
  <2>3. MovedAside(t)' /\ OnTarget(t)'
    BY <2>1, <2>2 DEF MovedAside, OnTarget
  <2>4. StagedFresh(t)'
    BY <1>1, <1>3, <1>7, <1>9, <2>1, <2>2 DEF StagedFresh, Moving, Readable
  <2>5. \A u \in Tasks : HitBy(u) => /\ Agree(res[u].meta, meta')
                                     /\ Agree(res[u].meta, loc'[t].old.meta)
    BY <1>8, <2>1, <2>2 DEF Agree, Readable
  <2>6. Readable(meta') => meta'.fill < nextFill
    BY <1>9, <2>1 DEF Readable
  <2> QED
    BY <1>3, <1>5, <1>7, <1>8, <2>1, <2>2, <2>3, <2>4, <2>5, <2>6, IdsAlone
<1>12. CASE CommitPublishBody(t) \/ CommitUndoBody(t)
  <2>1. /\ pc[t] \in {"publishBody", "undoBody"} /\ meta' = meta /\ ~CommitStage(t)
        /\ loc' = loc
        /\ pc'[t] \in {"undoBody", "undoMeta", "publishMeta"}
        /\ pc'[t] = "publishMeta" => pc[t] = "publishBody"
    BY <1>12 DEF CommitPublishBody, CommitUndoBody, CommitStage, UndoUnpublished, Goto, TasksOK
  <2>2. pc[t] \in Moving
    BY <2>1 DEF Moving
  <2>3. MovedAside(t)' /\ OnTarget(t)'
    BY <1>3, <2>1 DEF MovedAside, OnTarget
  <2>4. StagedFresh(t)'
    BY <1>3, <1>7, <2>1, <2>2 DEF StagedFresh, Moving
  <2> QED
    BY <1>3, <1>5, <1>7, <1>8, <1>9, <2>1, <2>2, <2>3, <2>4, IdsAlone
<1>13. CASE CommitPublishMeta(t)
  <2>1. /\ pc[t] = "publishMeta" /\ ~CommitStage(t) /\ loc' = loc
        /\ \/ pc'[t] = "undoBody" /\ meta' = meta
           \/ pc'[t] = "published" /\ meta' = loc[t].new
    BY <1>13 DEF CommitPublishMeta, CommitStage, Goto, TasksOK
  <2>2. pc[t] \in Moving
    BY <2>1 DEF Moving
  <2>3. MovedAside(t)' /\ OnTarget(t)'
    BY <1>3, <2>1 DEF MovedAside, OnTarget
  <2>4. StagedFresh(t)'
    BY <1>3, <1>7, <2>1, <2>2 DEF StagedFresh, Moving
  <2>5. Readable(meta') => meta'.fill < nextFill
    BY <1>3, <1>9, <2>1, <2>2 DEF StagedFresh
  <2>6. \A u \in Tasks : HitBy(u) => Agree(res[u].meta, meta')
    BY <1>2, <1>4, <1>8, <2>1, <2>2 DEF Agree
  <2> QED
    BY <1>3, <1>5, <1>7, <1>8, <2>1, <2>2, <2>3, <2>4, <2>5, <2>6, IdsAlone
<1>14. CASE CommitUndoMeta(t)
  <2>1. /\ pc[t] = "undoMeta" /\ ~CommitStage(t) /\ loc' = loc /\ pc'[t] = "finish"
        /\ meta' \in {meta, loc[t].old.meta}
    BY <1>14 DEF CommitUndoMeta, CommitStage, GiveUpLocked, Goto, TasksOK
  <2>2. pc[t] \in Moving /\ pc'[t] \notin Moving
    BY <2>1 DEF Moving
  <2>3. MovedAside(t)' /\ OnTarget(t)' /\ StagedFresh(t)'
    BY <2>1 DEF MovedAside, OnTarget, StagedFresh, Moving
  <2>4. Readable(meta') => meta'.fill < nextFill
    BY <1>3, <1>9, <2>1, <2>2 DEF StagedFresh
  <2>5. \A u \in Tasks : HitBy(u) => Agree(res[u].meta, meta')
    BY <1>8, <2>1, <2>2
  <2> QED
    BY <1>3, <1>5, <1>7, <1>8, <2>1, <2>2, <2>3, <2>4, <2>5, IdsAlone
<1>15. CASE CommitClear(t)
  <2>1. meta' = meta /\ ~CommitStage(t) /\ pc'[t] = "finish"
    BY <1>15 DEF CommitClear, CommitStage, GiveUpLocked, Goto, TasksOK
  <2>2. pc'[t] \notin Busy
    BY <2>1 DEF Busy, Moving
  <2> QED
    BY <1>3, <1>7, <2>1, <2>2, IdsFrame
<1> QED
  BY <1>6, <1>10, <1>11, <1>12, <1>13, <1>14, <1>15

(* Purges remove only what they matched.                                     *)
LEMMA IdsPurge ==
  ASSUME FenceInv, FenceInv', IdInv, NEW t \in Tasks,
         PurgeCheck(t) \/ PurgeRemoveBody(t) \/ PurgeRemoveMeta(t)
  PROVE  IdInv'
<1> USE ValueAssumption DEF FenceInv, Works, Fails, TasksOK, lateVars
<1>1. /\ pc[t] \in {"purge", "removeBody", "removeMeta"} /\ metaLock = t /\ pc[t] \notin Moving
      /\ nextFill' = nextFill /\ detached' = detached
      /\ faults' # 0 \/ faults' = faults
  BY DEF PurgeCheck, PurgeRemoveBody, PurgeRemoveMeta, Holds, Removing, Moving
<1>2. \A op \in detached' : op.to = None
  BY <1>1 DEF IdInv
\* The purge returns.
<1>3. ASSUME NEW s \in Answers, Return(t, Outcome(s)), meta' \in {meta, None}
      PROVE  IdInv'
  <2>1. Only(t) /\ NoNewHit(t) /\ pc'[t] \notin Busy
    BY <1>3, ReturnsNoHit DEF Busy, Moving
  <2> QED
    BY <1>1, <1>2, <1>3, <2>1, IdsFrame
\* The purge has its marker left to remove.
<1>8. ASSUME NEW s \in Answers, Unmarks(t, Outcome(s)), meta' \in {meta, None}
      PROVE  IdInv'
  <2>1. Outcome(s) \in Results /\ Outcome(s).is # "hit"
    BY Typed
  <2>2. Only(t) /\ NoNewHit(t) /\ pc'[t] \notin Busy
    BY <1>8, <2>1 DEF Unmarks, Goto, Only, NoNewHit, Busy, Moving
  <2> QED
    BY <1>1, <1>2, <1>8, <2>2, IdsFrame
\* The purge goes on.
<1>4. ASSUME NEW l \in {"removeBody", "removeMeta"}, Goto(t, l), UNCHANGED <<loc, res, meta>>,
             loc[t].exp # None /\ Readable(meta) => meta.fill = loc[t].exp
      PROVE  IdInv'
  <2>1. Only(t) /\ pc'[t] = l /\ l \notin Moving
    BY <1>4 DEF Only, Goto, Moving
  <2>2. MovedAside(t)' /\ StagedFresh(t)' /\ OnTarget(t)'
    BY <1>4, <2>1 DEF MovedAside, StagedFresh, OnTarget, Moving
  <2>3. /\ Readable(meta') => meta'.fill < nextFill'
        /\ \A u \in Tasks : HitBy(u)' => /\ res'[u].meta.fill < nextFill'
                                         /\ Agree(res'[u].meta, meta')
    BY <1>1, <1>4 DEF IdInv, HitsAgree, HitBy
  <2> QED
    BY <1>1, <1>2, <2>1, <2>2, <2>3, IdsAlone
<1>5. CASE PurgeCheck(t)
  <2>1. meta' = meta
    BY <1>5 DEF PurgeCheck
  <2>2. CASE \E s \in Answers : Return(t, Outcome(s))
    BY <1>3, <2>1, <2>2
  <2>3. CASE Goto(t, "removeBody") /\ UNCHANGED <<loc, res>> /\ (loc[t].exp # None => Matches(t))
    BY <1>4, <2>1, <2>3 DEF Matches
  <2>4. CASE Unmarks(t, Outcome("false"))
    BY <1>8, <2>1, <2>4 DEF Answers
  <2> QED
    BY <1>5, <2>2, <2>3, <2>4 DEF PurgeCheck, ReturnUnlocked, Answers
<1>6. CASE PurgeRemoveBody(t)
  <2>1. pc[t] = "removeBody" /\ meta' = meta /\ OnTarget(t)
    BY <1>6 DEF PurgeRemoveBody, IdInv
  <2>2. CASE \E s \in Answers : Return(t, Outcome(s))
    BY <1>3, <2>1, <2>2
  <2>3. CASE Goto(t, "removeMeta") /\ UNCHANGED <<loc, res>>
    BY <1>4, <2>1, <2>3 DEF OnTarget
  <2> QED
    BY <1>6, <2>2, <2>3 DEF PurgeRemoveBody, ReturnUnlocked, Answers
<1>7. CASE PurgeRemoveMeta(t)
  BY <1>3, <1>7, <1>8 DEF PurgeRemoveMeta, ReturnUnlocked, Answers
<1> QED
  BY <1>5, <1>6, <1>7

(* Lookups return the metadata on disk; updates that go through start from   *)
(* the same fill and the same metadata_version.                              *)
LEMMA IdsReads ==
  ASSUME NoLateRename, FenceInv, FenceInv', IdInv, NEW t \in Tasks,
         LookupLocked(t) \/ CallUpdate(t)
  PROVE  IdInv'
<1> USE ValueAssumption, BoundAssumption DEF FenceInv, Works, Fails, lateVars
<1>1. metaLock = None /\ nextFill' = nextFill /\ faults \in Nat /\ nextFill \in Nat
  BY DEF LookupLocked, CallUpdate, UpdateMetadata, RewriteLastAccessed, CancelUpdate, TasksOK,
         TypeOK
<1>2. detached' = detached /\ \A op \in detached : op.to = None
  <2>1. \A s \in Metas, b \in HeadBits : ~CancelUpdate(t, s, b)
    BY DEF NoLateRename, CancelUpdate, Detach, TasksOK
  <2>2. HitBy(t) => res[t].meta \in Metas
    BY DEF HitBy, TasksOK
  <2> QED
    BY <2>1, <2>2 DEF LookupLocked, CallUpdate, UpdateMetadata, RewriteLastAccessed, IdInv
<1>3. \A u \in Tasks : HitBy(u) => /\ res[u].meta \in Metas /\ res[u].meta.fill < nextFill
                                   /\ Agree(res[u].meta, meta)
  BY DEF HitBy, TasksOK, IdInv, HitsAgree
<1>4. Readable(meta) => meta \in Metas /\ meta.fill < nextFill
  BY DEF TypeOK, Readable, IdInv
\* Without a hit and without an update only the files go.
<1>5. ASSUME NEW s \in Answers, Return(t, Outcome(s)), meta' \in {meta, None},
             faults' # 0 \/ faults' = faults
      PROVE  IdInv'
  <2>1. Only(t) /\ NoNewHit(t) /\ pc'[t] \notin Busy
    BY <1>5, ReturnsNoHit DEF Busy, Moving
  <2> QED
    BY <1>1, <1>2, <1>5, <2>1, IdsFrame
\* An update keeps the fill and the ETag and raises metadata_version, or keeps
\* that and the HEAD state.
<1>6. ASSUME NEW s \in Answers, Return(t, Outcome(s)), Readable(meta), meta' \in Metas,
             meta'.fill = meta.fill, meta'.etag = meta.etag,
             \/ meta'.mver = meta.mver + 1
             \/ meta'.mver = meta.mver /\ meta'.head = meta.head
      PROVE  IdInv'
  <2>1. Only(t) /\ NoNewHit(t) /\ pc'[t] = "idle"
    BY <1>6, ReturnsNoHit
  <2>2. \A u \in Tasks : HitBy(u)' => HitBy(u) /\ res'[u] = res[u]
    BY <2>1 DEF HitBy, NoNewHit
  <2>3. \A u \in Tasks : HitBy(u)' => Agree(res'[u].meta, meta')
    BY <1>3, <1>4, <1>6, <2>2 DEF Agree, Metas
  <2>4. MovedAside(t)' /\ StagedFresh(t)' /\ OnTarget(t)' /\ pc'[t] \notin Moving
    BY <2>1 DEF MovedAside, StagedFresh, OnTarget, Moving
  <2>5. Readable(meta') => meta'.fill < nextFill'
    BY <1>1, <1>4, <1>6
  <2> QED
    BY <1>1, <1>2, <1>3, <2>1, <2>2, <2>3, <2>4, <2>5, IdsAlone
<1>7. CASE LookupLocked(t)
  <2>1. CASE Readable(meta) /\ Return(t, Hit) /\ meta' = meta
    <3>1. Hit \in Results /\ Hit.is = "hit" /\ Hit.meta = meta
      BY <1>4, <2>1 DEF Hit, Results, TypeOK
    <3>2. /\ Only(t) /\ pc'[t] = "idle" /\ res'[t].meta = meta
          /\ \A u \in Tasks \ {t} : res'[u] = res[u]
      BY <1>4, <2>1, <3>1, Returns DEF Return, Goto, TasksOK
    <3>3. \A u \in Tasks : HitBy(u)' => /\ res'[u].meta.fill < nextFill'
                                        /\ Agree(res'[u].meta, meta')
      <4> TAKE u \in Tasks
      <4>1. CASE u = t
        BY <1>1, <1>4, <2>1, <3>2, <4>1 DEF Agree, Metas
      <4>2. CASE u # t
        BY <1>1, <1>3, <2>1, <3>2, <4>2 DEF HitBy
      <4> QED
        BY <4>1, <4>2
    <3>4. MovedAside(t)' /\ StagedFresh(t)' /\ OnTarget(t)' /\ pc'[t] \notin Moving
      BY <3>2 DEF MovedAside, StagedFresh, OnTarget, Moving
    <3> QED
      BY <1>1, <1>2, <1>4, <2>1, <3>2, <3>3, <3>4, IdsAlone
  <2>2. CASE ~(Readable(meta) /\ Return(t, Hit) /\ meta' = meta)
    <3>1. meta' \in {meta, None} /\ (faults' # 0 \/ faults' = faults)
      BY <1>1, <1>7 DEF LookupLocked, CleanupOrphan
    <3>2. \E s \in Answers : Return(t, Outcome(s))
      BY <1>7, <2>2 DEF LookupLocked, Answers
    <3> QED
      BY <1>5, <3>1, <3>2
  <2> QED
    BY <2>1, <2>2
<1>8. ASSUME NEW b \in HeadBits, HitBy(t), UpdateMetadata(t, res[t].meta, b) PROVE IdInv'
  <2> DEFINE s == res[t].meta
  <2>1. CASE meta' = meta
    <3>1. \E a \in Answers : Return(t, Outcome(a))
      BY <1>8 DEF UpdateMetadata, Answers
    <3>2. faults' # 0 \/ faults' = faults
      BY <1>1, <1>8 DEF UpdateMetadata
    <3> QED
      BY <1>5, <2>1, <3>1, <3>2
  <2>2. CASE meta' # meta
    <3>1. /\ Readable(meta) /\ meta.fill = s.fill /\ meta.mver = s.mver
          /\ meta' = UpdatedMeta(s, b) /\ Return(t, Outcome("true"))
      BY <1>8, <2>2 DEF UpdateMetadata
    <3>2. s \in Metas /\ meta \in Metas /\ s.etag = meta.etag
      BY <1>3, <1>4, <1>8, <3>1 DEF Agree
    <3>3. /\ UpdatedMeta(s, b) \in Metas /\ UpdatedMeta(s, b).fill = s.fill
          /\ UpdatedMeta(s, b).etag = s.etag /\ UpdatedMeta(s, b).mver = meta.mver + 1
      BY <3>2, UpdatedTyped DEF UpdatedMeta, Metas
    <3> QED
      BY <1>6, <3>1, <3>2, <3>3 DEF Answers
  <2> QED
    BY <2>1, <2>2
<1>9. ASSUME NEW h \in Nat, HitBy(t), RewriteLastAccessed(t, res[t].meta, h) PROVE IdInv'
  <2>1. Return(t, Outcome("none")) /\ "none" \in Answers /\ (faults' # 0 \/ faults' = faults)
    BY <1>1, <1>9 DEF RewriteLastAccessed, Answers
  <2>2. CASE meta' = meta
    BY <1>5, <2>1, <2>2
  <2>3. CASE meta' # meta
    <3>1. Readable(meta) /\ meta' = [meta EXCEPT !.atime = h, !.synced = FALSE]
      BY <1>9, <2>3 DEF RewriteLastAccessed
    <3>2. /\ meta' \in Metas /\ meta'.fill = meta.fill /\ meta'.etag = meta.etag
          /\ meta'.mver = meta.mver /\ meta'.head = meta.head
      BY <1>4, <3>1 DEF Metas
    <3> QED
      BY <1>6, <2>1, <3>1, <3>2
  <2> QED
    BY <2>2, <2>3
<1>10. CASE CallUpdate(t)
  <2>1. HitBy(t) => res[t].meta.atime + 1 .. MaxHours \subseteq Nat
    BY <1>3 DEF Metas
  <2>2. HitBy(t) => \A b \in HeadBits : ~CancelUpdate(t, res[t].meta, b)
    BY DEF NoLateRename, CancelUpdate, Detach, TasksOK
  <2> QED
    BY <1>8, <1>9, <1>10, <2>1, <2>2 DEF CallUpdate
<1> QED
  BY <1>7, <1>10

(* An unlink that runs late takes metadata away and puts none back.          *)
LEMMA IdsDetached ==
  ASSUME FenceInv, IdInv, RunDetached
  PROVE  IdInv'
<1> USE ValueAssumption DEF FenceInv, RunDetached
<1>1. meta' \in {meta, None} /\ detached' \subseteq detached /\ UNCHANGED <<nextFill, pc, loc, res, faults>>
  BY DEF IdInv
<1>2. Readable(meta') => Readable(meta) /\ meta' = meta
  BY <1>1 DEF Readable
<1> HIDE DEF RunDetached
<1>3. HitsAgree'
  BY <1>1, <1>2 DEF IdInv, HitsAgree, HitBy, Agree
<1>4. ASSUME NEW u \in Tasks PROVE MovedAside(u)' /\ StagedFresh(u)' /\ OnTarget(u)'
  <2>1. MovedAside(u) /\ StagedFresh(u) /\ OnTarget(u)
    BY DEF IdInv
  <2> QED
    BY <1>1, <1>2, <2>1 DEF MovedAside, StagedFresh, OnTarget
<1> QED
  BY <1>1, <1>2, <1>3, <1>4 DEF IdInv

(* Every step keeps IdInv.                                                   *)
LEMMA IdsKept ==
  ASSUME NoLateRename, FenceInv, FenceInv', IdInv, [Next]_vars
  PROVE  IdInv'
<1>1. CASE Restart
  <2>1. /\ \A t \in Tasks : pc'[t] = "idle" /\ ~HitBy(t)'
        /\ meta' \in {meta, Corrupt} /\ nextFill' = nextFill /\ detached' = {}
    BY <1>1, Typed DEF Restart, HitBy, Answers
  <2>2. HitsAgree' /\ \A t \in Tasks : MovedAside(t)' /\ StagedFresh(t)' /\ OnTarget(t)'
    BY <2>1 DEF HitsAgree, MovedAside, StagedFresh, OnTarget, Moving
  <2> QED
    BY <2>1, <2>2 DEF IdInv, Readable
<1>2. CASE RunDetached
  BY <1>2, IdsDetached
<1>3. ASSUME NEW t \in Tasks, Quiet(t) PROVE IdInv'
  <2>1. faults' # 0 \/ faults' = faults
    BY <1>3 DEF Quiet, FenceInv, TasksOK
  <2> QED
    BY <1>3, <2>1, IdsFrame DEF Quiet, IdInv
<1>4. ASSUME NEW t \in Tasks, Call(t) PROVE IdInv'
  <2>1. HitBy(t) => res[t].meta.fill \in Nat
    BY DEF FenceInv, TasksOK, HitBy, Metas
  <2>2. CASE CallUpdate(t)
    BY <2>2, IdsReads
  <2>3. CASE CallFill(t) \/ CallInvalidate(t) \/ Lookup(t)
    BY <1>3, <2>1, <2>3, QuietSteps DEF CallFill, CallInvalidate, AbortFill
  <2> QED
    BY <1>4, <2>2, <2>3 DEF Call
<1>5. ASSUME NEW t \in Tasks, MethodStep(t) PROVE IdInv'
  <2>1. CASE CommitFinish(t)
    <3>1. pc[t] = "finish" /\ loc[t].guard # None /\ FinishFill(t)
      BY <2>1 DEF CommitFinish, FenceInv, Shape, Filling
    <3> QED
      BY <1>3, <3>1, QuietSteps
  <2>2. CASE CommitStep(t) /\ ~CommitFinish(t)
    BY <1>3, <2>2, QuietSteps, IdsCommit DEF CommitStep
  <2>3. CASE InvalidateStep(t)
    BY <1>3, <2>3, QuietSteps, IdsPurge DEF InvalidateStep
  <2>4. CASE LookupLocked(t)
    BY <2>4, IdsReads
  <2> QED
    BY <1>5, <2>1, <2>2, <2>3, <2>4 DEF MethodStep
<1>6. ASSUME NEW t \in Tasks, CancelInvalidate(t) \/ CancelLookup(t) PROVE IdInv'
  <2>1. /\ Return(t, Outcome("none")) /\ "none" \in Answers
        /\ meta' \in {meta, None} /\ UNCHANGED <<nextFill, faults>>
        /\ \A op \in detached' : op.to = None
    BY <1>6 DEF CancelInvalidate, CancelLookup, Detach, Pending, FileOp, diskVars, Answers, IdInv
  <2>2. Only(t) /\ NoNewHit(t) /\ pc'[t] \notin Busy
    BY <2>1, ReturnsNoHit DEF Busy, Moving
  <2> QED
    BY <2>1, <2>2, IdsFrame
<1>7. CASE UNCHANGED vars
  BY <1>7 DEF vars, IdInv, HitsAgree, HitBy, Agree, MovedAside, StagedFresh, OnTarget
<1> QED
  BY <1>1, <1>2, <1>4, <1>5, <1>6, <1>7 DEF Next
-----------------------------------------------------------------------------
(* What a step does to the metadata file, and who takes it.                  *)

(* A step of one task leaves the others where they are, and files and poison *)
(* set alone unless the task has the metadata lock or nobody has.            *)
LEMMA TaskAlone ==
  ASSUME FenceInv, NEW t \in Tasks, Steps(t)
  PROVE  /\ Only(t)
         /\ UNCHANGED <<body, meta, poisonMem>> \/ metaLock \in {None, t}
<1> USE DEF FenceInv
<1>1. ASSUME NEW r, Return(t, r) PROVE Only(t)
  BY <1>1 DEF Return, Goto, TasksOK, Only
<1>2. CASE Call(t)
  <2>1. HitBy(t) => res[t].meta.fill \in Nat
    BY DEF TasksOK, HitBy, Metas
  <2>2. CASE CallUpdate(t)
    BY <1>1, <2>2 DEF CallUpdate, UpdateMetadata, RewriteLastAccessed, CancelUpdate
  <2>3. CASE CallFill(t) \/ CallInvalidate(t) \/ Lookup(t)
    <3>1. Quiet(t)
      BY <2>1, <2>3, QuietSteps DEF CallFill, CallInvalidate, AbortFill
    <3>2. poisonMem' = poisonMem
      BY <2>3 DEF CallFill, CallInvalidate, AbortFill, BeginFill, CommitFill, FinishFill, DropGuard,
                  Invalidate, Lookup
    <3> QED
      BY <3>1, <3>2 DEF Quiet
  <2> QED
    BY <1>2, <2>2, <2>3 DEF Call
<1>3. CASE CommitStep(t)
  <2>1. CASE CommitFinish(t)
    BY <1>1, <2>1 DEF CommitFinish, FinishFill, diskVars
  <2>2. CASE CommitEarlyCheck(t) \/ CommitPrepare(t) \/ CommitLock(t) \/ CommitMetaLock(t)
    <3>1. Quiet(t)
      BY <2>2, QuietSteps
    <3>2. poisonMem' = poisonMem
      BY <2>2 DEF CommitEarlyCheck, CommitPrepare, CommitLock, CommitMetaLock, GiveUp
    <3> QED
      BY <3>1, <3>2 DEF Quiet
  <2> QED
    BY <1>3, <2>1, <2>2, StageDoes, MovesDo DEF CommitStep
<1>4. CASE InvalidateStep(t)
  <2>1. CASE InvalidateLock(t) \/ InvalidateMetaLock(t)
    <3>1. Quiet(t)
      BY <2>1, QuietSteps
    <3>2. poisonMem' = poisonMem
      BY <2>1 DEF InvalidateLock, InvalidateMetaLock
    <3> QED
      BY <3>1, <3>2 DEF Quiet
  <2>2. CASE PurgeCheck(t) \/ PurgeRemoveBody(t) \/ PurgeRemoveMeta(t) \/ PurgeUnmark(t)
             \/ PoisonMark(t) \/ PoisonWriteMarker(t)
    <3>1. metaLock = t
      BY <2>2 DEF PurgeCheck, PurgeRemoveBody, PurgeRemoveMeta, PurgeUnmark, PoisonMark,
                  PoisonWriteMarker, Holds, Removing
    <3>2. Only(t)
      BY <1>1, <2>2 DEF PurgeCheck, PurgeRemoveBody, PurgeRemoveMeta, PurgeUnmark, Unmarks,
                        PoisonMark, PoisonWriteMarker, ReturnUnlocked, Goto, TasksOK, Only
    <3> QED
      BY <3>1, <3>2
  <2> QED
    BY <1>4, <2>1, <2>2 DEF InvalidateStep
<1>5. CASE LookupLocked(t)
  BY <1>1, <1>5 DEF LookupLocked
<1>6. CASE CancelInvalidate(t) \/ CancelLookup(t)
  BY <1>1, <1>6 DEF CancelInvalidate, CancelLookup, diskVars
<1> QED
  BY <1>2, <1>3, <1>4, <1>5, <1>6 DEF Steps, MethodStep

(* Metadata is replaced only by a commit, an update or an access-time        *)
(* rewrite.                                                                  *)
LEMMA MetaChanges ==
  ASSUME FenceInv, IdInv, [Next]_vars
  PROVE  \/ meta' \in {meta, None, Corrupt}
         \/ \E t \in Tasks : CommitPublishMeta(t) \/ CommitUndoMeta(t)
         \/ \E t \in Tasks :
              /\ HitBy(t)
              /\ \/ \E b \in HeadBits : UpdateMetadata(t, res[t].meta, b)
                 \/ \E h \in Nat : RewriteLastAccessed(t, res[t].meta, h)
<1> USE DEF diskVars
<1>1. CASE Restart \/ RunDetached
  BY <1>1 DEF Restart, RunDetached, IdInv
<1>2. ASSUME NEW t \in Tasks, CallUpdate(t)
      PROVE  \/ meta' \in {meta, None, Corrupt}
             \/ /\ HitBy(t)
                /\ \/ \E b \in HeadBits : UpdateMetadata(t, res[t].meta, b)
                   \/ \E h \in Nat : RewriteLastAccessed(t, res[t].meta, h)
  <2>1. HitBy(t) => res[t].meta.atime + 1 .. MaxHours \subseteq Nat
    BY BoundAssumption DEF FenceInv, TasksOK, HitBy, Metas
  <2> QED
    BY <1>2, <2>1 DEF CallUpdate, CancelUpdate
<1>3. ASSUME NEW t \in Tasks, CallFill(t) \/ CallInvalidate(t) \/ Lookup(t) PROVE meta' = meta
  BY <1>3 DEF CallFill, CallInvalidate, AbortFill, BeginFill, CommitFill, FinishFill, DropGuard,
              Invalidate, Lookup
<1>4. ASSUME NEW t \in Tasks, CommitStep(t), ~CommitPublishMeta(t), ~CommitUndoMeta(t)
      PROVE  meta' \in {meta, None}
  BY <1>4 DEF CommitStep, CommitEarlyCheck, CommitPrepare, CommitLock, CommitMetaLock, GiveUp,
              CommitStage, CommitBackupBody, CommitBackupMeta, CommitPublishBody,
              CommitUndoBody, CommitClear, CommitFinish, FinishFill
<1>5. ASSUME NEW t \in Tasks,
             InvalidateStep(t) \/ LookupLocked(t) \/ CancelInvalidate(t) \/ CancelLookup(t)
      PROVE  meta' \in {meta, None}
  BY <1>5 DEF InvalidateStep, InvalidateLock, InvalidateMetaLock, PurgeCheck, PurgeRemoveBody,
              PurgeRemoveMeta, PurgeUnmark, PoisonMark, PoisonWriteMarker, LookupLocked,
              CleanupOrphan, CancelInvalidate, CancelLookup
<1>6. CASE UNCHANGED vars
  BY <1>6 DEF vars
<1> QED
  BY <1>1, <1>2, <1>3, <1>4, <1>5, <1>6 DEF Next, Call, MethodStep

(* The initial states satisfy IdInv.                                         *)
LEMMA IdsInit == Init => IdInv
<1> SUFFICES ASSUME Init PROVE IdInv
  OBVIOUS
<1>1. Readable(meta) => meta.fill = 0
  BY DEF Init, Readable, MetaOf
<1>2. /\ \A t \in Tasks : pc[t] = "idle" /\ ~HitBy(t)
      /\ nextFill = 1 /\ detached = {}
  BY Typed DEF Init, HitBy, Answers
<1> QED
  BY <1>1, <1>2 DEF IdInv, HitsAgree, MovedAside, StagedFresh, OnTarget, Moving

(* Metadata on disk, in backups and in the hands of tasks is told apart by   *)
(* fill_id and metadata_version, for any number of failures and restarts.    *)
THEOREM MetadataIdentified ==
  ASSUME NoLateRename
  PROVE  Spec => [](FenceInv /\ IdInv)
<1>1. Init => FenceInv /\ IdInv
  BY InitFenced, IdsInit
<1>2. FenceInv /\ IdInv /\ [Next]_vars => (FenceInv /\ IdInv)'
  BY NextKeeps, IdsKept
<1> QED
  BY <1>1, <1>2, PTL DEF Spec

(* NoLostUpdate, whatever the number of tasks, faults and restarts: a HEAD   *)
(* refresh and an access-time rewrite of one fill never undo one another.    *)
THEOREM UpdatesKept ==
  ASSUME NoLateRename
  PROVE  Spec => NoLostUpdate
<1>1. FenceInv /\ IdInv /\ [Next]_vars => [KeepsUpdates]_vars
  <2> SUFFICES ASSUME FenceInv, IdInv, [Next]_vars, Readable(meta), Readable(meta'),
                      meta'.fill = meta.fill
               PROVE  /\ meta'.mver >= meta.mver
                      /\ meta'.atime >= meta.atime
                      /\ meta.head \subseteq meta'.head
                      /\ meta'.etag = meta.etag
    BY DEF KeepsUpdates
  <2> USE ValueAssumption
  <2>1. meta \in Metas /\ meta.mver \in Nat /\ meta.atime \in Nat /\ meta.fill \in Nat
    BY DEF FenceInv, TypeOK, Readable, Metas
  <2>2. CASE meta' \in {meta, None, Corrupt}
    BY <2>1, <2>2 DEF Readable
  <2>3. ASSUME NEW t \in Tasks, CommitPublishMeta(t) PROVE meta' = meta
    <3>1. pc[t] = "publishMeta" /\ meta' \in {meta, loc[t].new}
      BY <2>3 DEF CommitPublishMeta
    <3>2. meta.fill < loc[t].new.fill
      BY <3>1 DEF IdInv, StagedFresh, Moving
    <3> QED
      BY <2>1, <3>1, <3>2
  <2>4. ASSUME NEW t \in Tasks, CommitUndoMeta(t) PROVE meta' = meta
    <3>1. pc[t] = "undoMeta" /\ (meta' = meta \/ loc[t].old.meta # None)
      BY <2>4 DEF CommitUndoMeta
    <3>2. loc[t].old.meta # None => meta = None
      BY <3>1 DEF IdInv, MovedAside
    <3> QED
      BY <3>1, <3>2 DEF Readable
  <2>5. ASSUME NEW t \in Tasks, HitBy(t), NEW b \in HeadBits, UpdateMetadata(t, res[t].meta, b),
               meta' # meta
        PROVE  /\ meta'.mver >= meta.mver /\ meta'.atime >= meta.atime
               /\ meta.head \subseteq meta'.head /\ meta'.etag = meta.etag
    <3> DEFINE s == res[t].meta
    <3>1. meta.fill = s.fill /\ meta.mver = s.mver /\ meta' = UpdatedMeta(s, b)
      BY <2>5 DEF UpdateMetadata
    <3>2. s \in Metas /\ s.etag = meta.etag /\ s.head = meta.head
      BY <2>5, <3>1 DEF FenceInv, TasksOK, HitBy, IdInv, HitsAgree, Agree
    <3>3. /\ UpdatedMeta(s, b).mver = meta.mver + 1 /\ UpdatedMeta(s, b).atime = meta.atime
          /\ UpdatedMeta(s, b).head = s.head \cup {b} /\ UpdatedMeta(s, b).etag = s.etag
      BY <3>2 DEF UpdatedMeta, Metas
    <3> QED
      BY <2>1, <3>1, <3>2, <3>3
  <2>6. ASSUME NEW t \in Tasks, HitBy(t), NEW h \in Nat, RewriteLastAccessed(t, res[t].meta, h),
               meta' # meta
        PROVE  /\ meta'.mver >= meta.mver /\ meta'.atime >= meta.atime
               /\ meta.head \subseteq meta'.head /\ meta'.etag = meta.etag
    <3>1. meta.atime < h /\ meta' = [meta EXCEPT !.atime = h, !.synced = FALSE]
      BY <2>6 DEF RewriteLastAccessed
    <3>2. /\ meta'.mver = meta.mver /\ meta'.atime = h
          /\ meta'.head = meta.head /\ meta'.etag = meta.etag
      BY <2>1, <3>1 DEF Metas
    <3> QED
      BY <2>1, <3>1, <3>2
  <2> QED
    BY <2>1, <2>2, <2>3, <2>4, <2>5, <2>6, MetaChanges
<1> QED
  BY <1>1, MetadataIdentified, PTL DEF Spec, NoLostUpdate

(* HeadStateKept in the same generality: a same-ETag fill carries over what  *)
(* a concurrent refresh wrote.                                               *)
THEOREM FillsKeepHeadState ==
  ASSUME NoLateRename
  PROVE  Spec => HeadStateKept
<1>1. FenceInv /\ IdInv /\ [Next]_vars => [\A t \in Tasks : KeepsHeadState(t)]_vars
  <2> SUFFICES ASSUME FenceInv, IdInv, [Next]_vars, NEW t \in Tasks,
                      pc[t] = "publishMeta", pc'[t] = "published",
                      Readable(loc[t].old.meta), loc[t].old.meta.etag = loc[t].ver, faults = 0
               PROVE  meta'.head = loc[t].old.meta.head
    BY DEF KeepsHeadState
  <2>1. ~Restart /\ ~RunDetached /\ ~UNCHANGED vars
    BY DEF Restart, RunDetached, vars
  <2>2. PICK u \in Tasks : Steps(u)
    BY <2>1 DEF Next, Steps
  <2>3. u = t
    BY <2>2, TaskAlone DEF Only
  <2>4. CommitPublishMeta(t)
    <3> USE <2>2, <2>3 DEF Steps
    <3>1. ~Call(t)
      BY DEF Call, CallFill, CallInvalidate, CallUpdate, BeginFill, CommitFill, AbortFill,
             DropGuard, Invalidate, Lookup, UpdateMetadata, RewriteLastAccessed, CancelUpdate
    <3>2. ~InvalidateStep(t) /\ ~LookupLocked(t) /\ ~CancelInvalidate(t) /\ ~CancelLookup(t)
      BY DEF InvalidateStep, InvalidateLock, InvalidateMetaLock, PurgeCheck, PurgeRemoveBody,
             PurgeRemoveMeta, PurgeUnmark, PoisonMark, PoisonWriteMarker, LookupLocked,
             CancelInvalidate, CancelLookup
    <3>3. CommitStep(t)
      BY <3>1, <3>2 DEF MethodStep
    <3> QED
      BY <3>3 DEF CommitStep, CommitEarlyCheck, CommitPrepare, CommitLock, CommitMetaLock,
             CommitStage, CommitBackupBody, CommitBackupMeta, CommitPublishBody,
             CommitUndoBody, CommitUndoMeta, CommitClear, CommitFinish
  <2>5. meta' = loc[t].new
    BY <2>4 DEF CommitPublishMeta, Goto, FenceInv, TasksOK
  <2> QED
    BY <2>5 DEF IdInv, StagedFresh
<1> QED
  BY <1>1, MetadataIdentified, PTL DEF Spec, HeadStateKept

(* ConditionalHitsTarget in the same generality: a conditional invalidation  *)
(* touches the fill its caller looked at and no other.                       *)
THEOREM InvalidationsHitTarget ==
  ASSUME NoLateRename
  PROVE  Spec => ConditionalHitsTarget
<1>1. FenceInv /\ IdInv /\ [Next]_vars => [\A t \in Tasks : HitsTarget(t)]_vars
  <2> SUFFICES ASSUME FenceInv, IdInv, [Next]_vars, NEW t \in Tasks,
                      metaLock = t, loc[t].exp # None, crashes' = crashes,
                      detached \subseteq detached', Readable(meta),
                      <<body, meta, poisonMem>>' # <<body, meta, poisonMem>>
               PROVE  meta.fill = loc[t].exp
    BY DEF HitsTarget
  <2> USE ValueAssumption DEF FenceInv
  <2>1. ~Restart /\ ~RunDetached /\ ~UNCHANGED vars
    BY DEF Restart, RunDetached, vars, TasksOK
  <2>2. PICK u \in Tasks : Steps(u)
    BY <2>1 DEF Next, Steps
  <2>3. u = t
    BY <2>2, TaskAlone
  <2>4. pc[t] \notin Filling
    BY DEF Shape
  <2>5. ~Call(t) /\ ~LookupLocked(t) /\ ~CancelInvalidate(t) /\ ~CancelLookup(t)
    BY DEF Call, CallFill, CallInvalidate, CallUpdate, BeginFill, CommitFill, AbortFill, FinishFill,
           DropGuard, Invalidate, Lookup, UpdateMetadata, RewriteLastAccessed, CancelUpdate,
           LookupLocked, CancelInvalidate, CancelLookup, diskVars
  <2>6. ~CommitStep(t)
    BY <2>4 DEF CommitStep, CommitEarlyCheck, CommitPrepare, CommitLock, CommitMetaLock,
           CommitStage, CommitBackupBody, CommitBackupMeta, CommitPublishBody, CommitPublishMeta,
           CommitUndoBody, CommitUndoMeta, CommitClear, CommitFinish, Filling, Replacing
  <2>7. InvalidateStep(t)
    BY <2>2, <2>3, <2>5, <2>6 DEF Steps, MethodStep
  <2>8. CASE PurgeRemoveBody(t) \/ PurgeRemoveMeta(t)
    BY <2>8 DEF PurgeRemoveBody, PurgeRemoveMeta, IdInv, OnTarget
  <2>9. CASE PoisonMark(t)
    BY <2>9 DEF PoisonMark, Matches, diskVars
  <2>10. CASE PurgeCheck(t)
    BY <2>10 DEF PurgeCheck, Readable, Matches
  <2>11. CASE InvalidateLock(t) \/ InvalidateMetaLock(t) \/ PurgeUnmark(t)
              \/ PoisonWriteMarker(t)
    BY <2>11 DEF InvalidateLock, InvalidateMetaLock, PurgeUnmark, PoisonWriteMarker, diskVars
  <2> QED
    BY <2>7, <2>8, <2>9, <2>10, <2>11 DEF InvalidateStep
<1> QED
  BY <1>1, MetadataIdentified, PTL DEF Spec, ConditionalHitsTarget
-----------------------------------------------------------------------------
(* Body and metadata stay a pair.                                            *)

\* One failure in all: a failing operation, a restart or a dropped call.
OneFailure == MaxFailures <= 1

(* With one failure in all, what fails is the first to fail.                 *)
LEMMA FirstFailure ==
  ASSUME FenceInv, OneFailure
  PROVE  /\ Failures \in Nat
         /\ MayFail => Failures = 0
         /\ Fails /\ crashes' = crashes /\ cancels' = cancels => Failures' # 0
BY BoundAssumption DEF FenceInv, TasksOK, OneFailure, MayFail, Fails, Failures

LEMMA SumMonotone ==
  \A a, b, c, x, y, z \in Nat :
    a >= x /\ b >= y /\ c >= z => a + b + c >= x + y + z /\ a + b + c \in Nat
OBVIOUS

(* Failures are only ever counted up.                                        *)
LEMMA FailuresGrow ==
  ASSUME FenceInv, FenceInv', faults' >= faults, crashes' >= crashes, cancels' >= cancels
  PROVE  Failures \in Nat /\ Failures' \in Nat /\ Failures' >= Failures
<1>1. /\ faults \in Nat /\ crashes \in Nat /\ cancels \in Nat
      /\ faults' \in Nat /\ crashes' \in Nat /\ cancels' \in Nat
  BY DEF FenceInv, TasksOK
<1>2. Failures = faults + crashes + cancels /\ Failures' = faults' + crashes' + cancels'
  BY DEF Failures
<1>3. Failures \in Nat
  BY <1>1, <1>2
<1> QED
  BY <1>1, <1>2, <1>3, SumMonotone

\* Points at which the files of an entry need not be a pair.
Apart == Moving \ {"backupBody"}

(* Taking a file away keeps every pair and every roll-back.                  *)
LEMMA UnlinkKeepsPairs ==
  ASSUME FenceInv, FilesInv, NEW u \in Tasks, pc'[u] = pc[u], loc'[u] = loc[u],
         body' \in {body, None}, meta' \in {meta, None},
         Failures = 0 \/ Failures' # 0
  PROVE  /\ Pair(body, meta) => Pair(body', meta')
         /\ Recoverable(u)'
<1>1. \A b, m : Pair(None, m) /\ Pair(b, None)
  BY DEF Pair, Readable
<1>2. Pair(body, meta) => Pair(body', meta')
  BY <1>1
<1>3. Recoverable(u)
  BY DEF FilesInv
<1>4. \A b : Pair(b, meta) => Pair(b, meta')
  BY <1>1
<1>5. \A b : Pair(b, Restored(u)) => Pair(b, Restored(u)')
  BY <1>1, <1>4 DEF Restored
<1>6. Pair(body, Restored(u)) => Pair(body', Restored(u)')
  BY <1>1, <1>5
<1> QED
  BY <1>1, <1>2, <1>3, <1>4, <1>5, <1>6 DEF Recoverable

(* So does a step of a task that has nothing in hand.                        *)
LEMMA FilesFrame ==
  ASSUME FenceInv, FilesInv, NEW t \in Tasks, Only(t),
         pc[t] \notin Apart, pc'[t] \notin Apart,
         body' \in {body, None}, meta' \in {meta, None},
         Failures = 0 \/ Failures' # 0, Failures' = 0 => detached' = {}
  PROVE  FilesInv'
<1>1. \A u \in Tasks : pc'[u] \in Apart => u # t
  OBVIOUS
<1>2. ASSUME NEW u \in Tasks PROVE Recoverable(u)'
  <2>1. CASE u = t
    BY <2>1 DEF Recoverable, Apart, Moving
  <2>2. CASE u # t
    BY <2>2, UnlinkKeepsPairs DEF Only
  <2> QED
    BY <2>1, <2>2
<1>3. (\A u \in Tasks : pc'[u] \notin Apart) => \A u \in Tasks : pc[u] \notin Apart
  BY DEF Only
<1>4. Pair(body, meta) => Pair(body', meta')
  BY DEF Pair, Readable
<1> QED
  BY <1>2, <1>3, <1>4 DEF FilesInv, Apart

(* While a task has the metadata lock, or nobody has, the files are its own  *)
(* business.                                                                 *)
LEMMA FilesAlone ==
  ASSUME FenceInv, NEW t \in Tasks, metaLock \in {None, t}, Only(t),
         Failures' = 0 => detached' = {},
         pc'[t] \notin Apart => Pair(body', meta'),
         Recoverable(t)'
  PROVE  FilesInv'
<1>1. \A u \in Tasks \ {t} : pc'[u] \notin Busy
  BY OneHolder DEF Only
<1>2. ASSUME NEW u \in Tasks PROVE Recoverable(u)'
  <2>1. CASE u = t
    BY <2>1
  <2>2. CASE u # t
    BY <1>1, <2>2 DEF Recoverable, Busy, Moving
  <2> QED
    BY <2>1, <2>2
<1> QED
  BY <1>2 DEF FilesInv, Apart

(* A commit can roll back while it may still fail.                           *)
LEMMA FilesCommit ==
  ASSUME OneFailure, FenceInv, FenceInv', FilesInv, NEW t \in Tasks,
         \/ CommitStage(t) \/ CommitBackupBody(t) \/ CommitBackupMeta(t)
         \/ CommitPublishBody(t) \/ CommitPublishMeta(t)
         \/ CommitUndoBody(t) \/ CommitUndoMeta(t) \/ CommitClear(t)
  PROVE  FilesInv'
<1> USE ValueAssumption DEF FenceInv
<1>1. \A b, m : Pair(None, m) /\ Pair(b, None)
  BY DEF Pair, Readable
<1>2. /\ Only(t) /\ metaLock = t /\ detached' = detached
      /\ crashes' = crashes /\ cancels' = cancels /\ faults' \in {faults, faults + 1}
  BY StageDoes, MovesDo
<1>3. Failures \in Nat /\ (Failures = 0 \/ Failures' # 0) /\ (Failures' = 0 => detached' = {})
  <2>1. faults \in Nat /\ crashes \in Nat /\ cancels \in Nat
    BY DEF TasksOK
  <2> HIDE DEF FenceInv
  <2>2. faults' >= faults /\ crashes' >= crashes /\ cancels' >= cancels
    BY <1>2, <2>1
  <2>3. Failures \in Nat /\ Failures' \in Nat /\ Failures' >= Failures
    BY <2>2, FailuresGrow
  <2> QED
    BY <1>2, <2>3 DEF FilesInv
<1>4. /\ Fails => Failures = 0 /\ Failures' # 0
      /\ Works => Failures' = Failures
  BY <1>2, FirstFailure DEF Fails, Works, Failures
<1>5. pc[t] \notin Apart => Pair(body, meta)
  BY <1>2, OneHolder DEF FilesInv, Apart, Busy
<1>6. Recoverable(t) /\ loc[t] \in Locals /\ loc[t].old \in Files
  BY DEF FilesInv, TasksOK, Locals
<1>7. pc[t] \in Moving => loc[t].new # None /\ loc[t].new.etag = loc[t].ver
  BY DEF Shape, Moving, Replacing
<1>8. CASE CommitStage(t)
  <2>1. pc[t] = "stage" /\ pc'[t] \in {"finish", "backupBody"} /\ UNCHANGED <<body, meta>>
    BY <1>8, StageDoes
  <2>2. Pair(body', meta') /\ Recoverable(t)'
    BY <1>5, <2>1 DEF Apart, Moving, Recoverable
  <2> QED
    BY <1>2, <1>3, <2>2, FilesAlone
<1>9. CASE CommitBackupBody(t)
  <2>1. /\ pc[t] = "backupBody" /\ meta' = meta /\ loc[t].old = Nothing
        /\ \/ pc'[t] = "finish" /\ body' = body
           \/ /\ pc'[t] = "backupMeta" /\ body' = None
              /\ loc'[t].old.body = body /\ loc'[t].old.meta = loc[t].old.meta
           \/ pc'[t] = "backupMeta" /\ Fails /\ body' = body /\ loc' = loc
    BY <1>6, <1>9 DEF CommitBackupBody, GiveUpLocked, Goto, TasksOK, Locals, Files, Shape
  <2>2. Pair(body, meta)
    BY <1>5, <2>1 DEF Apart, Moving
  <2>3. pc'[t] \notin Apart => Pair(body', meta')
    BY <2>1, <2>2 DEF Apart, Moving
  <2>4. Recoverable(t)'
    BY <1>4, <2>1, <2>2 DEF Recoverable, Nothing
  <2> QED
    BY <1>2, <1>3, <2>3, <2>4, FilesAlone
<1>10. CASE CommitBackupMeta(t)
  <2>1. /\ pc[t] = "backupMeta" /\ body' = body
        /\ loc'[t].old.body = loc[t].old.body
        /\ \/ /\ Fails /\ meta' = meta /\ loc' = loc
              /\ pc'[t] = IF loc[t].old.body = None THEN "undoMeta" ELSE "undoBody"
           \/ pc'[t] = "publishBody" /\ Works /\ meta' = None /\ loc'[t].old.meta = meta
           \/ pc'[t] = "publishBody" /\ Fails
    BY <1>6, <1>10 DEF CommitBackupMeta, UndoUnpublished, Goto, TasksOK, Locals, Files, Shape
  <2>2. pc'[t] \in Apart
    BY <2>1 DEF Apart, Moving
  <2>3. Recoverable(t)'
    BY <1>1, <1>4, <1>6, <2>1 DEF Recoverable, Restored
  <2> QED
    BY <1>2, <1>3, <2>2, <2>3, FilesAlone
<1>11. CASE CommitPublishBody(t)
  <2>1. /\ pc[t] = "publishBody" /\ meta' = meta /\ loc' = loc
        /\ \/ /\ Fails /\ body' = body
              /\ pc'[t] = IF loc[t].old.body = None THEN "undoMeta" ELSE "undoBody"
           \/ Works /\ pc'[t] = "publishMeta" /\ body' = loc[t].ver
    BY <1>11 DEF CommitPublishBody, UndoUnpublished, Goto, TasksOK
  <2>2. pc'[t] \in Apart
    BY <2>1 DEF Apart, Moving
  <2>3. Recoverable(t)'
    BY <1>1, <1>4, <1>6, <2>1 DEF Recoverable, Restored
  <2> QED
    BY <1>2, <1>3, <2>2, <2>3, FilesAlone
<1>12. CASE CommitPublishMeta(t)
  <2>1. /\ pc[t] = "publishMeta" /\ body' = body /\ loc' = loc
        /\ \/ Fails /\ meta' = meta /\ pc'[t] = "undoBody"
           \/ Works /\ pc'[t] = "published" /\ meta' = loc[t].new
    BY <1>12 DEF CommitPublishMeta, Goto, TasksOK
  <2>2. pc'[t] \notin Apart => Pair(body', meta')
    BY <1>6, <1>7, <2>1 DEF Apart, Moving, Recoverable, Pair
  <2>3. Recoverable(t)'
    BY <1>4, <1>6, <2>1 DEF Recoverable, Restored
  <2> QED
    BY <1>2, <1>3, <2>2, <2>3, FilesAlone
<1>13. CASE CommitUndoBody(t)
  <2>1. /\ pc[t] = "undoBody" /\ meta' = meta /\ loc' = loc /\ pc'[t] = "undoMeta"
        /\ Fails \/ body' = loc[t].old.body
    BY <1>13 DEF CommitUndoBody, Goto, TasksOK
  <2>2. pc'[t] \in Apart
    BY <2>1 DEF Apart, Moving
  <2>3. Recoverable(t)'
    BY <1>3, <1>4, <1>6, <2>1 DEF Recoverable, Restored
  <2> QED
    BY <1>2, <1>3, <2>2, <2>3, FilesAlone
<1>14. CASE CommitUndoMeta(t)
  <2>1. /\ pc[t] = "undoMeta" /\ body' = body /\ loc' = loc /\ pc'[t] = "finish"
        /\ Fails \/ meta' = Restored(t)
    BY <1>14 DEF CommitUndoMeta, GiveUpLocked, Goto, TasksOK, Restored
  <2>2. Pair(body', meta')
    BY <1>4, <1>6, <2>1 DEF Recoverable
  <2>3. Recoverable(t)'
    BY <2>1 DEF Recoverable
  <2> QED
    BY <1>2, <1>3, <2>2, <2>3, FilesAlone
<1>15. CASE CommitClear(t)
  <2>1. pc[t] = "published" /\ pc'[t] = "finish" /\ UNCHANGED <<body, meta>>
    BY <1>15 DEF CommitClear, GiveUpLocked, Goto, TasksOK
  <2>2. Pair(body', meta') /\ Recoverable(t)'
    BY <1>5, <2>1 DEF Apart, Moving, Recoverable
  <2> QED
    BY <1>2, <1>3, <2>2, FilesAlone
<1> QED
  BY <1>8, <1>9, <1>10, <1>11, <1>12, <1>13, <1>14, <1>15

(* Every step keeps the pairs.                                               *)
LEMMA FilesKept ==
  ASSUME OneFailure, NoLateRename, FenceInv, FenceInv', IdInv, FilesInv, [Next]_vars
  PROVE  FilesInv'
<1>1. /\ faults \in Nat /\ crashes \in Nat /\ cancels \in Nat
      /\ faults' \in Nat /\ crashes' \in Nat /\ cancels' \in Nat
  BY DEF FenceInv, TasksOK
<1>2. Failures \in Nat /\ (Failures # 0 => ~MayFail)
  BY FirstFailure
<1>3. CASE Restart
  <2>1. Failures = 0
    BY <1>2, <1>3 DEF Restart
  <2>2. Pair(body, meta)
    <3>1. CASE \A t \in Tasks : pc[t] \notin Apart
      BY <3>1 DEF FilesInv, Apart
    <3>2. ASSUME NEW t \in Tasks, pc[t] \in Apart PROVE Pair(body, meta)
      <4>1. Recoverable(t)
        BY DEF FilesInv
      <4> QED
        BY <2>1, <3>2, <4>1 DEF Recoverable, Apart, Moving, Pair, Readable
    <3> QED
      BY <3>1, <3>2
  <2>3. /\ meta' \in {meta, Corrupt} /\ body' \in {body, None}
        /\ detached' = {} /\ \A t \in Tasks : pc'[t] = "idle"
    BY <1>3 DEF Restart
  <2>4. Pair(body', meta')
    BY <2>2, <2>3 DEF Pair, Readable
  <2> QED
    BY <2>3, <2>4 DEF FilesInv, Recoverable
<1>4. CASE RunDetached
  <2>1. /\ Failures # 0 /\ Failures' = Failures /\ UNCHANGED <<pc, loc>>
        /\ body' \in {body, None} /\ meta' \in {meta, None}
    BY <1>4 DEF RunDetached, FilesInv, IdInv, Failures
  <2>2. \A u \in Tasks : Recoverable(u)'
    BY <2>1, UnlinkKeepsPairs
  <2>3. Pair(body, meta) => Pair(body', meta')
    BY <2>1 DEF Pair, Readable
  <2> QED
    BY <2>1, <2>2, <2>3 DEF FilesInv
<1>5. ASSUME NEW t \in Tasks, Quiet(t) PROVE FilesInv'
  <2>1. /\ Failures = 0 \/ Failures' # 0
        /\ Failures' = 0 => detached' = {}
    <3>1. faults' >= faults /\ crashes' >= crashes /\ cancels' >= cancels
      BY <1>1, <1>5 DEF Quiet
    <3>2. Failures' \in Nat /\ Failures' >= Failures
      BY <3>1, FailuresGrow
    <3> QED
      BY <1>2, <1>5, <3>2 DEF Quiet, FilesInv
  <2> QED
    BY <1>5, <2>1, FilesFrame DEF Quiet, Apart, Busy
\* Lookups and purges take files away.
<1>6. ASSUME NEW t \in Tasks, Only(t), pc[t] \notin Apart, pc'[t] \notin Apart,
             body' \in {body, None}, meta' \in {meta, None}, detached' = detached,
             crashes' = crashes, cancels' = cancels,
             faults' \in {faults, faults + 1, faults + 2}
      PROVE  FilesInv'
  <2>0. faults' >= faults /\ crashes' >= crashes /\ cancels' >= cancels
    BY <1>1, <1>6
  <2>1. Failures' \in Nat /\ Failures' >= Failures
    BY <2>0, FailuresGrow
  <2>2. /\ Failures = 0 \/ Failures' # 0
        /\ Failures' = 0 => detached' = {}
    BY <1>2, <1>6, <2>1 DEF FilesInv
  <2> QED
    BY <1>6, <2>2, FilesFrame
<1>7. ASSUME NEW t \in Tasks, LookupLocked(t) PROVE FilesInv'
  <2>1. /\ pc[t] = "lookup" /\ body' \in {body, None} /\ meta' \in {meta, None}
        /\ UNCHANGED <<detached, crashes, cancels>>
        /\ faults' \in {faults, faults + 1, faults + 2}
    BY <1>7 DEF LookupLocked, CleanupOrphan, Works, Fails, lateVars
  <2>2. \E r : Return(t, r)
    BY <1>7 DEF LookupLocked
  <2>3. Only(t) /\ pc'[t] = "idle"
    BY <2>2 DEF Return, Goto, Only, FenceInv, TasksOK
  <2> QED
    BY <1>6, <2>1, <2>3 DEF Apart, Moving
<1>8. ASSUME NEW t \in Tasks, PurgeCheck(t) \/ PurgeRemoveBody(t) \/ PurgeRemoveMeta(t)
      PROVE  FilesInv'
  <2>1. /\ pc[t] \in {"purge", "removeBody", "removeMeta"}
        /\ body' \in {body, None} /\ meta' \in {meta, None}
        /\ UNCHANGED <<detached, crashes, cancels>> /\ faults' \in {faults, faults + 1}
    BY <1>8 DEF PurgeCheck, PurgeRemoveBody, PurgeRemoveMeta, Works, Fails, lateVars
  <2>2. Only(t)
    BY <1>8, TaskAlone DEF Steps, MethodStep, InvalidateStep
  <2>3. pc'[t] \in {"idle", "removeBody", "removeMeta", "unmark"}
    BY <1>8 DEF PurgeCheck, PurgeRemoveBody, PurgeRemoveMeta, Unmarks, ReturnUnlocked, Return,
                Goto, FenceInv, TasksOK
  <2> QED
    BY <1>6, <2>1, <2>2, <2>3 DEF Apart, Moving
<1>9. ASSUME NEW t \in Tasks, CancelInvalidate(t) \/ CancelLookup(t) PROVE FilesInv'
  <2>1. /\ pc[t] \notin Apart /\ meta' \in {meta, None} /\ UNCHANGED <<body, faults, crashes>>
        /\ cancels' = cancels + 1 /\ Return(t, Outcome("none"))
    BY <1>9 DEF CancelInvalidate, CancelLookup, Detach, Apart, Moving, diskVars
  <2>2. Failures' # 0
    BY <1>1, <2>1 DEF Failures
  <2>3. Only(t) /\ pc'[t] = "idle"
    BY <2>1 DEF Return, Goto, Only, FenceInv, TasksOK
  <2> QED
    BY <2>1, <2>2, <2>3, FilesFrame DEF Apart, Moving
\* An update writes the ETag it found.
<1>10. ASSUME NEW t \in Tasks, CallUpdate(t) PROVE FilesInv'
  <2>1. \A b \in HeadBits : ~CancelUpdate(t, res[t].meta, b)
    BY <1>1, BoundAssumption DEF NoLateRename, CancelUpdate, Detach
  <2>2. /\ HitBy(t) /\ metaLock = None /\ pc[t] = "idle" /\ body' = body
        /\ UNCHANGED <<detached, crashes, cancels>> /\ faults' \in {faults, faults + 1}
    BY <1>10, <2>1 DEF CallUpdate, UpdateMetadata, RewriteLastAccessed, Works, Fails, lateVars
  <2>3. Only(t) /\ pc'[t] = "idle"
    BY <1>10, <2>1 DEF CallUpdate, UpdateMetadata, RewriteLastAccessed, Return, Goto, Only,
                FenceInv, TasksOK
  <2>4. Failures' = 0 => detached' = {}
    <3>0. faults' >= faults /\ crashes' >= crashes /\ cancels' >= cancels
      BY <1>1, <2>2
    <3>1. Failures' \in Nat /\ Failures' >= Failures
      BY <3>0, FailuresGrow
    <3> QED
      BY <1>2, <2>2, <3>1 DEF FilesInv
  <2>5. Pair(body, meta)
    BY <2>2, OneHolder DEF FilesInv, Busy, Moving
  <2>6. meta' = meta \/ (Readable(meta) /\ meta'.etag = meta.etag)
    <3>1. \A b \in HeadBits :
             UpdateMetadata(t, res[t].meta, b) /\ meta' # meta
               => Readable(meta) /\ meta'.etag = meta.etag
      <4> SUFFICES ASSUME NEW b \in HeadBits, UpdateMetadata(t, res[t].meta, b), meta' # meta
                   PROVE  Readable(meta) /\ meta'.etag = meta.etag
        OBVIOUS
      <4> DEFINE s == res[t].meta
      <4>1. Readable(meta) /\ meta.fill = s.fill /\ meta' = UpdatedMeta(s, b)
        BY DEF UpdateMetadata
      <4>2. s \in Metas /\ s.etag = meta.etag
        BY <2>2, <4>1 DEF FenceInv, TasksOK, HitBy, IdInv, HitsAgree, Agree
      <4>3. UpdatedMeta(s, b).etag = s.etag
        BY <4>2 DEF UpdatedMeta, Metas
      <4> QED
        BY <4>1, <4>2, <4>3
    <3>2. \A h : RewriteLastAccessed(t, res[t].meta, h) /\ meta' # meta
               => Readable(meta) /\ meta'.etag = meta.etag
      <4> SUFFICES ASSUME NEW h, RewriteLastAccessed(t, res[t].meta, h), meta' # meta
                   PROVE  Readable(meta) /\ meta'.etag = meta.etag
        OBVIOUS
      <4>1. Readable(meta) /\ meta' = [meta EXCEPT !.atime = h, !.synced = FALSE]
        BY DEF RewriteLastAccessed
      <4>2. meta \in Metas
        BY <4>1 DEF Readable, FenceInv, TypeOK
      <4> QED
        BY <4>1, <4>2 DEF Metas
    <3> QED
      BY <1>10, <2>1, <3>1, <3>2 DEF CallUpdate
  <2>7. Pair(body', meta')
    BY <2>2, <2>5, <2>6 DEF Pair
  <2>8. Recoverable(t)'
    BY <2>3 DEF Recoverable
  <2> QED
    BY <2>2, <2>3, <2>4, <2>7, <2>8, FilesAlone
<1>11. ASSUME NEW t \in Tasks, Call(t) PROVE FilesInv'
  <2>1. HitBy(t) => res[t].meta.fill \in Nat
    BY DEF FenceInv, TasksOK, HitBy, Metas
  <2>2. CASE CallFill(t) \/ CallInvalidate(t) \/ Lookup(t)
    BY <1>5, <2>1, <2>2, QuietSteps DEF CallFill, CallInvalidate, AbortFill
  <2> QED
    BY <1>10, <1>11, <2>2 DEF Call
<1>12. ASSUME NEW t \in Tasks, MethodStep(t) PROVE FilesInv'
  <2>1. CASE CommitFinish(t)
    <3>1. pc[t] = "finish" /\ loc[t].guard # None /\ FinishFill(t)
      BY <2>1 DEF CommitFinish, FenceInv, Shape, Filling
    <3> QED
      BY <1>5, <3>1, QuietSteps
  <2>2. CASE CommitStep(t) /\ ~CommitFinish(t)
    BY <1>5, <2>2, QuietSteps, FilesCommit DEF CommitStep
  <2>3. CASE InvalidateStep(t)
    BY <1>5, <1>8, <2>3, QuietSteps DEF InvalidateStep
  <2> QED
    BY <1>7, <1>12, <2>1, <2>2, <2>3 DEF MethodStep
<1>13. CASE UNCHANGED vars
  BY <1>13 DEF vars, FilesInv, Failures, Recoverable, Restored
<1> QED
  BY <1>3, <1>4, <1>9, <1>11, <1>12, <1>13 DEF Next

(* NoTornEntry for any number of tasks and versions: with one failure in     *)
(* all, at whatever point it hits, a reader never gets the metadata of one   *)
(* version with the body of another.  (Two failures can tear an entry, and   *)
(* so can the late rename of a dropped refresh: two runs show it.)           *)
THEOREM EntriesNeverTorn ==
  ASSUME OneFailure, NoLateRename
  PROVE  Spec => []NoTornEntry
<1>1. Init => FilesInv
  <2> SUFFICES ASSUME Init PROVE FilesInv
    OBVIOUS
  <2>1. detached = {} /\ \A t \in Tasks : pc[t] = "idle"
    BY DEF Init
  <2>2. Pair(body, meta)
    BY DEF Init, Pair, Readable, MetaOf
  <2> QED
    BY <2>1, <2>2 DEF FilesInv, Recoverable
<1>2. FenceInv /\ IdInv /\ FilesInv /\ [Next]_vars => FilesInv'
  BY NextKeeps, FilesKept
<1>3. FenceInv /\ FilesInv => NoTornEntry
  <2> SUFFICES ASSUME FenceInv, FilesInv, metaLock = None, Readable(meta), body # None
               PROVE  body = meta.etag
    BY DEF NoTornEntry
  <2>1. \A t \in Tasks : pc[t] \notin Moving
    BY ValueAssumption DEF FenceInv, Holds, Replacing, Moving
  <2> QED
    BY <2>1 DEF FilesInv, Pair
<1> QED
  BY <1>1, <1>2, <1>3, MetadataIdentified, PTL DEF Spec
-----------------------------------------------------------------------------
(* The count of entries.                                                     *)

LEMMA SumZero ==
  \A a, b, c \in Nat : a + b + c = 0 => a = 0 /\ b = 0 /\ c = 0
OBVIOUS

(* A step after which nothing has failed is one in which nothing failed.     *)
LEMMA NothingFailed ==
  ASSUME FenceInv, FenceInv', faults' >= faults, crashes' >= crashes, cancels' >= cancels,
         Failures' = 0
  PROVE  /\ Failures = 0
         /\ faults' = faults /\ crashes' = crashes /\ cancels' = cancels
<1>1. /\ faults \in Nat /\ crashes \in Nat /\ cancels \in Nat
      /\ faults' \in Nat /\ crashes' \in Nat /\ cancels' \in Nat
  BY DEF FenceInv, TasksOK
<1>2. Failures = 0
  BY FailuresGrow
<1>3. faults + crashes + cancels = 0 /\ faults' + crashes' + cancels' = 0
  BY <1>2 DEF Failures
<1>4. faults = 0 /\ crashes = 0 /\ cancels = 0
  BY <1>1, <1>3, SumZero
<1>5. faults' = 0 /\ crashes' = 0 /\ cancels' = 0
  BY <1>1, <1>3, SumZero
<1> QED
  BY <1>2, <1>4, <1>5

(* A quiet step keeps the balance of files and count.                        *)
LEMMA CountFrame ==
  ASSUME FenceInv, FenceInv', CountInv, NEW t \in Tasks, Quiet(t)
  PROVE  CountInv'
<1>1. faults' >= faults /\ crashes' >= crashes /\ cancels' >= cancels
  BY DEF Quiet, FenceInv, TasksOK
<1> SUFFICES ASSUME Failures' = 0 PROVE CountInv'
  BY DEF CountInv
<1>2. Failures = 0
  BY <1>1, NothingFailed
<1>3. \A u \in Tasks : Settled(pc'[u]) => Settled(pc[u])
  BY DEF Quiet, Only, Settled, Busy
<1>4. ASSUME NEW u \in Tasks PROVE Counted(u)'
  <2>1. CASE u = t
    BY <2>1 DEF Quiet, Counted, Busy, Moving
  <2>2. CASE u # t
    BY <1>2, <2>2 DEF Quiet, Only, CountInv, Counted
  <2> QED
    BY <2>1, <2>2
<1> QED
  BY <1>2, <1>3, <1>4 DEF CountInv, Quiet, Balanced

(* Whoever has the metadata lock, or takes it for one step, is the only one  *)
(* to upset the balance.                                                     *)
LEMMA CountAlone ==
  ASSUME FenceInv, FenceInv', CountInv, NEW t \in Tasks, metaLock \in {None, t}, Only(t),
         faults' >= faults, crashes' >= crashes, cancels' >= cancels, detached' = detached,
         Failures' = 0 =>
           /\ meta' # Corrupt /\ Counted(t)'
           /\ Settled(pc'[t]) => Balanced'
  PROVE  CountInv'
<1> SUFFICES ASSUME Failures' = 0 PROVE CountInv'
  BY DEF CountInv
<1>1. Failures = 0
  BY NothingFailed
<1>2. \A u \in Tasks \ {t} : pc'[u] \notin Busy
  BY OneHolder DEF Only
<1>3. \A u \in Tasks : Counted(u)'
  BY <1>2 DEF Counted, Busy, Moving
<1> QED
  BY <1>1, <1>3 DEF CountInv

(* What the holder of the metadata lock knows before such a step.            *)
LEMMA BalancedBefore ==
  ASSUME FenceInv, CountInv, Failures = 0, NEW t \in Tasks, metaLock \in {None, t}
  PROVE  /\ detached = {} /\ meta # Corrupt /\ Counted(t)
         /\ Settled(pc[t]) => Balanced
<1>1. \A u \in Tasks \ {t} : Settled(pc[u])
  BY OneHolder DEF Settled, Busy
<1> QED
  BY <1>1 DEF CountInv

(* A commit that nothing interferes with counts an entry it adds, and not    *)
(* one it replaces.                                                          *)
LEMMA CountCommit ==
  ASSUME FenceInv, FenceInv', CountInv, NEW t \in Tasks,
         \/ CommitStage(t) \/ CommitBackupBody(t) \/ CommitBackupMeta(t)
         \/ CommitPublishBody(t) \/ CommitPublishMeta(t)
         \/ CommitUndoBody(t) \/ CommitUndoMeta(t) \/ CommitClear(t)
  PROVE  CountInv'
<1> USE ValueAssumption
<1>1. /\ Only(t) /\ metaLock = t /\ detached' = detached
      /\ crashes' = crashes /\ cancels' = cancels /\ faults' \in {faults, faults + 1}
  BY StageDoes, MovesDo
<1>2. faults' >= faults /\ crashes' >= crashes /\ cancels' >= cancels
  BY <1>1 DEF FenceInv, TasksOK
<1> SUFFICES ASSUME Failures' = 0
             PROVE  /\ meta' # Corrupt /\ Counted(t)'
                    /\ Settled(pc'[t]) => Balanced'
  BY <1>1, <1>2, CountAlone
<1>3. Failures = 0 /\ faults' = faults /\ faults \in Nat
  BY <1>2, NothingFailed DEF FenceInv, TasksOK
<1>4. ~Fails
  BY <1>3 DEF Fails
<1>5. meta # Corrupt /\ Counted(t) /\ (Settled(pc[t]) => Balanced)
  BY <1>1, <1>3, BalancedBefore
<1>6. loc[t] \in Locals /\ loc[t].old \in Files /\ pc \in [Tasks -> Labels]
  BY DEF FenceInv, TasksOK, Locals
<1>7. /\ pc[t] \in Replacing => loc[t].ver # None
      /\ pc[t] \in Moving => loc[t].new \in Metas
  BY <1>6 DEF FenceInv, Shape, Moving, Replacing, Filling, Locals
<1>8. CASE CommitStage(t)
  <2>1. /\ pc[t] = "stage" /\ pc'[t] \in {"finish", "backupBody"}
        /\ UNCHANGED <<body, meta, entryCount>>
    BY <1>8, StageDoes
  <2> QED
    BY <1>5, <2>1 DEF Settled, Moving, Balanced, Counted
<1>9. CASE CommitBackupBody(t)
  <2>1. /\ pc[t] = "backupBody" /\ meta' = meta /\ entryCount' = entryCount
        /\ pc'[t] = "backupMeta" /\ body' = None /\ loc'[t].old.body = body
    BY <1>4, <1>6, <1>9 DEF CommitBackupBody, Goto, FenceInv, TasksOK, Locals, Files
  <2> QED
    BY <1>5, <2>1 DEF Settled, Moving, Balanced, Counted
<1>10. CASE CommitBackupMeta(t)
  <2>1. /\ pc[t] = "backupMeta" /\ body' = body /\ entryCount' = entryCount
        /\ pc'[t] = "publishBody" /\ meta' = None
        /\ loc'[t].old.body = loc[t].old.body /\ loc'[t].old.meta = meta
    BY <1>4, <1>6, <1>10 DEF CommitBackupMeta, Goto, FenceInv, TasksOK, Locals, Files
  <2> QED
    BY <1>5, <2>1 DEF Settled, Moving, Balanced, Counted
<1>11. CASE CommitPublishBody(t)
  <2>1. /\ pc[t] = "publishBody" /\ meta' = meta /\ entryCount' = entryCount /\ loc' = loc
        /\ pc'[t] = "publishMeta" /\ body' = loc[t].ver /\ loc[t].ver # None
    BY <1>4, <1>6, <1>7, <1>11 DEF CommitPublishBody, Goto, Replacing
  <2> QED
    BY <1>5, <2>1 DEF Settled, Moving, Balanced, Counted
<1>12. CASE CommitPublishMeta(t)
  <2>1. /\ pc[t] = "publishMeta" /\ body' = body /\ entryCount' = entryCount /\ loc' = loc
        /\ pc'[t] = "published" /\ meta' \in Metas
    BY <1>4, <1>6, <1>7, <1>12 DEF CommitPublishMeta, Goto, Moving
  <2>2. meta' # None /\ meta' # Corrupt
    BY <2>1
  <2> QED
    BY <1>5, <2>1, <2>2 DEF Settled, Moving, Balanced, Counted
<1>13. CASE CommitUndoBody(t) \/ CommitUndoMeta(t)
  BY <1>5, <1>13 DEF CommitUndoBody, CommitUndoMeta, Counted
<1>14. CASE CommitClear(t)
  <2>1. /\ pc[t] = "published" /\ UNCHANGED <<body, meta>>
        /\ entryCount' = 1 + IF loc[t].old = Nothing THEN entryCount
                                                     ELSE SaturatingPred(entryCount)
        /\ pc'[t] = "finish"
    BY <1>6, <1>14 DEF CommitClear, GiveUpLocked, Goto
  <2>2. loc[t].old = Nothing <=> loc[t].old.body = None /\ loc[t].old.meta = None
    BY <1>6 DEF Nothing, Files
  <2>3. /\ body # None /\ meta # None
        /\ loc[t].old.body = None <=> loc[t].old.meta = None
        /\ entryCount = OtherEntries + Present(loc[t].old.meta)
    BY <1>5, <2>1 DEF Counted
  <2>4. entryCount' = OtherEntries + 1
    <3>1. CASE loc[t].old.meta = None
      BY <2>1, <2>2, <2>3, <3>1 DEF OtherEntries, Present
    <3>2. CASE loc[t].old.meta # None
      BY <2>1, <2>2, <2>3, <3>2 DEF OtherEntries, Present, SaturatingPred
    <3> QED
      BY <3>1, <3>2
  <2> QED
    BY <1>5, <2>1, <2>3, <2>4 DEF Settled, Moving, Balanced, Counted, Present
<1> QED
  BY <1>8, <1>9, <1>10, <1>11, <1>12, <1>13, <1>14

(* So do a purge, which takes the entry off the count with its metadata, and *)
(* a lookup, which finds nothing to clean up.                                *)
LEMMA CountRemoval ==
  ASSUME FenceInv, FenceInv', CountInv, NEW t \in Tasks,
         PurgeCheck(t) \/ PurgeRemoveBody(t) \/ PurgeRemoveMeta(t) \/ LookupLocked(t)
  PROVE  CountInv'
<1> USE ValueAssumption
<1>1. Only(t) /\ UNCHANGED <<detached, crashes, cancels>>
  BY TaskAlone DEF Steps, MethodStep, InvalidateStep, PurgeCheck, PurgeRemoveBody,
     PurgeRemoveMeta, LookupLocked, lateVars
<1>2. metaLock \in {None, t}
  BY DEF FenceInv, Holds, Removing, PurgeCheck, PurgeRemoveBody, PurgeRemoveMeta, LookupLocked
<1>3. faults' \in {faults, faults + 1, faults + 2}
  BY DEF PurgeCheck, PurgeRemoveBody, PurgeRemoveMeta, LookupLocked, CleanupOrphan, Works,
         Fails
<1>4. faults' >= faults /\ crashes' >= crashes /\ cancels' >= cancels
  BY <1>1, <1>3 DEF FenceInv, TasksOK
<1> SUFFICES ASSUME Failures' = 0
             PROVE  /\ meta' # Corrupt /\ Counted(t)'
                    /\ Settled(pc'[t]) => Balanced'
  BY <1>1, <1>2, <1>4, CountAlone
<1>5. Failures = 0 /\ faults' = faults /\ faults \in Nat
  BY <1>4, NothingFailed DEF FenceInv, TasksOK
<1>6. ~Fails
  BY <1>5 DEF Fails
<1>7. meta # Corrupt /\ Counted(t) /\ (Settled(pc[t]) => Balanced)
  BY <1>2, <1>5, BalancedBefore
<1>8. pc \in [Tasks -> Labels]
  BY DEF FenceInv, TasksOK
<1>9. \A r : Return(t, r) => pc'[t] = "idle"
  BY <1>8 DEF Return, Goto
<1>10. CASE PurgeCheck(t)
  <2>1. Balanced
    BY <1>7, <1>10 DEF PurgeCheck, Settled, Moving
  <2>2. /\ meta' = meta /\ body' = body /\ entryCount' = entryCount
        /\ pc'[t] \in {"idle", "unmark"} \/ (pc'[t] = "removeBody" /\ meta # None)
    BY <1>6, <1>8, <1>9, <1>10, <2>1 DEF PurgeCheck, Unmarks, ReturnUnlocked, Goto, Balanced,
                                         Matches, Readable
  <2> QED
    BY <1>7, <2>1, <2>2 DEF Settled, Moving, Balanced, Counted
<1>11. CASE PurgeRemoveBody(t)
  <2>1. pc[t] = "removeBody" /\ Balanced /\ meta # None
    BY <1>7, <1>11 DEF PurgeRemoveBody, Settled, Moving, Counted
  <2>2. meta' = meta /\ body' = None /\ entryCount' = entryCount /\ pc'[t] = "removeMeta"
    BY <1>6, <1>8, <1>11 DEF PurgeRemoveBody, Goto
  <2> QED
    BY <1>7, <2>1, <2>2 DEF Settled, Moving, Balanced, Counted, Present
<1>12. CASE PurgeRemoveMeta(t)
  <2>1. pc[t] = "removeMeta" /\ body = None /\ entryCount = OtherEntries + 1
    BY <1>7, <1>12 DEF PurgeRemoveMeta, Counted
  <2>2. /\ meta' = None /\ body' = body /\ entryCount' = SaturatingPred(entryCount)
        /\ pc'[t] = "unmark"
    BY <1>6, <1>8, <1>12 DEF PurgeRemoveMeta, Unmarks, Goto
  <2>3. entryCount' = OtherEntries
    BY <2>1, <2>2 DEF OtherEntries, SaturatingPred
  <2> QED
    BY <2>1, <2>2, <2>3 DEF Settled, Moving, Balanced, Counted, Present, OtherEntries
<1>13. CASE LookupLocked(t)
  <2>1. Balanced
    BY <1>7, <1>13 DEF LookupLocked, Settled, Moving
  <2>2. pc'[t] = "idle"
    BY <1>9, <1>13 DEF LookupLocked
  <2>3. meta' = meta /\ body' = body /\ entryCount' = entryCount
    BY <1>6, <1>7, <1>13, <2>1 DEF LookupLocked, CleanupOrphan, Balanced, Readable
  <2> QED
    BY <1>7, <2>1, <2>2, <2>3 DEF Settled, Balanced, Counted
<1> QED
  BY <1>10, <1>11, <1>12, <1>13

(* A metadata update replaces metadata by metadata.                          *)
LEMMA CountUpdate ==
  ASSUME FenceInv, FenceInv', CountInv, NEW t \in Tasks, CallUpdate(t)
  PROVE  CountInv'
<1> USE ValueAssumption
<1>1. HitBy(t) /\ res[t].meta \in Metas
  BY DEF CallUpdate, HitBy, FenceInv, TasksOK
<1>2. faults \in Nat /\ crashes \in Nat /\ cancels \in Nat /\ pc \in [Tasks -> Labels]
  BY DEF FenceInv, TasksOK
<1>3. ASSUME NEW b \in HeadBits, CancelUpdate(t, res[t].meta, b) PROVE CountInv'
  <2>1. faults' = faults /\ crashes' = crashes /\ cancels' = cancels + 1
    BY <1>3 DEF CancelUpdate, Detach
  <2>2. Failures' = 0 => cancels' = cancels
    BY <1>2, <2>1, NothingFailed
  <2> QED
    BY <1>2, <2>1, <2>2 DEF CountInv
<1>4. ASSUME NEW m, meta' = m, m = meta \/ (Readable(meta) /\ m \in Metas),
             UNCHANGED <<body, entryCount, detached, crashes, cancels>>,
             Works \/ Fails, metaLock = None, pc[t] = "idle", \E r : Return(t, r)
      PROVE  CountInv'
  <2>1. faults' >= faults /\ crashes' >= crashes /\ cancels' >= cancels
    BY <1>2, <1>4 DEF Works, Fails
  <2>2. Only(t) /\ pc'[t] = "idle"
    BY <1>2, <1>4 DEF Return, Goto, Only, FenceInv, TasksOK
  <2>3. ASSUME Failures' = 0 PROVE meta' # Corrupt /\ Balanced'
    <3>1. Failures = 0
      BY <2>1, <2>3, NothingFailed
    <3>2. meta # Corrupt /\ Balanced
      BY <1>4, <3>1, BalancedBefore DEF Settled, Moving
    <3> QED
      BY <1>4, <3>2 DEF Balanced, Present, Readable
  <2> QED
    BY <1>4, <2>1, <2>2, <2>3, CountAlone DEF Counted
<1>5. ASSUME NEW b \in HeadBits, UpdateMetadata(t, res[t].meta, b) PROVE CountInv'
  <2>1. meta' = meta \/ (Readable(meta) /\ meta' = UpdatedMeta(res[t].meta, b))
    BY <1>5 DEF UpdateMetadata
  <2>2. Readable(meta) => meta \in Metas
    BY DEF Readable, FenceInv, TypeOK
  <2>3. meta' = meta \/ (Readable(meta) /\ meta' \in Metas)
    BY <1>1, <2>1, <2>2, UpdatedTyped
  <2>4. /\ UNCHANGED <<body, entryCount, detached, crashes, cancels>>
        /\ Works \/ Fails
        /\ metaLock = None /\ pc[t] = "idle" /\ \E r : Return(t, r)
    BY <1>5 DEF UpdateMetadata, lateVars
  <2> QED
    BY <1>4, <2>3, <2>4
<1>6. ASSUME NEW h \in Nat, RewriteLastAccessed(t, res[t].meta, h) PROVE CountInv'
  <2>1. meta' = meta \/ (Readable(meta) /\ meta' = [meta EXCEPT !.atime = h, !.synced = FALSE])
    BY <1>6 DEF RewriteLastAccessed
  <2>2. Readable(meta) => [meta EXCEPT !.atime = h, !.synced = FALSE] \in Metas
    BY DEF FenceInv, TypeOK, Readable, Metas
  <2>3. meta' = meta \/ (Readable(meta) /\ meta' \in Metas)
    BY <2>1, <2>2
  <2>4. /\ UNCHANGED <<body, entryCount, detached, crashes, cancels>>
        /\ Works \/ Fails
        /\ metaLock = None /\ pc[t] = "idle" /\ \E r : Return(t, r)
    BY <1>6 DEF RewriteLastAccessed, lateVars
  <2> QED
    BY <1>4, <2>3, <2>4
<1> QED
  <2>1. res[t].meta.atime + 1 .. MaxHours \subseteq Nat
    BY <1>1 DEF Metas
  <2> QED
    BY <1>3, <1>5, <1>6, <2>1 DEF CallUpdate

(* Every step keeps the balance.                                             *)
LEMMA CountKept ==
  ASSUME FenceInv, FenceInv', CountInv, [Next]_vars
  PROVE  CountInv'
<1>1. /\ faults \in Nat /\ crashes \in Nat /\ cancels \in Nat
  BY DEF FenceInv, TasksOK
<1>2. CASE Restart
  <2>1. faults' \in {faults, faults + 1} /\ crashes' = crashes + 1 /\ cancels' = cancels
    BY <1>2 DEF Restart, Works, Fails
  <2>2. faults' >= faults /\ crashes' >= crashes /\ crashes' # crashes /\ cancels' >= cancels
    BY <1>1, <2>1
  <2> QED
    BY <2>2, NothingFailed DEF CountInv
<1>3. CASE RunDetached
  <2>1. detached # {} /\ UNCHANGED <<faults, crashes, cancels>>
    BY <1>3 DEF RunDetached
  <2> QED
    BY <2>1 DEF CountInv, Failures
<1>4. ASSUME NEW t \in Tasks, CancelInvalidate(t) \/ CancelLookup(t) PROVE CountInv'
  <2>1. faults' = faults /\ crashes' = crashes /\ cancels' = cancels + 1
    BY <1>4 DEF CancelInvalidate, CancelLookup, Detach
  <2>2. faults' >= faults /\ crashes' >= crashes /\ cancels' >= cancels /\ cancels' # cancels
    BY <1>1, <2>1
  <2> QED
    BY <2>2, NothingFailed DEF CountInv
<1>5. ASSUME NEW t \in Tasks, Call(t) PROVE CountInv'
  <2>1. HitBy(t) => res[t].meta.fill \in Nat
    BY DEF FenceInv, TasksOK, HitBy, Metas
  <2>2. CASE CallFill(t) \/ CallInvalidate(t) \/ Lookup(t)
    BY <2>1, <2>2, QuietSteps, CountFrame DEF CallFill, CallInvalidate, AbortFill
  <2> QED
    BY <1>5, <2>2, CountUpdate DEF Call
<1>6. ASSUME NEW t \in Tasks, MethodStep(t) PROVE CountInv'
  <2>1. CASE CommitFinish(t)
    <3>1. pc[t] = "finish" /\ loc[t].guard # None /\ FinishFill(t)
      BY <2>1 DEF CommitFinish, FenceInv, Shape, Filling
    <3> QED
      BY <3>1, QuietSteps, CountFrame
  <2>2. CASE CommitStep(t) /\ ~CommitFinish(t)
    BY <2>2, QuietSteps, CountFrame, CountCommit DEF CommitStep
  <2>3. CASE InvalidateStep(t)
    BY <2>3, QuietSteps, CountFrame, CountRemoval DEF InvalidateStep
  <2> QED
    BY <1>6, <2>1, <2>2, <2>3, CountRemoval DEF MethodStep
<1>7. CASE UNCHANGED vars
  BY <1>7 DEF vars, CountInv, Failures, Counted, Balanced
<1> QED
  BY <1>2, <1>3, <1>4, <1>5, <1>6, <1>7 DEF Next

(* CountExact for any number of tasks: fills, purges, lookups and metadata   *)
(* updates, interleaved as they may be, leave entry_count exact whenever no  *)
(* method is under way and nothing has failed.                               *)
THEOREM CountStaysExact == Spec => []CountExact
<1>1. Init => CountInv
  <2> SUFFICES ASSUME Init PROVE CountInv
    OBVIOUS
  <2>1. detached = {} /\ \A t \in Tasks : pc[t] = "idle"
    BY DEF Init
  <2>2. meta # Corrupt /\ Balanced
    <3>1. CASE body = None /\ meta = None
      BY <3>1, ValueAssumption DEF Init, Balanced, Present, OtherEntries
    <3>2. ASSUME NEW v \in Versions, body = v, meta = MetaOf(0, v, {})
          PROVE  meta # Corrupt /\ Balanced
      <4>1. meta \in Metas /\ body # None
        BY <3>2, StagedTyped, ValueAssumption
      <4>2. meta # None /\ meta # Corrupt
        BY <4>1, ValueAssumption
      <4> QED
        BY <4>1, <4>2 DEF Init, Balanced, Present, OtherEntries
    <3> QED
      BY <3>1, <3>2 DEF Init
  <2> QED
    BY <2>1, <2>2 DEF CountInv, Counted
<1>2. FenceInv /\ CountInv /\ [Next]_vars => CountInv'
  BY NextKeeps, CountKept
<1>3. CountInv => CountExact
  <2> SUFFICES ASSUME CountInv, faults + crashes + cancels = 0, \A t \in Tasks : pc[t] = "idle"
               PROVE  entryCount = OtherEntries + IF meta = None THEN 0 ELSE 1
    BY DEF CountExact
  <2> QED
    BY DEF CountInv, Failures, Balanced, Present, Settled, Moving
<1> QED
  BY <1>1, <1>2, <1>3, DiskConsistent, PTL DEF Spec
=============================================================================
