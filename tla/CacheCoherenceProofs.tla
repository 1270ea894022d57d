------------------------ MODULE CacheCoherenceProofs ------------------------
(* Proofs about CacheCoherence: any number of requests, writes, versions and *)
(* dropped calls.                                                            *)
EXTENDS CacheCoherence, DiskFilesProofs

\* What a restart can undo.  A write poisons its key only after two failed purges.
\* If its marker cannot be written either, the poisoning is in memory only; and a
\* purge that was dropped at the removal of a marker may take away a newer one.
PoisonSurvives ==
  \/ MaxCrashes = 0
  \/ MaxFaults <= 1
  \/ MaxFaults <= 2 /\ MaxCancels = 0
-----------------------------------------------------------------------------
(* The inductive invariant.                                                  *)

Clearing == {"purge1", "purge2", "poison"}
Writing == {"write"} \cup Clearing
Probing == {"probe", "peek", "pin", "reread", "stale"}
Reading == {"lead", "wait", "fetch", "abort", "release", "released", "staleProbe",
            "complete"} \cup Probing

VersionsOK ==
  /\ stage \in [Tasks -> {"none"} \cup Writing \cup Reading]
  /\ mark \in [Tasks -> Nat]
  /\ acked \in Nat /\ backend \in Nat
  /\ acked <= backend /\ backend <= MaxVersion
  /\ \A t \in Tasks : mark[t] <= backend
  /\ \A t \in Tasks : stage[t] \in Reading => mark[t] <= acked

(* Which method runs for a handler at each of its stages.                    *)
Runs(t) ==
  /\ pc[t] = "lookup" => stage[t] \in Probing
  /\ pc[t] \in Filling => stage[t] = "complete"
  /\ pc[t] \in Invalidating =>
       /\ stage[t] \in Clearing /\ loc[t].exp = None
       /\ loc[t].kind = IF stage[t] = "poison" THEN "poison" ELSE "purge"
       /\ pc[t] \in {"invalLock", "invalMeta"} \/ (pc[t] \in {"poison", "marker"}
                                                       <=> stage[t] = "poison")
  /\ pc[t] \in {"publishMeta", "published"} => body \in {None, loc[t].ver}
  /\ pc[t] \in {"removeMeta", "unmark"} => body = None
  /\ pc[t] = "marker" => poisonMem

(* What a handler got back is still good.                                    *)
Got(t) == stage[t] \in Probing /\ HitBy(t) => res[t].ver \in Nat /\ res[t].ver >= mark[t]

(* A write purges again, or poisons, only after a failure.                   *)
Failed(t) ==
  LET err == res[t].is = "err"
  IN  /\ stage[t] = "purge2" \/ (stage[t] = "purge1" /\ err) => faults >= 1
      /\ stage[t] = "poison" \/ (stage[t] = "purge2" /\ err) => faults >= 2

(* Write w has fenced off, or will still fence off, every fill older than it.*)
Ordered(v, w) ==
  stage[w] \in Clearing => v >= mark[w] \/ (pc[w] = "invalLock" /\ loc[w].arc = cur)

(* A fill that would pass the generation check fetched after every write     *)
(* that was acknowledged and every one whose purge has begun.                *)
FillFresh(t) ==
  /\ loc[t].guard # None => loc[t].guard <= entry[cur].gen
  /\ pc[t] \in Filling /\ loc[t].guard = CurrentGen =>
       loc[t].ver >= acked /\ \A w \in Tasks : Ordered(loc[t].ver, w)

(* The invalidation of write w is over, and its response is next.            *)
Cleared(w) ==
  /\ pc[w] = "idle"
  /\ stage[w] = "poison" \/ (stage[w] \in {"purge1", "purge2"} /\ res[w].is \in {"true", "false"})

Recent(v) == v >= acked /\ \A w \in Tasks : Cleared(w) => v >= mark[w]

(* A poisoning that the restarts of the instance leave in place.             *)
Hidden == IF MaxCrashes = 0 THEN poisonMem ELSE poisonFile /\ MaxCancels = 0

(* What is on disk, or can be put back by a roll-back, is recent or hidden.  *)
BodiesRecent ==
  /\ body # None => Hidden \/ Recent(body)
  /\ \A t \in Tasks : pc[t] \in Moving /\ loc[t].old.body # None
       => Hidden \/ Recent(loc[t].old.body)

FreshInv ==
  /\ VersionsOK
  /\ \A op \in detached : op.to = None
  /\ \A t \in Tasks : Runs(t) /\ Got(t) /\ Failed(t) /\ FillFresh(t)
  /\ BodiesRecent
  /\ staleReads = {}

(* The failures of the instance are bounded, and only a dropped call leaves  *)
(* a file operation behind.                                                  *)
Bounded == faults <= MaxFaults /\ (MaxCancels = 0 => detached = {})
-----------------------------------------------------------------------------
(* What the methods do to registrations and generations.                     *)

GensKept == cur' = cur /\ \A e \in EntryIds : entry'[e].gen = entry[e].gen

(* Only an invalidation that takes the commit lock moves a generation on: no *)
(* write invalidates conditionally.                                          *)
LEMMA KeepsGens ==
  ASSUME FenceInv, NEW t \in Tasks, Runs(t),
         \/ CommitEarlyCheck(t) \/ CommitPrepare(t) \/ CommitLock(t) \/ CommitMetaLock(t)
         \/ CommitStage(t) \/ CommitBackupBody(t) \/ CommitBackupMeta(t)
         \/ CommitPublishBody(t) \/ CommitPublishMeta(t)
         \/ CommitUndoBody(t) \/ CommitUndoMeta(t) \/ CommitClear(t)
         \/ InvalidateMetaLock(t) \/ PurgeCheck(t) \/ PurgeRemoveBody(t) \/ PurgeRemoveMeta(t)
         \/ PurgeUnmark(t)
         \/ PoisonMark(t) \/ PoisonWriteMarker(t) \/ LookupLocked(t) \/ Lookup(t)
         \/ DropGuard(t) \/ (\E v : CommitFill(t, v)) \/ (\E k, x : Invalidate(t, k, x))
         \/ CancelInvalidate(t) \/ CancelLookup(t)
  PROVE  GensKept
<1> USE DEF fillVars, GensKept
<1>1. entry \in Entries /\ loc[t].arc \in EntryIds \cup {None}
  BY DEF FenceInv, TypeOK, TasksOK, Entries, Locals
<1>2. CASE UNCHANGED fillVars
  BY <1>2
<1>3. CASE ReleaseLocks(t)
  BY <1>1, <1>3, UnlockedFacts DEF ReleaseLocks
<1>4. CASE CommitEarlyCheck(t) \/ CommitPrepare(t)
  BY <1>2, <1>4 DEF CommitEarlyCheck, CommitPrepare, GiveUp
<1>5. CASE CommitLock(t)
  BY <1>1, <1>5 DEF CommitLock, Entries
<1>6. CASE CommitMetaLock(t) \/ CommitStage(t) \/ CommitBackupBody(t)
  BY <1>2, <1>3, <1>6 DEF CommitMetaLock, CommitStage, CommitBackupBody, GiveUpLocked
<1>7. CASE CommitBackupMeta(t) \/ CommitPublishBody(t) \/ CommitPublishMeta(t) \/ CommitUndoBody(t)
  BY <1>2, <1>7 DEF CommitBackupMeta, CommitPublishBody, CommitPublishMeta, CommitUndoBody
<1>8. CASE CommitUndoMeta(t) \/ CommitClear(t)
  BY <1>3, <1>8 DEF CommitUndoMeta, CommitClear, GiveUpLocked
<1>9. CASE InvalidateMetaLock(t) \/ LookupLocked(t) \/ Lookup(t) \/ DropGuard(t)
           \/ (\E v : CommitFill(t, v)) \/ (\E k, x : Invalidate(t, k, x)) \/ CancelLookup(t)
  BY <1>2, <1>9 DEF InvalidateMetaLock, LookupLocked, Lookup, DropGuard, CommitFill, Invalidate,
                    CancelLookup
<1>10. CASE PurgeCheck(t) \/ PoisonMark(t)
  <2>1. loc[t].exp = None
    BY <1>10 DEF Runs, PurgeCheck, PoisonMark, Invalidating, Removing
  <2> QED
    BY <1>2, <1>3, <1>10, <2>1 DEF PurgeCheck, Unmarks, PoisonMark, ReturnUnlocked
<1>11. CASE PurgeRemoveBody(t) \/ PurgeRemoveMeta(t) \/ PurgeUnmark(t) \/ PoisonWriteMarker(t)
  BY <1>2, <1>3, <1>11 DEF PurgeRemoveBody, PurgeRemoveMeta, Unmarks, PurgeUnmark,
                           PoisonWriteMarker, ReturnUnlocked
<1>12. CASE CancelInvalidate(t)
  BY <1>1, <1>12 DEF CancelInvalidate, Entries
<1> QED
  BY <1>4, <1>5, <1>6, <1>7, <1>8, <1>9, <1>10, <1>11, <1>12

\* The other requests stay as they are.
Alone(t) ==
  /\ Only(t)
  /\ \A u \in Tasks \ {t} : stage'[u] = stage[u] /\ mark'[u] = mark[u] /\ res'[u] = res[u]

(* The fills of the other tasks stay fenced: the generation only grows, and  *)
(* an invalidation that begins waits for the commit lock.                    *)
LEMMA FillsStayFresh ==
  ASSUME FenceInv, FreshInv, NEW t \in Tasks, Alone(t), acked' = acked,
         Guarding \ {t} # {} => /\ cur' = cur /\ entry'[cur].gen \in Nat
                                /\ entry'[cur].gen >= entry[cur].gen,
         \/ Guarding \ {t} = {}
         \/ entry'[cur].gen # entry[cur].gen
         \/ stage'[t] \notin Clearing
         \/ pc'[t] = "invalLock" /\ loc'[t].arc = cur
         \/ /\ stage[t] \in Clearing /\ mark'[t] = mark[t]
            /\ ~(pc[t] = "invalLock" /\ loc[t].arc = cur),
         NEW u \in Tasks \ {t}
  PROVE  FillFresh(u)'
<1>1. pc'[u] = pc[u] /\ loc'[u] = loc[u]
  BY DEF Alone, Only
<1>2. loc[u] \in Locals /\ FillFresh(u)
  BY DEF FenceInv, TasksOK, FreshInv
<1>3. CASE loc[u].guard = None
  BY <1>1, <1>3 DEF FillFresh, FenceInv, Shape
<1>4. CASE loc[u].guard # None
  <2>1. u \in Guarding \ {t}
    BY <1>4 DEF Guarding
  <2>2. cur \in EntryIds /\ cur # None /\ cur' = cur
    BY <2>1 DEF FenceInv, RegistrationHolds, TypeOK
  <2>3. loc[u].guard \in Nat /\ entry[cur].gen \in Nat /\ entry'[cur].gen \in Nat
    BY <1>2, <1>4, <2>1, <2>2 DEF Locals, FenceInv, TypeOK
  <2>4. loc[u].guard <= entry[cur].gen /\ entry'[cur].gen >= entry[cur].gen
    BY <1>2, <1>4, <2>1 DEF FillFresh
  <2>5. loc'[u].guard <= entry'[cur'].gen
    BY <1>1, <2>2, <2>3, <2>4
  <2>6. ASSUME pc[u] \in Filling, loc[u].guard = entry'[cur].gen
        PROVE  loc[u].ver >= acked /\ \A w \in Tasks : Ordered(loc[u].ver, w)'
    <3>1. loc[u].guard = CurrentGen /\ entry'[cur].gen = entry[cur].gen
      BY <2>2, <2>3, <2>4, <2>6 DEF CurrentGen
    <3>2. loc[u].ver >= acked /\ \A w \in Tasks : Ordered(loc[u].ver, w)
      BY <1>2, <2>6, <3>1 DEF FillFresh
    <3>3. ASSUME NEW w \in Tasks \ {t} PROVE Ordered(loc[u].ver, w)'
      BY <1>1, <2>2, <3>2, <3>3 DEF Ordered, Alone, Only
    <3>4. Ordered(loc[u].ver, t)'
      BY <1>1, <2>1, <2>2, <3>1, <3>2 DEF Ordered
    <3> QED
      BY <3>2, <3>3, <3>4
  <2>7. CurrentGen' = entry'[cur].gen
    BY <2>2 DEF CurrentGen
  <2> QED
    BY <1>1, <2>2, <2>5, <2>6, <2>7 DEF FillFresh, Ordered
<1> QED
  BY <1>3, <1>4

(* Nothing that the other tasks have in hand is touched, so they are where   *)
(* they were.                                                                *)
LEMMA FreshStep ==
  ASSUME FenceInv, FreshInv, NEW t \in Tasks, Alone(t), VersionsOK',
         \A op \in detached' : op.to = None, faults' >= faults, faults' \in Nat,
         metaLock \in {None, t} \/ (body' \in {body, None} /\ (poisonMem => poisonMem')),
         Runs(t)', Got(t)', Failed(t)', \A u \in Tasks : FillFresh(u)',
         BodiesRecent', staleReads' = {}
  PROVE  FreshInv'
<1> SUFFICES ASSUME NEW u \in Tasks \ {t} PROVE Runs(u)' /\ Got(u)' /\ Failed(u)'
  BY DEF FreshInv
<1>1. /\ pc'[u] = pc[u] /\ loc'[u] = loc[u]
      /\ stage'[u] = stage[u] /\ mark'[u] = mark[u] /\ res'[u] = res[u]
  BY DEF Alone, Only
<1>2. Runs(u) /\ Got(u) /\ Failed(u) /\ faults \in Nat
  BY DEF FreshInv, FenceInv, TasksOK
<1>3. pc[u] \in {"publishMeta", "published", "removeMeta", "unmark", "marker"} => metaLock = u
  BY DEF FenceInv, Holds, Replacing, Removing
<1>4. Runs(u)'
  BY <1>1, <1>2, <1>3, ValueAssumption DEF Runs
<1>5. Got(u)' /\ Failed(u)'
  BY <1>1, <1>2 DEF Got, Failed, HitBy
<1> QED
  BY <1>4, <1>5

(* Bodies stay recent or hidden if none is added and no write is done.       *)
LEMMA BodiesStay ==
  ASSUME FreshInv, NEW t \in Tasks, Alone(t), acked' = acked, Hidden => Hidden',
         Cleared(t)' => Cleared(t) /\ mark'[t] = mark[t],
         body' \in {body, None} \/ (pc[t] \in Moving /\ body' = loc[t].old.body),
         pc'[t] \in Moving =>
           \/ loc'[t].old.body \in {None, body}
           \/ pc[t] \in Moving /\ loc'[t].old.body = loc[t].old.body
  PROVE  BodiesRecent'
<1>1. \A w \in Tasks : Cleared(w)' => Cleared(w) /\ mark'[w] = mark[w]
  BY DEF Alone, Only, Cleared
<1>2. \A b : Recent(b) => b >= acked' /\ \A w \in Tasks : Cleared(w)' => b >= mark'[w]
  BY <1>1 DEF Recent
<1>3. /\ body # None => Hidden \/ Recent(body)
      /\ \A u \in Tasks : pc[u] \in Moving /\ loc[u].old.body # None
           => Hidden \/ Recent(loc[u].old.body)
  BY DEF FreshInv, BodiesRecent
<1>4. body' # None => Hidden' \/ Recent(body)'
  <2>1. body' # None => Hidden \/ Recent(body')
    BY <1>3
  <2> QED
    BY <1>2, <2>1 DEF Recent
<1>5. ASSUME NEW u \in Tasks, pc'[u] \in Moving, loc'[u].old.body # None
      PROVE  Hidden' \/ Recent(loc[u].old.body)'
  <2>1. Hidden \/ Recent(loc'[u].old.body)
    BY <1>3, <1>5 DEF Alone, Only
  <2> QED
    BY <1>2, <2>1 DEF Recent
<1> QED
  BY <1>4, <1>5 DEF BodiesRecent
-----------------------------------------------------------------------------
(* The methods, each running for a handler that awaits it.                   *)

\* The request stays at its stage.
Awaits == UNCHANGED <<stage, mark, backend, acked, staleReads>>

(* A commit keeps the generation and the content it began with.              *)
LEMMA CommitStaysFresh ==
  ASSUME FenceInv, FreshInv, NEW t \in Tasks, Alone(t), GensKept, acked' = acked,
         stage'[t] = stage[t], faults' >= faults,
         pc[t] \in Filling, pc'[t] \in Filling,
         loc'[t].guard = loc[t].guard, loc'[t].ver = loc[t].ver,
         pc'[t] \in {"publishMeta", "published"} => body' \in {None, loc[t].ver}
  PROVE  Runs(t)' /\ Got(t)' /\ Failed(t)' /\ \A u \in Tasks : FillFresh(u)'
<1>1. stage[t] = "complete"
  BY DEF FreshInv, Runs
<1>2. Runs(t)' /\ Got(t)' /\ Failed(t)'
  BY <1>1 DEF Runs, Got, Failed, Probing, Filling, Replacing, Invalidating, Removing
<1>3. /\ cur \in EntryIds /\ cur # None /\ cur' = cur
      /\ entry'[cur].gen = entry[cur].gen /\ entry[cur].gen \in Nat
  BY DEF FenceInv, Shape, RegistrationHolds, Guarding, TypeOK, GensKept
<1>4. \A u \in Tasks \ {t} : FillFresh(u)'
  BY <1>1, <1>3, FillsStayFresh DEF Clearing
<1>5. FillFresh(t)'
  <2>1. CurrentGen' = CurrentGen
    BY <1>3 DEF CurrentGen
  <2>2. FillFresh(t)
    BY DEF FreshInv
  <2>3. \A w \in Tasks : Ordered(loc[t].ver, w) => Ordered(loc[t].ver, w)'
    BY <1>1, <1>3 DEF Ordered, Alone, Only, Clearing
  <2> QED
    BY <1>3, <2>1, <2>2, <2>3 DEF FillFresh
<1> QED
  BY <1>2, <1>4, <1>5

(* What a commit publishes is recent.                                        *)
LEMMA PublishesRecent ==
  ASSUME FenceInv, FreshInv, NEW t \in Tasks, pc[t] \in Replacing
  PROVE  Recent(loc[t].ver)
<1>1. cur # None /\ loc[t].guard = entry[cur].gen
  BY DEF FenceInv, PublishFenced, Fenced
<1>2. loc[t].ver >= acked /\ \A w \in Tasks : Ordered(loc[t].ver, w)
  BY <1>1 DEF FreshInv, FillFresh, CurrentGen, Filling
<1> QED
  BY <1>2 DEF Recent, Ordered, Cleared, Clearing

(* commit_fill up to its last generation check.                              *)
LEMMA CommitEntersFresh ==
  ASSUME FenceInv, FenceInv', FreshInv, NEW t \in Tasks, Awaits,
         CommitEarlyCheck(t) \/ CommitPrepare(t) \/ CommitLock(t) \/ CommitMetaLock(t)
  PROVE  FreshInv'
<1> USE DEF Awaits
<1>1. Quiet(t) /\ GensKept
  BY QuietSteps, KeepsGens DEF FreshInv
<1>2. /\ pc[t] \in Filling /\ pc'[t] \in Filling \ {"publishMeta", "published"}
      /\ loc'[t].guard = loc[t].guard /\ loc'[t].ver = loc[t].ver
      /\ res' = res /\ UNCHANGED <<poisonFile, poisonMem>>
  BY DEF CommitEarlyCheck, CommitPrepare, CommitLock, CommitMetaLock, GiveUp, GiveUpLocked, Goto,
         FenceInv, TasksOK, Locals, Filling, Replacing, diskVars
<1>3. Alone(t)
  BY <1>1, <1>2 DEF Alone, Quiet
<1>4. faults' \in Nat /\ faults' >= faults
  BY <1>1 DEF Quiet, FenceInv, TasksOK
<1>5. Runs(t)' /\ Got(t)' /\ Failed(t)' /\ \A u \in Tasks : FillFresh(u)'
  BY <1>1, <1>2, <1>3, <1>4, CommitStaysFresh
<1>6. BodiesRecent'
  <2>1. Hidden' = Hidden /\ ~Cleared(t)' /\ pc'[t] \notin Moving /\ body' = body
    BY <1>1, <1>2 DEF Hidden, Cleared, Quiet, Busy, Filling, Replacing
  <2> QED
    BY <1>3, <2>1, BodiesStay
<1>7. VersionsOK' /\ detached' = detached /\ body' = body /\ poisonMem' = poisonMem
  BY <1>1, <1>2 DEF FreshInv, VersionsOK, Quiet
<1> QED
  BY <1>3, <1>4, <1>5, <1>6, <1>7, FreshStep DEF FreshInv

(* commit_fill with its locks held.  A body it moved aside was recent or     *)
(* hidden, and so it is when it is put back.                                 *)
LEMMA CommitReplacesFresh ==
  ASSUME FenceInv, FenceInv', FreshInv, NEW t \in Tasks, Awaits,
         \/ CommitStage(t) \/ CommitBackupBody(t) \/ CommitBackupMeta(t)
         \/ CommitPublishBody(t) \/ CommitPublishMeta(t)
         \/ CommitUndoBody(t) \/ CommitUndoMeta(t) \/ CommitClear(t)
  PROVE  FreshInv'
<1>1. /\ Only(t) /\ metaLock = t /\ detached' = detached
      /\ faults' \in {faults, faults + 1}
      /\ loc'[t].ver = loc[t].ver
  BY StageDoes, MovesDo
<1>2. loc'[t].guard = loc[t].guard /\ res' = res
  BY DEF CommitStage, CommitBackupBody, CommitBackupMeta, CommitPublishBody, CommitPublishMeta,
         CommitUndoBody, CommitUndoMeta, CommitClear, FenceInv, TasksOK, Locals
<1>3. Alone(t)
  BY <1>1, <1>2 DEF Alone, Awaits
<1>4. faults' \in Nat /\ faults' >= faults
  BY <1>1 DEF FenceInv, TasksOK
<1>5. GensKept
  BY KeepsGens DEF FreshInv
<1>6. pc[t] \in Replacing /\ Runs(t)
  BY DEF CommitStage, CommitBackupBody, CommitBackupMeta, CommitPublishBody, CommitPublishMeta,
         CommitUndoBody, CommitUndoMeta, CommitClear, Replacing, FreshInv
<1>7. ASSUME pc'[t] \in Filling, BodiesRecent',
             pc'[t] \in {"publishMeta", "published"} => body' \in {None, loc[t].ver}
      PROVE  FreshInv'
  <2>1. Runs(t)' /\ Got(t)' /\ Failed(t)' /\ \A u \in Tasks : FillFresh(u)'
    BY <1>1, <1>2, <1>3, <1>4, <1>5, <1>6, <1>7, CommitStaysFresh DEF Awaits, Filling
  <2>2. VersionsOK' /\ staleReads' = {}
    BY DEF FreshInv, VersionsOK, Awaits
  <2> QED
    BY <1>1, <1>3, <1>4, <1>7, <2>1, <2>2, FreshStep DEF FreshInv
<1>8. pc[t] # "idle" /\ pc[t] \in Filling
  BY <1>6 DEF Replacing, Filling
<1>9. ASSUME pc'[t] \in Filling, UNCHANGED <<poisonFile, poisonMem>>,
             pc'[t] \in {"publishMeta", "published"} => body' \in {None, loc[t].ver},
             body' \in {body, None} \/ (pc[t] \in Moving /\ body' = loc[t].old.body),
             pc'[t] \in Moving =>
               \/ loc'[t].old.body \in {None, body}
               \/ pc[t] \in Moving /\ loc'[t].old.body = loc[t].old.body
      PROVE  FreshInv'
  <2>1. Hidden' = Hidden /\ ~Cleared(t)'
    BY <1>9 DEF Hidden, Cleared, Filling, Replacing
  <2>2. BodiesRecent'
    BY <1>3, <1>9, <2>1, BodiesStay DEF Awaits
  <2> QED
    BY <1>7, <1>9, <2>2
<1>10. loc[t] \in Locals /\ loc[t].old \in Files /\ pc \in [Tasks -> Labels]
  BY DEF FenceInv, TasksOK, Locals
<1>11. CASE CommitStage(t)
  <2>1. /\ pc[t] = "stage" /\ body' = body
        /\ pc'[t] = "finish" \/ (pc'[t] = "backupBody" /\ loc'[t].old = Nothing)
        /\ UNCHANGED <<poisonFile, poisonMem>>
    BY <1>11, StageDoes DEF CommitStage, diskVars
  <2> QED
    BY <1>9, <2>1 DEF Filling, Replacing, Moving, Nothing
<1>12. CASE CommitBackupBody(t)
  <2>1. /\ pc[t] = "backupBody" /\ loc'[t].old.body \in {loc[t].old.body, body}
        /\ body' \in {body, None} /\ pc'[t] \in {"finish", "backupMeta"}
        /\ UNCHANGED <<poisonFile, poisonMem>>
    BY <1>10, <1>12 DEF CommitBackupBody, GiveUpLocked, Goto, FenceInv, TasksOK, Locals, Files
  <2> QED
    BY <1>9, <2>1 DEF Filling, Replacing, Moving
<1>13. CASE CommitBackupMeta(t)
  <2>1. /\ pc[t] = "backupMeta" /\ loc'[t].old.body = loc[t].old.body
        /\ body' = body /\ pc'[t] \in {"undoMeta", "undoBody", "publishBody"}
        /\ UNCHANGED <<poisonFile, poisonMem>>
    BY <1>10, <1>13 DEF CommitBackupMeta, UndoUnpublished, Goto, FenceInv, TasksOK, Locals, Files
  <2> QED
    BY <1>9, <2>1 DEF Filling, Replacing, Moving
<1>14. CASE CommitPublishBody(t)
  <2>1. /\ pc[t] = "publishBody" /\ loc' = loc /\ UNCHANGED <<poisonFile, poisonMem>>
        /\ \/ body' = body /\ pc'[t] \in {"undoMeta", "undoBody"}
           \/ body' = loc[t].ver /\ pc'[t] = "publishMeta"
    BY <1>10, <1>14 DEF CommitPublishBody, UndoUnpublished, Goto
  <2>2. CASE body' = body /\ pc'[t] \in {"undoMeta", "undoBody"}
    BY <1>9, <2>1, <2>2 DEF Filling, Replacing, Moving
  <2>3. CASE body' = loc[t].ver /\ pc'[t] = "publishMeta"
    <3>1. Recent(loc[t].ver)
      BY <1>6, PublishesRecent
    <3>2. \A w \in Tasks : Cleared(w)' => Cleared(w)
      BY <1>3, <2>3 DEF Cleared, Alone, Only, Awaits
    <3>3. \A b : Recent(b) => b >= acked' /\ \A w \in Tasks : Cleared(w)' => b >= mark'[w]
      BY <3>2 DEF Recent, Awaits
    <3>4. Recent(body)' /\ Hidden' = Hidden
      BY <2>1, <2>3, <3>1, <3>3 DEF Recent, Hidden
    <3>5. ASSUME NEW u \in Tasks, pc'[u] \in Moving, loc'[u].old.body # None
          PROVE  Hidden' \/ Recent(loc[u].old.body)'
      <4>1. pc[u] \in Moving /\ loc'[u] = loc[u]
        BY <1>3, <2>1, <3>5 DEF Alone, Only, Moving
      <4>2. Hidden \/ Recent(loc[u].old.body)
        BY <3>5, <4>1 DEF FreshInv, BodiesRecent
      <4> QED
        BY <3>3, <3>4, <4>1, <4>2 DEF Recent
    <3>6. BodiesRecent'
      BY <3>4, <3>5 DEF BodiesRecent
    <3> QED
      BY <1>7, <2>3, <3>6 DEF Filling, Replacing
  <2> QED
    BY <2>1, <2>2, <2>3
<1>15. CASE CommitPublishMeta(t)
  <2>1. /\ pc[t] = "publishMeta" /\ loc' = loc /\ UNCHANGED <<body, poisonFile, poisonMem>>
        /\ pc'[t] \in {"undoBody", "published"}
    BY <1>10, <1>15 DEF CommitPublishMeta, Goto
  <2> QED
    BY <1>6, <1>9, <2>1 DEF Filling, Replacing, Moving, Runs
<1>16. CASE CommitUndoBody(t)
  <2>1. /\ pc[t] = "undoBody" /\ loc' = loc /\ UNCHANGED <<poisonFile, poisonMem>>
        /\ body' \in {body, loc[t].old.body} /\ pc'[t] = "undoMeta"
    BY <1>10, <1>16 DEF CommitUndoBody, Goto
  <2> QED
    BY <1>9, <2>1 DEF Filling, Replacing, Moving
<1>17. CASE CommitUndoMeta(t)
  <2>1. /\ pc[t] = "undoMeta" /\ loc' = loc /\ UNCHANGED <<body, poisonFile, poisonMem>>
        /\ pc'[t] = "finish"
    BY <1>10, <1>17 DEF CommitUndoMeta, GiveUpLocked, Goto
  <2> QED
    BY <1>9, <2>1 DEF Filling, Replacing, Moving
\* The poison is cleared when what it hid has been replaced.
<1>18. CASE CommitClear(t)
  <2>1. pc[t] = "published" /\ loc' = loc /\ body' = body /\ pc'[t] = "finish"
    BY <1>10, <1>18 DEF CommitClear, GiveUpLocked, Goto
  <2>2. body \in {None, loc[t].ver} /\ Recent(loc[t].ver)
    BY <1>6, <2>1, PublishesRecent DEF Runs
  <2>3. \A w \in Tasks : Cleared(w)' => Cleared(w)
    BY <1>3, <2>1 DEF Cleared, Alone, Only, Awaits
  <2>4. body' # None => Recent(body)'
    BY <2>1, <2>2, <2>3 DEF Recent, Awaits
  <2>5. \A u \in Tasks : pc'[u] \notin Moving
    BY <1>1, <2>1, OneHolder DEF Only, Busy, Moving
  <2>6. BodiesRecent'
    BY <2>4, <2>5 DEF BodiesRecent
  <2> QED
    BY <1>7, <2>1, <2>6 DEF Filling
<1> QED
  BY <1>11, <1>12, <1>13, <1>14, <1>15, <1>16, <1>17, <1>18

(* finish_fill: the slot of active_fills is kept for the other fills.        *)
LEMMA FinishStaysFresh ==
  ASSUME FenceInv, FenceInv', FreshInv, NEW t \in Tasks, FinishFill(t), loc[t].guard # None,
         pc[t] \in {"idle", "finish"}, Only(t), acked' = acked,
         \A u \in Tasks \ {t} : stage'[u] = stage[u] /\ mark'[u] = mark[u] /\ res'[u] = res[u],
         stage'[t] \notin Clearing
  PROVE  \A u \in Tasks : FillFresh(u)'
<1>1. loc'[t] = NoLocals /\ pc'[t] = "idle"
  BY DEF FinishFill, Return, Goto, FenceInv, TasksOK
<1>2. FillFresh(t)'
  BY <1>1 DEF FillFresh, NoLocals, Filling, Replacing
<1>3. cur \in EntryIds /\ cur # None /\ entry \in Entries
  BY DEF FenceInv, RegistrationHolds, Guarding, TypeOK, Entries
<1>4. /\ cur' \in {None, cur}
      /\ entry'[cur].gen = entry[cur].gen /\ entry[cur].gen \in Nat
  BY <1>3 DEF FinishFill, Entries
<1>5. Guarding \ {t} # {} => cur' = cur
  <2>1. Guarding \ {t} \subseteq Guarding'
    BY DEF Guarding, Only
  <2> QED
    BY <1>4, <2>1 DEF FenceInv, RegistrationHolds
<1>6. \A u \in Tasks \ {t} : FillFresh(u)'
  BY <1>4, <1>5, FillsStayFresh DEF Alone
<1> QED
  BY <1>2, <1>6

(* The end of commit_fill.                                                   *)
LEMMA CommitFinishFresh ==
  ASSUME FenceInv, FenceInv', FreshInv, NEW t \in Tasks, Awaits, CommitFinish(t)
  PROVE  FreshInv'
<1>1. pc[t] = "finish" /\ loc[t].guard # None /\ FinishFill(t) /\ stage[t] = "complete"
  BY DEF CommitFinish, FenceInv, Shape, FreshInv, Runs, Filling
<1>2. Quiet(t)
  BY <1>1, QuietSteps
<1>3. pc'[t] = "idle" /\ UNCHANGED <<body, poisonFile, poisonMem, faults, detached>>
  BY <1>1 DEF FinishFill, Return, Goto, FenceInv, TasksOK, diskVars, lateVars
<1>4. Alone(t)
  BY <1>2 DEF Alone, Quiet, NoNewHit, Awaits
<1>5. \A u \in Tasks : FillFresh(u)'
  BY <1>1, <1>4, FinishStaysFresh DEF Alone, Awaits, Clearing
<1>6. Runs(t)' /\ Got(t)' /\ Failed(t)'
  BY <1>1, <1>3 DEF Runs, Got, Failed, Awaits, Filling, Replacing, Invalidating, Removing,
                    Probing
<1>7. BodiesRecent'
  <2>1. Hidden' = Hidden /\ ~Cleared(t)' /\ pc'[t] \notin Moving
    BY <1>1, <1>3 DEF Hidden, Cleared, Awaits, Moving
  <2> QED
    BY <1>3, <1>4, <2>1, BodiesStay DEF Awaits
<1>8. VersionsOK' /\ staleReads' = {} /\ faults \in Nat
  BY DEF FreshInv, VersionsOK, Awaits, FenceInv, TasksOK
<1> QED
  BY <1>3, <1>4, <1>5, <1>6, <1>7, <1>8, FreshStep DEF FreshInv

(* The commit lock: the fills that were under way are fenced off.            *)
LEMMA InvalidateLockFresh ==
  ASSUME FenceInv, FenceInv', FreshInv, NEW t \in Tasks, Awaits, InvalidateLock(t)
  PROVE  FreshInv'
<1>1. Quiet(t)
  BY QuietSteps
<1>2. /\ pc[t] = "invalLock" /\ pc'[t] = "invalMeta" /\ loc' = loc /\ res' = res
      /\ UNCHANGED <<cur, body, poisonFile, poisonMem, faults, detached>>
  BY DEF InvalidateLock, Goto, FenceInv, TasksOK, diskVars, lateVars
<1>3. /\ stage[t] \in Clearing /\ loc[t].exp = None /\ loc[t].guard = None
      /\ loc[t].arc \in EntryIds /\ loc[t].arc # None /\ entry \in Entries
  BY <1>2 DEF FreshInv, Runs, FenceInv, Shape, Invalidating, TypeOK, Entries, TasksOK, Locals
<1>4. /\ entry'[loc[t].arc].gen = entry[loc[t].arc].gen + 1
      /\ \A e \in EntryIds \ {loc[t].arc} : entry'[e] = entry[e]
  BY <1>3 DEF InvalidateLock, Bumped, Entries
<1>5. \A e \in EntryIds :
        entry[e].gen \in Nat /\ entry'[e].gen \in Nat /\ entry'[e].gen >= entry[e].gen
  BY <1>3, <1>4 DEF Entries
<1>6. Alone(t)
  BY <1>1, <1>2 DEF Alone, Quiet, Awaits
<1>7. \A u \in Tasks \ {t} : FillFresh(u)'
  <2>1. Guarding # {} => cur \in EntryIds
    BY DEF FenceInv, RegistrationHolds, TypeOK
  <2>2. Guarding \ {t} = {} \/ entry'[cur].gen # entry[cur].gen \/ loc[t].arc # cur
    BY <1>3, <1>4 DEF Entries
  <2> QED
    BY <1>2, <1>3, <1>5, <1>6, <2>1, <2>2, FillsStayFresh DEF Awaits
<1>8. FillFresh(t)'
  BY <1>2, <1>3 DEF FillFresh, Filling, Replacing
<1>9. Runs(t)' /\ Got(t)' /\ Failed(t)'
  BY <1>2, <1>3 DEF FreshInv, Runs, Got, Failed, Awaits, Filling, Replacing, Invalidating,
                    Removing, HitBy
<1>10. BodiesRecent'
  <2>1. Hidden' = Hidden /\ ~Cleared(t)' /\ pc'[t] \notin Moving
    BY <1>2 DEF Hidden, Cleared, Moving
  <2> QED
    BY <1>2, <1>6, <2>1, BodiesStay DEF Awaits
<1>11. VersionsOK' /\ staleReads' = {} /\ faults \in Nat
  BY DEF FreshInv, VersionsOK, Awaits, FenceInv, TasksOK
<1> QED
  BY <1>2, <1>6, <1>7, <1>8, <1>9, <1>10, <1>11, FreshStep DEF FreshInv

(* A step of an invalidation under the metadata lock, of a lookup, or of     *)
(* whoever takes the lock.                                                   *)
LEMMA LockedStepFresh ==
  ASSUME FenceInv, FenceInv', FreshInv, NEW t \in Tasks, Awaits, Only(t), GensKept,
         \A u \in Tasks \ {t} : res'[u] = res[u],
         pc[t] \in {"invalMeta", "lookup"} \cup Removing,
         pc'[t] \in {"idle"} \cup Removing, loc'[t] \in {loc[t], NoLocals},
         metaLock \in {None, t}, detached' = detached,
         faults' \in {faults, faults + 1, faults + 2},
         Runs(t)', Got(t)', Failed(t)',
         body' \in {body, None},
         \/ (Hidden => Hidden') /\ ~Cleared(t)'
         \/ Hidden'
         \/ body' = None
  PROVE  FreshInv'
<1>1. Alone(t)
  BY DEF Alone, Awaits
<1>2. Guarding # {} => cur \in EntryIds /\ cur' = cur /\ entry[cur].gen \in Nat
                       /\ entry'[cur].gen = entry[cur].gen
  BY DEF FenceInv, RegistrationHolds, TypeOK, GensKept
<1>3. \A u \in Tasks \ {t} : FillFresh(u)'
  <2>1. pc[t] # "invalLock"
    BY DEF Removing
  <2> QED
    BY <1>1, <1>2, <2>1, FillsStayFresh DEF Awaits
<1>4. FillFresh(t)'
  <2>1. pc'[t] \notin Filling
    BY DEF Filling, Replacing, Removing
  <2>2. loc[t].guard # None => t \in Guarding
    BY DEF Guarding
  <2> QED
    BY <1>2, <2>1, <2>2 DEF FillFresh, FreshInv, NoLocals
<1>5. BodiesRecent'
  <2>1. pc'[t] \notin Moving
    BY DEF Moving, Removing
  <2>2. CASE (Hidden => Hidden') /\ ~Cleared(t)'
    BY <1>1, <2>1, <2>2, BodiesStay DEF Awaits
  <2>3. CASE Hidden'
    BY <2>3 DEF BodiesRecent
  <2>4. CASE body' = None
    <3>1. \A u \in Tasks : pc'[u] \notin Moving
      BY <2>1, OneHolder DEF Only, Busy
    <3> QED
      BY <2>4, <3>1 DEF BodiesRecent
  <2> QED
    BY <2>2, <2>3, <2>4
<1>6. VersionsOK' /\ staleReads' = {} /\ faults' \in Nat /\ faults' >= faults
  BY DEF FreshInv, VersionsOK, Awaits, FenceInv, TasksOK
<1>7. \A op \in detached' : op.to = None
  BY DEF FreshInv
<1>8. \A u \in Tasks : FillFresh(u)'
  BY <1>3, <1>4
<1> QED
  BY <1>1, <1>5, <1>6, <1>7, <1>8, FreshStep

(* An invalidation under the metadata lock.  A write that is about to be     *)
(* acknowledged has removed the body, or hidden it.                          *)
LEMMA InvalidateFresh ==
  ASSUME PoisonSurvives, Bounded, FenceInv, FenceInv', FreshInv, NEW t \in Tasks, Awaits,
         \/ InvalidateMetaLock(t) \/ PurgeCheck(t) \/ PurgeRemoveBody(t) \/ PurgeRemoveMeta(t)
         \/ PurgeUnmark(t) \/ PoisonMark(t) \/ PoisonWriteMarker(t)
  PROVE  FreshInv'
<1>1. GensKept
  BY KeepsGens DEF FreshInv
<1>2. Only(t) /\ metaLock \in {None, t}
  BY TaskAlone DEF Steps, MethodStep, InvalidateStep, InvalidateMetaLock, FenceInv, Holds, Removing,
     PurgeCheck, PurgeRemoveBody, PurgeRemoveMeta, PurgeUnmark, PoisonMark, PoisonWriteMarker
<1>3. pc[t] \in {"invalMeta"} \cup Removing
  BY DEF InvalidateMetaLock, Removing, PurgeCheck, PurgeRemoveBody, PurgeRemoveMeta, PurgeUnmark,
         PoisonMark, PoisonWriteMarker
<1>4. /\ stage[t] \in Clearing /\ loc[t].exp = None /\ Runs(t) /\ Failed(t)
      /\ loc[t].kind = IF stage[t] = "poison" THEN "poison" ELSE "purge"
      /\ pc[t] # "invalMeta" => (pc[t] \in {"poison", "marker"} <=> stage[t] = "poison")
  BY <1>3 DEF FreshInv, Runs, Invalidating, Removing
<1>5. faults \in Nat /\ pc \in [Tasks -> Labels] /\ res \in [Tasks -> Results]
      /\ loc \in [Tasks -> Locals] /\ poisonFile \in BOOLEAN
  BY DEF FenceInv, TasksOK, TypeOK
<1>6. detached' = detached
  BY DEF InvalidateMetaLock, PurgeCheck, PurgeRemoveBody, PurgeRemoveMeta, PurgeUnmark, PoisonMark,
         PoisonWriteMarker, lateVars
\* The method goes on.
<1>7. ASSUME NEW l \in Removing, Goto(t, l), UNCHANGED <<loc, res, faults, poisonFile>>,
             (l \in {"poison", "marker"}) <=> stage[t] = "poison",
             body' \in {body, None}, l \in {"removeMeta", "unmark"} => body' = None,
             poisonMem' \in {poisonMem, TRUE}, l = "marker" => poisonMem'
      PROVE  FreshInv'
  <2>1. pc'[t] = l
    BY <1>5, <1>7 DEF Goto
  <2>2. Runs(t)'
    BY <1>4, <1>7, <2>1 DEF Runs, Awaits, Removing, Filling, Replacing, Invalidating
  <2>3. Got(t)' /\ Failed(t)'
    BY <1>4, <1>7, <2>1 DEF Got, Failed, Awaits, Clearing, Probing
  <2>4. (Hidden => Hidden') /\ ~Cleared(t)'
    <3>1. poisonMem => poisonMem'
      BY <1>7
    <3>2. Hidden => Hidden'
      BY <1>7, <3>1 DEF Hidden
    <3>3. ~Cleared(t)'
      BY <2>1 DEF Cleared, Removing
    <3> QED
      BY <3>2, <3>3
  <2> QED
    BY <1>1, <1>2, <1>3, <1>6, <1>7, <2>1, <2>2, <2>3, <2>4, LockedStepFresh
\* It returns.
<1>8. ASSUME NEW s \in {"true", "false", "err"}, Return(t, Outcome(s)),
             faults' \in {faults, faults + 1}, s = "err" => faults' = faults + 1,
             body' \in {body, None},
             \/ body' = None
             \/ (Hidden => Hidden') /\ s = "err" /\ stage[t] # "poison"
             \/ Hidden'
      PROVE  FreshInv'
  <2>1. /\ pc'[t] = "idle" /\ loc'[t] = NoLocals /\ res'[t].is = s
        /\ \A u \in Tasks \ {t} : res'[u] = res[u]
    BY <1>5, <1>8 DEF Return, Goto, Outcome
  <2>2. Runs(t)'
    BY <2>1 DEF Runs, Filling, Replacing, Invalidating, Removing
  <2>3. Got(t)'
    BY <1>4 DEF Got, Awaits, Clearing, Probing
  <2>4. Failed(t)'
    <3>1. faults' \in Nat /\ faults' >= faults /\ (s = "err" => faults' >= faults + 1)
      BY <1>5, <1>8
    <3>2. stage'[t] = stage[t]
      BY DEF Awaits
    <3>3. stage[t] = "purge2" => faults >= 1
      BY <1>4 DEF Failed
    <3>4. stage[t] = "poison" => faults >= 2
      BY <1>4 DEF Failed
    <3>5. stage[t] = "purge2" \/ (stage[t] = "purge1" /\ s = "err") => faults' >= 1
      BY <1>5, <3>1, <3>3
    <3>6. stage[t] = "poison" \/ (stage[t] = "purge2" /\ s = "err") => faults' >= 2
      BY <1>5, <3>1, <3>3, <3>4
    <3> QED
      BY <2>1, <3>2, <3>5, <3>6 DEF Failed
  <2>5. \/ body' = None \/ Hidden'
        \/ (Hidden => Hidden') /\ ~Cleared(t)'
    BY <1>8, <2>1 DEF Cleared, Awaits
  <2> QED
    BY <1>1, <1>2, <1>3, <1>6, <1>8, <2>1, <2>2, <2>3, <2>4, <2>5, LockedStepFresh
\* The body is gone, and the marker is next.
<1>15. ASSUME NEW s \in {"true", "false"}, Unmarks(t, Outcome(s)), faults' = faults,
              body' = None, stage[t] # "poison"
       PROVE  FreshInv'
  <2>1. /\ pc'[t] = "unmark" /\ loc'[t] = loc[t] /\ res'[t].is = s
        /\ \A u \in Tasks \ {t} : res'[u] = res[u]
    BY <1>5, <1>15 DEF Unmarks, Goto, Outcome
  <2>2. Runs(t)'
    BY <1>4, <1>15, <2>1 DEF Runs, Awaits, Removing, Filling, Replacing, Invalidating
  <2>3. Got(t)' /\ Failed(t)'
    BY <1>4, <1>15, <2>1 DEF Got, Failed, Awaits, Clearing, Probing
  <2> QED
    BY <1>1, <1>2, <1>3, <1>6, <1>15, <2>1, <2>2, <2>3, LockedStepFresh DEF Removing
<1>9. CASE InvalidateMetaLock(t)
  BY <1>4, <1>7, <1>9 DEF InvalidateMetaLock, Removing, diskVars
<1>10. CASE PurgeCheck(t)
  <2>1. stage[t] # "poison" /\ pc[t] = "purge"
    BY <1>4, <1>10 DEF PurgeCheck
  <2>2. CASE Fails /\ Return(t, Outcome("err")) /\ UNCHANGED <<body, poisonMem, poisonFile>>
    BY <1>8, <2>1, <2>2 DEF Fails, Hidden
  <2>3. CASE body' = None /\ Works /\ Unmarks(t, Outcome("false"))
    BY <1>15, <2>1, <2>3 DEF Works
  <2>4. CASE /\ Works /\ Goto(t, "removeBody")
             /\ UNCHANGED <<body, poisonMem, poisonFile, loc, res>>
    BY <1>7, <2>1, <2>4 DEF Works, Removing
  <2> QED
    BY <1>4, <1>10, <2>2, <2>3, <2>4 DEF PurgeCheck
<1>11. CASE PurgeRemoveBody(t)
  <2>1. stage[t] # "poison" /\ pc[t] = "removeBody"
    BY <1>4, <1>11 DEF PurgeRemoveBody
  <2>2. CASE Fails /\ ReturnUnlocked(t, Outcome("err")) /\ UNCHANGED <<body, poisonMem, poisonFile>>
    BY <1>8, <2>1, <2>2 DEF Fails, Hidden, ReturnUnlocked
  <2>3. CASE /\ Works /\ body' = None /\ Goto(t, "removeMeta")
             /\ UNCHANGED <<poisonMem, poisonFile, loc, res>>
    BY <1>7, <2>1, <2>3 DEF Works, Removing
  <2> QED
    BY <1>11, <2>2, <2>3 DEF PurgeRemoveBody
<1>12. CASE PurgeRemoveMeta(t)
  <2>1. stage[t] # "poison" /\ pc[t] = "removeMeta" /\ body = None /\ body' = body
    BY <1>4, <1>12 DEF PurgeRemoveMeta, Runs
  <2>2. CASE Fails /\ ReturnUnlocked(t, Outcome("err"))
    BY <1>8, <2>1, <2>2 DEF Fails, ReturnUnlocked
  <2>3. CASE Works /\ Unmarks(t, Outcome("true"))
    BY <1>15, <2>1, <2>3 DEF Works
  <2> QED
    BY <1>12, <2>2, <2>3 DEF PurgeRemoveMeta
<1>16. CASE PurgeUnmark(t)
  <2>1. /\ pc[t] = "unmark" /\ body' = None /\ Return(t, res[t])
        /\ faults' \in {faults, faults + 1} /\ faults' \in Nat /\ faults' >= faults
    BY <1>4, <1>5, <1>16 DEF PurgeUnmark, ReturnUnlocked, Runs, Works, Fails
  <2>2. /\ pc'[t] = "idle" /\ loc'[t] = NoLocals /\ res' = res
    BY <1>5, <2>1 DEF Return, Goto
  <2>3. Runs(t)' /\ Got(t)'
    BY <1>4, <2>2 DEF Runs, Got, Awaits, Clearing, Probing, Filling, Replacing, Invalidating,
                      Removing
  <2>4. Failed(t)'
    BY <1>4, <1>5, <2>1, <2>2 DEF Failed, Awaits
  <2> QED
    BY <1>1, <1>2, <1>3, <1>6, <2>1, <2>2, <2>3, <2>4, LockedStepFresh
<1>13. CASE PoisonMark(t)
  <2>1. stage[t] = "poison" /\ pc[t] = "poison"
    BY <1>4, <1>13 DEF PoisonMark
  <2>2. /\ Works /\ poisonMem' = TRUE /\ Goto(t, "marker")
        /\ UNCHANGED <<body, poisonFile, loc, res>>
    BY <1>4, <1>13 DEF PoisonMark, diskVars
  <2> QED
    BY <1>7, <2>1, <2>2 DEF Works, Removing
\* The marker is written, or the hash stays poisoned in memory.
<1>14. CASE PoisonWriteMarker(t)
  <2>1. stage[t] = "poison" /\ pc[t] = "marker" /\ poisonMem /\ UNCHANGED <<body, poisonMem>>
    BY <1>4, <1>14 DEF PoisonWriteMarker, Runs
  <2>2. faults >= 2
    BY <1>4, <2>1 DEF Failed
  <2>3. faults <= MaxFaults
    BY DEF Bounded
  <2>4. CASE Works /\ ReturnUnlocked(t, Outcome("true")) /\ poisonFile' = TRUE
    <3>1. MaxCrashes = 0 \/ MaxCancels = 0
      BY <1>5, <2>2, <2>3, BoundAssumption DEF PoisonSurvives
    <3>2. Hidden'
      BY <2>1, <2>4, <3>1 DEF Hidden
    <3> QED
      BY <1>8, <2>1, <2>4, <3>2 DEF Works, ReturnUnlocked
  <2>5. CASE Fails /\ ReturnUnlocked(t, Outcome("err"))
    <3>1. MaxCrashes = 0
      BY <1>5, <2>2, <2>5, BoundAssumption DEF PoisonSurvives, Fails
    <3>2. Hidden'
      BY <2>1, <3>1 DEF Hidden
    <3> QED
      BY <1>8, <2>1, <2>5, <3>2 DEF Fails, ReturnUnlocked
  <2> QED
    BY <1>14, <2>4, <2>5 DEF PoisonWriteMarker
<1> QED
  BY <1>9, <1>10, <1>11, <1>12, <1>13, <1>14, <1>16

(* A lookup returns what is recent or nothing.                               *)
LEMMA LookupFresh ==
  ASSUME FenceInv, FenceInv', FreshInv, NEW t \in Tasks, Awaits, LookupLocked(t)
  PROVE  FreshInv'
<1>1. GensKept
  BY KeepsGens DEF FreshInv
<1>2. /\ pc[t] = "lookup" /\ metaLock = None /\ body' \in {body, None}
      /\ UNCHANGED <<detached, poisonFile, poisonMem>>
      /\ faults' \in {faults, faults + 1, faults + 2}
  BY DEF LookupLocked, CleanupOrphan, Works, Fails, lateVars
<1>3. \/ \E s \in {"err", "miss"} : Return(t, Outcome(s))
      \/ ~Poisoned /\ body # None /\ Return(t, Hit)
  BY DEF LookupLocked
<1>4. stage[t] \in Probing /\ mark[t] <= acked /\ mark[t] \in Nat /\ acked \in Nat
  BY <1>2 DEF FreshInv, Runs, VersionsOK, Reading
<1>5. pc \in [Tasks -> Labels] /\ res \in [Tasks -> Results] /\ loc \in [Tasks -> Locals]
  BY DEF FenceInv, TasksOK
<1>6. pc'[t] = "idle" /\ loc'[t] = NoLocals /\ \A u \in Tasks \ {t} : res'[u] = res[u]
  BY <1>3, <1>5 DEF Return, Goto
<1>7. Only(t)
  BY <1>3, <1>5 DEF Return, Goto, Only
<1>8. Got(t)'
  <2>1. CASE \E s \in {"err", "miss"} : Return(t, Outcome(s))
    BY <1>5, <2>1 DEF Return, Got, Outcome, HitBy
  <2>2. CASE ~Poisoned /\ body # None /\ Return(t, Hit)
    <3>1. body \in Nat /\ Recent(body)
      BY <2>2, VersionAssumption, RequestAssumption
         DEF Poisoned, Hidden, FreshInv, BodiesRecent, FenceInv, TypeOK
    <3>2. body >= mark[t]
      BY <1>4, <3>1 DEF Recent
    <3>3. res'[t].ver = body
      BY <1>5, <2>2 DEF Return, Hit
    <3> QED
      BY <3>1, <3>2, <3>3 DEF Got, Awaits
  <2> QED
    BY <1>3, <2>1, <2>2
<1>9. Runs(t)' /\ Failed(t)'
  BY <1>4, <1>6 DEF Runs, Failed, Awaits, Probing, Filling, Replacing, Invalidating, Removing
<1>10. Hidden' = Hidden /\ ~Cleared(t)'
  BY <1>2, <1>4 DEF Hidden, Cleared, Awaits, Probing
<1> QED
  BY <1>1, <1>2, <1>6, <1>7, <1>8, <1>9, <1>10, LockedStepFresh
-----------------------------------------------------------------------------
(* The steps of the handlers.                                                *)

Stages == {"none"} \cup Writing \cup Reading

(* A handler moves on and no version changes.                                *)
LEMMA EntersStage ==
  ASSUME FreshInv, NEW t \in Tasks, NEW s \in Stages, Enter(t, s), ReqUnchanged,
         s \in Reading => stage[t] \in Reading
  PROVE  /\ VersionsOK' /\ stage'[t] = s /\ mark' = mark /\ acked' = acked
         /\ \A u \in Tasks \ {t} : stage'[u] = stage[u]
<1>1. stage \in [Tasks -> Stages]
  BY DEF FreshInv, VersionsOK, Stages
<1>2. /\ stage' \in [Tasks -> Stages] /\ stage'[t] = s
      /\ \A u \in Tasks \ {t} : stage'[u] = stage[u]
  BY <1>1 DEF Enter
<1> QED
  BY <1>2 DEF FreshInv, VersionsOK, Stages, ReqUnchanged

(* An answer that is not older than the request leaves no trace.             *)
LEMMA AnswerCounts ==
  ASSUME FreshInv, NEW t \in Tasks, NEW v \in Nat, v >= mark[t], Answer(t, v)
  PROVE  staleReads' = {}
<1>1. mark[t] \in Nat
  BY DEF FreshInv, VersionsOK
<1>2. ~(v < mark[t])
  BY <1>1
<1> QED
  BY <1>2 DEF Answer, FreshInv

(* No file is written and no write is acknowledged.                          *)
LEMMA RequestStep ==
  ASSUME FenceInv, FreshInv, NEW t \in Tasks, Alone(t), acked' = acked, VersionsOK',
         UNCHANGED <<body, poisonFile, poisonMem>>, staleReads' = {},
         \A op \in detached' : op.to = None,
         faults' \in {faults, faults + 1},
         stage'[t] \in Clearing => pc'[t] # "idle", pc'[t] \notin Moving,
         Runs(t)', Got(t)', Failed(t)', \A u \in Tasks : FillFresh(u)'
  PROVE  FreshInv'
<1>1. faults' \in Nat /\ faults' >= faults
  BY DEF FenceInv, TasksOK
<1>2. Hidden' = Hidden /\ ~Cleared(t)'
  BY DEF Hidden, Cleared, Clearing
<1>3. BodiesRecent'
  BY <1>2, BodiesStay
<1> QED
  BY <1>1, <1>3, FreshStep

(* The request does not use the cache.                                       *)
LEMMA HandlerFresh ==
  ASSUME FenceInv, FreshInv, NEW t \in Tasks, UNCHANGED vars, pc[t] = "idle",
         Alone(t), acked' = acked, VersionsOK', staleReads' = {},
         stage'[t] \notin Clearing \cup Probing
  PROVE  FreshInv'
<1>1. /\ UNCHANGED <<body, poisonFile, poisonMem, detached, faults, cur, entry>>
      /\ pc'[t] = "idle" /\ loc' = loc
  BY DEF vars
<1>2. Guarding # {} => cur \in EntryIds /\ entry[cur].gen \in Nat
  BY DEF FenceInv, RegistrationHolds, TypeOK
<1>3. \A u \in Tasks \ {t} : FillFresh(u)'
  BY <1>1, <1>2, FillsStayFresh
<1>4. FillFresh(t)'
  BY <1>1 DEF FreshInv, FillFresh, Filling, Replacing
<1>5. Runs(t)' /\ Got(t)' /\ Failed(t)'
  BY <1>1 DEF Runs, Got, Failed, Filling, Replacing, Invalidating, Removing, Clearing
<1>6. \A u \in Tasks : FillFresh(u)'
  BY <1>3, <1>4
<1>7. pc'[t] \notin Moving /\ \A op \in detached' : op.to = None
  BY <1>1 DEF Moving, FreshInv
<1> QED
  BY <1>1, <1>5, <1>6, <1>7, RequestStep

(* A probe: what it finds is known when it returns.                          *)
LEMMA ProbeFresh ==
  ASSUME FenceInv, FreshInv, NEW t \in Tasks, Lookup(t), acked' = acked, VersionsOK',
         \A u \in Tasks \ {t} : stage'[u] = stage[u] /\ mark'[u] = mark[u],
         stage'[t] \in Probing, staleReads' = staleReads
  PROVE  FreshInv'
<1>1. Quiet(t) /\ GensKept
  BY QuietSteps, KeepsGens DEF FreshInv
<1>2. /\ pc'[t] \in {"idle", "lookup"} /\ loc'[t].guard = None /\ res'[t].is # "hit"
      /\ UNCHANGED <<poisonFile, poisonMem>>
  BY DEF Lookup, Return, Goto, Outcome, NoLocals, FenceInv, TasksOK, diskVars
<1>3. Alone(t)
  BY <1>1 DEF Alone, Quiet, NoNewHit
<1>4. Guarding # {} => cur \in EntryIds /\ entry[cur].gen \in Nat
  BY DEF FenceInv, RegistrationHolds, TypeOK
<1>5. stage'[t] \notin Clearing
  BY DEF Probing, Clearing
<1>6. \A u \in Tasks \ {t} : FillFresh(u)'
  BY <1>1, <1>3, <1>4, <1>5, FillsStayFresh DEF GensKept
<1>7. FillFresh(t)'
  BY <1>2 DEF FillFresh, Filling, Replacing
<1>8. Runs(t)' /\ Got(t)' /\ Failed(t)'
  BY <1>2, <1>5 DEF Runs, Got, Failed, HitBy, Filling, Replacing, Invalidating, Removing, Clearing
<1>9. \A u \in Tasks : FillFresh(u)'
  BY <1>6, <1>7
<1>10. /\ pc'[t] \notin Moving /\ \A op \in detached' : op.to = None
       /\ body' = body /\ faults' \in {faults, faults + 1} /\ staleReads' = {}
  BY <1>1, <1>2 DEF Moving, FreshInv, Quiet
<1> QED
  BY <1>2, <1>3, <1>5, <1>8, <1>9, <1>10, RequestStep

(* begin_fill captures the generation of the registered FillEntry.           *)
LEMMA LeaderFetchFresh ==
  ASSUME FenceInv, FreshInv, NEW t \in Tasks, LeaderFetch(t)
  PROVE  FreshInv'
<1>1. Quiet(t) /\ BeginFill(t) /\ pc[t] = "idle" /\ stage[t] \in {"peek", "pin"}
  BY QuietSteps DEF LeaderFetch, At
<1>2. /\ VersionsOK' /\ stage'[t] = "fetch" /\ mark' = mark /\ acked' = acked
      /\ \A u \in Tasks \ {t} : stage'[u] = stage[u]
  BY <1>1, EntersStage DEF LeaderFetch, Stages, Reading, Probing
<1>3. Alone(t)
  BY <1>1, <1>2 DEF Alone, Quiet, NoNewHit
<1>4. entry \in Entries /\ loc \in [Tasks -> Locals]
  BY DEF FenceInv, TypeOK, Entries, TasksOK
<1>5. /\ Guarding \ {t} # {} => /\ cur' = cur /\ entry'[cur].gen \in Nat
                                /\ entry'[cur].gen >= entry[cur].gen
      /\ loc'[t].guard <= entry'[cur'].gen
  <2>1. CASE cur = None
    <3>1. PICK e \in EntryIds : /\ entry' = [entry EXCEPT ![e] = [FreshEntry EXCEPT !.refs = @ + 1]]
                                /\ loc' = [loc EXCEPT ![t].guard = FreshEntry.gen] /\ cur' = e
      BY <1>1, <2>1 DEF BeginFill
    <3>2. entry'[cur'].gen = 0 /\ loc'[t].guard = 0
      BY <1>4, <3>1 DEF FreshEntry, Entries, Locals
    <3>3. Guarding = {}
      BY <2>1 DEF FenceInv, RegistrationHolds
    <3> QED
      BY <3>2, <3>3
  <2>2. CASE cur # None
    <3>1. /\ entry' = [entry EXCEPT ![cur] = [entry[cur] EXCEPT !.refs = @ + 1]]
          /\ loc' = [loc EXCEPT ![t].guard = entry[cur].gen] /\ cur' = cur /\ cur \in EntryIds
      BY <1>1, <2>2 DEF BeginFill
    <3>2. entry'[cur].gen = entry[cur].gen /\ loc'[t].guard = entry[cur].gen /\ entry[cur].gen \in Nat
      BY <1>4, <3>1 DEF Entries, Locals
    <3> QED
      BY <3>1, <3>2
  <2> QED
    BY <2>1, <2>2
<1>6. pc' = pc /\ UNCHANGED <<body, poisonFile, poisonMem, faults, detached>> /\ staleReads' = {}
  BY <1>1 DEF BeginFill, diskVars, lateVars, LeaderFetch, FreshInv
<1>7. \A u \in Tasks \ {t} : FillFresh(u)'
  BY <1>2, <1>3, <1>5, FillsStayFresh DEF Clearing
<1>8. FillFresh(t)'
  BY <1>1, <1>5, <1>6 DEF FillFresh, Filling, Replacing
<1>9. Runs(t)' /\ Got(t)' /\ Failed(t)' /\ pc'[t] \notin Moving
  BY <1>1, <1>2, <1>6 DEF Runs, Got, Failed, Filling, Replacing, Invalidating, Removing, Probing, Moving
<1>10. \A u \in Tasks : FillFresh(u)'
  BY <1>7, <1>8
<1> QED
  BY <1>2, <1>3, <1>6, <1>9, <1>10, RequestStep DEF FreshInv, Clearing

(* The content that the leader fetched, after its begin_fill, is as new as   *)
(* every write so far.                                                       *)
LEMMA FetchTeeFresh ==
  ASSUME FenceInv, FreshInv, NEW t \in Tasks, FetchTee(t)
  PROVE  FreshInv'
<1>1. /\ backend \in Versions /\ backend \in Nat /\ acked \in Nat /\ backend >= acked
      /\ \A u \in Tasks : mark[u] \in Nat /\ backend >= mark[u]
  BY VersionAssumption, RequestAssumption DEF FreshInv, VersionsOK
<1>2. CommitFill(t, backend) /\ pc[t] = "idle" /\ stage[t] = "fetch" /\ staleReads' = {}
  BY <1>1, AnswerCounts DEF FetchTee, At
<1>3. Quiet(t) /\ GensKept
  BY <1>1, <1>2, QuietSteps, KeepsGens DEF FreshInv
<1>4. /\ VersionsOK' /\ stage'[t] = "complete" /\ mark' = mark /\ acked' = acked
      /\ \A u \in Tasks \ {t} : stage'[u] = stage[u]
  BY <1>2, EntersStage DEF FetchTee, Stages, Reading
<1>5. Alone(t)
  BY <1>3, <1>4 DEF Alone, Quiet, NoNewHit
<1>6. /\ pc'[t] = "early" /\ loc'[t].guard = loc[t].guard /\ loc'[t].ver = backend
      /\ loc[t].guard # None
      /\ UNCHANGED <<body, poisonFile, poisonMem, faults, detached>>
  BY <1>2 DEF CommitFill, Goto, FenceInv, TasksOK, Locals, diskVars, lateVars
<1>7. cur \in EntryIds /\ cur' = cur /\ entry'[cur].gen = entry[cur].gen /\ entry[cur].gen \in Nat
  BY <1>3, <1>6 DEF GensKept, FenceInv, RegistrationHolds, Guarding, TypeOK
<1>8. \A u \in Tasks \ {t} : FillFresh(u)'
  BY <1>4, <1>5, <1>7, FillsStayFresh DEF Clearing
<1>9. FillFresh(t)'
  <2>1. loc[t].guard <= entry[cur].gen
    BY <1>6 DEF FreshInv, FillFresh
  <2> QED
    BY <1>1, <1>4, <1>6, <1>7, <2>1 DEF FillFresh, Ordered
<1>10. Runs(t)' /\ Got(t)' /\ Failed(t)' /\ pc'[t] \notin Moving
  BY <1>4, <1>6 DEF Runs, Got, Failed, Filling, Replacing, Invalidating, Removing, Probing, Moving
<1>11. \A u \in Tasks : FillFresh(u)'
  BY <1>8, <1>9
<1> QED
  BY <1>2, <1>4, <1>5, <1>6, <1>10, <1>11, RequestStep DEF FreshInv, Clearing

(* abort_fill, and the drop of a guard whose registration leaks.             *)
LEMMA FetchEndFresh ==
  ASSUME FenceInv, FenceInv', FreshInv, NEW t \in Tasks,
         AbortFill(t) \/ DropGuard(t),
         acked' = acked, mark' = mark, VersionsOK', staleReads' = staleReads,
         \A u \in Tasks \ {t} : stage'[u] = stage[u],
         stage'[t] \notin Clearing \cup Probing
  PROVE  FreshInv'
<1>1. Quiet(t) /\ pc[t] = "idle" /\ loc[t].guard # None
  BY QuietSteps DEF AbortFill, DropGuard
<1>2. Alone(t)
  BY <1>1 DEF Alone, Quiet, NoNewHit
<1>3. /\ pc'[t] = "idle" /\ loc'[t].guard = None
      /\ UNCHANGED <<body, poisonFile, poisonMem, faults, detached>>
  BY <1>1 DEF AbortFill, DropGuard, FinishFill, Return, Goto, NoLocals, FenceInv, TasksOK,
              diskVars, lateVars
<1>4. \A u \in Tasks : FillFresh(u)'
  <2>1. CASE AbortFill(t)
    BY <1>1, <1>2, <2>1, FinishStaysFresh DEF AbortFill, Alone
  <2>2. CASE DropGuard(t)
    <3>1. GensKept
      BY <2>2, KeepsGens DEF FreshInv
    <3>2. cur \in EntryIds /\ cur' = cur /\ entry'[cur].gen = entry[cur].gen /\ entry[cur].gen \in Nat
      BY <1>1, <3>1 DEF GensKept, FenceInv, RegistrationHolds, Guarding, TypeOK
    <3>3. \A u \in Tasks \ {t} : FillFresh(u)'
      BY <1>2, <3>2, FillsStayFresh
    <3>4. FillFresh(t)'
      BY <1>3 DEF FillFresh, Filling, Replacing
    <3> QED
      BY <3>3, <3>4
  <2> QED
    BY <2>1, <2>2
<1>5. Runs(t)' /\ Got(t)' /\ Failed(t)' /\ pc'[t] \notin Moving
  BY <1>3 DEF Runs, Got, Failed, Filling, Replacing, Invalidating, Removing, Clearing, Moving
<1> QED
  BY <1>2, <1>3, <1>4, <1>5, RequestStep DEF FreshInv

(* A write fences the fills of its key, or finds none.                       *)
LEMMA WriteInvalidateFresh ==
  ASSUME FenceInv, FreshInv, NEW t \in Tasks, WriteInvalidate(t)
  PROVE  FreshInv'
<1>1. PICK s \in Clearing :
        /\ Enter(t, s)
        /\ Invalidate(t, IF s = "poison" THEN "poison" ELSE "purge", None)
        /\ pc[t] = "idle"
        /\ \/ stage[t] = "write" /\ s = "purge1"
           \/ stage[t] = "purge1" /\ s = "purge2" /\ res[t].is = "err"
           \/ stage[t] = "purge2" /\ s = "poison" /\ res[t].is = "err"
  BY DEF WriteInvalidate, At, Clearing
<1>2. Quiet(t) /\ GensKept
  BY <1>1, QuietSteps, KeepsGens DEF FreshInv
<1>3. s \in Stages /\ s \notin Reading /\ ReqUnchanged
  BY DEF Stages, Reading, Probing, Writing, Clearing, WriteInvalidate
<1>4. /\ VersionsOK' /\ stage'[t] = s /\ mark' = mark /\ acked' = acked
      /\ \A u \in Tasks \ {t} : stage'[u] = stage[u]
  BY <1>1, <1>3, EntersStage
<1>5. Alone(t)
  BY <1>2, <1>4 DEF Alone, Quiet, NoNewHit
<1>6. /\ pc'[t] = IF cur = None THEN "invalMeta" ELSE "invalLock"
      /\ loc'[t].exp = None /\ loc'[t].arc = cur /\ loc'[t].guard = None
      /\ loc'[t].kind = IF s = "poison" THEN "poison" ELSE "purge"
      /\ res'[t].is = "none"
      /\ UNCHANGED <<body, poisonFile, poisonMem, faults, detached>>
  BY <1>1 DEF Invalidate, Goto, Outcome, FenceInv, TasksOK, Locals, diskVars, lateVars
<1>7. Guarding # {} => cur # None /\ cur \in EntryIds /\ entry[cur].gen \in Nat
  BY DEF FenceInv, RegistrationHolds, TypeOK
<1>8. \A u \in Tasks \ {t} : FillFresh(u)'
  BY <1>2, <1>4, <1>5, <1>6, <1>7, FillsStayFresh DEF GensKept
<1>9. FillFresh(t)'
  BY <1>6 DEF FillFresh, Filling, Replacing
<1>10. Runs(t)'
  BY <1>4, <1>6 DEF Runs, Filling, Replacing, Invalidating, Removing
<1>11. Got(t)' /\ pc'[t] \notin Moving \cup {"idle"}
  BY <1>4, <1>6 DEF Got, Clearing, Probing, Moving
<1>12. Failed(t)'
  <2>1. Failed(t) /\ faults' = faults
    BY <1>6 DEF FreshInv
  <2> QED
    BY <1>1, <1>4, <1>6, <2>1 DEF Failed
<1>13. \A u \in Tasks : FillFresh(u)'
  BY <1>8, <1>9
<1>14. staleReads' = {} /\ \A op \in detached' : op.to = None
  BY <1>6 DEF FreshInv, WriteInvalidate
<1> QED
  BY <1>4, <1>5, <1>6, <1>10, <1>11, <1>12, <1>13, <1>14, RequestStep

(* A write that is given up half way leaves unlinks or a marker to come.     *)
LEMMA WriteDisconnectFresh ==
  ASSUME FenceInv, FreshInv, NEW t \in Tasks, WriteDisconnect(t)
  PROVE  FreshInv'
<1>1. CancelInvalidate(t) /\ GensKept
  BY KeepsGens DEF WriteDisconnect, FreshInv
<1>2. /\ VersionsOK' /\ stage'[t] = "none" /\ mark' = mark /\ acked' = acked
      /\ \A u \in Tasks \ {t} : stage'[u] = stage[u]
  BY EntersStage DEF WriteDisconnect, Stages, Reading, Probing
<1>3. /\ pc'[t] = "idle" /\ loc'[t].guard = None
      /\ UNCHANGED <<body, poisonFile, poisonMem, faults>>
      /\ \A op \in detached' : op.to = None
  BY <1>1 DEF CancelInvalidate, Detach, Pending, FileOp, Return, Goto, NoLocals, FenceInv, TasksOK,
              diskVars, FreshInv
<1>4. Alone(t)
  BY <1>1, <1>2 DEF Alone, Only, CancelInvalidate, Return, Goto, FenceInv, TasksOK
<1>5. Guarding # {} => cur \in EntryIds /\ entry[cur].gen \in Nat
  BY DEF FenceInv, RegistrationHolds, TypeOK
<1>6. \A u \in Tasks \ {t} : FillFresh(u)'
  BY <1>1, <1>2, <1>4, <1>5, FillsStayFresh DEF GensKept, Clearing
<1>7. FillFresh(t)'
  BY <1>3 DEF FillFresh, Filling, Replacing
<1>8. Runs(t)' /\ Got(t)' /\ Failed(t)' /\ pc'[t] \notin Moving
  BY <1>2, <1>3 DEF Runs, Got, Failed, Filling, Replacing, Invalidating, Removing, Probing, Moving
<1>9. \A u \in Tasks : FillFresh(u)'
  BY <1>6, <1>7
<1>10. staleReads' = {}
  BY DEF FreshInv, WriteDisconnect
<1> QED
  BY <1>2, <1>3, <1>4, <1>8, <1>9, <1>10, RequestStep DEF Clearing

(* A GET that is given up in the middle of a lookup leaves unlinks to come.  *)
LEMMA LookupDroppedFresh ==
  ASSUME FenceInv, FreshInv, NEW t \in Tasks, CancelLookup(t), Enter(t, "none"), ReqUnchanged,
         staleReads' = staleReads
  PROVE  FreshInv'
<1>1. GensKept
  BY KeepsGens DEF FreshInv
<1>2. /\ VersionsOK' /\ stage'[t] = "none" /\ mark' = mark /\ acked' = acked
      /\ \A u \in Tasks \ {t} : stage'[u] = stage[u]
  BY EntersStage DEF Stages, Reading, Probing
<1>3. /\ pc'[t] = "idle" /\ loc'[t].guard = None
      /\ UNCHANGED <<body, poisonFile, poisonMem, faults>>
      /\ \A op \in detached' : op.to = None
  BY DEF CancelLookup, Detach, FileOp, Return, Goto, NoLocals, FenceInv, TasksOK, FreshInv
<1>4. Alone(t)
  BY <1>2 DEF Alone, Only, CancelLookup, Return, Goto, FenceInv, TasksOK
<1>5. Guarding # {} => cur \in EntryIds /\ entry[cur].gen \in Nat
  BY DEF FenceInv, RegistrationHolds, TypeOK
<1>6. \A u \in Tasks \ {t} : FillFresh(u)'
  BY <1>1, <1>2, <1>4, <1>5, FillsStayFresh DEF GensKept, Clearing
<1>7. FillFresh(t)'
  BY <1>3 DEF FillFresh, Filling, Replacing
<1>8. Runs(t)' /\ Got(t)' /\ Failed(t)' /\ pc'[t] \notin Moving
  BY <1>2, <1>3 DEF Runs, Got, Failed, Filling, Replacing, Invalidating, Removing, Probing, Moving
<1>9. staleReads' = {} /\ \A u \in Tasks : FillFresh(u)'
  BY <1>6, <1>7 DEF FreshInv
<1> QED
  BY <1>2, <1>3, <1>4, <1>8, <1>9, RequestStep DEF Clearing

(* The response: what is left of older versions is fenced off, removed or    *)
(* hidden.                                                                   *)
LEMMA WriteRespondFresh ==
  ASSUME FenceInv, FreshInv, NEW t \in Tasks, WriteRespond(t)
  PROVE  FreshInv'
<1>1. /\ pc[t] = "idle" /\ stage[t] \in Clearing /\ Cleared(t)
      /\ UNCHANGED <<vars, mark, backend, staleReads>>
  BY DEF WriteRespond, At, Cleared, Clearing
<1>2. /\ acked \in Nat /\ acked' \in Nat /\ mark[t] \in Nat
      /\ acked' >= acked /\ acked' <= backend
      /\ \A v : v >= acked /\ v >= mark[t] => v >= acked'
  BY DEF WriteRespond, FreshInv, VersionsOK
<1>3. stage' \in [Tasks -> Stages] /\ stage'[t] = "none" /\ \A u \in Tasks \ {t} : stage'[u] = stage[u]
  BY DEF WriteRespond, Enter, FreshInv, VersionsOK, Stages
<1>4. VersionsOK'
  BY <1>1, <1>2, <1>3 DEF FreshInv, VersionsOK, Stages, Reading, Probing
<1>5. UNCHANGED <<body, poisonFile, poisonMem, faults, detached, cur, entry, pc, loc, res>>
  BY <1>1 DEF vars
<1>6. Alone(t)
  BY <1>1, <1>3, <1>5 DEF Alone, Only
<1>7. ASSUME NEW u \in Tasks PROVE FillFresh(u)'
  <2>1. FillFresh(u)
    BY DEF FreshInv
  <2>2. \A v : v >= acked /\ (\A w \in Tasks : Ordered(v, w)) => v >= acked'
    BY <1>1, <1>2 DEF Ordered
  <2>3. \A v : \A w \in Tasks : Ordered(v, w) => Ordered(v, w)'
    BY <1>1, <1>3, <1>5 DEF Ordered, Clearing
  <2>4. CurrentGen' = CurrentGen
    BY <1>5 DEF CurrentGen
  <2> QED
    BY <1>5, <2>1, <2>2, <2>3, <2>4 DEF FillFresh
<1>8. BodiesRecent'
  <2>1. \A w \in Tasks : Cleared(w)' => Cleared(w)
    BY <1>3, <1>5 DEF Cleared
  <2>2. \A b : Recent(b) => b >= acked' /\ \A w \in Tasks : Cleared(w)' => b >= mark'[w]
    BY <1>1, <1>2, <2>1 DEF Recent
  <2>3. Hidden' = Hidden
    BY <1>5 DEF Hidden
  <2> QED
    BY <1>5, <2>2, <2>3 DEF FreshInv, BodiesRecent, Recent
<1>9. Runs(t)' /\ Got(t)' /\ Failed(t)'
  BY <1>1, <1>3, <1>5 DEF Runs, Got, Failed, Filling, Replacing, Invalidating, Removing, Probing
<1>10. faults' \in Nat /\ faults' >= faults /\ staleReads' = {} /\ \A op \in detached' : op.to = None
  BY <1>1, <1>5 DEF FenceInv, TasksOK, FreshInv
<1> QED
  BY <1>4, <1>5, <1>6, <1>7, <1>8, <1>9, <1>10, FreshStep

(* Late unlinks remove bodies, and a marker only where the invariant does    *)
(* not count on it.                                                          *)
LEMMA DetachedFresh ==
  ASSUME Bounded, FenceInv, FreshInv, Detached
  PROVE  FreshInv'
<1>1. /\ UNCHANGED <<poisonMem, cur, entry, pc, loc, res, faults, stage, mark, backend, acked,
                     staleReads>>
      /\ body' \in {body, None} /\ detached' \subseteq detached
      /\ MaxCancels # 0
  BY DEF Bounded, Detached, RunDetached, ReqUnchanged, fillVars
<1>2. VersionsOK' /\ staleReads' = {} /\ \A op \in detached' : op.to = None
  BY <1>1 DEF FreshInv, VersionsOK
<1>3. ASSUME NEW t \in Tasks PROVE Runs(t)' /\ Got(t)' /\ Failed(t)' /\ FillFresh(t)'
  <2>1. Runs(t) /\ Got(t) /\ Failed(t) /\ FillFresh(t)
    BY DEF FreshInv
  <2>2. Runs(t)'
    BY <1>1, <2>1 DEF Runs
  <2>3. Got(t)' /\ Failed(t)'
    BY <1>1, <2>1 DEF Got, Failed, HitBy
  <2>4. FillFresh(t)'
    BY <1>1, <2>1 DEF FillFresh, CurrentGen, Ordered
  <2> QED
    BY <2>2, <2>3, <2>4
<1>4. BodiesRecent'
  <2>1. Hidden => Hidden'
    BY <1>1 DEF Hidden
  <2>2. \A b : Recent(b) => b >= acked' /\ \A w \in Tasks : Cleared(w)' => b >= mark'[w]
    BY <1>1 DEF Recent, Cleared
  <2> QED
    BY <1>1, <2>1, <2>2 DEF FreshInv, BodiesRecent, Recent
<1> QED
  BY <1>2, <1>3, <1>4 DEF FreshInv

(* A restart forgets the requests and the poisonings that are only in        *)
(* memory.                                                                   *)
LEMMA RestartFresh ==
  ASSUME FenceInv, FreshInv, ProxyRestart
  PROVE  FreshInv'
<1>1. /\ UNCHANGED <<poisonFile, backend, acked, staleReads>>
      /\ body' \in {body, None} /\ detached' = {} /\ MaxCrashes # 0
      /\ stage' = [t \in Tasks |-> "none"] /\ mark' = [t \in Tasks |-> 0]
      /\ \A t \in Tasks : pc'[t] = "idle" /\ loc'[t] = NoLocals
  BY BoundAssumption DEF ProxyRestart, Restart, FenceInv, TasksOK
<1>2. VersionsOK' /\ staleReads' = {}
  BY <1>1 DEF FreshInv, VersionsOK, Reading, Probing
<1>3. ASSUME NEW t \in Tasks PROVE Runs(t)' /\ Got(t)' /\ Failed(t)' /\ FillFresh(t)'
  BY <1>1 DEF Runs, Got, Failed, FillFresh, NoLocals, Filling, Replacing, Invalidating, Removing,
              Probing
<1>4. BodiesRecent'
  <2>1. Hidden => Hidden'
    BY <1>1 DEF Hidden
  <2>2. \A b : Recent(b) => b >= acked' /\ \A w \in Tasks : Cleared(w)' => b >= mark'[w]
    BY <1>1 DEF Recent, Cleared
  <2>3. body' # None => Hidden' \/ Recent(body)'
    BY <1>1, <2>1, <2>2 DEF FreshInv, BodiesRecent, Recent
  <2> QED
    BY <1>1, <2>3 DEF BodiesRecent, Moving
<1> QED
  BY <1>1, <1>2, <1>3, <1>4 DEF FreshInv

(* What only SingleFlight sees.                                              *)
LEMMA FlightsFresh ==
  ASSUME FreshInv, UNCHANGED <<vars, stage, mark, backend, acked, staleReads>>
  PROVE  FreshInv'
BY DEF FreshInv, vars, VersionsOK, Runs, Got, Failed, FillFresh, BodiesRecent, HitBy, CurrentGen,
       Ordered, Hidden, Recent, Cleared
-----------------------------------------------------------------------------
(* Every step.                                                               *)

(* Whatever the handlers do to the disk cache is a call of one of its        *)
(* methods.                                                                  *)
LEMMA CoherentlyFenced ==
  ASSUME FenceInv, FreshInv, [CohNext]_cohVars
  PROVE  FenceInv'
<1>1. CASE UNCHANGED vars
  BY <1>1, NextKeeps
<1>2. ASSUME NEW t \in Tasks, GetStep(t) PROVE FenceInv'
  <2>1. CASE BeginFill(t)
    BY <2>1, BeginFillKeeps
  <2>2. CASE AbortFill(t)
    BY <2>2, FinishFillKeeps DEF AbortFill
  <2>3. CASE CommitFill(t, backend)
    <3>1. backend \in Versions
      BY VersionAssumption, RequestAssumption DEF FreshInv, VersionsOK
    <3> QED
      BY <2>3, <3>1, CommitEntersKeeps
  <2>4. CASE Lookup(t) \/ DropGuard(t) \/ CancelLookup(t)
    BY <2>4, ReadsKeep
  <2> QED
    BY <1>1, <1>2, <2>1, <2>2, <2>3, <2>4
       DEF GetStep, GetStart, GetHit, GetMiss, LeaderProbe, LeaderHit, LeaderFetch, FetchTee,
           FetchUncached, FetchNotFound, FetchAbort, StaleProbe, StaleMiss, FlightComplete,
           FollowerWake, FollowerDirect, GetDisconnect
<1>3. ASSUME NEW t \in Tasks, WriteStep(t) PROVE FenceInv'
  <2>1. CASE WriteInvalidate(t)
    BY <2>1, InvalidateEntersKeeps DEF WriteInvalidate
  <2>2. CASE WriteDisconnect(t)
    BY <2>2, CancelInvalidateKeeps DEF WriteDisconnect
  <2> QED
    BY <1>1, <1>3, <2>1, <2>2 DEF WriteStep, WriteBackend, WriteUnacknowledged, WriteRespond
<1>4. ASSUME NEW t \in Tasks, Background(t) PROVE FenceInv'
  <2>1. CASE CommitFinish(t)
    BY <2>1, FinishFillKeeps DEF CommitFinish, FenceInv, Shape, Filling
  <2>2. CASE CommitStep(t) /\ ~CommitFinish(t)
    BY <2>2, CommitEntersKeeps, CommitReplacesKeeps DEF CommitStep
  <2>3. CASE InvalidateStep(t)
    BY <2>3, InvalidateEntersKeeps, InvalidateRemovesKeeps DEF InvalidateStep
  <2>4. CASE LookupLocked(t)
    BY <2>4, ReadsKeep
  <2> QED
    BY <1>4, <2>1, <2>2, <2>3, <2>4 DEF Background, MethodStep
<1>5. CASE Detached
  BY <1>5, RunDetachedKeeps DEF Detached
<1>6. CASE ProxyRestart
  BY <1>6, RestartKeeps DEF ProxyRestart
<1>7. CASE FlightCleanup \/ UNCHANGED cohVars
  BY <1>1, <1>7 DEF FlightCleanup, cohVars
<1> QED
  BY <1>2, <1>3, <1>4, <1>5, <1>6, <1>7 DEF CohNext

(* The steps of a GET.                                                       *)
LEMMA GetFresh ==
  ASSUME FenceInv, FenceInv', FreshInv, NEW t \in Tasks, GetStep(t)
  PROVE  FreshInv'
<1>1. /\ backend \in Nat /\ backend >= mark[t] /\ acked \in Nat /\ mark \in [Tasks -> Nat]
      /\ stage \in [Tasks -> Stages] /\ staleReads = {}
  BY DEF FreshInv, VersionsOK, Stages
\* A step that does not use the cache, or ends a fill.
<1>2. ASSUME NEW s \in {"none", "lead", "wait", "complete", "abort", "release", "released",
                          "staleProbe"},
             Enter(t, s), ReqUnchanged, stage[t] \in Reading, pc[t] = "idle",
             \/ UNCHANGED vars /\ staleReads' = {}
             \/ (AbortFill(t) \/ DropGuard(t)) /\ staleReads' = staleReads
      PROVE  FreshInv'
  <2>1. s \in Stages /\ s \notin Clearing \cup Probing
    BY DEF Stages, Reading, Probing, Clearing
  <2>2. /\ VersionsOK' /\ stage'[t] = s /\ mark' = mark /\ acked' = acked
        /\ \A u \in Tasks \ {t} : stage'[u] = stage[u]
    BY <1>2, <2>1, EntersStage
  <2>3. CASE UNCHANGED vars /\ staleReads' = {}
    <3>1. Alone(t)
      BY <2>2, <2>3 DEF Alone, Only, vars
    <3> QED
      BY <1>2, <2>1, <2>2, <2>3, <3>1, HandlerFresh
  <2>4. CASE (AbortFill(t) \/ DropGuard(t)) /\ staleReads' = staleReads
    BY <2>1, <2>2, <2>4, FetchEndFresh
  <2> QED
    BY <1>2, <2>3, <2>4
<1>3. CASE GetStart(t)
  <2>1. /\ stage' \in [Tasks -> Stages] /\ mark' \in [Tasks -> Nat]
        /\ stage'[t] = "probe" /\ mark'[t] = acked
        /\ \A u \in Tasks \ {t} : stage'[u] = stage[u] /\ mark'[u] = mark[u]
    BY <1>1, <1>3 DEF GetStart, Enter, Stages, Reading, Probing
  <2>2. VersionsOK'
    BY <1>3, <2>1 DEF GetStart, FreshInv, VersionsOK, Stages
  <2> QED
    BY <1>3, <2>1, <2>2, ProbeFresh DEF GetStart, Probing
<1>4. ASSUME NEW s \in Probing, stage[t] \in Reading, Enter(t, s), Lookup(t), ReqUnchanged,
             staleReads' = staleReads
      PROVE  FreshInv'
  <2>1. s \in Stages
    BY DEF Stages, Reading
  <2>2. /\ VersionsOK' /\ stage'[t] = s /\ mark' = mark /\ acked' = acked
        /\ \A u \in Tasks \ {t} : stage'[u] = stage[u]
    BY <1>4, <2>1, EntersStage
  <2> QED
    BY <1>4, <2>2, ProbeFresh
<1>5. CASE LeaderProbe(t) \/ StaleProbe(t) \/ FollowerWake(t)
  BY <1>4, <1>5 DEF LeaderProbe, StaleProbe, FollowerWake, At, Reading, Probing
<1>6. CASE GetHit(t) \/ LeaderHit(t)
  <2>1. stage[t] \in Probing /\ pc[t] = "idle" /\ HitBy(t) /\ Answer(t, res[t].ver)
    BY <1>6 DEF GetHit, LeaderHit, At, Found, HitBy, Probing
  <2>2. staleReads' = {}
    BY <2>1, AnswerCounts DEF FreshInv, Got
  <2>3. Enter(t, "none") \/ Enter(t, "complete")
    BY <1>6 DEF GetHit, LeaderHit
  <2>4. stage[t] \in Reading /\ ReqUnchanged /\ UNCHANGED vars
    BY <1>6, <2>1 DEF GetHit, LeaderHit, Reading
  <2> QED
    BY <1>2, <2>1, <2>2, <2>3, <2>4
<1>7. CASE FetchUncached(t) \/ FetchNotFound(t) \/ FollowerDirect(t)
  <2>1. staleReads' = {}
    BY <1>1, <1>7, AnswerCounts DEF FetchUncached, FetchNotFound, FollowerDirect
  <2>2. Enter(t, "none") \/ Enter(t, "abort") \/ Enter(t, "release")
    BY <1>7 DEF FetchUncached, FetchNotFound, FollowerDirect
  <2>3. stage[t] \in Reading /\ pc[t] = "idle" /\ ReqUnchanged /\ UNCHANGED vars
    BY <1>7 DEF FetchUncached, FetchNotFound, FollowerDirect, At, Reading, Probing
  <2> QED
    BY <1>2, <2>1, <2>2, <2>3
<1>8. CASE GetMiss(t) \/ StaleMiss(t) \/ FetchAbort(t) \/ GetDisconnect(t)
  BY <1>1, <1>2, <1>8, LookupDroppedFresh
     DEF GetMiss, StaleMiss, FetchAbort, GetDisconnect, At, Reading, Probing
<1>9. CASE FlightComplete(t)
  <2>1. CASE UNCHANGED stage
    BY <1>9, <2>1, FlightsFresh DEF FlightComplete, ReqUnchanged
  <2>2. CASE \E s \in {"none", "released"} : Enter(t, s)
    BY <1>1, <1>2, <1>9, <2>2 DEF FlightComplete, At, Reading
  <2> QED
    BY <1>9, <2>1, <2>2 DEF FlightComplete
<1> QED
  BY <1>3, <1>5, <1>6, <1>7, <1>8, <1>9, LeaderFetchFresh, FetchTeeFresh DEF GetStep

(* The steps of a write.                                                     *)
LEMMA WriteFresh ==
  ASSUME FenceInv, FreshInv, NEW t \in Tasks, WriteStep(t)
  PROVE  FreshInv'
<1>1. CASE WriteBackend(t)
  <2>1. /\ backend \in Nat /\ mark \in [Tasks -> Nat] /\ stage \in [Tasks -> Stages]
        /\ backend' = backend + 1 /\ UNCHANGED <<vars, acked, staleReads>> /\ backend < MaxVersion
    BY <1>1 DEF WriteBackend, FreshInv, VersionsOK, Stages
  <2>2. /\ stage' \in [Tasks -> Stages] /\ mark' \in [Tasks -> Nat]
        /\ stage'[t] = "write" /\ mark'[t] = backend + 1
        /\ \A u \in Tasks \ {t} : stage'[u] = stage[u] /\ mark'[u] = mark[u]
    BY <1>1, <2>1 DEF WriteBackend, Enter, Stages, Writing
  <2>3. VersionsOK'
    BY <2>1, <2>2, RequestAssumption DEF FreshInv, VersionsOK, Stages, Reading, Probing
  <2>4. Alone(t) /\ pc[t] = "idle"
    BY <1>1, <2>1, <2>2 DEF Alone, Only, vars, WriteBackend, At
  <2> QED
    BY <2>1, <2>2, <2>3, <2>4, HandlerFresh DEF FreshInv, Clearing, Probing
<1>2. CASE WriteUnacknowledged(t)
  <2>1. /\ VersionsOK' /\ stage'[t] = "none" /\ mark' = mark /\ acked' = acked
        /\ \A u \in Tasks \ {t} : stage'[u] = stage[u]
    BY <1>2, EntersStage DEF WriteUnacknowledged, Stages, Reading, Probing
  <2>2. Alone(t) /\ pc[t] = "idle" /\ UNCHANGED vars /\ staleReads' = {}
    BY <1>2, <2>1 DEF WriteUnacknowledged, At, Alone, Only, vars, FreshInv
  <2> QED
    BY <2>1, <2>2, HandlerFresh DEF Clearing, Probing
<1> QED
  BY <1>1, <1>2, WriteInvalidateFresh, WriteRespondFresh, WriteDisconnectFresh DEF WriteStep

(* No step fails more often than the instance allows, or leaves an operation *)
(* behind where no call is dropped.                                          *)
LEMMA BoundsKept ==
  ASSUME Bounded, FenceInv, [CohNext]_cohVars
  PROVE  Bounded'
<1>1. faults \in Nat /\ cancels \in Nat /\ MaxFaults \in Nat /\ MaxCancels \in Nat
  BY BoundAssumption DEF FenceInv, TasksOK
<1>2. ASSUME Works \/ Fails \/ (faults + 2 <= MaxFaults /\ faults' = faults + 2),
             detached' \subseteq detached \/ cancels < MaxCancels
      PROVE  Bounded'
  <2>1. faults' <= MaxFaults
    BY <1>1, <1>2 DEF Bounded, Works, Fails
  <2>2. MaxCancels = 0 => detached' = {}
    BY <1>1, <1>2 DEF Bounded
  <2> QED
    BY <2>1, <2>2 DEF Bounded
<1> USE DEF lateVars
<1>3. ASSUME NEW t \in Tasks, CommitStep(t) PROVE Bounded'
  BY <1>2, <1>3 DEF CommitStep, CommitEarlyCheck, CommitPrepare, GiveUp, CommitLock, CommitMetaLock,
     CommitStage, CommitBackupBody, CommitBackupMeta, CommitPublishBody, CommitPublishMeta,
     CommitUndoBody, CommitUndoMeta, CommitClear, ClearPoison, CommitFinish, FinishFill, Works
<1>4. ASSUME NEW t \in Tasks, InvalidateStep(t) \/ LookupLocked(t) PROVE Bounded'
  BY <1>2, <1>4 DEF InvalidateStep, InvalidateLock, InvalidateMetaLock, PurgeCheck,
     PurgeRemoveBody, PurgeRemoveMeta, PurgeUnmark, PoisonMark, PoisonWriteMarker, LookupLocked,
     CleanupOrphan, Works
<1>5. CASE UNCHANGED vars
  BY <1>2, <1>5 DEF vars, Works
<1>6. ASSUME NEW t \in Tasks, GetStep(t) PROVE Bounded'
  <2>1. CASE BeginFill(t) \/ AbortFill(t) \/ CommitFill(t, backend) \/ Lookup(t) \/ DropGuard(t)
             \/ CancelLookup(t)
    BY <1>2, <2>1 DEF BeginFill, AbortFill, FinishFill, CommitFill, Lookup, DropGuard,
                      CancelLookup, Detach, Works
  <2> QED
    BY <1>5, <1>6, <2>1
       DEF GetStep, GetStart, GetHit, GetMiss, LeaderProbe, LeaderHit, LeaderFetch, FetchTee,
           FetchUncached, FetchNotFound, FetchAbort, StaleProbe, StaleMiss, FlightComplete,
           FollowerWake, FollowerDirect, GetDisconnect
<1>7. ASSUME NEW t \in Tasks, WriteStep(t) PROVE Bounded'
  <2>1. CASE WriteInvalidate(t) \/ WriteDisconnect(t)
    BY <1>2, <2>1 DEF WriteInvalidate, Invalidate, WriteDisconnect, CancelInvalidate, Detach, Works
  <2> QED
    BY <1>5, <1>7, <2>1 DEF WriteStep, WriteBackend, WriteUnacknowledged, WriteRespond
<1>8. CASE Detached
  BY <1>2, <1>8 DEF Detached, RunDetached, Works
<1>9. CASE ProxyRestart
  BY <1>2, <1>9 DEF ProxyRestart, Restart, Works
<1>10. CASE FlightCleanup \/ UNCHANGED cohVars
  BY <1>5, <1>10 DEF FlightCleanup, cohVars
<1> QED
  BY <1>3, <1>4, <1>6, <1>7, <1>8, <1>9, <1>10 DEF CohNext, Background, MethodStep

(* All of them, for an instance in which poisonings survive.                 *)
LEMMA CoherentStep ==
  ASSUME PoisonSurvives, Bounded, FenceInv, FenceInv', FreshInv, [CohNext]_cohVars
  PROVE  FreshInv'
<1>1. ASSUME NEW t \in Tasks, Background(t) PROVE FreshInv'
  <2>1. Awaits /\ MethodStep(t)
    BY <1>1 DEF Background, ReqUnchanged, Awaits
  <2>2. CASE CommitStep(t)
    BY <2>1, <2>2, CommitEntersFresh, CommitReplacesFresh, CommitFinishFresh DEF CommitStep
  <2>3. CASE InvalidateStep(t)
    BY <2>1, <2>3, InvalidateLockFresh, InvalidateFresh DEF InvalidateStep
  <2>4. CASE LookupLocked(t)
    BY <2>1, <2>4, LookupFresh
  <2> QED
    BY <2>1, <2>2, <2>3, <2>4 DEF MethodStep
<1>2. CASE FlightCleanup \/ UNCHANGED cohVars
  BY <1>2, FlightsFresh DEF FlightCleanup, cohVars, ReqUnchanged
<1> QED
  BY <1>1, <1>2, GetFresh, WriteFresh, DetachedFresh, RestartFresh DEF CohNext

(* The initial states.                                                       *)
LEMMA CohInitFresh == CohInit => Bounded /\ FenceInv /\ FreshInv
<1> SUFFICES ASSUME CohInit PROVE Bounded /\ FenceInv /\ FreshInv
  OBVIOUS
<1>1. FenceInv
  BY InitFenced DEF CohInit
<1>2. /\ VersionsOK /\ staleReads = {} /\ detached = {} /\ body \in {None, 0}
      /\ \A t \in Tasks : pc[t] = "idle" /\ loc[t] = NoLocals /\ stage[t] = "none"
      /\ acked = 0
  BY RequestAssumption DEF CohInit, Init, VersionsOK, Reading, Probing
<1>3. ASSUME NEW t \in Tasks PROVE Runs(t) /\ Got(t) /\ Failed(t) /\ FillFresh(t)
  BY <1>2 DEF Runs, Got, Failed, FillFresh, NoLocals, Filling, Replacing, Invalidating, Removing,
              Probing
<1>4. BodiesRecent
  BY <1>2 DEF BodiesRecent, Recent, Cleared, Moving
<1>5. Bounded
  BY BoundAssumption DEF CohInit, Init, Bounded
<1> QED
  BY <1>1, <1>2, <1>3, <1>4, <1>5 DEF FreshInv

(* The invariants of the disk cache and of the requests hold together, for   *)
(* any number of requests, fills, writes, restarts and dropped calls.        *)
THEOREM RequestsCoherent ==
  ASSUME PoisonSurvives
  PROVE  CohSpec => [](Bounded /\ FenceInv /\ FreshInv)
<1>1. Bounded /\ FenceInv /\ FreshInv /\ [CohNext]_cohVars
        => (Bounded /\ FenceInv /\ FreshInv)'
  BY BoundsKept, CoherentlyFenced, CoherentStep
<1> QED
  BY <1>1, CohInitFresh, PTL DEF CohSpec

(* FreshReads for every instance in which a poisoning survives: a client     *)
(* that got a success response for a write never reads an older version,     *)
(* from a hit, a miss or a stale-on-error answer of handle_get.              *)
THEOREM ReadsAreFresh ==
  ASSUME PoisonSurvives
  PROVE  CohSpec => []FreshReads
<1>1. Bounded /\ FenceInv /\ FreshInv => FreshReads
  BY DEF FreshInv, FreshReads
<1> QED
  BY <1>1, RequestsCoherent, PTL

(* ServableFresh: what a lookup would serve is never older than a write that *)
(* was acknowledged, also when its purges failed or the process restarted.   *)
THEOREM ServableIsFresh ==
  ASSUME PoisonSurvives
  PROVE  CohSpec => []ServableFresh
<1>1. Bounded /\ FenceInv /\ FreshInv => ServableFresh
  BY DEF FreshInv, BodiesRecent, Recent, Hidden, Poisoned, ServableFresh
<1> QED
  BY <1>1, RequestsCoherent, PTL
=============================================================================
