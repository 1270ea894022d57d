-------------------------- MODULE DiskCacheProofs ---------------------------
(* Proofs about DiskCache: any number of tasks, of FillEntry objects, of     *)
(* object versions, of faults, crashes and dropped calls.                    *)
EXTENDS DiskCache, TLAPS, FiniteSetTheorems

-----------------------------------------------------------------------------
(* The inductive invariant.                                                  *)

\* A commit up to its generation check, and after it has let go of its locks.
Filling == {"early", "prepare", "commitLock", "commitMeta", "finish"} \cup Replacing

\* An invalidation that has the metadata lock.
Removing == {"purge", "removeBody", "removeMeta", "unmark", "poison", "marker"}

Invalidating == {"invalLock", "invalMeta"} \cup Removing

Labels == {"idle", "lookup"} \cup Filling \cup Invalidating

Files == [body : Versions \cup {None}, meta : Metas \cup {Corrupt, None}]

Locals == [guard : Nat \cup {None}, ver : Versions \cup {None},
           arc : EntryIds \cup {None}, kind : {"purge", "poison", None},
           exp : Nat \cup {None}, old : Files, new : Metas \cup {None}]

\* What a method returns other than a hit.
Answers == {"none", "done", "err", "miss", "true", "false"}

Results == [is : Answers \cup {"hit"}, ver : Versions \cup {None}, meta : Metas \cup {Corrupt, None}]

Ops == [file : {"body", "meta", "poison", "unmark"}, to : Metas \cup {None}]

(* The types of what TypeOK leaves out.                                      *)
TasksOK ==
  /\ pc \in [Tasks -> Labels]
  /\ loc \in [Tasks -> Locals]
  /\ res \in [Tasks -> Results]
  /\ \A t \in Tasks : res[t].is = "hit" => res[t].meta \in Metas
  /\ detached \subseteq Ops
  /\ faults \in Nat /\ crashes \in Nat /\ cancels \in Nat

(* What a task's locals are at each point of a method.                       *)
Shape(t) ==
  /\ pc[t] \in {"idle", "lookup"} => loc[t] = [NoLocals EXCEPT !.guard = loc[t].guard]
  /\ pc[t] \in Filling => loc[t].guard # None /\ loc[t].ver # None /\ loc[t].exp = None
  /\ pc[t] \in Invalidating => loc[t].guard = None /\ loc[t].kind \in {"purge", "poison"}
  /\ pc[t] \in {"early", "prepare"} => loc[t].arc = None
  /\ pc[t] \in {"commitLock", "commitMeta", "invalLock"} \cup Replacing => loc[t].arc # None
  /\ pc[t] \in {"early", "prepare", "commitLock", "commitMeta", "stage", "backupBody"}
       => loc[t].old = Nothing
  /\ pc[t] \in Replacing \ {"stage"} => loc[t].new # None /\ loc[t].new.etag = loc[t].ver

(* A task past a lock's acquisition and before its release holds it.         *)
Holds(t) ==
  /\ pc[t] \in Replacing \cup Removing => metaLock = t
  /\ pc[t] \in {"commitMeta", "invalMeta"} \cup Replacing \cup Removing /\ loc[t].arc # None
       => entry[loc[t].arc].owner = t

FenceInv ==
  /\ TypeOK /\ TasksOK
  /\ \A t \in Tasks : Shape(t)
  /\ \A t \in Tasks : Holds(t)
  /\ RegistrationHolds
  /\ PublishFenced

-----------------------------------------------------------------------------
(* What the helpers return.                                                  *)

Entries == [EntryIds -> [refs : Nat, gen : Nat, owner : Tasks \cup {None}]]

(* The empty locals and every plain outcome are well typed.                  *)
LEMMA Typed ==
  /\ Nothing \in Files /\ NoLocals \in Locals
  /\ \A s \in Answers : Outcome(s) \in Results /\ Outcome(s).is # "hit"
<1>1. Nothing \in Files
  BY DEF Nothing, Files
<1>2. NoLocals \in Locals
  BY <1>1 DEF NoLocals, Locals
<1>3. ASSUME NEW s \in Answers PROVE Outcome(s) \in Results /\ Outcome(s).is # "hit"
  BY <1>3 DEF Outcome, Results, Answers
<1> QED
  BY <1>1, <1>2, <1>3

(* A task takes hold of a FillEntry, or registers with it.                   *)
LEMMA LocalsStay ==
  ASSUME NEW l \in Locals
  PROVE  /\ \A e \in EntryIds \cup {None} : [l EXCEPT !.arc = e] \in Locals
         /\ \A g \in Nat : [l EXCEPT !.guard = g] \in Locals
BY DEF Locals

(* What commit_fill stages is metadata of the content it fetched.            *)
LEMMA StagedTyped ==
  ASSUME NEW f \in Nat, NEW v \in Versions, NEW h \in SUBSET HeadBits
  PROVE  MetaOf(f, v, h) \in Metas /\ MetaOf(f, v, h).etag = v
BY DEF MetaOf, Metas

(* So is what a metadata refresh writes.                                     *)
LEMMA UpdatedTyped ==
  ASSUME NEW s \in Metas, NEW b \in HeadBits, meta \in Metas
  PROVE  UpdatedMeta(s, b) \in Metas
<1>1. /\ meta.mver + 1 \in Nat /\ meta.atime \in Nat
      /\ s.head \cup {b} \in SUBSET HeadBits
  BY DEF Metas
<1>2. \A a, m \in Nat, h \in SUBSET HeadBits :
         [s EXCEPT !.atime = a, !.mver = m, !.head = h, !.synced = FALSE] \in Metas
  BY DEF Metas
<1> QED
  BY <1>1, <1>2 DEF UpdatedMeta

(* Dropping the commit lock changes the owner of the task's FillEntry only.  *)
LEMMA UnlockedFacts ==
  ASSUME NEW t \in Tasks, NEW ents \in Entries, loc[t].arc \in EntryIds \cup {None}
  PROVE  /\ Unlocked(t, ents) \in Entries
         /\ \A e \in EntryIds :
              /\ Unlocked(t, ents)[e].refs = ents[e].refs
              /\ Unlocked(t, ents)[e].gen = ents[e].gen
              /\ e # loc[t].arc => Unlocked(t, ents)[e] = ents[e]
BY DEF Unlocked, Entries

(* An invalidation moves the generation of the task's FillEntry only.        *)
LEMMA BumpedFacts ==
  ASSUME NEW t \in Tasks, NEW ents \in Entries, loc[t].arc \in EntryIds \cup {None}
  PROVE  /\ Bumped(t, ents) \in Entries
         /\ \A e \in EntryIds :
              /\ Bumped(t, ents)[e].refs = ents[e].refs
              /\ Bumped(t, ents)[e].owner = ents[e].owner
              /\ e # loc[t].arc => Bumped(t, ents)[e] = ents[e]
BY DEF Bumped, Entries
-----------------------------------------------------------------------------
(* Steps of one task.                                                        *)

\* The other tasks stay where they are.
Only(t) ==
  \A u \in Tasks \ {t} : pc'[u] = pc[u] /\ loc'[u] = loc[u]

\* A task takes a lock only if it is free, drops its own only, and moves the
\* generation on only of an object whose commit lock is free or its own.
SparesOthers(t) ==
  /\ metaLock' = metaLock \/ metaLock \in {None, t}
  /\ \A u \in Tasks \ {t} :
       loc[u].arc # None =>
         LET e == loc[u].arc
         IN  \/ entry[e].owner \in {None, t}
             \/ entry'[e].owner = entry[e].owner /\ entry'[e].gen = entry[e].gen

\* The registrations stay, but for a guard of the task's own that is dropped.
KeepsFills(t) ==
  /\ cur' = cur
  /\ \A e \in EntryIds : entry'[e].refs = entry[e].refs
  /\ loc'[t].guard \in {loc[t].guard, None}
  /\ loc'[t].arc \in {loc[t].arc, cur, None}

(* What a task holds survives the steps of the others.                       *)
LEMMA OthersHold ==
  ASSUME FenceInv, NEW t \in Tasks, TypeOK', Only(t), SparesOthers(t),
         Guarding \ {t} # {} => cur' = cur,
         NEW u \in Tasks \ {t}
  PROVE  Shape(u)' /\ Holds(u)' /\ Fenced(u)'
<1> USE DEF FenceInv
<1>1. pc'[u] = pc[u] /\ loc'[u] = loc[u]
  BY DEF Only
<1>2. Shape(u)'
  BY <1>1 DEF Shape
<1>3. metaLock = u => metaLock' = u
  BY ValueAssumption DEF SparesOthers
<1>4. loc[u].arc # None /\ entry[loc[u].arc].owner = u
        => /\ entry'[loc[u].arc].owner = u
           /\ entry'[loc[u].arc].gen = entry[loc[u].arc].gen
  BY ValueAssumption DEF SparesOthers
<1>5. Holds(u)'
  BY <1>1, <1>3, <1>4 DEF Holds
<1>6. pc[u] \in Replacing => u \in Guarding
  BY DEF Shape, Filling, Guarding
<1>7. Fenced(u)'
  BY <1>1, <1>3, <1>4, <1>6 DEF PublishFenced, Fenced
<1> QED
  BY <1>2, <1>5, <1>7

(* Registrations outlast every step that leaves the counts alone.            *)
LEMMA RegistrationKept ==
  ASSUME FenceInv, NEW t \in Tasks, Only(t), KeepsFills(t)
  PROVE  RegistrationHolds'
<1> USE DEF FenceInv
<1>1. Guarding' \subseteq Guarding
  BY DEF Guarding, Only, KeepsFills
<1>2. IsFiniteSet(Guarding) /\ Cardinality(Guarding) \in Nat
  BY TaskAssumption, FS_Subset, FS_CardinalityType DEF Guarding
<1>3. Cardinality(Guarding') \in Nat /\ Cardinality(Guarding') <= Cardinality(Guarding)
  BY <1>1, <1>2, FS_Subset, FS_CardinalityType
<1>4. SUFFICES ASSUME Guarding' # {} PROVE RegistrationHolds'
  BY DEF RegistrationHolds
<1>5. cur # None /\ cur' = cur /\ entry[cur].refs >= Cardinality(Guarding)
  BY <1>1, <1>4 DEF RegistrationHolds, KeepsFills
<1>6. entry[cur].refs \in Nat /\ entry'[cur].refs = entry[cur].refs
  BY <1>5 DEF TypeOK, KeepsFills
<1>7. entry'[cur'].refs >= Cardinality(Guarding')
  BY <1>2, <1>3, <1>5, <1>6
<1>8. \A u \in Guarding' : loc'[u].arc \in {None, cur}
  <2> TAKE u \in Guarding'
  <2>1. u \in Tasks /\ u \in Guarding /\ loc[u].arc \in {None, cur}
    BY <1>1, <1>4 DEF RegistrationHolds, Guarding
  <2> QED
    BY <2>1 DEF Only, KeepsFills
<1> QED
  BY <1>5, <1>7, <1>8 DEF RegistrationHolds

(* A step that keeps its task's own promises, spares the others and leaves   *)
(* the registrations alone keeps the invariant.                              *)
LEMMA TaskStep ==
  ASSUME FenceInv, NEW t \in Tasks, TypeOK', TasksOK',
         Shape(t)', Holds(t)', Fenced(t)',
         Only(t), SparesOthers(t), KeepsFills(t)
  PROVE  FenceInv'
<1>1. RegistrationHolds'
  BY RegistrationKept
<1>2. \A u \in Tasks \ {t} : Shape(u)' /\ Holds(u)' /\ Fenced(u)'
  BY OthersHold DEF KeepsFills
<1>3. \A u \in Tasks : Shape(u)' /\ Holds(u)' /\ Fenced(u)'
  BY <1>2
<1> QED
  BY <1>1, <1>3 DEF FenceInv, PublishFenced

(* A method that returns leaves its task idle, without guard and Arc.        *)
LEMMA Returns ==
  ASSUME FenceInv, NEW t \in Tasks, NEW r \in Results, r.is = "hit" => r.meta \in Metas,
         Return(t, r)
  PROVE  /\ pc' \in [Tasks -> Labels] /\ loc' \in [Tasks -> Locals]
         /\ res' \in [Tasks -> Results]
         /\ \A u \in Tasks : res'[u].is = "hit" => res'[u].meta \in Metas
         /\ Shape(t)' /\ Holds(t)' /\ Fenced(t)' /\ Only(t)
         /\ loc'[t].guard = None /\ loc'[t].arc = None
<1> USE DEF FenceInv, TasksOK, Return, Goto
<1>1. pc' \in [Tasks -> Labels] /\ pc'[t] = "idle"
  BY DEF Labels
<1>2. loc' \in [Tasks -> Locals] /\ loc'[t] = NoLocals
  BY Typed
<1>3. res' \in [Tasks -> Results] /\ res'[t] = r
  OBVIOUS
<1>4. \A u \in Tasks : res'[u].is = "hit" => res'[u].meta \in Metas
  BY <1>3
<1>5. Only(t)
  BY DEF Only
<1>6. Shape(t)' /\ Holds(t)' /\ Fenced(t)'
  BY <1>1, <1>2 DEF Shape, Holds, Fenced, Filling, Replacing, Invalidating, Removing,
                    NoLocals
<1> QED
  BY <1>1, <1>2, <1>3, <1>4, <1>5, <1>6 DEF NoLocals

(* Dropping both locks spares the other tasks.                               *)
LEMMA Releases ==
  ASSUME FenceInv, NEW t \in Tasks, ReleaseLocks(t),
         metaLock \in {None, t},
         pc[t] \in {"commitMeta"} \cup Replacing \cup Removing
  PROVE  /\ metaLock' = None /\ cur' = cur /\ entry' \in Entries
         /\ SparesOthers(t)
         /\ \A e \in EntryIds : entry'[e].refs = entry[e].refs
<1> USE DEF FenceInv, ReleaseLocks
<1>1. entry \in Entries /\ loc[t].arc \in EntryIds \cup {None}
  BY DEF TypeOK, Entries, TasksOK, Locals
<1>2. /\ entry' \in Entries
      /\ \A e \in EntryIds : /\ entry'[e].refs = entry[e].refs
                             /\ entry'[e].gen = entry[e].gen
                             /\ e # loc[t].arc => entry'[e] = entry[e]
  BY <1>1, UnlockedFacts
<1>3. loc[t].arc # None => entry[loc[t].arc].owner = t
  BY DEF Holds
<1>4. \A u \in Tasks : loc[u].arc \in EntryIds \cup {None}
  BY DEF TasksOK, Locals
<1>5. SparesOthers(t)
  BY <1>2, <1>3, <1>4 DEF SparesOthers
<1> QED
  BY <1>2, <1>5

(* So does a commit that gives up with both locks held, or has published.    *)
LEMMA GivesUp ==
  ASSUME FenceInv, NEW t \in Tasks, GiveUpLocked(t), loc' = loc,
         metaLock \in {None, t},
         pc[t] \in {"commitMeta"} \cup Replacing
  PROVE  /\ pc' \in [Tasks -> Labels]
         /\ metaLock' = None /\ cur' = cur /\ entry' \in Entries
         /\ Shape(t)' /\ Holds(t)' /\ Fenced(t)'
         /\ Only(t) /\ SparesOthers(t) /\ KeepsFills(t)
<1> USE DEF FenceInv, GiveUpLocked
<1>1. pc' \in [Tasks -> Labels] /\ pc'[t] = "finish"
  BY DEF Goto, TasksOK, Labels, Filling
<1>2. Only(t)
  BY DEF Goto, TasksOK, Only
<1>3. /\ metaLock' = None /\ cur' = cur /\ entry' \in Entries
      /\ SparesOthers(t) /\ \A e \in EntryIds : entry'[e].refs = entry[e].refs
  BY Releases
<1>4. Shape(t)' /\ Holds(t)' /\ Fenced(t)'
  BY <1>1 DEF Shape, Holds, Fenced, Filling, Replacing, Invalidating, Removing
<1> QED
  BY <1>1, <1>2, <1>3, <1>4 DEF KeepsFills
-----------------------------------------------------------------------------
(* One lemma per group of actions.                                           *)

(* commit_fill, from the call to the acquisition of its two locks.           *)
LEMMA CommitEntersKeeps ==
  ASSUME FenceInv, NEW t \in Tasks,
         \/ \E v \in Versions : CommitFill(t, v)
         \/ CommitEarlyCheck(t) \/ CommitPrepare(t) \/ CommitLock(t) \/ CommitMetaLock(t)
  PROVE  FenceInv'
<1> USE ValueAssumption DEF FenceInv, Goto, diskVars, fillVars, lateVars
<1>1. ASSUME NEW v \in Versions, CommitFill(t, v) PROVE FenceInv'
  <2> USE <1>1 DEF CommitFill
  <2>1. TypeOK' /\ TasksOK'
    <3>1. [loc[t] EXCEPT !.ver = v] \in Locals
      BY DEF TasksOK, Locals
    <3>2. loc' \in [Tasks -> Locals]
      BY <3>1 DEF TasksOK
    <3> QED
      BY <3>2 DEF TypeOK, TasksOK, Labels, Filling
  <2>2. Shape(t)' /\ Holds(t)' /\ Fenced(t)'
    BY DEF TasksOK, Shape, Holds, Fenced, Filling, Replacing, Invalidating, Removing,
           NoLocals, Locals
  <2>3. Only(t) /\ SparesOthers(t) /\ KeepsFills(t)
    BY DEF TasksOK, Only, SparesOthers, KeepsFills
  <2> QED
    BY <2>1, <2>2, <2>3, TaskStep
<1>2. CASE CommitEarlyCheck(t)
  <2> USE <1>2 DEF CommitEarlyCheck, GiveUp, Works
  <2>1. TypeOK' /\ TasksOK'
    BY DEF TypeOK, TasksOK, Labels, Filling
  <2>2. Shape(t)' /\ Holds(t)' /\ Fenced(t)'
    BY DEF TasksOK, Shape, Holds, Fenced, Filling, Replacing, Invalidating, Removing
  <2>3. Only(t) /\ SparesOthers(t) /\ KeepsFills(t)
    BY DEF TasksOK, Only, SparesOthers, KeepsFills
  <2> QED
    BY <2>1, <2>2, <2>3, TaskStep
<1>3. CASE CommitPrepare(t)
  <2> USE <1>3 DEF CommitPrepare, GiveUp, Works, Fails
  <2>1. TypeOK'
    BY DEF TypeOK
  <2>2. TasksOK'
    <3>0. loc[t] \in Locals /\ cur \in EntryIds \cup {None}
      BY DEF TypeOK, TasksOK
    <3>1. [loc[t] EXCEPT !.arc = cur] \in Locals
      BY <3>0, LocalsStay
    <3>2. loc' \in [Tasks -> Locals]
      BY <3>1 DEF TasksOK
    <3> QED
      BY <3>2 DEF TasksOK, Labels, Filling
  <2>3. Shape(t)' /\ Holds(t)' /\ Fenced(t)'
    BY DEF TasksOK, Shape, Holds, Fenced, Filling, Replacing, Invalidating, Removing, Locals
  <2>4. Only(t) /\ SparesOthers(t) /\ KeepsFills(t)
    BY DEF TasksOK, Only, SparesOthers, KeepsFills, Locals
  <2> QED
    BY <2>1, <2>2, <2>3, <2>4, TaskStep
<1>4. CASE CommitLock(t)
  <2> USE <1>4 DEF CommitLock
  <2>1. TypeOK' /\ TasksOK'
    BY DEF TypeOK, TasksOK, Labels, Filling, Locals, Shape
  <2>2. Shape(t)' /\ Holds(t)' /\ Fenced(t)'
    BY DEF TypeOK, TasksOK, Shape, Holds, Fenced, Filling, Replacing, Invalidating, Removing,
           Locals
  <2>3. Only(t) /\ SparesOthers(t) /\ KeepsFills(t)
    BY DEF TypeOK, TasksOK, Locals, Shape, Only, SparesOthers, KeepsFills
  <2> QED
    BY <2>1, <2>2, <2>3, TaskStep
<1>5. CASE CommitMetaLock(t) /\ CurrentGen # loc[t].guard
  <2> USE <1>5 DEF CommitMetaLock
  <2>1. GiveUpLocked(t) /\ loc' = loc /\ metaLock = None /\ pc[t] = "commitMeta"
    OBVIOUS
  <2>2. TypeOK' /\ TasksOK'
    BY <2>1, GivesUp DEF TypeOK, TasksOK, Entries
  <2> QED
    BY <2>1, <2>2, GivesUp, TaskStep
<1>6. CASE CommitMetaLock(t) /\ CurrentGen = loc[t].guard
  <2> USE <1>6 DEF CommitMetaLock
  <2>1. TypeOK' /\ TasksOK'
    BY DEF TypeOK, TasksOK, Labels, Filling, Replacing
  <2>2. Shape(t)' /\ Holds(t)'
    BY DEF TasksOK, Shape, Holds, Fenced, Filling, Replacing, Invalidating, Removing
  <2>3. Fenced(t)'
    BY DEF TasksOK, Shape, Holds, Fenced, Filling, RegistrationHolds, Guarding, CurrentGen
  <2>4. Only(t) /\ SparesOthers(t) /\ KeepsFills(t)
    BY DEF TasksOK, Only, SparesOthers, KeepsFills
  <2> QED
    BY <2>1, <2>2, <2>3, <2>4, TaskStep
<1> QED
  BY <1>1, <1>2, <1>3, <1>4, <1>5, <1>6 DEF CommitMetaLock

(* commit_fill once it has both locks, until it gives up or has published.   *)
LEMMA CommitReplacesKeeps ==
  ASSUME FenceInv, NEW t \in Tasks,
         \/ CommitStage(t) \/ CommitBackupBody(t) \/ CommitBackupMeta(t)
         \/ CommitPublishBody(t) \/ CommitPublishMeta(t)
         \/ CommitUndoBody(t) \/ CommitUndoMeta(t) \/ CommitClear(t)
  PROVE  FenceInv'
<1> USE ValueAssumption DEF FenceInv, diskVars, fillVars, lateVars, Works, Fails
<1>1. /\ pc[t] \in Replacing /\ metaLock = t
      /\ loc[t] \in Locals /\ loc[t].old \in Files /\ loc[t].ver \in Versions
  BY DEF CommitStage, CommitBackupBody, CommitBackupMeta, CommitPublishBody,
         CommitPublishMeta, CommitUndoBody, CommitUndoMeta, CommitClear, Replacing,
         Holds, Shape, Filling, TasksOK, Locals
\* Between two points of the replacement nothing but the locals moves.
<1>2. ASSUME UNCHANGED <<cur, entry, metaLock>>, NEW l \in Replacing \ {"stage"}, Goto(t, l),
             TypeOK', loc' \in [Tasks -> Locals], res' = res, detached' = detached,
             crashes' = crashes, cancels' = cancels, faults' \in {faults, faults + 1},
             \A u \in Tasks \ {t} : loc'[u] = loc[u],
             loc'[t].guard = loc[t].guard, loc'[t].arc = loc[t].arc,
             loc'[t].ver = loc[t].ver, loc'[t].exp = loc[t].exp,
             loc'[t].new # None, loc'[t].new.etag = loc[t].ver,
             l = "backupBody" => loc'[t].old = Nothing
      PROVE  FenceInv'
  <2> USE <1>2
  <2>1. pc' \in [Tasks -> Labels] /\ pc'[t] = l /\ Only(t)
    BY DEF Goto, TasksOK, Labels, Filling, Only
  <2>2. TasksOK'
    BY <2>1 DEF TasksOK
  <2>3. pc[t] \in Filling /\ l \in Filling /\ l \notin Invalidating
    BY <1>1 DEF Filling, Replacing, Invalidating, Removing
  <2>4. Shape(t)'
    BY <1>1, <2>1, <2>3 DEF Shape, Replacing
  <2>5. Holds(t)' /\ Fenced(t)'
    BY <1>1, <2>1, <2>3 DEF Holds, Fenced, PublishFenced
  <2>6. SparesOthers(t) /\ KeepsFills(t)
    BY DEF SparesOthers, KeepsFills
  <2> QED
    BY <2>1, <2>2, <2>4, <2>5, <2>6, TaskStep
\* A commit that gives up, or has published, drops its locks.
<1>3. ASSUME GiveUpLocked(t), loc' = loc, res' = res, detached' = detached,
             crashes' = crashes, cancels' = cancels, faults' \in {faults, faults + 1},
             body' \in Versions \cup {None}, meta' \in Metas \cup {Corrupt, None},
             poisonFile' \in BOOLEAN, poisonMem' \in BOOLEAN,
             entryCount' \in Nat, nextFill' \in Nat
      PROVE  FenceInv'
  <2> USE <1>3
  <2>1. TypeOK' /\ TasksOK'
    BY <1>1, GivesUp DEF TypeOK, TasksOK, Entries
  <2> QED
    BY <1>1, <2>1, GivesUp, TaskStep
<1>4. CASE CommitStage(t)
  <2> USE <1>4 DEF CommitStage
  <2>1. CASE Fails /\ GiveUpLocked(t) /\ UNCHANGED loc
    BY <1>3, <2>1 DEF TypeOK
  <2>2. CASE \E h \in SUBSET HeadBits :
               /\ loc' = [loc EXCEPT ![t].new = MetaOf(nextFill, loc[t].ver, h)]
               /\ Goto(t, "backupBody")
               /\ UNCHANGED <<fillVars, metaLock>>
               /\ faults' \in {faults, faults + 1}
    <3>1. PICK h \in SUBSET HeadBits :
               /\ loc' = [loc EXCEPT ![t].new = MetaOf(nextFill, loc[t].ver, h)]
               /\ Goto(t, "backupBody")
               /\ UNCHANGED <<fillVars, metaLock>>
               /\ faults' \in {faults, faults + 1}
      BY <2>2
    <3> DEFINE m == MetaOf(nextFill, loc[t].ver, h)
    <3>2. m \in Metas /\ m.etag = loc[t].ver
      BY <1>1, StagedTyped DEF TypeOK
    <3>3. loc' = [loc EXCEPT ![t].new = m]
      BY <3>1
    <3> HIDE DEF m
    <3>4. [loc[t] EXCEPT !.new = m] \in Locals
      BY <1>1, <3>2 DEF Locals
    <3>5. loc' \in [Tasks -> Locals] /\ loc'[t] = [loc[t] EXCEPT !.new = m]
      BY <3>3, <3>4 DEF TasksOK
    <3>6. TypeOK'
      BY <3>1 DEF TypeOK
    <3>7. \A u \in Tasks \ {t} : loc'[u] = loc[u]
      BY <3>3 DEF TasksOK
    <3>8. pc[t] = "stage" /\ loc[t].old = Nothing
      BY DEF Shape
    <3>9. /\ loc'[t].guard = loc[t].guard /\ loc'[t].arc = loc[t].arc
          /\ loc'[t].ver = loc[t].ver /\ loc'[t].exp = loc[t].exp
          /\ loc'[t].new = m /\ loc'[t].old = Nothing
      BY <1>1, <3>5, <3>8 DEF Locals
    <3> QED
      BY <1>2, <3>1, <3>2, <3>5, <3>6, <3>7, <3>9 DEF Replacing
  <2>3. PreservedHead(loc[t].ver) \in SUBSET HeadBits /\ {} \in SUBSET HeadBits
    BY DEF PreservedHead, Readable, TypeOK, Metas
  <2> QED
    BY <2>1, <2>2, <2>3
\* Backups are the only locals that move after the staging.
<1>5. ASSUME UNCHANGED <<cur, entry, metaLock>>, NEW l \in Replacing \ {"stage", "backupBody"},
             Goto(t, l), pc[t] # "stage", TypeOK', res' = res, detached' = detached,
             crashes' = crashes, cancels' = cancels, faults' \in {faults, faults + 1},
             \/ loc' = loc
             \/ loc' = [loc EXCEPT ![t].old.body = body]
             \/ loc' = [loc EXCEPT ![t].old.meta = meta]
      PROVE  FenceInv'
  <2> USE <1>5
  <2>1. PICK o \in Files : loc' = [loc EXCEPT ![t].old = o]
    <3>1. /\ [loc[t].old EXCEPT !.body = body] \in Files
          /\ [loc[t].old EXCEPT !.meta = meta] \in Files
      BY <1>1 DEF TypeOK, Files
    <3>2. \/ loc' = [loc EXCEPT ![t].old = loc[t].old]
          \/ loc' = [loc EXCEPT ![t].old = [loc[t].old EXCEPT !.body = body]]
          \/ loc' = [loc EXCEPT ![t].old = [loc[t].old EXCEPT !.meta = meta]]
      BY <1>1 DEF TasksOK, Locals, Files
    <3> QED
      BY <1>1, <3>1, <3>2
  <2>2. loc' \in [Tasks -> Locals] /\ \A u \in Tasks \ {t} : loc'[u] = loc[u]
    <3>1. [loc[t] EXCEPT !.old = o] \in Locals
      BY <1>1 DEF Locals
    <3> QED
      BY <2>1, <3>1 DEF TasksOK
  <2>3. /\ loc'[t].guard = loc[t].guard /\ loc'[t].arc = loc[t].arc
        /\ loc'[t].ver = loc[t].ver /\ loc'[t].exp = loc[t].exp
        /\ loc'[t].new = loc[t].new
    BY <1>1, <2>1 DEF TasksOK, Locals
  <2>4. loc[t].new # None /\ loc[t].new.etag = loc[t].ver
    BY <1>1 DEF Shape
  <2> QED
    BY <1>2, <2>2, <2>3, <2>4
<1>6. CASE CommitBackupBody(t)
  <2> USE <1>6 DEF CommitBackupBody
  <2>1. CASE Fails /\ GiveUpLocked(t) /\ UNCHANGED <<body, loc>>
    BY <1>3, <2>1 DEF TypeOK
  <2>2. CASE Goto(t, "backupMeta") /\ UNCHANGED <<fillVars, metaLock>>
    BY <1>5, <2>2 DEF TypeOK, Replacing
  <2> QED
    BY <2>1, <2>2
<1>7. CASE CommitBackupMeta(t)
  BY <1>5, <1>7 DEF CommitBackupMeta, UndoUnpublished, TypeOK, Replacing
<1>8. CASE CommitPublishBody(t)
  BY <1>1, <1>5, <1>8 DEF CommitPublishBody, UndoUnpublished, TypeOK, Replacing
<1>9. CASE CommitPublishMeta(t)
  <2>1. loc[t].new \in Metas
    BY <1>1, <1>9 DEF CommitPublishMeta, Shape, Locals, Replacing
  <2> QED
    BY <1>5, <1>9, <2>1 DEF CommitPublishMeta, TypeOK, Replacing
<1>10. CASE CommitUndoBody(t)
  BY <1>1, <1>5, <1>10 DEF CommitUndoBody, TypeOK, Replacing, Files
<1>11. CASE CommitUndoMeta(t)
  BY <1>1, <1>3, <1>11 DEF CommitUndoMeta, TypeOK, Files
<1>12. CASE CommitClear(t)
  <2> USE <1>12 DEF CommitClear, ClearPoison
  <2>1. entryCount' \in Nat
    BY DEF SaturatingPred, TypeOK
  <2>2. poisonFile' \in BOOLEAN /\ poisonMem' \in BOOLEAN /\ faults' \in {faults, faults + 1}
    BY DEF TypeOK
  <2> QED
    BY <1>3, <2>1, <2>2 DEF TypeOK
<1> QED
  BY <1>4, <1>6, <1>7, <1>8, <1>9, <1>10, <1>11, <1>12

(* begin_fill: the map's FillEntry, or a new one nobody refers to, gets one  *)
(* registration more.                                                        *)
LEMMA BeginFillKeeps ==
  ASSUME FenceInv, NEW t \in Tasks, BeginFill(t)
  PROVE  FenceInv'
<1> USE TaskAssumption, EntryAssumption, ValueAssumption
    DEF FenceInv, BeginFill, diskVars, fillVars, lateVars
<1> DEFINE Old(e) == IF cur = None THEN FreshEntry ELSE entry[e]
<1>1. PICK e \in EntryIds :
        /\ IF cur = None THEN FreeEntry(e) ELSE e = cur
        /\ entry' = [entry EXCEPT ![e] = [Old(e) EXCEPT !.refs = @ + 1]]
        /\ loc' = [loc EXCEPT ![t].guard = Old(e).gen]
        /\ cur' = e
  BY Zenon
<1> DEFINE old == Old(e)
<1>2. /\ old \in [refs : Nat, gen : Nat, owner : Tasks \cup {None}]
      /\ cur = None => old.refs = 0
      /\ cur # None => old = entry[cur]
  BY <1>1 DEF FreshEntry, TypeOK
<1>3. entry' = [entry EXCEPT ![e] = [old EXCEPT !.refs = @ + 1]]
  BY <1>1
<1>4. loc' = [loc EXCEPT ![t].guard = old.gen]
  BY <1>1
<1>5. cur = None => \A u \in Tasks : loc[u].arc # e
  BY <1>1 DEF FreeEntry
<1> HIDE DEF old, Old
<1>6. /\ entry' \in Entries
      /\ entry'[e].refs = old.refs + 1 /\ entry'[e].gen = old.gen
      /\ \A d \in EntryIds \ {e} : entry'[d] = entry[d]
      /\ cur # None => entry'[e].owner = entry[e].owner
  BY <1>1, <1>2, <1>3 DEF TypeOK, Entries
<1>7. [loc[t] EXCEPT !.guard = old.gen] \in Locals
  <2>1. loc[t] \in Locals /\ old.gen \in Nat
    BY <1>2 DEF TasksOK
  <2> QED
    BY <2>1, LocalsStay
<1>8. /\ loc' \in [Tasks -> Locals] /\ loc'[t] = [loc[t] EXCEPT !.guard = old.gen]
      /\ \A u \in Tasks \ {t} : loc'[u] = loc[u]
  BY <1>4, <1>7 DEF TasksOK
<1>9. TypeOK'
  BY <1>1, <1>6 DEF TypeOK, Entries
<1>10. TasksOK'
  <2>1. Outcome("done") \in Results /\ Outcome("done").is # "hit"
    BY Typed DEF Answers
  <2> QED
    BY <1>8, <2>1 DEF TasksOK
<1>11. /\ loc'[t].guard = old.gen /\ loc'[t].guard # None /\ loc'[t].arc = None
       /\ loc'[t] = [NoLocals EXCEPT !.guard = loc'[t].guard]
  BY <1>2, <1>8 DEF TasksOK, Locals, Shape, NoLocals
<1>12. Shape(t)' /\ Holds(t)' /\ Fenced(t)'
  BY <1>11 DEF Shape, Holds, Fenced, Filling, Replacing, Invalidating, Removing
<1>13. Only(t) /\ SparesOthers(t)
  <2>1. \A u \in Tasks : loc[u].arc \in EntryIds \cup {None}
    BY DEF TasksOK, Locals
  <2> QED
    BY <1>1, <1>2, <1>5, <1>6, <1>8, <2>1 DEF Only, SparesOthers
<1>14. Guarding \ {t} # {} => cur' = cur
  BY <1>1 DEF RegistrationHolds
<1>15. RegistrationHolds'
  <2>1. Guarding' = Guarding \cup {t} /\ t \notin Guarding
    BY <1>8, <1>11 DEF Guarding
  <2>2. IsFiniteSet(Guarding) /\ Cardinality(Guarding) \in Nat
    BY FS_Subset, FS_CardinalityType DEF Guarding
  <2>3. Cardinality(Guarding') = Cardinality(Guarding) + 1
    BY <2>1, <2>2, FS_AddElement
  <2>4. Cardinality(Guarding) <= old.refs
    <3>1. CASE Guarding = {}
      <4>1. Cardinality(Guarding) = 0
        BY <3>1, FS_EmptySet
      <4> QED
        BY <1>2, <4>1
    <3>2. CASE Guarding # {}
      BY <1>2, <2>2, <3>2 DEF RegistrationHolds
    <3> QED
      BY <3>1, <3>2
  <2>5. entry'[cur'].refs >= Cardinality(Guarding')
    BY <1>1, <1>2, <1>6, <2>2, <2>3, <2>4
  <2>6. \A u \in Guarding' : loc'[u].arc \in {None, cur'}
    <3> TAKE u \in Guarding'
    <3>1. CASE u = t
      BY <1>11, <3>1
    <3>2. CASE u # t
      <4>1. u \in Guarding
        BY <2>1, <3>2
      <4> QED
        BY <1>1, <1>8, <4>1 DEF RegistrationHolds, Guarding
    <3> QED
      BY <3>1, <3>2
  <2> QED
    BY <1>1, <2>5, <2>6 DEF RegistrationHolds
<1>16. \A u \in Tasks \ {t} : Shape(u)' /\ Holds(u)' /\ Fenced(u)'
  BY <1>9, <1>13, <1>14, OthersHold
<1> QED
  BY <1>9, <1>10, <1>12, <1>15, <1>16 DEF PublishFenced

(* finish_fill: the map keeps the FillEntry while a registration is left.    *)
LEMMA FinishFillKeeps ==
  ASSUME FenceInv, NEW t \in Tasks, loc[t].guard # None, FinishFill(t)
  PROVE  FenceInv'
<1> USE TaskAssumption, ValueAssumption DEF FenceInv, FinishFill, diskVars, fillVars, lateVars
<1>1. t \in Guarding /\ cur # None /\ cur \in EntryIds
  BY DEF Guarding, RegistrationHolds, TypeOK
<1>2. /\ IsFiniteSet(Guarding) /\ Cardinality(Guarding) \in Nat
      /\ Cardinality(Guarding \ {t}) = Cardinality(Guarding) - 1
      /\ IsFiniteSet(Guarding \ {t}) /\ Cardinality(Guarding \ {t}) \in Nat
  BY <1>1, FS_Subset, FS_CardinalityType, FS_RemoveElement DEF Guarding
<1>3. entry[cur].refs \in Nat /\ entry[cur].refs >= Cardinality(Guarding)
  BY <1>1 DEF RegistrationHolds, TypeOK
<1>4. entry[cur].refs - 1 \in Nat /\ entry[cur].refs - 1 >= Cardinality(Guarding \ {t})
  BY <1>2, <1>3
<1>5. /\ entry' \in Entries
      /\ entry'[cur].refs = entry[cur].refs - 1
      /\ \A e \in EntryIds : entry'[e].gen = entry[e].gen /\ entry'[e].owner = entry[e].owner
  BY <1>1, <1>4 DEF TypeOK, Entries
<1>6. /\ pc' \in [Tasks -> Labels] /\ loc' \in [Tasks -> Locals] /\ res' \in [Tasks -> Results]
      /\ \A u \in Tasks : res'[u].is = "hit" => res'[u].meta \in Metas
      /\ Shape(t)' /\ Holds(t)' /\ Fenced(t)' /\ Only(t)
      /\ loc'[t].guard = None
  <2>1. Outcome("done") \in Results /\ Outcome("done").is # "hit"
    BY Typed DEF Answers
  <2> QED
    BY <2>1, Returns
<1>7. TypeOK' /\ TasksOK'
  BY <1>1, <1>5, <1>6 DEF TypeOK, TasksOK, Entries
<1>8. SparesOthers(t)
  <2>1. \A u \in Tasks : loc[u].arc \in EntryIds \cup {None}
    BY DEF TasksOK, Locals
  <2> QED
    BY <1>5, <2>1 DEF SparesOthers
<1>9. Guarding' = Guarding \ {t}
  BY <1>6 DEF Guarding, Only
<1>10. Guarding \ {t} # {} => cur' = cur
  <2>1. Guarding \ {t} # {} => Cardinality(Guarding \ {t}) # 0
    BY <1>2, FS_EmptySet
  <2> QED
    BY <1>1, <1>2, <1>3, <1>4, <2>1
<1>11. RegistrationHolds'
  <2> SUFFICES ASSUME Guarding' # {} PROVE RegistrationHolds'
    BY DEF RegistrationHolds
  <2>1. cur' = cur /\ entry'[cur'].refs >= Cardinality(Guarding')
    BY <1>4, <1>5, <1>9, <1>10
  <2>2. \A u \in Guarding' : loc'[u].arc \in {None, cur}
    <3> TAKE u \in Guarding'
    <3>1. u \in Guarding /\ u \in Tasks \ {t} /\ loc[u].arc \in {None, cur}
      BY <1>9 DEF RegistrationHolds, Guarding
    <3> QED
      BY <1>6, <3>1 DEF Only
  <2> QED
    BY <1>1, <2>1, <2>2 DEF RegistrationHolds
<1>12. \A u \in Tasks \ {t} : Shape(u)' /\ Holds(u)' /\ Fenced(u)'
  BY <1>6, <1>7, <1>8, <1>10, OthersHold
<1> QED
  BY <1>6, <1>7, <1>11, <1>12 DEF PublishFenced

(* purge, poison and their conditional forms up to the metadata lock.        *)
LEMMA InvalidateEntersKeeps ==
  ASSUME FenceInv, NEW t \in Tasks,
         \/ \E k \in {"purge", "poison"}, x \in Nat \cup {None} : Invalidate(t, k, x)
         \/ InvalidateLock(t) \/ InvalidateMetaLock(t)
  PROVE  FenceInv'
<1> USE ValueAssumption DEF FenceInv, Goto, diskVars, fillVars, lateVars
<1>1. ASSUME NEW k \in {"purge", "poison"}, NEW x \in Nat \cup {None}, Invalidate(t, k, x)
      PROVE  FenceInv'
  <2> DEFINE l == [loc[t] EXCEPT !.kind = k, !.exp = x, !.arc = cur]
  <2>1. loc' = [loc EXCEPT ![t] = l]
    BY <1>1 DEF Invalidate, TasksOK
  <2>2. loc[t] \in Locals /\ loc[t].guard = None /\ cur \in EntryIds \cup {None}
    BY <1>1 DEF Invalidate, TypeOK, TasksOK
  <2>3. l \in Locals /\ l.kind = k /\ l.exp = x /\ l.arc = cur /\ l.guard = None
    BY <2>2 DEF Locals
  <2> HIDE DEF l
  <2>4. /\ loc' \in [Tasks -> Locals] /\ loc'[t] = l
        /\ \A u \in Tasks \ {t} : loc'[u] = loc[u]
    BY <2>1, <2>3 DEF TasksOK
  <2>5. /\ pc' \in [Tasks -> Labels] /\ pc'[t] = IF cur = None THEN "invalMeta" ELSE "invalLock"
        /\ \A u \in Tasks \ {t} : pc'[u] = pc[u]
    BY <1>1 DEF Invalidate, TasksOK, Labels, Invalidating
  <2>6. UNCHANGED <<body, meta, poisonFile, poisonMem, cur, entry, metaLock, entryCount,
                    nextFill, faults, detached, crashes, cancels>>
    BY <1>1 DEF Invalidate
  <2>7. TypeOK'
    BY <2>6 DEF TypeOK
  <2>8. TasksOK'
    <3>1. Outcome("none") \in Results /\ Outcome("none").is # "hit"
      BY Typed DEF Answers
    <3>2. res' = [res EXCEPT ![t] = Outcome("none")]
      BY <1>1 DEF Invalidate
    <3> QED
      BY <2>4, <2>5, <2>6, <3>1, <3>2 DEF TasksOK
  <2>9. Shape(t)' /\ Holds(t)' /\ Fenced(t)'
    BY <2>3, <2>4, <2>5 DEF Shape, Holds, Fenced, Filling, Replacing, Invalidating, Removing
  <2>10. Only(t) /\ SparesOthers(t) /\ KeepsFills(t)
    BY <2>3, <2>4, <2>5, <2>6 DEF Only, SparesOthers, KeepsFills
  <2> QED
    BY <2>7, <2>8, <2>9, <2>10, TaskStep
<1>2. CASE InvalidateLock(t)
  <2> DEFINE ents == IF loc[t].exp = None THEN Bumped(t, entry) ELSE entry
  <2>1. loc[t].arc \in EntryIds /\ entry \in Entries /\ entry[loc[t].arc].owner = None
    BY <1>2 DEF InvalidateLock, TypeOK, TasksOK, Locals, Shape, Entries
  <2>2. /\ ents \in Entries
        /\ \A e \in EntryIds : /\ ents[e].refs = entry[e].refs /\ ents[e].owner = entry[e].owner
                               /\ e # loc[t].arc => ents[e] = entry[e]
    BY <2>1, BumpedFacts
  <2>3. entry' = [ents EXCEPT ![loc[t].arc].owner = t]
    BY <1>2 DEF InvalidateLock
  <2> HIDE DEF ents
  <2>4. /\ entry' \in Entries /\ entry'[loc[t].arc].owner = t
        /\ \A e \in EntryIds : /\ entry'[e].refs = entry[e].refs
                               /\ e # loc[t].arc => entry'[e] = entry[e]
    BY <2>1, <2>2, <2>3 DEF Entries
  <2> USE <1>2 DEF InvalidateLock
  <2>5. TypeOK' /\ TasksOK'
    BY <2>4 DEF TypeOK, TasksOK, Entries, Labels, Invalidating
  <2>6. Shape(t)' /\ Holds(t)' /\ Fenced(t)'
    BY <2>4 DEF TasksOK, Shape, Holds, Fenced, Filling, Replacing, Invalidating, Removing
  <2>7. Only(t) /\ SparesOthers(t) /\ KeepsFills(t)
    <3>1. \A u \in Tasks : loc[u].arc \in EntryIds \cup {None}
      BY DEF TasksOK, Locals
    <3> QED
      BY <2>1, <2>4, <3>1 DEF TasksOK, Only, SparesOthers, KeepsFills
  <2> QED
    BY <2>5, <2>6, <2>7, TaskStep
<1>3. CASE InvalidateMetaLock(t)
  <2> USE <1>3 DEF InvalidateMetaLock
  <2>1. loc[t].kind \in {"purge", "poison"}
    BY DEF Shape, Invalidating
  <2>2. TypeOK' /\ TasksOK'
    BY <2>1 DEF TypeOK, TasksOK, Labels, Invalidating, Removing
  <2>3. Shape(t)' /\ Holds(t)' /\ Fenced(t)'
    BY <2>1 DEF TasksOK, Shape, Holds, Fenced, Filling, Replacing, Invalidating, Removing
  <2>4. Only(t) /\ SparesOthers(t) /\ KeepsFills(t)
    BY DEF TasksOK, Only, SparesOthers, KeepsFills
  <2> QED
    BY <2>2, <2>3, <2>4, TaskStep
<1> QED
  BY <1>1, <1>2, <1>3

(* An invalidation that has both locks, to its end.                          *)
LEMMA InvalidateRemovesKeeps ==
  ASSUME FenceInv, NEW t \in Tasks,
         \/ PurgeCheck(t) \/ PurgeRemoveBody(t) \/ PurgeRemoveMeta(t) \/ PurgeUnmark(t)
         \/ PoisonMark(t) \/ PoisonWriteMarker(t)
  PROVE  FenceInv'
<1> USE ValueAssumption DEF FenceInv, diskVars, fillVars, lateVars, Works, Fails
<1>1. pc[t] \in Removing /\ metaLock = t
  BY DEF PurgeCheck, PurgeRemoveBody, PurgeRemoveMeta, PurgeUnmark, PoisonMark,
         PoisonWriteMarker, Removing, Holds
<1>2. entry \in Entries /\ loc[t].arc \in EntryIds \cup {None}
  BY DEF TypeOK, TasksOK, Locals, Entries
<1>3. loc[t].arc # None => entry[loc[t].arc].owner = t
  BY <1>1 DEF Holds
<1>4. \A u \in Tasks : loc[u].arc \in EntryIds \cup {None}
  BY DEF TasksOK, Locals
<1>5. /\ Bumped(t, entry) \in Entries
      /\ \A e \in EntryIds : /\ Bumped(t, entry)[e].refs = entry[e].refs
                             /\ Bumped(t, entry)[e].owner = entry[e].owner
                             /\ e # loc[t].arc => Bumped(t, entry)[e] = entry[e]
  BY <1>2, BumpedFacts
\* The invalidation returns and drops its locks, having fenced the fills or not.
<1>6. ASSUME NEW r \in Results, r.is = "hit" => r.meta \in Metas, Return(t, r),
             metaLock' = None, cur' = cur,
             entry' \in {Unlocked(t, entry), Unlocked(t, Bumped(t, entry))},
             detached' = detached, crashes' = crashes, cancels' = cancels,
             faults' \in {faults, faults + 1},
             body' \in Versions \cup {None}, meta' \in Metas \cup {Corrupt, None},
             poisonFile' \in BOOLEAN, poisonMem' \in BOOLEAN,
             entryCount' \in Nat, nextFill' = nextFill
      PROVE  FenceInv'
  <2> USE <1>6
  <2>1. /\ entry' \in Entries
        /\ \A e \in EntryIds : /\ entry'[e].refs = entry[e].refs
                               /\ e # loc[t].arc => entry'[e] = entry[e]
    BY <1>2, <1>5, UnlockedFacts
  <2>2. TypeOK' /\ TasksOK'
    BY <2>1, Returns DEF TypeOK, TasksOK, Entries
  <2>3. SparesOthers(t)
    BY <1>1, <1>3, <1>4, <2>1 DEF SparesOthers
  <2>4. Shape(t)' /\ Holds(t)' /\ Fenced(t)' /\ Only(t) /\ KeepsFills(t)
    BY <2>1, Returns DEF KeepsFills
  <2> QED
    BY <2>2, <2>3, <2>4, TaskStep
\* The invalidation goes on to its next removal.
<1>7. ASSUME NEW l \in {"removeBody", "removeMeta", "unmark", "marker"}, Goto(t, l), loc' = loc,
             res' \in [Tasks -> Results],
             \A u \in Tasks : res'[u].is = "hit" => res'[u].meta \in Metas,
             metaLock' = metaLock, cur' = cur, entry' \in {entry, Bumped(t, entry)},
             detached' = detached, crashes' = crashes, cancels' = cancels, faults' = faults,
             body' \in {body, None}, meta' \in {meta, None}, poisonFile' = poisonFile,
             poisonMem' \in BOOLEAN, entryCount' \in Nat, nextFill' = nextFill
      PROVE  FenceInv'
  <2> USE <1>7
  <2>1. /\ entry' \in Entries
        /\ \A e \in EntryIds : /\ entry'[e].refs = entry[e].refs
                               /\ entry'[e].owner = entry[e].owner
                               /\ e # loc[t].arc => entry'[e] = entry[e]
    BY <1>2, <1>5
  <2>2. pc' \in [Tasks -> Labels] /\ pc'[t] = l /\ Only(t)
    BY DEF Goto, TasksOK, Labels, Invalidating, Removing, Only
  <2>3. TypeOK' /\ TasksOK'
    BY <2>1, <2>2 DEF TypeOK, TasksOK, Entries
  <2>4. Shape(t)' /\ Holds(t)' /\ Fenced(t)'
    BY <1>1, <1>2, <2>1, <2>2 DEF Shape, Holds, Fenced, Filling, Replacing, Invalidating, Removing
  <2>5. SparesOthers(t) /\ KeepsFills(t)
    BY <1>1, <1>3, <1>4, <2>1 DEF SparesOthers, KeepsFills
  <2> QED
    BY <2>2, <2>3, <2>4, <2>5, TaskStep
<1>13. /\ Outcome("err") \in Results /\ Outcome("err").is # "hit"
       /\ Outcome("true") \in Results /\ Outcome("true").is # "hit"
       /\ Outcome("false") \in Results /\ Outcome("false").is # "hit"
       /\ Outcome("done") \in Results /\ Outcome("done").is # "hit"
  BY Typed DEF Answers
<1>14. /\ res \in [Tasks -> Results] /\ \A u \in Tasks : res[u].is = "hit" => res[u].meta \in Metas
       /\ res[t] \in Results
  BY DEF TasksOK
\* The purge goes on to the removal of the marker.
<1>15. ASSUME NEW r \in Results, r.is # "hit", Unmarks(t, r),
             detached' = detached, crashes' = crashes, cancels' = cancels, faults' = faults,
             body' \in {body, None}, meta' \in {meta, None}, entryCount' \in Nat,
             nextFill' = nextFill
       PROVE FenceInv'
  <2>1. /\ res' \in [Tasks -> Results]
        /\ \A u \in Tasks : res'[u].is = "hit" => res'[u].meta \in Metas
    BY <1>14, <1>15 DEF Unmarks
  <2> QED
    BY <1>7, <1>15, <2>1 DEF Unmarks
<1> USE <1>13, <1>14 DEF ReturnUnlocked, ReleaseLocks, TypeOK
<1>8. CASE PurgeCheck(t)
  <2> USE <1>8 DEF PurgeCheck
  <2>1. CASE /\ Goto(t, "removeBody") /\ Works /\ entry' \in {entry, Bumped(t, entry)}
             /\ UNCHANGED <<body, poisonMem, poisonFile, entryCount, cur, metaLock, loc, res>>
    BY <1>7, <2>1
  <2>2. CASE /\ Fails /\ Return(t, Outcome("err")) /\ metaLock' = None /\ cur' = cur
             /\ entry' \in {Unlocked(t, entry), Unlocked(t, Bumped(t, entry))}
             /\ UNCHANGED <<body, poisonMem, poisonFile, entryCount>>
    BY <1>6, <2>2
  <2>3. CASE Works /\ UNCHANGED <<body, poisonMem, poisonFile, entryCount>>
              /\ ReturnUnlocked(t, Outcome(IF meta = Corrupt THEN "err" ELSE "false"))
    BY <1>6, <2>3
  <2>4. CASE Works /\ body' = None /\ Unmarks(t, Outcome("false"))
    <3>1. entryCount' \in Nat
      BY DEF SaturatingPred
    <3> QED
      BY <1>15, <2>4, <3>1
  <2> QED
    BY <2>1, <2>2, <2>3, <2>4
<1>9. CASE PurgeRemoveBody(t)
  BY <1>6, <1>7, <1>9 DEF PurgeRemoveBody
<1>10. CASE PurgeRemoveMeta(t)
  <2> USE <1>10 DEF PurgeRemoveMeta
  <2>1. entryCount' \in Nat /\ meta' \in {meta, None}
    BY DEF SaturatingPred
  <2> QED
    BY <1>6, <1>15, <2>1
<1>11. CASE PoisonMark(t)
  BY <1>6, <1>7, <1>11 DEF PoisonMark
<1>12. CASE PoisonWriteMarker(t)
  BY <1>6, <1>12 DEF PoisonWriteMarker
<1>16. CASE PurgeUnmark(t)
  BY <1>6, <1>16 DEF PurgeUnmark
<1> QED
  BY <1>8, <1>9, <1>10, <1>11, <1>12, <1>16

(* Lookups, metadata updates and dropped guards: they hold no lock from one  *)
(* step to the next and take part in no fill afterwards.                     *)
LEMMA ReadsKeep ==
  ASSUME FenceInv, NEW t \in Tasks,
         \/ Lookup(t) \/ LookupLocked(t) \/ CancelLookup(t) \/ DropGuard(t)
         \/ \E s \in Metas, b \in HeadBits : UpdateMetadata(t, s, b) \/ CancelUpdate(t, s, b)
         \/ \E s \in Metas, h \in Nat : RewriteLastAccessed(t, s, h)
  PROVE  FenceInv'
<1> USE ValueAssumption DEF FenceInv, diskVars, fillVars, lateVars, Works, Fails
\* A method returns without having touched locks and registrations.
<1>1. ASSUME NEW r \in Results, r.is = "hit" => r.meta \in Metas, Return(t, r),
             UNCHANGED <<cur, entry, metaLock, nextFill>>,
             poisonFile' = poisonFile, poisonMem' = poisonMem,
             body' \in {body, None}, meta' \in Metas \cup {meta, None}, entryCount' \in Nat,
             detached' \subseteq Ops, crashes' = crashes, cancels' \in {cancels, cancels + 1},
             faults' \in {faults, faults + 1, faults + 2}
      PROVE  FenceInv'
  <2> USE <1>1
  <2>1. TypeOK' /\ TasksOK'
    BY Returns DEF TypeOK, TasksOK
  <2>2. Shape(t)' /\ Holds(t)' /\ Fenced(t)' /\ Only(t) /\ SparesOthers(t) /\ KeepsFills(t)
    BY Returns DEF SparesOthers, KeepsFills
  <2> QED
    BY <2>1, <2>2, TaskStep
<1>2. \A s \in Answers : Outcome(s) \in Results /\ Outcome(s).is # "hit"
  BY Typed
<1>3. CASE Lookup(t)
  <2> USE <1>3 DEF Lookup
  <2>1. CASE \E s \in Answers : Return(t, Outcome(s))
    BY <1>1, <1>2, <2>1 DEF TypeOK, TasksOK
  <2>2. CASE /\ Goto(t, "lookup") /\ loc' = loc /\ Works
             /\ res' = [res EXCEPT ![t] = Outcome("none")]
    <3>1. pc' \in [Tasks -> Labels] /\ pc'[t] = "lookup" /\ Only(t)
      BY <2>2 DEF Goto, TasksOK, Labels, Only
    <3>2. Outcome("none") \in Results /\ Outcome("none").is # "hit"
      BY <1>2 DEF Answers
    <3>3. TypeOK' /\ TasksOK'
      BY <2>2, <3>1, <3>2 DEF TypeOK, TasksOK
    <3>4. Shape(t)' /\ Holds(t)' /\ Fenced(t)'
      BY <2>2, <3>1 DEF Shape, Holds, Fenced, Filling, Replacing, Invalidating, Removing
    <3>5. SparesOthers(t) /\ KeepsFills(t)
      BY <2>2 DEF SparesOthers, KeepsFills
    <3> QED
      BY <3>1, <3>3, <3>4, <3>5, TaskStep
  <2> QED
    BY <2>1, <2>2 DEF Answers
<1>4. CASE LookupLocked(t)
  <2> USE <1>4 DEF LookupLocked
  <2>1. /\ UNCHANGED <<cur, entry, metaLock, nextFill, poisonFile, poisonMem, detached,
                       crashes, cancels>>
        /\ body' \in {body, None} /\ meta' \in {meta, None}
        /\ faults' \in {faults, faults + 1, faults + 2}
    BY DEF CleanupOrphan
  <2>2. entryCount' \in Nat
    BY DEF CleanupOrphan, SaturatingPred, TypeOK
  <2>3. PICK r : Return(t, r) /\ (r \in {Outcome(s) : s \in Answers} \/ (Readable(meta) /\ r = Hit))
    BY DEF Answers
  <2>4. r \in Results /\ (r.is = "hit" => r.meta \in Metas)
    BY <1>2, <2>3 DEF Hit, Results, Readable, TypeOK
  <2> QED
    BY <1>1, <2>1, <2>2, <2>3, <2>4 DEF TypeOK, TasksOK
<1>9. CASE CancelLookup(t)
  <2> USE <1>9 DEF CancelLookup, Detach
  <2>1. detached' \subseteq Ops
    BY DEF TasksOK, FileOp, Ops
  <2> QED
    BY <1>1, <1>2, <2>1 DEF TypeOK, TasksOK, Answers
<1>5. CASE DropGuard(t)
  <2> USE <1>5 DEF DropGuard
  <2>1. loc' \in [Tasks -> Locals] /\ loc'[t] = NoLocals /\ Only(t)
    BY Typed DEF TasksOK, Only
  <2>2. TypeOK' /\ TasksOK'
    BY <2>1 DEF TypeOK, TasksOK
  <2>3. Shape(t)' /\ Holds(t)' /\ Fenced(t)'
    BY <2>1 DEF Shape, Holds, Fenced, Filling, Replacing, Invalidating, Removing, NoLocals
  <2>4. SparesOthers(t) /\ KeepsFills(t)
    BY <2>1 DEF SparesOthers, KeepsFills, NoLocals
  <2> QED
    BY <2>1, <2>2, <2>3, <2>4, TaskStep
<1>6. ASSUME NEW s \in Metas, NEW b \in HeadBits, UpdateMetadata(t, s, b) PROVE FenceInv'
  <2> USE <1>6 DEF UpdateMetadata
  <2>1. meta' \in Metas \cup {meta, None}
    BY UpdatedTyped DEF TypeOK, Readable
  <2>2. PICK a \in Answers : Return(t, Outcome(a))
    BY DEF Answers
  <2> QED
    BY <1>1, <1>2, <2>1, <2>2 DEF TypeOK, TasksOK
<1>7. ASSUME NEW s \in Metas, NEW b \in HeadBits, CancelUpdate(t, s, b) PROVE FenceInv'
  <2> USE <1>7 DEF CancelUpdate, Detach
  <2>1. UpdatedMeta(s, b) \in Metas
    BY UpdatedTyped DEF TypeOK, Readable
  <2>2. detached' \subseteq Ops
    BY <2>1 DEF TasksOK, Ops
  <2> QED
    BY <1>1, <1>2, <2>2 DEF TypeOK, TasksOK, Answers
<1>8. ASSUME NEW s \in Metas, NEW h \in Nat, RewriteLastAccessed(t, s, h) PROVE FenceInv'
  <2> USE <1>8 DEF RewriteLastAccessed
  <2>1. Readable(meta) => [meta EXCEPT !.atime = h, !.synced = FALSE] \in Metas
    BY DEF TypeOK, Readable, Metas
  <2>2. meta' \in Metas \cup {meta, None}
    BY <2>1
  <2> QED
    BY <1>1, <1>2, <2>2 DEF TypeOK, TasksOK, Answers
<1> QED
  BY <1>3, <1>4, <1>5, <1>6, <1>7, <1>8, <1>9

(* A dropped invalidation gives its locks back and leaves its file operation *)
(* behind.                                                                   *)
LEMMA CancelInvalidateKeeps ==
  ASSUME FenceInv, NEW t \in Tasks, CancelInvalidate(t)
  PROVE  FenceInv'
<1> USE ValueAssumption DEF FenceInv, CancelInvalidate, Detach, diskVars
<1>1. /\ entry' \in Entries
      /\ \A e \in EntryIds :
           /\ entry'[e].refs = entry[e].refs
           /\ entry'[e].gen = entry[e].gen
           /\ entry[e].owner # t => entry'[e] = entry[e]
  BY DEF TypeOK, Entries
<1>2. detached' \subseteq Ops
  BY DEF TasksOK, Pending, FileOp, Ops
<1>3. Outcome("none") \in Results /\ Outcome("none").is # "hit"
  BY Typed DEF Answers
<1>4. TypeOK' /\ TasksOK'
  BY <1>1, <1>2, <1>3, Returns DEF TypeOK, TasksOK, Entries
<1>5. SparesOthers(t)
  <2>1. \A u \in Tasks : loc[u].arc \in EntryIds \cup {None}
    BY DEF TasksOK, Locals
  <2> QED
    BY <1>1, <2>1 DEF SparesOthers
<1>6. Shape(t)' /\ Holds(t)' /\ Fenced(t)' /\ Only(t) /\ KeepsFills(t)
  BY <1>1, <1>3, Returns DEF KeepsFills
<1> QED
  BY <1>4, <1>5, <1>6, TaskStep

(* A file operation that runs late touches the files only.                   *)
LEMMA RunDetachedKeeps ==
  ASSUME FenceInv, RunDetached
  PROVE  FenceInv'
<1> USE DEF FenceInv, RunDetached, fillVars
<1>1. TypeOK'
  BY DEF TypeOK, TasksOK, Ops
<1>2. TasksOK'
  BY DEF TasksOK
<1> QED
  BY <1>1, <1>2 DEF Shape, Holds, RegistrationHolds, Guarding, PublishFenced, Fenced

(* A restart forgets tasks, locks and registrations.                         *)
LEMMA RestartKeeps ==
  ASSUME FenceInv, Restart
  PROVE  FenceInv'
<1> USE ValueAssumption DEF FenceInv, Restart, Works, Fails
<1>1. TypeOK'
  <2>1. body' \in Versions \cup {None} /\ meta' \in Metas \cup {Corrupt, None}
    BY DEF TypeOK
  <2>2. entryCount' \in Nat
    BY DEF OtherEntries
  <2>3. entry' \in Entries
    BY DEF FreshEntry, Entries
  <2> QED
    BY <2>1, <2>2, <2>3 DEF TypeOK, Entries
<1>2. TasksOK'
  <2>1. Outcome("none") \in Results /\ Outcome("none").is # "hit" /\ NoLocals \in Locals
    BY Typed DEF Answers
  <2> QED
    BY <2>1 DEF TasksOK, Labels
<1>3. \A t \in Tasks : Shape(t)' /\ Holds(t)' /\ Fenced(t)'
  BY DEF Shape, Holds, Fenced, Filling, Replacing, Invalidating, Removing, NoLocals
<1>4. Guarding' = {}
  BY DEF Guarding, NoLocals
<1> QED
  BY <1>1, <1>2, <1>3, <1>4 DEF RegistrationHolds, PublishFenced

(* Every step keeps the invariant.                                           *)
LEMMA NextKeeps ==
  ASSUME FenceInv, [Next]_vars
  PROVE  FenceInv'
<1>1. CASE Restart
  BY <1>1, RestartKeeps
<1>2. CASE RunDetached
  BY <1>2, RunDetachedKeeps
<1>3. ASSUME NEW t \in Tasks, Call(t) PROVE FenceInv'
  <2>1. res[t].is = "hit" => res[t].meta \in Metas /\ res[t].meta.fill \in Nat
    BY DEF FenceInv, TasksOK, Metas
  <2>2. CASE CallFill(t)
    BY <2>2, BeginFillKeeps, CommitEntersKeeps, FinishFillKeeps, ReadsKeep DEF CallFill, AbortFill
  <2>3. CASE CallInvalidate(t)
    BY <2>1, <2>3, InvalidateEntersKeeps DEF CallInvalidate, HitBy
  <2>4. CASE Lookup(t)
    BY <2>4, ReadsKeep
  <2>5. CASE CallUpdate(t)
    BY <2>1, <2>5, ReadsKeep DEF CallUpdate, HitBy, Metas
  <2> QED
    BY <1>3, <2>2, <2>3, <2>4, <2>5 DEF Call
<1>4. ASSUME NEW t \in Tasks, MethodStep(t) PROVE FenceInv'
  <2>1. CASE CommitFinish(t)
    <3>1. loc[t].guard # None
      BY <2>1 DEF CommitFinish, FenceInv, Shape, Filling
    <3> QED
      BY <2>1, <3>1, FinishFillKeeps DEF CommitFinish
  <2>2. CASE CommitStep(t) /\ ~CommitFinish(t)
    BY <2>2, CommitEntersKeeps, CommitReplacesKeeps DEF CommitStep
  <2>3. CASE InvalidateStep(t)
    BY <2>3, InvalidateEntersKeeps, InvalidateRemovesKeeps DEF InvalidateStep
  <2>4. CASE LookupLocked(t)
    BY <2>4, ReadsKeep
  <2> QED
    BY <1>4, <2>1, <2>2, <2>3, <2>4 DEF MethodStep
<1>5. ASSUME NEW t \in Tasks, CancelInvalidate(t) \/ CancelLookup(t) PROVE FenceInv'
  BY <1>5, CancelInvalidateKeeps, ReadsKeep
<1>6. CASE UNCHANGED vars
  BY <1>6 DEF vars, FenceInv, TypeOK, TasksOK, Shape, Holds, RegistrationHolds, Guarding,
              PublishFenced, Fenced
<1> QED
  BY <1>1, <1>2, <1>3, <1>4, <1>5, <1>6 DEF Next

(* The initial states satisfy it.                                            *)
LEMMA InitFenced == Init => FenceInv
<1> SUFFICES ASSUME Init PROVE FenceInv
  OBVIOUS
<1> USE ValueAssumption DEF Init
<1>1. body \in Versions \cup {None} /\ meta \in Metas \cup {None}
  <2>1. \A v \in Versions : MetaOf(0, v, {}) \in Metas
    BY StagedTyped
  <2> QED
    BY <2>1, Zenon
<1>2. TypeOK
  <2>1. entryCount \in Nat
    BY DEF OtherEntries
  <2>2. entry \in Entries
    BY DEF FreshEntry, Entries
  <2> QED
    BY <1>1, <2>1, <2>2 DEF TypeOK, Entries
<1>3. TasksOK
  <2>1. Outcome("none") \in Results /\ Outcome("none").is # "hit" /\ NoLocals \in Locals
    BY Typed DEF Answers
  <2> QED
    BY <2>1 DEF TasksOK, Labels
<1>4. \A t \in Tasks : Shape(t) /\ Holds(t) /\ Fenced(t)
  BY DEF Shape, Holds, Fenced, Filling, Replacing, Invalidating, Removing, NoLocals
<1>5. Guarding = {}
  BY DEF Guarding, NoLocals
<1> QED
  BY <1>2, <1>3, <1>4, <1>5 DEF FenceInv, RegistrationHolds, PublishFenced

(* The locks, registrations and locals are consistent in every reachable     *)
(* state.                                                                    *)
THEOREM DiskConsistent == Spec => []FenceInv
BY InitFenced, NextKeeps, PTL DEF Spec

(* FillsFenced for any number of tasks, failures, restarts and dropped calls *)
(* and whatever runs late: a fill replaces files only under both locks and   *)
(* with the generation of its begin_fill.                                    *)
THEOREM FillsAreFenced == Spec => []FillsFenced
<1>1. FenceInv => FillsFenced
  BY DEF FenceInv, FillsFenced
<1> QED
  BY <1>1, DiskConsistent, PTL
=============================================================================
