---------------------------- MODULE ProcessProofs ----------------------------
(***************************************************************************)
(* Proofs about the parts that MCProcess checks together: the temporary    *)
(* files, the directories made at start, start and shutdown, and the scan  *)
(* of the cache directory.                                                 *)
(***************************************************************************)
EXTENDS TmpFiles, SecureDirs, Lifecycle, StartupScan, FiniteSetTheorems, TLAPS

-----------------------------------------------------------------------------
(* TmpFiles: any number of proxies and tasks, process ids that repeat, any   *)
(* number of crashes and of failing removals.                                *)

(* What the writers create.                                                  *)
WriterFiles == {Name(k, pid, n) : k \in Kinds, pid \in Pids \cup {0}, n \in 0 .. MaxNames}

States == {"down", "lock", "read_dir", "sweep", "up"}

ProxyRecs == [st : States, pid : Pids \cup {0}, counter : 0 .. MaxNames,
              todo : SUBSET (Strangers \cup WriterFiles)]

Pcs == {"idle", "opening", "open", "abandoned", "cleanup", "drop", "late"}

TaskRecs == [pc : Pcs, kind : Kinds \cup {None}, file : WriterFiles \cup {None}]

Owner == {"read_dir", "sweep", "up"}

(* The one name of all readiness probes.                                     *)
Probe == Name("ReadyzProbe", 0, 0)

TmpTypes ==
    /\ lock \in Proxies \cup {None}
    /\ proxy \in [Proxies -> ProxyRecs]
    /\ task \in [Proxies -> [Tasks -> TaskRecs]]
    /\ tmp \subseteq Strangers \cup WriterFiles
    /\ stuck \cup orphaned \subseteq tmp /\ orphaned \subseteq WriterFiles
    /\ faults \in 0 .. MaxFaults

(* The lock is held from before the sweep to the end.                        *)
LockOK == \A p \in Proxies : lock = p <=> proxy[p].st \in Owner

(* Task x of a proxy r has taken the name of its file from r's counter.      *)
Named(x, r) ==
    x.pc # "idle" =>
        /\ r.st = "up" /\ x.kind \in Kinds /\ x.file \in WriterFiles
        /\ x.file = Name(x.kind, r.pid, x.file.n)
        /\ x.kind # "ReadyzProbe" => x.file.n < r.counter

Numbered(x) == x.pc # "idle" /\ x.kind # "ReadyzProbe"

(* No counter value is used twice by one process.                            *)
Apart(ts) == \A t, u \in Tasks : Numbered(ts[t]) /\ Numbered(ts[u]) /\ t # u => ts[t].file.n # ts[u].file.n

TasksOK ==
    \A p \in Proxies :
        /\ Apart(task[p])
        /\ \A t \in Tasks : /\ Named(task[p][t], proxy[p])
                            /\ Numbered(task[p][t]) /\ task[p][t].pc \in Holding => task[p][t].file \in tmp

(* What is left after the sweep could not be removed, or is not ours; what   *)
(* was orphaned since is the probe, or has a number no task uses.            *)
SweepOK ==
    \A p \in Proxies :
        /\ proxy[p].st = "sweep" => tmp \subseteq Strangers \cup proxy[p].todo \cup stuck
        /\ proxy[p].st = "up" =>
              \A f \in (orphaned \ stuck) \ {Probe} :
                  /\ f.n < proxy[p].counter
                  /\ \A t \in Tasks : Numbered(task[p][t]) => task[p][t].file.n # f.n

TmpInv == TmpTypes /\ LockOK /\ TasksOK /\ SweepOK /\ NoStrays
-----------------------------------------------------------------------------
(* Names.                                                                    *)

LEMMA KindNames ==
  /\ Kinds = {"FillBody", "FillIdCounter", "CommitMeta", "MetadataTmp", "PublishBackupBody",
              "PublishBackupMeta", "UploadSpool", "ReadyzProbe"}
  /\ \A k \in Kinds : k # "ReadyzProbe" => Shape[k].exts # Shape["ReadyzProbe"].exts
<1>1. Kinds = {"FillBody", "FillIdCounter", "CommitMeta", "MetadataTmp", "PublishBackupBody",
               "PublishBackupMeta", "UploadSpool", "ReadyzProbe"}
  BY DEF Kinds, Shape
<1>2. \A k \in Kinds : k # "ReadyzProbe" => Shape[k].exts # Shape["ReadyzProbe"].exts
  BY <1>1 DEF Shape
<1> QED
  BY <1>1, <1>2

LEMMA NameFields ==
  ASSUME NEW k \in Kinds, NEW pid, NEW n
  PROVE  /\ Name(k, pid, n).type = "file"
         /\ Name(k, pid, n).segs = Shape[k].segs /\ Name(k, pid, n).exts = Shape[k].exts
         /\ k # "ReadyzProbe" => Name(k, pid, n).pid = pid /\ Name(k, pid, n).n = n
         /\ k = "ReadyzProbe" => Name(k, pid, n).pid = 0 /\ Name(k, pid, n).n = 0
BY DEF Name

(* The sweep knows the name of every writer ...                              *)
LEMMA WritersClassified ==
  ASSUME NEW f \in WriterFiles
  PROVE  f.type = "file" /\ classify(f) # None /\ f \notin Strangers
<1>1. PICK k \in Kinds, pid \in Pids \cup {0}, n \in 0 .. MaxNames : f = Name(k, pid, n)
  BY DEF WriterFiles
<1>2. f.type = "file" /\ f.segs = Shape[k].segs /\ f.exts = Shape[k].exts
  BY <1>1, NameFields
<1>3. f \notin Strangers
  BY <1>2, StrangerAssumption
<1>4. classify(f) = k
  <2>1. CASE k = "FillBody"
    <3>1. f.segs = <<"digits", "digits", "digits">> /\ f.exts = <<"body">>
      BY <1>2, <2>1 DEF Shape
    <3> QED
      BY <2>1, <3>1 DEF classify, classify_without_backups, is_three_digit_segments, IsSuffix, IsPrefix, Reverse
  <2>2. CASE k = "FillIdCounter"
    <3>1. f.segs = <<"digits", "digits">> /\ f.exts = <<"fill_id_counter", "tmp">>
      BY <1>2, <2>2 DEF Shape
    <3> QED
      BY <2>2, <3>1 DEF classify, classify_without_backups, is_two_digit_segments, IsSuffix, IsPrefix, Reverse
  <2>3. CASE k = "CommitMeta"
    <3>1. f.segs = <<"digits", "digits">> /\ f.exts = <<"meta", "json">>
      BY <1>2, <2>3 DEF Shape
    <3> QED
      BY <2>3, <3>1 DEF classify, classify_without_backups, is_two_digit_segments, IsSuffix, IsPrefix, Reverse
  <2>4. CASE k = "MetadataTmp"
    <3>1. f.segs = <<"digits", "hex32", "digits">> /\ f.exts = <<"meta", "tmp">>
      BY <1>2, <2>4 DEF Shape
    <3> QED
      BY <2>4, <3>1 DEF classify, classify_without_backups, is_metadata_tmp, IsSuffix, IsPrefix, Reverse
  <2>5. CASE k = "PublishBackupBody"
    <3>1. f.segs = <<"digits", "digits">> /\ f.exts = <<"prev", "body">>
      BY <1>2, <2>5 DEF Shape
    <3> QED
      BY <2>5, <3>1 DEF classify, is_two_digit_segments, IsSuffix, IsPrefix, Reverse
  <2>6. CASE k = "PublishBackupMeta"
    <3>1. f.segs = <<"digits", "digits">> /\ f.exts = <<"prev", "meta", "json">>
      BY <1>2, <2>6 DEF Shape
    <3> QED
      BY <2>6, <3>1 DEF classify, is_two_digit_segments, IsSuffix, IsPrefix, Reverse
  <2>7. CASE k = "UploadSpool"
    <3>1. f.segs = <<"digits", "digits">> /\ f.exts = <<"upload-spool", "tmp">>
      BY <1>2, <2>7 DEF Shape
    <3> QED
      BY <2>7, <3>1 DEF classify, classify_without_backups, is_two_digit_segments, IsSuffix, IsPrefix, Reverse
  <2>8. CASE k = "ReadyzProbe"
    <3>1. f.segs = <<>> /\ f.exts = <<"readyz-probe">>
      BY <1>2, <2>8 DEF Shape
    <3> QED
      BY <2>8, <3>1 DEF classify
  <2> QED
    BY <2>1, <2>2, <2>3, <2>4, <2>5, <2>6, <2>7, <2>8, KindNames
<1> QED
  BY <1>2, <1>3, <1>4, ProxyAssumption

(* ... and takes no other name for one.                                      *)
LEMMA ClassifiedShape ==
  ASSUME NEW f, f.type = "file", classify(f) # None
  PROVE  f \notin Strangers
<1>1. \E k \in Kinds : f.segs = Shape[k].segs /\ f.exts = Shape[k].exts
  <2>1. CASE classify(f) = classify_without_backups(f)
    <3>1. \/ f.segs = <<>> /\ f.exts = <<"readyz-probe">>
          \/ f.segs = <<"digits", "digits">> /\ f.exts = <<"fill_id_counter", "tmp">>
          \/ f.segs = <<"digits", "digits">> /\ f.exts = <<"upload-spool", "tmp">>
          \/ f.segs = <<"digits", "hex32", "digits">> /\ f.exts = <<"meta", "tmp">>
          \/ f.segs = <<"digits", "digits">> /\ f.exts = <<"meta", "json">>
          \/ f.segs = <<"digits", "digits", "digits">> /\ f.exts = <<"body">>
      BY <2>1 DEF classify_without_backups, is_two_digit_segments, is_three_digit_segments, is_metadata_tmp
    <3> QED
      BY <3>1, KindNames DEF Shape
  <2>2. CASE \/ f.segs = <<>> /\ f.exts = <<"readyz-probe">>
             \/ f.segs = <<"digits", "digits">> /\ f.exts = <<"prev", "body">>
             \/ f.segs = <<"digits", "digits">> /\ f.exts = <<"prev", "meta", "json">>
    BY <2>2, KindNames DEF Shape
  <2> QED
    BY <2>1, <2>2 DEF classify, is_two_digit_segments
<1> QED
  BY <1>1, StrangerAssumption
-----------------------------------------------------------------------------
(* Updates of one task or one proxy.                                         *)

LEMMA TaskMoves ==
  ASSUME task \in [Proxies -> [Tasks -> TaskRecs]], NEW p \in Proxies, NEW t \in Tasks,
         NEW r \in TaskRecs, task' = [task EXCEPT ![p][t] = r]
  PROVE  /\ task' \in [Proxies -> [Tasks -> TaskRecs]]
         /\ task'[p][t] = r
         /\ \A u \in Tasks : u # t => task'[p][u] = task[p][u]
         /\ \A q \in Proxies : q # p => task'[q] = task[q]
OBVIOUS

LEMMA ProxyMoves ==
  ASSUME proxy \in [Proxies -> ProxyRecs], NEW p \in Proxies,
         NEW r \in ProxyRecs, proxy' = [proxy EXCEPT ![p] = r]
  PROVE  /\ proxy' \in [Proxies -> ProxyRecs]
         /\ proxy'[p] = r
         /\ \A q \in Proxies : q # p => proxy'[q] = proxy[q]
OBVIOUS

LEMMA EmptyRecs == NoTask \in TaskRecs /\ NoTask.pc = "idle" /\ Down \in ProxyRecs /\ Down.st = "down"
BY ProxyAssumption DEF NoTask, TaskRecs, Pcs, Down, ProxyRecs, States

(* A task that goes on with its file.                                        *)
LEMMA SetPc ==
  ASSUME NEW x \in TaskRecs, NEW c \in Pcs
  PROVE  LET y == [x EXCEPT !.pc = c]
         IN  y \in TaskRecs /\ y.pc = c /\ y.kind = x.kind /\ y.file = x.file
BY DEF TaskRecs

LEMMA SetState ==
  ASSUME NEW r \in ProxyRecs, NEW s \in States
  PROVE  LET y == [r EXCEPT !.st = s]
         IN  y \in ProxyRecs /\ y.st = s /\ y.pid = r.pid /\ y.counter = r.counter /\ y.todo = r.todo
BY DEF ProxyRecs

(* A proxy that serves is the only one that does anything.                   *)
LEMMA UpAlone ==
  ASSUME TmpInv, NEW p \in Proxies, proxy[p].st \in Owner
  PROVE  /\ lock = p
         /\ \A q \in Proxies : q # p => /\ proxy[q].st \notin Owner
                                        /\ \A u \in Tasks : task[q][u].pc = "idle"
         /\ proxy[p].st # "up" => \A u \in Tasks : task[p][u].pc = "idle"
BY DEF TmpInv, LockOK, TasksOK, Named, Owner

LEMMA FilesApart ==
  ASSUME TmpInv, NEW p \in Proxies, NEW t \in Tasks, NEW u \in Tasks, t # u,
         task[p][t].pc # "idle", Numbered(task[p][u])
  PROVE  task[p][t].file # task[p][u].file
<1>1. /\ task[p][t].kind \in Kinds /\ task[p][u].kind \in Kinds /\ task[p][u].kind # "ReadyzProbe"
      /\ task[p][t].file = Name(task[p][t].kind, proxy[p].pid, task[p][t].file.n)
      /\ task[p][u].file = Name(task[p][u].kind, proxy[p].pid, task[p][u].file.n)
  BY DEF TmpInv, TasksOK, Named, Numbered
<1>2. CASE task[p][t].kind = "ReadyzProbe"
  BY <1>1, <1>2, NameFields, KindNames
<1>3. CASE task[p][t].kind # "ReadyzProbe"
  BY <1>3 DEF TmpInv, TasksOK, Apart, Numbered
<1> QED
  BY <1>2, <1>3

(* A step of task t of the serving proxy p.                                  *)
Steps(p, t, r) ==
  /\ r \in TaskRecs /\ task' = [task EXCEPT ![p][t] = r]
  /\ UNCHANGED <<lock, proxy>>
  /\ faults' \in 0 .. MaxFaults

LEMMA StepTasks ==
  ASSUME TmpInv, NEW p \in Proxies, NEW t \in Tasks, proxy[p].st = "up", NEW r, Steps(p, t, r),
         r.pc # "idle" => /\ task[p][t].pc # "idle" /\ r.kind = task[p][t].kind
                          /\ r.file = task[p][t].file,
         Numbered(r) /\ r.pc \in Holding => r.file \in tmp',
         \A g \in tmp \ tmp' : g = task[p][t].file /\ task[p][t].pc # "idle"
  PROVE  TasksOK'
<1>1. task \in [Proxies -> [Tasks -> TaskRecs]] /\ TasksOK
  BY DEF TmpInv, TmpTypes
<1>2. /\ task'[p][t] = r
      /\ \A u \in Tasks : u # t => task'[p][u] = task[p][u]
      /\ \A q \in Proxies : q # p => task'[q] = task[q]
  BY <1>1, TaskMoves DEF Steps
<1>3. proxy' = proxy
  BY DEF Steps
<1>4. Named(r, proxy[p])
  BY <1>1 DEF TasksOK, Named
<1>5. Numbered(r) => Numbered(task[p][t]) /\ r.file = task[p][t].file
  BY DEF Numbered
<1>6. Apart(task'[p])
  BY <1>1, <1>2, <1>5 DEF TasksOK, Apart
<1>7. ASSUME NEW u \in Tasks, u # t, Numbered(task[p][u]), task[p][u].pc \in Holding
      PROVE  task[p][u].file \in tmp'
  <2>1. task[p][u].file \in tmp
    BY <1>1, <1>7 DEF TasksOK
  <2>2. task[p][t].pc # "idle" => task[p][u].file # task[p][t].file
    BY <1>7, FilesApart
  <2> QED
    BY <2>1, <2>2
<1>8. \A q \in Proxies : q # p => \A u \in Tasks : task[q][u].pc = "idle"
  BY UpAlone DEF Owner
<1>9. ASSUME NEW q \in Proxies
      PROVE  /\ Apart(task'[q])
             /\ \A u \in Tasks : /\ Named(task'[q][u], proxy'[q])
                                 /\ Numbered(task'[q][u]) /\ task'[q][u].pc \in Holding => task'[q][u].file \in tmp'
  <2>1. CASE q = p
    <3>1. ASSUME NEW u \in Tasks
          PROVE  /\ Named(task'[p][u], proxy'[p])
                 /\ Numbered(task'[p][u]) /\ task'[p][u].pc \in Holding => task'[p][u].file \in tmp'
      <4>1. CASE u = t
        BY <1>2, <1>3, <1>4, <4>1
      <4>2. CASE u # t
        BY <1>1, <1>2, <1>3, <1>7, <4>2 DEF TasksOK
      <4> QED
        BY <4>1, <4>2
    <3> QED
      BY <1>6, <2>1, <3>1
  <2>2. CASE q # p
    BY <1>1, <1>2, <1>3, <1>8, <2>2 DEF TasksOK, Numbered
  <2> QED
    BY <2>1, <2>2
<1> QED
  BY <1>9 DEF TasksOK

LEMMA StepSweep ==
  ASSUME TmpInv, NEW p \in Proxies, NEW t \in Tasks, proxy[p].st = "up", NEW r, Steps(p, t, r),
         Numbered(r) => Numbered(task[p][t]) /\ r.file = task[p][t].file,
         \A f \in (orphaned' \ stuck') \ {Probe} :
            f \in orphaned \ stuck \/ (Numbered(task[p][t]) /\ r.pc = "idle" /\ f = task[p][t].file)
  PROVE  SweepOK'
<1>1. task \in [Proxies -> [Tasks -> TaskRecs]] /\ TasksOK /\ SweepOK
  BY DEF TmpInv, TmpTypes
<1>2. /\ task'[p][t] = r /\ proxy' = proxy
      /\ \A u \in Tasks : u # t => task'[p][u] = task[p][u]
  BY <1>1, TaskMoves DEF Steps
<1>3. \A q \in Proxies : (q # p => proxy[q].st \notin Owner) /\ proxy[q].st # "sweep"
  BY UpAlone DEF Owner
<1>4. ASSUME NEW f \in (orphaned' \ stuck') \ {Probe}
      PROVE  /\ f.n < proxy[p].counter
             /\ \A u \in Tasks : Numbered(task'[p][u]) => task'[p][u].file.n # f.n
  <2>1. CASE f \in orphaned \ stuck
    BY <1>1, <1>2, <2>1 DEF SweepOK
  <2>2. CASE Numbered(task[p][t]) /\ r.pc = "idle" /\ f = task[p][t].file
    <3>1. f.n < proxy[p].counter
      BY <1>1, <2>2 DEF TasksOK, Named, Numbered
    <3>2. ~Numbered(r)
      BY <2>2 DEF Numbered
    <3> QED
      BY <1>1, <1>2, <2>2, <3>1, <3>2 DEF TasksOK, Apart
  <2> QED
    BY <2>1, <2>2
<1> QED
  BY <1>2, <1>3, <1>4 DEF SweepOK, Owner

LEMMA StepStrays ==
  ASSUME TmpInv, NEW p \in Proxies, NEW t \in Tasks, proxy[p].st = "up", NEW r, Steps(p, t, r),
         \A g \in tmp' : \/ g \in tmp /\ (g \in stuck \cup orphaned => g \in stuck' \cup orphaned')
                         \/ r.pc \in Holding /\ g = r.file
                         \/ g \in stuck' \cup orphaned',
         task[p][t].pc \in Holding => \/ r.pc \in Holding /\ r.file = task[p][t].file
                                      \/ task[p][t].file \notin tmp' \ (stuck' \cup orphaned')
  PROVE  NoStrays'
<1>1. task \in [Proxies -> [Tasks -> TaskRecs]] /\ NoStrays
  BY DEF TmpInv, TmpTypes
<1>2. /\ task'[p][t] = r /\ proxy' = proxy
      /\ \A u \in Tasks : u # t => task'[p][u] = task[p][u]
      /\ \A q \in Proxies : q # p => task'[q] = task[q]
  BY <1>1, TaskMoves DEF Steps
<1>3. ASSUME NEW g \in tmp' PROVE InUse(g)' \/ g \in stuck' \cup orphaned' \/ g \in Strangers
  <2>1. CASE r.pc \in Holding /\ g = r.file
    BY <1>2, <2>1 DEF InUse, Holding
  <2>2. CASE g \in tmp /\ (g \in stuck \cup orphaned => g \in stuck' \cup orphaned')
    <3>1. CASE InUse(g)
      <4>1. PICK q \in Proxies, u \in Tasks : task[q][u].file = g /\ task[q][u].pc \in Holding
        BY <3>1 DEF InUse, Holding
      <4>2. CASE q = p /\ u = t
        BY <1>2, <2>1, <4>1, <4>2
      <4>3. CASE ~(q = p /\ u = t)
        <5>1. task'[q][u] = task[q][u]
          BY <1>2, <4>3
        <5> QED
          BY <4>1, <5>1 DEF InUse, Holding
      <4> QED
        BY <4>2, <4>3
    <3>2. CASE ~InUse(g)
      BY <1>1, <2>2, <3>2 DEF NoStrays
    <3> QED
      BY <3>1, <3>2
  <2> QED
    BY <2>1, <2>2
<1> QED
  BY <1>3 DEF NoStrays

LEMMA StepTypes ==
  ASSUME TmpInv, NEW p \in Proxies, NEW t \in Tasks, NEW r, Steps(p, t, r),
         tmp' \subseteq tmp \cup WriterFiles, stuck' \cup orphaned' \subseteq tmp', orphaned' \subseteq WriterFiles
  PROVE  TmpTypes' /\ LockOK'
<1>1. task \in [Proxies -> [Tasks -> TaskRecs]] /\ TmpTypes /\ LockOK
  BY DEF TmpInv, TmpTypes
<1>2. task' \in [Proxies -> [Tasks -> TaskRecs]]
  BY <1>1, TaskMoves DEF Steps
<1> QED
  BY <1>1, <1>2 DEF TmpTypes, LockOK, Steps
-----------------------------------------------------------------------------
(* The tasks.                                                                *)

LEMMA TaskFacts ==
  ASSUME TmpInv, NEW p \in Proxies, NEW t \in Tasks
  PROVE  /\ task[p][t] \in TaskRecs /\ task[p][t].pc \in Pcs
         /\ task[p][t].pc # "idle" => /\ proxy[p].st = "up" /\ task[p][t].kind \in Kinds
                                      /\ task[p][t].file \in WriterFiles
         /\ task[p][t].pc # "idle" /\ ~Numbered(task[p][t]) => task[p][t].file = Probe
         /\ faults \in 0 .. MaxFaults
         /\ stuck \cup orphaned \subseteq tmp /\ orphaned \subseteq WriterFiles
<1>1. /\ task[p][t] \in TaskRecs /\ task[p][t].pc \in Pcs
      /\ faults \in 0 .. MaxFaults
      /\ stuck \cup orphaned \subseteq tmp /\ orphaned \subseteq WriterFiles
  BY DEF TmpInv, TmpTypes, TaskRecs
<1>2. Named(task[p][t], proxy[p])
  BY DEF TmpInv, TasksOK
<1>3. \A pid, n : Name("ReadyzProbe", pid, n) = Probe
  BY DEF Probe, Name
<1> QED
  BY <1>1, <1>2, <1>3 DEF Named, Numbered

(* The directory stays as it is.                                             *)
LEMMA CalmStep ==
  ASSUME TmpInv, NEW p \in Proxies, NEW t \in Tasks, NEW r, Steps(p, t, r),
         UNCHANGED <<tmp, stuck, orphaned>>, task[p][t].pc # "idle",
         \/ r.pc = "idle" /\ task[p][t].pc \notin Holding
         \/ /\ r.kind = task[p][t].kind /\ r.file = task[p][t].file
            /\ r.pc \in Holding <=> task[p][t].pc \in Holding
  PROVE  TmpInv'
<1>1. proxy[p].st = "up"
  BY TaskFacts
<1>2. stuck \cup orphaned \subseteq tmp /\ orphaned \subseteq WriterFiles
  BY TaskFacts
<1>3. TmpTypes' /\ LockOK'
  BY <1>2, StepTypes
<1>4. Numbered(r) /\ r.pc \in Holding => r.file \in tmp'
  BY DEF TmpInv, TasksOK, Numbered
<1>5. TasksOK'
  BY <1>1, <1>4, StepTasks
<1>6. SweepOK'
  BY <1>1, StepSweep DEF Numbered
<1>7. NoStrays'
  BY <1>1, StepStrays
<1> QED
  BY <1>3, <1>5, <1>6, <1>7 DEF TmpInv

(* The task ends and its file is removed, or stays.                          *)
LEMMA RemovalStep ==
  ASSUME TmpInv, NEW p \in Proxies, NEW t \in Tasks, NEW f, f = task[p][t].file,
         Steps(p, t, NoTask), task[p][t].pc # "idle",
         \/ Removed(f)
         \/ stuck' = stuck \cup ({f} \cap tmp) /\ UNCHANGED <<tmp, orphaned>>
         \/ orphaned' = orphaned \cup ({f} \cap tmp) /\ UNCHANGED <<tmp, stuck>>
  PROVE  TmpInv'
<1>1. proxy[p].st = "up" /\ NoTask.pc = "idle" /\ f \in WriterFiles /\ (Numbered(task[p][t]) \/ f = Probe)
  BY TaskFacts, EmptyRecs
<1>2. stuck \cup orphaned \subseteq tmp /\ orphaned \subseteq WriterFiles
  BY TaskFacts
<1>3. stuck' \cup orphaned' \subseteq tmp' /\ orphaned' \subseteq orphaned \cup {f} /\ tmp' \subseteq tmp
  BY <1>2 DEF Removed
<1>4. TmpTypes' /\ LockOK'
  BY <1>1, <1>2, <1>3, StepTypes
<1>5. \A g \in tmp \ tmp' : g = f
  BY DEF Removed
<1>6. TasksOK'
  BY <1>1, <1>5, StepTasks DEF Numbered
<1>7. \A g \in orphaned' \ stuck' : g \in orphaned \ stuck \/ g = f
  BY DEF Removed
<1>8. SweepOK'
  BY <1>1, <1>7, StepSweep DEF Numbered
<1>9. \A g \in tmp' : g \in tmp /\ (g \in stuck \cup orphaned => g \in stuck' \cup orphaned')
  BY DEF Removed
<1>10. f \notin tmp' \ (stuck' \cup orphaned')
  BY DEF Removed
<1>11. NoStrays'
  BY <1>1, <1>9, <1>10, StepStrays
<1> QED
  BY <1>4, <1>6, <1>8, <1>11 DEF TmpInv

LEMMA OpenedInv ==
  ASSUME TmpInv, NEW p \in Proxies, NEW t \in Tasks, Opened(p, t)
  PROVE  TmpInv'
<1> DEFINE x == task[p][t]
           f == x.file
           r == [x EXCEPT !.pc = "open"]
<1>1. x \in TaskRecs /\ x.pc = "opening" /\ faults' \in 0 .. MaxFaults /\ UNCHANGED <<lock, proxy>>
  BY TaskFacts DEF Opened
<1>2. proxy[p].st = "up" /\ f \in WriterFiles /\ stuck \cup orphaned \subseteq tmp /\ orphaned \subseteq WriterFiles
  BY <1>1, TaskFacts
<1>3. CASE Idle(p, t) /\ UNCHANGED <<tmp, stuck, orphaned>>
  <2>1. Steps(p, t, NoTask) /\ NoTask.pc = "idle"
    BY <1>1, <1>3, EmptyRecs DEF Steps, Idle
  <2> QED
    BY <1>1, <1>3, <2>1, CalmStep DEF Holding
<1>4. CASE /\ task' = [task EXCEPT ![p][t].pc = "open"]
           /\ tmp' = tmp \cup {f} /\ stuck' = stuck \ {f} /\ orphaned' = orphaned \ {f}
  <2>1. r \in TaskRecs /\ r.pc = "open" /\ r.kind = x.kind /\ r.file = x.file
    BY <1>1, SetPc DEF Pcs
  <2>2. Steps(p, t, r)
    BY <1>1, <1>4, <2>1 DEF Steps
  <2> HIDE DEF r
  <2>3. stuck' \cup orphaned' \subseteq tmp' /\ orphaned' \subseteq WriterFiles /\ tmp' \subseteq tmp \cup WriterFiles
    BY <1>2, <1>4
  <2>4. TmpTypes' /\ LockOK'
    BY <2>2, <2>3, StepTypes
  <2>5. r.file \in tmp' /\ \A g \in tmp \ tmp' : FALSE
    BY <1>4, <2>1
  <2>6. TasksOK'
    BY <1>1, <1>2, <2>1, <2>2, <2>5, StepTasks
  <2>7. \A g \in orphaned' \ stuck' : g \in orphaned \ stuck
    BY <1>4
  <2>8. Numbered(r) => Numbered(x) /\ r.file = x.file
    BY <1>1, <2>1 DEF Numbered
  <2>9. SweepOK'
    BY <1>2, <2>2, <2>7, <2>8, StepSweep
  <2>10. \A g \in tmp' : \/ g \in tmp /\ (g \in stuck \cup orphaned => g \in stuck' \cup orphaned')
                         \/ r.pc \in Holding /\ g = r.file
    BY <1>4, <2>1 DEF Holding
  <2>11. x.pc \notin Holding
    BY <1>1 DEF Holding
  <2>12. NoStrays'
    BY <1>2, <2>2, <2>10, <2>11, StepStrays
  <2> QED
    BY <2>4, <2>6, <2>9, <2>12 DEF TmpInv
<1> QED
  BY <1>3, <1>4 DEF Opened

LEMMA AbandonedInv ==
  ASSUME TmpInv, NEW p \in Proxies, NEW t \in Tasks, AbandonedOpen(p, t)
  PROVE  TmpInv'
<1> DEFINE f == task[p][t].file
<1>1. /\ task[p][t].pc = "abandoned" /\ faults' \in 0 .. MaxFaults /\ NoTask.pc = "idle"
      /\ tmp' = tmp \cup {f} /\ orphaned' = orphaned \cup (tmp' \ tmp) /\ stuck' = stuck
  BY TaskFacts, EmptyRecs DEF AbandonedOpen
<1>2. Steps(p, t, NoTask)
  BY <1>1, EmptyRecs DEF Steps, AbandonedOpen, Idle
<1>3. /\ proxy[p].st = "up" /\ f \in WriterFiles /\ stuck \cup orphaned \subseteq tmp
      /\ orphaned \subseteq WriterFiles /\ (Numbered(task[p][t]) \/ f = Probe)
  BY <1>1, TaskFacts
<1>4. TmpTypes' /\ LockOK'
  BY <1>1, <1>2, <1>3, StepTypes
<1>5. \A g \in tmp \ tmp' : FALSE
  BY <1>1
<1>6. TasksOK'
  BY <1>1, <1>2, <1>3, <1>5, StepTasks DEF Numbered
<1>7. \A g \in orphaned' \ stuck' : g \in orphaned \ stuck \/ g = f
  BY <1>1
<1>8. SweepOK'
  BY <1>1, <1>2, <1>3, <1>7, StepSweep DEF Numbered
<1>9. \A g \in tmp' : \/ g \in tmp /\ (g \in stuck \cup orphaned => g \in stuck' \cup orphaned')
                      \/ g \in stuck' \cup orphaned'
  BY <1>1
<1>10. task[p][t].pc \notin Holding
  BY <1>1 DEF Holding
<1>11. NoStrays'
  BY <1>2, <1>3, <1>9, <1>10, StepStrays
<1> QED
  BY <1>4, <1>6, <1>8, <1>11 DEF TmpInv

(* A task takes a new name.                                                  *)
LEMMA CreateInv ==
  ASSUME TmpInv, NEW p \in Proxies, NEW t \in Tasks,
         ready_check(p, t) \/ \E k \in Kinds : Create(p, t, k)
  PROVE  TmpInv'
<1>1. PICK k \in Kinds :
        /\ proxy[p].st = "up" /\ task[p][t].pc = "idle" /\ UNCHANGED <<lock, tmp, stuck, orphaned, faults>>
        /\ \/ /\ k = "ReadyzProbe" /\ proxy' = proxy
              /\ task' = [task EXCEPT ![p][t] = [pc |-> "opening", kind |-> k, file |-> Name(k, 0, 0)]]
           \/ /\ k # "ReadyzProbe" /\ proxy[p].counter < MaxNames
              /\ proxy' = [proxy EXCEPT ![p].counter = @ + 1]
              /\ task' = [task EXCEPT ![p][t] = [pc |-> "opening", kind |-> k,
                                                file |-> Name(k, proxy[p].pid, proxy[p].counter)]]
  BY KindNames DEF ready_check, Create
<1> DEFINE f == IF k = "ReadyzProbe" THEN Name(k, 0, 0) ELSE Name(k, proxy[p].pid, proxy[p].counter)
           r == [pc |-> "opening", kind |-> k, file |-> f]
           c == IF k = "ReadyzProbe" THEN proxy[p].counter ELSE proxy[p].counter + 1
<1>2. /\ task \in [Proxies -> [Tasks -> TaskRecs]] /\ TasksOK /\ SweepOK /\ LockOK /\ NoStrays
      /\ proxy \in [Proxies -> ProxyRecs] /\ TmpTypes
  BY DEF TmpInv, TmpTypes
<1>3. proxy[p].counter \in 0 .. MaxNames /\ proxy[p].pid \in Pids \cup {0} /\ MaxNames \in Nat
  BY <1>2, ProxyAssumption DEF ProxyRecs
<1>4. f \in WriterFiles
  <2>1. 0 \in 0 .. MaxNames
    BY <1>3
  <2> QED
    BY <1>3, <2>1 DEF WriterFiles
<1>5. f = Name(k, proxy[p].pid, f.n) /\ (k # "ReadyzProbe" => f.n = proxy[p].counter)
  <2>1. CASE k = "ReadyzProbe"
    BY <2>1 DEF Name
  <2>2. CASE k # "ReadyzProbe"
    BY <2>2, NameFields
  <2> QED
    BY <2>1, <2>2
<1>6. r \in TaskRecs /\ r.pc = "opening" /\ r.kind = k /\ r.file = f
  BY <1>4 DEF TaskRecs, Pcs
<1>7. /\ task' \in [Proxies -> [Tasks -> TaskRecs]]
      /\ task'[p][t] = r
      /\ \A u \in Tasks : u # t => task'[p][u] = task[p][u]
      /\ \A q \in Proxies : q # p => task'[q] = task[q]
  <2>1. task' = [task EXCEPT ![p][t] = r]
    BY <1>1
  <2> HIDE DEF r
  <2> QED
    BY <1>2, <1>6, <2>1, TaskMoves
<1>8. /\ proxy' \in [Proxies -> ProxyRecs]
      /\ \A q \in Proxies : proxy'[q].st = proxy[q].st /\ proxy'[q].pid = proxy[q].pid
                            /\ proxy'[q].todo = proxy[q].todo
      /\ proxy'[p].counter = c /\ c \in 0 .. MaxNames /\ c >= proxy[p].counter
      /\ \A q \in Proxies : q # p => proxy'[q] = proxy[q]
  <2>1. CASE k = "ReadyzProbe"
    BY <1>1, <1>2, <1>3, <2>1
  <2>2. CASE k # "ReadyzProbe"
    <3>1. proxy[p].counter + 1 \in 0 .. MaxNames
      BY <1>1, <1>3, <2>2
    <3>2. proxy' = [proxy EXCEPT ![p] = [proxy[p] EXCEPT !.counter = proxy[p].counter + 1]]
      BY <1>1, <1>2, <2>2
    <3>3. [proxy[p] EXCEPT !.counter = proxy[p].counter + 1] \in ProxyRecs
      BY <1>2, <3>1 DEF ProxyRecs
    <3>4. /\ proxy' \in [Proxies -> ProxyRecs]
          /\ proxy'[p] = [proxy[p] EXCEPT !.counter = proxy[p].counter + 1]
          /\ \A q \in Proxies : q # p => proxy'[q] = proxy[q]
      BY <1>2, <3>2, <3>3, ProxyMoves
    <3>5. /\ proxy'[p].st = proxy[p].st /\ proxy'[p].pid = proxy[p].pid /\ proxy'[p].todo = proxy[p].todo
          /\ proxy'[p].counter = proxy[p].counter + 1
      BY <1>2, <3>4 DEF ProxyRecs
    <3>6. c = proxy[p].counter + 1
      BY <2>2
    <3>7. c \in 0 .. MaxNames /\ c >= proxy[p].counter
      BY <1>3, <3>1, <3>6
    <3>8. \A q \in Proxies : /\ proxy'[q].st = proxy[q].st /\ proxy'[q].pid = proxy[q].pid
                             /\ proxy'[q].todo = proxy[q].todo
      BY <3>4, <3>5
    <3> QED
      BY <3>4, <3>5, <3>6, <3>7, <3>8
  <2> QED
    BY <2>1, <2>2
<1>9. Numbered(r) => f.n = proxy[p].counter /\ f.n < c
  BY <1>3, <1>5, <1>6 DEF Numbered
<1>10. \A u \in Tasks : Numbered(task[p][u]) => task[p][u].file.n < proxy[p].counter
  BY <1>2 DEF TasksOK, Named, Numbered
<1> HIDE DEF f, r, c
<1>11. TmpTypes'
  BY <1>1, <1>2, <1>7, <1>8 DEF TmpTypes
<1>12. LockOK'
  BY <1>1, <1>2, <1>8 DEF LockOK
<1>13. \A u \in Tasks : u # t /\ Numbered(task[p][u]) /\ Numbered(r) => task[p][u].file.n # r.file.n
  <2>1. ASSUME NEW u \in Tasks, Numbered(task[p][u]), Numbered(r) PROVE task[p][u].file.n # r.file.n
    <3>1. task[p][u].file.n < proxy[p].counter /\ r.file.n = proxy[p].counter
      BY <1>6, <1>9, <1>10, <2>1
    <3> QED
      BY <1>3, <3>1
  <2> QED
    BY <2>1
<1>14. Apart(task'[p])
  BY <1>2, <1>7, <1>13 DEF TasksOK, Apart
<1>15. Named(r, proxy'[p])
  BY <1>1, <1>4, <1>5, <1>6, <1>8, <1>9 DEF Named, Numbered
<1>16. ASSUME NEW u \in Tasks, u # t PROVE Named(task[p][u], proxy'[p])
  <2>1. Named(task[p][u], proxy[p])
    BY <1>2 DEF TasksOK
  <2>2. Numbered(task[p][u]) => task[p][u].file.n < c
    <3>1. ASSUME Numbered(task[p][u]) PROVE task[p][u].file.n < c
      <4>1. task[p][u].kind \in Kinds /\ task[p][u].file \in WriterFiles
        BY <2>1, <3>1 DEF Named, Numbered
      <4>2. \A g \in WriterFiles : g.n \in 0 .. MaxNames
        BY <1>3, NameFields DEF WriterFiles
      <4>3. task[p][u].file.n < proxy[p].counter /\ task[p][u].file.n \in 0 .. MaxNames
        BY <1>10, <3>1, <4>1, <4>2
      <4> QED
        BY <1>3, <1>8, <4>3
    <3> QED
      BY <3>1
  <2> QED
    BY <1>8, <2>1, <2>2 DEF Named, Numbered
<1>17. TasksOK'
  <2>1. ASSUME NEW u \in Tasks
        PROVE  /\ Named(task'[p][u], proxy'[p])
               /\ Numbered(task'[p][u]) /\ task'[p][u].pc \in Holding => task'[p][u].file \in tmp'
    BY <1>1, <1>2, <1>6, <1>7, <1>15, <1>16 DEF TasksOK, Holding
  <2>2. ASSUME NEW q \in Proxies, q # p
        PROVE  /\ Apart(task'[q])
               /\ \A u \in Tasks : /\ Named(task'[q][u], proxy'[q])
                                   /\ Numbered(task'[q][u]) /\ task'[q][u].pc \in Holding => task'[q][u].file \in tmp'
    BY <1>1, <1>2, <1>7, <1>8, <2>2 DEF TasksOK
  <2> QED
    BY <1>14, <2>1, <2>2 DEF TasksOK
<1>18. \A q \in Proxies : (q # p => proxy[q].st \notin Owner) /\ proxy[q].st # "sweep"
  BY <1>1, UpAlone DEF Owner
<1>19. ASSUME NEW g \in (orphaned \ stuck) \ {Probe}
       PROVE  /\ g.n < c
              /\ \A u \in Tasks : Numbered(task'[p][u]) => task'[p][u].file.n # g.n
  <2>1. g.n < proxy[p].counter /\ g.n \in 0 .. MaxNames
    <3>1. g \in WriterFiles
      BY <1>2 DEF TmpTypes
    <3>2. \A h \in WriterFiles : h.n \in 0 .. MaxNames
      BY <1>3, NameFields DEF WriterFiles
    <3> QED
      BY <1>1, <1>2, <3>1, <3>2 DEF SweepOK
  <2>2. g.n < c
    BY <1>3, <1>8, <2>1
  <2>3. Numbered(r) => r.file.n # g.n
    <3>1. ASSUME Numbered(r) PROVE r.file.n # g.n
      <4>1. r.file.n = proxy[p].counter
        BY <1>6, <1>9, <3>1
      <4> QED
        BY <1>3, <2>1, <4>1
    <3> QED
      BY <3>1
  <2> QED
    BY <1>1, <1>2, <1>7, <2>2, <2>3 DEF SweepOK
<1>20. SweepOK'
  BY <1>1, <1>8, <1>18, <1>19 DEF SweepOK, Owner
<1>21. NoStrays'
  <2>1. \A g : InUse(g) => InUse(g)'
    <3>1. ASSUME NEW g, NEW q \in Proxies, NEW u \in Tasks, task[q][u].file = g, task[q][u].pc \in Holding
          PROVE  task'[q][u].file = g /\ task'[q][u].pc \in Holding
      BY <1>1, <1>7, <3>1 DEF Holding
    <3> QED
      BY <3>1 DEF InUse, Holding
  <2> QED
    BY <1>1, <1>2, <1>8, <2>1 DEF NoStrays
<1> QED
  BY <1>11, <1>12, <1>17, <1>20, <1>21 DEF TmpInv

(* The handler goes on: the client leaves, decoding fails, the upload ends.  *)
LEMMA GoesOnInv ==
  ASSUME TmpInv, NEW p \in Proxies, NEW t \in Tasks,
         \/ Disconnect(p, t) \/ DecodeFails(p, t) \/ Uploaded(p, t)
         \/ cleanup(p, t, FALSE)
  PROVE  TmpInv'
<1> DEFINE x == task[p][t]
<1>1. PICK c \in Pcs :
        /\ x.pc # "idle" /\ task' = [task EXCEPT ![p][t].pc = c]
        /\ c # "idle" /\ (c \in Holding <=> x.pc \in Holding)
  <2>1. CASE \/ DecodeFails(p, t) \/ cleanup(p, t, FALSE)
             \/ x.pc \in {"open", "cleanup"} /\ task' = [task EXCEPT ![p][t].pc = "drop"]
             \/ x.pc = "open" /\ task' = [task EXCEPT ![p][t].pc = "late"]
    BY <2>1 DEF DecodeFails, cleanup, Pcs, Holding
  <2>2. CASE Uploaded(p, t)
    BY <2>2 DEF Uploaded, Pcs, Holding
  <2>3. CASE Disconnect(p, t) /\ x.pc = "opening" /\ task' = [task EXCEPT ![p][t].pc = "abandoned"]
    BY <2>3 DEF Disconnect, Pcs, Holding
  <2> QED
    BY <2>1, <2>2, <2>3 DEF Disconnect
<1> DEFINE r == [x EXCEPT !.pc = c]
<1>2. x \in TaskRecs /\ faults \in 0 .. MaxFaults
  BY TaskFacts
<1>3. faults' \in 0 .. MaxFaults
  BY <1>2, ProxyAssumption DEF Disconnect, DecodeFails, Uploaded, cleanup
<1>4. UNCHANGED <<lock, proxy, tmp, stuck, orphaned>>
  BY DEF Disconnect, DecodeFails, Uploaded, cleanup
<1>5. r \in TaskRecs /\ r.pc = c /\ r.kind = x.kind /\ r.file = x.file
  BY <1>2, SetPc
<1>6. Steps(p, t, r)
  BY <1>1, <1>3, <1>4, <1>5 DEF Steps
<1> HIDE DEF r
<1> QED
  BY <1>1, <1>4, <1>5, <1>6, CalmStep

(* The task ends: its file is removed, renamed, or cannot be removed.        *)
LEMMA EndsInv ==
  ASSUME TmpInv, NEW p \in Proxies, NEW t \in Tasks, NEW ok \in BOOLEAN,
         \/ drop(p, t, ok) \/ Discard(p, t, ok) \/ Publish(p, t)
         \/ cleanup(p, t, TRUE) \/ LateCall(p, t, ok)
  PROVE  TmpInv'
<1> DEFINE f == task[p][t].file
<1>1. task[p][t].pc # "idle" /\ Idle(p, t) /\ UNCHANGED <<lock, proxy>>
  BY DEF drop, Discard, Publish, cleanup, LateCall
<1>2. \/ Removed(f)
      \/ stuck' = stuck \cup ({f} \cap tmp) /\ UNCHANGED <<tmp, orphaned>>
      \/ orphaned' = orphaned \cup ({f} \cap tmp) /\ UNCHANGED <<tmp, stuck>>
  BY DEF drop, Discard, Publish, cleanup, LateCall, LastRemoval
<1>3. faults \in 0 .. MaxFaults
  BY TaskFacts
<1>4. faults' \in 0 .. MaxFaults
  BY <1>3, ProxyAssumption DEF drop, Discard, Publish, cleanup, LateCall, LastRemoval
<1>5. Steps(p, t, NoTask)
  BY <1>1, <1>4, EmptyRecs DEF Steps, Idle
<1> QED
  BY <1>1, <1>2, <1>5, RemovalStep

-----------------------------------------------------------------------------
(* The proxies.                                                              *)

LEMMA ProxyFacts ==
  ASSUME TmpInv
  PROVE  /\ TmpTypes /\ LockOK /\ TasksOK /\ SweepOK /\ NoStrays
         /\ proxy \in [Proxies -> ProxyRecs] /\ task \in [Proxies -> [Tasks -> TaskRecs]]
         /\ \A p \in Proxies : /\ proxy[p] \in ProxyRecs
                               /\ proxy[p].st # "up" => \A t \in Tasks : task[p][t].pc = "idle"
<1>1. TmpTypes /\ LockOK /\ TasksOK /\ SweepOK /\ NoStrays
  BY DEF TmpInv
<1>2. proxy \in [Proxies -> ProxyRecs] /\ task \in [Proxies -> [Tasks -> TaskRecs]]
  BY <1>1 DEF TmpTypes
<1> QED
  BY <1>1, <1>2 DEF TasksOK, Named

(* A proxy before it owns the directory.                                     *)
LEMMA StartInv ==
  ASSUME TmpInv, NEW p \in Proxies, NEW pid \in Pids, Start(p, pid)
  PROVE  TmpInv'
<1> DEFINE r == [Down EXCEPT !.st = "lock", !.pid = pid]
<1>1. r \in ProxyRecs /\ r.st = "lock"
  BY EmptyRecs DEF ProxyRecs, States
<1>2. /\ proxy[p].st = "down" /\ proxy' = [proxy EXCEPT ![p] = r]
      /\ UNCHANGED <<lock, task, tmp, stuck, orphaned, collided, faults>>
  BY DEF Start
<1> HIDE DEF r
<1>3. /\ proxy' \in [Proxies -> ProxyRecs] /\ proxy'[p] = r
      /\ \A q \in Proxies : q # p => proxy'[q] = proxy[q]
  BY <1>1, <1>2, ProxyFacts, ProxyMoves
<1>4. TmpTypes'
  BY <1>2, <1>3, ProxyFacts DEF TmpTypes
<1>5. LockOK'
  BY <1>1, <1>2, <1>3, ProxyFacts DEF LockOK, Owner
<1>6. TasksOK'
  <2>1. \A t \in Tasks : task[p][t].pc = "idle"
    BY <1>2, ProxyFacts
  <2> QED
    BY <1>2, <1>3, <2>1, ProxyFacts DEF TasksOK, Named
<1>7. SweepOK'
  BY <1>1, <1>2, <1>3, ProxyFacts DEF SweepOK
<1>8. NoStrays'
  <2>1. \A g : InUse(g)' <=> InUse(g)
    BY <1>2 DEF InUse
  <2> QED
    BY <1>1, <1>2, <1>3, <2>1, ProxyFacts DEF NoStrays
<1> QED
  BY <1>4, <1>5, <1>6, <1>7, <1>8 DEF TmpInv

(* A proxy is down again.  If it served, its tasks are gone.                 *)
LEMMA DownInv ==
  ASSUME TmpInv, NEW p \in Proxies, proxy' = [proxy EXCEPT ![p] = Down],
         lock' = IF lock = p THEN None ELSE lock,
         \/ task' = task /\ proxy[p].st # "up"
         \/ task' = [task EXCEPT ![p] = [t \in Tasks |-> NoTask]],
         UNCHANGED <<tmp, stuck, orphaned, faults>>
  PROVE  TmpInv'
<1>1. /\ proxy' \in [Proxies -> ProxyRecs] /\ proxy'[p] = Down /\ Down.st = "down"
      /\ \A q \in Proxies : q # p => proxy'[q] = proxy[q]
  BY EmptyRecs, ProxyFacts, ProxyMoves
<1>2. /\ task' \in [Proxies -> [Tasks -> TaskRecs]]
      /\ \A t \in Tasks : task'[p][t].pc = "idle"
      /\ \A q \in Proxies : q # p => task'[q] = task[q]
  <2>1. CASE task' = task /\ proxy[p].st # "up"
    BY <2>1, ProxyFacts
  <2>2. CASE task' = [task EXCEPT ![p] = [t \in Tasks |-> NoTask]]
    BY <2>2, ProxyFacts, EmptyRecs
  <2> QED
    BY <2>1, <2>2
<1>3. TmpTypes'
  <2>1. lock' \in Proxies \cup {None}
    BY ProxyFacts DEF TmpTypes
  <2> QED
    BY <1>1, <1>2, <2>1, ProxyFacts DEF TmpTypes
<1>4. LockOK'
  BY <1>1, ProxyFacts, ProxyAssumption DEF LockOK, Owner
<1>5. TasksOK'
  BY <1>1, <1>2, ProxyFacts DEF TasksOK, Named, Apart, Numbered
<1>6. SweepOK'
  BY <1>1, <1>2, ProxyFacts DEF SweepOK
<1>7. NoStrays'
  <2>1. ASSUME NEW q \in Proxies, proxy'[q].st = "up", NEW g \in tmp'
        PROVE  InUse(g)' \/ g \in stuck' \cup orphaned' \/ g \in Strangers
    <3>1. q # p /\ proxy[q].st = "up"
      BY <1>1, <2>1
    <3>2. \A u \in Proxies : u # q => \A t \in Tasks : task[u][t].pc = "idle"
      BY <3>1, UpAlone DEF Owner
    <3>3. InUse(g) => InUse(g)'
      <4>1. ASSUME NEW u \in Proxies, NEW t \in Tasks, task[u][t].file = g, task[u][t].pc \in Holding
            PROVE  InUse(g)'
        <5>1. u = q
          BY <3>2, <4>1 DEF Holding
        <5>2. task'[u][t] = task[u][t]
          BY <1>2, <3>1, <5>1
        <5> QED
          BY <4>1, <5>2 DEF InUse, Holding
      <4> QED
        BY <4>1 DEF InUse, Holding
    <3> QED
      BY <2>1, <3>1, <3>3, ProxyFacts DEF NoStrays
  <2> QED
    BY <2>1 DEF NoStrays
<1> QED
  BY <1>3, <1>4, <1>5, <1>6, <1>7 DEF TmpInv

LEMMA AcquireInv ==
  ASSUME TmpInv, NEW p \in Proxies, Acquire(p)
  PROVE  TmpInv'
<1>1. CASE lock # None
  <2>1. proxy[p].st = "lock" /\ lock # p
    BY ProxyFacts DEF Acquire, LockOK, Owner
  <2> QED
    BY <1>1, <2>1, DownInv DEF Acquire
<1>2. CASE lock = None
  <2> DEFINE r == [proxy[p] EXCEPT !.st = "read_dir"]
  <2>1. r \in ProxyRecs /\ r.st = "read_dir"
    BY ProxyFacts, SetState DEF States
  <2>2. /\ proxy[p].st = "lock" /\ lock' = p /\ proxy' = [proxy EXCEPT ![p] = r]
        /\ UNCHANGED <<task, tmp, stuck, orphaned, faults>>
    BY <1>2 DEF Acquire
  <2> HIDE DEF r
  <2>3. /\ proxy' \in [Proxies -> ProxyRecs] /\ proxy'[p] = r
        /\ \A q \in Proxies : q # p => proxy'[q] = proxy[q]
    BY <2>1, <2>2, ProxyFacts, ProxyMoves
  <2>4. TmpTypes'
    BY <2>2, <2>3, ProxyFacts DEF TmpTypes
  <2>5. LockOK'
    BY <1>2, <2>1, <2>2, <2>3, ProxyFacts, ProxyAssumption DEF LockOK, Owner
  <2>6. TasksOK'
    <3>1. \A t \in Tasks : task[p][t].pc = "idle"
      BY <2>2, ProxyFacts
    <3> QED
      BY <2>2, <2>3, <3>1, ProxyFacts DEF TasksOK, Named
  <2>7. SweepOK'
    BY <2>1, <2>2, <2>3, ProxyFacts DEF SweepOK
  <2>8. NoStrays'
    <3>1. \A g : InUse(g)' <=> InUse(g)
      BY <2>2 DEF InUse
    <3> QED
      BY <2>1, <2>2, <2>3, <3>1, ProxyFacts DEF NoStrays
  <2> QED
    BY <2>4, <2>5, <2>6, <2>7, <2>8 DEF TmpInv
<1> QED
  BY <1>1, <1>2

(* The owner p sweeps: nobody else is about, and no file is in use.          *)
LEMMA OwnerStep ==
  ASSUME TmpInv, NEW p \in Proxies, proxy[p].st \in {"read_dir", "sweep"},
         NEW r \in ProxyRecs, proxy' = [proxy EXCEPT ![p] = r],
         UNCHANGED <<lock, task>>, faults' \in 0 .. MaxFaults,
         tmp' \subseteq tmp, stuck' \cup orphaned' \subseteq tmp', orphaned' \subseteq WriterFiles,
         r.st \in Owner,
         r.st = "sweep" => tmp' \subseteq Strangers \cup r.todo \cup stuck',
         r.st = "up" => /\ tmp' \subseteq Strangers \cup stuck'
  PROVE  TmpInv'
<1>1. /\ proxy' \in [Proxies -> ProxyRecs] /\ proxy'[p] = r
      /\ \A q \in Proxies : q # p => proxy'[q] = proxy[q]
  BY ProxyFacts, ProxyMoves
<1>2. /\ \A q \in Proxies : q # p => proxy[q].st \notin Owner
      /\ \A q \in Proxies, t \in Tasks : task[q][t].pc = "idle"
  BY UpAlone DEF Owner
<1>3. TmpTypes'
  BY <1>1, ProxyFacts DEF TmpTypes
<1>4. LockOK'
  BY <1>1, ProxyFacts DEF LockOK, Owner
<1>5. TasksOK'
  BY <1>2 DEF TasksOK, Apart, Named, Numbered
<1>6. SweepOK'
  <2>1. r.st = "up" => orphaned' \ stuck' = {}
    <3>1. ASSUME r.st = "up", NEW g \in orphaned' \ stuck' PROVE FALSE
      <4>1. g \in Strangers /\ g \in WriterFiles
        BY <3>1
      <4> QED
        BY <4>1, WritersClassified
    <3> QED
      BY <3>1
  <2> QED
    BY <1>1, <1>2, <2>1 DEF SweepOK, Owner
<1>7. NoStrays'
  BY <1>1, <1>2 DEF NoStrays, Owner
<1> QED
  BY <1>3, <1>4, <1>5, <1>6, <1>7 DEF TmpInv

LEMMA ReadDirInv ==
  ASSUME TmpInv, NEW p \in Proxies, NEW ok \in BOOLEAN, ReadDir(p, ok)
  PROVE  TmpInv'
<1> DEFINE todo == IF ok THEN tmp ELSE {}
           r == [proxy[p] EXCEPT !.st = "sweep", !.todo = todo]
<1>1. /\ tmp \subseteq Strangers \cup WriterFiles /\ faults \in 0 .. MaxFaults
      /\ stuck \cup orphaned \subseteq tmp /\ orphaned \subseteq WriterFiles
      /\ proxy[p] \in ProxyRecs
  BY ProxyFacts DEF TmpTypes
<1>2. r \in ProxyRecs /\ r.st = "sweep" /\ r.todo = todo
  BY <1>1 DEF ProxyRecs, States
<1>3. /\ proxy[p].st = "read_dir" /\ proxy' = [proxy EXCEPT ![p] = r]
      /\ UNCHANGED <<lock, task>> /\ tmp' = tmp /\ orphaned' = orphaned
      /\ stuck' = IF ok THEN stuck ELSE stuck \cup tmp
  BY ProxyFacts DEF ReadDir
<1>4. faults' \in 0 .. MaxFaults
  BY <1>1, ProxyAssumption DEF ReadDir
<1> HIDE DEF r
<1>5. stuck' \cup orphaned' \subseteq tmp' /\ tmp' \subseteq Strangers \cup r.todo \cup stuck'
  BY <1>1, <1>2, <1>3
<1> QED
  BY <1>1, <1>2, <1>3, <1>4, <1>5, OwnerStep DEF Owner

LEMMA SweepEntryInv ==
  ASSUME TmpInv, NEW p \in Proxies, NEW f \in tmp, NEW ok \in BOOLEAN, SweepEntry(p, f, ok)
  PROVE  TmpInv'
<1> DEFINE r == [proxy[p] EXCEPT !.todo = @ \ {f}]
           swept == f.type = "file" /\ classify(f) # None
<1>1. /\ tmp \subseteq Strangers \cup WriterFiles /\ faults \in 0 .. MaxFaults
      /\ stuck \cup orphaned \subseteq tmp /\ orphaned \subseteq WriterFiles
      /\ proxy[p] \in ProxyRecs
  BY ProxyFacts DEF TmpTypes
<1>2. r \in ProxyRecs /\ r.st = proxy[p].st /\ r.todo = proxy[p].todo \ {f}
  BY <1>1 DEF ProxyRecs
<1>3. /\ proxy[p].st = "sweep" /\ proxy' = [proxy EXCEPT ![p] = r]
      /\ UNCHANGED <<lock, task>>
      /\ tmp' = IF swept /\ ok THEN tmp \ {f} ELSE tmp
      /\ stuck' = IF swept /\ ~ok THEN stuck \cup {f} ELSE stuck \ (tmp \ tmp')
      /\ orphaned' = orphaned \ (tmp \ tmp')
  BY ProxyFacts DEF SweepEntry
<1>4. faults' \in 0 .. MaxFaults
  BY <1>1, ProxyAssumption DEF SweepEntry
<1>5. f \in Strangers \/ swept
  BY <1>1, WritersClassified
<1>6. tmp \subseteq Strangers \cup proxy[p].todo \cup stuck
  BY <1>3, ProxyFacts DEF SweepOK
<1>7. ok \/ swept
  BY DEF SweepEntry
<1> HIDE DEF r, swept
<1>8. tmp' \subseteq tmp /\ stuck' \cup orphaned' \subseteq tmp' /\ orphaned' \subseteq WriterFiles
  BY <1>1, <1>3, <1>7
<1>9. tmp' \subseteq Strangers \cup r.todo \cup stuck'
  BY <1>2, <1>3, <1>5, <1>6, <1>7
<1> QED
  BY <1>2, <1>3, <1>4, <1>8, <1>9, OwnerStep DEF Owner

LEMMA FinishStartInv ==
  ASSUME TmpInv, NEW p \in Proxies, NEW ok \in BOOLEAN, FinishStart(p, ok)
  PROVE  TmpInv'
<1>1. proxy[p].st = "sweep" /\ lock = p
  BY UpAlone DEF FinishStart, Owner
<1>2. CASE ~ok
  BY <1>1, <1>2, DownInv DEF FinishStart
<1>3. CASE ok
  <2> DEFINE r == [proxy[p] EXCEPT !.st = "up"]
  <2>1. r \in ProxyRecs /\ r.st = "up"
    BY ProxyFacts, SetState DEF States
  <2>2. /\ proxy' = [proxy EXCEPT ![p] = r] /\ UNCHANGED <<lock, task, tmp, stuck, orphaned, faults>>
        /\ proxy[p].todo = {}
    BY <1>3 DEF FinishStart
  <2> HIDE DEF r
  <2>3. tmp \subseteq Strangers \cup stuck
    BY <1>1, <2>2, ProxyFacts DEF SweepOK
  <2>4. faults \in 0 .. MaxFaults /\ stuck \cup orphaned \subseteq tmp /\ orphaned \subseteq WriterFiles
    BY ProxyFacts DEF TmpTypes
  <2> QED
    BY <1>1, <2>1, <2>2, <2>3, <2>4, OwnerStep DEF Owner
<1> QED
  BY <1>2, <1>3

LEMMA TmpInit ==
  ASSUME Init PROVE TmpInv
<1>1. \A p \in Proxies : proxy[p] = Down
  BY DEF Init
<1>2. \A p \in Proxies, t \in Tasks : task[p][t] = NoTask
  BY DEF Init
<1>3. TmpTypes
  <2>1. proxy \in [Proxies -> ProxyRecs]
    BY EmptyRecs DEF Init
  <2>2. task \in [Proxies -> [Tasks -> TaskRecs]]
    BY EmptyRecs DEF Init
  <2>3. tmp \subseteq Strangers
    BY DEF Init
  <2>4. 0 \in 0 .. MaxFaults
    BY ProxyAssumption
  <2> QED
    BY <2>1, <2>2, <2>3, <2>4 DEF Init, TmpTypes
<1>4. LockOK
  BY <1>1, EmptyRecs, ProxyAssumption DEF LockOK, Init, Owner
<1>5. TasksOK
  BY <1>1, <1>2, EmptyRecs DEF TasksOK, Apart, Named, Numbered
<1>6. SweepOK
  BY <1>1, EmptyRecs DEF SweepOK
<1>7. NoStrays
  BY <1>1, EmptyRecs DEF NoStrays
<1> QED
  BY <1>3, <1>4, <1>5, <1>6, <1>7 DEF TmpInv

LEMMA TmpStep ==
  ASSUME TmpInv, [Next]_vars PROVE TmpInv'
<1>1. CASE UNCHANGED vars
  BY <1>1 DEF vars, TmpInv, TmpTypes, LockOK, TasksOK, SweepOK, NoStrays, InUse
<1>2. ASSUME NEW p \in Proxies, NEW pid \in Pids, Start(p, pid) PROVE TmpInv'
  BY <1>2, StartInv
<1>3. ASSUME NEW p \in Proxies, Acquire(p) PROVE TmpInv'
  BY <1>3, AcquireInv
<1>4. ASSUME NEW p \in Proxies, Crash(p) PROVE TmpInv'
  BY <1>4, DownInv DEF Crash
<1>5. ASSUME NEW p \in Proxies, NEW ok \in BOOLEAN, ReadDir(p, ok) PROVE TmpInv'
  BY <1>5, ReadDirInv
<1>6. ASSUME NEW p \in Proxies, NEW ok \in BOOLEAN, FinishStart(p, ok) PROVE TmpInv'
  BY <1>6, FinishStartInv
<1>7. ASSUME NEW p \in Proxies, NEW ok \in BOOLEAN, NEW f \in tmp, SweepEntry(p, f, ok) PROVE TmpInv'
  BY <1>7, SweepEntryInv
<1>8. ASSUME NEW p \in Proxies, NEW t \in Tasks,
             ready_check(p, t) \/ \E k \in Kinds : Create(p, t, k)
      PROVE  TmpInv'
  BY <1>8, CreateInv
<1>9. ASSUME NEW p \in Proxies, NEW t \in Tasks, Opened(p, t) PROVE TmpInv'
  BY <1>9, OpenedInv
<1>10. ASSUME NEW p \in Proxies, NEW t \in Tasks, AbandonedOpen(p, t) PROVE TmpInv'
  BY <1>10, AbandonedInv
<1>11. ASSUME NEW p \in Proxies, NEW t \in Tasks,
              Disconnect(p, t) \/ DecodeFails(p, t) \/ Uploaded(p, t)
       PROVE  TmpInv'
  BY <1>11, GoesOnInv
<1>12. ASSUME NEW p \in Proxies, NEW t \in Tasks, NEW ok \in BOOLEAN, cleanup(p, t, ok) PROVE TmpInv'
  <2>1. CASE ok = TRUE
    BY <1>12, <2>1, EndsInv
  <2>2. CASE ok = FALSE
    BY <1>12, <2>2, GoesOnInv
  <2> QED
    BY <2>1, <2>2
<1>13. ASSUME NEW p \in Proxies, NEW t \in Tasks, NEW ok \in BOOLEAN,
              drop(p, t, ok) \/ Discard(p, t, ok) \/ LateCall(p, t, ok)
       PROVE  TmpInv'
  BY <1>13, EndsInv
<1>14. ASSUME NEW p \in Proxies, NEW t \in Tasks, Publish(p, t) PROVE TmpInv'
  BY <1>14, EndsInv
<1> QED
  BY <1>1, <1>2, <1>3, <1>4, <1>5, <1>6, <1>7, <1>8, <1>9, <1>10, <1>11, <1>12, <1>13, <1>14 DEF Next

-----------------------------------------------------------------------------
(* TmpInv gives what the runs check.                                         *)

LEMMA LiveFiles ==
  ASSUME TmpInv PROVE LiveFilesKept
<1>1. ASSUME NEW p \in Proxies, NEW t \in Tasks, task[p][t].pc \in Holding, task[p][t].kind # "ReadyzProbe"
      PROVE  /\ task[p][t].file \in tmp
             /\ \A q \in Proxies, u \in Tasks :
                   task[q][u].pc \in Holding /\ task[q][u].file = task[p][t].file => q = p /\ u = t
  <2>1. Numbered(task[p][t])
    BY <1>1 DEF Numbered, Holding
  <2>2. task[p][t].file \in tmp
    BY <1>1, <2>1, ProxyFacts DEF TasksOK
  <2>3. proxy[p].st \in Owner
    BY <2>1, TaskFacts DEF Owner, Numbered
  <2>4. ASSUME NEW q \in Proxies, NEW u \in Tasks, task[q][u].pc \in Holding,
               task[q][u].file = task[p][t].file
        PROVE  q = p /\ u = t
    <3>1. q = p
      BY <2>3, <2>4, UpAlone DEF Holding
    <3>2. u = t
      BY <2>1, <2>4, <3>1, FilesApart DEF Holding
    <3> QED
      BY <3>1, <3>2
  <2> QED
    BY <2>2, <2>4
<1> QED
  BY <1>1 DEF LiveFilesKept, Holding

LEMMA TmpTypeOK ==
  ASSUME TmpInv PROVE TypeOK
<1>1. TmpTypes /\ \A p \in Proxies : proxy[p] \in ProxyRecs
  BY ProxyFacts
<1>2. \A p \in Proxies, t \in Tasks : task[p][t].pc \in Pcs
  BY TaskFacts
<1> QED
  BY <1>1, <1>2 DEF TmpTypes, TypeOK, ProxyRecs, States, Pcs

(* The name a writer of the serving proxy finds taken is a file whose        *)
(* removal failed.                                                           *)
LEMMA TakenNames ==
  ASSUME TmpInv, NEW p \in Proxies, NEW t \in Tasks, Opened(p, t)
  PROVE  \A f \in collided' \ collided : f \in stuck
<1> DEFINE x == task[p][t]
           g == x.file
<1>1. /\ x.pc = "opening"
      /\ \A f \in collided' \ collided : f = g /\ g \in tmp /\ x.kind \notin {"FillBody", "ReadyzProbe"}
  BY DEF Opened
<1>2. proxy[p].st = "up" /\ g \in WriterFiles
  BY <1>1, TaskFacts
<1>3. ASSUME g \in tmp, x.kind # "ReadyzProbe" PROVE g \in stuck
  <2>1. Numbered(x)
    BY <1>1, <1>3 DEF Numbered
  <2>2. g \notin Strangers
    BY <1>2, WritersClassified
  <2>3. ~InUse(g)
    <3>1. ASSUME NEW q \in Proxies, NEW u \in Tasks, task[q][u].file = g, task[q][u].pc \in Holding
          PROVE  FALSE
      <4>1. q = p
        BY <1>2, <3>1, UpAlone DEF Owner, Holding
      <4>2. u # t
        BY <1>1, <3>1, <4>1 DEF Holding
      <4> QED
        BY <2>1, <3>1, <4>1, <4>2, FilesApart DEF Holding
    <3> QED
      BY <3>1 DEF InUse, Holding
  <2>4. g \in stuck \cup orphaned
    BY <1>2, <1>3, <2>2, <2>3, ProxyFacts DEF NoStrays
  <2>5. g # Probe
    <3>1. x.kind \in Kinds /\ g = Name(x.kind, proxy[p].pid, g.n)
      BY <1>1, ProxyFacts DEF TasksOK, Named
    <3>2. g.exts = Shape[x.kind].exts /\ Probe.exts = Shape["ReadyzProbe"].exts
      BY <3>1, NameFields, KindNames DEF Probe
    <3> QED
      BY <1>3, <3>1, <3>2, KindNames
  <2>6. ~(g \in orphaned \ stuck)
    BY <1>2, <2>1, <2>5, ProxyFacts DEF SweepOK
  <2> QED
    BY <2>4, <2>6
<1> QED
  BY <1>1, <1>3

(* Whatever a step removes is a writer's file.                               *)
LEMMA RemovedFiles ==
  ASSUME TmpInv, Next PROVE \A f \in tmp \ tmp' : f \notin Strangers
<1>1. CASE tmp' = tmp
  BY <1>1
<1>2. ASSUME NEW p \in Proxies, NEW f \in tmp, NEW ok \in BOOLEAN, SweepEntry(p, f, ok)
      PROVE  \A g \in tmp \ tmp' : g \notin Strangers
  BY <1>2, ClassifiedShape DEF SweepEntry
<1>3. ASSUME NEW p \in Proxies, NEW t \in Tasks, NEW ok \in BOOLEAN,
             \/ drop(p, t, ok) \/ Discard(p, t, ok) \/ Publish(p, t) \/ cleanup(p, t, ok)
             \/ LateCall(p, t, ok)
      PROVE  \A g \in tmp \ tmp' : g \notin Strangers
  <2>1. task[p][t].pc # "idle"
    BY <1>3 DEF drop, Discard, Publish, cleanup, LateCall
  <2>2. \A g \in tmp \ tmp' : g = task[p][t].file
    BY <1>3 DEF drop, Discard, Publish, cleanup, LateCall, LastRemoval, Removed
  <2> QED
    BY <2>1, <2>2, TaskFacts, WritersClassified
<1>4. ASSUME NEW p \in Proxies, NEW t \in Tasks, Opened(p, t) \/ AbandonedOpen(p, t)
      PROVE  \A g \in tmp \ tmp' : g \notin Strangers
  BY <1>4 DEF Opened, AbandonedOpen
<1>5. ASSUME NEW p \in Proxies,
             \/ \E pid \in Pids : Start(p, pid)
             \/ Acquire(p) \/ Crash(p)
             \/ \E ok \in BOOLEAN : ReadDir(p, ok) \/ FinishStart(p, ok)
      PROVE  tmp' = tmp
  BY <1>5 DEF Start, Acquire, Crash, ReadDir, FinishStart
<1>6. ASSUME NEW p \in Proxies, NEW t \in Tasks,
             \/ \E k \in Kinds : Create(p, t, k)
             \/ ready_check(p, t) \/ Disconnect(p, t) \/ DecodeFails(p, t) \/ Uploaded(p, t)
      PROVE  tmp' = tmp
  BY <1>6 DEF Create, ready_check, Disconnect, DecodeFails, Uploaded
<1>7. ASSUME NEW p \in Proxies, NEW t \in Tasks, Publish(p, t)
      PROVE  \A g \in tmp \ tmp' : g \notin Strangers
  <2>1. TRUE \in BOOLEAN
    OBVIOUS
  <2> QED
    BY <1>3, <1>7, <2>1
<1> QED
  BY <1>1, <1>2, <1>3, <1>4, <1>5, <1>6, <1>7 DEF Next

LEMMA CollidedNames ==
  ASSUME TmpInv, Next PROVE \A f \in collided' \ collided : f \in stuck
<1>1. CASE collided' = collided
  BY <1>1
<1>2. ASSUME NEW p \in Proxies, NEW t \in Tasks, Opened(p, t)
      PROVE  \A f \in collided' \ collided : f \in stuck
  BY <1>2, TakenNames
<1>3. ASSUME NEW p \in Proxies,
             \/ \E pid \in Pids : Start(p, pid)
             \/ Acquire(p) \/ Crash(p)
             \/ \E ok \in BOOLEAN : \/ ReadDir(p, ok) \/ FinishStart(p, ok)
                                   \/ \E f \in tmp : SweepEntry(p, f, ok)
      PROVE  collided' = collided
  BY <1>3 DEF Start, Acquire, Crash, ReadDir, FinishStart, SweepEntry
<1>4. ASSUME NEW p \in Proxies, NEW t \in Tasks,
             \/ \E k \in Kinds : Create(p, t, k)
             \/ ready_check(p, t) \/ Disconnect(p, t) \/ DecodeFails(p, t) \/ Uploaded(p, t)
             \/ AbandonedOpen(p, t) \/ Publish(p, t)
             \/ \E ok \in BOOLEAN : cleanup(p, t, ok) \/ drop(p, t, ok) \/ Discard(p, t, ok) \/ LateCall(p, t, ok)
      PROVE  collided' = collided
  BY <1>4 DEF Create, ready_check, Disconnect, DecodeFails, Uploaded, AbandonedOpen, Publish, cleanup, drop, Discard,
               LateCall
<1> QED
  BY <1>1, <1>2, <1>3, <1>4 DEF Next

(* The lock, the names and the sweep keep the directory in order: the        *)
(* inductive invariant of tmp_sweep.rs, CacheDirLock and UploadSpoolGuard.   *)
THEOREM DirectoryInOrder == Spec => []TmpInv
<1>1. Init => TmpInv
  BY TmpInit
<1>2. TmpInv /\ [Next]_vars => TmpInv'
  BY TmpStep
<1> QED
  BY <1>1, <1>2, PTL DEF Spec

(* While a request writes or uploads a temporary file nobody else removes or *)
(* reuses it, and a proxy that serves has only files in the directory that   *)
(* are in use, are not its own, could not be removed, or are the spool of a  *)
(* request that had gone when it was opened.                                 *)
THEOREM TmpFilesAreKept == Spec => []TmpFilesKept
<1>1. TmpInv => TmpFilesKept
  <2>1. ASSUME TmpInv PROVE TmpFilesKept
    <3>1. TypeOK /\ LiveFilesKept /\ NoStrays
      BY <2>1, TmpTypeOK, LiveFiles, ProxyFacts
    <3> QED
      BY <3>1 DEF TmpFilesKept
  <2> QED
    BY <2>1
<1> QED
  BY <1>1, DirectoryInOrder, PTL

(* Counters restart and process ids repeat, yet create_new finds a name      *)
(* taken only when a removal failed; and the sweep, like every writer,       *)
(* removes no file that no writer made.                                      *)
THEOREM NamesAreSafe == Spec => NamesSafe
<1>1. TmpInv /\ [Next]_vars => [\A f \in collided' \ collided : f \in stuck]_vars
  BY CollidedNames
<1>2. TmpInv /\ [Next]_vars => [\A f \in tmp \ tmp' : f \notin Strangers]_vars
  BY RemovedFiles
<1> QED
  BY <1>1, <1>2, DirectoryInOrder, PTL DEF NamesSafe, NoCollision, StrangersKept, Spec

-----------------------------------------------------------------------------
(* SecureDirs: any number of callers, any depth, any number of changes by    *)
(* the operator.                                                             *)

DirsTypes ==
    /\ relative \in BOOLEAN /\ meddled \in Nat
    /\ entry \in [Levels -> {"none", "file", "dir"}]
    /\ mode \in [Levels -> {"0700", "looser"}]
    /\ made \subseteq Levels
    /\ pc \in [Callers -> {"walk", "create", "verify", "ok", "error"}]
    /\ at \in [Callers -> 0 .. Depth]

(* The walk is below the leaf, the other steps are at a level.               *)
InRange ==
    \A t \in Callers : /\ pc[t] = "walk" => at[t] < Depth
                       /\ pc[t] \in {"create", "verify"} => at[t] \in Levels

(* What the proxy made is there until somebody removes it.                   *)
MadeStands == \A i \in made : entry[i] = "dir"

(* Nobody interfered: there are only directories, and a caller has found or  *)
(* made what it needs for its next step.                                     *)
Undisturbed ==
    meddled = 0 =>
        /\ \A i \in Levels : entry[i] \in {"none", "dir"}
        /\ \A t \in Callers : /\ pc[t] # "error"
                              /\ pc[t] = "create" => Exists(at[t] - 1)
                              /\ pc[t] = "verify" => entry[at[t]] = "dir"

DirsInv == DirsTypes /\ InRange /\ MadeStands /\ Undisturbed /\ ModesKept

LEMMA LevelFacts == /\ Depth \in Nat \ {0} /\ MaxMeddling \in Nat /\ Depth \in Levels
                    /\ \A i \in Levels : i \in Int /\ i >= 1 /\ i <= Depth /\ i - 1 \in 0 .. Depth
                    /\ \A i \in 0 .. Depth : i < Depth => i + 1 \in Levels /\ (i + 1) - 1 = i
                    /\ \A i \in 0 .. Depth : i = 0 \/ i \in Levels
BY DepthAssumption DEF Levels

(* A caller moves.                                                           *)
LEMMA CallerMoves ==
  ASSUME DirsTypes, NEW t \in Callers, NEW p \in {"walk", "create", "verify", "ok", "error"},
         NEW i \in 0 .. Depth, Move(t, p, i)
  PROVE  /\ pc' \in [Callers -> {"walk", "create", "verify", "ok", "error"}]
         /\ at' \in [Callers -> 0 .. Depth]
         /\ pc'[t] = p /\ at'[t] = i
         /\ \A u \in Callers : u # t => pc'[u] = pc[u] /\ at'[u] = at[u]
BY DEF DirsTypes, Move

LEMMA DirsInitInv ==
  ASSUME DirsInit PROVE DirsInv
<1>1. PICK n \in 0 .. Depth : entry = [i \in Levels |-> IF i <= n THEN "dir" ELSE "none"]
  BY DEF DirsInit
<1>2. /\ relative \in BOOLEAN /\ mode = [i \in Levels |-> "looser"] /\ made = {}
      /\ pc = [t \in Callers |-> "walk"] /\ at = [t \in Callers |-> Depth - 1] /\ meddled = 0
  BY DEF DirsInit
<1>3. Depth - 1 \in 0 .. Depth /\ Depth - 1 < Depth
  BY LevelFacts
<1>4. \A i \in Levels : entry[i] \in {"none", "dir"}
  BY <1>1
<1>5. DirsTypes
  BY <1>1, <1>2, <1>3 DEF DirsTypes
<1>6. InRange
  BY <1>2, <1>3 DEF InRange
<1>7. MadeStands /\ ModesKept
  BY <1>2 DEF MadeStands, ModesKept
<1>8. Undisturbed
  BY <1>2, <1>4 DEF Undisturbed
<1> QED
  BY <1>5, <1>6, <1>7, <1>8 DEF DirsInv

(* A step of caller t to p at level i, which may have made a level.          *)
LEMMA CallerStep ==
  ASSUME DirsInv, NEW t \in Callers, NEW p \in {"walk", "create", "verify", "ok", "error"},
         NEW i \in 0 .. Depth, Move(t, p, i), UNCHANGED <<relative, meddled>>,
         \/ UNCHANGED <<entry, mode, made>>
         \/ \E j \in Levels : /\ entry[j] = "none" /\ made' = made \cup {j}
                              /\ entry' = [entry EXCEPT ![j] = "dir"] /\ mode' = [mode EXCEPT ![j] = "0700"],
         p = "walk" => i < Depth,
         p \in {"create", "verify"} => i \in Levels,
         meddled = 0 => /\ p # "error"
                        /\ p = "create" => i - 1 = 0 \/ (i - 1 \in Levels /\ entry'[i - 1] = "dir")
                        /\ p = "verify" => entry'[i] = "dir"
  PROVE  DirsInv'
<1>1. DirsTypes /\ InRange /\ MadeStands /\ Undisturbed /\ ModesKept
  BY DEF DirsInv
<1>2. /\ pc' \in [Callers -> {"walk", "create", "verify", "ok", "error"}] /\ at' \in [Callers -> 0 .. Depth]
      /\ pc'[t] = p /\ at'[t] = i
      /\ \A u \in Callers : u # t => pc'[u] = pc[u] /\ at'[u] = at[u]
  BY <1>1, CallerMoves
<1>3. /\ entry' \in [Levels -> {"none", "file", "dir"}] /\ mode' \in [Levels -> {"0700", "looser"}]
      /\ made' \subseteq Levels
      /\ \A j \in Levels : entry[j] = "dir" => entry'[j] = "dir"
      /\ \A j \in Levels : entry'[j] = entry[j] \/ entry'[j] = "dir"
      /\ \A j \in made' : entry'[j] = "dir" /\ mode'[j] = "0700"
      /\ \A j \in Levels \ made' : entry'[j] = "dir" => mode'[j] = "looser"
  <2>1. CASE UNCHANGED <<entry, mode, made>>
    BY <1>1, <2>1 DEF DirsTypes, MadeStands, ModesKept
  <2>2. ASSUME NEW j \in Levels, entry[j] = "none", made' = made \cup {j},
               entry' = [entry EXCEPT ![j] = "dir"], mode' = [mode EXCEPT ![j] = "0700"]
        PROVE  /\ entry' \in [Levels -> {"none", "file", "dir"}] /\ mode' \in [Levels -> {"0700", "looser"}]
               /\ made' \subseteq Levels
               /\ \A k \in Levels : entry[k] = "dir" => entry'[k] = "dir"
               /\ \A k \in Levels : entry'[k] = entry[k] \/ entry'[k] = "dir"
               /\ \A k \in made' : entry'[k] = "dir" /\ mode'[k] = "0700"
               /\ \A k \in Levels \ made' : entry'[k] = "dir" => mode'[k] = "looser"
    BY <1>1, <2>2 DEF DirsTypes, MadeStands, ModesKept
  <2> QED
    BY <2>1, <2>2
<1>4. DirsTypes'
  BY <1>1, <1>2, <1>3 DEF DirsTypes
<1>5. InRange'
  <2>1. ASSUME NEW u \in Callers
        PROVE  /\ pc'[u] = "walk" => at'[u] < Depth
               /\ pc'[u] \in {"create", "verify"} => at'[u] \in Levels
    BY <1>1, <1>2 DEF InRange
  <2> QED
    BY <2>1 DEF InRange, Levels
<1>6. MadeStands' /\ ModesKept'
  BY <1>3 DEF MadeStands, ModesKept, Levels
<1>7. Undisturbed'
  <2>1. SUFFICES ASSUME meddled = 0
                 PROVE  /\ \A j \in Levels : entry'[j] \in {"none", "dir"}
                        /\ \A u \in Callers : /\ pc'[u] # "error"
                                              /\ pc'[u] = "create" => Exists(at[u] - 1)'
                                              /\ pc'[u] = "verify" => entry'[at'[u]] = "dir"
    BY DEF Undisturbed, Levels
  <2>2. \A j \in Levels : entry'[j] \in {"none", "dir"}
    BY <1>1, <1>3, <2>1 DEF Undisturbed
  <2>3. ASSUME NEW u \in Callers
        PROVE  /\ pc'[u] # "error"
               /\ pc'[u] = "create" => Exists(at[u] - 1)'
               /\ pc'[u] = "verify" => entry'[at'[u]] = "dir"
    <3>1. CASE u = t
      BY <1>2, <2>1, <3>1 DEF Exists, Levels
    <3>2. CASE u # t
      <4>1. pc'[u] = pc[u] /\ at'[u] = at[u]
        BY <1>2, <3>2
      <4>2. pc[u] = "create" => Exists(at[u] - 1)'
        BY <1>1, <1>3, <2>1, <4>1 DEF Undisturbed, Exists, Levels
      <4>3. pc[u] = "verify" => entry'[at[u]] = "dir"
        BY <1>1, <1>3, <2>1 DEF Undisturbed, InRange
      <4> QED
        BY <1>1, <2>1, <4>1, <4>2, <4>3 DEF Undisturbed
    <3> QED
      BY <3>1, <3>2
  <2> QED
    BY <2>2, <2>3
<1> QED
  BY <1>4, <1>5, <1>6, <1>7 DEF DirsInv

LEMMA WalkInv ==
  ASSUME DirsInv, NEW t \in Callers, Walk(t) PROVE DirsInv'
<1> DEFINE i == at[t]
<1>1. /\ pc[t] = "walk" /\ i \in 0 .. Depth /\ i < Depth /\ i + 1 \in Levels /\ (i + 1) - 1 = i
      /\ i + 1 \in 0 .. Depth /\ 1 \in Levels /\ 1 \in 0 .. Depth
      /\ UNCHANGED <<relative, entry, mode, made, meddled>>
  BY DepthAssumption DEF Walk, DirsInv, DirsTypes, InRange, Levels
<1>2. CASE i = 0 /\ relative /\ Move(t, "create", 1)
  BY <1>1, <1>2, CallerStep
<1>3. CASE ~(i = 0 /\ relative) /\ metadata(i) = "dir" /\ Move(t, "create", i + 1)
  <2>1. i = 0 \/ (i \in Levels /\ entry[i] = "dir")
    BY <1>1, <1>3, LevelFacts DEF metadata
  <2> QED
    BY <1>1, <1>3, <2>1, CallerStep
<1>4. CASE ~(i = 0 /\ relative) /\ metadata(i) = "file" /\ Move(t, "error", i)
  <2>1. i \in Levels /\ entry[i] = "file"
    BY <1>1, <1>4, LevelFacts DEF metadata
  <2>2. meddled # 0
    BY <2>1 DEF DirsInv, Undisturbed
  <2> QED
    BY <1>1, <1>4, <2>2, CallerStep
<1>5. CASE ~(i = 0 /\ relative) /\ metadata(i) = "none" /\ Move(t, "walk", i - 1)
  <2>1. i \in Levels
    BY <1>1, <1>5, LevelFacts DEF metadata
  <2>2. i - 1 \in 0 .. Depth /\ i - 1 < Depth
    BY <1>1, <2>1, DepthAssumption DEF Levels
  <2> QED
    BY <1>1, <1>5, <2>2, CallerStep
<1> QED
  BY <1>2, <1>3, <1>4, <1>5 DEF Walk

(* A level is there: on to the next one.                                     *)
LEMMA CreatedInv ==
  ASSUME DirsInv, NEW t \in Callers, at[t] \in Levels, Created(t), UNCHANGED <<relative, meddled>>,
         meddled = 0 => entry'[at[t]] = "dir",
         \/ UNCHANGED <<entry, mode, made>>
         \/ \E j \in Levels : /\ entry[j] = "none" /\ made' = made \cup {j}
                              /\ entry' = [entry EXCEPT ![j] = "dir"] /\ mode' = [mode EXCEPT ![j] = "0700"]
  PROVE  DirsInv'
<1>1. CASE at[t] = Depth
  <2>1. Depth \in 0 .. Depth
    BY LevelFacts
  <2> QED
    BY <1>1, <2>1, CallerStep DEF Created
<1>2. CASE at[t] # Depth
  <2>1. at[t] + 1 \in Levels /\ at[t] + 1 \in 0 .. Depth /\ (at[t] + 1) - 1 = at[t]
    BY <1>2, DepthAssumption DEF Levels
  <2> QED
    BY <1>2, <2>1, CallerStep DEF Created
<1> QED
  BY <1>1, <1>2

LEMMA CreateDirInv ==
  ASSUME DirsInv, NEW t \in Callers, create_dir_secure(t) PROVE DirsInv'
<1> DEFINE i == at[t]
<1>1. pc[t] = "create" /\ i \in Levels /\ i \in 0 .. Depth /\ UNCHANGED <<relative, meddled>>
  BY DEF create_dir_secure, DirsInv, DirsTypes, InRange
<1>2. CASE ~Exists(i - 1) /\ Move(t, "error", i) /\ UNCHANGED <<entry, mode, made>>
  <2>1. meddled # 0
    BY <1>1, <1>2 DEF DirsInv, Undisturbed
  <2> QED
    BY <1>1, <1>2, <2>1, CallerStep
<1>3. CASE /\ entry[i] = "none" /\ entry' = [entry EXCEPT ![i] = "dir"] /\ mode' = [mode EXCEPT ![i] = "0700"]
           /\ made' = made \cup {i} /\ Created(t)
  <2>1. entry'[i] = "dir"
    BY <1>1, <1>3 DEF DirsInv, DirsTypes
  <2> QED
    BY <1>1, <1>3, <2>1, CreatedInv
<1>4. CASE entry[i] # "none" /\ Move(t, "verify", i) /\ UNCHANGED <<entry, mode, made>>
  <2>1. meddled = 0 => entry'[i] = "dir"
    BY <1>1, <1>4 DEF DirsInv, Undisturbed
  <2> QED
    BY <1>1, <1>4, <2>1, CallerStep
<1> QED
  BY <1>2, <1>3, <1>4 DEF create_dir_secure

LEMMA VerifyInv ==
  ASSUME DirsInv, NEW t \in Callers, verify_existing_dir(t) PROVE DirsInv'
<1> DEFINE i == at[t]
<1>1. pc[t] = "verify" /\ i \in Levels /\ i \in 0 .. Depth /\ UNCHANGED <<relative, entry, mode, made, meddled>>
  BY DEF verify_existing_dir, DirsInv, DirsTypes, InRange
<1>2. meddled = 0 => entry[i] = "dir"
  BY <1>1 DEF DirsInv, Undisturbed
<1>3. CASE Exists(i) /\ Created(t)
  BY <1>1, <1>2, <1>3, CreatedInv
<1>4. CASE ~Exists(i) /\ Move(t, "error", i)
  <2>1. meddled # 0
    BY <1>1, <1>2, <1>4 DEF Exists
  <2> QED
    BY <1>1, <1>4, <2>1, CallerStep
<1> QED
  BY <1>3, <1>4 DEF verify_existing_dir

LEMMA MeddleInv ==
  ASSUME DirsInv, Meddle PROVE DirsInv'
<1>1. DirsTypes /\ InRange /\ MadeStands /\ ModesKept
  BY DEF DirsInv
<1>2. meddled' \in Nat /\ meddled' # 0 /\ UNCHANGED <<relative, pc, at>>
  BY <1>1 DEF Meddle, DirsTypes
<1>3. InRange' /\ Undisturbed'
  BY <1>1, <1>2 DEF InRange, Undisturbed, Levels
<1>4. PICK i \in Levels :
        \/ /\ entry[i] = "none"
           /\ \E k \in {"file", "dir"} : entry' = [entry EXCEPT ![i] = k]
           /\ mode' = [mode EXCEPT ![i] = "looser"] /\ made' = made
        \/ /\ entry' = [entry EXCEPT ![i] = "none"] /\ made' = made \ {i} /\ mode' = mode
  BY DEF Meddle
<1>5. CASE /\ entry[i] = "none"
           /\ \E k \in {"file", "dir"} : entry' = [entry EXCEPT ![i] = k]
           /\ mode' = [mode EXCEPT ![i] = "looser"] /\ made' = made
  <2>1. PICK k \in {"file", "dir"} : entry' = [entry EXCEPT ![i] = k]
    BY <1>5
  <2>2. i \notin made
    BY <1>1, <1>5 DEF MadeStands
  <2>3. DirsTypes'
    BY <1>1, <1>2, <1>5, <2>1 DEF DirsTypes
  <2>4. MadeStands' /\ ModesKept'
    BY <1>1, <1>5, <2>1, <2>2 DEF DirsTypes, MadeStands, ModesKept, Levels
  <2> QED
    BY <1>3, <2>3, <2>4 DEF DirsInv
<1>6. CASE entry' = [entry EXCEPT ![i] = "none"] /\ made' = made \ {i} /\ mode' = mode
  <2>1. DirsTypes'
    BY <1>1, <1>2, <1>6 DEF DirsTypes
  <2>2. MadeStands' /\ ModesKept'
    BY <1>1, <1>6 DEF DirsTypes, MadeStands, ModesKept, Levels
  <2> QED
    BY <1>3, <2>1, <2>2 DEF DirsInv
<1> QED
  BY <1>4, <1>5, <1>6

(* The inductive invariant of create_dir_all_secure.                         *)
LEMMA DirsStep ==
  ASSUME DirsInv, [DirsNext]_dirsVars PROVE DirsInv'
<1>1. CASE UNCHANGED dirsVars
  BY <1>1 DEF dirsVars, DirsInv, DirsTypes, InRange, MadeStands, Undisturbed, ModesKept, Exists, Levels
<1>2. CASE Meddle
  BY <1>2, MeddleInv
<1>3. ASSUME NEW t \in Callers, Walk(t) \/ create_dir_secure(t) \/ verify_existing_dir(t) PROVE DirsInv'
  BY <1>3, WalkInv, CreateDirInv, VerifyInv
<1> QED
  BY <1>1, <1>2, <1>3 DEF DirsNext

(* Calls of create_dir_all_secure on the same path never fail one another,   *)
(* whatever their number and the depth: only the operator can make one fail. *)
(* What the proxy made has mode 0700, what the operator made is left alone.  *)
THEOREM DirsAreShared == DirsSpec => []DirsShared
<1>1. DirsInit => DirsInv
  BY DirsInitInv
<1>2. DirsInv /\ [DirsNext]_dirsVars => DirsInv'
  BY DirsStep
<1>3. DirsInv => DirsShared
  BY DEF DirsInv, Undisturbed, DirsShared, ConcurrentCreate
<1> QED
  BY <1>1, <1>2, <1>3, PTL DEF DirsSpec

(* A call that succeeds leaves a directory at the leaf, never a file,        *)
(* whatever the operator does meanwhile.                                     *)
THEOREM LeafIsADirectory == DirsSpec => LeafIsDir
<1>1. DirsInit => DirsInv
  BY DirsInitInv
<1>2. DirsInv /\ [DirsNext]_dirsVars => DirsInv'
  BY DirsStep
<1>3. DirsInv /\ [DirsNext]_dirsVars =>
        [\A t \in Callers : pc[t] # "ok" /\ pc'[t] = "ok" => entry'[Depth] = "dir"]_dirsVars
  <2>1. SUFFICES ASSUME DirsInv, DirsNext, NEW t \in Callers, pc[t] # "ok", pc'[t] = "ok"
                 PROVE  entry'[Depth] = "dir"
    OBVIOUS
  <2>2. DirsTypes /\ Depth \in 0 .. Depth
    BY <2>1, LevelFacts DEF DirsInv
  <2>3. Created(t) /\ at[t] = Depth /\ (create_dir_secure(t) \/ verify_existing_dir(t))
    BY <2>1, <2>2 DEF DirsTypes, DirsNext, Meddle, Walk, create_dir_secure, verify_existing_dir, Created, Move
  <2>4. CASE create_dir_secure(t) /\ entry' = [entry EXCEPT ![at[t]] = "dir"]
    BY <2>2, <2>3, <2>4, LevelFacts DEF DirsTypes
  <2>5. CASE verify_existing_dir(t)
    <3>1. Exists(at[t]) /\ entry' = entry
      BY <2>1, <2>2, <2>5 DEF verify_existing_dir, Move, DirsTypes
    <3> QED
      BY <2>3, <3>1, DepthAssumption DEF Exists
  <2> QED
    BY <2>1, <2>2, <2>3, <2>4, <2>5 DEF create_dir_secure, Move, DirsTypes
<1> QED
  BY <1>1, <1>2, <1>3, PTL DEF DirsSpec, LeafIsDir

-----------------------------------------------------------------------------
(* Lifecycle: any number of requests in flight.                              *)

ServerStates == {"off", "bound", "serving", "draining", "done"}

LifeTypes ==
    /\ env \in Envs /\ verifier \in BOOLEAN
    /\ server \in [Listeners -> ServerStates]
    /\ active \in [Listeners -> Nat]

(* What each check that main has passed established, for the stages after.   *)
Checked ==
    /\ stage \notin {"config", "failed", "killed"} => from_env(env)
    /\ stage \notin {"config", "credentials", "failed", "killed"} =>
          (env.verify => env.credentials = "good") /\ verifier = env.verify
    /\ stage \notin {"config", "credentials", "backend", "failed", "killed"} => from_config(env)

(* A listener serves only after all of them, which a crash does not undo.    *)
ServesAfter ==
    \A l \in Listeners :
        /\ server[l] \in {"serving", "draining", "done"} =>
              /\ stage \in {"serving", "exited", "killed"}
              /\ from_env(env) /\ from_config(env) /\ verifier = env.verify
        /\ server[l] = "done" => active[l] = 0

ExitedDrained == stage = "exited" => \A l \in Listeners : server[l] = "done"

LifeInv == LifeTypes /\ Checked /\ ServesAfter /\ ExitedDrained

LEMMA LifeInitInv ==
  ASSUME LifeInit PROVE LifeInv
BY DEF LifeInit, LifeInv, LifeTypes, ServerStates, Checked, ServesAfter, ExitedDrained

LEMMA StartupInv ==
  ASSUME LifeInv, Startup PROVE LifeInv'
<1> USE DEF LifeInv, LifeTypes, ServerStates, Checked, ServesAfter, ExitedDrained, Advance
<1>1. CASE Configure
  BY <1>1 DEF Configure
<1>2. CASE LoadCredentials
  <2>1. /\ stage = "credentials" /\ from_env(env) /\ env' = env /\ server' = server /\ active' = active
        /\ verifier' = (env.verify /\ env.credentials = "good")
        /\ stage' = IF env.verify => env.credentials = "good" THEN "backend" ELSE "failed"
    BY <1>2 DEF LoadCredentials
  <2>2. env.verify \in BOOLEAN
    BY DEF Envs
  <2>3. stage' = "backend" \/ stage' = "failed"
    BY <2>1
  <2>4. verifier' \in BOOLEAN /\ (stage' = "backend" => verifier' = env.verify)
    BY <2>1, <2>2
  <2>5. Checked'
    BY <2>1, <2>3, <2>4
  <2>6. ServesAfter' /\ ExitedDrained'
    BY <2>1, <2>3
  <2> QED
    BY <2>1, <2>4, <2>5, <2>6
<1>3. CASE BuildBackend
  BY <1>3 DEF BuildBackend
<1>4. CASE BuildCache
  BY <1>4 DEF BuildCache
<1>5. ASSUME NEW l \in Listeners, \/ Bind("bind_s3", l, "bind_admin") \/ Bind("bind_admin", l, "subscribe_s3")
      PROVE  LifeInv'
  BY <1>5 DEF Bind
<1>6. CASE \/ Subscribe("subscribe_s3", "s3", "subscribe_admin") \/ Subscribe("subscribe_admin", "admin", "spawn")
  BY <1>6 DEF Subscribe
<1>7. CASE SpawnSignalTask("spawn", "serve")
  BY <1>7 DEF SpawnSignalTask
<1>8. CASE Serve
  BY <1>8 DEF Serve
<1>9. "s3" \in Listeners /\ "admin" \in Listeners
  BY DEF Listeners
<1> QED
  BY <1>1, <1>2, <1>3, <1>4, <1>5, <1>6, <1>7, <1>8, <1>9 DEF Startup, Prepare

LEMMA ShutdownInv ==
  ASSUME LifeInv,
         \/ InstallHandlers \/ SendShutdown \/ Exit
         \/ \E s \in Signals : Signal(s)
         \/ \E l \in Listeners : Notice(l) \/ Accept(l) \/ Respond(l) \/ Drained(l)
  PROVE  LifeInv'
<1> USE DEF LifeInv, LifeTypes, ServerStates, Checked, ServesAfter, ExitedDrained
<1>1. CASE InstallHandlers
  BY <1>1 DEF InstallHandlers
<1>2. CASE SendShutdown
  BY <1>2 DEF SendShutdown
<1>3. CASE Exit
  BY <1>3 DEF Exit, try_join
<1>4. ASSUME NEW s \in Signals, Signal(s) PROVE LifeInv'
  BY <1>4 DEF Signal, Running
<1>5. ASSUME NEW l \in Listeners, Notice(l) PROVE LifeInv'
  BY <1>5 DEF Notice
<1>6. ASSUME NEW l \in Listeners, Accept(l) PROVE LifeInv'
  BY <1>6 DEF Accept
<1>7. ASSUME NEW l \in Listeners, Respond(l) PROVE LifeInv'
  BY <1>7 DEF Respond
<1>8. ASSUME NEW l \in Listeners, Drained(l) PROVE LifeInv'
  BY <1>8 DEF Drained
<1> QED
  BY <1>1, <1>2, <1>3, <1>4, <1>5, <1>6, <1>7, <1>8

(* The checks main has passed imply what a serving listener relies on.       *)
LEMMA ChecksSuffice ==
  ASSUME LifeInv PROVE ServesAsConfigured
<1>1. env \in Envs /\ ServesAfter /\ ExitedDrained
  BY DEF LifeInv, LifeTypes
<1>2. ASSUME NEW l \in Listeners, server[l] \notin {"off", "bound"}
      PROVE  /\ verifier = env.verify
             /\ env.auth_mode = "trusted_internal" \/ env.keys \/ verifier
             /\ env.scheme \in {"http", "HTTP"} => env.allow_http /\ ~env.unsigned
             /\ env.userinfo => env.scheme = ""
  <2>1. from_env(env) /\ from_config(env) /\ verifier = env.verify
    BY <1>2 DEF LifeInv, LifeTypes, ServerStates, ServesAfter
  <2> QED
    BY <1>1, <2>1 DEF from_env, from_config, parse_auth_mode, is_http, Envs
<1> QED
  BY <1>1, <1>2 DEF ServesAsConfigured, ConfigurationKept, DrainedBeforeExit, ServesAfter, ExitedDrained

(* main.rs serves only after every check on the configuration has passed,    *)
(* with the verifier it was told to build, and a clean exit loses no request *)
(* that a listener accepted, whatever the number in flight.                  *)
THEOREM ServedAsConfigured == LifeSpec => []ServesAsConfigured
<1>1. LifeInit => LifeInv
  BY LifeInitInv
<1>2. LifeInv /\ [LifeNext]_lifeVars => LifeInv'
  <2>1. ASSUME LifeInv, UNCHANGED lifeVars PROVE LifeInv'
    BY <2>1 DEF lifeVars, LifeInv, LifeTypes, Checked, ServesAfter, ExitedDrained
  <2> QED
    BY <2>1, StartupInv, ShutdownInv DEF LifeNext
<1>3. LifeInv => ServesAsConfigured
  BY ChecksSuffice
<1> QED
  BY <1>1, <1>2, <1>3, PTL DEF LifeSpec
-----------------------------------------------------------------------------
(* StartupScan: any number of directories and files, any of which may be     *)
(* corrupt or odd, tasks that run in any order, and any number of failing    *)
(* calls.                                                                    *)

(* The keys of some directories, and those with metadata.                    *)
AllKeys == Dirs \X Hashes

Keys(F) == {k \in AllKeys : k[1] \in F}

MetaKeys(M) == {k \in AllKeys : M[k] # Absent}

FileNames == Hashes \X {"body", "meta", "poisoned"}

StatsRecs == [total_bytes : Nat, entry_count : Nat, max_fill_id : Nat, saw_cache_files : BOOLEAN,
              fill_id_incomplete : BOOLEAN, unreclaimed_bytes : Nat, size_unknown : Nat]

TaskScans == [st : {"none", "open", "scan", "ok", "err"}, todo : SUBSET FileNames, res : StatsRecs]

(* The number of elements of A among S, and the bytes of S with metadata M   *)
(* and bodies B.                                                                  *)
Count(A, S) == Cardinality(A \cap S)

Weight(M, B, S) == BodySize * Count(B, S) + MetaSize * Count(MetaKeys(M), S)

(* The keys of d whose bytes the scan has dealt with: the body stands for    *)
(* both files.                                                               *)
Settled(B, d, todo) == {k \in Keys({d}) : <<k[2], IF k \in B THEN "body" ELSE "meta">> \notin todo}

(* What r says of the keys in S, with bodies B and n failures.               *)
BytesOK(M, B, n, S, r) ==
    /\ r.total_bytes <= Weight(M, B, S)
    /\ n = 0 => r.total_bytes = Weight(M, B, S) /\ r.entry_count = Count(B \cap MetaKeys(M), S)

OrphansOK(M, B, S, r) ==
    ~r.fill_id_incomplete /\ r.size_unknown = 0 =>
        r.unreclaimed_bytes = BodySize * Count(B \ MetaKeys(M), S)

FillOK(M, S, r) ==
    ~r.fill_id_incomplete =>
        \A k \in S \cap MetaKeys(M) : M[k] \in Nat /\ M[k] <= r.max_fill_id

MaxOK(M, d, r) == r.max_fill_id = 0 \/ \E k \in Keys({d}) : M[k] = r.max_fill_id

FilesIn(M, P, B, d) ==
    {<<h, "body">> : h \in {h \in Hashes : <<d, h>> \in B}}
      \cup {<<h, "meta">> : h \in {h \in Hashes : M[<<d, h>>] # Absent}}
      \cup {<<h, "poisoned">> : h \in {h \in Hashes : <<d, h>> \in P}}

(* Where the scan of directory d stands.                                     *)
ScanOK(M, P, B, n, d, t) ==
    /\ t.st = "open" => t = Started
    /\ t.st \in {"scan", "ok"} =>
         /\ BytesOK(M, B, n, Settled(B, d, t.todo), t.res)
         /\ OrphansOK(M, B, Settled(B, d, t.todo), t.res)
         /\ FillOK(M, Settled(B, d, t.todo), t.res)
         /\ MaxOK(M, d, t.res)
         /\ ~t.res.saw_cache_files /\ ~t.res.fill_id_incomplete => FilesIn(M, P, B, d) \subseteq t.todo
    /\ t.st = "scan" => t.todo \subseteq FilesIn(M, P, B, d)
    /\ t.st = "ok" /\ (n = 0 \/ ~t.res.fill_id_incomplete) => t.todo = {}

(* What a result says of its directory.                                      *)
ResultOK(M, P, B, d, r) ==
    /\ FillOK(M, Keys({d}), r)
    /\ MaxOK(M, d, r)
    /\ ~r.saw_cache_files /\ ~r.fill_id_incomplete => FilesIn(M, P, B, d) = {}

Finished(rs) == {rs[i][1] : i \in DOMAIN rs}

BytesTotal(rs) == Total([i \in DOMAIN rs |-> rs[i][2].total_bytes])
EntryTotal(rs) == Total([i \in DOMAIN rs |-> rs[i][2].entry_count])
OrphanTotal(rs) == Total([i \in DOMAIN rs |-> rs[i][2].unreclaimed_bytes])
UnknownTotal(rs) == Total([i \in DOMAIN rs |-> rs[i][2].size_unknown])

(* What the results so far add up to.                                        *)
TotalsOK(M, B, n, rs) ==
    /\ BytesTotal(rs) \in Nat /\ EntryTotal(rs) \in Nat
    /\ OrphanTotal(rs) \in Nat /\ UnknownTotal(rs) \in Nat
    /\ BytesTotal(rs) <= Weight(M, B, Keys(Finished(rs)))
    /\ n = 0 => /\ BytesTotal(rs) = Weight(M, B, Keys(Finished(rs)))
                /\ EntryTotal(rs) = Count(B \cap MetaKeys(M), Keys(Finished(rs)))
    /\ (\A i \in DOMAIN rs : ~rs[i][2].fill_id_incomplete) /\ UnknownTotal(rs) = 0 =>
         OrphanTotal(rs) = BodySize * Count(B \ MetaKeys(M), Keys(Finished(rs)))

ResultsOK ==
    /\ results \in Seq(Dirs \X StatsRecs)
    /\ \A i, j \in DOMAIN results : results[i][1] = results[j][1] => i = j
    /\ \A i \in DOMAIN results : ResultOK(metas, markers, bodies, results[i][1], results[i][2])
    /\ TotalsOK(metas, bodies, scan_faults, results)

ScanTypes ==
    /\ kind1 \in [Firsts -> EntryKinds] /\ kind2 \in [Dirs -> EntryKinds]
    /\ metas \in [AllKeys -> Metas \cup {Absent}]
    /\ bodies \subseteq AllKeys /\ markers \subseteq AllKeys
    /\ scan_mode \in Modes /\ scan_faults \in 0 .. MaxScanFaults
    /\ scan_pc \in {"read_objects", "walk", "pump", "done", "failed"}
    /\ walk \in [todo : SUBSET Firsts, prefix : Firsts \cup {Absent}, seconds : SUBSET Seconds]
    /\ dirs \subseteq HashDirs /\ incomplete \in BOOLEAN
    /\ pending \subseteq dirs
    /\ scan_task \in [Dirs -> TaskScans]
    /\ reported \in {"none", "complete", "incomplete", "join"}

(* The walk has found the hash directories, or has still to come to them.    *)
WalkOK ==
    /\ scan_mode = "Strict" \/ scan_faults = 0 => ~incomplete
    /\ scan_pc = "read_objects" => ~incomplete /\ dirs = {} /\ walk.prefix = Absent
    /\ walk.prefix # Absent => kind1[walk.prefix] = "dir"
    /\ scan_pc = "walk" /\ ~incomplete =>
         \A d \in HashDirs : \/ d \in dirs \/ d[1] \in walk.todo
                             \/ d[1] = walk.prefix /\ d[2] \in walk.seconds
    /\ scan_pc \in {"pump", "done"} /\ ~incomplete => dirs = HashDirs

(* Every directory of the walk is waiting, being scanned or finished.        *)
PumpOK ==
    /\ InFlight \subseteq dirs /\ Cardinality(InFlight) <= Cap
    /\ scan_pc \in {"read_objects", "walk"} =>
         InFlight = {} /\ pending = {} /\ results = <<>>
    /\ scan_pc = "pump" =>
         /\ Finished(results) \cap InFlight = {} /\ Finished(results) \cap pending = {}
         /\ InFlight \cap pending = {} /\ Finished(results) \cup InFlight \cup pending = dirs
         /\ pending # {} => InFlight # {}
         /\ ResultsOK
         /\ \A d \in Dirs : ScanOK(metas, markers, bodies, scan_faults, d, scan_task[d])

DoneOK == FillIdSound /\ BytesSound /\ OrphansAccounted /\ (Done => PumpExact)

ScanInv == ScanTypes /\ WalkOK /\ PumpOK /\ DoneOK
-----------------------------------------------------------------------------
(* Counting.                                                                 *)

LEMMA KeysFinite ==
  /\ IsFiniteSet(Dirs) /\ IsFiniteSet(AllKeys)
  /\ \A A, S : S \subseteq AllKeys => IsFiniteSet(A \cap S) /\ Count(A, S) \in Nat
<1>1. IsFiniteSet(Dirs)
  BY DirAssumption, FS_Product DEF Dirs
<1>2. IsFiniteSet(AllKeys)
  BY <1>1, FileAssumption, FS_Product DEF AllKeys
<1>3. ASSUME NEW A, NEW S, S \subseteq AllKeys
      PROVE  IsFiniteSet(A \cap S) /\ Count(A, S) \in Nat
  <2>1. A \cap S \subseteq AllKeys
    BY <1>3
  <2>2. IsFiniteSet(A \cap S)
    BY <1>2, <2>1, FS_Subset
  <2> QED
    BY <2>2, FS_CardinalityType DEF Count
<1> QED
  BY <1>1, <1>2, <1>3

LEMMA CountAdd ==
  ASSUME NEW A, NEW S \in SUBSET AllKeys, NEW T \in SUBSET AllKeys, S \cap T = {}
  PROVE  /\ Count(A, S \cup T) = Count(A, S) + Count(A, T)
         /\ Count(A, S) \in Nat /\ Count(A, T) \in Nat
<1>1. IsFiniteSet(A \cap S) /\ IsFiniteSet(A \cap T) /\ Count(A, S) \in Nat /\ Count(A, T) \in Nat
  BY KeysFinite
<1>2. Cardinality((A \cap S) \cup (A \cap T))
        = Cardinality(A \cap S) + Cardinality(A \cap T) - Cardinality((A \cap S) \cap (A \cap T))
  BY <1>1, FS_Union
<1>3. (A \cap S) \cap (A \cap T) = {} /\ (A \cap S) \cup (A \cap T) = A \cap (S \cup T)
  OBVIOUS
<1>4. Cardinality((A \cap S) \cap (A \cap T)) = 0
  BY <1>3, FS_EmptySet
<1>5. Cardinality(A \cap (S \cup T)) = Cardinality(A \cap S) + Cardinality(A \cap T) - 0
  BY <1>2, <1>3, <1>4
<1> QED
  BY <1>1, <1>5 DEF Count

LEMMA CountOne ==
  ASSUME NEW A, NEW k
  PROVE  Count(A, {k}) = IF k \in A THEN 1 ELSE 0
<1>1. CASE k \in A
  <2>1. A \cap {k} = {k}
    BY <1>1
  <2> QED
    BY <1>1, <2>1, FS_Singleton DEF Count
<1>2. CASE k \notin A
  <2>1. A \cap {k} = {}
    BY <1>2
  <2> QED
    BY <1>2, <2>1, FS_EmptySet DEF Count
<1> QED
  BY <1>1, <1>2

LEMMA CountNone ==
  ASSUME NEW A, NEW S, A \cap S = {}
  PROVE  Count(A, S) = 0
  BY FS_EmptySet DEF Count

LEMMA WeightAdd ==
  ASSUME NEW M, NEW B, NEW S \in SUBSET AllKeys, NEW T \in SUBSET AllKeys, S \cap T = {}
  PROVE  /\ Weight(M, B, S \cup T) = Weight(M, B, S) + Weight(M, B, T)
         /\ Weight(M, B, S) \in Nat /\ Weight(M, B, T) \in Nat
<1>1. /\ Count(B, S \cup T) = Count(B, S) + Count(B, T)
      /\ Count(B, S) \in Nat /\ Count(B, T) \in Nat
  BY CountAdd
<1>2. /\ Count(MetaKeys(M), S \cup T) = Count(MetaKeys(M), S) + Count(MetaKeys(M), T)
      /\ Count(MetaKeys(M), S) \in Nat /\ Count(MetaKeys(M), T) \in Nat
  BY CountAdd
<1> QED
  BY <1>1, <1>2 DEF Weight, BodySize, MetaSize

LEMMA WeightMono ==
  ASSUME NEW M, NEW B, NEW S \in SUBSET AllKeys, NEW T \in SUBSET AllKeys, S \subseteq T
  PROVE  Weight(M, B, S) <= Weight(M, B, T) /\ Weight(M, B, S) \in Nat /\ Weight(M, B, T) \in Nat
<1>1. S \cup (T \ S) = T /\ S \cap (T \ S) = {} /\ T \ S \in SUBSET AllKeys
  OBVIOUS
<1>2. /\ Weight(M, B, S \cup (T \ S)) = Weight(M, B, S) + Weight(M, B, T \ S)
      /\ Weight(M, B, S) \in Nat /\ Weight(M, B, T \ S) \in Nat
  BY <1>1, WeightAdd
<1>3. Weight(M, B, T) = Weight(M, B, S) + Weight(M, B, T \ S)
  BY <1>1, <1>2
<1> QED
  BY <1>2, <1>3

(* The counts when k is added to S.                                          *)
GrownCounts(M, B, C, S, k) ==
    /\ Weight(M, B, S) \in Nat
    /\ Weight(M, C, S \cup {k}) = Weight(M, B, S) + (IF k \in C THEN BodySize ELSE 0)
                                      + (IF k \in MetaKeys(M) THEN MetaSize ELSE 0)
    /\ Count(B \cap MetaKeys(M), S) \in Nat
    /\ Count(C \cap MetaKeys(M), S \cup {k})
         = Count(B \cap MetaKeys(M), S) + (IF k \in C \cap MetaKeys(M) THEN 1 ELSE 0)
    /\ Count(B \ MetaKeys(M), S) \in Nat
    /\ Count(C \ MetaKeys(M), S \cup {k})
         = Count(B \ MetaKeys(M), S) + (IF k \in C \ MetaKeys(M) THEN 1 ELSE 0)

(* B and C have the same members in S.                                       *)
Agree(B, C, S) == B \cap S = C \cap S

LEMMA SettleOne ==
  ASSUME NEW M, NEW B, NEW C, NEW S \in SUBSET AllKeys, NEW k \in AllKeys, k \notin S,
         Agree(B, C, S)
  PROVE  GrownCounts(M, B, C, S, k)
<1>1. S \cap {k} = {} /\ {k} \in SUBSET AllKeys
  OBVIOUS
<1>2. \A A : /\ Count(A, S \cup {k}) = Count(A, S) + (IF k \in A THEN 1 ELSE 0)
             /\ Count(A, S) \in Nat
  <2> TAKE A
  <2>1. Count(A, S \cup {k}) = Count(A, S) + Count(A, {k}) /\ Count(A, S) \in Nat
    BY <1>1, CountAdd
  <2> QED
    BY <2>1, CountOne
<1>3. /\ Count(C, S) = Count(B, S)
      /\ Count(C \cap MetaKeys(M), S) = Count(B \cap MetaKeys(M), S)
      /\ Count(C \ MetaKeys(M), S) = Count(B \ MetaKeys(M), S)
  <2>1. (C \cap MetaKeys(M)) \cap S = (B \cap MetaKeys(M)) \cap S /\ (C \ MetaKeys(M)) \cap S = (B \ MetaKeys(M)) \cap S /\ C \cap S = B \cap S
    BY DEF Agree
  <2> QED
    BY <2>1 DEF Count
<1> DEFINE b == Count(B, S)
           m == Count(MetaKeys(M), S)
<1>4. /\ Count(C, S \cup {k}) = b + (IF k \in C THEN 1 ELSE 0)
      /\ Count(MetaKeys(M), S \cup {k}) = m + (IF k \in MetaKeys(M) THEN 1 ELSE 0)
      /\ b \in Nat /\ m \in Nat /\ Weight(M, B, S) = BodySize * b + MetaSize * m
  BY <1>2, <1>3 DEF Weight
<1> HIDE DEF b, m
<1>5. /\ Weight(M, B, S) \in Nat
      /\ Weight(M, C, S \cup {k}) = Weight(M, B, S) + (IF k \in C THEN BodySize ELSE 0)
                                      + (IF k \in MetaKeys(M) THEN MetaSize ELSE 0)
  BY <1>4 DEF Weight, BodySize, MetaSize
<1> QED
  BY <1>2, <1>3, <1>5 DEF GrownCounts

-----------------------------------------------------------------------------
(* Totals.                                                                   *)

Units(i, n) == {i} \X (1 .. n)

LEMMA UnitsSize ==
  ASSUME NEW i, NEW n \in Nat
  PROVE  IsFiniteSet(Units(i, n)) /\ Cardinality(Units(i, n)) = n
<1>1. IsFiniteSet(1 .. n) /\ Cardinality(1 .. n) = n
  BY FS_Interval
<1>2. IsFiniteSet({i}) /\ Cardinality({i}) = 1
  BY FS_Singleton
<1>3. /\ IsFiniteSet({i} \X (1 .. n))
      /\ Cardinality({i} \X (1 .. n)) = Cardinality({i}) * Cardinality(1 .. n)
  BY <1>1, <1>2, FS_Product
<1> QED
  BY <1>1, <1>2, <1>3 DEF Units

LEMMA TotalAppend ==
  ASSUME NEW n \in Nat, NEW v \in [1 .. n -> Nat], NEW w \in [1 .. (n + 1) -> Nat],
         \A i \in 1 .. n : w[i] = v[i]
  PROVE  Total(v) \in Nat /\ Total(w) = Total(v) + w[n + 1] /\ w[n + 1] \in Nat
<1> DEFINE T == {Units(i, v[i]) : i \in 1 .. n}
           f == [i \in 1 .. n |-> Units(i, v[i])]
           R == UNION T
<1>1. IsFiniteSet(R)
  <2>1. f \in Surjection(1 .. n, T)
    BY DEF Surjection
  <2>2. IsFiniteSet(T)
    BY <2>1, FS_Interval, FS_Surjection
  <2>3. \A t \in T : IsFiniteSet(t)
    BY UnitsSize
  <2> QED
    BY <2>2, <2>3, FS_UNION
<1>2. Total(v) = Cardinality(R)
  BY DEF Total, Units
<1>3. w[n + 1] \in Nat /\ 1 .. (n + 1) = (1 .. n) \cup {n + 1} /\ n + 1 \notin 1 .. n
  OBVIOUS
<1>4. IsFiniteSet(Units(n + 1, w[n + 1])) /\ Cardinality(Units(n + 1, w[n + 1])) = w[n + 1]
  BY <1>3, UnitsSize
<1>5. R \cap Units(n + 1, w[n + 1]) = {}
  BY <1>3 DEF Units
<1>6. UNION {{i} \X (1 .. w[i]) : i \in DOMAIN w} = R \cup Units(n + 1, w[n + 1])
  BY <1>3 DEF Units
<1> HIDE DEF R
<1>7. Cardinality(R \cap Units(n + 1, w[n + 1])) = 0
  BY <1>5, FS_EmptySet
<1>8. Cardinality(R \cup Units(n + 1, w[n + 1]))
        = Cardinality(R) + Cardinality(Units(n + 1, w[n + 1])) - Cardinality(R \cap Units(n + 1, w[n + 1]))
  BY <1>1, <1>4, FS_Union
<1>9. Cardinality(R) \in Nat
  BY <1>1, FS_CardinalityType
<1>10. Total(w) = Cardinality(R \cup Units(n + 1, w[n + 1]))
  BY <1>6 DEF Total
<1> QED
  BY <1>2, <1>3, <1>4, <1>7, <1>8, <1>9, <1>10

LEMMA TotalsAppend ==
  ASSUME NEW rs \in Seq(Dirs \X StatsRecs), NEW d \in Dirs, NEW r \in StatsRecs
  PROVE  LET q == Append(rs, <<d, r>>) IN
         /\ BytesTotal(rs) \in Nat /\ EntryTotal(rs) \in Nat
         /\ OrphanTotal(rs) \in Nat /\ UnknownTotal(rs) \in Nat
         /\ BytesTotal(q) = BytesTotal(rs) + r.total_bytes
         /\ EntryTotal(q) = EntryTotal(rs) + r.entry_count
         /\ OrphanTotal(q) = OrphanTotal(rs) + r.unreclaimed_bytes
         /\ UnknownTotal(q) = UnknownTotal(rs) + r.size_unknown
<1> DEFINE q == Append(rs, <<d, r>>)
           n == Len(rs)
<1>1. /\ n \in Nat /\ DOMAIN rs = 1 .. n /\ DOMAIN q = 1 .. (n + 1)
      /\ \A i \in 1 .. n : q[i] = rs[i] /\ rs[i] \in Dirs \X StatsRecs
      /\ q[n + 1] = <<d, r>>
  OBVIOUS
<1>2. /\ \A i \in 1 .. n : rs[i][2] \in StatsRecs
      /\ \A i \in 1 .. (n + 1) : q[i][2] \in StatsRecs
      /\ q[n + 1][2] = r
  BY <1>1
<1> HIDE DEF q, n
<1>3. BytesTotal(rs) \in Nat /\ BytesTotal(q) = BytesTotal(rs) + r.total_bytes
  <2> DEFINE v == [i \in 1 .. n |-> rs[i][2].total_bytes]
             w == [i \in 1 .. (n + 1) |-> q[i][2].total_bytes]
  <2>1. v \in [1 .. n -> Nat] /\ w \in [1 .. (n + 1) -> Nat] /\ w[n + 1] = r.total_bytes
    BY <1>1, <1>2 DEF StatsRecs
  <2>2. \A i \in 1 .. n : w[i] = v[i]
    BY <1>1
  <2>3. BytesTotal(rs) = Total(v) /\ BytesTotal(q) = Total(w)
    BY <1>1 DEF BytesTotal
  <2> HIDE DEF v, w
  <2>4. Total(v) \in Nat /\ Total(w) = Total(v) + w[n + 1]
    BY <1>1, <2>1, <2>2, TotalAppend
  <2> QED
    BY <2>1, <2>3, <2>4
<1>4. EntryTotal(rs) \in Nat /\ EntryTotal(q) = EntryTotal(rs) + r.entry_count
  <2> DEFINE v == [i \in 1 .. n |-> rs[i][2].entry_count]
             w == [i \in 1 .. (n + 1) |-> q[i][2].entry_count]
  <2>1. v \in [1 .. n -> Nat] /\ w \in [1 .. (n + 1) -> Nat] /\ w[n + 1] = r.entry_count
    BY <1>1, <1>2 DEF StatsRecs
  <2>2. \A i \in 1 .. n : w[i] = v[i]
    BY <1>1
  <2>3. EntryTotal(rs) = Total(v) /\ EntryTotal(q) = Total(w)
    BY <1>1 DEF EntryTotal
  <2> HIDE DEF v, w
  <2>4. Total(v) \in Nat /\ Total(w) = Total(v) + w[n + 1]
    BY <1>1, <2>1, <2>2, TotalAppend
  <2> QED
    BY <2>1, <2>3, <2>4
<1>5. OrphanTotal(rs) \in Nat /\ OrphanTotal(q) = OrphanTotal(rs) + r.unreclaimed_bytes
  <2> DEFINE v == [i \in 1 .. n |-> rs[i][2].unreclaimed_bytes]
             w == [i \in 1 .. (n + 1) |-> q[i][2].unreclaimed_bytes]
  <2>1. v \in [1 .. n -> Nat] /\ w \in [1 .. (n + 1) -> Nat] /\ w[n + 1] = r.unreclaimed_bytes
    BY <1>1, <1>2 DEF StatsRecs
  <2>2. \A i \in 1 .. n : w[i] = v[i]
    BY <1>1
  <2>3. OrphanTotal(rs) = Total(v) /\ OrphanTotal(q) = Total(w)
    BY <1>1 DEF OrphanTotal
  <2> HIDE DEF v, w
  <2>4. Total(v) \in Nat /\ Total(w) = Total(v) + w[n + 1]
    BY <1>1, <2>1, <2>2, TotalAppend
  <2> QED
    BY <2>1, <2>3, <2>4
<1>6. UnknownTotal(rs) \in Nat /\ UnknownTotal(q) = UnknownTotal(rs) + r.size_unknown
  <2> DEFINE v == [i \in 1 .. n |-> rs[i][2].size_unknown]
             w == [i \in 1 .. (n + 1) |-> q[i][2].size_unknown]
  <2>1. v \in [1 .. n -> Nat] /\ w \in [1 .. (n + 1) -> Nat] /\ w[n + 1] = r.size_unknown
    BY <1>1, <1>2 DEF StatsRecs
  <2>2. \A i \in 1 .. n : w[i] = v[i]
    BY <1>1
  <2>3. UnknownTotal(rs) = Total(v) /\ UnknownTotal(q) = Total(w)
    BY <1>1 DEF UnknownTotal
  <2> HIDE DEF v, w
  <2>4. Total(v) \in Nat /\ Total(w) = Total(v) + w[n + 1]
    BY <1>1, <2>1, <2>2, TotalAppend
  <2> QED
    BY <2>1, <2>3, <2>4
<1> QED
  BY <1>3, <1>4, <1>5, <1>6 DEF q

-----------------------------------------------------------------------------
(* What is not touched stays right.                                          *)

LEMMA KeyOf ==
  ASSUME NEW d \in Dirs, NEW h \in Hashes
  PROVE  /\ <<d, h>> \in AllKeys /\ <<d, h>> \in Keys({d})
         /\ \A k \in Keys({d}) : k[1] = d /\ k[2] \in Hashes /\ k = <<d, k[2]>>
  BY DEF AllKeys, Keys

LEMMA SettledSet ==
  ASSUME NEW B, NEW d, NEW todo
  PROVE  Settled(B, d, todo) \in SUBSET AllKeys /\ Settled(B, d, todo) \subseteq Keys({d})
  BY DEF Settled, Keys

SameCounts(M, B, C, S) ==
    /\ Weight(M, C, S) = Weight(M, B, S)
    /\ Count(C \cap MetaKeys(M), S) = Count(B \cap MetaKeys(M), S)
    /\ Count(C \ MetaKeys(M), S) = Count(B \ MetaKeys(M), S)

LEMMA CountSame ==
  ASSUME NEW M, NEW B, NEW C, NEW S, Agree(B, C, S)
  PROVE  SameCounts(M, B, C, S)
<1>1. /\ C \cap S = B \cap S /\ (C \cap MetaKeys(M)) \cap S = (B \cap MetaKeys(M)) \cap S
      /\ (C \ MetaKeys(M)) \cap S = (B \ MetaKeys(M)) \cap S
  BY DEF Agree
<1> QED
  BY <1>1 DEF SameCounts, Weight, Count

LEMMA FilesSame ==
  ASSUME NEW M, NEW P, NEW B, NEW C, NEW d \in Dirs, Agree(B, C, Keys({d}))
  PROVE  FilesIn(M, P, C, d) = FilesIn(M, P, B, d)
<1>1. \A h \in Hashes : <<d, h>> \in C <=> <<d, h>> \in B
  BY KeyOf DEF Agree
<1> QED
  BY <1>1 DEF FilesIn

LEMMA ScanFrame ==
  ASSUME NEW M, NEW P, NEW B, NEW C, NEW d \in Dirs, NEW n \in Nat, NEW m \in Nat, n <= m,
         NEW t \in TaskScans, Agree(B, C, Keys({d})), ScanOK(M, P, B, n, d, t)
  PROVE  ScanOK(M, P, C, m, d, t)
<1> DEFINE S == Settled(B, d, t.todo)
<1>1. Settled(C, d, t.todo) = S
  BY DEF Settled, Agree
<1>2. S \subseteq Keys({d})
  BY SettledSet
<1>3. FilesIn(M, P, C, d) = FilesIn(M, P, B, d)
  BY FilesSame
<1> HIDE DEF S
<1> Agree(B, C, S)
  BY <1>2 DEF Agree
<1>4. SameCounts(M, B, C, S)
  BY CountSame
<1>5. m = 0 => n = 0
  OBVIOUS
<1>6. t.st \in {"scan", "ok"} => BytesOK(M, C, m, S, t.res) /\ OrphansOK(M, C, S, t.res)
  BY <1>4, <1>5 DEF SameCounts, ScanOK, BytesOK, OrphansOK, S
<1> QED
  BY <1>1, <1>3, <1>5, <1>6 DEF ScanOK, S

LEMMA ResultFrame ==
  ASSUME NEW M, NEW P, NEW B, NEW C, NEW d \in Dirs, NEW r,
         Agree(B, C, Keys({d})), ResultOK(M, P, B, d, r)
  PROVE  ResultOK(M, P, C, d, r)
  BY FilesSame DEF ResultOK

LEMMA TotalsFrame ==
  ASSUME NEW M, NEW B, NEW C, NEW n \in Nat, NEW m \in Nat, n <= m, NEW rs,
         Agree(B, C, Keys(Finished(rs))), TotalsOK(M, B, n, rs)
  PROVE  TotalsOK(M, C, m, rs)
<1> DEFINE S == Keys(Finished(rs))
<1> Agree(B, C, S)
  OBVIOUS
<1> HIDE DEF S
<1>1. SameCounts(M, B, C, S)
  BY CountSame
<1>2. m = 0 => n = 0
  OBVIOUS
<1> QED
  BY <1>1, <1>2 DEF SameCounts, TotalsOK, S
-----------------------------------------------------------------------------
(* One file of a directory is dealt with.                                    *)

LEMMA SettleBody ==
  ASSUME NEW B, NEW d \in Dirs, NEW h \in Hashes, NEW todo, <<h, "body">> \in todo
  PROVE  <<d, h>> \in B =>
           /\ <<d, h>> \notin Settled(B, d, todo)
           /\ Settled(B, d, todo \ {<<h, "body">>}) = Settled(B, d, todo) \cup {<<d, h>>}
<1>1. <<d, h>> \in Keys({d}) /\ \A k \in Keys({d}) : k = <<d, k[2]>> /\ (k[2] = h <=> k = <<d, h>>)
  BY KeyOf
<1> QED
  BY <1>1 DEF Settled

LEMMA SettleGone ==
  ASSUME NEW B, NEW d \in Dirs, NEW h \in Hashes, NEW todo, <<h, "body">> \in todo
  PROVE  <<d, h>> \in B /\ <<h, "meta">> \notin todo =>
           /\ <<d, h>> \notin Settled(B, d, todo)
           /\ Settled(B \ {<<d, h>>}, d, todo \ {<<h, "body">>}) = Settled(B, d, todo) \cup {<<d, h>>}
<1>1. <<d, h>> \in Keys({d}) /\ \A k \in Keys({d}) : k = <<d, k[2]>> /\ (k[2] = h <=> k = <<d, h>>)
  BY KeyOf
<1> QED
  BY <1>1 DEF Settled

LEMMA SettleMeta ==
  ASSUME NEW B, NEW d \in Dirs, NEW h \in Hashes, NEW todo, <<h, "meta">> \in todo
  PROVE  /\ <<d, h>> \in B => Settled(B, d, todo \ {<<h, "meta">>}) = Settled(B, d, todo)
         /\ <<d, h>> \notin B =>
              /\ <<d, h>> \notin Settled(B, d, todo)
              /\ Settled(B, d, todo \ {<<h, "meta">>}) = Settled(B, d, todo) \cup {<<d, h>>}
<1>1. <<d, h>> \in Keys({d}) /\ \A k \in Keys({d}) : k = <<d, k[2]>> /\ (k[2] = h <=> k = <<d, h>>)
  BY KeyOf
<1> QED
  BY <1>1 DEF Settled

(* The result r adds key k to the result q.                                  *)
Adds(M, C, m, k, q, r) ==
    LET bytes == (IF k \in C THEN BodySize ELSE 0) + (IF k \in MetaKeys(M) THEN MetaSize ELSE 0) IN
    /\ r.total_bytes <= q.total_bytes + bytes
    /\ m = 0 => /\ r.total_bytes = q.total_bytes + bytes
                /\ r.entry_count = q.entry_count + (IF k \in C \cap MetaKeys(M) THEN 1 ELSE 0)
    /\ ~r.fill_id_incomplete /\ r.size_unknown = 0 =>
         /\ q.size_unknown = 0
         /\ r.unreclaimed_bytes = q.unreclaimed_bytes + (IF k \in C \ MetaKeys(M) THEN BodySize ELSE 0)
    /\ ~r.fill_id_incomplete =>
         /\ ~q.fill_id_incomplete
         /\ q.max_fill_id <= r.max_fill_id
         /\ k \in MetaKeys(M) => M[k] \in Nat /\ M[k] <= r.max_fill_id
    /\ r.max_fill_id = q.max_fill_id \/ r.max_fill_id = M[k]

KeyResult(M, B, n, d, S, r) ==
    BytesOK(M, B, n, S, r) /\ OrphansOK(M, B, S, r) /\ FillOK(M, S, r) /\ MaxOK(M, d, r)

LEMMA AddsOK ==
  ASSUME NEW M, NEW B, NEW C, NEW d \in Dirs, NEW S \in SUBSET AllKeys, NEW k \in Keys({d}), k \notin S,
         Agree(B, C, S), NEW n \in Nat, NEW m \in Nat, n <= m,
         NEW q \in StatsRecs, NEW r \in StatsRecs,
         KeyResult(M, B, n, d, S, q), Adds(M, C, m, k, q, r)
  PROVE  KeyResult(M, C, m, d, S \cup {k}, r)
<1>1. GrownCounts(M, B, C, S, k)
  BY SettleOne DEF Keys
<1>2. /\ q.total_bytes \in Nat /\ r.total_bytes \in Nat /\ q.entry_count \in Nat
      /\ q.max_fill_id \in Nat /\ r.max_fill_id \in Nat
      /\ q.unreclaimed_bytes \in Nat /\ r.unreclaimed_bytes \in Nat
  BY DEF StatsRecs
<1>3. BytesOK(M, C, m, S \cup {k}, r)
  BY <1>1, <1>2 DEF GrownCounts, KeyResult, Adds, BytesOK, BodySize, MetaSize
<1>4. OrphansOK(M, C, S \cup {k}, r)
  BY <1>1, <1>2 DEF GrownCounts, KeyResult, Adds, OrphansOK, BodySize
<1>5. FillOK(M, S \cup {k}, r)
  BY <1>2 DEF KeyResult, Adds, FillOK
<1>6. MaxOK(M, d, r)
  BY DEF KeyResult, Adds, MaxOK
<1> QED
  BY <1>3, <1>4, <1>5, <1>6 DEF KeyResult
-----------------------------------------------------------------------------
(* The steps of one scan.                                                    *)

(* A step of the scan of d: it touches only d, and leaves it right.          *)
ScanStep(d) ==
    /\ scan_pc = "pump" /\ scan_task[d].st # "none"
    /\ scan_task' = [scan_task EXCEPT ![d] = scan_task'[d]]
    /\ scan_task'[d] \in TaskScans /\ scan_task'[d].st # "none"
    /\ bodies' \subseteq bodies /\ bodies \ bodies' \subseteq Keys({d})
    /\ scan_faults' \in 0 .. MaxScanFaults /\ scan_faults <= scan_faults'
    /\ ScanOK(metas, markers, bodies', scan_faults', d, scan_task'[d])
    /\ UNCHANGED <<kind1, kind2, metas, markers, scan_mode, scan_pc, walk, dirs, incomplete,
                   pending, results, scan, reported>>

LEMMA Fails ==
  ASSUME NEW f, NEW A, IsFiniteSet(A), f \subseteq A, scan_faults \in 0 .. MaxScanFaults,
         MayFail(Cardinality(f))
  PROVE  /\ scan_faults' \in 0 .. MaxScanFaults /\ scan_faults <= scan_faults'
         /\ scan_faults' = 0 => f = {}
<1>1. IsFiniteSet(f)
  BY FS_Subset
<1>2. Cardinality(f) \in Nat /\ (Cardinality(f) = 0 <=> f = {})
  BY <1>1, FS_CardinalityType, FS_EmptySet
<1> QED
  BY <1>2, PumpAssumption DEF MayFail

LEMMA FillType ==
  ASSUME ScanTypes, NEW k \in AllKeys
  PROVE  metas[k] = Absent \/ metas[k] = Corrupt \/ (metas[k] \in Nat /\ metas[k] # Corrupt /\ metas[k] # Absent)
  BY FileAssumption DEF ScanTypes

(* The records that the steps make.                                          *)
SameBut(q, r, F) ==
    /\ r \in StatsRecs
    /\ "total_bytes" \notin F => r.total_bytes = q.total_bytes
    /\ "entry_count" \notin F => r.entry_count = q.entry_count
    /\ "max_fill_id" \notin F => r.max_fill_id = q.max_fill_id
    /\ "saw_cache_files" \notin F => r.saw_cache_files = q.saw_cache_files
    /\ "fill_id_incomplete" \notin F => r.fill_id_incomplete = q.fill_id_incomplete
    /\ "unreclaimed_bytes" \notin F => r.unreclaimed_bytes = q.unreclaimed_bytes
    /\ "size_unknown" \notin F => r.size_unknown = q.size_unknown

LEMMA OneField ==
  ASSUME NEW q \in StatsRecs, NEW v \in Nat, NEW b \in BOOLEAN
  PROVE  /\ LET r == [q EXCEPT !.total_bytes = v] IN
            SameBut(q, r, {"total_bytes"}) /\ r.total_bytes = v
         /\ LET r == [q EXCEPT !.entry_count = v] IN
            SameBut(q, r, {"entry_count"}) /\ r.entry_count = v
         /\ LET r == [q EXCEPT !.max_fill_id = v] IN
            SameBut(q, r, {"max_fill_id"}) /\ r.max_fill_id = v
         /\ LET r == [q EXCEPT !.unreclaimed_bytes = v] IN
            SameBut(q, r, {"unreclaimed_bytes"}) /\ r.unreclaimed_bytes = v
         /\ LET r == [q EXCEPT !.size_unknown = v] IN
            SameBut(q, r, {"size_unknown"}) /\ r.size_unknown = v
         /\ LET r == [q EXCEPT !.saw_cache_files = b] IN
            SameBut(q, r, {"saw_cache_files"}) /\ r.saw_cache_files = b
         /\ LET r == [q EXCEPT !.fill_id_incomplete = b] IN
            SameBut(q, r, {"fill_id_incomplete"}) /\ r.fill_id_incomplete = b
<1>1. SameBut(q, [q EXCEPT !.total_bytes = v], {"total_bytes"}) /\ [q EXCEPT !.total_bytes = v].total_bytes = v
  BY DEF SameBut, StatsRecs
<1>2. SameBut(q, [q EXCEPT !.entry_count = v], {"entry_count"}) /\ [q EXCEPT !.entry_count = v].entry_count = v
  BY DEF SameBut, StatsRecs
<1>3. SameBut(q, [q EXCEPT !.max_fill_id = v], {"max_fill_id"}) /\ [q EXCEPT !.max_fill_id = v].max_fill_id = v
  BY DEF SameBut, StatsRecs
<1>4. SameBut(q, [q EXCEPT !.unreclaimed_bytes = v], {"unreclaimed_bytes"}) /\ [q EXCEPT !.unreclaimed_bytes = v].unreclaimed_bytes = v
  BY DEF SameBut, StatsRecs
<1>5. SameBut(q, [q EXCEPT !.size_unknown = v], {"size_unknown"}) /\ [q EXCEPT !.size_unknown = v].size_unknown = v
  BY DEF SameBut, StatsRecs
<1>6. SameBut(q, [q EXCEPT !.saw_cache_files = b], {"saw_cache_files"}) /\ [q EXCEPT !.saw_cache_files = b].saw_cache_files = b
  BY DEF SameBut, StatsRecs
<1>7. SameBut(q, [q EXCEPT !.fill_id_incomplete = b], {"fill_id_incomplete"}) /\ [q EXCEPT !.fill_id_incomplete = b].fill_id_incomplete = b
  BY DEF SameBut, StatsRecs
<1> QED
  BY <1>1, <1>2, <1>3, <1>4, <1>5, <1>6, <1>7

LEMMA NatFields ==
  ASSUME NEW q \in StatsRecs
  PROVE  /\ q.total_bytes \in Nat /\ q.entry_count \in Nat /\ q.max_fill_id \in Nat
         /\ q.unreclaimed_bytes \in Nat /\ q.size_unknown \in Nat
         /\ q.fill_id_incomplete \in BOOLEAN /\ q.saw_cache_files \in BOOLEAN
  BY DEF StatsRecs

LEMMA PlusField ==
  ASSUME NEW q \in StatsRecs, NEW n \in Nat
  PROVE  SameBut(q, Plus(q, n), {"total_bytes"}) /\ Plus(q, n).total_bytes = q.total_bytes + n
<1>1. q.total_bytes + n \in Nat
  BY NatFields
<1> QED
  BY <1>1, OneField DEF Plus

LEMMA TakeFields ==
  ASSUME NEW q \in StatsRecs, NEW v, v = Corrupt \/ v \in Nat, NEW f
  PROVE  LET r == TakeFillId(q, v, "read" \notin f) IN
         /\ SameBut(q, r, {"max_fill_id", "fill_id_incomplete"})
         /\ r.max_fill_id = q.max_fill_id \/ r.max_fill_id = v
         /\ ~r.fill_id_incomplete =>
              /\ v \in Nat /\ v <= r.max_fill_id /\ q.max_fill_id <= r.max_fill_id
              /\ ~q.fill_id_incomplete
<1> DEFINE r == TakeFillId(q, v, "read" \notin f)
           big == IF v > q.max_fill_id THEN v ELSE q.max_fill_id
<1>1. CASE "read" \notin f /\ v # Corrupt
  <2>1. v \in Nat /\ q.max_fill_id \in Nat
    BY <1>1, NatFields
  <2>2. big \in Nat /\ v <= big /\ q.max_fill_id <= big /\ (big = v \/ big = q.max_fill_id)
    BY <2>1
  <2>3. r = [q EXCEPT !.max_fill_id = big]
    BY <1>1 DEF TakeFillId
  <2> HIDE DEF r, big
  <2>4. SameBut(q, r, {"max_fill_id"}) /\ r.max_fill_id = big
    BY <2>2, <2>3, OneField
  <2>5. SameBut(q, r, {"max_fill_id", "fill_id_incomplete"}) /\ r.fill_id_incomplete = q.fill_id_incomplete
    BY <2>4 DEF SameBut
  <2> QED
    BY <2>1, <2>2, <2>4, <2>5 DEF r
<1>2. CASE ~("read" \notin f /\ v # Corrupt)
  <2>1. r = [q EXCEPT !.fill_id_incomplete = TRUE]
    BY <1>2 DEF TakeFillId
  <2> HIDE DEF r
  <2>2. SameBut(q, r, {"fill_id_incomplete"}) /\ r.fill_id_incomplete = TRUE
    BY <2>1, OneField
  <2>3. SameBut(q, r, {"max_fill_id", "fill_id_incomplete"}) /\ r.max_fill_id = q.max_fill_id
    BY <2>2 DEF SameBut
  <2> QED
    BY <2>2, <2>3 DEF r
<1> QED
  BY <1>1, <1>2

(* What a body with its metadata adds.                                       *)
Completes(q, r, v, f) ==
    /\ SameBut(q, r, {"total_bytes", "entry_count", "max_fill_id", "fill_id_incomplete"})
    /\ r.total_bytes <= q.total_bytes + BodySize + MetaSize
    /\ f = {} => /\ r.total_bytes = q.total_bytes + BodySize + MetaSize
                 /\ r.entry_count = q.entry_count + 1
    /\ r.max_fill_id = q.max_fill_id \/ r.max_fill_id = v
    /\ ~r.fill_id_incomplete =>
         /\ v \in Nat /\ v <= r.max_fill_id /\ q.max_fill_id <= r.max_fill_id
         /\ ~q.fill_id_incomplete

LEMMA CompleteFields ==
  ASSUME NEW q \in StatsRecs, NEW v, v = Corrupt \/ v \in Nat, NEW f
  PROVE  Completes(q, CompleteEntry(q, v, f), v, f)
<1> DEFINE one == Plus(q, BodySize)
           two == [one EXCEPT !.entry_count = one.entry_count + 1]
           body == IF "stat_body" \in f THEN q ELSE two
           both == IF "stat_meta" \in f THEN body ELSE Plus(body, MetaSize)
           r == TakeFillId(both, v, "read" \notin f)
<1>1. r = CompleteEntry(q, v, f)
  BY DEF CompleteEntry
<1>2. SameBut(q, one, {"total_bytes"}) /\ one.total_bytes = q.total_bytes + BodySize
  BY PlusField DEF BodySize
<1>3. one \in StatsRecs /\ one.entry_count = q.entry_count /\ q.entry_count + 1 \in Nat
  BY <1>2, NatFields DEF SameBut
<1> HIDE DEF one
<1>4. SameBut(one, two, {"entry_count"}) /\ two.entry_count = one.entry_count + 1
  BY <1>3, OneField
<1> HIDE DEF two
<1>5. /\ SameBut(q, body, {"total_bytes", "entry_count"})
      /\ body.total_bytes = q.total_bytes + (IF "stat_body" \in f THEN 0 ELSE BodySize)
      /\ body.entry_count = q.entry_count + (IF "stat_body" \in f THEN 0 ELSE 1)
  <2>1. CASE "stat_body" \in f
    BY <2>1, NatFields DEF SameBut
  <2>2. CASE "stat_body" \notin f
    BY <1>2, <1>3, <1>4, <2>2 DEF SameBut
  <2> QED
    BY <2>1, <2>2
<1>6. body \in StatsRecs
  BY <1>5 DEF SameBut
<1> HIDE DEF body
<1>7. /\ SameBut(body, both, {"total_bytes"})
      /\ both.total_bytes = body.total_bytes + (IF "stat_meta" \in f THEN 0 ELSE MetaSize)
  <2>1. CASE "stat_meta" \in f
    BY <1>6, <2>1, NatFields DEF SameBut
  <2>2. CASE "stat_meta" \notin f
    BY <1>6, <2>2, PlusField DEF MetaSize
  <2> QED
    BY <2>1, <2>2
<1>8. both \in StatsRecs
  BY <1>7 DEF SameBut
<1> HIDE DEF both
<1>9. /\ SameBut(both, r, {"max_fill_id", "fill_id_incomplete"})
      /\ r.max_fill_id = both.max_fill_id \/ r.max_fill_id = v
      /\ ~r.fill_id_incomplete =>
           /\ v \in Nat /\ v <= r.max_fill_id /\ both.max_fill_id <= r.max_fill_id
           /\ ~both.fill_id_incomplete
  BY <1>8, TakeFields
<1> HIDE DEF r
<1>10. /\ SameBut(q, r, {"total_bytes", "entry_count", "max_fill_id", "fill_id_incomplete"})
       /\ r.total_bytes = both.total_bytes /\ r.entry_count = body.entry_count
       /\ both.max_fill_id = q.max_fill_id /\ both.fill_id_incomplete = q.fill_id_incomplete
  BY <1>5, <1>7, <1>9 DEF SameBut
<1>11. /\ r.total_bytes <= q.total_bytes + BodySize + MetaSize
       /\ f = {} => /\ r.total_bytes = q.total_bytes + BodySize + MetaSize
                    /\ r.entry_count = q.entry_count + 1
  BY <1>5, <1>7, <1>10, NatFields DEF BodySize, MetaSize
<1> QED
  BY <1>1, <1>9, <1>10, <1>11 DEF Completes

LEMMA OrphanFields ==
  ASSUME NEW q \in StatsRecs, NEW f
  PROVE  LET r == measure_unreclaimed_orphan_bytes(q, f) IN
         /\ SameBut(q, r, {"total_bytes", "unreclaimed_bytes", "size_unknown"})
         /\ r.total_bytes <= q.total_bytes + BodySize
         /\ r.size_unknown = 0 =>
              q.size_unknown = 0 /\ r.unreclaimed_bytes = q.unreclaimed_bytes + BodySize
<1> DEFINE r == measure_unreclaimed_orphan_bytes(q, f)
           one == Plus(q, BodySize)
<1>1. CASE "stat_after" \notin f \/ "stat_before" \notin f
  <2>1. SameBut(q, one, {"total_bytes"}) /\ one.total_bytes = q.total_bytes + BodySize
    BY PlusField DEF BodySize
  <2>2. /\ one \in StatsRecs /\ one.unreclaimed_bytes = q.unreclaimed_bytes
        /\ q.unreclaimed_bytes + BodySize \in Nat /\ q.total_bytes \in Nat
    BY <2>1, NatFields DEF SameBut, BodySize
  <2>3. r = [one EXCEPT !.unreclaimed_bytes = one.unreclaimed_bytes + BodySize]
    BY <1>1 DEF measure_unreclaimed_orphan_bytes
  <2> HIDE DEF one, r
  <2>4. SameBut(one, r, {"unreclaimed_bytes"}) /\ r.unreclaimed_bytes = one.unreclaimed_bytes + BodySize
    BY <2>2, <2>3, OneField
  <2>5. /\ SameBut(q, r, {"total_bytes", "unreclaimed_bytes", "size_unknown"})
        /\ r.total_bytes = q.total_bytes + BodySize /\ r.size_unknown = q.size_unknown
    BY <2>1, <2>4 DEF SameBut
  <2>6. r.total_bytes <= q.total_bytes + BodySize
    BY <2>2, <2>5 DEF BodySize
  <2> QED
    BY <2>2, <2>4, <2>5, <2>6 DEF r
<1>2. CASE ~("stat_after" \notin f \/ "stat_before" \notin f)
  <2>1. r = [q EXCEPT !.size_unknown = q.size_unknown + 1]
    BY <1>2 DEF measure_unreclaimed_orphan_bytes
  <2>2. q.size_unknown + 1 \in Nat /\ q.size_unknown + 1 # 0 /\ q.total_bytes <= q.total_bytes + BodySize
    BY NatFields DEF BodySize
  <2> HIDE DEF r
  <2>3. SameBut(q, r, {"size_unknown"}) /\ r.size_unknown = q.size_unknown + 1
    BY <2>1, <2>2, OneField
  <2>4. SameBut(q, r, {"total_bytes", "unreclaimed_bytes", "size_unknown"}) /\ r.total_bytes = q.total_bytes
    BY <2>3 DEF SameBut
  <2> QED
    BY <2>2, <2>3, <2>4 DEF r
<1> QED
  BY <1>1, <1>2

LEMMA CallsFinite ==
  /\ \A d, h : IsFiniteSet(BodyCalls(d, h))
  /\ IsFiniteSet({"probe", "read", "stat"})
<1>1. /\ IsFiniteSet({"probe"}) /\ IsFiniteSet({"probe", "read"}) /\ IsFiniteSet({"probe", "read", "stat"})
  <2>1. IsFiniteSet({"probe"})
    BY FS_Singleton
  <2>2. IsFiniteSet({"probe"} \cup {"read"})
    BY <2>1, FS_AddElement
  <2>3. IsFiniteSet(({"probe"} \cup {"read"}) \cup {"stat"})
    BY <2>2, FS_AddElement
  <2>4. {"probe"} \cup {"read"} = {"probe", "read"}
        /\ ({"probe"} \cup {"read"}) \cup {"stat"} = {"probe", "read", "stat"}
    OBVIOUS
  <2> QED
    BY <2>1, <2>2, <2>3, <2>4
<1>2. ASSUME NEW a, NEW b, NEW c
      PROVE  IsFiniteSet({"probe", a, b, c})
  <2>1. IsFiniteSet({"probe"} \cup {a})
    BY <1>1, FS_AddElement
  <2>2. IsFiniteSet(({"probe"} \cup {a}) \cup {b})
    BY <2>1, FS_AddElement
  <2>3. IsFiniteSet((({"probe"} \cup {a}) \cup {b}) \cup {c})
    BY <2>2, FS_AddElement
  <2>4. (({"probe"} \cup {a}) \cup {b}) \cup {c} = {"probe", a, b, c}
    OBVIOUS
  <2> QED
    BY <2>3, <2>4
<1>3. ASSUME NEW d, NEW h
      PROVE  IsFiniteSet(BodyCalls(d, h))
  BY <1>2 DEF BodyCalls
<1> QED
  BY <1>1, <1>3

(* The step is right if the new result is.                                   *)
LEMMA ScannedOK ==
  ASSUME ScanInv, NEW d \in Dirs, NEW todo \in SUBSET FileNames, NEW r \in StatsRecs,
         scan_task[d].st = "scan", Scanning(d),
         scan_task' = [scan_task EXCEPT ![d] = [[scan_task[d] EXCEPT !.todo = todo] EXCEPT !.res = r]],
         bodies' \subseteq bodies, bodies \ bodies' \subseteq Keys({d}),
         scan_faults' \in 0 .. MaxScanFaults, scan_faults <= scan_faults',
         todo \subseteq FilesIn(metas, markers, bodies', d),
         r.saw_cache_files = TRUE,
         KeyResult(metas, bodies', scan_faults', d, Settled(bodies', d, todo), r)
  PROVE  ScanStep(d)
<1> DEFINE u == scan_task'[d]
<1>1. scan_task \in [Dirs -> TaskScans] /\ scan_task[d] \in TaskScans
  BY DEF ScanInv, ScanTypes
<1>2. /\ u = [[scan_task[d] EXCEPT !.todo = todo] EXCEPT !.res = r]
      /\ scan_task' = [scan_task EXCEPT ![d] = u]
  BY <1>1
<1>3. u \in TaskScans /\ u.st = "scan" /\ u.todo = todo /\ u.res = r
  BY <1>1, <1>2 DEF TaskScans
<1> HIDE DEF u
<1>4. ScanOK(metas, markers, bodies', scan_faults', d, u)
  BY <1>3 DEF ScanOK, KeyResult
<1> QED
  BY <1>2, <1>3, <1>4 DEF ScanStep, Scanning, u

LEMMA ScanBodyOK ==
  ASSUME ScanInv, NEW d \in Dirs, NEW h \in Hashes, NEW f, ScanBody(d, h, f)
  PROVE  ScanStep(d)
<1> DEFINE t == scan_task[d]
           k == <<d, h>>
           q == [t.res EXCEPT !.saw_cache_files = TRUE]
           todo == t.todo \ {<<h, "body">>}
           S == Settled(bodies, d, t.todo)
           new == IF "probe" \in f THEN [q EXCEPT !.fill_id_incomplete = TRUE]
                  ELSE IF metas[k] # Absent THEN CompleteEntry(q, metas[k], f)
                  ELSE IF "remove" \in f THEN measure_unreclaimed_orphan_bytes(q, f)
                  ELSE q
           gone == "probe" \notin f /\ metas[k] = Absent /\ "remove" \notin f
<1>1. /\ t \in TaskScans /\ t.st = "scan" /\ <<h, "body">> \in t.todo
      /\ ScanOK(metas, markers, bodies, scan_faults, d, t) /\ scan_pc = "pump"
      /\ bodies \subseteq AllKeys /\ ScanTypes /\ scan_faults \in 0 .. MaxScanFaults
      /\ scan_task \in [Dirs -> TaskScans]
  BY DEF ScanInv, ScanTypes, PumpOK, ScanBody, Scanning
<1>2. k \in bodies /\ k \in AllKeys /\ k \in Keys({d})
  <2>1. <<h, "body">> \in FilesIn(metas, markers, bodies, d)
    BY <1>1 DEF ScanOK
  <2> QED
    BY <2>1, KeyOf DEF FilesIn
<1>3. t.res \in StatsRecs /\ t.todo \subseteq FileNames
  BY <1>1 DEF TaskScans
<1>4. SameBut(t.res, q, {"saw_cache_files"}) /\ q.saw_cache_files = TRUE /\ q \in StatsRecs
  BY <1>3, OneField DEF SameBut
<1>5. /\ scan_task' = [scan_task EXCEPT ![d] = [[scan_task[d] EXCEPT !.todo = todo] EXCEPT !.res = new]]
      /\ bodies' = IF gone THEN bodies \ {k} ELSE bodies
  BY DEF ScanBody
<1>6. /\ scan_faults' \in 0 .. MaxScanFaults /\ scan_faults <= scan_faults'
      /\ scan_faults' = 0 => f = {}
  BY <1>1, CallsFinite, Fails DEF ScanBody
<1>7. metas[k] = Absent \/ metas[k] = Corrupt \/ (metas[k] \in Nat /\ metas[k] # Absent)
  BY <1>1, <1>2, FillType
<1>8. k \in MetaKeys(metas) <=> metas[k] # Absent
  BY <1>2 DEF MetaKeys
<1>9. gone => <<h, "meta">> \notin t.todo
  <2>1. t.todo \subseteq FilesIn(metas, markers, bodies, d)
    BY <1>1 DEF ScanOK
  <2> QED
    BY <2>1 DEF FilesIn
<1> HIDE DEF q, todo, S, gone, t
<1>10. new \in StatsRecs /\ new.saw_cache_files = TRUE
       /\ Adds(metas, bodies', scan_faults', k, t.res, new)
  <2>0. /\ q.total_bytes \in Nat /\ q.max_fill_id \in Nat /\ q.unreclaimed_bytes \in Nat
        /\ q.entry_count \in Nat
    BY <1>4, NatFields
  <2>1. CASE "probe" \in f
    <3>1. new = [q EXCEPT !.fill_id_incomplete = TRUE] /\ bodies' = bodies /\ scan_faults' # 0
      BY <1>5, <1>6, <2>1 DEF gone
    <3> HIDE DEF new
    <3>2. SameBut(q, new, {"fill_id_incomplete"}) /\ new.fill_id_incomplete = TRUE
      BY <1>4, <3>1, OneField
    <3> QED
      BY <1>4, <2>0, <3>1, <3>2 DEF SameBut, Adds, BodySize, MetaSize
  <2>2. CASE "probe" \notin f /\ metas[k] # Absent
    <3>1. new = CompleteEntry(q, metas[k], f) /\ bodies' = bodies
      BY <1>5, <2>2 DEF gone
    <3> HIDE DEF new
    <3>2. Completes(q, new, metas[k], f)
      BY <1>4, <1>7, <2>2, <3>1, CompleteFields
    <3> QED
      BY <1>2, <1>4, <1>6, <1>8, <2>0, <2>2, <3>1, <3>2 DEF SameBut, Completes, Adds, BodySize, MetaSize
  <2>3. CASE "probe" \notin f /\ metas[k] = Absent /\ "remove" \in f
    <3>1. new = measure_unreclaimed_orphan_bytes(q, f) /\ bodies' = bodies /\ scan_faults' # 0
      BY <1>5, <1>6, <2>3 DEF gone
    <3> HIDE DEF new
    <3>2. /\ SameBut(q, new, {"total_bytes", "unreclaimed_bytes", "size_unknown"})
          /\ new.total_bytes <= q.total_bytes + BodySize
          /\ new.size_unknown = 0 =>
               q.size_unknown = 0 /\ new.unreclaimed_bytes = q.unreclaimed_bytes + BodySize
      BY <1>4, <3>1, OrphanFields
    <3> QED
      BY <1>2, <1>4, <1>8, <2>0, <2>3, <3>1, <3>2 DEF SameBut, Adds, BodySize, MetaSize
  <2>4. CASE gone
    <3>1. new = q /\ bodies' = bodies \ {k} /\ metas[k] = Absent
      BY <1>5, <2>4 DEF gone
    <3> HIDE DEF new
    <3> QED
      BY <1>2, <1>4, <1>8, <2>0, <3>1 DEF SameBut, Adds, BodySize, MetaSize
  <2> QED
    BY <2>1, <2>2, <2>3, <2>4 DEF gone
<1> HIDE DEF new
<1>11. k \notin S /\ Settled(bodies', d, todo) = S \cup {k}
  <2>1. CASE gone
    <3>1. bodies' = bodies \ {k} /\ <<h, "meta">> \notin t.todo
      BY <1>5, <1>9, <2>1
    <3>2. /\ k \notin Settled(bodies, d, t.todo)
          /\ Settled(bodies \ {k}, d, t.todo \ {<<h, "body">>}) = Settled(bodies, d, t.todo) \cup {k}
      BY <1>1, <1>2, <3>1, SettleGone
    <3> QED
      BY <3>1, <3>2 DEF todo, S
  <2>2. CASE ~gone
    <3>1. bodies' = bodies
      BY <1>5, <2>2
    <3>2. /\ k \notin Settled(bodies, d, t.todo)
          /\ Settled(bodies, d, t.todo \ {<<h, "body">>}) = Settled(bodies, d, t.todo) \cup {k}
      BY <1>1, <1>2, SettleBody
    <3> QED
      BY <3>1, <3>2 DEF todo, S
  <2> QED
    BY <2>1, <2>2
<1>12. S \in SUBSET AllKeys /\ Agree(bodies, bodies', S)
  BY <1>5, <1>11, SettledSet DEF Agree, S
<1>13. KeyResult(metas, bodies, scan_faults, d, S, t.res)
  BY <1>1 DEF ScanOK, KeyResult, S
<1>14. KeyResult(metas, bodies', scan_faults', d, S \cup {k}, new)
  <2>1. scan_faults \in Nat /\ scan_faults' \in Nat
    BY <1>1, <1>6
  <2> HIDE DEF k
  <2> QED
    BY <1>2, <1>3, <1>6, <1>10, <1>11, <1>12, <1>13, <2>1, AddsOK
<1>15. todo \subseteq FilesIn(metas, markers, bodies', d)
  <2>1. t.todo \subseteq FilesIn(metas, markers, bodies, d)
    BY <1>1 DEF ScanOK
  <2>2. FilesIn(metas, markers, bodies, d) \ {<<h, "body">>} \subseteq FilesIn(metas, markers, bodies', d)
    BY <1>5 DEF FilesIn
  <2> QED
    BY <2>1, <2>2 DEF todo
<1>16. bodies' \subseteq bodies /\ bodies \ bodies' \subseteq Keys({d})
  BY <1>2, <1>5
<1>17. todo \in SUBSET FileNames /\ scan_task[d].st = "scan" /\ Scanning(d)
  BY <1>1, <1>3 DEF todo, t, ScanBody
<1> QED
  BY <1>5, <1>6, <1>10, <1>11, <1>14, <1>15, <1>16, <1>17, ScannedOK

LEMMA ScanMetaOK ==
  ASSUME ScanInv, NEW d \in Dirs, NEW h \in Hashes, NEW f, ScanMeta(d, h, f)
  PROVE  ScanStep(d)
<1> DEFINE t == scan_task[d]
           k == <<d, h>>
           q == [t.res EXCEPT !.saw_cache_files = TRUE]
           plus == IF "stat" \in f THEN q ELSE Plus(q, MetaSize)
           todo == t.todo \ {<<h, "meta">>}
           S == Settled(bodies, d, t.todo)
           new == IF "probe" \in f THEN [q EXCEPT !.fill_id_incomplete = TRUE]
                  ELSE IF k \in bodies THEN q
                  ELSE TakeFillId(plus, metas[k], "read" \notin f)
<1>1. /\ t \in TaskScans /\ t.st = "scan" /\ <<h, "meta">> \in t.todo
      /\ ScanOK(metas, markers, bodies, scan_faults, d, t) /\ scan_pc = "pump"
      /\ bodies \subseteq AllKeys /\ ScanTypes /\ scan_faults \in 0 .. MaxScanFaults
      /\ scan_task \in [Dirs -> TaskScans]
  BY DEF ScanInv, ScanTypes, PumpOK, ScanMeta, Scanning
<1>2. k \in AllKeys /\ k \in Keys({d}) /\ metas[k] # Absent
  <2>1. <<h, "meta">> \in FilesIn(metas, markers, bodies, d)
    BY <1>1 DEF ScanOK
  <2> QED
    BY <2>1, KeyOf DEF FilesIn
<1>3. t.res \in StatsRecs /\ t.todo \subseteq FileNames
  BY <1>1 DEF TaskScans
<1>4. SameBut(t.res, q, {"saw_cache_files"}) /\ q.saw_cache_files = TRUE /\ q \in StatsRecs
  BY <1>3, OneField DEF SameBut
<1>5. /\ scan_task' = [scan_task EXCEPT ![d] = [[scan_task[d] EXCEPT !.todo = todo] EXCEPT !.res = new]]
      /\ bodies' = bodies
  BY DEF ScanMeta
<1>6. /\ scan_faults' \in 0 .. MaxScanFaults /\ scan_faults <= scan_faults'
      /\ scan_faults' = 0 => f = {}
  BY <1>1, CallsFinite, Fails DEF ScanMeta
<1>7. metas[k] = Corrupt \/ metas[k] \in Nat
  BY <1>1, <1>2, FillType
<1>8. k \in MetaKeys(metas)
  BY <1>2 DEF MetaKeys
<1> HIDE DEF q, todo, S, t
<1>9. KeyResult(metas, bodies, scan_faults, d, S, t.res)
  BY <1>1 DEF ScanOK, KeyResult, S
<1>10. scan_faults \in Nat /\ scan_faults' \in Nat
  BY <1>1, <1>6
<1>11. /\ q.total_bytes \in Nat /\ q.max_fill_id \in Nat /\ q.unreclaimed_bytes \in Nat
       /\ q.entry_count \in Nat
  BY <1>4, NatFields
<1>12. CASE k \in bodies
  <2>1. Settled(bodies', d, todo) = S
    BY <1>1, <1>5, <1>12, SettleMeta DEF todo, S
  <2>2. /\ SameBut(t.res, new, {"saw_cache_files", "fill_id_incomplete"}) /\ new \in StatsRecs
        /\ new.saw_cache_files = TRUE
        /\ new.fill_id_incomplete \/ new.fill_id_incomplete = t.res.fill_id_incomplete
    <3>1. CASE "probe" \in f
      <4>1. new = [q EXCEPT !.fill_id_incomplete = TRUE]
        BY <3>1
      <4> HIDE DEF new
      <4>2. SameBut(q, new, {"fill_id_incomplete"}) /\ new.fill_id_incomplete = TRUE
        BY <1>4, <4>1, OneField
      <4> QED
        BY <1>4, <4>2 DEF SameBut
    <3>2. CASE "probe" \notin f
      <4>1. new = q
        BY <1>12, <3>2
      <4> HIDE DEF new
      <4> QED
        BY <1>4, <4>1 DEF SameBut
    <3> QED
      BY <3>1, <3>2
  <2> HIDE DEF new
  <2>3. KeyResult(metas, bodies', scan_faults', d, S, new)
    <3>1. BytesOK(metas, bodies', scan_faults', S, new)
      BY <1>5, <1>6, <1>9, <1>10, <2>2 DEF KeyResult, BytesOK, SameBut
    <3>2. OrphansOK(metas, bodies', S, new)
      BY <1>5, <1>9, <2>2 DEF KeyResult, OrphansOK, SameBut
    <3>3. FillOK(metas, S, new)
      BY <1>9, <2>2 DEF KeyResult, FillOK, SameBut
    <3>4. MaxOK(metas, d, new)
      BY <1>9, <2>2 DEF KeyResult, MaxOK, SameBut
    <3> QED
      BY <3>1, <3>2, <3>3, <3>4 DEF KeyResult
  <2>4. todo \subseteq FilesIn(metas, markers, bodies', d) /\ todo \in SUBSET FileNames
    BY <1>1, <1>3, <1>5 DEF ScanOK, todo
  <2>5. scan_task[d].st = "scan" /\ Scanning(d) /\ bodies' \subseteq bodies /\ bodies \ bodies' \subseteq Keys({d})
    BY <1>1, <1>5 DEF t, ScanMeta
  <2> QED
    BY <1>5, <1>6, <2>1, <2>2, <2>3, <2>4, <2>5, ScannedOK
<1>13. CASE k \notin bodies
  <2>1. k \notin S /\ Settled(bodies', d, todo) = S \cup {k}
    BY <1>1, <1>5, <1>13, SettleMeta DEF todo, S
  <2>2. new \in StatsRecs /\ new.saw_cache_files = TRUE /\ Adds(metas, bodies', scan_faults', k, t.res, new)
    <3>1. CASE "probe" \in f
      <4>1. new = [q EXCEPT !.fill_id_incomplete = TRUE] /\ scan_faults' # 0
        BY <1>6, <3>1
      <4> HIDE DEF new
      <4>2. SameBut(q, new, {"fill_id_incomplete"}) /\ new.fill_id_incomplete = TRUE
        BY <1>4, <4>1, OneField
      <4> QED
        BY <1>4, <1>11, <4>1, <4>2 DEF SameBut, Adds, BodySize, MetaSize
    <3>2. CASE "probe" \notin f
      <4>1. new = TakeFillId(plus, metas[k], "read" \notin f)
        BY <1>13, <3>2
      <4>2. /\ SameBut(q, plus, {"total_bytes"})
            /\ plus.total_bytes = q.total_bytes + (IF "stat" \in f THEN 0 ELSE MetaSize)
        <5>1. CASE "stat" \in f
          BY <1>4, <1>11, <5>1 DEF SameBut
        <5>2. CASE "stat" \notin f
          BY <1>4, <5>2, PlusField DEF MetaSize
        <5> QED
          BY <5>1, <5>2
      <4>3. plus \in StatsRecs
        BY <4>2 DEF SameBut
      <4> HIDE DEF plus, new
      <4>4. /\ SameBut(plus, new, {"max_fill_id", "fill_id_incomplete"})
            /\ new.max_fill_id = plus.max_fill_id \/ new.max_fill_id = metas[k]
            /\ ~new.fill_id_incomplete =>
                 /\ metas[k] \in Nat /\ metas[k] <= new.max_fill_id /\ plus.max_fill_id <= new.max_fill_id
                 /\ ~plus.fill_id_incomplete
        BY <1>7, <4>1, <4>3, TakeFields
      <4> QED
        BY <1>4, <1>5, <1>6, <1>8, <1>11, <1>13, <4>2, <4>4 DEF SameBut, Adds, BodySize, MetaSize
    <3> QED
      BY <3>1, <3>2
  <2> HIDE DEF new
  <2>3. S \in SUBSET AllKeys /\ Agree(bodies, bodies', S)
    BY <1>5, SettledSet DEF Agree, S
  <2>4. KeyResult(metas, bodies', scan_faults', d, S \cup {k}, new)
    <3> HIDE DEF k
    <3> QED
      BY <1>2, <1>3, <1>6, <1>9, <1>10, <2>1, <2>2, <2>3, AddsOK
  <2>5. todo \subseteq FilesIn(metas, markers, bodies', d) /\ todo \in SUBSET FileNames
    BY <1>1, <1>3, <1>5 DEF ScanOK, todo
  <2>6. scan_task[d].st = "scan" /\ Scanning(d) /\ bodies' \subseteq bodies /\ bodies \ bodies' \subseteq Keys({d})
    BY <1>1, <1>5 DEF t, ScanMeta
  <2> QED
    BY <1>5, <1>6, <2>1, <2>2, <2>4, <2>5, <2>6, ScannedOK
<1> QED
  BY <1>12, <1>13

LEMMA ScanOtherOK ==
  ASSUME ScanInv, NEW d \in Dirs, NEW h \in Hashes, ScanOther(d, h)
  PROVE  ScanStep(d)
<1> DEFINE t == scan_task[d]
           q == [t.res EXCEPT !.saw_cache_files = TRUE]
           todo == t.todo \ {<<h, "poisoned">>}
<1>1. /\ t \in TaskScans /\ t.st = "scan"
      /\ ScanOK(metas, markers, bodies, scan_faults, d, t)
      /\ scan_faults \in 0 .. MaxScanFaults
  BY DEF ScanInv, ScanTypes, PumpOK, ScanOther, Scanning
<1>2. t.res \in StatsRecs /\ t.todo \subseteq FileNames
  BY <1>1 DEF TaskScans
<1>3. SameBut(t.res, q, {"saw_cache_files"}) /\ q.saw_cache_files = TRUE /\ q \in StatsRecs
  BY <1>2, OneField DEF SameBut
<1>4. /\ scan_task' = [scan_task EXCEPT ![d] = [[scan_task[d] EXCEPT !.todo = todo] EXCEPT !.res = q]]
      /\ bodies' = bodies /\ scan_faults' = scan_faults /\ Scanning(d)
  BY DEF ScanOther
<1> HIDE DEF q
<1>5. KeyResult(metas, bodies, scan_faults, d, Settled(bodies, d, t.todo), t.res)
  BY <1>1 DEF ScanOK, KeyResult
<1>6. KeyResult(metas, bodies, scan_faults, d, Settled(bodies, d, t.todo), q)
  BY <1>3, <1>5 DEF KeyResult, BytesOK, OrphansOK, FillOK, MaxOK, SameBut
<1>7. Settled(bodies, d, todo) = Settled(bodies, d, t.todo)
  <2>1. \A x : <<x, "body">> # <<h, "poisoned">> /\ <<x, "meta">> # <<h, "poisoned">>
    OBVIOUS
  <2>2. \A k : <<k[2], IF k \in bodies THEN "body" ELSE "meta">> \in todo
              <=> <<k[2], IF k \in bodies THEN "body" ELSE "meta">> \in t.todo
    BY <2>1
  <2> QED
    BY <2>2 DEF Settled
<1>8. todo \in SUBSET FileNames /\ todo \subseteq FilesIn(metas, markers, bodies, d)
  BY <1>1, <1>2 DEF ScanOK
<1>9. scan_faults <= scan_faults
  BY <1>1
<1>10. bodies' \subseteq bodies /\ bodies \ bodies' \subseteq Keys({d}) /\ scan_task[d].st = "scan"
  BY <1>1, <1>4
<1> HIDE DEF todo
<1> QED
  BY <1>1, <1>3, <1>4, <1>6, <1>7, <1>8, <1>9, <1>10, ScannedOK

(* The step leaves the bodies alone and makes u of the task.                 *)
LEMMA TaskOnly ==
  ASSUME ScanInv, NEW d \in Dirs, NEW u \in TaskScans, scan_task[d].st # "none", u.st # "none",
         Scanning(d), scan_task' = [scan_task EXCEPT ![d] = u], bodies' = bodies,
         scan_faults' \in 0 .. MaxScanFaults, scan_faults <= scan_faults',
         ScanOK(metas, markers, bodies, scan_faults', d, u)
  PROVE  ScanStep(d)
<1>1. scan_task'[d] = u
  BY DEF ScanInv, ScanTypes
<1> QED
  BY <1>1 DEF ScanStep, Scanning

LEMMA NoStatsType == NoStats \in StatsRecs /\ Started \in TaskScans /\ NoScan \in TaskScans
  BY DEF NoStats, StatsRecs, Started, NoScan, TaskScans

LEMMA OpenDirOK ==
  ASSUME ScanInv, NEW d \in Dirs, NEW ok \in BOOLEAN, OpenDir(d, ok)
  PROVE  ScanStep(d)
<1>1. /\ scan_task[d].st = "open" /\ ScanOK(metas, markers, bodies, scan_faults, d, scan_task[d])
      /\ scan_faults \in 0 .. MaxScanFaults /\ Scanning(d) /\ bodies' = bodies /\ scan_pc = "pump"
  BY DEF ScanInv, ScanTypes, PumpOK, OpenDir, Scanning
<1>2. scan_task[d] = Started
  BY <1>1 DEF ScanOK
<1>2a. scan_task[d] \in TaskScans /\ scan_task[d].todo = {} /\ scan_task[d].res = NoStats
  <2>1. Started.todo = {} /\ Started.res = NoStats
    BY DEF Started, NoScan
  <2> QED
    BY <1>2, <2>1, NoStatsType
<1>3. CASE ok
  <2> DEFINE S == Settled(bodies, d, Files(d))
             u == [[scan_task[d] EXCEPT !.st = "scan"] EXCEPT !.todo = Files(d)]
  <2>0. Files(d) = FilesIn(metas, markers, bodies, d)
    BY DEF Files, FilesIn
  <2>1. Files(d) = FilesIn(metas, markers, bodies, d) /\ Files(d) \in SUBSET FileNames
    <3>1. ASSUME NEW x \in Files(d) PROVE x \in FileNames
      <4>1. \E h \in Hashes, c \in {"body", "meta", "poisoned"} : x = <<h, c>>
        BY DEF Files
      <4> QED
        BY <4>1 DEF FileNames
    <3> QED
      BY <2>0, <3>1
  <2>2. bodies \cap S = {} /\ MetaKeys(metas) \cap S = {}
    <3>1. ASSUME NEW k \in S PROVE k \notin bodies /\ metas[k] = Absent
      <4>1. k \in Keys({d}) /\ <<k[2], IF k \in bodies THEN "body" ELSE "meta">> \notin Files(d)
        BY DEF Settled
      <4>2. k = <<d, k[2]>> /\ k[2] \in Hashes
        BY <4>1 DEF Keys, AllKeys
      <4> QED
        BY <4>1, <4>2 DEF Files
    <3> QED
      BY <3>1 DEF MetaKeys
  <2> HIDE DEF S
  <2>3. /\ Count(bodies, S) = 0 /\ Count(MetaKeys(metas), S) = 0
        /\ Count(bodies \cap MetaKeys(metas), S) = 0 /\ Count(bodies \ MetaKeys(metas), S) = 0
    <3>1. (bodies \cap MetaKeys(metas)) \cap S = {} /\ (bodies \ MetaKeys(metas)) \cap S = {}
      BY <2>2
    <3> QED
      BY <2>2, <3>1, CountNone
  <2>4. KeyResult(metas, bodies, scan_faults', d, S, NoStats)
    BY <2>2, <2>3 DEF KeyResult, BytesOK, OrphansOK, FillOK, MaxOK, NoStats, Weight, BodySize, MetaSize
  <2>5. u \in TaskScans /\ u.st = "scan" /\ u.todo = Files(d) /\ u.res = NoStats
    BY <1>2a, <2>1 DEF TaskScans
  <2>6. scan_task' = [scan_task EXCEPT ![d] = u] /\ scan_faults' = scan_faults
    <3>1. scan_task' = [scan_task EXCEPT ![d] = u]
      BY <1>3 DEF OpenDir
    <3>2. MayFail(0)
      BY <1>3 DEF OpenDir
    <3>3. scan_faults' = scan_faults
      BY <1>1, <3>2 DEF MayFail
    <3> QED
      BY <3>1, <3>3
  <2> HIDE DEF u
  <2>7. ScanOK(metas, markers, bodies, scan_faults', d, u)
    BY <2>1, <2>4, <2>5 DEF ScanOK, KeyResult, S
  <2>8. scan_faults <= scan_faults'
    BY <1>1, <2>6
  <2>9. scan_task[d].st # "none" /\ u.st # "none"
    BY <1>1, <2>5
  <2> QED
    BY <1>1, <2>5, <2>6, <2>7, <2>8, <2>9, TaskOnly
<1>4. CASE ~ok
  <2> DEFINE r == [NoStats EXCEPT !.fill_id_incomplete = TRUE]
             S == Settled(bodies, d, {})
             u == [[scan_task[d] EXCEPT !.st = "ok"] EXCEPT !.res = [scan_task[d].res EXCEPT !.fill_id_incomplete = TRUE]]
  <2>1. SameBut(NoStats, r, {"fill_id_incomplete"}) /\ r.fill_id_incomplete = TRUE /\ r \in StatsRecs
    BY NoStatsType, OneField DEF SameBut
  <2>2. scan_task' = [scan_task EXCEPT ![d] = u]
    BY <1>4 DEF OpenDir
  <2>3. scan_faults' \in 0 .. MaxScanFaults /\ scan_faults <= scan_faults' /\ scan_faults' # 0
    BY <1>1, <1>4, PumpAssumption DEF OpenDir, MayFail
  <2>4. Weight(metas, bodies, S) \in Nat
    <3>1. S \in SUBSET AllKeys
      BY SettledSet
    <3> HIDE DEF S
    <3> QED
      BY <3>1, WeightMono
  <2> HIDE DEF r, S
  <2>5. r.total_bytes = 0 /\ r.max_fill_id = 0
    BY <2>1 DEF SameBut, NoStats
  <2>6. KeyResult(metas, bodies, scan_faults', d, S, r)
    BY <2>1, <2>3, <2>4, <2>5 DEF KeyResult, BytesOK, OrphansOK, FillOK, MaxOK
  <2>7. u \in TaskScans /\ u.st = "ok" /\ u.todo = {} /\ u.res = r
    <3>1. [scan_task[d].res EXCEPT !.fill_id_incomplete = TRUE] = r
      BY <1>2a DEF r
    <3>2. u = [[scan_task[d] EXCEPT !.st = "ok"] EXCEPT !.res = r]
      BY <3>1
    <3> HIDE DEF u
    <3> QED
      BY <1>2a, <2>1, <3>2 DEF TaskScans
  <2> HIDE DEF u
  <2>8. ScanOK(metas, markers, bodies, scan_faults', d, u)
    BY <2>1, <2>6, <2>7 DEF ScanOK, KeyResult, S
  <2>9. scan_task[d].st # "none" /\ u.st # "none"
    BY <1>1, <2>7
  <2> QED
    BY <1>1, <2>2, <2>3, <2>7, <2>8, <2>9, TaskOnly
<1> QED
  BY <1>3, <1>4

LEMMA EndDirOK ==
  ASSUME ScanInv, NEW d \in Dirs, EndDir(d) \/ IterateDirFails(d) \/ Panic(d)
  PROVE  ScanStep(d)
<1> DEFINE t == scan_task[d]
<1>1. /\ t \in TaskScans /\ Scanning(d) /\ bodies' = bodies /\ scan_pc = "pump" /\ t.st # "none"
      /\ ScanOK(metas, markers, bodies, scan_faults, d, t) /\ scan_faults \in 0 .. MaxScanFaults
      /\ scan_task \in [Dirs -> TaskScans]
  BY DEF ScanInv, ScanTypes, PumpOK, EndDir, IterateDirFails, Panic, Scanning
<1>2. t.res \in StatsRecs /\ t.todo \in SUBSET FileNames
  BY <1>1 DEF TaskScans
<1>3. CASE EndDir(d)
  <2> DEFINE u == [t EXCEPT !.st = "ok"]
  <2>1. u \in TaskScans /\ u.st = "ok" /\ u.todo = t.todo /\ u.res = t.res
    BY <1>1 DEF TaskScans
  <2>2. t.st = "scan" /\ t.todo = {} /\ scan_task' = [scan_task EXCEPT ![d] = u] /\ scan_faults' = scan_faults
    BY <1>3 DEF EndDir
  <2> HIDE DEF u
  <2>3. ScanOK(metas, markers, bodies, scan_faults', d, u)
    BY <1>1, <2>1, <2>2 DEF ScanOK
  <2>4. u.st # "none" /\ scan_faults <= scan_faults'
    BY <1>1, <2>1, <2>2
  <2> QED
    BY <1>1, <2>1, <2>2, <2>3, <2>4, TaskOnly
<1>4. CASE IterateDirFails(d)
  <2> DEFINE r == [t.res EXCEPT !.fill_id_incomplete = TRUE]
             S == Settled(bodies, d, t.todo)
             u == [[t EXCEPT !.st = "ok"] EXCEPT !.res = r]
  <2>1. SameBut(t.res, r, {"fill_id_incomplete"}) /\ r.fill_id_incomplete = TRUE /\ r \in StatsRecs
    BY <1>2, OneField DEF SameBut
  <2>2. t.st = "scan" /\ scan_task' = [scan_task EXCEPT ![d] = [[t EXCEPT !.st = "ok"] EXCEPT !.res = r]]
    BY <1>4 DEF IterateDirFails
  <2>3. scan_task' = [scan_task EXCEPT ![d] = u]
    BY <2>2
  <2>4. scan_faults' \in 0 .. MaxScanFaults /\ scan_faults <= scan_faults' /\ scan_faults' # 0
    BY <1>1, <1>4, PumpAssumption DEF IterateDirFails, MayFail
  <2> HIDE DEF r
  <2>5. KeyResult(metas, bodies, scan_faults, d, S, t.res)
    BY <1>1, <2>2 DEF ScanOK, KeyResult
  <2>6. KeyResult(metas, bodies, scan_faults', d, S, r)
    BY <2>1, <2>4, <2>5 DEF KeyResult, BytesOK, OrphansOK, FillOK, MaxOK, SameBut
  <2>7. u \in TaskScans /\ u.st = "ok" /\ u.todo = t.todo /\ u.res = r
    <3> HIDE DEF t
    <3> QED
      BY <1>1, <2>1 DEF TaskScans
  <2> HIDE DEF u
  <2>8. ScanOK(metas, markers, bodies, scan_faults', d, u)
    BY <2>1, <2>4, <2>6, <2>7 DEF ScanOK, KeyResult
  <2>9. u.st # "none"
    BY <2>7
  <2> QED
    BY <1>1, <2>3, <2>4, <2>7, <2>8, <2>9, TaskOnly
<1>5. CASE Panic(d)
  <2> DEFINE u == [t EXCEPT !.st = "err"]
  <2>1. u \in TaskScans /\ u.st = "err"
    BY <1>1 DEF TaskScans
  <2>2. /\ scan_task' = [scan_task EXCEPT ![d] = u]
        /\ scan_faults' \in 0 .. MaxScanFaults /\ scan_faults <= scan_faults'
    BY <1>1, <1>5, PumpAssumption DEF Panic, MayFail
  <2> HIDE DEF u
  <2>3. ScanOK(metas, markers, bodies, scan_faults', d, u) /\ u.st # "none"
    BY <2>1 DEF ScanOK
  <2> QED
    BY <1>1, <2>1, <2>2, <2>3, TaskOnly
<1> QED
  BY <1>3, <1>4, <1>5
-----------------------------------------------------------------------------
(* The steps of the pump.                                                    *)

LEMMA NotDone ==
  ASSUME scan_pc' # "done"
  PROVE  DoneOK'
  BY DEF DoneOK, FillIdSound, BytesSound, OrphansAccounted, Done

LEMMA FlightFinite == IsFiniteSet(InFlight) /\ Cardinality(InFlight) \in Nat
<1>1. InFlight \in SUBSET Dirs
  BY DEF InFlight
<1> QED
  BY <1>1, KeysFinite, FS_Subset, FS_CardinalityType

LEMMA ScanStepInv ==
  ASSUME ScanInv, NEW d \in Dirs, ScanStep(d)
  PROVE  ScanInv'
<1>1. /\ ScanTypes /\ WalkOK /\ PumpOK /\ scan_pc = "pump" /\ scan_task \in [Dirs -> TaskScans]
      /\ scan_faults \in Nat /\ scan_faults' \in Nat /\ scan_faults <= scan_faults'
      /\ scan_faults' \in 0 .. MaxScanFaults /\ bodies' \subseteq bodies /\ bodies \ bodies' \subseteq Keys({d})
  <2>1. ScanTypes /\ WalkOK /\ PumpOK /\ scan_pc = "pump"
    BY DEF ScanInv, ScanStep
  <2>2. scan_task \in [Dirs -> TaskScans] /\ scan_faults \in 0 .. MaxScanFaults
    BY <2>1 DEF ScanTypes
  <2>3. /\ scan_faults' \in 0 .. MaxScanFaults /\ scan_faults <= scan_faults'
        /\ bodies' \subseteq bodies /\ bodies \ bodies' \subseteq Keys({d})
    BY DEF ScanStep
  <2> QED
    BY <2>1, <2>2, <2>3, PumpAssumption
<1>2. /\ UNCHANGED <<kind1, kind2, metas, markers, scan_mode, scan_pc, walk, dirs, incomplete,
                     pending, results, scan, reported>>
      /\ scan_task'[d] \in TaskScans /\ scan_task'[d].st # "none" /\ scan_task[d].st # "none"
      /\ ScanOK(metas, markers, bodies', scan_faults', d, scan_task'[d])
  BY DEF ScanStep
<1>3. scan_task' \in [Dirs -> TaskScans] /\ \A e \in Dirs : e # d => scan_task'[e] = scan_task[e]
  BY <1>1, <1>2 DEF ScanStep
<1>4. InFlight' = InFlight /\ d \in InFlight
  BY <1>2, <1>3 DEF InFlight
<1>5. HashDirs' = HashDirs
  BY <1>2 DEF HashDirs, IsHashDir
<1>6. ScanTypes'
  BY <1>1, <1>2, <1>3, <1>5 DEF ScanTypes
<1>7. WalkOK'
  BY <1>1, <1>2, <1>5 DEF WalkOK
<1>8. d \notin Finished(results)
  BY <1>1, <1>4 DEF PumpOK
<1>9. /\ \A e \in Dirs : e # d => Agree(bodies, bodies', Keys({e}))
      /\ Agree(bodies, bodies', Keys(Finished(results)))
  BY <1>1, <1>8 DEF Agree, Keys
<1>10. ResultsOK'
  <2>1. ResultsOK
    BY <1>1 DEF PumpOK
  <2>2. ASSUME NEW i \in DOMAIN results
        PROVE  ResultOK(metas, markers, bodies', results[i][1], results[i][2])
    <3>1. results[i][1] \in Dirs /\ results[i][1] # d
      BY <1>8, <2>1 DEF ResultsOK, Finished
    <3>2. ResultOK(metas, markers, bodies, results[i][1], results[i][2])
      BY <2>1 DEF ResultsOK
    <3>3. Agree(bodies, bodies', Keys({results[i][1]}))
      BY <1>9, <3>1
    <3> QED
      BY <3>1, <3>2, <3>3, ResultFrame
  <2>3. TotalsOK(metas, bodies', scan_faults', results)
    BY <1>1, <1>9, <2>1, TotalsFrame DEF ResultsOK
  <2> QED
    BY <1>2, <2>1, <2>2, <2>3 DEF ResultsOK
<1>11. ASSUME NEW e \in Dirs
       PROVE  ScanOK(metas, markers, bodies', scan_faults', e, scan_task'[e])
  <2>1. CASE e = d
    BY <1>2, <2>1
  <2>2. CASE e # d
    <3>1. ScanOK(metas, markers, bodies, scan_faults, e, scan_task[e]) /\ scan_task[e] \in TaskScans
      BY <1>1 DEF PumpOK
    <3>2. Agree(bodies, bodies', Keys({e})) /\ scan_task'[e] = scan_task[e]
      BY <1>3, <1>9, <2>2
    <3>3. ScanOK(metas, markers, bodies', scan_faults', e, scan_task[e])
      BY <1>1, <3>1, <3>2, ScanFrame
    <3> QED
      BY <3>2, <3>3
  <2> QED
    BY <2>1, <2>2
<1>12. PumpOK'
  BY <1>1, <1>2, <1>4, <1>10, <1>11 DEF PumpOK
<1>13. DoneOK'
  BY <1>1, <1>2, NotDone
<1> QED
  BY <1>6, <1>7, <1>12, <1>13 DEF ScanInv

(* A task that has not begun, or has been started, has found nothing.        *)
LEMMA IdleOK ==
  ASSUME NEW M, NEW P, NEW B, NEW n, NEW d
  PROVE  ScanOK(M, P, B, n, d, Started) /\ ScanOK(M, P, B, n, d, NoScan)
<1>1. Started.st = "open" /\ NoScan.st = "none"
  BY DEF Started, NoScan
<1> HIDE DEF Started, NoScan
<1> QED
  BY <1>1 DEF ScanOK

(* Nothing adds up to nothing.                                               *)
LEMMA EmptyTotals ==
  ASSUME NEW M, NEW B, NEW n
  PROVE  TotalsOK(M, B, n, <<>>)
<1>1. DOMAIN <<>> = {} /\ Finished(<<>>) = {} /\ Keys({}) = {}
  BY DEF Finished, Keys
<1>2. ASSUME NEW w, DOMAIN w = {}
      PROVE  Total(w) = 0
  <2>1. UNION {{i} \X (1 .. w[i]) : i \in DOMAIN w} = {}
    BY <1>2
  <2> QED
    BY <2>1, FS_EmptySet DEF Total
<1>3. /\ BytesTotal(<<>>) = 0 /\ EntryTotal(<<>>) = 0
      /\ OrphanTotal(<<>>) = 0 /\ UnknownTotal(<<>>) = 0
  BY <1>1, <1>2 DEF BytesTotal, EntryTotal, OrphanTotal, UnknownTotal
<1>4. \A A : Count(A, Keys(Finished(<<>>))) = 0
  BY <1>1, CountNone
<1>5. Weight(M, B, Keys(Finished(<<>>))) = 0
  BY <1>4 DEF Weight, BodySize, MetaSize
<1>6. BodySize * Count(B \ MetaKeys(M), Keys(Finished(<<>>))) = 0
  BY <1>4 DEF BodySize
<1> QED
  BY <1>3, <1>4, <1>5, <1>6 DEF TotalsOK

LEMMA StartPumpInv ==
  ASSUME ScanInv, StartPump
  PROVE  ScanInv'
<1>1. PICK first \in kSubset(IF Cardinality(dirs) < Cap THEN Cardinality(dirs) ELSE Cap, dirs) :
         /\ scan_task' = [e \in Dirs |-> IF e \in first THEN Started ELSE NoScan]
         /\ pending' = dirs \ first
  BY DEF StartPump
<1>2. /\ ScanTypes /\ WalkOK /\ PumpOK /\ scan_pc = "walk" /\ walk.prefix = Absent /\ walk.todo = {}
      /\ scan_pc' = "pump" /\ results = <<>>
      /\ UNCHANGED <<disk, scan_mode, walk, dirs, incomplete, results, scan, reported, scan_faults>>
  BY DEF ScanInv, StartPump, PumpOK
<1>3. dirs \subseteq Dirs /\ IsFiniteSet(dirs) /\ Cardinality(dirs) \in Nat
  <2>1. dirs \in SUBSET Dirs
    BY <1>2 DEF ScanTypes, HashDirs
  <2> QED
    BY <2>1, KeysFinite, FS_Subset, FS_CardinalityType
<1>4. /\ first \subseteq dirs /\ Cardinality(first) = IF Cardinality(dirs) < Cap THEN Cardinality(dirs) ELSE Cap
      /\ IsFiniteSet(first)
  BY <1>1, <1>3, FS_Subset DEF kSubset
<1>5. Cardinality(first) <= Cap /\ (first = {} => dirs = {})
  <2>1. Cardinality(first) <= Cap
    BY <1>3, <1>4, PumpAssumption
  <2>2. ASSUME first = {} PROVE dirs = {}
    <3>1. Cardinality(first) = 0
      BY <2>2, FS_EmptySet
    <3>2. Cardinality(dirs) = 0
      BY <1>3, <1>4, <3>1, PumpAssumption
    <3> QED
      BY <1>3, <3>2, FS_EmptySet
  <2> QED
    BY <2>1, <2>2
<1>6. InFlight' = first
  <2>1. Started.st = "open" /\ NoScan.st = "none"
    BY DEF Started, NoScan
  <2> QED
    BY <1>1, <1>3, <1>4, <2>1 DEF InFlight
<1>7. scan_task' \in [Dirs -> TaskScans]
  BY <1>1, NoStatsType
<1>8. HashDirs' = HashDirs
  BY <1>2 DEF HashDirs, IsHashDir, disk
<1>9. ScanTypes'
  BY <1>1, <1>2, <1>7, <1>8 DEF ScanTypes, disk
<1>10. WalkOK'
  <2>1. ~incomplete => dirs = HashDirs
    BY <1>2, DirAssumption DEF WalkOK, ScanTypes, HashDirs, Dirs
  <2> QED
    BY <1>2, <1>8, <2>1 DEF WalkOK, disk
<1>11. ResultsOK'
  BY <1>2, EmptyTotals DEF ResultsOK
<1>12. ASSUME NEW e \in Dirs
       PROVE  ScanOK(metas', markers', bodies', scan_faults', e, scan_task'[e])
  BY <1>1, IdleOK
<1>13. Finished(results') = {}
  BY <1>2 DEF Finished
<1>14. PumpOK'
  BY <1>1, <1>2, <1>4, <1>5, <1>6, <1>11, <1>12, <1>13 DEF PumpOK
<1>15. DoneOK'
  BY <1>2, NotDone
<1> QED
  BY <1>9, <1>10, <1>14, <1>15 DEF ScanInv

LEMMA FinishedJoin ==
  ASSUME NEW rs \in Seq(Dirs \X StatsRecs), NEW d \in Dirs, NEW r \in StatsRecs
  PROVE  Finished(Append(rs, <<d, r>>)) = Finished(rs) \cup {d}
<1> DEFINE q == Append(rs, <<d, r>>)
<1>1. /\ DOMAIN q = DOMAIN rs \cup {Len(rs) + 1} /\ q[Len(rs) + 1] = <<d, r>>
      /\ \A i \in DOMAIN rs : q[i] = rs[i]
  OBVIOUS
<1>2. q[Len(rs) + 1][1] = d
  BY <1>1
<1> HIDE DEF q
<1>3. Finished(q) = Finished(rs) \cup {d}
  BY <1>1, <1>2 DEF Finished
<1> QED
  BY <1>3 DEF q

(* The result r of directory d has dealt with some of its keys: with all of  *)
(* them, unless it says otherwise.                                           *)
EndResult(M, B, n, d, r) ==
    \E S \in SUBSET Keys({d}) :
        /\ BytesOK(M, B, n, S, r) /\ OrphansOK(M, B, S, r)
        /\ n = 0 \/ ~r.fill_id_incomplete => S = Keys({d})

(* What a result adds to the totals.                                         *)
LEMMA TotalsJoin ==
  ASSUME NEW M, NEW B, NEW n \in Nat, NEW rs \in Seq(Dirs \X StatsRecs),
         NEW d \in Dirs, d \notin Finished(rs), NEW r \in StatsRecs,
         TotalsOK(M, B, n, rs), EndResult(M, B, n, d, r)
  PROVE  TotalsOK(M, B, n, Append(rs, <<d, r>>))
<1> DEFINE q == Append(rs, <<d, r>>)
           T == Keys(Finished(rs))
           D == Keys({d})
<1> PICK S \in SUBSET Keys({d}) :
      /\ BytesOK(M, B, n, S, r) /\ OrphansOK(M, B, S, r)
      /\ n = 0 \/ ~r.fill_id_incomplete => S = Keys({d})
  BY DEF EndResult
<1>1. /\ DOMAIN q = DOMAIN rs \cup {Len(rs) + 1} /\ q[Len(rs) + 1] = <<d, r>>
      /\ \A i \in DOMAIN rs : q[i] = rs[i]
  OBVIOUS
<1>2. /\ BytesTotal(rs) \in Nat /\ EntryTotal(rs) \in Nat
      /\ OrphanTotal(rs) \in Nat /\ UnknownTotal(rs) \in Nat
      /\ BytesTotal(q) = BytesTotal(rs) + r.total_bytes
      /\ EntryTotal(q) = EntryTotal(rs) + r.entry_count
      /\ OrphanTotal(q) = OrphanTotal(rs) + r.unreclaimed_bytes
      /\ UnknownTotal(q) = UnknownTotal(rs) + r.size_unknown
  BY TotalsAppend
<1>3. /\ r.total_bytes \in Nat /\ r.entry_count \in Nat
      /\ r.unreclaimed_bytes \in Nat /\ r.size_unknown \in Nat
  BY NatFields
<1>4. q[Len(rs) + 1][1] = d /\ q[Len(rs) + 1][2] = r
  BY <1>1
<1> HIDE DEF q
<1>5. Finished(q) = Finished(rs) \cup {d}
  BY FinishedJoin DEF q
<1>6. (\A i \in DOMAIN q : ~q[i][2].fill_id_incomplete) =>
        ~r.fill_id_incomplete /\ \A i \in DOMAIN rs : ~rs[i][2].fill_id_incomplete
  BY <1>1, <1>4
<1>7. Keys(Finished(q)) = T \cup D /\ T \cap D = {} /\ T \in SUBSET AllKeys /\ D \in SUBSET AllKeys
  BY <1>5 DEF Keys
<1> HIDE DEF T, D
<1>8. /\ Weight(M, B, T \cup D) = Weight(M, B, T) + Weight(M, B, D)
      /\ Weight(M, B, T) \in Nat /\ Weight(M, B, D) \in Nat
  BY <1>7, WeightAdd
<1>9. S \in SUBSET AllKeys /\ S \subseteq D
  BY <1>7 DEF D
<1>10. Weight(M, B, S) <= Weight(M, B, D) /\ Weight(M, B, S) \in Nat
  BY <1>7, <1>9, WeightMono
<1>11. \A A : /\ Count(A, T \cup D) = Count(A, T) + Count(A, D)
              /\ Count(A, T) \in Nat /\ Count(A, D) \in Nat
  BY <1>7, CountAdd
<1>12. BytesTotal(q) <= Weight(M, B, T \cup D)
  BY <1>2, <1>3, <1>8, <1>10 DEF TotalsOK, BytesOK, T
<1>13. ASSUME n = 0
       PROVE  /\ BytesTotal(q) = Weight(M, B, T \cup D)
              /\ EntryTotal(q) = Count(B \cap MetaKeys(M), T \cup D)
  <2>1. S = D
    BY <1>13 DEF D
  <2> QED
    BY <1>2, <1>3, <1>8, <1>11, <1>13, <2>1 DEF TotalsOK, BytesOK, T
<1>14. ASSUME \A i \in DOMAIN q : ~q[i][2].fill_id_incomplete, UnknownTotal(q) = 0
       PROVE  OrphanTotal(q) = BodySize * Count(B \ MetaKeys(M), T \cup D)
  <2>1. S = D /\ ~r.fill_id_incomplete /\ r.size_unknown = 0 /\ UnknownTotal(rs) = 0
    BY <1>2, <1>3, <1>6, <1>14 DEF D
  <2>2. r.unreclaimed_bytes = BodySize * Count(B \ MetaKeys(M), D)
    BY <2>1 DEF OrphansOK
  <2>3. OrphanTotal(rs) = BodySize * Count(B \ MetaKeys(M), T)
    BY <1>6, <1>14, <2>1 DEF TotalsOK, T
  <2> DEFINE a == Count(B \ MetaKeys(M), T)
             b == Count(B \ MetaKeys(M), D)
  <2>4. Count(B \ MetaKeys(M), T \cup D) = a + b /\ a \in Nat /\ b \in Nat
    BY <1>11
  <2>5. OrphanTotal(q) = BodySize * a + BodySize * b
    BY <1>2, <2>2, <2>3
  <2> HIDE DEF a, b
  <2> QED
    BY <2>4, <2>5 DEF BodySize
<1>15. BytesTotal(q) \in Nat /\ EntryTotal(q) \in Nat /\ OrphanTotal(q) \in Nat /\ UnknownTotal(q) \in Nat
  <2>1. \A x, y \in Nat : x + y \in Nat
    OBVIOUS
  <2>2. BytesTotal(q) \in Nat /\ EntryTotal(q) \in Nat
    BY <1>2, <1>3, <2>1
  <2>3. OrphanTotal(q) \in Nat /\ UnknownTotal(q) \in Nat
    BY <1>2, <1>3, <2>1
  <2> QED
    BY <2>2, <2>3
<1>16. TotalsOK(M, B, n, q)
  BY <1>7, <1>12, <1>13, <1>14, <1>15 DEF TotalsOK
<1> QED
  BY <1>16 DEF q

(* The scan of a directory has ended with its result.                        *)
LEMMA EndedOK ==
  ASSUME NEW M, NEW P, NEW B, NEW n, NEW d, NEW t, ScanOK(M, P, B, n, d, t), t.st = "ok"
  PROVE  /\ EndResult(M, B, n, d, t.res)
         /\ ResultOK(M, P, B, d, t.res)
<1>1. t.todo = {} => Settled(B, d, t.todo) = Keys({d})
  BY DEF Settled
<1>2. n = 0 \/ ~t.res.fill_id_incomplete => t.todo = {}
  BY DEF ScanOK
<1>3. FillOK(M, Keys({d}), t.res)
  BY <1>1, <1>2 DEF ScanOK, FillOK
<1>4. ~t.res.saw_cache_files /\ ~t.res.fill_id_incomplete => FilesIn(M, P, B, d) = {}
  BY <1>2 DEF ScanOK
<1> QED
  <2>1. Settled(B, d, t.todo) \in SUBSET Keys({d})
    BY SettledSet
  <2> QED
    BY <1>1, <1>2, <1>3, <1>4, <2>1 DEF ScanOK, ResultOK, EndResult

LEMMA join_nextInv ==
  ASSUME ScanInv, NEW d \in Dirs, join_next(d)
  PROVE  ScanInv'
<1> DEFINE t == scan_task[d]
<1>1. /\ ScanTypes /\ WalkOK /\ PumpOK /\ scan_pc = "pump" /\ t.st = "ok" /\ t \in TaskScans
      /\ results' = Append(results, <<d, t.res>>) /\ scan_task \in [Dirs -> TaskScans]
      /\ UNCHANGED <<disk, scan_mode, scan_pc, walk, dirs, incomplete, scan, reported, scan_faults>>
      /\ ResultsOK /\ ScanOK(metas, markers, bodies, scan_faults, d, t)
  BY DEF ScanInv, ScanTypes, PumpOK, join_next
<1>2. /\ metas' = metas /\ markers' = markers /\ bodies' = bodies /\ scan_faults' = scan_faults
      /\ kind1' = kind1 /\ kind2' = kind2 /\ dirs' = dirs
  BY <1>1 DEF disk
<1>3. HashDirs' = HashDirs
  BY <1>2 DEF HashDirs, IsHashDir
<1>4. d \in InFlight /\ d \notin Finished(results) /\ d \notin pending
  BY <1>1 DEF PumpOK, InFlight
<1>5. t.res \in StatsRecs /\ scan_faults \in Nat
  <2>1. scan_faults \in 0 .. MaxScanFaults
    BY <1>1 DEF ScanTypes
  <2> QED
    BY <1>1, <2>1, PumpAssumption DEF TaskScans
<1> HIDE DEF t
<1>6. /\ ResultsOK' /\ Finished(results') = Finished(results) \cup {d}
  <2>1. /\ EndResult(metas, bodies, scan_faults, d, t.res)
        /\ ResultOK(metas, markers, bodies, d, t.res)
    BY <1>1, EndedOK
  <2>3. results \in Seq(Dirs \X StatsRecs) /\ TotalsOK(metas, bodies, scan_faults, results)
    BY <1>1 DEF ResultsOK
  <2>4. /\ TotalsOK(metas, bodies, scan_faults, results')
        /\ Finished(results') = Finished(results) \cup {d}
    <3> DEFINE r == t.res
    <3>1. EndResult(metas, bodies, scan_faults, d, r) /\ r \in StatsRecs /\ results' = Append(results, <<d, r>>)
      BY <1>1, <1>5, <2>1
    <3> HIDE DEF r
    <3>2. TotalsOK(metas, bodies, scan_faults, Append(results, <<d, r>>))
      BY <1>4, <1>5, <2>3, <3>1, TotalsJoin
    <3>3. Finished(Append(results, <<d, r>>)) = Finished(results) \cup {d}
      BY <2>3, <3>1, FinishedJoin
    <3> QED
      BY <3>1, <3>2, <3>3
  <2>5. /\ results' \in Seq(Dirs \X StatsRecs)
        /\ DOMAIN results' = DOMAIN results \cup {Len(results) + 1}
        /\ results'[Len(results) + 1] = <<d, t.res>>
        /\ \A i \in DOMAIN results : results'[i] = results[i]
    BY <1>1, <1>5, <2>3
  <2>6. results'[Len(results) + 1][1] = d /\ results'[Len(results) + 1][2] = t.res
    BY <2>5
  <2>7. ASSUME NEW i \in DOMAIN results', NEW j \in DOMAIN results', results'[i][1] = results'[j][1]
        PROVE  i = j
    <3>1. \A k \in DOMAIN results : results[k][1] # d
      BY <1>4 DEF Finished
    <3> QED
      BY <1>1, <2>5, <2>6, <2>7, <3>1 DEF ResultsOK
  <2>8. ASSUME NEW i \in DOMAIN results'
        PROVE  ResultOK(metas, markers, bodies, results'[i][1], results'[i][2])
    <3>1. CASE i \in DOMAIN results
      BY <1>1, <2>5, <3>1 DEF ResultsOK
    <3>2. CASE i = Len(results) + 1
      BY <2>1, <2>6, <3>2
    <3> QED
      BY <2>5, <3>1, <3>2
  <2>9. ResultsOK'
    BY <1>2, <2>4, <2>5, <2>7, <2>8 DEF ResultsOK
  <2> QED
    BY <2>4, <2>9
<1>7. Started.st = "open" /\ NoScan.st = "none"
  BY DEF Started, NoScan
<1>8. /\ IsFiniteSet(InFlight \ {d}) /\ Cardinality(InFlight \ {d}) = Cardinality(InFlight) - 1
      /\ Cardinality(InFlight) \in Nat
  BY <1>4, FlightFinite, FS_RemoveElement
<1>9. /\ scan_task' \in [Dirs -> TaskScans] /\ pending' \subseteq pending
      /\ \A e \in Dirs : scan_task'[e] \in {scan_task[e], Started, NoScan}
      /\ InFlight' \cup pending' = (InFlight \cup pending) \ {d}
      /\ InFlight' \cap pending' = {} /\ (pending' # {} => InFlight' # {})
      /\ Cardinality(InFlight') <= Cap
  <2>1. CASE pending = {}
    <3>1. scan_task' = [scan_task EXCEPT ![d] = NoScan] /\ pending' = pending
      BY <2>1 DEF join_next
    <3>2. scan_task' \in [Dirs -> TaskScans] /\ \A e \in Dirs : scan_task'[e] = IF e = d THEN NoScan ELSE scan_task[e]
      BY <1>1, <3>1, NoStatsType
    <3>3. InFlight' = InFlight \ {d}
      BY <1>7, <3>2 DEF InFlight
    <3>4. Cardinality(InFlight') <= Cap
      BY <1>1, <1>8, <3>3, PumpAssumption DEF PumpOK
    <3> QED
      BY <2>1, <3>1, <3>2, <3>3, <3>4
  <2>2. CASE pending # {}
    <3>1. PICK e \in pending : /\ pending' = pending \ {e}
                               /\ scan_task' = [scan_task EXCEPT ![d] = NoScan, ![e] = Started]
      BY <2>2 DEF join_next
    <3>2. e \in Dirs /\ e # d /\ e \notin InFlight
      BY <1>1, <1>4 DEF PumpOK, ScanTypes, HashDirs
    <3>3. /\ scan_task' \in [Dirs -> TaskScans]
          /\ \A x \in Dirs : scan_task'[x] = IF x = e THEN Started ELSE IF x = d THEN NoScan ELSE scan_task[x]
      BY <1>1, <3>1, <3>2, NoStatsType
    <3>4. InFlight' = (InFlight \ {d}) \cup {e}
      BY <1>7, <3>2, <3>3 DEF InFlight
    <3>5. Cardinality((InFlight \ {d}) \cup {e}) = Cardinality(InFlight \ {d}) + 1
      BY <1>8, <3>2, FS_AddElement
    <3>6. Cardinality(InFlight') <= Cap
      BY <1>1, <1>8, <3>4, <3>5, PumpAssumption DEF PumpOK
    <3>7. InFlight \cap pending = {}
      BY <1>1 DEF PumpOK
    <3> QED
      BY <1>4, <3>1, <3>2, <3>3, <3>4, <3>6, <3>7
  <2> QED
    BY <2>1, <2>2
<1>10. ScanTypes'
  BY <1>1, <1>2, <1>3, <1>9 DEF ScanTypes
<1>11. WalkOK'
  BY <1>1, <1>2, <1>3 DEF WalkOK
<1>12. ASSUME NEW e \in Dirs
       PROVE  ScanOK(metas, markers, bodies, scan_faults, e, scan_task'[e])
  <2>1. ScanOK(metas, markers, bodies, scan_faults, e, scan_task[e])
    BY <1>1 DEF PumpOK
  <2> QED
    BY <1>9, <2>1, IdleOK
<1>13. /\ InFlight' \subseteq dirs
       /\ Finished(results') \cap InFlight' = {} /\ Finished(results') \cap pending' = {}
       /\ Finished(results') \cup InFlight' \cup pending' = dirs
  BY <1>1, <1>4, <1>6, <1>9 DEF PumpOK
<1>14. PumpOK'
  BY <1>1, <1>2, <1>6, <1>9, <1>12, <1>13 DEF PumpOK
<1>15. DoneOK'
  BY <1>1, NotDone
<1> QED
  BY <1>10, <1>11, <1>14, <1>15 DEF ScanInv

LEMMA JoinFailsInv ==
  ASSUME ScanInv, NEW d \in Dirs, JoinFails(d)
  PROVE  ScanInv'
<1>1. /\ ScanTypes /\ WalkOK /\ scan_pc' = "failed" /\ scan_task' = [e \in Dirs |-> NoScan]
      /\ reported' = IF scan_mode = "BestEffort" THEN "join" ELSE reported
      /\ UNCHANGED <<disk, scan_mode, walk, dirs, incomplete, pending, results, scan, scan_faults>>
  BY DEF ScanInv, JoinFails
<1>2. InFlight' = {}
  <2>1. NoScan.st = "none"
    BY DEF NoScan
  <2> QED
    BY <1>1, <2>1 DEF InFlight
<1>3. HashDirs' = HashDirs
  BY <1>1 DEF HashDirs, IsHashDir, disk
<1>4. ScanTypes'
  BY <1>1, <1>3, NoStatsType DEF ScanTypes, disk
<1>5. WalkOK'
  BY <1>1, <1>3 DEF WalkOK, disk
<1>6. Cardinality(InFlight') <= Cap
  BY <1>2, FS_EmptySet, PumpAssumption
<1>7. PumpOK' /\ DoneOK'
  BY <1>1, <1>2, <1>6, NotDone DEF PumpOK
<1> QED
  BY <1>4, <1>5, <1>7 DEF ScanInv

-----------------------------------------------------------------------------
(* The end of the pump.                                                      *)

(* A set of numbers has the maximum of one above it that it bounds.          *)
LEMMA SameMax ==
  ASSUME NEW A \in SUBSET Nat, NEW B \in SUBSET Nat, A \subseteq B,
         \A b \in B : \E a \in A : b <= a
  PROVE  Max(A) = Max(B)
<1>1. \A x : (x \in A /\ \A y \in A : x >= y) <=> (x \in B /\ \A y \in B : x >= y)
  <2> TAKE x
  <2>1. ASSUME x \in A, \A y \in A : x >= y PROVE x \in B /\ \A y \in B : x >= y
    BY <2>1
  <2>2. ASSUME x \in B, \A y \in B : x >= y PROVE x \in A /\ \A y \in A : x >= y
    <3>1. PICK a \in A : x <= a
      BY <2>2
    <3>2. x >= a /\ a \in Nat /\ x \in Nat
      BY <2>2
    <3>3. x = a
      BY <3>1, <3>2
    <3> QED
      BY <2>2, <3>3
  <2> QED
    BY <2>1, <2>2
<1>2. (CHOOSE x \in A : \A y \in A : x >= y) = (CHOOSE x \in B : \A y \in B : x >= y)
  BY <1>1, Zenon
<1> QED
  BY <1>2 DEF Max

(* The sum of the results, with what the walk says.                          *)
LEMMA AggregateFields ==
  /\ Aggregate.total_bytes = BytesTotal(results) /\ Aggregate.entry_count = EntryTotal(results)
  /\ Aggregate.unreclaimed_bytes = OrphanTotal(results) /\ Aggregate.size_unknown = UnknownTotal(results)
  /\ Aggregate.max_fill_id = Max({0} \cup {results[i][2].max_fill_id : i \in DOMAIN results})
  /\ ~Aggregate.fill_id_incomplete =>
       ~incomplete /\ \A i \in DOMAIN results : ~results[i][2].fill_id_incomplete
  /\ ~Aggregate.saw_cache_files => \A i \in DOMAIN results : ~results[i][2].saw_cache_files
<1>1. /\ Aggregate.total_bytes = BytesTotal(results) /\ Aggregate.entry_count = EntryTotal(results)
      /\ Aggregate.unreclaimed_bytes = OrphanTotal(results) /\ Aggregate.size_unknown = UnknownTotal(results)
  BY DEF Aggregate, AggregateDirsOnly, BytesTotal, EntryTotal, OrphanTotal, UnknownTotal
<1>2. Aggregate.max_fill_id = Max({0} \cup {results[i][2].max_fill_id : i \in DOMAIN results})
  BY DEF Aggregate, AggregateDirsOnly
<1>3. ~Aggregate.fill_id_incomplete =>
        ~incomplete /\ \A i \in DOMAIN results : ~results[i][2].fill_id_incomplete
  BY DEF Aggregate, AggregateDirsOnly
<1>4. ~Aggregate.saw_cache_files => \A i \in DOMAIN results : ~results[i][2].saw_cache_files
  BY DEF Aggregate, AggregateDirsOnly
<1> QED
  BY <1>1, <1>2, <1>3, <1>4

LEMMA ScopeKeys ==
  /\ InScope = Keys(HashDirs) /\ DiskBytes = Weight(metas, bodies, InScope)
  /\ Cardinality({k \in bodies \cap InScope : metas[k] # Absent}) = Count(bodies \cap MetaKeys(metas), InScope)
  /\ Cardinality({k \in bodies \cap InScope : metas[k] = Absent}) = Count(bodies \ MetaKeys(metas), InScope)
<1>1. InScope \subseteq AllKeys /\ InScope = Keys(HashDirs)
  BY DEF InScope, Keys, AllKeys, HashDirs
<1>2. {k \in InScope : metas[k] # Absent} = MetaKeys(metas) \cap InScope
  BY <1>1 DEF MetaKeys
<1>3. /\ {k \in bodies \cap InScope : metas[k] # Absent} = (bodies \cap MetaKeys(metas)) \cap InScope
      /\ {k \in bodies \cap InScope : metas[k] = Absent} = (bodies \ MetaKeys(metas)) \cap InScope
  BY <1>1 DEF MetaKeys
<1> QED
  BY <1>1, <1>2, <1>3 DEF DiskBytes, Weight, Count

(* The results of a finished pump, summed up.                                *)
LEMMA SumsOK ==
  ASSUME ScanTypes, WalkOK, ResultsOK, scan_pc = "pump", Finished(results) = dirs
  PROVE  /\ BytesTotal(results) <= DiskBytes
         /\ scan_faults = 0 =>
              /\ BytesTotal(results) = DiskBytes
              /\ EntryTotal(results) = Cardinality({k \in bodies \cap InScope : metas[k] # Absent})
         /\ ~incomplete /\ (\A i \in DOMAIN results : ~results[i][2].fill_id_incomplete) /\ UnknownTotal(results) = 0 =>
              OrphanTotal(results) = BodySize * Cardinality({k \in bodies \cap InScope : metas[k] = Absent})
         /\ BytesTotal(results) \in Nat /\ UnknownTotal(results) \in Nat
<1>1. /\ Keys(dirs) \in SUBSET AllKeys /\ InScope \in SUBSET AllKeys /\ Keys(dirs) \subseteq InScope
      /\ ~incomplete => Keys(dirs) = InScope
  <2>1. dirs \subseteq HashDirs /\ (~incomplete => dirs = HashDirs)
    BY DEF ScanTypes, WalkOK
  <2> QED
    BY <2>1, ScopeKeys DEF Keys
<1>2. /\ Weight(metas, bodies, Keys(dirs)) <= Weight(metas, bodies, InScope)
      /\ Weight(metas, bodies, Keys(dirs)) \in Nat /\ Weight(metas, bodies, InScope) \in Nat
  BY <1>1, WeightMono
<1>3. TotalsOK(metas, bodies, scan_faults, results)
  BY DEF ResultsOK
<1>4. BytesTotal(results) \in Nat /\ BytesTotal(results) <= Weight(metas, bodies, Keys(dirs)) /\ UnknownTotal(results) \in Nat
  BY <1>3 DEF TotalsOK
<1>5. BytesTotal(results) <= DiskBytes
  BY <1>2, <1>4, ScopeKeys
<1>6. ASSUME scan_faults = 0
      PROVE  /\ BytesTotal(results) = DiskBytes
             /\ EntryTotal(results) = Cardinality({k \in bodies \cap InScope : metas[k] # Absent})
  <2>1. ~incomplete
    BY <1>6 DEF WalkOK
  <2> QED
    BY <1>1, <1>3, <1>6, <2>1, ScopeKeys DEF TotalsOK
<1>7. ASSUME ~incomplete, \A i \in DOMAIN results : ~results[i][2].fill_id_incomplete, UnknownTotal(results) = 0
      PROVE  OrphanTotal(results) = BodySize * Cardinality({k \in bodies \cap InScope : metas[k] = Absent})
  BY <1>1, <1>3, <1>7, ScopeKeys DEF TotalsOK
<1> QED
  BY <1>4, <1>5, <1>6, <1>7

(* The results of a complete scan know every fill_id on disk.                *)
LEMMA FillsOK ==
  ASSUME ScanTypes, WalkOK, ResultsOK, scan_pc = "pump", Finished(results) = dirs,
         ~incomplete, \A i \in DOMAIN results : ~results[i][2].fill_id_incomplete
  PROVE  /\ \A k \in InScope : metas[k] # Corrupt
         /\ Max({0} \cup {results[i][2].max_fill_id : i \in DOMAIN results})
              = Max({0} \cup {metas[k] : k \in {k \in InScope : metas[k] # Absent}})
         /\ (\A i \in DOMAIN results : ~results[i][2].saw_cache_files) => \A d \in HashDirs : Files(d) = {}
<1>1. dirs = HashDirs
  BY DEF WalkOK
<1>2. \A i \in DOMAIN results : results[i][1] \in HashDirs /\ results[i][1] \in Dirs /\ results[i][2].max_fill_id \in Nat
                                /\ ResultOK(metas, markers, bodies, results[i][1], results[i][2])
  <2> TAKE i \in DOMAIN results
  <2>1. results[i] \in Dirs \X StatsRecs
    BY DEF ResultsOK
  <2>2. results[i][1] \in Dirs /\ results[i][2] \in StatsRecs
    BY <2>1
  <2>3. results[i][2].max_fill_id \in Nat
    BY <2>2, NatFields
  <2> QED
    BY <1>1, <2>2, <2>3 DEF ResultsOK, Finished
<1>3. ASSUME NEW k \in InScope, metas[k] # Absent
      PROVE  metas[k] \in Nat /\ \E i \in DOMAIN results : metas[k] <= results[i][2].max_fill_id
  <2>1. k \in AllKeys /\ k[1] \in HashDirs
    BY ScopeKeys DEF Keys
  <2>2. PICK i \in DOMAIN results : results[i][1] = k[1]
    BY <1>1, <2>1 DEF Finished
  <2>3. k \in Keys({results[i][1]}) \cap MetaKeys(metas)
    BY <1>3, <2>1, <2>2 DEF Keys, MetaKeys
  <2>4. FillOK(metas, Keys({results[i][1]}), results[i][2])
    BY <1>2 DEF ResultOK
  <2> QED
    BY <2>3, <2>4 DEF FillOK
<1>4. \A k \in InScope : metas[k] # Corrupt
  BY <1>3, FileAssumption
<1> DEFINE A == {0} \cup {results[i][2].max_fill_id : i \in DOMAIN results}
           B == {0} \cup {metas[k] : k \in {k \in InScope : metas[k] # Absent}}
<1>5. A \in SUBSET Nat
  BY <1>2
<1>6. B \in SUBSET Nat
  BY <1>3
<1>7. A \subseteq B
  <2>1. ASSUME NEW i \in DOMAIN results
        PROVE  results[i][2].max_fill_id \in B
    <3>1. MaxOK(metas, results[i][1], results[i][2])
      BY <1>2 DEF ResultOK
    <3>2. ASSUME NEW k \in Keys({results[i][1]}), metas[k] = results[i][2].max_fill_id
          PROVE  metas[k] \in B
      <4>1. k \in InScope
        BY <1>2, ScopeKeys DEF Keys
      <4>2. metas[k] # Absent
        BY <1>2, <3>2, FileAssumption
      <4> QED
        BY <4>1, <4>2
    <3> HIDE DEF B
    <3>3. 0 \in B
      BY DEF B
    <3> QED
      BY <3>1, <3>2, <3>3 DEF MaxOK
  <2> QED
    BY <2>1
<1>8. \A b \in B : \E a \in A : b <= a
  <2>1. 0 \in A /\ 0 <= 0
    OBVIOUS
  <2>2. ASSUME NEW k \in InScope, metas[k] # Absent
        PROVE  \E a \in A : metas[k] <= a
    BY <1>3, <2>2
  <2> HIDE DEF A
  <2> QED
    BY <2>1, <2>2
<1> HIDE DEF A, B
<1>9. Max(A) = Max(B)
  BY <1>5, <1>6, <1>7, <1>8, SameMax
<1>10. ASSUME \A i \in DOMAIN results : ~results[i][2].saw_cache_files, NEW d \in HashDirs
       PROVE  Files(d) = {}
  <2>1. PICK i \in DOMAIN results : results[i][1] = d
    BY <1>1 DEF Finished
  <2>2. FilesIn(metas, markers, bodies, d) = {}
    BY <1>2, <1>10, <2>1 DEF ResultOK
  <2>3. Files(d) = FilesIn(metas, markers, bodies, d)
    BY DEF Files, FilesIn
  <2> QED
    BY <2>2, <2>3
<1> QED
  BY <1>4, <1>9, <1>10 DEF A, B

LEMMA FinishPumpInv ==
  ASSUME ScanInv, FinishPump
  PROVE  ScanInv'
<1>1. /\ ScanTypes /\ WalkOK /\ PumpOK /\ scan_pc = "pump" /\ InFlight = {} /\ ResultsOK
      /\ scan_pc' = "done" /\ scan' = Aggregate
      /\ reported' = IF incomplete \/ scan'.fill_id_incomplete \/ scan'.size_unknown > 0
                     THEN "incomplete" ELSE "complete"
      /\ UNCHANGED <<disk, scan_mode, walk, dirs, incomplete, pending, scan_task, results, scan_faults>>
  BY DEF ScanInv, FinishPump, PumpOK
<1>2. Finished(results) = dirs
  BY <1>1 DEF PumpOK
<1>3. /\ HashDirs' = HashDirs /\ InScope' = InScope /\ InFlight' = InFlight /\ DiskBytes' = DiskBytes
      /\ \A d : Files(d)' = Files(d)
  BY <1>1 DEF HashDirs, InScope, IsHashDir, InFlight, DiskBytes, Files, disk
<1>4. ScanTypes'
  BY <1>1, <1>3 DEF ScanTypes, disk
<1>5. WalkOK'
  BY <1>1, <1>3 DEF WalkOK, disk
<1>6. PumpOK'
  BY <1>1, <1>3 DEF PumpOK
<1>7. /\ scan'.total_bytes = BytesTotal(results) /\ scan'.entry_count = EntryTotal(results)
      /\ scan'.unreclaimed_bytes = OrphanTotal(results) /\ scan'.size_unknown = UnknownTotal(results)
      /\ scan'.max_fill_id = Max({0} \cup {results[i][2].max_fill_id : i \in DOMAIN results})
      /\ ~scan'.fill_id_incomplete =>
           ~incomplete /\ \A i \in DOMAIN results : ~results[i][2].fill_id_incomplete
      /\ ~scan'.saw_cache_files => \A i \in DOMAIN results : ~results[i][2].saw_cache_files
  <2> HIDE DEF Aggregate
  <2> QED
    BY <1>1, AggregateFields
<1>8. FillIdSound'
  <2>1. ASSUME ~scan'.fill_id_incomplete
        PROVE  /\ \A k \in InScope : metas[k] # Corrupt
               /\ scan'.max_fill_id = Max({0} \cup {metas[k] : k \in {k \in InScope : metas[k] # Absent}})
               /\ ~scan'.saw_cache_files => \A d \in HashDirs : Files(d) = {}
    <3>1. ~incomplete /\ \A i \in DOMAIN results : ~results[i][2].fill_id_incomplete
      BY <1>7, <2>1
    <3>2. /\ \A k \in InScope : metas[k] # Corrupt
          /\ Max({0} \cup {results[i][2].max_fill_id : i \in DOMAIN results})
               = Max({0} \cup {metas[k] : k \in {k \in InScope : metas[k] # Absent}})
          /\ (\A i \in DOMAIN results : ~results[i][2].saw_cache_files) => \A d \in HashDirs : Files(d) = {}
      BY <1>1, <1>2, <3>1, FillsOK
    <3> QED
      BY <1>7, <3>2
  <2>2. metas' = metas
    BY <1>1 DEF disk
  <2> QED
    BY <1>3, <2>1, <2>2 DEF FillIdSound
<1>9. /\ BytesTotal(results) <= DiskBytes
      /\ scan_faults = 0 =>
           /\ BytesTotal(results) = DiskBytes
           /\ EntryTotal(results) = Cardinality({k \in bodies \cap InScope : metas[k] # Absent})
      /\ ~incomplete /\ (\A i \in DOMAIN results : ~results[i][2].fill_id_incomplete) /\ UnknownTotal(results) = 0 =>
           OrphanTotal(results) = BodySize * Cardinality({k \in bodies \cap InScope : metas[k] = Absent})
      /\ UnknownTotal(results) \in Nat
  BY <1>1, <1>2, SumsOK
<1>10. BytesSound'
  <2>1. metas' = metas /\ bodies' = bodies /\ scan_faults' = scan_faults
    BY <1>1 DEF disk
  <2> QED
    BY <1>3, <1>7, <1>9, <2>1 DEF BytesSound
<1>11. OrphansAccounted'
  <2>1. metas' = metas /\ bodies' = bodies
    BY <1>1 DEF disk
  <2>2. ASSUME reported' = "complete"
        PROVE  scan'.unreclaimed_bytes = BodySize * Cardinality({k \in bodies \cap InScope : metas[k] = Absent})
    <3>1. ~incomplete /\ ~scan'.fill_id_incomplete /\ ~(scan'.size_unknown > 0)
      BY <1>1, <2>2
    <3>2. UnknownTotal(results) = 0
      BY <1>7, <1>9, <3>1
    <3> QED
      BY <1>7, <1>9, <3>1, <3>2
  <2> QED
    BY <1>3, <2>1, <2>2 DEF OrphansAccounted
<1>12. PumpExact'
  <2> DEFINE f == [i \in 1 .. Len(results) |-> results[i][1]]
  <2>1. Len(results) \in Nat /\ DOMAIN results = 1 .. Len(results)
    BY <1>1 DEF ResultsOK
  <2>2. f \in Injection(1 .. Len(results), dirs)
    <3>1. \A i, j \in 1 .. Len(results) : results[i][1] = results[j][1] => i = j
      BY <1>1, <2>1 DEF ResultsOK
    <3>2. f \in [1 .. Len(results) -> dirs]
      BY <1>2, <2>1 DEF Finished
    <3> QED
      BY <3>1, <3>2 DEF Injection, IsInjective
  <2>3. f \in Surjection(1 .. Len(results), dirs)
    BY <1>2, <2>1, <2>2 DEF Injection, Surjection, Finished
  <2>4. ExistsBijection(1 .. Len(results), dirs)
    BY <2>2, <2>3 DEF ExistsBijection, Bijection
  <2>5. Cardinality(dirs) = Len(results)
    BY <2>1, <2>4, FS_CountingElements
  <2>6. Cardinality(InFlight') <= Cap
    BY <1>6 DEF PumpOK
  <2>7. results' = results /\ dirs' = dirs
    BY <1>1
  <2> QED
    BY <1>2, <2>5, <2>6, <2>7 DEF PumpExact, Finished
<1>13. DoneOK'
  BY <1>8, <1>10, <1>11, <1>12 DEF DoneOK
<1> QED
  BY <1>4, <1>5, <1>6, <1>13 DEF ScanInv

-----------------------------------------------------------------------------
(* The steps of the walk.                                                    *)

WalkRecs == [todo : SUBSET Firsts, prefix : Firsts \cup {Absent}, seconds : SUBSET Seconds]

LEMMA WalkStepInv ==
  ASSUME ScanInv, scan_pc \in {"read_objects", "walk"}, scan_pc' \in {"walk", "failed"},
         UNCHANGED <<disk, scan_mode, pending, scan_task, results, scan, reported>>,
         scan_faults' \in 0 .. MaxScanFaults, walk' \in WalkRecs, incomplete' \in BOOLEAN,
         dirs \subseteq dirs', dirs' \subseteq HashDirs, WalkOK'
  PROVE  ScanInv'
<1>1. HashDirs' = HashDirs /\ InFlight' = InFlight
  BY DEF HashDirs, IsHashDir, InFlight, disk
<1>2. ScanTypes'
  BY <1>1 DEF ScanInv, ScanTypes, WalkRecs, disk
<1>3. PumpOK'
  BY <1>1 DEF ScanInv, PumpOK
<1>4. DoneOK'
  BY NotDone
<1> QED
  BY <1>2, <1>3, <1>4 DEF ScanInv

LEMMA WalkErrorInv ==
  ASSUME ScanInv, Walking, MayFail(1), NEW w \in WalkRecs, w.prefix \in {Absent, walk.prefix},
         handle_walk_error(w), UNCHANGED dirs
  PROVE  ScanInv'
<1>1. /\ ScanTypes /\ WalkOK /\ scan_pc = "walk" /\ scan_faults \in 0 .. MaxScanFaults
      /\ walk \in WalkRecs /\ incomplete \in BOOLEAN /\ dirs \subseteq HashDirs
      /\ UNCHANGED <<disk, scan_mode, pending, scan_task, results, scan, reported>>
  BY DEF ScanInv, ScanTypes, Walking, WalkRecs
<1>2. scan_faults' \in 0 .. MaxScanFaults /\ scan_faults' # 0
  BY <1>1, PumpAssumption DEF MayFail
<1>3. HashDirs' = HashDirs /\ kind1' = kind1 /\ kind2' = kind2
  BY <1>1 DEF HashDirs, IsHashDir, disk
<1>4. CASE scan_mode = "Strict"
  <2>1. scan_pc' = "failed" /\ walk' = walk /\ incomplete' = incomplete
    BY <1>4 DEF handle_walk_error
  <2>2. WalkOK'
    BY <1>1, <1>2, <1>3, <1>4, <2>1 DEF WalkOK
  <2> QED
    BY <1>1, <1>2, <2>1, <2>2, WalkStepInv
<1>5. CASE scan_mode # "Strict"
  <2>1. scan_pc' = "walk" /\ walk' = w /\ incomplete' = TRUE
    BY <1>1, <1>5 DEF handle_walk_error
  <2>2. WalkOK'
    BY <1>1, <1>2, <1>3, <1>5, <2>1 DEF WalkOK
  <2> QED
    BY <1>1, <1>2, <2>1, <2>2, WalkStepInv
<1> QED
  BY <1>4, <1>5

LEMMA read_objectsInv ==
  ASSUME ScanInv, NEW ok \in BOOLEAN, read_objects(ok)
  PROVE  ScanInv'
<1>1. /\ ScanTypes /\ WalkOK /\ scan_pc = "read_objects" /\ scan_faults \in 0 .. MaxScanFaults
      /\ walk \in WalkRecs /\ incomplete \in BOOLEAN /\ dirs \subseteq HashDirs /\ dirs' = dirs
      /\ UNCHANGED <<disk, scan_mode, pending, scan_task, results, scan, reported>>
      /\ walk.prefix = Absent /\ dirs = {} /\ ~incomplete
  BY DEF ScanInv, ScanTypes, read_objects, WalkRecs, WalkOK
<1>2. HashDirs' = HashDirs /\ kind1' = kind1 /\ kind2' = kind2
  BY <1>1 DEF HashDirs, IsHashDir, disk
<1>3. CASE ok
  <2>1. walk' = [walk EXCEPT !.todo = Firsts] /\ scan_pc' = "walk" /\ incomplete' = incomplete /\ MayFail(0)
    BY <1>3 DEF read_objects
  <2>2. walk' \in WalkRecs /\ walk'.todo = Firsts /\ walk'.prefix = Absent
    BY <1>1, <2>1 DEF WalkRecs
  <2>3. scan_faults' \in 0 .. MaxScanFaults
    BY <1>1, <2>1 DEF MayFail
  <2>4. WalkOK'
    <3>1. \A d \in HashDirs : d[1] \in Firsts
      BY DEF HashDirs, Dirs
    <3> QED
      BY <1>1, <1>2, <2>1, <2>2, <3>1 DEF WalkOK
  <2> QED
    BY <1>1, <2>1, <2>2, <2>3, <2>4, WalkStepInv
<1>4. CASE ~ok
  <2>1. /\ scan_pc' = IF scan_mode = "Strict" THEN "failed" ELSE "walk"
        /\ incomplete' = (scan_mode # "Strict") /\ walk' = walk /\ MayFail(1)
    BY <1>4 DEF read_objects
  <2>2. scan_faults' \in 0 .. MaxScanFaults /\ scan_faults' # 0
    BY <1>1, <2>1, PumpAssumption DEF MayFail
  <2>3. incomplete' \in BOOLEAN /\ (scan_mode = "Strict" <=> ~incomplete')
    BY <2>1
  <2>4. WalkOK'
    BY <1>1, <1>2, <2>1, <2>2, <2>3 DEF WalkOK
  <2> QED
    BY <1>1, <2>1, <2>2, <2>3, <2>4, WalkStepInv
<1> QED
  BY <1>3, <1>4

(* The walk goes on without a failure.                                       *)
LEMMA WalkOnInv ==
  ASSUME ScanInv, Walking, UNCHANGED <<scan_pc, incomplete>>, scan_faults' = scan_faults,
         walk' \in WalkRecs, dirs \subseteq dirs', dirs' \subseteq HashDirs,
         walk'.prefix # Absent => kind1[walk'.prefix] = "dir",
         \A d \in HashDirs : \/ d \in dirs \/ d[1] \in walk.todo
                             \/ d[1] = walk.prefix /\ d[2] \in walk.seconds
                             => \/ d \in dirs' \/ d[1] \in walk'.todo
                                \/ d[1] = walk'.prefix /\ d[2] \in walk'.seconds
  PROVE  ScanInv'
<1>1. /\ ScanTypes /\ WalkOK /\ scan_pc = "walk" /\ scan_faults' \in 0 .. MaxScanFaults
      /\ incomplete' \in BOOLEAN /\ scan_pc' = "walk" /\ incomplete' = incomplete
      /\ UNCHANGED <<disk, scan_mode, pending, scan_task, results, scan, reported>>
  BY DEF ScanInv, ScanTypes, Walking
<1>2. HashDirs' = HashDirs /\ kind1' = kind1 /\ kind2' = kind2
  BY <1>1 DEF HashDirs, IsHashDir, disk
<1>3. WalkOK'
  BY <1>1, <1>2 DEF WalkOK
<1> QED
  BY <1>1, <1>3, WalkStepInv

LEMMA NextPrefixInv ==
  ASSUME ScanInv, NEW p \in Firsts, NEW f \in {"none", "file_type", "read_dir"}, NextPrefix(p, f)
  PROVE  ScanInv'
<1> DEFINE rest == [walk EXCEPT !.todo = walk.todo \ {p}]
<1>1. /\ ScanTypes /\ WalkOK /\ Walking /\ walk \in WalkRecs /\ walk.prefix = Absent /\ p \in walk.todo
      /\ dirs' = dirs /\ dirs \subseteq HashDirs /\ kind1[p] \in {"dir", "file", "odd"}
      /\ scan_faults \in 0 .. MaxScanFaults
  BY DirAssumption DEF ScanInv, ScanTypes, NextPrefix, WalkRecs
<1>2. /\ rest \in WalkRecs /\ rest.todo = walk.todo \ {p} /\ rest.prefix = Absent
      /\ rest.seconds = walk.seconds
  BY <1>1 DEF WalkRecs
<1>3. CASE kind1[p] = "odd" \/ (kind1[p] = "file" /\ f # "file_type")
  <2>1. MayFail(0) /\ walk' = rest /\ UNCHANGED <<scan_pc, incomplete>>
    BY <1>3 DEF NextPrefix
  <2>2. scan_faults' = scan_faults
    BY <1>1, <2>1 DEF MayFail
  <2>3. \A d \in HashDirs : d[1] # p
    BY <1>3 DEF HashDirs, IsHashDir
  <2> HIDE DEF rest
  <2> QED
    BY <1>1, <1>2, <2>1, <2>2, <2>3, WalkOnInv
<1>4. CASE ~(kind1[p] = "odd" \/ (kind1[p] = "file" /\ f # "file_type")) /\ f # "none"
  <2>1. MayFail(1) /\ handle_walk_error(rest)
    BY <1>4 DEF NextPrefix
  <2> HIDE DEF rest
  <2> QED
    BY <1>1, <1>2, <2>1, WalkErrorInv
<1>5. CASE ~(kind1[p] = "odd" \/ (kind1[p] = "file" /\ f # "file_type")) /\ f = "none"
  <2>1. MayFail(0) /\ walk' = [rest EXCEPT !.prefix = p, !.seconds = Seconds] /\ UNCHANGED <<scan_pc, incomplete>>
    BY <1>5 DEF NextPrefix
  <2>2. kind1[p] = "dir"
    BY <1>1, <1>5
  <2>3. scan_faults' = scan_faults
    BY <1>1, <2>1 DEF MayFail
  <2> HIDE DEF rest
  <2>4. walk' \in WalkRecs /\ walk'.todo = walk.todo \ {p} /\ walk'.prefix = p /\ walk'.seconds = Seconds
    BY <1>2, <2>1 DEF WalkRecs
  <2>5. \A d \in HashDirs : d[1] \in Firsts /\ d[2] \in Seconds
    BY DEF HashDirs, Dirs
  <2> QED
    BY <1>1, <2>1, <2>2, <2>3, <2>4, <2>5, DirAssumption, WalkOnInv
<1> QED
  BY <1>3, <1>4, <1>5

LEMMA NextSecondInv ==
  ASSUME ScanInv, NEW y \in Seconds, NEW f \in {"none", "file_type"}, NextSecond(y, f)
  PROVE  ScanInv'
<1> DEFINE rest == [walk EXCEPT !.seconds = walk.seconds \ {y}]
           d == <<walk.prefix, y>>
<1>1. /\ ScanTypes /\ WalkOK /\ Walking /\ walk \in WalkRecs /\ walk.prefix # Absent /\ y \in walk.seconds
      /\ dirs \subseteq HashDirs /\ kind1[walk.prefix] = "dir" /\ scan_faults \in 0 .. MaxScanFaults
  BY DEF ScanInv, ScanTypes, WalkOK, NextSecond, WalkRecs
<1>2. /\ rest \in WalkRecs /\ rest.seconds = walk.seconds \ {y} /\ rest.prefix = walk.prefix
      /\ rest.todo = walk.todo
  BY <1>1 DEF WalkRecs
<1>3. d \in Dirs /\ d[1] = walk.prefix /\ d[2] = y
  BY <1>1 DEF Dirs, WalkRecs
<1>4. CASE f = "none"
  <2>1. /\ MayFail(0) /\ walk' = rest /\ UNCHANGED <<scan_pc, incomplete>>
        /\ dirs' = IF kind2[d] = "dir" THEN dirs \cup {d} ELSE dirs
    BY <1>4 DEF NextSecond
  <2>2. scan_faults' = scan_faults
    BY <1>1, <2>1 DEF MayFail
  <2>3. dirs \subseteq dirs' /\ dirs' \subseteq HashDirs
    BY <1>1, <1>3, <2>1 DEF HashDirs, IsHashDir
  <2>4. \A e \in HashDirs : e[1] = walk.prefix /\ e[2] = y => e \in dirs'
    <3>1. \A e \in HashDirs : e[1] = walk.prefix /\ e[2] = y => e = d
      BY DEF HashDirs, Dirs
    <3>2. d \in HashDirs => kind2[d] = "dir"
      BY DEF HashDirs, IsHashDir
    <3> HIDE DEF d
    <3> QED
      BY <2>1, <3>1, <3>2
  <2> HIDE DEF rest, d
  <2> QED
    BY <1>1, <1>2, <2>1, <2>2, <2>3, <2>4, WalkOnInv
<1>5. CASE f # "none"
  <2>1. MayFail(1) /\ handle_walk_error(rest) /\ UNCHANGED dirs
    BY <1>5 DEF NextSecond
  <2> HIDE DEF rest
  <2> QED
    BY <1>1, <1>2, <2>1, WalkErrorInv
<1> QED
  BY <1>4, <1>5

LEMMA WalkEndsInv ==
  ASSUME ScanInv, EndPrefix \/ IterateFails
  PROVE  ScanInv'
<1>1. /\ ScanTypes /\ WalkOK /\ Walking /\ walk \in WalkRecs /\ dirs \subseteq HashDirs /\ dirs' = dirs
  BY DEF ScanInv, ScanTypes, EndPrefix, IterateFails, WalkRecs
<1>2. CASE EndPrefix
  <2>1. /\ walk' = [walk EXCEPT !.prefix = Absent] /\ walk.seconds = {}
        /\ UNCHANGED <<scan_pc, incomplete>> /\ scan_faults' = scan_faults
    BY <1>2 DEF EndPrefix
  <2>2. walk' \in WalkRecs /\ walk'.todo = walk.todo /\ walk'.prefix = Absent /\ walk'.seconds = {}
    BY <1>1, <2>1 DEF WalkRecs
  <2> QED
    BY <1>1, <2>1, <2>2, WalkOnInv
<1>3. CASE IterateFails
  <2> DEFINE v == [walk EXCEPT !.todo = {}]
             w == [walk EXCEPT !.seconds = {}, !.prefix = Absent]
  <2>1. MayFail(1) /\ (handle_walk_error(v) \/ handle_walk_error(w))
    BY <1>3 DEF IterateFails
  <2>2. v \in WalkRecs /\ w \in WalkRecs /\ v.prefix = walk.prefix /\ w.prefix = Absent
    BY <1>1 DEF WalkRecs
  <2> HIDE DEF v, w
  <2> QED
    BY <1>1, <2>1, <2>2, WalkErrorInv
<1> QED
  BY <1>2, <1>3

LEMMA ScanInitInv == ScanInit => ScanInv
<1> SUFFICES ASSUME ScanInit PROVE ScanInv
  OBVIOUS
<1>1. InFlight = {}
  <2>1. NoScan.st = "none"
    BY DEF NoScan
  <2> QED
    BY <2>1 DEF InFlight, ScanInit
<1>2. ScanTypes
  <2>1. /\ kind1 \in [Firsts -> EntryKinds] /\ kind2 \in [Dirs -> EntryKinds] /\ scan_mode \in Modes
        /\ metas \in [AllKeys -> Metas \cup {Absent}] /\ bodies \subseteq AllKeys /\ markers \subseteq AllKeys
    BY DEF ScanInit, AllKeys
  <2>2. walk \in WalkRecs /\ scan_task \in [Dirs -> TaskScans]
    BY NoStatsType DEF ScanInit, WalkRecs
  <2>3. scan_faults \in 0 .. MaxScanFaults /\ dirs \subseteq HashDirs /\ incomplete \in BOOLEAN /\ pending \subseteq dirs
    <3>1. scan_faults \in 0 .. MaxScanFaults
      BY PumpAssumption DEF ScanInit
    <3>2. dirs \subseteq HashDirs /\ incomplete \in BOOLEAN /\ pending \subseteq dirs
      BY DEF ScanInit
    <3> QED
      BY <3>1, <3>2
  <2> QED
    BY <2>1, <2>2, <2>3 DEF ScanTypes, ScanInit, WalkRecs
<1>3. WalkOK
  BY DEF WalkOK, ScanInit
<1>4. PumpOK
  BY <1>1, FS_EmptySet, PumpAssumption DEF PumpOK, ScanInit
<1>5. DoneOK
  BY DEF DoneOK, ScanInit, FillIdSound, BytesSound, OrphansAccounted, Done
<1> QED
  BY <1>2, <1>3, <1>4, <1>5 DEF ScanInv

LEMMA ScanNextInv == ScanInv /\ [ScanNext]_scanVars => ScanInv'
<1> SUFFICES ASSUME ScanInv, [ScanNext]_scanVars PROVE ScanInv'
  OBVIOUS
<1>1. CASE \E ok \in BOOLEAN : read_objects(ok)
  BY <1>1, read_objectsInv
<1>2. CASE \E p \in Firsts, f \in {"none", "file_type", "read_dir"} : NextPrefix(p, f)
  BY <1>2, NextPrefixInv
<1>3. CASE \E y \in Seconds, f \in {"none", "file_type"} : NextSecond(y, f)
  BY <1>3, NextSecondInv
<1>4. CASE IterateFails \/ EndPrefix
  BY <1>4, WalkEndsInv
<1>5. CASE StartPump
  BY <1>5, StartPumpInv
<1>6. CASE FinishPump
  BY <1>6, FinishPumpInv
<1>7. ASSUME NEW d \in Dirs,
             \/ join_next(d) \/ JoinFails(d) \/ EndDir(d) \/ IterateDirFails(d) \/ Panic(d)
             \/ \E ok \in BOOLEAN : OpenDir(d, ok)
             \/ \E h \in Hashes :
                   \/ ScanOther(d, h)
                   \/ \E f \in SUBSET BodyCalls(d, h) : ScanBody(d, h, f)
                   \/ \E f \in SUBSET {"probe", "read", "stat"} : ScanMeta(d, h, f)
      PROVE  ScanInv'
  <2>1. CASE join_next(d)
    BY <2>1, join_nextInv
  <2>2. CASE JoinFails(d)
    BY <2>2, JoinFailsInv
  <2>3. CASE EndDir(d) \/ IterateDirFails(d) \/ Panic(d)
    BY <2>3, EndDirOK, ScanStepInv
  <2>4. CASE \E ok \in BOOLEAN : OpenDir(d, ok)
    BY <2>4, OpenDirOK, ScanStepInv
  <2>5. ASSUME NEW h \in Hashes, ScanOther(d, h) PROVE ScanInv'
    BY <2>5, ScanOtherOK, ScanStepInv
  <2>6. ASSUME NEW h \in Hashes, NEW f, ScanBody(d, h, f) PROVE ScanInv'
    BY <2>6, ScanBodyOK, ScanStepInv
  <2>7. ASSUME NEW h \in Hashes, NEW f, ScanMeta(d, h, f) PROVE ScanInv'
    BY <2>7, ScanMetaOK, ScanStepInv
  <2> QED
    BY <1>7, <2>1, <2>2, <2>3, <2>4, <2>5, <2>6, <2>7
<1>8. CASE UNCHANGED scanVars
  <2>1. /\ kind1' = kind1 /\ kind2' = kind2 /\ bodies' = bodies /\ metas' = metas /\ markers' = markers
        /\ UNCHANGED <<scan_mode, scan_pc, walk, dirs, incomplete, pending, scan_task, results, scan, reported, scan_faults>>
    BY <1>8 DEF scanVars, disk
  <2>2. /\ HashDirs' = HashDirs /\ InScope' = InScope /\ InFlight' = InFlight /\ DiskBytes' = DiskBytes
        /\ \A d : Files(d)' = Files(d)
    BY <2>1 DEF HashDirs, InScope, IsHashDir, InFlight, DiskBytes, Files
  <2>3. ScanTypes' /\ WalkOK'
    BY <2>1, <2>2 DEF ScanInv, ScanTypes, WalkOK
  <2>4. PumpOK'
    BY <2>1, <2>2 DEF ScanInv, PumpOK, ResultsOK
  <2>5. FillIdSound' /\ BytesSound' /\ OrphansAccounted' /\ (Done => PumpExact)'
    BY <2>1, <2>2 DEF ScanInv, DoneOK, FillIdSound, BytesSound, OrphansAccounted, PumpExact, Done
  <2> QED
    BY <2>3, <2>4, <2>5 DEF ScanInv, DoneOK
<1> QED
  BY <1>1, <1>2, <1>3, <1>4, <1>5, <1>6, <1>7, <1>8 DEF ScanNext

(* The walk, the tasks and the results account for every file of every       *)
(* directory at every step of the scan.                                      *)
THEOREM ScanAccounts == ScanSpec => []ScanInv
  BY ScanInitInv, ScanNextInv, PTL DEF ScanSpec

(* A finished scan reports what is on disk, or that it is incomplete,         *)
(* whatever fails and in whatever order directories and files come.          *)
THEOREM ScansAreSound == ScanSpec => []ScanSound
<1>1. ScanInv => ScanSound
  <2> SUFFICES ASSUME ScanInv PROVE ScanSound
    OBVIOUS
  <2>1. ScanTypeOK
    <3>1. \A d \in Dirs : scan_task[d].st \in {"none", "open", "scan", "ok", "err"}
      BY DEF ScanInv, ScanTypes, TaskScans
    <3> QED
      BY <3>1 DEF ScanInv, ScanTypes, PumpOK, ScanTypeOK
  <2>2. FillIdSound /\ BytesSound /\ OrphansAccounted
    BY DEF ScanInv, DoneOK
  <2>3. PumpExact
    BY DEF ScanInv, DoneOK, PumpOK, PumpExact
  <2>4. WalkComplete
    BY DEF ScanInv, WalkOK, WalkComplete
  <2> QED
    BY <2>1, <2>2, <2>3, <2>4 DEF ScanSound
<1> QED
  BY <1>1, ScanAccounts, PTL
=============================================================================
