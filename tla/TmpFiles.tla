------------------------------ MODULE TmpFiles ------------------------------
(***************************************************************************)
(* The directory <cache_dir>/tmp: proxies start on it, sweep what crashed  *)
(* ones left (cache/tmp_sweep.rs) under the lock on the cache directory    *)
(* (CacheDirLock), and then write to it: the spool of a decoded upload     *)
(* under its guard (UploadSpoolGuard), and the temporary files of fills    *)
(* and metadata.                                                           *)
(*                                                                         *)
(* A name is what the sweep looks at: the segments of the stem, the        *)
(* extensions, and the process id and counter that make it unique.         *)
(***************************************************************************)
EXTENDS Naturals, Sequences, FiniteSets, SequencesExt

CONSTANTS
    Proxies,    \* proxy processes given the same cache directory
    Pids,       \* their process ids: in containers all have the same
    Tasks,      \* tasks of a proxy that write temporary files
    Strangers,  \* files nobody here wrote that may be in the directory
    MaxNames,   \* bound: counter values of one process
    MaxFaults,  \* bound: removals that fail
    None

VARIABLES
    lock,       \* the proxy that holds <cache_dir>/.lock
    proxy,      \* [st, pid, counter, todo] of each proxy
    task,       \* [pc, kind, file] of each task of each proxy
    tmp,        \* the files in the directory
    stuck,      \* files of which the last removal failed
    orphaned,   \* files left behind by requests that were dropped
    collided,   \* files a writer found in the place of its own
    faults

vars == <<lock, proxy, task, tmp, stuck, orphaned, collided, faults>>

-----------------------------------------------------------------------------
(***************************************************************************)
(* Names                                                                   *)
(***************************************************************************)
\* What the writers put into a name.
Shape ==
    [FillBody          |-> [segs |-> <<"digits", "digits", "digits">>, exts |-> <<"body">>],
     FillIdCounter     |-> [segs |-> <<"digits", "digits">>, exts |-> <<"fill_id_counter", "tmp">>],
     CommitMeta        |-> [segs |-> <<"digits", "digits">>, exts |-> <<"meta", "json">>],
     MetadataTmp       |-> [segs |-> <<"digits", "hex32", "digits">>, exts |-> <<"meta", "tmp">>],
     PublishBackupBody |-> [segs |-> <<"digits", "digits">>, exts |-> <<"prev", "body">>],
     PublishBackupMeta |-> [segs |-> <<"digits", "digits">>, exts |-> <<"prev", "meta", "json">>],
     UploadSpool       |-> [segs |-> <<"digits", "digits">>, exts |-> <<"upload-spool", "tmp">>],
     ReadyzProbe       |-> [segs |-> <<>>, exts |-> <<"readyz-probe">>]]

Kinds == DOMAIN Shape

Name(kind, pid, n) ==
    [type |-> "file", segs |-> Shape[kind].segs, exts |-> Shape[kind].exts,
     pid |-> IF kind = "ReadyzProbe" THEN 0 ELSE pid, n |-> IF kind = "ReadyzProbe" THEN 0 ELSE n]

is_two_digit_segments(name, suffix) ==
    name.exts = suffix /\ name.segs = <<"digits", "digits">>

is_three_digit_segments(name, suffix) ==
    name.exts = suffix /\ name.segs = <<"digits", "digits", "digits">>

is_metadata_tmp(name) ==
    name.exts = <<"meta", "tmp">> /\ name.segs = <<"digits", "hex32", "digits">>

\* Mutant: only the extension counts.
classify_any_stem(name) ==
    IF IsSuffix(<<"body">>, name.exts) \/ IsSuffix(<<"meta", "json">>, name.exts)
         \/ IsSuffix(<<"tmp">>, name.exts) \/ name.exts = <<"readyz-probe">>
    THEN "FillBody" ELSE None

classify_without_backups(name) ==
    CASE name.segs = <<>> /\ name.exts = <<"readyz-probe">> -> "ReadyzProbe"
      [] IsSuffix(<<"fill_id_counter", "tmp">>, name.exts) ->
            IF is_two_digit_segments(name, <<"fill_id_counter", "tmp">>) THEN "FillIdCounter" ELSE None
      [] IsSuffix(<<"upload-spool", "tmp">>, name.exts) ->
            IF is_two_digit_segments(name, <<"upload-spool", "tmp">>) THEN "UploadSpool" ELSE None
      [] IsSuffix(<<"meta", "tmp">>, name.exts) ->
            IF is_metadata_tmp(name) THEN "MetadataTmp" ELSE None
      [] IsSuffix(<<"meta", "json">>, name.exts) ->
            IF is_two_digit_segments(name, <<"meta", "json">>) THEN "CommitMeta" ELSE None
      [] IsSuffix(<<"body">>, name.exts) ->
            IF is_three_digit_segments(name, <<"body">>) THEN "FillBody" ELSE None
      [] OTHER -> None

\* The longest suffix decides; what is left must be the writer's stem, so a
\* name with one more extension has none.
classify(name) ==
    IF name.segs = <<>> /\ name.exts = <<"readyz-probe">> THEN "ReadyzProbe"
    ELSE IF IsSuffix(<<"prev", "body">>, name.exts)
    THEN IF is_two_digit_segments(name, <<"prev", "body">>) THEN "PublishBackupBody" ELSE None
    ELSE IF IsSuffix(<<"prev", "meta", "json">>, name.exts)
    THEN IF is_two_digit_segments(name, <<"prev", "meta", "json">>) THEN "PublishBackupMeta" ELSE None
    ELSE classify_without_backups(name)

ASSUME ProxyAssumption ==
    None \notin Proxies /\ None \notin Kinds /\ Pids \subseteq Nat /\ {MaxNames, MaxFaults} \subseteq Nat

\* A stranger that looks exactly like a writer's file is that writer's.
ASSUME StrangerAssumption ==
    \A s \in Strangers, k \in Kinds :
        ~(s.type = "file" /\ s.segs = Shape[k].segs /\ s.exts = Shape[k].exts)

-----------------------------------------------------------------------------
(***************************************************************************)
(* Starting and stopping                                                   *)
(***************************************************************************)
Down == [st |-> "down", pid |-> 0, counter |-> 0, todo |-> {}]

NoTask == [pc |-> "idle", kind |-> None, file |-> None]

Init ==
    /\ lock = None
    /\ proxy = [p \in Proxies |-> Down]
    /\ task = [p \in Proxies |-> [t \in Tasks |-> NoTask]]
    /\ tmp \in {{}} \cup {{s} : s \in Strangers}
    /\ stuck = {} /\ orphaned = {} /\ collided = {}
    /\ faults = 0

\* create_dir_all_secure on the cache directory, then the lock.
Start(p, pid) ==
    /\ proxy[p].st = "down"
    /\ proxy' = [proxy EXCEPT ![p] = [Down EXCEPT !.st = "lock", !.pid = pid]]
    /\ UNCHANGED <<lock, task, tmp, stuck, orphaned, collided, faults>>

\* Mutant: the lock does not exclude another proxy.
AcquireShared(p) ==
    /\ proxy[p].st = "lock"
    /\ lock' = p /\ proxy' = [proxy EXCEPT ![p].st = "read_dir"]
    /\ UNCHANGED <<task, tmp, stuck, orphaned, collided, faults>>

\* try_lock_exclusive: a second owner fails at once and exits.
Acquire(p) ==
    /\ proxy[p].st = "lock"
    /\ IF lock = None
       THEN lock' = p /\ proxy' = [proxy EXCEPT ![p].st = "read_dir"]
       ELSE UNCHANGED lock /\ proxy' = [proxy EXCEPT ![p] = Down]
    /\ UNCHANGED <<task, tmp, stuck, orphaned, collided, faults>>

\* read_dir of the sweep; when it fails there is no sweep.
ReadDir(p, ok) ==
    /\ proxy[p].st = "read_dir"
    /\ ok \/ faults < MaxFaults
    /\ proxy' = [proxy EXCEPT ![p].st = "sweep", ![p].todo = IF ok THEN tmp ELSE {}]
    /\ stuck' = IF ok THEN stuck ELSE stuck \cup tmp
    /\ faults' = IF ok THEN faults ELSE faults + 1
    /\ UNCHANGED <<lock, task, tmp, orphaned, collided>>

SweepEntry(p, f, ok) ==
    LET swept == f.type = "file" /\ classify(f) # None IN
    /\ proxy[p].st = "sweep" /\ f \in proxy[p].todo
    /\ ok \/ (swept /\ faults < MaxFaults)
    /\ proxy' = [proxy EXCEPT ![p].todo = @ \ {f}]
    /\ tmp' = IF swept /\ ok THEN tmp \ {f} ELSE tmp
    /\ stuck' = IF swept /\ ~ok THEN stuck \cup {f} ELSE stuck \ (tmp \ tmp')
    /\ orphaned' = orphaned \ (tmp \ tmp')
    /\ faults' = IF ok THEN faults ELSE faults + 1
    /\ UNCHANGED <<lock, task, collided>>

\* The scan and the counter follow, and may fail; main then serves requests.
FinishStart(p, ok) ==
    /\ proxy[p].st = "sweep" /\ proxy[p].todo = {}
    /\ IF ok THEN proxy' = [proxy EXCEPT ![p].st = "up"] /\ UNCHANGED lock
       ELSE proxy' = [proxy EXCEPT ![p] = Down] /\ lock' = None
    /\ UNCHANGED <<task, tmp, stuck, orphaned, collided, faults>>

\* The kernel releases the lock of a process that dies.
Crash(p) ==
    /\ proxy[p].st # "down"
    /\ proxy' = [proxy EXCEPT ![p] = Down]
    /\ lock' = IF lock = p THEN None ELSE lock
    /\ task' = [task EXCEPT ![p] = [t \in Tasks |-> NoTask]]
    /\ UNCHANGED <<tmp, stuck, orphaned, collided, faults>>

-----------------------------------------------------------------------------
(***************************************************************************)
(* Writers                                                                 *)
(***************************************************************************)
Idle(p, t) == task' = [task EXCEPT ![p][t] = NoTask]

Removed(f) == tmp' = tmp \ {f} /\ stuck' = stuck \ {f} /\ orphaned' = orphaned \ {f}

\* A file is removed, or its removal fails for the last time.  Of two probes
\* the second may find its file gone.
LastRemoval(f, ok) ==
    IF ok THEN Removed(f) /\ UNCHANGED faults
    ELSE /\ faults < MaxFaults /\ faults' = faults + 1
         /\ stuck' = stuck \cup ({f} \cap tmp) /\ UNCHANGED <<tmp, orphaned>>

\* The name is taken from the counter, the file is opened on another thread.
Create(p, t, kind) ==
    /\ kind # "ReadyzProbe"
    /\ proxy[p].st = "up" /\ task[p][t].pc = "idle"
    /\ proxy[p].counter < MaxNames
    /\ task' = [task EXCEPT ![p][t] =
                  [pc |-> "opening", kind |-> kind,
                   file |-> Name(kind, proxy[p].pid, proxy[p].counter)]]
    /\ proxy' = [proxy EXCEPT ![p].counter = @ + 1]
    /\ UNCHANGED <<lock, tmp, stuck, orphaned, collided, faults>>

\* The readiness probe has one name for all, and is removed at once.
ready_check(p, t) ==
    /\ proxy[p].st = "up" /\ task[p][t].pc = "idle"
    /\ task' = [task EXCEPT ![p][t] = [pc |-> "opening", kind |-> "ReadyzProbe",
                                      file |-> Name("ReadyzProbe", 0, 0)]]
    /\ UNCHANGED <<lock, proxy, tmp, stuck, orphaned, collided, faults>>

\* The body of a fill and the probe are opened over a file that is there
\* already; everybody else insists on a new one (create_new).
Opened(p, t) ==
    LET f == task[p][t].file
        exists == f \in tmp /\ task[p][t].kind \notin {"FillBody", "ReadyzProbe"}
    IN /\ task[p][t].pc = "opening"
       /\ IF exists
          THEN Idle(p, t) /\ collided' = collided \cup {f} /\ UNCHANGED <<tmp, stuck, orphaned>>
          ELSE /\ task' = [task EXCEPT ![p][t].pc = "open"]
               /\ tmp' = tmp \cup {f} /\ stuck' = stuck \ {f} /\ orphaned' = orphaned \ {f}
               /\ UNCHANGED collided
       /\ UNCHANGED <<lock, proxy, faults>>

\* Written in the future of a request and with no guard: the metadata of a
\* refresh (update_metadata_if_unchanged) and the readiness probe.  Fills are
\* written and committed by a task of their own (spawn_cache_tee).
Unguarded == {"MetadataTmp", "ReadyzProbe"}

\* A request is dropped when its client disconnects, and the call on a file it
\* was waiting for goes on without it.  While the spool is being opened there
\* is no guard yet; afterwards the guard removes it.
Disconnect(p, t) ==
    /\ \/ /\ task[p][t].kind \in Unguarded \cup {"UploadSpool"} /\ task[p][t].pc = "opening"
          /\ task' = [task EXCEPT ![p][t].pc = "abandoned"]
       \/ /\ task[p][t].kind = "UploadSpool" /\ task[p][t].pc \in {"open", "cleanup"}
          /\ task' = [task EXCEPT ![p][t].pc = "drop"]
       \/ /\ task[p][t].kind \in Unguarded /\ task[p][t].pc = "open"
          /\ task' = [task EXCEPT ![p][t].pc = "late"]
    /\ UNCHANGED <<lock, proxy, tmp, stuck, orphaned, collided, faults>>

\* The open of a dropped request is done: nobody knows the file.
AbandonedOpen(p, t) ==
    /\ task[p][t].pc = "abandoned"
    /\ Idle(p, t)
    /\ tmp' = tmp \cup {task[p][t].file}
    /\ orphaned' = orphaned \cup (tmp' \ tmp)
    /\ UNCHANGED <<lock, proxy, stuck, collided, faults>>

\* The call that a dropped request had made on its open file is done: it was
\* the rename or the removal of the file, or it was not and the file is left.
LateCall(p, t, gone) ==
    /\ task[p][t].pc = "late"
    /\ Idle(p, t)
    /\ IF gone THEN Removed(task[p][t].file)
       ELSE orphaned' = orphaned \cup ({task[p][t].file} \cap tmp) /\ UNCHANGED <<tmp, stuck>>
    /\ UNCHANGED <<lock, proxy, collided, faults>>

\* The handler has decoded and uploaded the spool, or failed to decode it.
DecodeFails(p, t) ==
    /\ task[p][t].kind = "UploadSpool" /\ task[p][t].pc = "open"
    /\ task' = [task EXCEPT ![p][t].pc = "drop"]
    /\ UNCHANGED <<lock, proxy, tmp, stuck, orphaned, collided, faults>>

Uploaded(p, t) ==
    /\ task[p][t].kind = "UploadSpool" /\ task[p][t].pc = "open"
    /\ task' = [task EXCEPT ![p][t].pc = "cleanup"]
    /\ UNCHANGED <<lock, proxy, tmp, stuck, orphaned, collided, faults>>

\* The guard is disarmed only when the removal succeeded.
cleanup(p, t, ok) ==
    /\ task[p][t].pc = "cleanup"
    /\ ok \/ faults < MaxFaults
    /\ IF ok THEN Idle(p, t) /\ Removed(task[p][t].file)
       ELSE task' = [task EXCEPT ![p][t].pc = "drop"] /\ UNCHANGED <<tmp, stuck, orphaned>>
    /\ faults' = IF ok THEN faults ELSE faults + 1
    /\ UNCHANGED <<lock, proxy, collided>>

drop(p, t, ok) ==
    /\ task[p][t].pc = "drop"
    /\ Idle(p, t)
    /\ LastRemoval(task[p][t].file, ok)
    /\ UNCHANGED <<lock, proxy, collided>>

\* The other writers rename the file into the cache, or remove it.
Publish(p, t) ==
    /\ task[p][t].kind # "UploadSpool" /\ task[p][t].pc = "open"
    /\ Idle(p, t) /\ Removed(task[p][t].file)
    /\ UNCHANGED <<lock, proxy, collided, faults>>

Discard(p, t, ok) ==
    /\ task[p][t].kind # "UploadSpool" /\ task[p][t].pc = "open"
    /\ Idle(p, t) /\ LastRemoval(task[p][t].file, ok)
    /\ UNCHANGED <<lock, proxy, collided>>

Next ==
    \E p \in Proxies :
        \/ \E pid \in Pids : Start(p, pid)
        \/ Acquire(p) \/ Crash(p)
        \/ \E ok \in BOOLEAN :
              \/ ReadDir(p, ok) \/ FinishStart(p, ok)
              \/ \E f \in tmp : SweepEntry(p, f, ok)
        \/ \E t \in Tasks :
              \/ \E k \in Kinds : Create(p, t, k)
              \/ ready_check(p, t)
              \/ Opened(p, t) \/ Disconnect(p, t) \/ AbandonedOpen(p, t)
              \/ DecodeFails(p, t) \/ Uploaded(p, t) \/ Publish(p, t)
              \/ \E ok \in BOOLEAN :
                    cleanup(p, t, ok) \/ drop(p, t, ok) \/ Discard(p, t, ok) \/ LateCall(p, t, ok)

Spec == Init /\ [][Next]_vars

-----------------------------------------------------------------------------
(***************************************************************************)
(* Properties                                                              *)
(***************************************************************************)
TypeOK ==
    /\ lock \in Proxies \cup {None}
    /\ \A p \in Proxies :
          /\ proxy[p].st \in {"down", "lock", "read_dir", "sweep", "up"}
          /\ proxy[p].pid \in Pids \cup {0}
          /\ proxy[p].counter \in 0..MaxNames
          /\ \A t \in Tasks :
                task[p][t].pc \in {"idle", "opening", "open", "abandoned", "cleanup", "drop", "late"}
    /\ stuck \cup orphaned \subseteq tmp
    /\ faults \in 0..MaxFaults

\* The task, its guard, or a call the task had made works on its file.
Holding == {"open", "cleanup", "drop", "late"}

InUse(f) ==
    \E p \in Proxies, t \in Tasks : task[p][t].file = f /\ task[p][t].pc \in Holding

\* A file that a running task writes to, or uploads from, stays where it is:
\* neither the sweep of a proxy that starts on the same directory, nor another
\* task of the same process id, nor a call that a dropped request left running
\* removes or reuses it.
LiveFilesKept ==
    \A p \in Proxies, t \in Tasks :
        task[p][t].pc \in Holding /\ task[p][t].kind # "ReadyzProbe" =>
            /\ task[p][t].file \in tmp
            /\ \A q \in Proxies, u \in Tasks :
                  /\ task[q][u].pc \in Holding
                  /\ task[q][u].file = task[p][t].file
                  => <<q, u>> = <<p, t>>

\* Once a proxy serves requests every file in the directory is in use, is
\* none of the proxy's, could not be removed when it was tried for the last
\* time, or was left by a request this proxy dropped since: whatever crashed
\* or was dropped before, the sweep knows the name of every writer.
NoStrays ==
    \A p \in Proxies : proxy[p].st = "up" =>
        \A f \in tmp : InUse(f) \/ f \in stuck \cup orphaned \/ f \in Strangers

(* While a request writes or uploads a temporary file nobody else removes or *)
(* reuses it, and once a proxy serves no file of a crashed one is left that  *)
(* could be removed.                                                         *)
TmpFilesKept == TypeOK /\ LiveFilesKept /\ NoStrays

\* The counters restart at 0 and process ids repeat, yet a writer finds its
\* name taken (and its request fails) only when a removal failed before.
NoCollision == [][\A f \in collided' \ collided : f \in stuck]_vars

\* The sweep removes no file that is not exactly what one of the writers
\* creates: links, directories and unknown names stay (sweep_tmp_dir).
StrangersKept == [][\A f \in tmp \ tmp' : f \notin Strangers]_vars

(* A writer finds its name taken only when a removal failed before, and the  *)
(* sweep removes nothing but what a writer creates.                          *)
NamesSafe == NoCollision /\ StrangersKept

\* "The guard ensures the spool file is removed exactly once": a spool that is
\* still there when its request has ended is one whose removal failed.
SpoolRemoved ==
    \A p \in Proxies : proxy[p].st = "up" =>
        \A f \in tmp \ Strangers : classify(f) = "UploadSpool" => InUse(f) \/ f \in stuck
=============================================================================
