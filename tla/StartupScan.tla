---------------------------- MODULE StartupScan ----------------------------
(***************************************************************************)
(* The scan of objects/XX/YY at startup (DiskCache::scan_existing_stats):  *)
(* the walk that collects the hash directories (cache/layout.rs), the pump *)
(* that scans them with a bounded number of tasks (cache/scan.rs), what    *)
(* one task makes of the files of its directory (scan_hash_dir), and the   *)
(* totals.  Any system call may fail.  The lock on the cache directory     *)
(* keeps everybody else away while it runs.                                *)
(*                                                                         *)
(* The evictor uses the same walk and pump in strict mode; what its tasks  *)
(* do is modelled in Eviction, here they only succeed or fail.             *)
(***************************************************************************)
EXTENDS Naturals, Sequences, FiniteSets, FiniteSetsExt

CONSTANTS
    Firsts, Seconds,  \* the names XX and YY
    Hashes,             \* the hashes of a directory
    EntryKinds,         \* what may be in the place of a directory
    Metas,              \* contents of a metadata file: Corrupt or a fill_id
    Modes,              \* "BestEffort" (startup), "Strict" (eviction)
    Cap,                \* CACHE_HASH_DIR_SCAN_CONCURRENCY, at least 1
    MaxMarkers,         \* bound: .poisoned files
    MaxScanFaults,      \* bound: system calls that fail
    Corrupt, Absent

ASSUME DirAssumption ==
    /\ IsFiniteSet(Firsts) /\ IsFiniteSet(Seconds) /\ Absent \notin Firsts
    /\ EntryKinds \subseteq {"dir", "file", "odd"}
ASSUME FileAssumption ==
    /\ IsFiniteSet(Hashes) /\ Metas \subseteq Nat \cup {Corrupt}
    /\ Corrupt \notin Nat /\ Absent \notin Nat \cup {Corrupt}
ASSUME PumpAssumption ==
    Cap \in Nat \ {0} /\ Modes \subseteq {"BestEffort", "Strict"} /\ {MaxMarkers, MaxScanFaults} \subseteq Nat

Dirs == Firsts \X Seconds

BodySize == 4

MetaSize == 1

VARIABLES
    kind1, kind2,  \* what the entries of the two levels are
    bodies,        \* the <<directory, hash>> with a .body file
    metas,         \* what the .meta.json files hold, Absent where there is none
    markers,       \* the <<directory, hash>> with a .poisoned file
    scan_mode, scan_pc, walk, dirs, incomplete,
    pending, scan_task, results,
    scan, reported, scan_faults

disk == <<kind1, kind2, bodies, metas, markers>>
scanVars == <<disk, scan_mode, scan_pc, walk, dirs, incomplete, pending, scan_task, results, scan, reported, scan_faults>>

-----------------------------------------------------------------------------
\* A DirScanStats; the totals are one as well.
NoStats ==
    [total_bytes |-> 0, entry_count |-> 0, max_fill_id |-> 0, saw_cache_files |-> FALSE,
     fill_id_incomplete |-> FALSE, unreclaimed_bytes |-> 0, size_unknown |-> 0]

NoScan == [st |-> "none", todo |-> {}, res |-> NoStats]

Files(d) ==
    {<<h, "body">> : h \in {h \in Hashes : <<d, h>> \in bodies}}
      \cup {<<h, "meta">> : h \in {h \in Hashes : metas[<<d, h>>] # Absent}}
      \cup {<<h, "poisoned">> : h \in {h \in Hashes : <<d, h>> \in markers}}

IsHashDir(d) == kind1[d[1]] = "dir" /\ kind2[d] = "dir"

ScanInit ==
    /\ kind1 \in [Firsts -> EntryKinds] /\ kind2 \in [Dirs -> EntryKinds]
    /\ metas \in [Dirs \X Hashes -> Metas \cup {Absent}]
    /\ bodies \in SUBSET (Dirs \X Hashes)
    /\ markers \in {M \in SUBSET (Dirs \X Hashes) : Cardinality(M) <= MaxMarkers}
    /\ scan_mode \in Modes
    /\ scan_pc = "read_objects"
    /\ walk = [todo |-> {}, prefix |-> Absent, seconds |-> {}]
    /\ dirs = {} /\ incomplete = FALSE
    /\ pending = {} /\ scan_task = [d \in Dirs |-> NoScan] /\ results = <<>>
    /\ scan = NoStats /\ reported = "none" /\ scan_faults = 0

MayFail(n) == scan_faults + n <= MaxScanFaults /\ scan_faults' = scan_faults + n

-----------------------------------------------------------------------------
(***************************************************************************)
(* The walk                                                                *)
(***************************************************************************)
\* A strict walk fails; a best-effort one goes on and says so.
handle_walk_error(w) ==
    IF scan_mode = "Strict" THEN scan_pc' = "failed" /\ UNCHANGED <<walk, incomplete>>
    ELSE incomplete' = TRUE /\ walk' = w /\ UNCHANGED scan_pc

Walking == scan_pc = "walk" /\ UNCHANGED <<disk, scan_mode, pending, scan_task, results, scan, reported>>

read_objects(ok) ==
    /\ scan_pc = "read_objects"
    /\ MayFail(IF ok THEN 0 ELSE 1)
    /\ IF ok
       THEN /\ walk' = [walk EXCEPT !.todo = Firsts] /\ scan_pc' = "walk"
            /\ UNCHANGED incomplete
       ELSE /\ scan_pc' = IF scan_mode = "Strict" THEN "failed" ELSE "walk"
            /\ incomplete' = (scan_mode # "Strict")
            /\ UNCHANGED walk
    /\ UNCHANGED <<disk, scan_mode, dirs, pending, scan_task, results, scan, reported>>

\* next_entry fails: the rest of the directory is not seen.
IterateFails ==
    /\ Walking /\ MayFail(1)
    /\ \/ walk.prefix = Absent /\ walk.todo # {}
          /\ handle_walk_error([walk EXCEPT !.todo = {}])
       \/ walk.prefix # Absent /\ walk.seconds # {}
          /\ handle_walk_error([walk EXCEPT !.seconds = {}, !.prefix = Absent])
    /\ UNCHANGED dirs

\* An entry XX: other names and other things than directories are skipped.
NextPrefix(p, fails) ==
    LET rest == [walk EXCEPT !.todo = @ \ {p}] IN
    /\ Walking /\ walk.prefix = Absent /\ p \in walk.todo
    /\ IF kind1[p] = "odd" \/ (kind1[p] = "file" /\ fails # "file_type")
       THEN fails = "none" /\ MayFail(0) /\ walk' = rest /\ UNCHANGED <<scan_pc, incomplete>>
       ELSE IF fails # "none"
       THEN MayFail(1) /\ handle_walk_error(rest)
       ELSE /\ MayFail(0)
            /\ walk' = [rest EXCEPT !.prefix = p, !.seconds = Seconds]
            /\ UNCHANGED <<scan_pc, incomplete>>
    /\ UNCHANGED dirs

NextSecond(y, fails) ==
    LET d == <<walk.prefix, y>>
        rest == [walk EXCEPT !.seconds = @ \ {y}]
    IN /\ Walking /\ walk.prefix # Absent /\ y \in walk.seconds
       /\ kind2[d] = "odd" => fails = "none"
       /\ IF fails = "none"
          THEN /\ MayFail(0) /\ walk' = rest /\ UNCHANGED <<scan_pc, incomplete>>
               /\ dirs' = IF kind2[d] = "dir" THEN dirs \cup {d} ELSE dirs
          ELSE /\ fails = "file_type" /\ MayFail(1)
               /\ handle_walk_error(rest) /\ UNCHANGED dirs

EndPrefix ==
    /\ Walking /\ walk.prefix # Absent /\ walk.seconds = {}
    /\ walk' = [walk EXCEPT !.prefix = Absent]
    /\ UNCHANGED <<scan_pc, incomplete, dirs, scan_faults>>

-----------------------------------------------------------------------------
(***************************************************************************)
(* The pump: bounded_parallel_scan                                         *)
(***************************************************************************)
Started == [NoScan EXCEPT !.st = "open"]

InFlight == {d \in Dirs : scan_task[d].st # "none"}

\* take(cap) of the paths; an empty list ends the pump at once.
StartPump ==
    /\ scan_pc = "walk" /\ walk.prefix = Absent /\ walk.todo = {}
    /\ \E first \in kSubset(IF Cardinality(dirs) < Cap THEN Cardinality(dirs) ELSE Cap, dirs) :
          /\ scan_task' = [d \in Dirs |-> IF d \in first THEN Started ELSE NoScan]
          /\ pending' = dirs \ first
    /\ scan_pc' = "pump"
    /\ UNCHANGED <<disk, scan_mode, walk, dirs, incomplete, results, scan, reported, scan_faults>>

\* A finished task makes room for one more.
join_next(d) ==
    /\ scan_pc = "pump" /\ scan_task[d].st = "ok"
    /\ results' = Append(results, <<d, scan_task[d].res>>)
    /\ IF pending = {} THEN scan_task' = [scan_task EXCEPT ![d] = NoScan] /\ UNCHANGED pending
       ELSE \E e \in pending :
              /\ pending' = pending \ {e}
              /\ scan_task' = [scan_task EXCEPT ![d] = NoScan, ![e] = Started]
    /\ UNCHANGED <<disk, scan_mode, scan_pc, walk, dirs, incomplete, scan, reported, scan_faults>>

\* A task fails (eviction) or panics: the others are aborted with the set.
JoinFails(d) ==
    /\ scan_pc = "pump" /\ scan_task[d].st = "err"
    /\ scan_pc' = "failed" /\ scan_task' = [e \in Dirs |-> NoScan]
    /\ reported' = IF scan_mode = "BestEffort" THEN "join" ELSE reported
    /\ UNCHANGED <<disk, scan_mode, walk, dirs, incomplete, pending, results, scan, scan_faults>>

-----------------------------------------------------------------------------
(***************************************************************************)
(* One directory: scan_hash_dir                                            *)
(***************************************************************************)
Scanning(d) ==
    /\ scan_pc = "pump"
    /\ UNCHANGED <<kind1, kind2, metas, markers, scan_mode, scan_pc, walk, dirs, incomplete, pending, results, scan, reported>>

\* A directory that cannot be read is skipped, and said to be incomplete.
OpenDir(d, ok) ==
    /\ Scanning(d) /\ scan_task[d].st = "open"
    /\ MayFail(IF ok THEN 0 ELSE 1)
    /\ scan_task' = [scan_task EXCEPT ![d] =
                  IF ok THEN [@ EXCEPT !.st = "scan", !.todo = Files(d)]
                  ELSE [@ EXCEPT !.st = "ok", !.res.fill_id_incomplete = TRUE]]
    /\ UNCHANGED bodies

Plus(res, n) == [res EXCEPT !.total_bytes = @ + n]

\* The fill_id of a metadata file, unless it cannot be read or parsed.
TakeFillId(res, meta, readable) ==
    IF readable /\ meta # Corrupt
    THEN [res EXCEPT !.max_fill_id = IF meta > @ THEN meta ELSE @]
    ELSE [res EXCEPT !.fill_id_incomplete = TRUE]

\* A body with its metadata.
CompleteEntry(res, meta, fails) ==
    LET body == IF "stat_body" \in fails THEN res
                ELSE [Plus(res, BodySize) EXCEPT !.entry_count = @ + 1]
        both == IF "stat_meta" \in fails THEN body ELSE Plus(body, MetaSize)
    IN TakeFillId(both, meta, "read" \notin fails)

\* Mutant: a body that cannot be measured counts as nothing.
measure_as_zero(res, fails) ==
    IF "stat_after" \notin fails
    THEN [Plus(res, BodySize) EXCEPT !.unreclaimed_bytes = @ + BodySize]
    ELSE res

\* What is left of an orphan whose removal failed: the size after, else the
\* size before, else unknown.
measure_unreclaimed_orphan_bytes(res, fails) ==
    IF "stat_after" \notin fails \/ "stat_before" \notin fails
    THEN [Plus(res, BodySize) EXCEPT !.unreclaimed_bytes = @ + BodySize]
    ELSE [res EXCEPT !.size_unknown = @ + 1]

BodyCalls(d, h) ==
    IF metas[<<d, h>>] = Absent THEN {"probe", "stat_before", "remove", "stat_after"}
    ELSE {"probe", "stat_body", "stat_meta", "read"}

ScanBody(d, h, fails) ==
    LET res == [scan_task[d].res EXCEPT !.saw_cache_files = TRUE]
        meta == metas[<<d, h>>]
        orphan == "probe" \notin fails /\ meta = Absent
    IN /\ Scanning(d) /\ scan_task[d].st = "scan" /\ <<h, "body">> \in scan_task[d].todo
       /\ fails \subseteq BodyCalls(d, h) /\ MayFail(Cardinality(fails))
       /\ "probe" \in fails => fails = {"probe"}
       /\ "stat_after" \in fails => "remove" \in fails
       /\ scan_task' = [scan_task EXCEPT ![d].todo = @ \ {<<h, "body">>}, ![d].res =
              IF "probe" \in fails THEN [res EXCEPT !.fill_id_incomplete = TRUE]
              ELSE IF ~orphan THEN CompleteEntry(res, meta, fails)
              ELSE IF "remove" \in fails THEN measure_unreclaimed_orphan_bytes(res, fails)
              ELSE res]
       /\ bodies' = IF orphan /\ "remove" \notin fails THEN bodies \ {<<d, h>>} ELSE bodies

\* Metadata is counted with its body; left alone, it is counted here.
ScanMeta(d, h, fails) ==
    LET res == [scan_task[d].res EXCEPT !.saw_cache_files = TRUE]
        alone == <<d, h>> \notin bodies
    IN /\ Scanning(d) /\ scan_task[d].st = "scan" /\ <<h, "meta">> \in scan_task[d].todo
       /\ fails \subseteq {"probe", "read", "stat"} /\ MayFail(Cardinality(fails))
       /\ "probe" \in fails => fails = {"probe"}
       /\ ~alone => fails \subseteq {"probe"}
       /\ "stat" \in fails => "read" \in fails
       /\ scan_task' = [scan_task EXCEPT ![d].todo = @ \ {<<h, "meta">>}, ![d].res =
              IF "probe" \in fails THEN [res EXCEPT !.fill_id_incomplete = TRUE]
              ELSE IF ~alone THEN res
              ELSE TakeFillId(IF "stat" \in fails THEN res ELSE Plus(res, MetaSize),
                              metas[<<d, h>>], "read" \notin fails)]
       /\ UNCHANGED bodies

ScanOther(d, h) ==
    /\ Scanning(d) /\ scan_task[d].st = "scan" /\ <<h, "poisoned">> \in scan_task[d].todo
    /\ scan_task' = [scan_task EXCEPT ![d].todo = @ \ {<<h, "poisoned">>}, ![d].res.saw_cache_files = TRUE]
    /\ UNCHANGED <<bodies, scan_faults>>

\* next_entry fails: the rest of the directory is skipped.
IterateDirFails(d) ==
    /\ Scanning(d) /\ scan_task[d].st = "scan" /\ scan_task[d].todo # {}
    /\ MayFail(1)
    /\ scan_task' = [scan_task EXCEPT ![d].st = "ok", ![d].res.fill_id_incomplete = TRUE]
    /\ UNCHANGED bodies

EndDir(d) ==
    /\ Scanning(d) /\ scan_task[d].st = "scan" /\ scan_task[d].todo = {}
    /\ scan_task' = [scan_task EXCEPT ![d].st = "ok"]
    /\ UNCHANGED <<bodies, scan_faults>>

Panic(d) ==
    /\ Scanning(d) /\ scan_task[d].st \in {"open", "scan"}
    /\ MayFail(1)
    /\ scan_task' = [scan_task EXCEPT ![d].st = "err"]
    /\ UNCHANGED bodies

-----------------------------------------------------------------------------
(***************************************************************************)
(* The totals                                                              *)
(***************************************************************************)
\* The sum of the w[i]: the number of units, if those of i are numbered.
Total(w) == Cardinality(UNION {{i} \X (1..w[i]) : i \in DOMAIN w})

AggregateDirsOnly ==
    [total_bytes        |-> Total([i \in DOMAIN results |-> results[i][2].total_bytes]),
     entry_count        |-> Total([i \in DOMAIN results |-> results[i][2].entry_count]),
     max_fill_id        |-> Max({0} \cup {results[i][2].max_fill_id : i \in DOMAIN results}),
     saw_cache_files    |-> \E i \in DOMAIN results : results[i][2].saw_cache_files,
     fill_id_incomplete |-> \E i \in DOMAIN results : results[i][2].fill_id_incomplete,
     unreclaimed_bytes  |-> Total([i \in DOMAIN results |-> results[i][2].unreclaimed_bytes]),
     size_unknown       |-> Total([i \in DOMAIN results |-> results[i][2].size_unknown])]

\* An incomplete walk makes the fill_id incomplete too.
Aggregate == [AggregateDirsOnly EXCEPT !.fill_id_incomplete = @ \/ incomplete]

FinishPump ==
    /\ scan_pc = "pump" /\ InFlight = {}
    /\ scan_pc' = "done" /\ scan' = Aggregate
    /\ reported' = IF incomplete \/ scan'.fill_id_incomplete \/ scan'.size_unknown > 0
                   THEN "incomplete" ELSE "complete"
    /\ UNCHANGED <<disk, scan_mode, walk, dirs, incomplete, pending, scan_task, results, scan_faults>>

ScanNext ==
    \/ \E ok \in BOOLEAN : read_objects(ok)
    \/ \E p \in Firsts, f \in {"none", "file_type", "read_dir"} : NextPrefix(p, f)
    \/ \E y \in Seconds, f \in {"none", "file_type"} : NextSecond(y, f)
    \/ IterateFails \/ EndPrefix
    \/ StartPump \/ FinishPump
    \/ \E d \in Dirs :
          \/ join_next(d) \/ JoinFails(d) \/ EndDir(d) \/ IterateDirFails(d) \/ Panic(d)
          \/ \E ok \in BOOLEAN : OpenDir(d, ok)
          \/ \E h \in Hashes :
                \/ ScanOther(d, h)
                \/ \E f \in SUBSET BodyCalls(d, h) : ScanBody(d, h, f)
                \/ \E f \in SUBSET {"probe", "read", "stat"} : ScanMeta(d, h, f)

ScanSpec == ScanInit /\ [][ScanNext]_scanVars

-----------------------------------------------------------------------------
(***************************************************************************)
(* Properties                                                              *)
(***************************************************************************)
HashDirs == {d \in Dirs : IsHashDir(d)}

InScope == {k \in Dirs \X Hashes : IsHashDir(k[1])}

Done == scan_pc = "done"

\* The scan is in a known phase, its tasks come from the walk and its faults
\* stay within their bound.
ScanTypeOK ==
    /\ scan_pc \in {"read_objects", "walk", "pump", "done", "failed"}
    /\ pending \cup InFlight \subseteq dirs /\ dirs \subseteq HashDirs
    /\ \A d \in Dirs : scan_task[d].st \in {"none", "open", "scan", "ok", "err"}
    /\ reported \in {"none", "complete", "incomplete", "join"}
    /\ scan_faults \in 0..MaxScanFaults

\* At most max_in_flight tasks are alive, and a finished pump has the result
\* of every directory it was given, of each once (bounded_parallel_scan).
PumpExact ==
    /\ Cardinality(InFlight) <= Cap
    /\ Done => /\ Len(results) = Cardinality(dirs)
               /\ {results[i][1] : i \in DOMAIN results} = dirs

\* load_next_fill_id takes the maximum for the last fill_id ever used unless
\* the scan says it is incomplete: then no metadata on disk has a larger one,
\* and an empty scan means an empty disk.
FillIdSound ==
    Done /\ ~scan.fill_id_incomplete =>
        /\ \A k \in InScope : metas[k] # Corrupt
        /\ scan.max_fill_id = Max({0} \cup {metas[k] : k \in {k \in InScope : metas[k] # Absent}})
        /\ ~scan.saw_cache_files => \A d \in HashDirs : Files(d) = {}

DiskBytes ==
    BodySize * Cardinality(bodies \cap InScope)
      + MetaSize * Cardinality({k \in InScope : metas[k] # Absent})

\* The totals never count a byte twice or one that is gone, and without a
\* failing call they are what is on disk, whatever the order in which the
\* files of a directory are listed.
BytesSound ==
    Done => /\ scan.total_bytes <= DiskBytes
            /\ scan_faults = 0 => /\ scan.total_bytes = DiskBytes
                             /\ scan.entry_count =
                                   Cardinality({k \in bodies \cap InScope : metas[k] # Absent})

\* "rather than silently treating it as zero": an orphan body that could not
\* be removed is in the totals, or the scan reports itself incomplete.
OrphansAccounted ==
    Done /\ reported = "complete" =>
        scan.unreclaimed_bytes
          = BodySize * Cardinality({k \in bodies \cap InScope : metas[k] = Absent})

\* A walk that succeeds in strict mode, or is complete in the other, has
\* found every hash directory, and only those.
WalkComplete ==
    scan_pc \in {"pump", "done"} /\ (scan_mode = "Strict" \/ ~incomplete) => dirs = HashDirs

(* A finished scan reports what is on disk, or that it is incomplete,         *)
(* whichever system calls failed and in whatever order the directories and   *)
(* their files come: the largest fill_id, the bytes and the orphans, every   *)
(* directory of the walk, and every result of the pump once.                 *)
ScanSound ==
    ScanTypeOK /\ FillIdSound /\ BytesSound /\ OrphansAccounted /\ PumpExact /\ WalkComplete
=============================================================================
