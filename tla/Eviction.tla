------------------------------ MODULE Eviction ------------------------------
(***************************************************************************)
(* The eviction loop (src/cache/eviction.rs) against concurrent fills,     *)
(* purges and access-time rewrites.                                        *)
(*                                                                         *)
(* A pass lists the cache files, reads them without locks, repairs what    *)
(* looked broken under the per-key metadata lock, stores the totals it     *)
(* found, and evicts the least recently used entries under that lock until *)
(* its own count of bytes is within the budget.  Everything it decides on  *)
(* was read earlier; every file operation may fail.                        *)
(*                                                                         *)
(* A hash names three files: the body (its size), the metadata (MetaBytes  *)
(* long) and the empty .poisoned marker.  Names in Junk have a malformed   *)
(* stem: no cache operation creates or touches them.                       *)
(***************************************************************************)
EXTENDS Integers, FiniteSets

CONSTANTS
  Hashes,      \* well-formed names
  Junk,        \* names with a malformed stem
  Sizes,       \* body sizes
  MaxBytes,    \* the configured budget
  MaxFills,    \* bound on commits
  MaxTime,     \* bound on last_accessed_at
  MaxOps,      \* bound on purges and access-time rewrites
  MaxFaults,   \* bound on failing file operations
  None, Corrupt

ASSUME SizeAssumption == Sizes \subseteq Nat \ {0} /\ MaxBytes \in Nat
ASSUME BoundAssumption == {MaxFills, MaxTime, MaxOps, MaxFaults} \subseteq Nat
ASSUME NameAssumption == IsFiniteSet(Hashes \cup Junk) /\ Hashes \cap Junk = {}

Names == Hashes \cup Junk

Entries == [fill : 0 .. MaxFills, at : 0 .. MaxTime]

ASSUME ValueAssumption ==
  None \notin Nat /\ None # Corrupt /\ None \notin Entries /\ Corrupt \notin Entries

VARIABLES
  body,        \* size of the .body file, or None
  meta,        \* [fill, at] of the .meta.json file, Corrupt, or None
  poison,      \* the .poisoned marker exists
  busy,        \* what a cache operation that holds the metadata lock does next
  fills, ops,
  phase,       \* "idle", "scan", "clean", "evict", "done" or "failed"
  todo,        \* directory entries the scan has not reached
  seen,        \* metadata read by the scan whose body is not yet stat'ed
  deferred,    \* DeferredCleanup items
  candidates,  \* EvictionCandidate items not yet tried
  scanned,     \* scan_total_bytes and scan_entry_count
  current,     \* current_size of the eviction loop
  stats,       \* CacheStats: total_bytes, entry_count
  quiet,       \* history: no cache operation since the pass began
  faults

fileVars == <<body, meta, poison>>
cacheVars == <<busy, fills, ops>>
passVars == <<phase, todo, seen, deferred, candidates, scanned, current, stats>>
vars == <<fileVars, cacheVars, passVars, quiet, faults>>

MetaBytes == 1

Readable(m) == m # None /\ m # Corrupt
BodyBytes(n) == IF body[n] = None THEN 0 ELSE body[n]
MetaBytesOf(n) == IF meta[n] = None THEN 0 ELSE MetaBytes
EntryBytes(n) == BodyBytes(n) + MetaBytesOf(n)

\* The sum of the sizes w[x]: so many bytes there are, if those of x are
\* numbered from 1 to w[x].
SumOf(w) == Cardinality(UNION {{x} \X (1 .. w[x]) : x \in DOMAIN w})

DiskBytes == SumOf([n \in Names |-> EntryBytes(n)])

Sub(a, b) == IF a < b THEN 0 ELSE a - b      \* saturating_sub

\* What a crash, a failed clean-up or another program may have left behind.
Init ==
  /\ body \in [Names -> Sizes \cup {None}]
  /\ meta \in [Names -> {None, Corrupt} \cup [fill : {0}, at : 0 .. MaxTime]]
  /\ poison \in [Names -> BOOLEAN]
  /\ busy = [n \in Hashes |-> "free"]
  /\ fills = 0 /\ ops = 0
  /\ phase = "idle"
  /\ todo = {} /\ seen = {} /\ deferred = {} /\ candidates = {}
  /\ scanned = [bytes |-> 0, entries |-> 0]
  /\ current = 0
  /\ stats = [bytes |-> DiskBytes, entries |-> 0]
  /\ quiet = TRUE
  /\ faults = 0
-----------------------------------------------------------------------------
(* The cache (DiskCache), as far as the evictor can notice it.  busy[n] is   *)
(* "free" when nobody but the evictor can hold the metadata lock of n.       *)

\* commit_fill under the metadata lock: the old files are moved aside ...
CommitBackup(n) ==
  /\ busy[n] = "free" /\ fills < MaxFills
  /\ busy' = [busy EXCEPT ![n] = "body"]
  /\ fills' = fills + 1
  /\ body' = [body EXCEPT ![n] = None]
  /\ meta' = [meta EXCEPT ![n] = None]
  /\ UNCHANGED <<poison, ops>>

\* ... then the new body and the new metadata are renamed into place, and the
\* poison marker is cleared.
CommitPublish(n) ==
  \/ /\ busy[n] = "body"
     /\ busy' = [busy EXCEPT ![n] = "meta"]
     /\ \E s \in Sizes : body' = [body EXCEPT ![n] = s]
     /\ UNCHANGED <<meta, poison, fills, ops>>
  \/ /\ busy[n] = "meta"
     /\ busy' = [busy EXCEPT ![n] = "free"]
     /\ \E t \in 0 .. MaxTime : meta' = [meta EXCEPT ![n] = [fill |-> fills, at |-> t]]
     /\ poison' = [poison EXCEPT ![n] = FALSE]
     /\ UNCHANGED <<body, fills, ops>>

\* purge_inner: the body first, then the metadata.
Purge(n) ==
  \/ /\ busy[n] = "free" /\ ops < MaxOps
     /\ ops' = ops + 1
     /\ busy' = [busy EXCEPT ![n] = "purge"]
     /\ body' = [body EXCEPT ![n] = None]
     /\ UNCHANGED <<meta, poison, fills>>
  \/ /\ busy[n] = "purge"
     /\ busy' = [busy EXCEPT ![n] = "free"]
     /\ meta' = [meta EXCEPT ![n] = None]
     /\ poison' = [poison EXCEPT ![n] = FALSE]
     /\ UNCHANGED <<body, fills, ops>>

\* rewrite_last_accessed
Touch(n) ==
  /\ busy[n] = "free" /\ ops < MaxOps
  /\ Readable(meta[n]) /\ meta[n].at < MaxTime
  /\ ops' = ops + 1
  /\ meta' = [meta EXCEPT ![n].at = MaxTime]
  /\ UNCHANGED <<body, poison, busy, fills>>

CacheStep ==
  /\ \E n \in Hashes : CommitBackup(n) \/ CommitPublish(n) \/ Purge(n) \/ Touch(n)
  /\ quiet' = FALSE
  /\ UNCHANGED <<passVars, faults>>
-----------------------------------------------------------------------------
(* The scan: collect_hash_dirs_strict, scan_hash_dir_for_eviction.           *)

Faulty(n) == faults + n <= MaxFaults /\ faults' = faults + n
Works == UNCHANGED faults

Files == {<<n, "body">> : n \in {m \in Names : body[m] # None}}
           \cup {<<n, "meta">> : n \in {m \in Names : meta[m] # None}}
           \cup {<<n, "poison">> : n \in {m \in Names : poison[m]}}

\* The objects directory is probed, walked and listed.  A probe that fails
\* skips the pass, an error of the walk fails it; without any shard the statistics become zero, which is what
\* the scan of an empty listing stores too.
StartPass ==
  /\ phase = "idle"
  /\ \/ /\ Works
        /\ phase' = "scan"
        /\ todo' = Files
        /\ scanned' = [bytes |-> 0, entries |-> 0]
        /\ quiet' = (\A n \in Hashes : busy[n] = "free")
     \/ /\ Faulty(1)
        /\ phase' \in {"idle", "failed"}
        /\ UNCHANGED <<todo, scanned, quiet>>
  /\ UNCHANGED <<fileVars, cacheVars, seen, deferred, candidates, current, stats>>

\* An error of the walk, the scan or a clean-up ends the pass: the statistics
\* stay as they were and the loop waits for its next tick.
Abort ==
  /\ phase' = "failed"
  /\ todo' = {} /\ seen' = {} /\ deferred' = {} /\ candidates' = {}
  /\ UNCHANGED <<scanned, current, stats>>

Defer(kind, n) == deferred' = deferred \cup {[kind |-> kind, name |-> n]}

Found(n, m, sz) == [name |-> n, fill |-> m.fill, at |-> m.at, size |-> sz + MetaBytes]

Count(sz) == scanned' = [bytes |-> scanned.bytes + sz, entries |-> scanned.entries + 1]

\* A body or a poison marker: only its metadata's absence is of interest.
ScanSideFile(n, kind) ==
  /\ <<n, kind>> \in todo /\ kind # "meta"
  /\ todo' = todo \ {<<n, kind>>}
  /\ IF meta[n] = None THEN Defer(kind, n) ELSE UNCHANGED deferred
  /\ Works
  /\ UNCHANGED <<phase, seen, candidates, scanned, current, stats>>

\* The metadata is read and parsed; the body is stat'ed in a later step.
ScanMeta(n) ==
  /\ <<n, "meta">> \in todo
  /\ todo' = todo \ {<<n, "meta">>}
  /\ \/ meta[n] = None /\ UNCHANGED <<deferred, seen>>
     \/ meta[n] = Corrupt /\ Defer("corrupt", n) /\ UNCHANGED seen
     \/ Readable(meta[n]) /\ n \in Junk /\ Defer("malformed", n) /\ UNCHANGED seen
     \/ /\ Readable(meta[n]) /\ n \in Hashes
        /\ seen' = seen \cup {[name |-> n, meta |-> meta[n]]}
        /\ UNCHANGED deferred
  /\ Works
  /\ UNCHANGED <<phase, candidates, scanned, current, stats>>

ScanBodySize(s) ==
  /\ seen' = seen \ {s}
  /\ IF body[s.name] = None
       THEN Defer("missing", s.name) /\ UNCHANGED <<candidates, scanned>>
       ELSE /\ candidates' = candidates \cup {Found(s.name, s.meta, body[s.name])}
            /\ Count(body[s.name] + MetaBytes)
            /\ UNCHANGED deferred
  /\ Works
  /\ UNCHANGED <<phase, todo, current, stats>>

ScanStep ==
  /\ phase = "scan"
  /\ \/ \E n \in Names : ScanMeta(n) \/ \E k \in {"body", "poison"} : ScanSideFile(n, k)
     \/ \E s \in seen : ScanBodySize(s)
     \/ (todo # {} \/ seen # {}) /\ Faulty(1) /\ Abort
  /\ UNCHANGED <<fileVars, cacheVars, quiet>>

ScanDone ==
  /\ phase = "scan" /\ todo = {} /\ seen = {}
  /\ phase' = "clean"
  /\ UNCHANGED <<fileVars, cacheVars, todo, seen, deferred, candidates, scanned,
                 current, stats, quiet, faults>>
-----------------------------------------------------------------------------
(* process_deferred_cleanups: one item at a time, under its metadata lock.   *)

Bytes(n, f) == IF f = "body" THEN BodyBytes(n) ELSE MetaBytesOf(n)

\* Mutant: a file that could not be removed is forgotten.
UnreclaimedForgotten(n, f) == 0

\* remove_file_or_reclaim_size when the removal fails: the size measured after
\* it, or else before it.
Unreclaimed(n, f) == Bytes(n, f)

\* The files fs of n that stay; a poison marker is empty.
UnreclaimedBytes(n, fs) ==
  (IF "body" \in fs THEN Unreclaimed(n, "body") ELSE 0)
    + (IF "meta" \in fs THEN Unreclaimed(n, "meta") ELSE 0)

Present(n) == (IF body[n] # None THEN {"body"} ELSE {})
                \cup (IF meta[n] # None THEN {"meta"} ELSE {})
                \cup (IF poison[n] THEN {"poison"} ELSE {})

Delete(n, fs) ==
  /\ body' = IF "body" \in fs THEN [body EXCEPT ![n] = None] ELSE body
  /\ meta' = IF "meta" \in fs THEN [meta EXCEPT ![n] = None] ELSE meta
  /\ poison' = IF "poison" \in fs THEN [poison EXCEPT ![n] = FALSE] ELSE poison

\* The files fs are removed one after the other (remove_entry_files or part of
\* it).  A file that stays counts toward the scan total; if neither stat of it
\* works (three failures) the pass ends with what was removed before.
CleanFiles(n, fs) ==
  LET old == fs \cap Present(n)
  IN  \/ \E bad \in SUBSET old :
           /\ Faulty(Cardinality(bad))
           /\ Delete(n, old \ bad)
           /\ scanned' = [scanned EXCEPT !.bytes = @ + UnreclaimedBytes(n, bad)]
           /\ UNCHANGED <<phase, todo, seen, candidates, current, stats>>
      \/ \E gone \in SUBSET old :
           /\ gone # old /\ Faulty(3)
           /\ Delete(n, gone)
           /\ Abort

Skip == UNCHANGED <<fileVars, phase, todo, seen, candidates, scanned, current, stats>>

CleanOrphanBody(n) ==
  \/ meta[n] = None /\ CleanFiles(n, {"body"})
  \/ meta[n] # None /\ Works /\ Skip
  \* metadata not known: count the body, or give up if that is not known either
  \/ /\ Faulty(1)
     /\ scanned' = [scanned EXCEPT !.bytes = @ + BodyBytes(n)]
     /\ UNCHANGED <<fileVars, phase, todo, seen, candidates, current, stats>>
  \/ body[n] # None /\ Faulty(2) /\ Abort /\ UNCHANGED fileVars

CleanOrphanPoison(n) ==
  \/ meta[n] = None /\ CleanFiles(n, {"poison"})
  \/ meta[n] # None /\ Works /\ Skip
  \/ Faulty(1) /\ Skip

\* try_recover_entry: both files are there and the metadata parses.
Recovered(n) == body[n] # None /\ Readable(meta[n])

\* The arms for corrupt entries and for missing bodies.  Metadata that has
\* vanished beside a body is a read error like any other.
CleanOrRecover(n) ==
  \/ body[n] = None /\ CleanFiles(n, {"meta", "poison"})
  \/ body[n] # None /\ meta[n] = Corrupt /\ CleanFiles(n, {"meta", "body", "poison"})
  \/ /\ Recovered(n)
     /\ Works
     /\ candidates' = candidates \cup {Found(n, meta[n], body[n])}
     /\ Count(body[n] + MetaBytes)
     /\ UNCHANGED <<fileVars, phase, todo, seen, current, stats>>
  \/ body[n] # None /\ meta[n] = None /\ Works /\ Abort /\ UNCHANGED fileVars
  \/ Faulty(1) /\ Abort /\ UNCHANGED fileVars

CleanStep ==
  /\ phase = "clean"
  /\ \E d \in deferred :
       LET n == d.name
       IN  /\ n \in Hashes => busy[n] = "free"
           /\ CASE d.kind = "body" -> CleanOrphanBody(n)
                [] d.kind = "poison" -> CleanOrphanPoison(n)
                [] d.kind = "malformed" -> CleanFiles(n, {"meta", "body", "poison"})
                [] d.kind \in {"corrupt", "missing"} -> CleanOrRecover(n)
           /\ deferred' = IF phase' = "failed" THEN {} ELSE deferred \ {d}
  /\ UNCHANGED <<cacheVars, quiet>>

\* collect_candidates ends: the statistics become what the scan found.
Reconcile ==
  /\ phase = "clean" /\ deferred = {}
  /\ phase' = "evict"
  /\ stats' = scanned
  /\ current' = scanned.bytes
  /\ UNCHANGED <<fileVars, cacheVars, todo, seen, deferred, candidates, scanned,
                 quiet, faults>>
-----------------------------------------------------------------------------
(* try_evict_candidate, oldest candidate first.                              *)

\* Mutant: the entry found under the lock is not compared with the candidate.
ChangedNever(c) == FALSE

\* The entry was replaced or read since the scan.
Changed(c) ==
  LET m == meta[c.name]
  IN  Readable(m) /\ (m.fill # c.fill \/ m.at # c.at)

\* The budget with candidate c's share replaced by what is really there.
Remeasured(c, bytes) == Sub(current, c.size) + bytes

SkipChanged(c) ==
  /\ Changed(c)
  /\ \/ Works /\ current' = Remeasured(c, EntryBytes(c.name))
     \/ Faulty(1) /\ UNCHANGED current
  /\ UNCHANGED <<fileVars, stats>>

SkipUnreadable(c) ==
  /\ meta[c.name] # None /\ Faulty(1)
  /\ UNCHANGED <<fileVars, current, stats>>

\* The budget after a failed removal: what is left, if it can be measured.  The
\* failing stat is not counted as a fault of its own.
PartlyEvicted(c, left) ==
  \/ current' = Remeasured(c, left)
  \/ faults' < MaxFaults /\ UNCHANGED current

EvictUnchanged(c) ==
  LET n == c.name
  IN
  /\ ~Changed(c)
  /\ \E bad \in SUBSET (Present(n) \ {"poison"}) :
       LET gone == (Present(n) \ {"poison"}) \ bad
           either == {"body", "meta"} # bad
       IN  /\ Faulty(Cardinality(bad))
           /\ \/ Delete(n, gone \cup IF either THEN {"poison"} ELSE {})
              \/ faults' < MaxFaults /\ Delete(n, gone)
           /\ IF bad = {}
                THEN /\ current' = Sub(current, c.size)
                     /\ stats' = [bytes |-> Sub(stats.bytes, c.size),
                                  entries |-> Sub(stats.entries, 1)]
                ELSE /\ PartlyEvicted(c, UnreclaimedBytes(n, bad))
                     /\ UNCHANGED stats

\* Mutant: the loop does not stop at the budget.
OverBudgetAlways == current > 0

OverBudget == current > MaxBytes

Oldest == {c \in candidates : \A d \in candidates : c.at <= d.at}

EvictStep ==
  /\ phase = "evict" /\ OverBudget
  /\ \E c \in Oldest :
       /\ busy[c.name] = "free"
       /\ SkipChanged(c) \/ SkipUnreadable(c) \/ EvictUnchanged(c)
       /\ candidates' = candidates \ {c}
  /\ UNCHANGED <<cacheVars, phase, todo, seen, deferred, scanned, quiet>>

EvictDone ==
  /\ phase = "evict"
  /\ ~OverBudget \/ candidates = {}
  /\ phase' = "done"
  /\ UNCHANGED <<fileVars, cacheVars, todo, seen, deferred, candidates, scanned,
                 current, stats, quiet, faults>>

\* Mutant: an error ends the loop.
TickAfterSuccess ==
  /\ phase = "done"
  /\ phase' = "idle" /\ candidates' = {} /\ current' = 0
  /\ scanned' = [bytes |-> 0, entries |-> 0]
  /\ UNCHANGED <<fileVars, cacheVars, todo, seen, deferred, stats, quiet, faults>>

\* run_eviction_loop: an error is logged, and the next tick starts over.
Tick ==
  /\ phase \in {"done", "failed"}
  /\ phase' = "idle" /\ candidates' = {} /\ current' = 0
  /\ scanned' = [bytes |-> 0, entries |-> 0]
  /\ UNCHANGED <<fileVars, cacheVars, todo, seen, deferred, stats, quiet, faults>>

PassStep == StartPass \/ ScanStep \/ ScanDone \/ CleanStep \/ Reconcile
              \/ EvictStep \/ EvictDone \/ Tick

Next == CacheStep \/ PassStep

Spec == Init /\ [][Next]_vars
-----------------------------------------------------------------------------
(* Properties.                                                               *)

(* The files and the pass have the shape the code gives them.                *)
TypeOK ==
  /\ body \in [Names -> (Nat \ {0}) \cup {None}]
  /\ meta \in [Names -> Entries \cup {None, Corrupt}]
  /\ deferred \subseteq [kind : {"body", "poison", "corrupt", "malformed", "missing"},
                         name : Names]
  /\ candidates \subseteq [name : Names, fill : 0 .. MaxFills, at : 0 .. MaxTime, size : Nat]
  /\ current \in Nat /\ stats \in [bytes : Nat, entries : Nat]

Complete(n) == Readable(meta[n]) /\ body[n] # None

(* The evictor removes a file of a complete entry only if the entry is still *)
(* the one the scan saw: never one that a fill has published or a read has   *)
(* refreshed since, and never in the name of a clean-up.                     *)
SparesLiveEntries ==
  [][UNCHANGED cacheVars =>
       \A n \in Hashes :
         Complete(n) /\ (body'[n] = None \/ meta'[n] = None) =>
           \E c \in candidates :
             c.name = n /\ c.fill = meta[n].fill /\ c.at = meta[n].at]_vars

(* When no cache operation overlapped a pass, the budget it ends with and    *)
(* the statistics it leaves cover every byte on disk, whichever reads,       *)
(* stats and removals failed on the way ("silently zeroing it would          *)
(* undercount").                                                             *)
BudgetCovers ==
  /\ TypeOK
  /\ phase = "done" /\ quiet => current >= DiskBytes /\ stats.bytes >= DiskBytes

EvictionNeeded ==
  phase = "evict" /\ candidates' # candidates /\ quiet /\ faults' = 0 =>
    DiskBytes > MaxBytes

(* Without failures and overlapping operations an eviction starts only while *)
(* the disk really holds more than max_bytes, so the pass removes no more    *)
(* entries than it must.                                                     *)
EvictsNoMore == [][EvictionNeeded]_vars

\* The loop ticks for ever, and a cache operation under way goes on.
Fairness ==
  /\ WF_vars(PassStep)
  /\ \A n \in Hashes : WF_vars(busy[n] # "free" /\ CacheStep)

FairSpec == Spec /\ Fairness

WithinBudget == DiskBytes <= MaxBytes

(* After any leftovers, failures and races of the past the cache comes back  *)
(* within its budget and stays there.                                        *)
BudgetRestored == <>[]WithinBudget
=============================================================================
