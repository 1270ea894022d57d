# tiny-s3-proxy in TLA+

tiny-s3-proxy is a caching S3 proxy. It authenticates S3 requests, serves GET and
HEAD from a disk cache, coalesces concurrent misses, forwards writes to the backend
and invalidates the cache before it acknowledges them. This directory holds TLA+
models of that logic, the TLC runs that check them, and TLAPS proofs of the parts
that are proved for every size. `PROJECT.json` lists components, runs, mutants, the
map from definitions to source lines, findings, hazards and theorems.

## The system

| Component | State | Operations | Interacts with |
|---|---|---|---|
| Disk cache (`cache/disk.rs`) | body, metadata and poison files; `active_fills` (refcount, generation, commit lock per key); metadata locks; poisoned hashes; statistics | `lookup`/`peek`/`peek_body`, `begin_fill`, `commit_fill`, `abort_fill`, `purge(_if_unchanged)`, `poison(_if_unchanged)`, `update_metadata_if_unchanged`, `note_hit` | every handler; eviction |
| fill_id allocator (`cache/disk.rs`) | in-memory counter, `.fill_id_counter` | `reserve_fill_id`, `persist_fill_id_counter`, `load_next_fill_id` | `commit_fill`, startup scan |
| Metadata lock map (`cache/disk.rs`) | one reference-counted mutex per hash | look up, lock, drop, `sweep_stale_meta_locks` | all cache methods, eviction |
| Singleflight (`cache/singleflight.rs`) | registry of flights, generations, broadcast channels | `try_acquire`, `complete`, drop, `cancel` | GET handler, invalidation |
| Eviction (`cache/eviction.rs`) | candidates and deferred clean-ups of one pass, byte budget | scan, clean up, evict | disk cache |
| Startup (`disk.rs`, `scan.rs`, `layout.rs`, `tmp_sweep.rs`) | totals, lock on the directory | lock, sweep of `tmp`, walk, pump, scan | disk cache, fill_ids |
| GET handler (`handlers/get.rs`) | the request's future, a spawned tee task | probe, lead, follow, tee, stale-on-error, checksum refresh | cache, singleflight, backend |
| HEAD handler (`handlers/head.rs`) | the request's future | cached answer, refresh, 404 handling with retry | cache, backend |
| Write handlers (`put.rs`, `delete.rs`, `multipart.rs`, `aws_chunked.rs`) | the request's future, the upload spool | decode, backend write, `invalidate_cache_key`, response | cache, singleflight, backend |
| Dispatch (`handlers/mod.rs`, `modifiers.rs`, `s3/parse.rs`) | metrics | checks, parse, typed path or raw passthrough | all handlers |
| aws-chunked decoder (`s3/aws_chunked.rs`) | position in the stream, signature chain | framing, signatures, trailer | upload handlers |
| Backend client (`backend/`, `passthrough.rs`) | the attempt | S3 calls with timeouts and retries | S3 |
| Authentication (`auth/`) | credentials file | parse, canonicalise, verify, look up | dispatch, decoder |
| Process (`main.rs`, `config.rs`, `admin/`, `cache/perms.rs`) | listeners, signal task | validate, start, drain, exit; make directories | everything |

What is hard here: requests for one key run concurrently and share files; every
file operation can fail and the process can die between any two of them; a client
that disconnects drops its handler at an await, which releases locks while a file
operation already given to the blocking pool still runs; fills overlap writes;
metadata is updated, and entries are evicted, on copies read earlier; attempts that
timed out may be carried out later; bodies arrive split anywhere; what one file
decides to forward another file must really forward; and the failure of an
invalidation must itself fail closed.

What makes the components correct:

- cache: no torn entry; a fill that a write overtook publishes nothing; conditional
  operations touch only what their caller saw; no lost metadata update; every call
  returns; one task at a time in a key's critical section.
- fill_ids: never reused, since they are the compare-and-swap fence.
- singleflight: one leader, no flight without an owner, no lost wake-up.
- eviction and scan: no byte drops out of the budget unnoticed, no live entry is
  removed, the budget is restored.
- reads and writes together: no answer is older than a write that was acknowledged
  before the request began.
- requests: nothing the client said is lost but what the parser cannot keep, nothing
  unchecked is forwarded, and a decoded body is exactly what was signed.
- authentication: what is accepted was signed by the holder of the credential, in
  time; what conforms is accepted.
- backend calls: no write that is not idempotent is carried out twice; calls end.

## Modules

Cache:

- `FreshIds`: what the fill_id allocator promises, as an abstract specification.
  `FillIdCounter`: the allocator step by step (reserve in memory, rename, directory
  fsync, publish), with `survivors`, the set of values a crash may leave in the
  counter file.
- `DiskCache`: one key of the disk cache. An action is the code between two points
  where another task can interfere or a crash can leave the files half way. `pc` is
  the position in a method, `loc` its locals, `entry` the heap objects behind
  `active_fills` (a task can hold one that left the map). A version stands for an
  object's content and its ETag. `detached` holds the file operations of dropped calls
  that the blocking pool has still to run: the unlink of a body, of metadata or of a
  poison marker, the write of a marker, the rename of new metadata. `DiskCacheProofs`: registrations and locks.
  `DiskFilesProofs`: what happens to the files.
- `MetaLocks`: the mutexes of one hash with their reference counts and the sweep
  that removes them. DiskCache relies on the exclusion proved of them and has one lock per key.
- `SingleFlight`: one key's registry and channels.
- `Eviction`: an eviction pass, from the listing to the last eviction, against
  fills, purges and access-time rewrites that are atomic in their critical sections.
  `EvictionProofs`: its theorems.
- `StartupScan`: the walk of `objects/XX/YY`, the pump, what one directory
  contributes, the totals.
- `TmpFiles`: proxies that share a directory, its lock, the sweep of `tmp` and the
  writers of temporary files. A dropped request leaves the metadata file of a refresh
  and the readiness probe, which have no guard, and an upload spool that was just being
  opened; bodies and the counter's file belong to the spawned tee and are not dropped
  with a request (`spawn_cache_tee`, from which alone `commit_fill` is called).

Handlers:

- `CacheCoherence`: EXTENDS DiskCache and instantiates SingleFlight; the GET handler
  and the write handlers as the callers, and a backend whose content is a version
  number. `stage` is the position in the handler; a DiskCache method runs while `pc`
  is not idle. `CacheCoherenceProofs`: its theorems, on top of `DiskFilesProofs`.
- `MetadataRefresh`: HEAD and checksum-mode GET, on a cache whose methods are one
  step each. The tee of a fill is one commit step here; CacheCoherence has it step
  by step. `MetadataRefreshProofs`: its theorems.
- `Requests` (a request, `parse_request`, the routes of `modifiers.rs`) and
  `Dispatch` (`handle_s3_request` with the handler of each operation, what reaches
  the backend and what of the answer reaches the client). The verifier's result is
  an input.
- `AwsChunked`: the decoder, one read or one line at a time.
- `MultipartXml`: the two readers of a CompleteMultipartUpload body, over XML
  events.
- `BackendRetry`: `with_retry` and the raw loops, on a network that keeps an attempt
  until the backend processes it.

Authentication and process:

- `Credentials` (file, lookup, gates), `SigV4` (both verifiers, in the header and in
  the query, as functions of a request), `InboundAuth` (a client that signs by its
  own definitions, changes on the way, the verdict), `CredentialStore` (the file is
  loaded and consulted), `CanonicalForm` (canonical query and header values byte by
  byte), `SigV4aKdf` (the key derivation on numbers of few digits).
- `Lifecycle` (configuration, start, drain, exit; each receiver of the shutdown channel
  is created in a step of its own, before the signal task is spawned), `Endpoints` (the endpoint as a
  sequence of characters and its redaction), `SecureDirs` (concurrent creation of
  directories).

`PartsProofs` proves the modules of `MCParts` (`FillIdCounter`, `SingleFlight`,
`MetaLocks`, `BackendRetry`), `ProcessProofs` those of `MCProcess` (`TmpFiles`,
`SecureDirs`, `Lifecycle`, `StartupScan`), `RequestProofs` the path of a request
(`Requests`, `Dispatch`) and the credential file (`Credentials`, `CredentialStore`).

The `MC...` modules make instances for TLC. `MCParts`, `MCProcess`, `MCRequests` and
`MCAuth` hold several modules each: parts that share no state in the program, so
that their interleavings show nothing new. A variable `part` is chosen in the
initial state and only that part moves. A property of several parts is a conjunction
guarded by `part`. `MCCacheCoherence`, `MCEviction`
and `MCMetadataRefresh` choose between instances of one module in the same way.

Keys share only the allocator, the statistics and the eviction budget, so one key
with several tasks is the unit of interleaving; `OtherEntries` stands for the rest
of the cache in `entry_count`. Access-time rewrites and HEAD refreshes are in
`DiskCache` and left out of `CacheCoherence`, where they cannot change which version
is served.

Definitions commented `Mutant:` are wrong versions of the definition that follows
them. No specification uses them; each replaces its original in one check, which
must then fail, to show that the property depends on the code.

## Runs

| Run | Instance | Properties |
|---|---|---|
| `parts` | 2 committers, ids below 5, up to 2 legacy entries; 3 requests, 3 flights, 1 cancel; 3 users of a lock, 3 mutexes; every backend operation, 2 attempts; 2 tasks in the disk cache | `NoReuse` (refinement of FreshIds), `NoCollision`; `OneLeader`, `NoOrphanFlight`, `FollowersWake`; `MutualExclusion`; `CallsSound`, `CallsFinish`; `MethodsReturn` |
| `disk_files` | 2 tasks, 2 versions, 2 fills, 1 failure of any kind (file operation, crash, dropped call); a HEAD refresh and access times | `NoTornEntry`, `CountExact`, `FillsFenced`, `ConditionalHitsTarget`, `NoLostUpdate`, `HeadStateKept` |
| `coherence` | 3 tasks, 3 GETs, 1 write without failures; 2 tasks with up to 2 failing file operations, 1 restart and 1 dropped call, for 2 GETs and 1 write (2 of these in all), and for 1 GET and 2 writes (3 in all) | `FreshReads`, `ServableFresh` |
| `metadata_refresh` | two HEADs, two GETs (2 versions, 1 failure each), or a HEAD and a GET (3 versions, 2 ETags) | `AnswersExact`, `AnswersFresh`, `EvidenceIsNewer`, `EnrichmentKept` |
| `eviction` | 1 hash and a malformed name with racing operations; 2 hashes with 2 failures | `BudgetCovers`, `SparesLiveEntries`, `EvictsNoMore`, `BudgetRestored` |
| `process` | 2 directories with every pair of files, 4 directories of every kind; 2 proxies with one process id; every odd name of 3 segments; 2 calls on a path of 3 levels; every configuration, signals at every step | `ScanSound`, `TmpFilesKept`, `NamesSafe`, `DirsShared`, `ServesAsConfigured`, `WorkEnds` |
| `requests` | every pair of header classes and triple of parameters on every operation, values that are not text, signed streams on every operation, the orders of stream markers; bodies up to 3 bytes made of CR and LF, reads of 1 or 2; documents of 2 parts with 2 events off the schema | `NothingLost`, `OnlyVerified`, `DecodesExactly`, `PartsExact` |
| `auth` | SigV4 and SigV4A in header and query, one change on the way, clock 1 to 4; files of 2 entries; queries and values of 6 bytes; scalars of 3 base-4 digits; endpoints of 7 characters | `OnlyAuthentic`, `AcceptsConforming`, `TextSound`, `LookupsSound`, `KeysDerived` |
| `disk_double_fault` | 2 failing file operations | violation of `NoTornEntry` |
| `disk_late_rename` | 1 dropped HEAD refresh | violation of `NoTornEntry` |
| `coherence_raw` | raw passthrough writes | violation of `FreshReads` |
| `coherence_lost_marker` | 2 writes, 2 failing file operations, 1 restart and 1 dropped purge | violation of `ServableFresh` |

Every property is explained at its definition. Most of the work is in these:

- `FreshReads`, `AnswersFresh`: no answer, whether hit, miss, 404, refresh or stale on
  error, is older than a write acknowledged before the request began.
- `FillsFenced`: from `begin_fill` to the publish the fill's registration is the one
  purges see, so no purge is missed.
- `SparesLiveEntries`: between scan and eviction an entry may have been refilled or
  read; then it stays.
- `NothingLost`: the routing gates and the header lists of the typed calls agree. What
  the parser cannot keep is named in the property (`UnkeptHeaders`, `UnkeptQuery`): on
  the typed routes it is lost, on the raw one it is not.
- `TmpFilesKept`: every file in `tmp` is in use, foreign, could not be removed, or was
  left by a request dropped since the start; the next start removes the last kind.
- `DecodesExactly`: for every split of the body, accepted exactly when a correct
  client, defined on its own, sends it.
- `OnlyAuthentic`, `AcceptsConforming`: the verifier against the client's own
  definition of signing. To conform a client signs `host`, an `x-amz-date` it carries,
  its token and, for SigV4A, the region set.
- `WorkEnds`: a signal ends the process also when it comes between the spawn of the
  signal task and the first poll of the servers; with the task spawned before the
  receivers exist (its mutant) a listener would never drain.

Why the bounds suffice: the races of the cache are between two parties on one key
(a fill and an invalidation, two updates, a leader and a follower); the third task
of `coherence` is the write that races both a leader and a follower. A second
write meets what the invalidation of the first left behind. With three of two failing
operations, a restart and a dropped call, `ServableFresh` holds; with all four it does
not (`coherence_lost_marker`). Two fills let one replace the other. Eviction has to choose with two entries. A chunk chain needs
two data chunks, the zero chunk and a trailer. `MaxFills`, `MaxGen`, `MaxRefs`,
`EntryIds`, `MaxLocks`, `MaxFlights`, `MaxVersions`, `MaxTime`, `MaxNames`,
`MaxActive`, `MaxMarkers` bound counters and sets; `MaxFaults`, `MaxScanFaults`,
`MaxCrashes`, `MaxCancels`, `MaxFailures`, `MaxLosses`, `MaxMeddling`, `MaxOdd` bound
what goes wrong. Where requests are used up a terminated system is a legal end state,
hence `CHECK_DEADLOCK FALSE` in those runs.

Fairness:

- `MethodsReturn`: strong fairness of each task's steps. Tokio runs every runnable
  task, and its mutexes are FIFO, so a task waiting for a lock that is released
  again and again gets it; weak fairness would not say so.
- `FollowersWake`: weak fairness of the leader's end (its backend call and its copy
  loop have timeouts), of spawned clean-ups and of woken receivers.
- `CallsFinish`: weak fairness of the proxy's own step; a wait ends with an answer
  or a timeout. Nothing is assumed of the backend.
- `BudgetRestored`: the eviction loop ticks for ever and a cache operation under way
  goes on. Failures and operations are finite in number.
- `WorkEnds`: tasks, `main` among them, are polled and accepted requests end. The last is an assumption
  about clients: the drain of `main.rs` has no limit, so a client that never reads its
  response keeps the process alive.

## Findings

1. `coherence_raw`: the repository's README (line 46) says writes purge the cache
   immediately. CopyObject, writes with headers the typed path cannot forward and
   multipart completions with checksums go to raw passthrough, which touches no
   cache.
2. `disk_double_fault`: when the metadata rename of a publish fails and the restore
   of the old body fails as well, the roll-back still restores the old metadata,
   next to the new body.
3. `disk_late_rename`: a HEAD refresh whose client disconnects during its rename
   releases the metadata lock; the rename happens later and puts old metadata next
   to a body published in between.
4. `coherence_lost_marker`: the repository's README (line 237) says the poison marker
   keeps stale data from being served and survives restarts. A purge whose client
   disconnects while it unlinks the marker (`disk.rs:1541`, `1584`, `1632`) releases its
   locks; the unlink happens later and erases the marker that the failed invalidation of
   a newer write has put there meanwhile. After a restart the old entry is served.

Beyond the bounds of `coherence`: a purge, its retry and the poison marker all
failing, followed by a restart, makes stale content servable again. The code says
so itself (`mod.rs:642`, logged as CRITICAL).

Smaller disagreements between comments and code, each with a configuration that
shows it (`tlc -config <cfg> <module>`; `MCDispatchDocs` has four invariants, all of
them false: add `-continue`):

| Configuration, module | The text | The code |
|---|---|---|
| `MCBackendRetryDelete`, `BackendRetry` | "Idempotent writes are safe to retry" (`backend/retry.rs:32`) | a DELETE that timed out and was repeated may be carried out after the repeat was answered, on an object written since |
| `MCDispatchDisconnect`, `MCDispatch` | the gauge counts "handlers currently executing" (`README.md:263`) | a handler dropped at an await never decrements it |
| `MCDispatchDocs`, `MCDispatch` (`FramingAnnounced`) | passthrough is "byte-for-byte" (`modifiers.rs:99`) | the sentinel that announces aws-chunked framing is stripped while the framed body is sent |
| same (`SubresourcesPassThrough`) | a request for a subresource is passed through (`s3/parse.rs:8-12`) | `attributes`, `publicAccessBlock`, `ownershipControls`, `policyStatus` and `session` are missing from the list: `GET ?attributes` is a GetObject without it |
| same (`StreamsVerified`) | signed streams are "verified chunk-by-chunk" (`README.md:206`, `211`) | only those of PutObject and UploadPart are; on another operation the body is passed on as it came, or ignored |
| same (`WriteModifiersKept`) | headers a typed write cannot preserve lead to passthrough (`modifiers.rs:1-2`) | a value that is not visible ASCII is skipped by the parser (`parse.rs:328`), so the gate does not see the header and the typed call goes out without it |
| `MCAuthDate`, `MCAuth` (`CarriedDateSigned`) | signed headers "must include `x-amz-date` when the request carries one" (`auth/sigv4/parser.rs:25`) | not checked; the date is bound by the string to sign all the same, so `OnlyAuthentic` holds |
| `MCTmpSpool`, `TmpFiles` | "removed exactly once" (`handlers/aws_chunked.rs:5`) | a request dropped while the spool is opened leaves the file until the next start |

Seen while modelling, without a configuration:

- `s3/aws_chunked.rs:364` says a signature is verified "before any decoded bytes are
  released", but the payload reaches the spool first (the spool is discarded on an
  error).
- `config.rs:71-73` and the comment at `auth/sigv4/presigned.rs:171-173` still call
  SigV4A "fail-closed". `README.md:209-211` says it is verified, and it is: the model
  follows the code and the README, and `AcceptsConforming` demands that SigV4A requests
  signed as prescribed are accepted.
- Of repeated `x-amz-*` values with one name the parser keeps the last; the typed
  CreateMultipartUpload does not return `x-amz-abort-date` and `x-amz-abort-rule-id`
  (`client.rs:873-902`). `NothingLost` excepts both by name.
- A CompleteMultipartUpload document that ends inside a Part is accepted without that
  Part, if it has a complete one.

## Proofs

A theorem holds for every value of the constants: any number of tasks, requests,
versions, faults, restarts. Where a property is not inductive, the invariant named
here is, and TLC checked it on a small instance before it was proved.

| Module | Inductive invariant | Theorems |
|---|---|---|
| `PartsProofs` | `IInv` (`CounterCorrect`) | `NeverReuses`, `NeverCollides` |
| | `SFInv` (`FlightsConsistent`) | `NeverOrphaned`, `SingleLeader` |
| | `LockInv` (`LocksConsistent`) | `LocksExclude` |
| | `RetryInv` (`CallsStayBounded`) | `CallsAreSound` |
| `DiskCacheProofs` | `FenceInv` (`DiskConsistent`) | `FillsAreFenced` |
| `DiskFilesProofs` | `IdInv` (`MetadataIdentified`), `FilesInv`, `CountInv` | `UpdatesKept`, `FillsKeepHeadState`, `InvalidationsHitTarget`, `EntriesNeverTorn`, `CountStaysExact` |
| `CacheCoherenceProofs` | `FreshInv` (`RequestsCoherent`) | `ReadsAreFresh`, `ServableIsFresh` |
| `MetadataRefreshProofs` | `RefreshInv` (`MetadataStaysExact`) | `RefreshesAnswerExactly`, `RefreshesAnswerFresh`, `PurgesOnNewerEvidence`, `RefreshesKeepEnrichment` |
| `EvictionProofs` | `EvictInv` (`PassesAccount`) | `BudgetAlwaysCovers`, `LiveEntriesSpared`, `NoMoreEvicted` |
| `ProcessProofs` | `TmpInv` (`DirectoryInOrder`) | `TmpFilesAreKept`, `NamesAreSafe` |
| | `DirsInv` | `DirsAreShared`, `LeafIsADirectory` |
| | `LifeInv` | `ServedAsConfigured` |
| | `ScanInv` (`ScanAccounts`) | `ScansAreSound` |
| `RequestProofs` | `RequestInv` (`HandlersInOrder`) | `NothingIsLost`, `OnlyVerifiedIsSent` |
| | `StoreInv` | `LookupsAreSound` |

The arguments:

- fill_ids. What makes `NoReuse` true is that every value the counter file may have
  after a crash, and the in-memory counter, lie above every id handed out
  (`CounterAboveIssued`, `MemoryAboveIssued`), and that the holder of the persist lock
  has the newest id, which is neither handed out nor on disk (`PersistInProgress`).
  Only the directory fsync issues an id, and by the invariant it is new: that is the
  refinement of `FreshIds`.
- Singleflight. Without a cancel the registered flight is the leader's, owners have
  distinct generations, and a pending clean-up never names a flight with an owner:
  that is why the generation check of `complete` and `drop` is enough.
- Metadata locks. Every reference of a task is to the mutex in the map. The sweep
  preserves it since a count of references that allows the removal leaves none to a
  task (`LastReference`, by the cardinality of the holders).
- Fence of the disk cache. `FenceInv` says which locals a task has at each point of a
  method (`Shape`), which locks it holds (`Holds`), that the references of a
  registered `FillEntry` number at least its guards, and that a fill past the
  generation check holds both locks and has the current generation. A purge needs the
  commit lock to move the generation on, so it cannot do it in between; a
  registration cannot leave the map while a guard refers to it.
- Identity of metadata. `IdInv`: copies with the same fill_id have the same ETag and,
  with the same metadata_version, the same HEAD state. A read under the lock followed
  by a compare under the lock is then enough for `update_metadata_if_unchanged` and
  the conditional invalidations, although they compare only numbers. `IdInv` follows
  the metadata that a commit has moved aside too, since a roll-back brings it back.
- Torn entries. `FilesInv`: as long as a commit may still fail, its roll-back yields a
  pair of one version; once nothing can fail any more the published files are a pair.
- Count. `CountInv` ties `entry_count` to the files at each point of a commit and of a
  purge, while nothing failed.
- Freshness. `FreshInv`: a body on disk, or one that a roll-back can put back, is at
  least as new as every write that was acknowledged or is about to be, or it is
  poisoned (`BodiesRecent`); and a fill whose generation still stands fetched after
  every such write and every write whose purge has begun (`FillFresh`). The second
  part is what makes the first inductive when a fill publishes; it rests on
  `FenceInv`, which says that a fill overtaken by a purge cannot publish. `Failed`
  counts the faults behind a retried purge, which is where `PoisonSurvives` comes in: a
  poisoning that only memory keeps has cost three faults, and one that a late unlink
  could erase two faults and a dropped call.
  For raw passthrough, which no theorem covers, freshness is false (`coherence_raw`).
- Refreshes. `RefreshInv`: the entry and every copy of its metadata that a request
  holds is exact (each field was observed of the version it belongs to), no copy is
  newer than the entry, and a flight has a leader at work. The compare-and-swap
  therefore installs only what refines the entry.
- Backend calls. `RetryInv` counts, for each call, what was carried out plus what is
  still on the wire (`Load`). It is at most the number of attempts, and for a write
  that is not idempotent at most one; it is zero whenever such a write is about to be
  sent again, since only an answer that the backend did not process the request leads
  there. `applied <= 1` alone is not inductive: it forgets the attempts that timed
  out and are processed late.
- Eviction. `EvictInv` follows the account of a pass that no cache operation has
  interfered with: the bytes counted so far cover those of every name that the scan
  and the clean-up are done with, and are equal to them while nothing failed.
  `BudgetCovers` speaks only of finished passes and is not inductive. A
  candidate or a deferred orphan carries what was seen of it, so a step that finds
  something else knows that another task was there. The totals are cardinalities of
  sets of numbered bytes: the theorems about finite sets apply to them, while a fold
  would need an induction.
- Temporary files. `TmpInv`: the lock has one holder, which is the only proxy that
  sweeps or serves; a task that is at work belongs to a proxy that serves and has a
  counter value of its own, below the counter; in the sweep every file is a stranger,
  still to be looked at, or could not be removed; and the files orphaned since then
  have numbers no task uses. `LiveFilesKept` and `NoCollision` speak of names, not of
  numbers: the step from one to the other is that process ids do not matter while
  one proxy serves, and that `classify` recognises exactly the names of the writers
  (`WritersClassified`, `ClassifiedShape`). The proof corrected the model: of two
  readiness probes at once the second finds its file gone, and a removal that fails
  then leaves nothing behind.
- Directories. `DirsInv`: while nobody interferes there are only directories, and a
  caller has found or made the parent of the level it is about to make; a level that
  was there is still there when it is verified. `ConcurrentCreate` alone says nothing
  of a caller that has not failed yet.
- Start and exit. `LifeInv`: what each check of `main` established holds in every
  later stage, and a listener that serves, drains or is done has all of it behind it;
  a listener that is done has no request.
- Startup scan. `ScanSound` speaks of finished scans. `ScanInv` follows the walk (every
  hash directory has been found or is still to come, unless the walk says that it is
  incomplete), the pump (every directory of the walk is waiting, in flight or
  finished, and no two of these) and each task (`ScanOK`). A task may meet the two
  files of an entry in either order and counts the entry at its body, if it has one; `Settled` is the
  set of entries whose bytes it is done with, and what it has counted is at most their
  bytes on disk, exactly those while no call failed. A removed orphan leaves
  the disk and the account together. When a result is joined, its entries are added to
  those of the finished directories (`TotalsJoin`); the sums are again cardinalities.
  The maximum is carried as two facts, that it bounds every fill_id of the settled
  entries and that it is 0 or one of the directory's; they make it the maximum on disk
  (`SameMax`).
- Requests. `RequestInv` says what is known of a handler at each `pc`: the checks
  behind it have passed, its route is the one the gates of `modifiers.rs` gave, and
  what it sent carries the request and has an answer the handler can return. There is
  one lemma for each operation: if its gate lets a request through, the typed call
  has a place for each header and parameter that means something to it. For a
  decoded upload the mode of the decoder is that of the signed payload, so the policy
  it chooses verifies. All of it is proved with disconnects at every await. No proof looks into the fold `ObservedMode`: it matters only that router and decoder
  read the same one.
- Credential file. `StoreInv`: a file that loads has at most one entry for each key
  and token, so the first match is the only one, and it stays so in any order.

Hypotheses of theorems, beyond the assumptions on constants:

- `NoLateRename` (no call is dropped, or no HEAD refresh has anything to write), for
  the theorems of `DiskFilesProofs` other than `CountStaysExact`. Without it they are
  false: `disk_late_rename` is the counterexample.
- `OneFailure` (one failing operation, restart or dropped call in all), for
  `EntriesNeverTorn`. `disk_double_fault` shows that two are too many.
- `PoisonSurvives` (no restart, or at most one failing file operation, or at most two
  and no dropped call), for the theorems of `CacheCoherenceProofs`. Two failing
  operations, a dropped purge and a restart lose the poisoning: `coherence_lost_marker`.
  So do three failing operations and a restart, as said under Findings.

Assumptions on constants (all evaluated by TLC on the runs): bounds and sizes are
natural numbers, `MaxId` and `MaxVersions` positive, legacy ids below `MaxId`; `None`,
`Absent`, `NoOne`, `NoFlight`, `NoLock` and `Corrupt` are none of the values they stand beside;
the tasks and the users of a lock are finite; HEADs are not GETs; operations of the
backend are among those the code has; versions of `CacheCoherence` are
`0 .. MaxVersion`; no file of a stranger looks exactly like one of a writer, since the
sweep would take it for that; a path has at least one level; handlers (`Slots`) are
finite in number, as are directories and the hashes in them; the pump runs at least
one task (`Cap`); a metadata file holds a number or is `Corrupt`; requests are drawn from `S3Requests`, the set of requests the
parser tells apart; expiries in a credential file are integers. The type correctness
of these modules is part of the invariants.

Only model-checked:

- Liveness (`FollowersWake`, `MethodsReturn`, `CallsFinish`, `BudgetRestored`,
  `WorkEnds`): fairness and `ENABLED` are out of the prover's reach.
- `AwsChunked`, `MultipartXml`, `CanonicalForm`, `SigV4aKdf`, `Endpoints`: their
  properties compare functions of a whole sequence (bytes, events, digits, characters),
  and a proof for every length needs an induction over data that the provers cannot
  make.
- `SigV4`, `InboundAuth`: the verifier is a function of one request over finite
  tables (headers, parameters, credentials), which the run enumerates; a proof would
  have nothing but the clock to generalise.
- `ModeIgnoresOrder` of `Dispatch` (part of `DecodesExactly`): it compares a fold over
  a sequence with the fold over its reverse, which again is an induction. So is
  `OtherStreamsUntouched`: that a signed payload makes the fold of the router streaming.

## Abstractions

- One send is one request on the wire: retries inside the AWS SDK are outside the
  model. Answers 408, 429 and 503 are taken as not processed, as the comment in
  `retry.rs` does.
- Digests, HMAC and ECDSA are symbolic: a digest is the data, a signature the term of
  the key and of what was signed. `SigV4` works on decoded queries; percent-encoding
  is in `CanonicalForm`.
- In strict mode the verifier replaces the allow-list gate; `GatesAgree` compares
  what both would read from the same header.
- The header classes of `Requests` are values that are text and values that are not
  (`opaque`), and repeated names; what a text says is left out.
- The HTTPS guard of the decoded uploads (`client.rs:117-137`) is a free choice in
  `Dispatch`: whether the endpoint is HTTPS belongs to `Lifecycle`.
- The SSE-KMS context is not among the answer's headers: a backend returns it for
  requests that carry SSE headers, which take the passthrough.
- `SigV4` joins the lines of a header that is a list (`x-extra`) by its elements; every
  other signed header has one line.
- No request makes the code produce the route `RejectUnsupportedSignature`.
- A signal before the handlers are installed kills the process. Detached tasks are
  dropped at exit, which the crashes of the cache modules cover.
- XML references, comments and CDATA are events of their own that both readers
  ignore; a truncated document may end without an error. Documents have one root.
- Distinct keys have distinct hashes; whether an object is cacheable is a free choice.

## Not modelled

Rendering of errors, XML answers and models (`s3/errors.rs`, the writers of
`s3/xml.rs`, `error.rs`); metrics other than the gauge and counter of requests;
request ids; defaults and number parsing of the configuration; open flags and modes
of files; `cache/policy.rs` and `cache/key.rs` (a prefix test, a size test, a hash).
They keep no state that another step depends on. Whether the sweep ever removes a
stale lock is not checked: it depends on moments without users, which nothing
guarantees.
