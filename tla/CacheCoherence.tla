--------------------------- MODULE CacheCoherence ---------------------------
(***************************************************************************)
(* Reads and writes of one key end to end: the GetObject handler           *)
(* (src/handlers/get.rs) and the handlers of writes (put.rs, delete.rs,    *)
(* multipart.rs, aws_chunked.rs through invalidate_cache_key in mod.rs) on *)
(* top of DiskCache and SingleFlight, against a backend whose content is a *)
(* version number that each write increments.                              *)
(*                                                                         *)
(* A task runs one request at a time.  stage is the point the handler has  *)
(* reached; while a DiskCache method runs for it, pc (of DiskCache) tells  *)
(* where, and the stage waits for the return.                              *)
(***************************************************************************)
EXTENDS DiskCache

CONSTANTS
  MaxGets,       \* bound on GetObject requests
  MaxVersion     \* bound on writes

ASSUME RequestAssumption == MaxGets \in Nat /\ MaxVersion \in Nat
ASSUME VersionAssumption == Versions = 0 .. MaxVersion

VARIABLES
  registry, nextGeneration, role, flight, woken, cleanups, losses,
  stage,         \* where the handler of a task is
  mark,          \* GET: `acked' when it began; write: the version it wrote
  backend,       \* the version the backend holds
  gone,          \* that version is a deletion
  acked,         \* the newest write whose client got a success response
  gets,          \* GetObject requests begun
  staleReads     \* history: answers older than a write acknowledged before

SF == INSTANCE SingleFlight WITH NoFlight <- None, MaxFlights <- 0, MaxLosses <- 0

sfVars == <<registry, nextGeneration, role, flight, woken, cleanups, losses>>
cohVars == <<vars, sfVars, stage, mark, backend, gone, acked, gets, staleReads>>

CohInit ==
  /\ Init
  /\ SF!SFInit
  /\ stage = [t \in Tasks |-> "none"]
  /\ mark = [t \in Tasks |-> 0]
  /\ body \in {None, 0}
  /\ backend = 0
  /\ gone = FALSE
  /\ acked = 0
  /\ gets = 0
  /\ staleReads = {}

At(t, stages) == stage[t] \in stages /\ pc[t] = "idle"
Enter(t, s) == stage' = [stage EXCEPT ![t] = s]

\* The method that the handler awaited has returned.
Found(t) == res[t].is = "hit"
Missed(t) == res[t].is \in {"miss", "err"}

\* The client of a GET receives version v.
Answer(t, v) ==
  staleReads' = staleReads \cup (IF v < mark[t] THEN {<<mark[t], v>>} ELSE {})

ReqUnchanged == UNCHANGED <<mark, backend, gone, acked, gets>>
-----------------------------------------------------------------------------
(* handle_get, handle_leader, handle_follower and spawn_cache_tee.           *)

GetStart(t) ==
  /\ At(t, {"none"})
  /\ gets < MaxGets
  /\ gets' = gets + 1
  /\ mark' = [mark EXCEPT ![t] = acked]
  /\ Lookup(t)
  /\ Enter(t, "probe")
  /\ UNCHANGED <<sfVars, backend, gone, acked, staleReads>>

\* The first probe, or a follower's, is served from the cache.
GetHit(t) ==
  /\ At(t, {"probe", "reread"})
  /\ Found(t)
  /\ Answer(t, res[t].ver)
  /\ Enter(t, "none")
  /\ ReqUnchanged /\ UNCHANGED <<vars, sfVars>>

GetMiss(t) ==
  /\ At(t, {"probe"})
  /\ Missed(t)
  /\ SF!TryAcquire(t)
  /\ Enter(t, IF registry = None THEN "lead" ELSE "wait")
  /\ ReqUnchanged /\ UNCHANGED <<vars, staleReads>>

\* The leader probes again: peek, and peek_body if that hits.
LeaderProbe(t) ==
  /\ \/ At(t, {"lead"}) /\ Enter(t, "peek")
     \/ At(t, {"peek"}) /\ Found(t) /\ Enter(t, "pin")
  /\ Lookup(t)
  /\ ReqUnchanged /\ UNCHANGED <<sfVars, staleReads>>

\* A leader serves from the cache: after its probe, or (STALE) after a
\* transient backend error.
LeaderHit(t) ==
  /\ At(t, {"pin", "stale"})
  /\ Found(t)
  /\ Answer(t, res[t].ver)
  /\ Enter(t, "complete")
  /\ ReqUnchanged /\ UNCHANGED <<vars, sfVars>>

\* The fill is registered before the backend is asked.
LeaderFetch(t) ==
  /\ At(t, {"peek", "pin"})
  /\ Missed(t)
  /\ BeginFill(t)
  /\ Enter(t, "fetch")
  /\ ReqUnchanged /\ UNCHANGED <<sfVars, staleReads>>

\* The backend answers; the client gets the stream and the tee fills the cache.
FetchTee(t) ==
  /\ At(t, {"fetch"})
  /\ ~gone
  /\ Answer(t, backend)
  /\ CommitFill(t, backend)
  /\ Enter(t, "complete")
  /\ ReqUnchanged /\ UNCHANGED sfVars

\* The same, but nothing is cached: too large, or a failure of the tee, which
\* releases the followers before it aborts the fill if a write failed.
FetchUncached(t) ==
  /\ At(t, {"fetch"})
  /\ ~gone
  /\ Answer(t, backend)
  /\ \E s \in {"abort", "release"} : Enter(t, s)
  /\ ReqUnchanged /\ UNCHANGED <<vars, sfVars>>

FetchNotFound(t) ==
  /\ At(t, {"fetch"})
  /\ gone
  /\ Answer(t, backend)
  /\ Enter(t, "abort")
  /\ ReqUnchanged /\ UNCHANGED <<vars, sfVars>>

\* abort_fill, followed by the rest of the handler.  A backend error looks for
\* an entry to serve only if it is transient and the configuration says so.
FetchAbort(t) ==
  /\ \/ At(t, {"fetch"}) /\ \E s \in {"staleProbe", "complete"} : Enter(t, s)
     \/ At(t, {"abort"}) /\ Enter(t, "complete")
     \/ At(t, {"released"}) /\ Enter(t, "none")
  /\ AbortFill(t)
  /\ ReqUnchanged /\ UNCHANGED <<sfVars, staleReads>>

StaleProbe(t) ==
  /\ At(t, {"staleProbe"})
  /\ Lookup(t)
  /\ Enter(t, "stale")
  /\ ReqUnchanged /\ UNCHANGED <<sfVars, staleReads>>

StaleMiss(t) ==
  /\ At(t, {"stale"})
  /\ Missed(t)
  /\ Enter(t, "complete")
  /\ ReqUnchanged /\ UNCHANGED <<vars, sfVars, staleReads>>

\* waiter.complete()
FlightComplete(t) ==
  /\ At(t, {"complete", "release"})
  /\ \/ (SF!CompleteSend(t) \/ SF!CompleteRemove(t)) /\ UNCHANGED stage
     \/ /\ role[t] = "removed"
        /\ SF!DropWaiter(t)
        /\ Enter(t, IF stage[t] = "complete" THEN "none" ELSE "released")
  /\ ReqUnchanged /\ UNCHANGED <<vars, staleReads>>

FollowerWake(t) ==
  /\ At(t, {"wait"})
  /\ SF!Wake(t)
  /\ Lookup(t)
  /\ Enter(t, "reread")
  /\ ReqUnchanged /\ UNCHANGED staleReads

\* handle_passthrough
FollowerDirect(t) ==
  /\ At(t, {"reread"})
  /\ Missed(t)
  /\ Answer(t, backend)
  /\ Enter(t, "none")
  /\ ReqUnchanged /\ UNCHANGED <<vars, sfVars>>

\* The client disconnects while its GET holds a guard, a flight or a receiver,
\* or in the middle of a lookup.  The tee is a spawned task, which a disconnect
\* does not touch.
GetDisconnect(t) ==
  /\ \/ At(t, {"fetch"}) /\ DropGuard(t) /\ SF!DropWaiter(t)
     \/ /\ At(t, {"lead", "peek", "pin", "staleProbe", "stale"})
        /\ SF!DropWaiter(t)
        /\ UNCHANGED vars
     \/ At(t, {"wait"}) /\ SF!Unsubscribe(t) /\ UNCHANGED vars
     \/ /\ CancelLookup(t)
        /\ IF stage[t] \in {"probe", "reread"} THEN UNCHANGED sfVars ELSE SF!DropWaiter(t)
  /\ Enter(t, "none")
  /\ ReqUnchanged /\ UNCHANGED staleReads
-----------------------------------------------------------------------------
(* Writes: the backend first, then invalidate_cache_key, then the response.  *)

WriteBackend(t) ==
  /\ At(t, {"none"})
  /\ backend < MaxVersion
  /\ backend' = backend + 1
  /\ gone' \in BOOLEAN
  /\ mark' = [mark EXCEPT ![t] = backend + 1]
  /\ Enter(t, "write")
  /\ UNCHANGED <<vars, sfVars, acked, gets, staleReads>>

\* The backend applied the write but the proxy saw an error, or the client
\* was gone: no invalidation, and no success response.
WriteUnacknowledged(t) ==
  /\ At(t, {"write"})
  /\ Enter(t, "none")
  /\ ReqUnchanged /\ UNCHANGED <<vars, sfVars, staleReads>>

\* purge, a second purge if it fails, poison if that fails too.
WriteInvalidate(t) ==
  /\ \/ At(t, {"write"}) /\ Enter(t, "purge1") /\ Invalidate(t, "purge", None)
     \/ /\ At(t, {"purge1"}) /\ res[t].is = "err"
        /\ Enter(t, "purge2") /\ Invalidate(t, "purge", None)
     \/ /\ At(t, {"purge2"}) /\ res[t].is = "err"
        /\ Enter(t, "poison") /\ Invalidate(t, "poison", None)
  /\ ReqUnchanged /\ UNCHANGED <<sfVars, staleReads>>

\* Mutant: the write counts as done when its second purge failed too.
RespondAnyway(t) ==
  /\ At(t, {"purge1", "purge2", "poison"})
  /\ stage[t] = "purge1" => res[t].is # "err"
  /\ SF!Cancel
  /\ acked' = IF acked < mark[t] THEN mark[t] ELSE acked
  /\ Enter(t, "none")
  /\ UNCHANGED <<vars, mark, backend, gone, gets, staleReads>>

\* singleflight.cancel and the success response.
WriteRespond(t) ==
  /\ \/ At(t, {"purge1", "purge2"}) /\ res[t].is \in {"true", "false"}
     \/ At(t, {"poison"}) /\ res[t].is \in {"true", "err"}
  /\ SF!Cancel
  /\ acked' = IF acked < mark[t] THEN mark[t] ELSE acked
  /\ Enter(t, "none")
  /\ UNCHANGED <<vars, mark, backend, gone, gets, staleReads>>

\* The client of a write disconnects during the invalidation.
WriteDisconnect(t) ==
  /\ stage[t] \in {"purge1", "purge2", "poison"}
  /\ CancelInvalidate(t)
  /\ Enter(t, "none")
  /\ ReqUnchanged /\ UNCHANGED <<sfVars, staleReads>>

\* A write that dispatch routes to raw passthrough: CopyObject, a PUT or DELETE
\* with headers the typed path cannot forward, a multipart completion with
\* checksums.  handlers/passthrough.rs forwards it and touches no cache.
RawWrite(t) ==
  /\ At(t, {"none"})
  /\ backend < MaxVersion
  /\ backend' = backend + 1
  /\ gone' \in BOOLEAN
  /\ acked' = backend + 1
  /\ UNCHANGED <<vars, sfVars, stage, mark, gets, staleReads>>
-----------------------------------------------------------------------------
\* A DiskCache method, a detached file operation or a spawned clean-up goes on.
Background(t) == MethodStep(t) /\ UNCHANGED <<sfVars, stage, staleReads>> /\ ReqUnchanged

Detached == RunDetached /\ UNCHANGED <<sfVars, stage, staleReads>> /\ ReqUnchanged

FlightCleanup ==
  /\ \E g \in cleanups : SF!Cleanup(g)
  /\ ReqUnchanged /\ UNCHANGED <<vars, stage, staleReads>>

ProxyRestart ==
  /\ Restart
  /\ registry' = None
  /\ role' = [t \in Tasks |-> "none"]
  /\ flight' = [t \in Tasks |-> None]
  /\ woken' = [t \in Tasks |-> FALSE]
  /\ cleanups' = {}
  /\ stage' = [t \in Tasks |-> "none"]
  /\ mark' = [t \in Tasks |-> 0]
  /\ UNCHANGED <<nextGeneration, losses, backend, gone, acked, gets, staleReads>>

GetStep(t) ==
  \/ GetStart(t) \/ GetHit(t) \/ GetMiss(t) \/ LeaderProbe(t) \/ LeaderHit(t)
  \/ LeaderFetch(t) \/ FetchTee(t) \/ FetchUncached(t) \/ FetchNotFound(t)
  \/ FetchAbort(t) \/ StaleProbe(t) \/ StaleMiss(t) \/ FlightComplete(t)
  \/ FollowerWake(t) \/ FollowerDirect(t) \/ GetDisconnect(t)

WriteStep(t) ==
  \/ WriteBackend(t) \/ WriteUnacknowledged(t) \/ WriteInvalidate(t)
  \/ WriteRespond(t) \/ WriteDisconnect(t)

CohNext ==
  \/ \E t \in Tasks : GetStep(t) \/ WriteStep(t) \/ Background(t)
  \/ Detached
  \/ FlightCleanup
  \/ ProxyRestart

CohSpec == CohInit /\ [][CohNext]_cohVars

\* The same system when writes may also take the passthrough route.
RawSpec == CohInit /\ [][CohNext \/ \E t \in Tasks : RawWrite(t)]_cohVars
-----------------------------------------------------------------------------
(* A client that got a success response for a write never sees an older      *)
(* version in a GET it sends afterwards, whether the answer is a hit, a miss *)
(* or a stale-on-error response, and whatever fills were under way ("A fill  *)
(* that started before a write is automatically rejected at commit time").   *)
FreshReads == staleReads = {}

(* What a lookup would serve is never older than an acknowledged write, also *)
(* when the purge failed and the key was poisoned, and after a restart.      *)
ServableFresh ==
  metaLock = None /\ ~Poisoned /\ Readable(meta) /\ body # None => body >= acked
=============================================================================
