-------------------------- MODULE MetadataRefresh --------------------------
(***************************************************************************)
(* HEAD requests and checksum-mode GETs on one cached key                  *)
(* (handlers/head.rs, handlers/get.rs).  A plain fill knows nothing of the *)
(* HEAD-only headers and of checksums, so a later request asks the backend *)
(* and refreshes the entry, purges it, or asks once more when the entry    *)
(* was replaced meanwhile.                                                 *)
(*                                                                         *)
(* The cache is the CacheStore contract: each method is one step on the    *)
(* entry, as DiskCache provides under its locks.  Headers are represented  *)
(* by the version of the object they were observed on, checksums also by   *)
(* the kind of request that observed them.                                 *)
(***************************************************************************)
EXTENDS Naturals, Sequences, FiniteSets

CONSTANTS
    Heads, Gets,   \* requests, each is made once
    ETags,
    ServeStale,    \* cache_serve_stale_on_error
    MaxVersions,   \* bound: versions of the object
    MaxFaults,     \* bound: failing cache operations and backend calls
    None

ASSUME RequestAssumption == Heads \cap Gets = {} /\ None \notin Heads \cup Gets
ASSUME BoundAssumption == MaxVersions \in Nat \ {0} /\ MaxFaults \in Nat

VARIABLES
    vers,      \* the versions of the object: [exists, etag]
    acked,     \* the last version whose write was acknowledged
    writing,   \* the version whose write is not yet acknowledged
    entry,     \* the CacheMeta on disk, with its body
    poisoned,  \* the entry is there but not served
    gen,       \* the generation that fences fills
    fills,     \* fill_ids used
    flight,    \* the GET that leads
    req, faults

cache == <<entry, poisoned, gen, fills>>
vars == <<vers, acked, writing, cache, flight, req, faults>>

Requests == Heads \cup Gets

Current == Len(vers)

\* The two versions have the same, real, ETag.
SameETag(v, w) == vers[v].etag # None /\ vers[v].etag = vers[w].etag

-----------------------------------------------------------------------------
(***************************************************************************)
(* The entry                                                               *)
(***************************************************************************)
\* Checksums: which kind of request observed them, and on which version.
Sums == {"get", "head"} \X Nat

\* CacheMeta; body is the version whose content is stored.
Metas == [fill : Nat, mv : Nat, body : Nat, shared : Nat,
          checksums : Sums \cup {None}, checksum_mode_checked : BOOLEAN,
          head_extra : Nat \cup {None}, head_checksums : Sums \cup {None},
          head_metadata_checked : BOOLEAN, head_checksum_checked : BOOLEAN]

\* What is absent is told apart from everything that is present.
ASSUME ValueAssumption == None \notin Nat /\ None \notin Sums /\ None \notin Metas

\* The metadata of a fill; commit_fill stamps the fill_id.
FilledMeta(v, wants) ==
    [fill |-> 0, mv |-> 0, body |-> v, shared |-> v,
     checksums |-> IF wants THEN <<"get", v>> ELSE None, checksum_mode_checked |-> wants,
     head_extra |-> None, head_checksums |-> None,
     head_metadata_checked |-> FALSE, head_checksum_checked |-> FALSE]

preserve_same_etag_head_state_from(meta, current) ==
    IF current = None \/ ~SameETag(meta.body, current.body) THEN meta
    ELSE [meta EXCEPT !.head_extra = current.head_extra,
                      !.head_checksums = current.head_checksums,
                      !.head_metadata_checked = current.head_metadata_checked,
                      !.head_checksum_checked = current.head_checksum_checked]

\* Mutant: a HEAD's answer replaces what the GET observed.
refresh_into_shared(cached, v, wants) ==
    [cached EXCEPT !.shared = v, !.head_extra = v,
                   !.checksums = IF wants THEN <<"head", v>> ELSE @,
                   !.checksum_mode_checked = @ \/ wants,
                   !.head_checksums = IF wants THEN <<"head", v>> ELSE @,
                   !.head_metadata_checked = TRUE, !.head_checksum_checked = @ \/ wants]

\* HEAD answered version v, of the same ETag: everything but the checksums
\* of GET is taken over.
refreshed_cache_meta(cached, v, wants) ==
    [cached EXCEPT !.shared = v, !.head_extra = v,
                   !.head_checksums = IF wants THEN <<"head", v>> ELSE @,
                   !.head_metadata_checked = TRUE, !.head_checksum_checked = @ \/ wants]

cache_entry_satisfies_head_request(meta, wants) ==
    meta.head_metadata_checked /\ (wants => meta.head_checksum_checked)

cache_entry_satisfies_read_options(meta, wants) == wants => meta.checksum_mode_checked

Satisfies(r, meta) ==
    /\ meta # None
    /\ IF r \in Heads THEN cache_entry_satisfies_head_request(meta, req[r].wants)
       ELSE cache_entry_satisfies_read_options(meta, req[r].wants)

-----------------------------------------------------------------------------
(***************************************************************************)
(* Requests                                                                *)
(***************************************************************************)
NoResp == [status |-> "none", cached |-> FALSE, v |-> 0, shared |-> 0, extra |-> None, checksums |-> None]

Idle == [pc |-> "idle", wants |-> FALSE, target |-> None, leader |-> None, out |-> None, base |-> 0, known |-> 0,
         gen |-> 0, allow |-> TRUE, hits |-> 0, misses |-> 0, resp |-> NoResp]

Init ==
    /\ \E e \in ETags \cup {None} : vers = <<[exists |-> TRUE, etag |-> e]>>
    /\ acked = 1 /\ writing = 0
    /\ fills \in 0..1 /\ poisoned = FALSE /\ gen = 0
    /\ entry \in IF fills = 0 THEN {None}
                 ELSE {[FilledMeta(1, w) EXCEPT !.fill = 1] : w \in BOOLEAN}
    /\ flight = None
    /\ req = [r \in Requests |-> Idle]
    /\ faults = 0

Go(r, q) == req' = [req EXCEPT ![r] = q]

To(r, pc) == Go(r, [req[r] EXCEPT !.pc = pc])

At(r, pc) == req[r].pc = pc

Fault == faults < MaxFaults /\ faults' = faults + 1

\* peek and peek_body: a poisoned entry is not found, and neither is one
\* whose lookup fails.
Peek == IF poisoned THEN None ELSE entry

\* The end of a request; its bookkeeping is dropped.
Done(q, resp) ==
    [q EXCEPT !.pc = "done", !.target = None, !.leader = None, !.out = None, !.known = 0, !.gen = 0, !.resp = resp]

Missed(q) == [q EXCEPT !.misses = @ + 1]

CachedResponse(r, meta, status) ==
    [status |-> status, cached |-> status # "MISS", v |-> meta.body, shared |-> meta.shared,
     extra |-> IF r \in Heads THEN meta.head_extra ELSE None,
     checksums |-> IF ~req[r].wants THEN None
                   ELSE IF r \in Heads THEN meta.head_checksums ELSE meta.checksums]

\* build_cached_head_response, build_cache_response, after note_hit: the body
\* comes from the cache, whatever X-Cache says.
ServeCached(r, meta, status) ==
    Done([req[r] EXCEPT !.hits = @ + 1], [CachedResponse(r, meta, status) EXCEPT !.cached = TRUE])

FreshResponse(r, v) ==
    [status |-> "MISS", cached |-> FALSE, v |-> v, shared |-> v,
     extra |-> IF r \in Heads THEN v ELSE None,
     checksums |-> IF req[r].wants THEN <<IF r \in Heads THEN "head" ELSE "get", v>> ELSE None]

\* build_fresh_head_response.
ServeFresh(r, q, v) == Done(Missed(q), FreshResponse(r, v))

\* The error of the backend, as S3Error::from_proxy_error renders it.
ServeError(q, out) ==
    Done(Missed(q), [NoResp EXCEPT !.status = out.code, !.v = IF out.code = "404" THEN out.v ELSE 0])

\* The backend answers from the version it has now, or fails.
BackendAnswers(out) ==
    \/ /\ out = [code |-> IF vers[Current].exists THEN "ok" ELSE "404", v |-> Current]
       /\ UNCHANGED faults
    \/ out.code \in {"transient", "other"} /\ out.v = 0 /\ Fault

Answers == [code : {"ok", "404"}, v : {Current}] \cup [code : {"transient", "other"}, v : {0}]

-----------------------------------------------------------------------------
(***************************************************************************)
(* CacheStore methods with a condition                                     *)
(***************************************************************************)
\* Mutant: metadata_version is not compared.
update_metadata_if_present(target, meta) ==
    IF entry # None /\ entry.fill = target.fill
    THEN entry' = [meta EXCEPT !.mv = entry.mv + 1] /\ UNCHANGED <<poisoned, gen, fills>>
    ELSE UNCHANGED cache

\* A compare-and-set on the fill_id and the version of the metadata.
update_metadata_if_unchanged(target, meta) ==
    IF entry # None /\ entry.fill = target.fill /\ entry.mv = meta.mv
    THEN entry' = [meta EXCEPT !.mv = @ + 1] /\ UNCHANGED <<poisoned, gen, fills>>
    ELSE UNCHANGED cache

Unchanged(fill) == entry # None /\ entry.fill = fill

\* Mutant: the purge does not compare the fill_id.
purge_anything(r, fill, yes, no) ==
    /\ entry' = None /\ poisoned' = FALSE /\ gen' = gen + 1
    /\ UNCHANGED <<fills, faults>> /\ Go(r, yes)

\* Purge the entry; when that fails, poison it; when that fails too, take it
\* for invalidated.  Nothing happens to an entry with another fill_id.
purge_then_poison_if_unchanged(r, fill, yes, no) ==
    \/ /\ ~Unchanged(fill)
       /\ poisoned' = IF entry = None THEN FALSE ELSE poisoned
       /\ UNCHANGED <<entry, gen, fills, faults>> /\ Go(r, no)
    \/ /\ Unchanged(fill)
       /\ entry' = None /\ poisoned' = FALSE /\ gen' = gen + 1
       /\ UNCHANGED <<fills, faults>> /\ Go(r, yes)
    \/ /\ Unchanged(fill) /\ Fault
       /\ poisoned' = TRUE /\ gen' = gen + 1
       /\ UNCHANGED <<entry, fills>> /\ Go(r, yes)
    \/ /\ Fault /\ Go(r, yes) /\ UNCHANGED cache

-----------------------------------------------------------------------------
(***************************************************************************)
(* handle_head                                                             *)
(***************************************************************************)
Others == UNCHANGED <<vers, acked, writing, flight>>

\* The probe; a miss is counted here, a refresh when its outcome is known.
HeadStart(r, wants) ==
    LET q == [req[r] EXCEPT !.wants = wants, !.base = acked] IN
    /\ At(r, "idle") /\ Others /\ UNCHANGED cache
    /\ \/ /\ UNCHANGED faults
          /\ \/ /\ Peek # None /\ cache_entry_satisfies_head_request(Peek, wants)
                /\ Go(r, Done([q EXCEPT !.hits = 1],
                              [CachedResponse(r, Peek, "HIT")
                                EXCEPT !.checksums = IF wants THEN Peek.head_checksums ELSE None]))
             \/ /\ Peek # None /\ ~cache_entry_satisfies_head_request(Peek, wants)
                /\ Go(r, [q EXCEPT !.pc = "send", !.target = Peek])
             \/ /\ Peek = None
                /\ Go(r, [q EXCEPT !.pc = "send", !.misses = 1])
       \/ Fault /\ Go(r, [q EXCEPT !.pc = "send", !.misses = 1])

HeadSend(r, out) ==
    /\ At(r, "send") /\ BackendAnswers(out)
    /\ Go(r, [req[r] EXCEPT !.pc = "answered", !.out = out, !.known = fills])
    /\ Others /\ UNCHANGED cache

\* Without a target the miss has been counted already.
HeadNoTarget(r) ==
    LET q == [req[r] EXCEPT !.misses = 0] IN
    /\ At(r, "answered") /\ req[r].target = None
    /\ Go(r, IF q.out.code = "ok" THEN ServeFresh(r, q, q.out.v) ELSE ServeError(q, q.out))
    /\ Others /\ UNCHANGED <<cache, faults>>

HeadUpdate(r) ==
    LET q == req[r] IN
    /\ At(r, "answered") /\ q.target # None /\ q.out.code = "ok"
    /\ SameETag(q.target.body, q.out.v)
    /\ Go(r, ServeFresh(r, q, q.out.v))
    /\ \/ update_metadata_if_unchanged(q.target, refreshed_cache_meta(q.target, q.out.v, q.wants))
          /\ UNCHANGED faults
       \/ Fault /\ UNCHANGED cache
    /\ Others

NoStrongMatch(v, w) == vers[v].etag = None \/ vers[w].etag = None

HeadNoMatch(r) ==
    LET q == req[r] IN
    /\ At(r, "answered") /\ q.target # None /\ q.out.code = "ok"
    /\ NoStrongMatch(q.target.body, q.out.v)
    /\ Go(r, ServeFresh(r, q, q.out.v))
    /\ Others /\ UNCHANGED <<cache, faults>>

HeadMismatch(r) ==
    LET q == req[r]
        served == ServeFresh(r, q, q.out.v)
    IN /\ At(r, "answered") /\ q.target # None /\ q.out.code = "ok"
       /\ ~NoStrongMatch(q.target.body, q.out.v) /\ ~SameETag(q.target.body, q.out.v)
       /\ purge_then_poison_if_unchanged(r, q.target.fill, served, served)
       /\ Others

\* A 404 stands when it invalidated the entry it speaks of.
HeadNotFound(r) ==
    LET q == req[r] IN
    /\ At(r, "answered") /\ q.target # None /\ q.out.code = "404"
    /\ purge_then_poison_if_unchanged(r, q.target.fill, ServeError(q, q.out),
                                      [q EXCEPT !.pc = "reprobe"])
    /\ Others

\* Else there may be a newer entry: serve it, or ask again on its behalf.
\* The code probes twice.
HeadReprobe(r) ==
    /\ At(r, "reprobe") /\ Others /\ UNCHANGED cache
    /\ \/ /\ Satisfies(r, Peek) /\ Go(r, ServeCached(r, Peek, "HIT")) /\ UNCHANGED faults
       \/ /\ ~Satisfies(r, Peek) /\ To(r, "reprobe_again") /\ UNCHANGED faults
       \/ Fault /\ To(r, "reprobe_again")

HeadReprobeAgain(r) ==
    LET q == req[r] IN
    /\ At(r, "reprobe_again") /\ Others /\ UNCHANGED cache
    /\ \/ Satisfies(r, Peek) /\ Go(r, ServeCached(r, Peek, "HIT")) /\ UNCHANGED faults
       \/ /\ Peek # None /\ ~Satisfies(r, Peek)
          /\ Go(r, [q EXCEPT !.pc = "resend", !.target = Peek]) /\ UNCHANGED faults
       \/ Peek = None /\ Go(r, ServeError(q, q.out)) /\ UNCHANGED faults
       \/ Fault /\ Go(r, ServeError(q, q.out))

HeadResend(r, out) ==
    /\ At(r, "resend") /\ BackendAnswers(out)
    /\ Go(r, [req[r] EXCEPT !.pc = "reanswered", !.out = out, !.known = fills])
    /\ Others /\ UNCHANGED cache

\* The retry answers from the refreshed metadata whether or not the update
\* of the entry succeeded.
HeadRetryUpdate(r) ==
    LET q == req[r]
        updated == refreshed_cache_meta(q.target, q.out.v, q.wants)
    IN /\ At(r, "reanswered") /\ q.out.code = "ok" /\ SameETag(q.target.body, q.out.v)
       /\ Go(r, Done(Missed(q), CachedResponse(r, updated, "MISS")))
       /\ \/ update_metadata_if_unchanged(q.target, updated) /\ UNCHANGED faults
          \/ Fault /\ UNCHANGED cache
       /\ Others

\* On the retry an entry without a strong match is invalidated as well.
HeadRetryDisproved(r) ==
    LET q == req[r]
        served == IF q.out.code = "ok" THEN ServeFresh(r, q, q.out.v) ELSE ServeError(q, q.out)
    IN /\ At(r, "reanswered") /\ q.out.code \in {"ok", "404"}
       /\ q.out.code = "ok" => ~SameETag(q.target.body, q.out.v)
       /\ purge_then_poison_if_unchanged(r, q.target.fill, served, served)
       /\ Others

HeadRetryFails(r) ==
    /\ At(r, "reanswered") /\ req[r].out.code \in {"transient", "other"}
    /\ Go(r, ServeError(req[r], req[r].out))
    /\ Others /\ UNCHANGED <<cache, faults>>

\* Stale-on-error: any entry that satisfies the request will do.
HeadFails(r) ==
    LET q == req[r] IN
    /\ At(r, "answered") /\ q.target # None /\ q.out.code \in {"transient", "other"}
    /\ Go(r, IF ServeStale /\ q.out.code = "transient" /\ Satisfies(r, Peek)
             THEN ServeCached(r, Peek, "STALE") ELSE ServeError(q, q.out))
    /\ Others /\ UNCHANGED <<cache, faults>>

-----------------------------------------------------------------------------
(***************************************************************************)
(* handle_get                                                              *)
(***************************************************************************)
\* A leader that is done wakes those that wait for it, and clears the flight
\* if it is still its own: a write may have cancelled it.
Land(r, q) ==
    /\ flight' = IF flight = r THEN None ELSE flight
    /\ req' = [s \in Requests |->
                 IF s = r THEN q
                 ELSE IF req[s].pc = "wait" /\ req[s].leader = r
                 THEN [req[s] EXCEPT !.pc = "woken", !.leader = None] ELSE req[s]]

Join(r) ==
    IF flight = None THEN flight' = r /\ To(r, "lead")
    ELSE UNCHANGED flight /\ Go(r, [req[r] EXCEPT !.pc = "wait", !.leader = flight])

GetStart(r, wants) ==
    /\ At(r, "idle") /\ Others /\ UNCHANGED <<cache, faults>>
    /\ Go(r, [req[r] EXCEPT !.pc = "probe", !.wants = wants, !.base = acked])

\* handle_get_with_refresh: a usable entry, or singleflight.
GetProbe(r) ==
    /\ At(r, "probe") /\ UNCHANGED <<vers, acked, writing, cache>>
    /\ \/ /\ Satisfies(r, Peek) /\ Go(r, ServeCached(r, Peek, "HIT"))
          /\ UNCHANGED <<flight, faults>>
       \/ ~Satisfies(r, Peek) /\ Join(r) /\ UNCHANGED faults
       \/ Fault /\ Join(r)

\* The leader looks again, and tries to refresh what lacks checksums.
GetLead(r) ==
    LET q == req[r] IN
    /\ At(r, "lead") /\ UNCHANGED <<vers, acked, writing, cache>>
    /\ \/ Satisfies(r, Peek) /\ Land(r, ServeCached(r, Peek, "HIT")) /\ UNCHANGED faults
       \/ /\ Peek # None /\ ~Satisfies(r, Peek)
          /\ Go(r, [q EXCEPT !.pc = "get_head", !.target = Peek]) /\ UNCHANGED <<flight, faults>>
       \/ Peek = None /\ To(r, "begin_fill") /\ UNCHANGED <<flight, faults>>
       \/ Fault /\ To(r, "begin_fill") /\ UNCHANGED flight

\* try_refresh_cached_get_metadata: its HEAD.
GetHead(r, out) ==
    /\ At(r, "get_head") /\ BackendAnswers(out)
    /\ Go(r, [req[r] EXCEPT !.pc = "got_head", !.out = out, !.known = fills])
    /\ Others /\ UNCHANGED cache

\* HEAD cannot set checksum_mode_checked: after an update the GET follows.
\* An update that lost its race looks at the entry that won.
GetRefresh(r) ==
    LET q == req[r]
        won == entry # None /\ entry.fill = q.target.fill /\ entry.mv = q.target.mv
    IN /\ At(r, "got_head") /\ q.out.code = "ok" /\ SameETag(q.target.body, q.out.v)
       /\ \/ /\ update_metadata_if_unchanged(q.target, refreshed_cache_meta(q.target, q.out.v, q.wants))
             /\ To(r, IF won THEN "get_reprobe" ELSE "lost_race") /\ UNCHANGED faults
          \/ Fault /\ To(r, "get_reprobe") /\ UNCHANGED cache
       /\ Others

\* It is a hit and, for its HEAD, a miss; X-Cache says MISS.
GetLostRace(r) ==
    /\ At(r, "lost_race") /\ UNCHANGED <<vers, acked, writing, cache, faults>>
    /\ IF Satisfies(r, Peek)
       THEN Land(r, [ServeCached(r, Peek, "MISS") EXCEPT !.misses = @ + 1])
       ELSE To(r, "get_reprobe") /\ UNCHANGED flight

GetMismatch(r) ==
    LET q == [req[r] EXCEPT !.pc = "get_reprobe"] IN
    /\ At(r, "got_head") /\ q.out.code = "ok" /\ ~SameETag(q.target.body, q.out.v)
    /\ IF NoStrongMatch(q.target.body, q.out.v)
       THEN Go(r, q) /\ UNCHANGED <<cache, faults>>
       ELSE purge_then_poison_if_unchanged(r, q.target.fill, q, q)
    /\ Others

GetNotFound(r) ==
    LET q == req[r] IN
    /\ At(r, "got_head") /\ q.out.code = "404"
    /\ purge_then_poison_if_unchanged(r, q.target.fill, [q EXCEPT !.pc = "get_404"],
                                      [q EXCEPT !.pc = "get_reprobe"])
    /\ Others

GetRefreshed404(r) ==
    /\ At(r, "get_404") /\ Land(r, ServeError(req[r], req[r].out))
    /\ UNCHANGED <<vers, acked, writing, cache, faults>>

GetHeadFails(r) ==
    /\ At(r, "got_head") /\ req[r].out.code \in {"transient", "other"}
    /\ To(r, "get_reprobe") /\ Others /\ UNCHANGED <<cache, faults>>

GetReprobe(r) ==
    /\ At(r, "get_reprobe") /\ UNCHANGED <<vers, acked, writing, cache, faults>>
    /\ IF Satisfies(r, Peek) THEN Land(r, ServeCached(r, Peek, "HIT"))
       ELSE To(r, "begin_fill") /\ UNCHANGED flight

\* The fill is registered before the object is fetched.
GetBeginFill(r) ==
    /\ At(r, "begin_fill")
    /\ Go(r, [req[r] EXCEPT !.pc = "fetch", !.gen = gen, !.target = None, !.out = None])
    /\ Others /\ UNCHANGED <<cache, faults>>

GetFetch(r, out) ==
    /\ At(r, "fetch") /\ BackendAnswers(out)
    /\ Go(r, [req[r] EXCEPT !.pc = "fetched", !.out = out])
    /\ Others /\ UNCHANGED cache

\* The object is served and the fill committed, unless a purge came between,
\* the object is too large to cache or the fill fails.  A backend may send
\* checksums unasked.
GetCommit(r) ==
    LET q == req[r] IN
    /\ At(r, "fetched") /\ q.out.code = "ok"
    /\ \/ \E sent \in {q.wants, TRUE} :
             LET meta == FilledMeta(q.out.v, sent) IN
             /\ q.gen = gen
             /\ fills' = fills + 1
             /\ entry' = [preserve_same_etag_head_state_from(meta, entry) EXCEPT !.fill = fills']
             /\ poisoned' = FALSE /\ UNCHANGED gen
       \/ UNCHANGED cache
    /\ Land(r, ServeFresh(r, q, q.out.v))
    /\ UNCHANGED <<vers, acked, writing, faults>>

GetFails(r) ==
    LET q == req[r] IN
    /\ At(r, "fetched") /\ q.out.code # "ok"
    /\ Land(r, IF ServeStale /\ q.out.code = "transient" /\ Satisfies(r, Peek)
               THEN [ServeCached(r, Peek, "STALE") EXCEPT !.misses = @ + 1]
               ELSE ServeError(q, q.out))
    /\ UNCHANGED <<vers, acked, writing, cache, faults>>

\* A follower takes what the leader left; when that lacks checksums it starts
\* over once, and then goes to the backend by itself.
GetWoken(r) ==
    LET q == req[r] IN
    /\ At(r, "woken") /\ Others /\ UNCHANGED cache
    /\ \/ Satisfies(r, Peek) /\ Go(r, ServeCached(r, Peek, "HIT")) /\ UNCHANGED faults
       \/ /\ Peek # None /\ ~Satisfies(r, Peek) /\ UNCHANGED faults
          /\ Go(r, [q EXCEPT !.pc = IF q.allow THEN "probe" ELSE "passthrough", !.allow = FALSE])
       \/ Peek = None /\ To(r, "passthrough") /\ UNCHANGED faults
       \/ Fault /\ To(r, "passthrough")

GetPassthrough(r, out) ==
    LET q == req[r] IN
    /\ At(r, "passthrough") /\ BackendAnswers(out)
    /\ Go(r, IF out.code = "ok" THEN ServeFresh(r, q, out.v) ELSE ServeError(q, out))
    /\ Others /\ UNCHANGED cache

-----------------------------------------------------------------------------
(***************************************************************************)
(* Writes and eviction                                                     *)
(***************************************************************************)
NewVersion ==
    /\ Current < MaxVersions
    /\ \E e \in ETags \cup {None}, exists \in BOOLEAN :
          /\ exists \/ e = None
          /\ vers' = Append(vers, [exists |-> exists, etag |-> e])

\* A write through the proxy; the entry is purged, or poisoned, before the
\* client is told, and the flight is cancelled.
WriteBackend ==
    /\ writing = 0 /\ NewVersion /\ writing' = Current + 1
    /\ UNCHANGED <<acked, cache, flight, req, faults>>

\* Mutant: the purge does not fence fills under way.
WriteInvalidatesUnfenced ==
    /\ writing # 0 /\ acked' = writing /\ writing' = 0
    /\ entry' = None /\ poisoned' = FALSE
    /\ UNCHANGED <<vers, gen, fills, flight, req, faults>>

WriteInvalidates ==
    /\ writing # 0 /\ acked' = writing /\ writing' = 0
    /\ gen' = gen + 1
    /\ \/ entry' = None /\ poisoned' = FALSE /\ UNCHANGED faults
       \/ Fault /\ poisoned' = (entry # None) /\ UNCHANGED entry
    /\ flight' = None
    /\ UNCHANGED <<vers, fills, req>>

\* Somebody writes to the bucket behind the proxy's back.
ExternalWrite ==
    /\ writing = 0 /\ NewVersion
    /\ UNCHANGED <<acked, writing, cache, flight, req, faults>>

Evict ==
    /\ entry # None /\ entry' = None /\ poisoned' = FALSE
    /\ UNCHANGED <<vers, acked, writing, gen, fills, flight, req, faults>>

Next ==
    \/ WriteBackend \/ WriteInvalidates \/ ExternalWrite \/ Evict
    \/ \E r \in Heads :
          \/ \E w \in BOOLEAN : HeadStart(r, w)
          \/ \E out \in Answers : HeadSend(r, out) \/ HeadResend(r, out)
          \/ HeadNoTarget(r) \/ HeadUpdate(r) \/ HeadNoMatch(r) \/ HeadMismatch(r)
          \/ HeadNotFound(r) \/ HeadReprobe(r) \/ HeadReprobeAgain(r) \/ HeadRetryUpdate(r)
          \/ HeadRetryDisproved(r) \/ HeadRetryFails(r) \/ HeadFails(r)
    \/ \E r \in Gets :
          \/ \E w \in BOOLEAN : GetStart(r, w)
          \/ \E out \in Answers : GetHead(r, out) \/ GetFetch(r, out) \/ GetPassthrough(r, out)
          \/ GetProbe(r) \/ GetLead(r) \/ GetRefresh(r) \/ GetLostRace(r) \/ GetMismatch(r)
          \/ GetNotFound(r) \/ GetRefreshed404(r) \/ GetHeadFails(r) \/ GetReprobe(r)
          \/ GetBeginFill(r) \/ GetCommit(r) \/ GetFails(r) \/ GetWoken(r)

Spec == Init /\ [][Next]_vars

-----------------------------------------------------------------------------
(***************************************************************************)
(* Properties                                                              *)
(***************************************************************************)
\* The entry is one some fill published, and whoever waits for a leader waits
\* for one that is at work.
TypeOK ==
    /\ Current \in 1..MaxVersions /\ acked \in 1..Current /\ writing \in 0..Current
    /\ entry # None => entry.fill \in 1..fills /\ entry.body \in 1..Current
    /\ poisoned => entry # None
    /\ flight \in Gets \cup {None}
    /\ \A g \in {flight} \cup {req[r].leader : r \in Requests} :
          g # None => req[g].pc \notin {"idle", "done", "wait", "woken"}
    /\ faults \in 0..MaxFaults

Answered(r) == req[r].pc = "done" /\ req[r].resp.status \in {"HIT", "STALE", "MISS"}

SameObject(v, w) == v = w \/ SameETag(v, w)

\* Every header of an answer belongs to the object the answer names by its
\* ETag, a HEAD has its HEAD-only headers, and checksums are there exactly
\* when asked for, as a request of the same kind observed them: whatever
\* GETs and HEADs refreshed the entry, in whatever order.
ResponseExact ==
    \A r \in Requests : Answered(r) =>
        LET resp == req[r].resp IN
        /\ SameObject(resp.v, resp.shared)
        /\ r \in Heads => resp.extra # None /\ SameObject(resp.v, resp.extra)
        /\ (resp.checksums # None) = req[r].wants
        /\ req[r].wants => /\ resp.checksums[1] = IF r \in Heads THEN "head" ELSE "get"
                           /\ SameObject(resp.v, resp.checksums[2])

\* A request answered with an object, or with 404, speaks of a version at
\* least as new as the last write acknowledged before it began: neither a
\* stale 404 nor a refresh brings an older one back.
AnswersFresh ==
    \A r \in Requests :
        req[r].pc = "done" /\ req[r].resp.v # 0 => req[r].resp.v >= req[r].base

\* A HEAD is counted once, as a hit exactly when it was answered from the
\* cache; a GET is counted as a hit exactly then, and counted at all.
Accounted ==
    \A r \in Requests : req[r].pc = "done" =>
        /\ (req[r].hits = 1) = req[r].resp.cached
        /\ IF r \in Heads THEN req[r].hits + req[r].misses = 1
           ELSE req[r].hits <= 1 /\ req[r].misses <= 1 /\ req[r].hits + req[r].misses >= 1

\* Both: an answer is exact, and counted as what it was.
AnswersExact == TypeOK /\ ResponseExact /\ Accounted

\* A request purges or poisons an entry only on evidence obtained after the
\* entry was published: the answer of a slow backend to an older question
\* never costs a newer entry.
EvidenceIsNewer ==
    [][\A r \in Requests :
          /\ req'[r] # req[r] /\ Peek # None
          /\ (entry' = None \/ (poisoned' /\ ~poisoned))
          => entry.fill <= req[r].known]_vars

\* What a HEAD has learned of an entry is not lost to a concurrent refresh
\* that started from older metadata, and no HEAD touches the checksums that
\* a GET observed.
EnrichmentKept ==
    [][/\ entry # None /\ entry' # None /\ entry'.fill = entry.fill
       => /\ entry'.checksums = entry.checksums
          /\ entry'.checksum_mode_checked = entry.checksum_mode_checked
          /\ entry.head_metadata_checked => entry'.head_metadata_checked
          /\ entry.head_checksum_checked => entry'.head_checksum_checked]_vars
=============================================================================
