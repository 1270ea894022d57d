----------------------- MODULE MetadataRefreshProofs ------------------------
(* Proofs about MetadataRefresh: any number of HEADs, GETs, versions, ETags  *)
(* and faults.                                                               *)
EXTENDS MetadataRefresh, TLAPS

-----------------------------------------------------------------------------
(* The inductive invariant.                                                  *)

HeadPcs == {"send", "answered", "reprobe", "reprobe_again", "resend", "reanswered"}
LeadPcs == {"lead", "get_head", "got_head", "lost_race", "get_reprobe", "get_404",
            "begin_fill", "fetch", "fetched"}
GetPcs == {"probe", "wait", "woken", "passthrough"} \cup LeadPcs

Outs == [code : {"ok", "404", "transient", "other"}, v : Nat]

Resps == [status : {"none", "HIT", "STALE", "MISS", "ok", "404", "transient", "other"},
          cached : BOOLEAN, v : Nat, shared : Nat, extra : Nat \cup {None},
          checksums : Sums \cup {None}]

Reqs == [pc : {"idle", "done"} \cup HeadPcs \cup GetPcs, wants : BOOLEAN,
         target : Metas \cup {None}, leader : Gets \cup {None}, out : Outs \cup {None},
         base : Nat, known : Nat, gen : Nat, allow : BOOLEAN, hits : Nat, misses : Nat,
         resp : Resps]

(* The types of what is not a request.                                       *)
WorldOK ==
    /\ vers \in Seq([exists : BOOLEAN, etag : ETags \cup {None}])
    /\ Len(vers) \in 1..MaxVersions
    /\ acked \in 1..Len(vers) /\ writing \in 0..Len(vers)
    /\ writing = 0 \/ writing >= acked
    /\ gen \in Nat /\ fills \in Nat
    /\ poisoned \in BOOLEAN /\ (poisoned => entry # None)
    /\ faults \in 0..MaxFaults

(* v and w are versions in the history vs, and of the same content.          *)
Observed(vs, v, w) ==
    /\ v \in 1..Len(vs) /\ w \in 1..Len(vs)
    /\ v = w \/ (vs[w].etag # None /\ vs[w].etag = vs[v].etag)

(* Checksums that a request of the given kind observed on the content of w.  *)
SumsOf(vs, sums, kind, w) == sums \in Sums /\ sums[1] = kind /\ Observed(vs, sums[2], w)

(* Whatever metadata m say was checked was observed on the object they are   *)
(* about, in the history vs, and they belong to one of n fills.              *)
MetaExact(vs, n, m) ==
    /\ m \in Metas /\ m.fill \in 1..n
    /\ Observed(vs, m.shared, m.body)
    /\ m.head_metadata_checked => Observed(vs, m.head_extra, m.body)
    /\ m.head_checksum_checked => SumsOf(vs, m.head_checksums, "head", m.body)
    /\ m.checksum_mode_checked => SumsOf(vs, m.checksums, "get", m.body)

(* A copy m of the metadata of the fill of entry e is older than e, or e.    *)
CopyOf(e, m) ==
    e # None /\ m.fill = e.fill => m.mv <= e.mv /\ (m.mv = e.mv => m = e)

EntryOK ==
    entry # None => MetaExact(vers, fills, entry) /\ (poisoned \/ entry.body >= acked)

(* The entry that a request looked at.                                       *)
TargetOK(vs, n, e, q) ==
    /\ q.target # None => MetaExact(vs, n, q.target) /\ CopyOf(e, q.target)
                          /\ q.target.body >= q.base
    /\ q.pc = "idle" => q.target = None
    /\ q.pc \in {"get_head", "got_head", "resend", "reanswered"} => q.target # None
    /\ q.pc \in {"answered", "got_head", "reanswered"} /\ q.target # None
         => q.target.fill <= q.known

(* The answer of the backend that a request has in hand, and what a fill     *)
(* that passes the generation check g fetched.                               *)
Holding == {"answered", "reprobe", "reprobe_again", "reanswered", "got_head", "get_404", "fetched"}
OutOK(vs, g, a, q) ==
    /\ q.pc \in Holding =>
         /\ q.out \in Outs
         /\ q.out.code \in {"ok", "404"} => q.out.v \in 1..Len(vs) /\ q.out.v >= q.base
    /\ q.pc \in {"fetch", "fetched"} => q.gen <= g
    /\ q.pc = "fetched" /\ q.gen = g /\ q.out.code = "ok" => q.out.v >= a

(* Who is where, and the statistics of a request under way.                  *)
CountOK(r, q) ==
    /\ q.pc \in HeadPcs => r \in Heads
    /\ q.pc \in GetPcs => r \in Gets
    /\ q.leader # None => q.pc = "wait"
    /\ q.pc # "done" => q.hits = 0
    /\ q.pc \in {"send", "answered"} => q.misses = IF q.target = None THEN 1 ELSE 0
    /\ q.pc \notin {"send", "answered", "done"} => q.misses = 0

(* The end of a request.                                                     *)
RespOK(vs, r, wants, resp) ==
    resp.status \in {"HIT", "STALE", "MISS"} =>
        /\ Observed(vs, resp.shared, resp.v)
        /\ r \in Heads => Observed(vs, resp.extra, resp.v)
        /\ wants => SumsOf(vs, resp.checksums, IF r \in Heads THEN "head" ELSE "get", resp.v)
        /\ ~wants => resp.checksums = None

DoneOK(vs, r, q) ==
    q.pc = "done" =>
        /\ q.resp.v # 0 => q.resp.v >= q.base
        /\ RespOK(vs, r, q.wants, q.resp)
        /\ IF q.resp.cached THEN q.hits = 1 ELSE q.hits = 0
        /\ IF r \in Heads THEN q.misses = 1 - q.hits
           ELSE q.misses \in 0..1 /\ q.hits + q.misses >= 1

(* All that is known of a request, given the world it is in: the history vs, *)
(* the last acknowledged version a, entry e, generation g and n fills.       *)
RequestOK(vs, a, e, g, n, r, q) ==
    /\ q \in Reqs /\ q.base <= a
    /\ TargetOK(vs, n, e, q) /\ OutOK(vs, g, a, q) /\ CountOK(r, q) /\ DoneOK(vs, r, q)

ReqOK(r) == RequestOK(vers, acked, entry, gen, fills, r, req[r])

(* The leaders of flights are at work.                                       *)
FlightOK ==
    /\ flight # None => flight \in Gets /\ req[flight].pc \in LeadPcs
    /\ \A r \in Requests : req[r].leader # None => req[req[r].leader].pc \in LeadPcs

RefreshInv ==
    /\ WorldOK /\ EntryOK /\ FlightOK
    /\ req \in [Requests -> Reqs]
    /\ \A r \in Requests : ReqOK(r)
-----------------------------------------------------------------------------
(* The world moves on.                                                       *)

Extends(vs, ws) == Len(vs) <= Len(ws) /\ \A i \in 1..Len(vs) : ws[i] = vs[i]

\* After n fills entry e becomes f: it stays or goes, its metadata are
\* updated, or another fill replaces it.
Becomes(e, f, n) ==
    \/ f \in {None, e}
    \/ e # None /\ f.fill = e.fill /\ f.mv = e.mv + 1
    \/ f.fill > n

Onward ==
    /\ Extends(vers, vers') /\ Becomes(entry, entry', fills)
    /\ acked' >= acked /\ fills' >= fills /\ gen' >= gen
    /\ acked' = acked \/ gen' > gen

(* What was observed stays observed.                                         *)
LEMMA ObservedStays ==
  ASSUME NEW vs, NEW ws, Len(vs) \in Nat, Len(ws) \in Nat, Extends(vs, ws),
         NEW v, NEW w, Observed(vs, v, w)
  PROVE  Observed(ws, v, w)
BY DEF Observed, Extends

(* So do metadata stay exact, and copies stay old.                           *)
LEMMA ExactStays ==
  ASSUME NEW vs, NEW ws, Len(vs) \in Nat, Len(ws) \in Nat, Extends(vs, ws),
         NEW n \in Nat, NEW k \in Nat, n <= k, NEW m, MetaExact(vs, n, m)
  PROVE  MetaExact(ws, k, m)
<1>1. m.fill \in 1..k
  BY DEF MetaExact
<1> QED
  BY <1>1, ObservedStays DEF MetaExact, SumsOf

LEMMA CopyStays ==
  ASSUME NEW n \in Nat, NEW e, e # None => e \in Metas, NEW f, Becomes(e, f, n),
         NEW m \in Metas, m.fill <= n, CopyOf(e, m), f # None => f \in Metas
  PROVE  CopyOf(f, m)
<1>1. m.fill \in Nat /\ m.mv \in Nat /\ (e # None => e.mv \in Nat) /\ (f # None => f.fill \in Nat)
  BY DEF Metas
<1> QED
  BY <1>1 DEF CopyOf, Becomes

(* A request that waits is as well off afterwards.                           *)
LEMMA RequestStays ==
  ASSUME WorldOK, EntryOK, WorldOK', EntryOK', Onward,
         NEW r, NEW q, RequestOK(vers, acked, entry, gen, fills, r, q)
  PROVE  RequestOK(vers', acked', entry', gen', fills', r, q)
<1>1. /\ Len(vers) \in Nat /\ Len(vers') \in Nat /\ acked \in Nat /\ acked' \in Nat
      /\ gen \in Nat /\ gen' \in Nat /\ fills \in Nat /\ fills' \in Nat
      /\ (entry # None => entry \in Metas) /\ (entry' # None => entry' \in Metas)
  <2>1. Len(vers) \in Nat /\ acked \in Nat /\ gen \in Nat /\ fills \in Nat
    BY DEF WorldOK
  <2>2. Len(vers') \in Nat /\ acked' \in Nat /\ gen' \in Nat /\ fills' \in Nat
    BY DEF WorldOK
  <2>3. (entry # None => entry \in Metas) /\ (entry' # None => entry' \in Metas)
    BY DEF EntryOK, MetaExact
  <2> QED
    BY <2>1, <2>2, <2>3
<1>2. q \in Reqs /\ q.base \in Nat /\ q.base <= acked'
  BY <1>1 DEF RequestOK, Onward, Reqs
<1>3. TargetOK(vers', fills', entry', q)
  <2>1. ASSUME q.target # None
        PROVE  MetaExact(vers', fills', q.target) /\ CopyOf(entry', q.target)
    <3>1. MetaExact(vers, fills, q.target) /\ CopyOf(entry, q.target)
      BY <2>1 DEF RequestOK, TargetOK
    <3>2. q.target \in Metas /\ q.target.fill <= fills
      BY <1>1, <3>1 DEF MetaExact, Metas
    <3> QED
      BY <1>1, <3>1, <3>2, ExactStays, CopyStays DEF Onward
  <2> QED
    BY <2>1 DEF RequestOK, TargetOK
<1>4. OutOK(vers', gen', acked', q)
  <2>1. q.gen \in Nat /\ OutOK(vers, gen, acked, q)
    BY <1>2 DEF Reqs, RequestOK
  <2>2. q.pc \in {"fetch", "fetched"} => q.gen <= gen'
    BY <1>1, <2>1 DEF OutOK, Onward
  <2>3. q.pc = "fetched" /\ q.gen = gen' /\ q.out.code = "ok" => q.out.v >= acked'
    BY <1>1, <2>1 DEF OutOK, Onward
  <2>4. q.pc \in Holding => q.out \in Outs /\ (q.out.code \in {"ok", "404"} => q.out.v \in 1..Len(vers'))
    BY <1>1, <2>1 DEF OutOK, Onward, Extends
  <2> QED
    BY <2>1, <2>2, <2>3, <2>4 DEF OutOK
<1>5. DoneOK(vers', r, q)
  BY <1>1, ObservedStays DEF RequestOK, DoneOK, RespOK, SumsOf, Onward
<1> QED
  BY <1>2, <1>3, <1>4, <1>5 DEF RequestOK

(* Nothing but the world moves.                                              *)
LEMMA WorldStep ==
  ASSUME RefreshInv, WorldOK', EntryOK', Onward, req' = req, flight' \in {flight, None}
  PROVE  RefreshInv'
<1>1. \A r \in Requests : ReqOK(r)'
  BY RequestStays DEF RefreshInv, ReqOK
<1>2. FlightOK'
  BY DEF RefreshInv, FlightOK
<1> QED
  BY <1>1, <1>2 DEF RefreshInv

(* One request moves, and nobody waits for it if it ceases to lead.          *)
LEMMA RequestStep ==
  ASSUME RefreshInv, WorldOK', EntryOK', Onward, NEW r \in Requests, NEW q, Go(r, q),
         RequestOK(vers', acked', entry', gen', fills', r, q),
         flight' \in {flight, None} \/ (flight' = r /\ r \in Gets /\ q.pc \in LeadPcs),
         req[r].pc \in LeadPcs => q.pc \in LeadPcs,
         q.leader # None => req[q.leader].pc \in LeadPcs /\ q.leader # r
  PROVE  RefreshInv'
<1>1. req \in [Requests -> Reqs] /\ q \in Reqs
  BY DEF RefreshInv, RequestOK
<1>2. req' \in [Requests -> Reqs] /\ req'[r] = q /\ \A s \in Requests \ {r} : req'[s] = req[s]
  BY <1>1 DEF Go
<1>3. \A s \in Requests : ReqOK(s)'
  <2>1. ASSUME NEW s \in Requests \ {r} PROVE ReqOK(s)'
    BY <1>2, <2>1, RequestStays DEF RefreshInv, ReqOK
  <2> QED
    BY <1>2, <2>1 DEF ReqOK
<1>4. FlightOK'
  <2>1. \A g \in Gets : req[g].pc \in LeadPcs => req'[g].pc \in LeadPcs
    BY <1>2 DEF Requests
  <2>2. \A s \in Requests : req'[s].leader # None => req'[s].leader \in Gets
    BY <1>2 DEF Reqs
  <2> QED
    BY <1>1, <1>2, <2>1, <2>2 DEF RefreshInv, FlightOK, Reqs, Requests
<1> QED
  BY <1>2, <1>3, <1>4 DEF RefreshInv

(* A leader is done, and wakes those that wait for it.                       *)
LEMMA LandStep ==
  ASSUME RefreshInv, WorldOK', EntryOK', Onward, NEW r \in Requests, NEW q, Land(r, q),
         RequestOK(vers', acked', entry', gen', fills', r, q), q.leader = None
  PROVE  RefreshInv'
<1>1. req \in [Requests -> Reqs] /\ q \in Reqs /\ r \notin {None}
  BY RequestAssumption DEF RefreshInv, RequestOK, Requests
<1>2. ASSUME NEW s \in Requests \ {r}
      PROVE  /\ ReqOK(s)' /\ req'[s] \in Reqs
             /\ req'[s].leader \in {None, req[s].leader} /\ req'[s].leader # r
             /\ req[s].pc \in LeadPcs => req'[s] = req[s]
  <2>1. CASE req[s].pc = "wait" /\ req[s].leader = r
    <3> DEFINE p == [req[s] EXCEPT !.pc = "woken", !.leader = None]
    <3>1. req'[s] = p
      BY <1>2, <2>1 DEF Land
    <3>2. RequestOK(vers', acked', entry', gen', fills', s, req[s])
      BY RequestStays DEF RefreshInv, ReqOK
    <3>3. req[s] \in Reqs
      BY <1>1
    <3>4. /\ p.pc = "woken" /\ p.leader = None /\ p.target = req[s].target /\ p.base = req[s].base
          /\ p.hits = req[s].hits /\ p.misses = req[s].misses /\ p \in Reqs
      BY <3>3 DEF Reqs, GetPcs
    <3>5. TargetOK(vers', fills', entry', p) /\ OutOK(vers', gen', acked', p) /\ DoneOK(vers', s, p)
      BY <3>2, <3>4 DEF RequestOK, TargetOK, OutOK, DoneOK, Holding
    <3>6. CountOK(s, p) /\ p.base <= acked'
      BY <2>1, <3>2, <3>4 DEF RequestOK, CountOK, GetPcs, HeadPcs, LeadPcs
    <3>7. req[s].pc \notin LeadPcs
      BY <2>1 DEF LeadPcs
    <3> QED
      BY <1>1, <3>1, <3>4, <3>5, <3>6, <3>7 DEF ReqOK, RequestOK
  <2>2. CASE ~(req[s].pc = "wait" /\ req[s].leader = r)
    <3>1. req'[s] = req[s]
      BY <1>2, <2>2 DEF Land
    <3>2. ReqOK(s)'
      BY <3>1, RequestStays DEF RefreshInv, ReqOK
    <3>3. req[s].leader # None => req[s].pc = "wait"
      BY DEF RefreshInv, ReqOK, RequestOK, CountOK
    <3> QED
      BY <1>1, <2>2, <3>1, <3>2, <3>3
  <2> QED
    BY <2>1, <2>2
<1>3. req'[r] = q /\ ReqOK(r)'
  BY DEF Land, ReqOK
<1>4. req' \in [Requests -> Reqs]
  BY <1>1, <1>2, <1>3 DEF Land
<1>5. FlightOK'
  <2>1. flight' # None => flight' = flight /\ flight # r
    BY DEF Land
  <2>2. flight' # None => flight' \in Gets /\ req'[flight'].pc \in LeadPcs
    BY <1>2, <2>1 DEF RefreshInv, FlightOK, Requests
  <2>3. ASSUME NEW s \in Requests, req'[s].leader # None PROVE req'[req'[s].leader].pc \in LeadPcs
    <3>1. s # r /\ req'[s].leader = req[s].leader /\ req[s].leader # r /\ req[s].leader # None
      BY <1>2, <1>3, <2>3
    <3>2. req[s].leader \in Gets /\ req[req[s].leader].pc \in LeadPcs
      BY <1>1, <3>1 DEF RefreshInv, FlightOK, Reqs
    <3> QED
      BY <1>2, <3>1, <3>2 DEF Requests
  <2> QED
    BY <2>2, <2>3 DEF FlightOK
<1> QED
  BY <1>2, <1>3, <1>4, <1>5 DEF RefreshInv
-----------------------------------------------------------------------------
(* How requests end.                                                         *)

(* What is served from the cache is exact and fresh.                         *)
LEMMA PeekSound ==
  ASSUME RefreshInv, Peek # None
  PROVE  /\ Peek = entry /\ MetaExact(vers, fills, Peek) /\ CopyOf(entry, Peek)
         /\ Peek.body \in Nat /\ Peek.body >= acked /\ acked \in Nat
<1>1. Peek = entry /\ ~poisoned /\ entry # None
  BY DEF Peek
<1>2. MetaExact(vers, fills, entry) /\ entry.body >= acked
  BY <1>1 DEF RefreshInv, EntryOK
<1>3. entry.body \in Nat /\ entry.mv \in Nat
  BY <1>2 DEF MetaExact, Metas
<1>4. CopyOf(entry, entry)
  BY <1>3 DEF CopyOf
<1>5. acked \in Nat
  BY DEF RefreshInv, WorldOK
<1> QED
  BY <1>1, <1>2, <1>3, <1>4, <1>5

LEMMA DoneFields ==
  ASSUME NEW q \in Reqs, NEW resp \in Resps
  PROVE  LET p == Done(q, resp) IN
         /\ p \in Reqs /\ p.pc = "done" /\ p.target = None /\ p.leader = None /\ p.resp = resp
         /\ p.wants = q.wants /\ p.base = q.base /\ p.hits = q.hits /\ p.misses = q.misses
BY DEF Done, Reqs

(* A request with a correct answer, correctly counted, is done.              *)
LEMMA DoneSound ==
  ASSUME NEW vs, NEW a, NEW e, NEW g, NEW n, NEW r, NEW q \in Reqs, NEW resp \in Resps,
         q.base <= a, resp.v # 0 => resp.v >= q.base, RespOK(vs, r, q.wants, resp),
         IF resp.cached THEN q.hits = 1 ELSE q.hits = 0,
         IF r \in Heads THEN q.misses = 1 - q.hits
         ELSE q.misses \in 0..1 /\ q.hits + q.misses >= 1
  PROVE  RequestOK(vs, a, e, g, n, r, Done(q, resp))
<1> DEFINE p == Done(q, resp)
<1>1. /\ p \in Reqs /\ p.pc = "done" /\ p.target = None /\ p.leader = None /\ p.resp = resp
      /\ p.wants = q.wants /\ p.base = q.base /\ p.hits = q.hits /\ p.misses = q.misses
  BY DoneFields
<1> HIDE DEF p
<1>2. DoneOK(vs, r, p)
  BY <1>1 DEF DoneOK
<1>3. TargetOK(vs, n, e, p)
  BY <1>1 DEF TargetOK
<1>4. OutOK(vs, g, a, p)
  BY <1>1 DEF OutOK, Holding
<1>5. CountOK(r, p)
  BY <1>1 DEF CountOK, HeadPcs, GetPcs, LeadPcs
<1>6. RequestOK(vs, a, e, g, n, r, p)
  BY <1>1, <1>2, <1>3, <1>4, <1>5 DEF RequestOK
<1> QED
  BY <1>6 DEF p

(* The headers of an answer that comes from exact metadata are exact.        *)
LEMMA CachedSound ==
  ASSUME NEW r \in Requests, NEW n, NEW m, MetaExact(vers, n, m), Len(vers) \in Nat,
         NEW wants \in BOOLEAN, NEW status \in {"HIT", "STALE", "MISS"}, NEW resp,
         IF r \in Heads THEN cache_entry_satisfies_head_request(m, wants)
         ELSE cache_entry_satisfies_read_options(m, wants),
         resp = [status |-> status, cached |-> status # "MISS", v |-> m.body, shared |-> m.shared,
                 extra |-> IF r \in Heads THEN m.head_extra ELSE None,
                 checksums |-> IF ~wants THEN None
                               ELSE IF r \in Heads THEN m.head_checksums ELSE m.checksums]
  PROVE  resp \in Resps /\ RespOK(vers, r, wants, resp) /\ resp.v = m.body
         /\ resp.cached = (status # "MISS")
<1>1. m \in Metas
  BY DEF MetaExact
<1>2. resp \in Resps
  <2>1. m.body \in Nat /\ m.shared \in Nat /\ m.head_extra \in Nat \cup {None}
        /\ m.head_checksums \in Sums \cup {None} /\ m.checksums \in Sums \cup {None}
    BY <1>1 DEF Metas
  <2> QED
    BY <2>1 DEF Resps
<1>3. Observed(vers, resp.shared, resp.v)
  BY DEF MetaExact
<1>4. r \in Heads => Observed(vers, resp.extra, resp.v)
  BY DEF MetaExact, cache_entry_satisfies_head_request
<1>5. wants => SumsOf(vers, resp.checksums, IF r \in Heads THEN "head" ELSE "get", resp.v)
  <2>1. CASE r \in Heads
    BY <2>1 DEF MetaExact, cache_entry_satisfies_head_request
  <2>2. CASE r \notin Heads
    BY <2>2 DEF MetaExact, cache_entry_satisfies_read_options
  <2> QED
    BY <2>1, <2>2
<1> QED
  BY <1>2, <1>3, <1>4, <1>5 DEF RespOK

(* A request under way that is answered from the entry.                      *)
LEMMA ServeCachedSound ==
  ASSUME RefreshInv, NEW r \in Requests, Satisfies(r, Peek),
         req[r].pc # "done", req[r].misses = 0, NEW status \in {"HIT", "STALE", "MISS"}
  PROVE  LET p == ServeCached(r, Peek, status) IN
         /\ RequestOK(vers, acked, entry, gen, fills, r, p)
         /\ p.pc = "done" /\ p.leader = None
<1>1. Peek # None
  BY DEF Satisfies
<1>2. MetaExact(vers, fills, Peek) /\ Peek.body \in Nat /\ Peek.body >= acked /\ acked \in Nat
  BY <1>1, PeekSound
<1> DEFINE q == [req[r] EXCEPT !.hits = @ + 1]
           shown == CachedResponse(r, Peek, status)
           resp == [shown EXCEPT !.cached = TRUE]
<1>3. req[r] \in Reqs /\ req[r].base <= acked /\ req[r].hits = 0
  BY DEF RefreshInv, ReqOK, RequestOK, CountOK
<1>4. q \in Reqs /\ q.hits = 1 /\ q.misses = 0 /\ q.base = req[r].base /\ q.wants = req[r].wants
  BY <1>3 DEF Reqs
<1>5. req[r].wants \in BOOLEAN /\ Len(vers) \in Nat /\ req[r].base \in Nat
  BY <1>3 DEF Reqs, RefreshInv, WorldOK
<1>6. resp \in Resps /\ RespOK(vers, r, req[r].wants, resp) /\ resp.v = Peek.body /\ resp.cached
  <2>1. shown \in Resps /\ RespOK(vers, r, req[r].wants, shown) /\ shown.v = Peek.body
    BY <1>2, <1>5, CachedSound DEF CachedResponse, Satisfies
  <2> HIDE DEF shown
  <2>2. resp \in Resps /\ resp.cached
    BY <2>1 DEF Resps
  <2>3. resp.status = shown.status /\ resp.v = shown.v /\ resp.shared = shown.shared
        /\ resp.extra = shown.extra /\ resp.checksums = shown.checksums
    BY <2>1 DEF Resps
  <2> QED
    BY <2>1, <2>2, <2>3, Zenon DEF RespOK
<1>7. resp.v >= q.base /\ q.base <= acked
  BY <1>2, <1>3, <1>4, <1>5, <1>6
<1>10. RespOK(vers, r, q.wants, resp) /\ resp.cached
  BY <1>4, <1>6, Zenon
<1> HIDE DEF q, shown, resp
<1>8. RequestOK(vers, acked, entry, gen, fills, r, Done(q, resp))
  BY <1>4, <1>6, <1>7, <1>10, DoneSound
<1>9. Done(q, resp).pc = "done" /\ Done(q, resp).leader = None
  BY <1>4, <1>6, DoneFields
<1> QED
  BY <1>8, <1>9 DEF ServeCached, q, shown, resp

(* A GET that counted a miss before it found the entry.                      *)
LEMMA ServeMissedSound ==
  ASSUME RefreshInv, NEW r \in Gets, Satisfies(r, Peek),
         req[r].pc # "done", req[r].misses = 0, NEW status \in {"HIT", "STALE", "MISS"}
  PROVE  LET p == [ServeCached(r, Peek, status) EXCEPT !.misses = @ + 1] IN
         /\ RequestOK(vers, acked, entry, gen, fills, r, p)
         /\ p.pc = "done" /\ p.leader = None
<1> DEFINE s == ServeCached(r, Peek, status)
           p == [s EXCEPT !.misses = @ + 1]
<1>1. r \in Requests /\ r \notin Heads
  BY RequestAssumption DEF Requests
<1>2. RequestOK(vers, acked, entry, gen, fills, r, s) /\ s.pc = "done" /\ s.leader = None
  BY <1>1, ServeCachedSound
<1>3. s.misses = 0 /\ s.target = None
  <2>1. req[r] \in Reqs
    BY <1>1 DEF RefreshInv
  <2> QED
    BY <2>1 DEF ServeCached, Done, Reqs
<1> HIDE DEF s
<1>4. s \in Reqs
  BY <1>2 DEF RequestOK
<1>5. /\ p \in Reqs /\ p.pc = "done" /\ p.leader = None /\ p.target = None /\ p.misses = 1
      /\ p.hits = s.hits /\ p.base = s.base /\ p.wants = s.wants /\ p.resp = s.resp
  BY <1>2, <1>3, <1>4 DEF Reqs
<1> HIDE DEF p
<1>6. s.hits \in Nat
  BY <1>4 DEF Reqs
<1>7. DoneOK(vers, r, p)
  BY <1>1, <1>2, <1>5, <1>6 DEF RequestOK, DoneOK
<1>8. TargetOK(vers, fills, entry, p) /\ OutOK(vers, gen, acked, p) /\ CountOK(r, p)
  BY <1>5 DEF TargetOK, OutOK, CountOK, Holding, HeadPcs, GetPcs, LeadPcs
<1>9. p.base <= acked
  BY <1>2, <1>5 DEF RequestOK
<1>10. RequestOK(vers, acked, entry, gen, fills, r, p)
  BY <1>5, <1>7, <1>8, <1>9 DEF RequestOK
<1> QED
  BY <1>5, <1>10 DEF p, s

(* A request that is answered by the backend.                                *)
LEMMA ServeFreshSound ==
  ASSUME WorldOK, NEW r \in Requests, req[r].wants \in BOOLEAN, NEW q \in Reqs, q.wants = req[r].wants,
         q.base <= acked, q.hits = 0, q.misses = 0, NEW v \in 1..Len(vers), v >= q.base
  PROVE  LET p == ServeFresh(r, q, v) IN
         /\ RequestOK(vers, acked, entry, gen, fills, r, p)
         /\ p.pc = "done" /\ p.leader = None
<1> DEFINE m == Missed(q)
           resp == FreshResponse(r, v)
<1>1. m \in Reqs /\ m.hits = 0 /\ m.misses = 1 /\ m.base = q.base /\ m.wants = q.wants
  BY DEF Missed, Reqs
<1>2. Len(vers) \in Nat /\ v \in Nat
  BY DEF WorldOK
<1>3. resp \in Resps
  BY <1>2 DEF FreshResponse, Resps, Sums
<1>4. resp.v = v /\ resp.cached = FALSE
  BY DEF FreshResponse
<1>5. Observed(vers, v, v)
  BY <1>2 DEF Observed
<1>6. RespOK(vers, r, m.wants, resp)
  <2>1. Observed(vers, resp.shared, resp.v) /\ (r \in Heads => Observed(vers, resp.extra, resp.v))
    BY <1>5 DEF FreshResponse
  <2>2. m.wants => SumsOf(vers, resp.checksums, IF r \in Heads THEN "head" ELSE "get", resp.v)
    BY <1>1, <1>2, <1>5 DEF FreshResponse, SumsOf, Sums
  <2>3. ~m.wants => resp.checksums = None
    BY <1>1 DEF FreshResponse
  <2> QED
    BY <2>1, <2>2, <2>3 DEF RespOK
<1> HIDE DEF m, resp
<1>7. RequestOK(vers, acked, entry, gen, fills, r, Done(m, resp))
  BY <1>1, <1>3, <1>4, <1>6, DoneSound
<1>8. Done(m, resp).pc = "done" /\ Done(m, resp).leader = None
  BY <1>1, <1>3, DoneFields
<1> QED
  BY <1>7, <1>8 DEF ServeFresh, m, resp

(* A request that fails.                                                     *)
LEMMA ServeErrorSound ==
  ASSUME WorldOK, NEW r \in Requests, NEW q \in Reqs, q.base <= acked, q.hits = 0, q.misses = 0,
         NEW out \in Outs, out.code = "404" => out.v >= q.base
  PROVE  LET p == ServeError(q, out) IN
         /\ RequestOK(vers, acked, entry, gen, fills, r, p)
         /\ p.pc = "done" /\ p.leader = None
<1> DEFINE m == Missed(q)
           resp == [NoResp EXCEPT !.status = out.code, !.v = IF out.code = "404" THEN out.v ELSE 0]
<1>1. m \in Reqs /\ m.hits = 0 /\ m.misses = 1 /\ m.base = q.base /\ m.wants = q.wants
  BY DEF Missed, Reqs
<1>2. resp \in Resps /\ resp.cached = FALSE /\ resp.status \notin {"HIT", "STALE", "MISS"}
      /\ (resp.v # 0 => resp.v >= q.base)
  BY DEF NoResp, Resps, Outs
<1>3. RespOK(vers, r, m.wants, resp)
  BY <1>2 DEF RespOK
<1> HIDE DEF m, resp
<1>4. RequestOK(vers, acked, entry, gen, fills, r, Done(m, resp))
  BY <1>1, <1>2, <1>3, DoneSound
<1>5. Done(m, resp).pc = "done" /\ Done(m, resp).leader = None
  BY <1>1, <1>2, DoneFields
<1> QED
  BY <1>4, <1>5 DEF ServeError, m, resp
-----------------------------------------------------------------------------
(* What the cache's operations do to the world.                              *)

(* The cache is left alone.                                                  *)
LEMMA CacheKept ==
  ASSUME RefreshInv, UNCHANGED <<vers, acked, writing, cache>>, UNCHANGED faults \/ Fault
  PROVE  WorldOK' /\ EntryOK' /\ Onward
<1>1. WorldOK'
  BY BoundAssumption DEF RefreshInv, WorldOK, cache, Fault
<1>2. EntryOK'
  BY DEF RefreshInv, EntryOK, cache
<1>3. Onward
  BY DEF Onward, Extends, Becomes, cache, RefreshInv, WorldOK
<1> QED
  BY <1>1, <1>2, <1>3

(* Metadata that a HEAD refreshed stay exact, and keep everything that is    *)
(* not the HEAD's business.                                                  *)
LEMMA RefreshedSound ==
  ASSUME WorldOK, NEW n, NEW m, MetaExact(vers, n, m), NEW v \in 1..Len(vers),
         SameETag(m.body, v), NEW wants \in BOOLEAN
  PROVE  LET u == refreshed_cache_meta(m, v, wants) IN
         /\ MetaExact(vers, n, u)
         /\ u.fill = m.fill /\ u.mv = m.mv /\ u.body = m.body
         /\ u.head_metadata_checked /\ (wants => u.head_checksum_checked)
<1> DEFINE u == refreshed_cache_meta(m, v, wants)
<1>1. m \in Metas /\ Len(vers) \in Nat /\ v \in Nat
  BY DEF MetaExact, WorldOK
<1>2. /\ u.fill = m.fill /\ u.mv = m.mv /\ u.body = m.body /\ u.shared = v /\ u.head_extra = v
      /\ u.head_metadata_checked = TRUE /\ u.checksums = m.checksums
      /\ u.checksum_mode_checked = m.checksum_mode_checked
      /\ u.head_checksums = (IF wants THEN <<"head", v>> ELSE m.head_checksums)
  BY <1>1 DEF refreshed_cache_meta, Metas
<1>3. u.head_checksum_checked = (m.head_checksum_checked \/ wants)
  BY <1>1 DEF refreshed_cache_meta, Metas
<1>4. u \in Metas
  <2>1. <<"head", v>> \in Sums
    BY <1>1 DEF Sums
  <2>2. m.head_checksum_checked \/ wants \in BOOLEAN
    BY <1>1 DEF Metas
  <2> QED
    BY <1>1, <2>1, <2>2 DEF refreshed_cache_meta, Metas
<1> HIDE DEF u
<1>5. Observed(vers, v, u.body)
  BY <1>1, <1>2 DEF Observed, SameETag, MetaExact
<1>6. u.head_checksum_checked => SumsOf(vers, u.head_checksums, "head", u.body)
  <2>1. CASE wants
    BY <1>1, <1>2, <1>5, <2>1 DEF SumsOf, Sums
  <2>2. CASE ~wants
    <3>1. u.head_checksums = m.head_checksums
      BY <1>2, <2>2
    <3>2. u.head_checksum_checked => m.head_checksum_checked
      BY <1>3, <2>2, Zenon
    <3> QED
      BY <1>2, <3>1, <3>2 DEF MetaExact
  <2> QED
    BY <2>1, <2>2
<1>7. MetaExact(vers, n, u)
  BY <1>2, <1>4, <1>5, <1>6 DEF MetaExact
<1>8. u.head_metadata_checked /\ (wants => u.head_checksum_checked)
  BY <1>2, <1>3, Zenon
<1> QED
  BY <1>2, <1>7, <1>8 DEF u

(* The compare-and-set succeeds on the very metadata it was computed from.   *)
LEMMA UpdateHitsCopy ==
  ASSUME RefreshInv, NEW m, MetaExact(vers, fills, m), CopyOf(entry, m), NEW v, NEW wants,
         NEW u, u.mv = m.mv,
         entry # None /\ entry.fill = m.fill /\ entry.mv = u.mv
  PROVE  m = entry
BY DEF CopyOf

LEMMA VersionBump ==
  ASSUME NEW u \in Metas
  PROVE  LET e == [u EXCEPT !.mv = @ + 1] IN
         /\ e \in Metas /\ e.fill = u.fill /\ e.mv = u.mv + 1 /\ e.body = u.body
         /\ e.shared = u.shared /\ e.head_extra = u.head_extra
         /\ e.head_metadata_checked = u.head_metadata_checked
         /\ e.head_checksum_checked = u.head_checksum_checked
         /\ e.head_checksums = u.head_checksums /\ e.checksums = u.checksums
         /\ e.checksum_mode_checked = u.checksum_mode_checked
BY DEF Metas

LEMMA UpdateSound ==
  ASSUME RefreshInv, NEW m, MetaExact(vers, fills, m), CopyOf(entry, m),
         NEW v \in 1..Len(vers), SameETag(m.body, v), NEW wants \in BOOLEAN,
         update_metadata_if_unchanged(m, refreshed_cache_meta(m, v, wants)),
         UNCHANGED <<vers, acked, writing, faults>>
  PROVE  WorldOK' /\ EntryOK' /\ Onward
<1> DEFINE u == refreshed_cache_meta(m, v, wants)
<1>0. WorldOK
  BY DEF RefreshInv
<1>1. /\ MetaExact(vers, fills, u)
      /\ u.fill = m.fill /\ u.mv = m.mv /\ u.body = m.body
  BY <1>0, RefreshedSound
<1> HIDE DEF u
<1>2. CASE entry # None /\ entry.fill = m.fill /\ entry.mv = u.mv
  <2>1. m = entry
    BY <1>1, <1>2, UpdateHitsCopy
  <2>2. entry' = [u EXCEPT !.mv = @ + 1] /\ UNCHANGED <<poisoned, gen, fills>>
    BY <1>2 DEF update_metadata_if_unchanged, u
  <2>3. u \in Metas /\ m \in Metas
    BY <1>1 DEF MetaExact
  <2>4. /\ entry' \in Metas /\ entry'.fill = u.fill /\ entry'.mv = u.mv + 1 /\ entry'.body = u.body
        /\ entry'.shared = u.shared /\ entry'.head_extra = u.head_extra
        /\ entry'.head_metadata_checked = u.head_metadata_checked
        /\ entry'.head_checksum_checked = u.head_checksum_checked
        /\ entry'.head_checksums = u.head_checksums /\ entry'.checksums = u.checksums
        /\ entry'.checksum_mode_checked = u.checksum_mode_checked
    BY <2>2, <2>3, VersionBump
  <2>5. entry' # None
    BY <2>4, ValueAssumption
  <2>6. MetaExact(vers', fills', entry')
    BY <1>1, <2>2, <2>4 DEF MetaExact
  <2>7. EntryOK'
    BY <1>1, <1>2, <2>1, <2>2, <2>4, <2>6 DEF RefreshInv, EntryOK
  <2>8. WorldOK'
    BY <2>2, <2>5 DEF RefreshInv, WorldOK
  <2>9. Onward
    BY <1>0, <1>1, <1>2, <2>1, <2>2, <2>4 DEF Onward, Extends, Becomes, WorldOK
  <2> QED
    BY <2>7, <2>8, <2>9
<1>3. CASE ~(entry # None /\ entry.fill = m.fill /\ entry.mv = u.mv)
  BY <1>3, CacheKept DEF update_metadata_if_unchanged, u
<1> QED
  BY <1>2, <1>3

(* A purge removes or poisons the entry, or leaves it alone.                 *)
LEMMA PurgeSound ==
  ASSUME RefreshInv, NEW r, NEW fill, NEW yes, NEW no,
         purge_then_poison_if_unchanged(r, fill, yes, no), UNCHANGED <<vers, acked, writing>>
  PROVE  WorldOK' /\ EntryOK' /\ Onward /\ (Go(r, yes) \/ Go(r, no))
<1>0. WorldOK /\ EntryOK
  BY DEF RefreshInv
<1>1. CASE ~Unchanged(fill) /\ poisoned' = (IF entry = None THEN FALSE ELSE poisoned)
           /\ UNCHANGED <<entry, gen, fills, faults>> /\ Go(r, no)
  <2>1. poisoned' = poisoned
    BY <1>0, <1>1 DEF WorldOK
  <2> QED
    BY <1>1, <2>1, CacheKept DEF cache
<1>2. CASE Unchanged(fill) /\ entry' = None /\ poisoned' = FALSE /\ gen' = gen + 1
           /\ UNCHANGED <<fills, faults>> /\ Go(r, yes)
  <2>0. poisoned' \in BOOLEAN /\ ~poisoned'
    BY <1>2
  <2>1. WorldOK'
    BY <1>0, <1>2, <2>0 DEF WorldOK
  <2>2. EntryOK'
    BY <1>2 DEF EntryOK
  <2>3. Onward
    BY <1>0, <1>2 DEF WorldOK, Onward, Extends, Becomes
  <2> QED
    BY <1>2, <2>1, <2>2, <2>3
<1>3. CASE Unchanged(fill) /\ Fault /\ poisoned' = TRUE /\ gen' = gen + 1
           /\ UNCHANGED <<entry, fills>> /\ Go(r, yes)
  <2>1. WorldOK'
    BY <1>0, <1>3, BoundAssumption DEF WorldOK, Fault, Unchanged
  <2>2. EntryOK'
    BY <1>0, <1>3 DEF EntryOK
  <2>3. Onward
    BY <1>0, <1>3 DEF WorldOK, Onward, Extends, Becomes
  <2> QED
    BY <1>3, <2>1, <2>2, <2>3
<1>4. CASE Fault /\ Go(r, yes) /\ UNCHANGED cache
  BY <1>4, CacheKept
<1> QED
  BY <1>1, <1>2, <1>3, <1>4 DEF purge_then_poison_if_unchanged

(* A fill takes over the state of HEADs of the same content only.            *)
LEMMA PreservedSound ==
  ASSUME WorldOK, EntryOK, NEW v \in 1..Len(vers), NEW sent \in BOOLEAN, NEW k \in 1..(fills + 1)
  PROVE  LET m == [preserve_same_etag_head_state_from(FilledMeta(v, sent), entry) EXCEPT !.fill = k] IN
         /\ MetaExact(vers, fills + 1, m) /\ m.fill = k /\ m.body = v
<1> DEFINE f == FilledMeta(v, sent)
           p == preserve_same_etag_head_state_from(f, entry)
           m == [p EXCEPT !.fill = k]
<1>1. Len(vers) \in Nat /\ v \in Nat /\ fills \in Nat /\ k \in Nat
  BY DEF WorldOK
<1>2. /\ f \in Metas /\ f.body = v /\ f.shared = v /\ f.checksum_mode_checked = sent
      /\ ~f.head_metadata_checked /\ ~f.head_checksum_checked
      /\ (sent => f.checksums = <<"get", v>>)
  BY <1>1 DEF FilledMeta, Metas, Sums
<1>3. Observed(vers, v, v)
  BY <1>1 DEF Observed
<1>4. sent => SumsOf(vers, <<"get", v>>, "get", v)
  BY <1>1, <1>3 DEF SumsOf, Sums
<1> HIDE DEF f
<1>5. CASE entry = None \/ ~SameETag(f.body, entry.body)
  <2>1. p = f
    BY <1>5 DEF preserve_same_etag_head_state_from
  <2>2. /\ m \in Metas /\ m.fill = k /\ m.body = v /\ m.shared = v
        /\ m.checksum_mode_checked = sent /\ m.checksums = f.checksums
        /\ ~m.head_metadata_checked /\ ~m.head_checksum_checked
    BY <1>1, <1>2, <2>1 DEF Metas
  <2> HIDE DEF m
  <2>3. MetaExact(vers, fills + 1, m)
    BY <1>2, <1>3, <1>4, <2>2 DEF MetaExact
  <2> QED
    BY <2>2, <2>3 DEF m, p, f
<1>6. CASE ~(entry = None \/ ~SameETag(f.body, entry.body))
  <2>1. p = [f EXCEPT !.head_extra = entry.head_extra,
                      !.head_checksums = entry.head_checksums,
                      !.head_metadata_checked = entry.head_metadata_checked,
                      !.head_checksum_checked = entry.head_checksum_checked]
    BY <1>6 DEF preserve_same_etag_head_state_from
  <2>2. MetaExact(vers, fills, entry) /\ entry \in Metas /\ SameETag(v, entry.body)
    BY <1>2, <1>6 DEF EntryOK, MetaExact
  <2>3. p \in Metas
    BY <1>2, <2>1, <2>2 DEF Metas
  <2>4. /\ p.head_extra = entry.head_extra /\ p.head_checksums = entry.head_checksums
        /\ p.head_metadata_checked = entry.head_metadata_checked
        /\ p.head_checksum_checked = entry.head_checksum_checked
        /\ p.body = v /\ p.shared = v /\ p.checksums = f.checksums
        /\ p.checksum_mode_checked = sent
    BY <1>2, <2>1, <2>2 DEF Metas
  <2> HIDE DEF p
  <2>5. /\ m \in Metas /\ m.fill = k /\ m.body = v /\ m.shared = v
        /\ m.checksum_mode_checked = sent /\ m.checksums = f.checksums
        /\ m.head_extra = entry.head_extra /\ m.head_checksums = entry.head_checksums
        /\ m.head_metadata_checked = entry.head_metadata_checked
        /\ m.head_checksum_checked = entry.head_checksum_checked
    BY <1>1, <2>3, <2>4 DEF Metas
  <2> HIDE DEF m
  <2>6. \A w : Observed(vers, w, entry.body) => Observed(vers, w, v)
    BY <1>1, <2>2 DEF Observed, SameETag
  <2>7. MetaExact(vers, fills + 1, m)
    BY <1>2, <1>3, <1>4, <2>2, <2>5, <2>6 DEF MetaExact, SumsOf
  <2> QED
    BY <2>5, <2>7 DEF m, p, f
<1> QED
  BY <1>5, <1>6
-----------------------------------------------------------------------------
(* The steps of a HEAD.                                                      *)

(* A request that is well off in the world as it was moves on its own.       *)
LEMMA GoSound ==
  ASSUME RefreshInv, WorldOK', EntryOK', Onward, NEW r \in Requests, NEW q, Go(r, q),
         RequestOK(vers, acked, entry, gen, fills, r, q), UNCHANGED flight,
         req[r].pc \in LeadPcs => q.pc \in LeadPcs, q.leader = None
  PROVE  RefreshInv'
<1>1. RequestOK(vers', acked', entry', gen', fills', r, q)
  BY RequestStays DEF RefreshInv
<1> QED
  BY <1>1, RequestStep

LEMMA RequestFacts ==
  ASSUME RefreshInv, NEW r \in Requests
  PROVE  /\ req[r] \in Reqs /\ req[r].wants \in BOOLEAN /\ req[r].base \in Nat /\ req[r].base <= acked
         /\ acked \in Nat /\ Len(vers) \in Nat /\ acked <= Len(vers) /\ fills \in Nat /\ gen \in Nat
         /\ TargetOK(vers, fills, entry, req[r]) /\ OutOK(vers, gen, acked, req[r])
         /\ CountOK(r, req[r]) /\ WorldOK
<1>1. RequestOK(vers, acked, entry, gen, fills, r, req[r]) /\ WorldOK
  BY DEF RefreshInv, ReqOK
<1>2. req[r].wants \in BOOLEAN /\ req[r].base \in Nat
  BY <1>1 DEF RequestOK, Reqs
<1>3. acked \in Nat /\ Len(vers) \in Nat /\ acked <= Len(vers) /\ fills \in Nat /\ gen \in Nat
  BY <1>1 DEF WorldOK
<1> QED
  BY <1>1, <1>2, <1>3 DEF RequestOK

(* The backend answers from the newest version.                              *)
LEMMA AnswerSound ==
  ASSUME WorldOK, NEW out, BackendAnswers(out), out \in Answers
  PROVE  /\ out \in Outs /\ (UNCHANGED faults \/ Fault)
         /\ out.code \in {"ok", "404"} => out.v \in 1..Len(vers) /\ out.v >= acked
<1>1. Len(vers) \in 1..MaxVersions /\ acked \in 1..Len(vers)
  BY DEF WorldOK
<1>2. Len(vers) \in Nat /\ Len(vers) \in 1..Len(vers) /\ Len(vers) >= acked
  BY <1>1, BoundAssumption
<1> QED
  BY <1>2 DEF BackendAnswers, Answers, Outs, Current

LEMMA HeadStartSound ==
  ASSUME RefreshInv, NEW r \in Heads, NEW wants \in BOOLEAN, HeadStart(r, wants)
  PROVE  RefreshInv'
<1> DEFINE q == [req[r] EXCEPT !.wants = wants, !.base = acked]
<1>1. /\ r \in Requests /\ req[r] \in Reqs /\ req[r].pc = "idle" /\ WorldOK
      /\ acked \in Nat /\ Len(vers) \in Nat /\ CountOK(r, req[r])
      /\ TargetOK(vers, fills, entry, req[r]) /\ OutOK(vers, gen, acked, req[r])
  BY RequestFacts DEF HeadStart, At, Requests
<1>2. req[r].hits = 0 /\ req[r].misses = 0 /\ req[r].leader = None
  BY <1>1 DEF CountOK
<1>3. /\ q \in Reqs /\ q.pc = "idle" /\ q.wants = wants /\ q.base = acked /\ q.hits = 0
      /\ q.misses = 0 /\ q.leader = None /\ q.target = req[r].target
  BY <1>1, <1>2 DEF Reqs
<1>4. WorldOK' /\ EntryOK' /\ Onward /\ flight' = flight
  BY CacheKept DEF HeadStart, Others
<1>5. req[r].pc \notin LeadPcs
  BY <1>1 DEF LeadPcs
<1>6. ASSUME Peek # None, cache_entry_satisfies_head_request(Peek, wants),
             Go(r, Done([q EXCEPT !.hits = 1],
                        [CachedResponse(r, Peek, "HIT")
                          EXCEPT !.checksums = IF wants THEN Peek.head_checksums ELSE None]))
      PROVE  RefreshInv'
  <2> DEFINE h == [q EXCEPT !.hits = 1]
             resp == [CachedResponse(r, Peek, "HIT")
                       EXCEPT !.checksums = IF wants THEN Peek.head_checksums ELSE None]
  <2>1. MetaExact(vers, fills, Peek) /\ Peek.body \in Nat /\ Peek.body >= acked
    BY <1>6, PeekSound
  <2>2. resp = [status |-> "HIT", cached |-> "HIT" # "MISS", v |-> Peek.body, shared |-> Peek.shared,
                extra |-> IF r \in Heads THEN Peek.head_extra ELSE None,
                checksums |-> IF ~wants THEN None
                              ELSE IF r \in Heads THEN Peek.head_checksums ELSE Peek.checksums]
    BY DEF CachedResponse
  <2> HIDE DEF resp
  <2>3. resp \in Resps /\ RespOK(vers, r, wants, resp) /\ resp.v = Peek.body
        /\ resp.cached = ("HIT" # "MISS")
    BY <1>1, <1>6, <2>1, <2>2, CachedSound
  <2>4. h \in Reqs /\ h.hits = 1 /\ h.misses = 0 /\ h.base = acked /\ h.wants = wants
    BY <1>3 DEF Reqs
  <2> HIDE DEF h
  <2>8. h.base <= acked /\ (resp.v # 0 => resp.v >= h.base)
    BY <1>1, <2>1, <2>3, <2>4
  <2>9. RespOK(vers, r, h.wants, resp) /\ resp.cached
    BY <2>3, <2>4, Zenon
  <2>5. RequestOK(vers, acked, entry, gen, fills, r, Done(h, resp))
    BY <2>3, <2>4, <2>8, <2>9, DoneSound
  <2>6. Done(h, resp).leader = None
    BY <2>3, <2>4, DoneFields
  <2>7. Go(r, Done(h, resp))
    BY <1>6 DEF h, resp
  <2> QED
    BY <1>1, <1>4, <1>5, <2>5, <2>6, <2>7, GoSound
<1> HIDE DEF q
<1>7. ASSUME Peek # None, Go(r, [q EXCEPT !.pc = "send", !.target = Peek]) PROVE RefreshInv'
  <2> DEFINE p == [q EXCEPT !.pc = "send", !.target = Peek]
  <2>1. MetaExact(vers, fills, Peek) /\ CopyOf(entry, Peek) /\ Peek.body >= acked /\ Peek \in Metas
    BY <1>7, PeekSound DEF MetaExact
  <2>2. /\ p \in Reqs /\ p.pc = "send" /\ p.target = Peek /\ p.leader = None /\ p.base = acked
        /\ p.hits = 0 /\ p.misses = 0
    BY <1>3, <2>1 DEF Reqs, HeadPcs
  <2>5. Go(r, p)
    BY <1>7
  <2> HIDE DEF p
  <2>3. TargetOK(vers, fills, entry, p) /\ OutOK(vers, gen, acked, p) /\ DoneOK(vers, r, p)
    BY <1>1, <2>1, <2>2 DEF TargetOK, OutOK, DoneOK, Holding
  <2>4. CountOK(r, p)
    BY <1>7, <2>2 DEF CountOK, GetPcs, LeadPcs
  <2>6. RequestOK(vers, acked, entry, gen, fills, r, p)
    BY <1>1, <2>2, <2>3, <2>4 DEF RequestOK
  <2> QED
    BY <1>1, <1>4, <1>5, <2>2, <2>5, <2>6, GoSound
<1>8. ASSUME Go(r, [q EXCEPT !.pc = "send", !.misses = 1]) PROVE RefreshInv'
  <2> DEFINE p == [q EXCEPT !.pc = "send", !.misses = 1]
  <2>1. /\ p \in Reqs /\ p.pc = "send" /\ p.target = q.target /\ p.leader = None /\ p.base = acked
        /\ p.hits = 0 /\ p.misses = 1
    BY <1>3 DEF Reqs, HeadPcs
  <2>5. Go(r, p)
    BY <1>8
  <2> HIDE DEF p
  <2>2. p.target = None
    BY <1>1, <1>3, <2>1 DEF TargetOK
  <2>3. TargetOK(vers, fills, entry, p) /\ OutOK(vers, gen, acked, p) /\ DoneOK(vers, r, p)
    BY <1>1, <2>1, <2>2 DEF TargetOK, OutOK, DoneOK, Holding
  <2>4. CountOK(r, p)
    BY <2>1, <2>2 DEF CountOK, GetPcs, LeadPcs
  <2>6. RequestOK(vers, acked, entry, gen, fills, r, p)
    BY <1>1, <2>1, <2>3, <2>4 DEF RequestOK
  <2> QED
    BY <1>1, <1>4, <1>5, <2>1, <2>5, <2>6, GoSound
<1> QED
  BY <1>6, <1>7, <1>8 DEF HeadStart, q

(* A question to the backend about the entry, and its answer.                *)
LEMMA AskSound ==
  ASSUME RefreshInv, NEW r \in Requests, NEW out, BackendAnswers(out), out \in Answers, NEW pc,
         \/ req[r].pc = "send" /\ pc = "answered"
         \/ req[r].pc = "resend" /\ pc = "reanswered"
         \/ req[r].pc = "get_head" /\ pc = "got_head",
         Go(r, [req[r] EXCEPT !.pc = pc, !.out = out, !.known = fills]),
         UNCHANGED <<vers, acked, writing, flight>>, UNCHANGED cache
  PROVE  RefreshInv'
<1> DEFINE q == [req[r] EXCEPT !.pc = pc, !.out = out, !.known = fills]
<1>1. /\ req[r] \in Reqs /\ req[r].base \in Nat /\ req[r].base <= acked /\ acked \in Nat
      /\ fills \in Nat /\ TargetOK(vers, fills, entry, req[r]) /\ CountOK(r, req[r]) /\ WorldOK
  BY RequestFacts
<1>2. /\ out \in Outs /\ (UNCHANGED faults \/ Fault)
      /\ out.code \in {"ok", "404"} => out.v \in 1..Len(vers) /\ out.v >= acked
  BY <1>1, AnswerSound
<1>3. /\ q \in Reqs /\ q.pc = pc /\ q.out = out /\ q.known = fills /\ q.target = req[r].target
      /\ q.leader = req[r].leader /\ q.base = req[r].base /\ q.hits = req[r].hits
      /\ q.misses = req[r].misses
  BY <1>1, <1>2 DEF Reqs, HeadPcs, GetPcs, LeadPcs
<1>4. Go(r, q)
  OBVIOUS
<1> HIDE DEF q
<1>5. Len(vers) \in Nat
  BY <1>1 DEF WorldOK
<1>6. TargetOK(vers, fills, entry, q)
  <2>1. q.target # None => q.target.fill \in 1..fills
    BY <1>1, <1>3 DEF TargetOK, MetaExact
  <2> QED
    BY <1>1, <1>3, <2>1 DEF TargetOK
<1>7. OutOK(vers, gen, acked, q) /\ DoneOK(vers, r, q)
  BY <1>1, <1>2, <1>3, <1>5 DEF OutOK, DoneOK
<1>8. CountOK(r, q) /\ q.leader = None
  BY <1>1, <1>3 DEF CountOK, HeadPcs, GetPcs, LeadPcs
<1>9. RequestOK(vers, acked, entry, gen, fills, r, q)
  BY <1>1, <1>3, <1>6, <1>7, <1>8 DEF RequestOK
<1>10. req[r].pc \in LeadPcs => q.pc \in LeadPcs
  BY <1>3 DEF LeadPcs
<1> QED
  BY <1>2, <1>4, <1>8, <1>9, <1>10, CacheKept, GoSound

(* A HEAD does not lead a flight.                                            *)
LEMMA HeadEnds ==
  ASSUME RefreshInv, WorldOK', EntryOK', Onward, NEW r \in Heads, NEW q, Go(r, q),
         RequestOK(vers, acked, entry, gen, fills, r, q), q.leader = None, UNCHANGED flight
  PROVE  RefreshInv'
<1>1. r \in Requests /\ r \notin Gets
  BY RequestAssumption DEF Requests
<1>2. req[r].pc \notin LeadPcs
  BY <1>1, RequestFacts DEF CountOK, GetPcs
<1> QED
  BY <1>1, <1>2, GoSound

(* The two ways to end with the backend's answer in hand.                    *)
LEMMA AnswerInHand ==
  ASSUME RefreshInv, NEW r \in Requests, req[r].pc \in Holding, req[r].misses = 0
  PROVE  /\ req[r].out.code = "ok" =>
              LET p == ServeFresh(r, req[r], req[r].out.v) IN
              RequestOK(vers, acked, entry, gen, fills, r, p) /\ p.pc = "done" /\ p.leader = None
         /\ LET p == ServeError(req[r], req[r].out) IN
            RequestOK(vers, acked, entry, gen, fills, r, p) /\ p.pc = "done" /\ p.leader = None
<1>1. /\ req[r] \in Reqs /\ req[r].wants \in BOOLEAN /\ req[r].base <= acked /\ WorldOK
      /\ OutOK(vers, gen, acked, req[r]) /\ CountOK(r, req[r])
  BY RequestFacts
<1>2. req[r].hits = 0
  BY <1>1 DEF CountOK, Holding
<1>3. /\ req[r].out \in Outs
      /\ req[r].out.code \in {"ok", "404"} =>
            req[r].out.v \in 1..Len(vers) /\ req[r].out.v >= req[r].base
  BY <1>1 DEF OutOK
<1>4. ASSUME req[r].out.code = "ok"
      PROVE  LET p == ServeFresh(r, req[r], req[r].out.v) IN
             RequestOK(vers, acked, entry, gen, fills, r, p) /\ p.pc = "done" /\ p.leader = None
  BY <1>1, <1>2, <1>3, <1>4, ServeFreshSound
<1>5. LET p == ServeError(req[r], req[r].out) IN
      RequestOK(vers, acked, entry, gen, fills, r, p) /\ p.pc = "done" /\ p.leader = None
  BY <1>1, <1>2, <1>3, ServeErrorSound
<1> QED
  BY <1>4, <1>5

LEMMA HeadNoTargetSound ==
  ASSUME RefreshInv, NEW r \in Heads, HeadNoTarget(r)
  PROVE  RefreshInv'
<1> DEFINE q == [req[r] EXCEPT !.misses = 0]
<1>1. /\ r \in Requests /\ req[r] \in Reqs /\ req[r].wants \in BOOLEAN /\ req[r].base <= acked
      /\ WorldOK /\ OutOK(vers, gen, acked, req[r]) /\ CountOK(r, req[r]) /\ req[r].pc = "answered"
  BY RequestFacts DEF Requests, HeadNoTarget, At
<1>2. /\ q \in Reqs /\ q.wants = req[r].wants /\ q.base = req[r].base /\ q.out = req[r].out
      /\ q.misses = 0 /\ q.hits = req[r].hits
  BY <1>1 DEF Reqs
<1>3. q.hits = 0
  BY <1>1, <1>2 DEF CountOK
<1>4. /\ q.out \in Outs
      /\ q.out.code \in {"ok", "404"} => q.out.v \in 1..Len(vers) /\ q.out.v >= q.base
  BY <1>1, <1>2 DEF OutOK, Holding
<1>5. Go(r, IF q.out.code = "ok" THEN ServeFresh(r, q, q.out.v) ELSE ServeError(q, q.out))
  BY DEF HeadNoTarget
<1> HIDE DEF q
<1>6. WorldOK' /\ EntryOK' /\ Onward /\ flight' = flight
  BY CacheKept DEF HeadNoTarget, Others
<1>7. CASE q.out.code = "ok"
  <2>1. RequestOK(vers, acked, entry, gen, fills, r, ServeFresh(r, q, q.out.v))
        /\ ServeFresh(r, q, q.out.v).leader = None
    BY <1>1, <1>2, <1>3, <1>4, <1>7, ServeFreshSound
  <2> QED
    BY <1>5, <1>6, <1>7, <2>1, HeadEnds
<1>8. CASE q.out.code # "ok"
  <2>1. RequestOK(vers, acked, entry, gen, fills, r, ServeError(q, q.out))
        /\ ServeError(q, q.out).leader = None
    BY <1>1, <1>2, <1>3, <1>4, ServeErrorSound
  <2> QED
    BY <1>5, <1>6, <1>8, <2>1, HeadEnds
<1> QED
  BY <1>7, <1>8

(* What a request that asked about an entry has in hand.                     *)
LEMMA TargetInHand ==
  ASSUME RefreshInv, NEW r \in Requests, req[r].pc \in {"answered", "reanswered", "got_head"},
         req[r].target # None
  PROVE  /\ MetaExact(vers, fills, req[r].target) /\ CopyOf(entry, req[r].target)
         /\ req[r].target.body \in Nat /\ req[r].target.body >= req[r].base
         /\ req[r].misses = 0 /\ req[r].hits = 0 /\ req[r].leader = None /\ req[r].pc \in Holding
         /\ req[r].out \in Outs
         /\ req[r].out.code \in {"ok", "404"} => req[r].out.v \in 1..Len(vers)
<1>1. TargetOK(vers, fills, entry, req[r]) /\ OutOK(vers, gen, acked, req[r]) /\ CountOK(r, req[r])
  BY RequestFacts
<1>2. MetaExact(vers, fills, req[r].target) /\ CopyOf(entry, req[r].target)
      /\ req[r].target.body >= req[r].base
  BY <1>1 DEF TargetOK
<1>3. req[r].target.body \in Nat
  BY <1>2 DEF MetaExact, Metas
<1>4. req[r].misses = 0 /\ req[r].hits = 0 /\ req[r].leader = None
  BY <1>1 DEF CountOK
<1>5. /\ req[r].pc \in Holding /\ req[r].out \in Outs
      /\ req[r].out.code \in {"ok", "404"} => req[r].out.v \in 1..Len(vers)
  BY <1>1 DEF OutOK, Holding
<1> QED
  BY <1>2, <1>3, <1>4, <1>5

LEMMA HeadUpdateSound ==
  ASSUME RefreshInv, NEW r \in Heads, HeadUpdate(r)
  PROVE  RefreshInv'
<1> DEFINE q == req[r]
           p == ServeFresh(r, q, q.out.v)
<1>1. /\ q.pc = "answered" /\ q.target # None /\ q.out.code = "ok" /\ SameETag(q.target.body, q.out.v)
      /\ Go(r, p) /\ flight' = flight /\ UNCHANGED <<vers, acked, writing>>
      /\ \/ update_metadata_if_unchanged(q.target, refreshed_cache_meta(q.target, q.out.v, q.wants))
            /\ UNCHANGED faults
         \/ Fault /\ UNCHANGED cache
  BY DEF HeadUpdate, At, Others
<1>2. r \in Requests
  BY DEF Requests
<1>3. /\ MetaExact(vers, fills, q.target) /\ CopyOf(entry, q.target) /\ q.misses = 0
      /\ q.pc \in Holding /\ q.out.v \in 1..Len(vers) /\ q.wants \in BOOLEAN
  BY <1>1, <1>2, TargetInHand, RequestFacts
<1>4. WorldOK' /\ EntryOK' /\ Onward
  <2>1. CASE update_metadata_if_unchanged(q.target, refreshed_cache_meta(q.target, q.out.v, q.wants))
             /\ UNCHANGED faults
    BY <1>1, <1>3, <2>1, UpdateSound
  <2>2. CASE Fault /\ UNCHANGED cache
    BY <1>1, <2>2, CacheKept
  <2> QED
    BY <1>1, <2>1, <2>2
<1>5. RequestOK(vers, acked, entry, gen, fills, r, p) /\ p.leader = None
  BY <1>1, <1>2, <1>3, AnswerInHand
<1> QED
  BY <1>1, <1>4, <1>5, HeadEnds

LEMMA HeadNoMatchSound ==
  ASSUME RefreshInv, NEW r \in Heads, HeadNoMatch(r)
  PROVE  RefreshInv'
<1> DEFINE p == ServeFresh(r, req[r], req[r].out.v)
<1>1. r \in Requests /\ req[r].pc = "answered" /\ req[r].target # None /\ req[r].out.code = "ok"
      /\ Go(r, p) /\ UNCHANGED flight
  BY DEF HeadNoMatch, At, Others, Requests
<1>2. RequestOK(vers, acked, entry, gen, fills, r, p) /\ p.leader = None
  BY <1>1, TargetInHand, AnswerInHand
<1>3. WorldOK' /\ EntryOK' /\ Onward
  BY CacheKept DEF HeadNoMatch, Others
<1> QED
  BY <1>1, <1>2, <1>3, HeadEnds

LEMMA HeadMismatchSound ==
  ASSUME RefreshInv, NEW r \in Heads, HeadMismatch(r)
  PROVE  RefreshInv'
<1> DEFINE p == ServeFresh(r, req[r], req[r].out.v)
<1>1. r \in Requests /\ req[r].pc = "answered" /\ req[r].target # None /\ req[r].out.code = "ok"
      /\ purge_then_poison_if_unchanged(r, req[r].target.fill, p, p)
      /\ UNCHANGED <<vers, acked, writing, flight>>
  BY DEF HeadMismatch, At, Others, Requests
<1>2. RequestOK(vers, acked, entry, gen, fills, r, p) /\ p.leader = None
  BY <1>1, TargetInHand, AnswerInHand
<1>3. WorldOK' /\ EntryOK' /\ Onward /\ Go(r, p)
  BY <1>1, PurgeSound
<1> QED
  BY <1>1, <1>2, <1>3, HeadEnds

(* Request q is p at another point of the code.                              *)
Moved(p, q) ==
    /\ q \in Reqs /\ q.out = p.out /\ q.target = p.target /\ q.leader = p.leader
    /\ q.base = p.base /\ q.hits = p.hits /\ q.misses = p.misses

(* A request that moves without learning anything.                           *)
LEMMA MoveSound ==
  ASSUME RefreshInv, NEW r \in Requests, NEW q, Moved(req[r], q),
         \/ q.pc \in {"reprobe", "reprobe_again"} /\ r \in Heads
         \/ q.pc \in {"lead", "get_404", "get_reprobe", "lost_race", "begin_fill", "passthrough"} /\ r \in Gets,
         q.pc \in Holding => req[r].pc \in Holding,
         req[r].pc # "done", req[r].misses = 0, req[r].leader = None
  PROVE  RequestOK(vers, acked, entry, gen, fills, r, q) /\ q.leader = None
<1>1. /\ req[r] \in Reqs /\ req[r].base <= acked /\ TargetOK(vers, fills, entry, req[r])
      /\ OutOK(vers, gen, acked, req[r]) /\ CountOK(r, req[r])
  BY RequestFacts
<1>2. /\ q \in Reqs /\ q.out = req[r].out /\ q.target = req[r].target
      /\ q.leader = req[r].leader /\ q.base = req[r].base /\ q.hits = req[r].hits
      /\ q.misses = req[r].misses
  BY DEF Moved
<1>3. TargetOK(vers, fills, entry, q) /\ DoneOK(vers, r, q)
  BY <1>1, <1>2 DEF TargetOK, DoneOK
<1>4. OutOK(vers, gen, acked, q)
  BY <1>1, <1>2 DEF OutOK
<1>5. CountOK(r, q)
  BY <1>1, <1>2 DEF CountOK, HeadPcs, GetPcs, LeadPcs
<1> QED
  BY <1>1, <1>2, <1>3, <1>4, <1>5 DEF RequestOK

LEMMA HeadNotFoundSound ==
  ASSUME RefreshInv, NEW r \in Heads, HeadNotFound(r)
  PROVE  RefreshInv'
<1> DEFINE p == ServeError(req[r], req[r].out)
           q == [req[r] EXCEPT !.pc = "reprobe"]
<1>1. r \in Requests /\ req[r].pc = "answered" /\ req[r].target # None
      /\ purge_then_poison_if_unchanged(r, req[r].target.fill, p, q)
      /\ UNCHANGED <<vers, acked, writing, flight>>
  BY DEF HeadNotFound, At, Others, Requests
<1>2. req[r].misses = 0 /\ req[r].leader = None /\ req[r].pc \in Holding
  BY <1>1, TargetInHand
<1>3. RequestOK(vers, acked, entry, gen, fills, r, p) /\ p.leader = None
  BY <1>1, <1>2, AnswerInHand
<1>6. req[r] \in Reqs
  BY <1>1, RequestFacts
<1>7. q.pc = "reprobe" /\ Moved(req[r], q)
  BY <1>6 DEF Moved, Reqs, HeadPcs
<1> HIDE DEF p, q
<1>4. RequestOK(vers, acked, entry, gen, fills, r, q) /\ q.leader = None
  BY <1>1, <1>2, <1>7, MoveSound
<1>5. WorldOK' /\ EntryOK' /\ Onward /\ (Go(r, p) \/ Go(r, q))
  BY <1>1, PurgeSound
<1> QED
  BY <1>1, <1>3, <1>4, <1>5, HeadEnds

LEMMA HeadReprobeSound ==
  ASSUME RefreshInv, NEW r \in Heads, HeadReprobe(r)
  PROVE  RefreshInv'
<1>1. /\ r \in Requests /\ req[r].pc = "reprobe" /\ UNCHANGED <<vers, acked, writing, flight>>
      /\ UNCHANGED cache
  BY DEF HeadReprobe, At, Others, Requests
<1>2. req[r].misses = 0 /\ req[r].leader = None /\ req[r] \in Reqs
  BY <1>1, RequestFacts DEF CountOK
<1>3. WorldOK' /\ EntryOK' /\ Onward
  BY <1>1, CacheKept DEF HeadReprobe
<1>4. CASE Satisfies(r, Peek) /\ Go(r, ServeCached(r, Peek, "HIT"))
  <2>1. RequestOK(vers, acked, entry, gen, fills, r, ServeCached(r, Peek, "HIT"))
        /\ ServeCached(r, Peek, "HIT").leader = None
    BY <1>1, <1>2, <1>4, ServeCachedSound
  <2> QED
    BY <1>1, <1>3, <1>4, <2>1, HeadEnds
<1>5. CASE To(r, "reprobe_again")
  <2> DEFINE q == [req[r] EXCEPT !.pc = "reprobe_again"]
  <2>2. Go(r, q) /\ q.pc = "reprobe_again" /\ Moved(req[r], q)
    BY <1>2, <1>5 DEF To, Moved, Reqs, HeadPcs
  <2> HIDE DEF q
  <2>1. RequestOK(vers, acked, entry, gen, fills, r, q) /\ q.leader = None
    BY <1>1, <1>2, <2>2, MoveSound DEF Holding
  <2> QED
    BY <1>1, <1>3, <2>1, <2>2, HeadEnds
<1> QED
  BY <1>4, <1>5 DEF HeadReprobe

(* Request q is p elsewhere, with the entry it found as its target.          *)
Retargeted(p, q) ==
    /\ q \in Reqs /\ q.target = Peek /\ q.leader = p.leader
    /\ q.base = p.base /\ q.hits = p.hits /\ q.misses = p.misses

LEMMA TargetSound ==
  ASSUME RefreshInv, NEW r \in Requests, Peek # None, NEW q, Retargeted(req[r], q),
         (q.pc = "resend" /\ r \in Heads) \/ (q.pc = "get_head" /\ r \in Gets),
         req[r].pc \notin {"done", "idle"}, req[r].misses = 0, req[r].leader = None
  PROVE  RequestOK(vers, acked, entry, gen, fills, r, q) /\ q.leader = None
<1>1. /\ req[r] \in Reqs /\ req[r].base \in Nat /\ req[r].base <= acked /\ acked \in Nat
      /\ CountOK(r, req[r])
  BY RequestFacts
<1>2. MetaExact(vers, fills, Peek) /\ CopyOf(entry, Peek) /\ Peek.body \in Nat /\ Peek.body >= acked
  BY PeekSound
<1>4. /\ q \in Reqs /\ q.target = Peek /\ q.leader = req[r].leader
      /\ q.base = req[r].base /\ q.hits = req[r].hits /\ q.misses = req[r].misses
  BY DEF Retargeted
<1>5. TargetOK(vers, fills, entry, q) /\ DoneOK(vers, r, q)
  BY <1>1, <1>2, <1>4 DEF TargetOK, DoneOK
<1>6. OutOK(vers, gen, acked, q)
  BY <1>4 DEF OutOK, Holding
<1>7. CountOK(r, q)
  BY <1>1, <1>4 DEF CountOK, HeadPcs, GetPcs, LeadPcs
<1> QED
  BY <1>1, <1>4, <1>5, <1>6, <1>7 DEF RequestOK

LEMMA HeadReprobeAgainSound ==
  ASSUME RefreshInv, NEW r \in Heads, HeadReprobeAgain(r)
  PROVE  RefreshInv'
<1>1. /\ r \in Requests /\ req[r].pc = "reprobe_again" /\ UNCHANGED <<vers, acked, writing, flight>>
      /\ UNCHANGED cache
  BY DEF HeadReprobeAgain, At, Others, Requests
<1>2. req[r].misses = 0 /\ req[r].leader = None /\ req[r] \in Reqs
  BY <1>1, RequestFacts DEF CountOK
<1>3. WorldOK' /\ EntryOK' /\ Onward
  BY <1>1, CacheKept DEF HeadReprobeAgain
<1>4. CASE Satisfies(r, Peek) /\ Go(r, ServeCached(r, Peek, "HIT"))
  <2>1. RequestOK(vers, acked, entry, gen, fills, r, ServeCached(r, Peek, "HIT"))
        /\ ServeCached(r, Peek, "HIT").leader = None
    BY <1>1, <1>2, <1>4, ServeCachedSound
  <2> QED
    BY <1>1, <1>3, <1>4, <2>1, HeadEnds
<1>5. CASE Peek # None /\ Go(r, [req[r] EXCEPT !.pc = "resend", !.target = Peek])
  <2> DEFINE q == [req[r] EXCEPT !.pc = "resend", !.target = Peek]
  <2>2. Go(r, q) /\ q.pc = "resend" /\ Retargeted(req[r], q)
    BY <1>2, <1>3, <1>5, PeekSound DEF Retargeted, Reqs, HeadPcs, MetaExact
  <2> HIDE DEF q
  <2>1. RequestOK(vers, acked, entry, gen, fills, r, q) /\ q.leader = None
    BY <1>1, <1>2, <1>5, <2>2, TargetSound
  <2> QED
    BY <1>1, <1>3, <2>1, <2>2, HeadEnds
<1>6. CASE Go(r, ServeError(req[r], req[r].out))
  <2>1. RequestOK(vers, acked, entry, gen, fills, r, ServeError(req[r], req[r].out))
        /\ ServeError(req[r], req[r].out).leader = None
    BY <1>1, <1>2, AnswerInHand DEF Holding
  <2> QED
    BY <1>1, <1>3, <1>6, <2>1, HeadEnds
<1> QED
  BY <1>4, <1>5, <1>6 DEF HeadReprobeAgain

(* The retry answers from the metadata it refreshed.                         *)
LEMMA HeadRetryUpdateSound ==
  ASSUME RefreshInv, NEW r \in Heads, HeadRetryUpdate(r)
  PROVE  RefreshInv'
<1> DEFINE q == req[r]
           u == refreshed_cache_meta(q.target, q.out.v, q.wants)
           resp == CachedResponse(r, u, "MISS")
           m == Missed(q)
<1>1. /\ q.pc = "reanswered" /\ q.out.code = "ok" /\ SameETag(q.target.body, q.out.v)
      /\ Go(r, Done(m, resp)) /\ flight' = flight /\ UNCHANGED <<vers, acked, writing>>
      /\ \/ update_metadata_if_unchanged(q.target, u) /\ UNCHANGED faults
         \/ Fault /\ UNCHANGED cache
  BY DEF HeadRetryUpdate, At, Others
<1>2. r \in Requests
  BY DEF Requests
<1>3. /\ q \in Reqs /\ q.wants \in BOOLEAN /\ q.base \in Nat /\ q.base <= acked /\ WorldOK
      /\ Len(vers) \in Nat /\ TargetOK(vers, fills, entry, q)
  BY <1>2, RequestFacts
<1>4. q.target # None
  BY <1>1, <1>3 DEF TargetOK
<1>5. /\ MetaExact(vers, fills, q.target) /\ CopyOf(entry, q.target) /\ q.misses = 0 /\ q.hits = 0
      /\ q.out.v \in 1..Len(vers) /\ q.target.body \in Nat /\ q.target.body >= q.base
  BY <1>1, <1>2, <1>4, TargetInHand
<1>6. WorldOK' /\ EntryOK' /\ Onward
  <2>1. CASE update_metadata_if_unchanged(q.target, u) /\ UNCHANGED faults
    BY <1>1, <1>3, <1>5, <2>1, UpdateSound
  <2>2. CASE Fault /\ UNCHANGED cache
    BY <1>1, <2>2, CacheKept
  <2> QED
    BY <1>1, <2>1, <2>2
<1>7. /\ MetaExact(vers, fills, u) /\ u.body = q.target.body
      /\ u.head_metadata_checked /\ (q.wants => u.head_checksum_checked)
  BY <1>1, <1>3, <1>5, RefreshedSound
<1> HIDE DEF u
<1>8. cache_entry_satisfies_head_request(u, q.wants)
  BY <1>7 DEF cache_entry_satisfies_head_request
<1>9. resp \in Resps /\ RespOK(vers, r, q.wants, resp) /\ resp.v = u.body
      /\ resp.cached = ("MISS" # "MISS")
  BY <1>2, <1>3, <1>7, <1>8, CachedSound DEF CachedResponse
<1>10. m \in Reqs /\ m.hits = 0 /\ m.misses = 1 /\ m.base = q.base /\ m.wants = q.wants
  BY <1>3, <1>5 DEF Missed, Reqs
<1> HIDE DEF m, resp
<1>11. ~resp.cached
  BY <1>9, Zenon
<1>12. RespOK(vers, r, m.wants, resp) /\ m.base <= acked /\ (resp.v # 0 => resp.v >= m.base)
  BY <1>3, <1>5, <1>7, <1>9, <1>10
<1>13. RequestOK(vers, acked, entry, gen, fills, r, Done(m, resp))
  BY <1>9, <1>10, <1>11, <1>12, DoneSound
<1>14. Done(m, resp).leader = None
  BY <1>9, <1>10, DoneFields
<1> QED
  BY <1>1, <1>6, <1>13, <1>14, HeadEnds

LEMMA HeadRetryDisprovedSound ==
  ASSUME RefreshInv, NEW r \in Heads, HeadRetryDisproved(r)
  PROVE  RefreshInv'
<1> DEFINE p == IF req[r].out.code = "ok" THEN ServeFresh(r, req[r], req[r].out.v)
                ELSE ServeError(req[r], req[r].out)
<1>1. r \in Requests /\ req[r].pc = "reanswered"
      /\ purge_then_poison_if_unchanged(r, req[r].target.fill, p, p)
      /\ UNCHANGED <<vers, acked, writing, flight>>
  BY DEF HeadRetryDisproved, At, Others, Requests
<1>2. req[r].misses = 0
  BY <1>1, RequestFacts DEF CountOK
<1>3. RequestOK(vers, acked, entry, gen, fills, r, p) /\ p.leader = None
  BY <1>1, <1>2, AnswerInHand DEF Holding
<1> HIDE DEF p
<1>4. WorldOK' /\ EntryOK' /\ Onward /\ Go(r, p)
  BY <1>1, PurgeSound
<1> QED
  BY <1>1, <1>3, <1>4, HeadEnds

LEMMA HeadFailsSound ==
  ASSUME RefreshInv, NEW r \in Heads, HeadRetryFails(r) \/ HeadFails(r)
  PROVE  RefreshInv'
<1>1. r \in Requests /\ UNCHANGED flight /\ WorldOK' /\ EntryOK' /\ Onward
  BY CacheKept DEF Requests, HeadRetryFails, HeadFails, Others
<1>2. req[r].pc \in {"answered", "reanswered"} /\ req[r].misses = 0 /\ req[r].pc \in Holding
  <2>1. CASE HeadRetryFails(r)
    BY <1>1, <2>1, RequestFacts DEF HeadRetryFails, At, CountOK, Holding
  <2>2. CASE HeadFails(r)
    BY <1>1, <2>2, RequestFacts DEF HeadFails, At, CountOK, Holding
  <2> QED
    BY <2>1, <2>2
<1>3. CASE Go(r, ServeError(req[r], req[r].out))
  <2>1. RequestOK(vers, acked, entry, gen, fills, r, ServeError(req[r], req[r].out))
        /\ ServeError(req[r], req[r].out).leader = None
    BY <1>1, <1>2, AnswerInHand
  <2> QED
    BY <1>1, <1>3, <2>1, HeadEnds
<1>4. CASE Satisfies(r, Peek) /\ Go(r, ServeCached(r, Peek, "STALE"))
  <2>1. RequestOK(vers, acked, entry, gen, fills, r, ServeCached(r, Peek, "STALE"))
        /\ ServeCached(r, Peek, "STALE").leader = None
    BY <1>1, <1>2, <1>4, ServeCachedSound
  <2> QED
    BY <1>1, <1>4, <2>1, HeadEnds
<1> QED
  BY <1>3, <1>4 DEF HeadRetryFails, HeadFails

-----------------------------------------------------------------------------
(* The steps of a GET.                                                       *)

(* A leader that ends well in the world as it was lands.                     *)
LEMMA LandSound ==
  ASSUME RefreshInv, WorldOK', EntryOK', Onward, NEW r \in Requests, NEW q, Land(r, q),
         RequestOK(vers, acked, entry, gen, fills, r, q), q.leader = None
  PROVE  RefreshInv'
<1>1. RequestOK(vers', acked', entry', gen', fills', r, q)
  BY RequestStays DEF RefreshInv
<1> QED
  BY <1>1, LandStep

LEMMA GetStartSound ==
  ASSUME RefreshInv, NEW r \in Gets, NEW wants \in BOOLEAN, GetStart(r, wants)
  PROVE  RefreshInv'
<1> DEFINE q == [req[r] EXCEPT !.pc = "probe", !.wants = wants, !.base = acked]
<1>1. /\ r \in Requests /\ req[r] \in Reqs /\ req[r].pc = "idle" /\ acked \in Nat
      /\ CountOK(r, req[r]) /\ TargetOK(vers, fills, entry, req[r])
  BY RequestFacts DEF GetStart, At, Requests
<1>2. req[r].hits = 0 /\ req[r].misses = 0 /\ req[r].leader = None /\ req[r].target = None
  BY <1>1 DEF CountOK, TargetOK
<1>3. /\ q \in Reqs /\ q.pc = "probe" /\ q.base = acked /\ q.hits = 0
      /\ q.misses = 0 /\ q.leader = None /\ q.target = None
  BY <1>1, <1>2 DEF Reqs, GetPcs
<1>4. WorldOK' /\ EntryOK' /\ Onward /\ flight' = flight /\ Go(r, q)
  BY CacheKept DEF GetStart, Others
<1> HIDE DEF q
<1>5. TargetOK(vers, fills, entry, q) /\ OutOK(vers, gen, acked, q) /\ DoneOK(vers, r, q)
  BY <1>3 DEF TargetOK, OutOK, DoneOK, Holding
<1>6. CountOK(r, q) /\ req[r].pc \notin LeadPcs
  BY <1>1, <1>3 DEF CountOK, HeadPcs, LeadPcs
<1>7. RequestOK(vers, acked, entry, gen, fills, r, q)
  BY <1>1, <1>3, <1>5, <1>6 DEF RequestOK
<1> QED
  BY <1>1, <1>3, <1>4, <1>6, <1>7, GoSound

(* A GET becomes the leader, or waits for one that is at work.               *)
LEMMA JoinSound ==
  ASSUME RefreshInv, NEW r \in Gets, req[r].pc = "probe", Join(r),
         WorldOK', EntryOK', Onward
  PROVE  RefreshInv'
<1>1. /\ r \in Requests /\ req[r] \in Reqs /\ req[r].base <= acked /\ CountOK(r, req[r])
      /\ TargetOK(vers, fills, entry, req[r])
  BY RequestFacts DEF Requests
<1>2. req[r].misses = 0 /\ req[r].leader = None /\ req[r].hits = 0 /\ req[r].pc \notin LeadPcs
  BY <1>1 DEF CountOK, LeadPcs
<1>3. CASE flight = None /\ flight' = r /\ To(r, "lead")
  <2> DEFINE q == [req[r] EXCEPT !.pc = "lead"]
  <2>1. Go(r, q) /\ q.pc = "lead" /\ Moved(req[r], q)
    BY <1>1, <1>3 DEF To, Moved, Reqs, GetPcs, LeadPcs
  <2> HIDE DEF q
  <2>2. RequestOK(vers, acked, entry, gen, fills, r, q) /\ q.leader = None
    BY <1>1, <1>2, <2>1, MoveSound DEF Holding
  <2>3. RequestOK(vers', acked', entry', gen', fills', r, q)
    BY <2>2, RequestStays DEF RefreshInv
  <2> QED
    BY <1>1, <1>2, <1>3, <2>1, <2>2, <2>3, RequestStep DEF LeadPcs
<1>4. CASE flight # None /\ UNCHANGED flight /\ Go(r, [req[r] EXCEPT !.pc = "wait", !.leader = flight])
  <2> DEFINE q == [req[r] EXCEPT !.pc = "wait", !.leader = flight]
  <2>1. flight \in Gets /\ req[flight].pc \in LeadPcs /\ flight # r
    BY <1>2, <1>4 DEF RefreshInv, FlightOK
  <2>2. /\ q \in Reqs /\ q.pc = "wait" /\ q.leader = flight /\ q.target = req[r].target
        /\ q.base = req[r].base /\ q.hits = 0 /\ q.misses = 0
    BY <1>1, <1>2, <2>1 DEF Reqs, GetPcs
  <2>3. Go(r, q)
    BY <1>4
  <2> HIDE DEF q
  <2>4. TargetOK(vers, fills, entry, q) /\ OutOK(vers, gen, acked, q) /\ DoneOK(vers, r, q)
    BY <1>1, <2>2 DEF TargetOK, OutOK, DoneOK, Holding
  <2>5. CountOK(r, q)
    BY <2>2 DEF CountOK, HeadPcs, GetPcs, LeadPcs
  <2>6. RequestOK(vers, acked, entry, gen, fills, r, q)
    BY <1>1, <2>2, <2>4, <2>5 DEF RequestOK
  <2>7. RequestOK(vers', acked', entry', gen', fills', r, q)
    BY <2>6, RequestStays DEF RefreshInv
  <2> QED
    BY <1>1, <1>2, <1>4, <2>1, <2>2, <2>3, <2>7, RequestStep
<1> QED
  BY <1>3, <1>4 DEF Join

LEMMA GetProbeSound ==
  ASSUME RefreshInv, NEW r \in Gets, GetProbe(r)
  PROVE  RefreshInv'
<1>1. r \in Requests /\ req[r].pc = "probe" /\ WorldOK' /\ EntryOK' /\ Onward
  BY CacheKept DEF GetProbe, At, Requests
<1>2. req[r].misses = 0 /\ req[r].pc \notin LeadPcs
  BY <1>1, RequestFacts DEF CountOK, LeadPcs
<1>3. CASE Satisfies(r, Peek) /\ Go(r, ServeCached(r, Peek, "HIT")) /\ UNCHANGED <<flight, faults>>
  <2>1. RequestOK(vers, acked, entry, gen, fills, r, ServeCached(r, Peek, "HIT"))
        /\ ServeCached(r, Peek, "HIT").leader = None
    BY <1>1, <1>2, <1>3, ServeCachedSound
  <2> QED
    BY <1>1, <1>2, <1>3, <2>1, GoSound
<1>4. CASE Join(r)
  BY <1>1, <1>4, JoinSound
<1> QED
  BY <1>3, <1>4 DEF GetProbe

(* A leader goes on, to another point where it leads.                        *)
LEMMA LeadOn ==
  ASSUME RefreshInv, WorldOK', EntryOK', Onward, UNCHANGED flight, NEW r \in Gets, NEW pc, To(r, pc),
         pc \in {"get_404", "get_reprobe", "lost_race", "begin_fill"},
         pc = "get_404" => req[r].pc \in Holding,
         req[r].pc \in LeadPcs
  PROVE  RefreshInv'
<1> DEFINE q == [req[r] EXCEPT !.pc = pc]
<1>1. r \in Requests /\ req[r] \in Reqs /\ CountOK(r, req[r])
  BY RequestFacts DEF Requests
<1>2. req[r].misses = 0 /\ req[r].leader = None /\ req[r].pc # "done"
  BY <1>1 DEF CountOK, LeadPcs
<1>3. Go(r, q) /\ q.pc = pc /\ Moved(req[r], q)
  BY <1>1 DEF To, Moved, Reqs, GetPcs, LeadPcs
<1> HIDE DEF q
<1>4. RequestOK(vers, acked, entry, gen, fills, r, q) /\ q.leader = None
  BY <1>1, <1>2, <1>3, MoveSound DEF Holding
<1> QED
  BY <1>1, <1>3, <1>4, GoSound DEF LeadPcs

(* A leader that found the entry serves it and lands.                        *)
LEMMA LeadServes ==
  ASSUME RefreshInv, WorldOK', EntryOK', Onward, NEW r \in Gets, req[r].pc \in LeadPcs,
         Satisfies(r, Peek), NEW status \in {"HIT", "STALE", "MISS"},
         \/ Land(r, ServeCached(r, Peek, status))
         \/ Land(r, [ServeCached(r, Peek, status) EXCEPT !.misses = @ + 1])
  PROVE  RefreshInv'
<1>1. r \in Requests /\ CountOK(r, req[r])
  BY RequestFacts DEF Requests
<1>2. req[r].misses = 0 /\ req[r].pc # "done"
  BY <1>1 DEF CountOK, LeadPcs
<1>3. CASE Land(r, ServeCached(r, Peek, status))
  <2>1. RequestOK(vers, acked, entry, gen, fills, r, ServeCached(r, Peek, status))
        /\ ServeCached(r, Peek, status).leader = None
    BY <1>1, <1>2, ServeCachedSound
  <2> QED
    BY <1>1, <1>3, <2>1, LandSound
<1>4. CASE Land(r, [ServeCached(r, Peek, status) EXCEPT !.misses = @ + 1])
  <2> DEFINE p == [ServeCached(r, Peek, status) EXCEPT !.misses = @ + 1]
  <2>1. RequestOK(vers, acked, entry, gen, fills, r, p) /\ p.leader = None
    BY <1>2, ServeMissedSound
  <2>2. Land(r, p)
    BY <1>4
  <2> HIDE DEF p
  <2> QED
    BY <1>1, <2>1, <2>2, LandSound
<1> QED
  BY <1>3, <1>4

LEMMA GetLeadSound ==
  ASSUME RefreshInv, NEW r \in Gets, GetLead(r)
  PROVE  RefreshInv'
<1>1. r \in Requests /\ req[r].pc = "lead" /\ WorldOK' /\ EntryOK' /\ Onward
  BY CacheKept DEF GetLead, At, Requests
<1>2. req[r] \in Reqs /\ req[r].misses = 0 /\ req[r].leader = None /\ req[r].pc \in LeadPcs
  BY <1>1, RequestFacts DEF CountOK, LeadPcs
<1>3. CASE Satisfies(r, Peek) /\ Land(r, ServeCached(r, Peek, "HIT"))
  BY <1>1, <1>2, <1>3, LeadServes
<1>4. CASE Peek # None /\ Go(r, [req[r] EXCEPT !.pc = "get_head", !.target = Peek]) /\ UNCHANGED flight
  <2> DEFINE q == [req[r] EXCEPT !.pc = "get_head", !.target = Peek]
  <2>2. Go(r, q) /\ q.pc = "get_head" /\ Retargeted(req[r], q)
    BY <1>2, <1>4, PeekSound DEF Retargeted, Reqs, GetPcs, LeadPcs, MetaExact
  <2> HIDE DEF q
  <2>1. RequestOK(vers, acked, entry, gen, fills, r, q) /\ q.leader = None
    BY <1>1, <1>2, <1>4, <2>2, TargetSound
  <2> QED
    BY <1>1, <1>4, <2>1, <2>2, GoSound DEF LeadPcs
<1>5. CASE To(r, "begin_fill") /\ UNCHANGED flight
  BY <1>1, <1>2, <1>5, LeadOn
<1> QED
  BY <1>3, <1>4, <1>5 DEF GetLead

LEMMA GetRefreshSound ==
  ASSUME RefreshInv, NEW r \in Gets, GetRefresh(r)
  PROVE  RefreshInv'
<1> DEFINE q == req[r]
           u == refreshed_cache_meta(q.target, q.out.v, q.wants)
<1>1. /\ q.pc = "got_head" /\ q.out.code = "ok" /\ SameETag(q.target.body, q.out.v)
      /\ UNCHANGED <<vers, acked, writing, flight>>
      /\ To(r, "get_reprobe") \/ To(r, "lost_race")
      /\ \/ update_metadata_if_unchanged(q.target, u) /\ UNCHANGED faults
         \/ Fault /\ UNCHANGED cache
  BY DEF GetRefresh, At, Others
<1>2. r \in Requests
  BY DEF Requests
<1>3. q.wants \in BOOLEAN /\ TargetOK(vers, fills, entry, q)
  BY <1>2, RequestFacts
<1>4. /\ MetaExact(vers, fills, q.target) /\ CopyOf(entry, q.target) /\ q.out.v \in 1..Len(vers)
  BY <1>1, <1>2, <1>3, TargetInHand DEF TargetOK
<1>5. WorldOK' /\ EntryOK' /\ Onward
  <2>1. CASE update_metadata_if_unchanged(q.target, u) /\ UNCHANGED faults
    BY <1>1, <1>3, <1>4, <2>1, UpdateSound
  <2>2. CASE Fault /\ UNCHANGED cache
    BY <1>1, <2>2, CacheKept
  <2> QED
    BY <1>1, <2>1, <2>2
<1> QED
  BY <1>1, <1>5, LeadOn DEF LeadPcs

LEMMA GetDisprovedSound ==
  ASSUME RefreshInv, NEW r \in Gets, GetMismatch(r) \/ GetNotFound(r)
  PROVE  RefreshInv'
<1> DEFINE q == [req[r] EXCEPT !.pc = "get_reprobe"]
           n == [req[r] EXCEPT !.pc = "get_404"]
<1>1. req[r].pc = "got_head" /\ UNCHANGED <<vers, acked, writing, flight>>
  BY DEF GetMismatch, GetNotFound, At, Others
<1>2. req[r].pc \in LeadPcs /\ req[r].pc \in Holding
  BY <1>1 DEF LeadPcs, Holding
<1>3. ASSUME WorldOK', EntryOK', Onward, Go(r, q) \/ Go(r, n) PROVE RefreshInv'
  BY <1>1, <1>2, <1>3, LeadOn DEF To
<1>4. CASE GetNotFound(r)
  <2>1. \E fill : purge_then_poison_if_unchanged(r, fill, n, q)
    BY <1>4 DEF GetNotFound
  <2> HIDE DEF q, n
  <2>2. WorldOK' /\ EntryOK' /\ Onward /\ (Go(r, q) \/ Go(r, n))
    BY <1>1, <2>1, PurgeSound
  <2> QED
    BY <1>3, <2>2
<1>5. CASE GetMismatch(r)
  <2>1. \/ Go(r, q) /\ UNCHANGED <<cache, faults>>
        \/ \E fill : purge_then_poison_if_unchanged(r, fill, q, q)
    BY <1>5 DEF GetMismatch
  <2> HIDE DEF q
  <2>2. WorldOK' /\ EntryOK' /\ Onward /\ Go(r, q)
    BY <1>1, <2>1, PurgeSound, CacheKept
  <2> QED
    BY <1>3, <2>2
<1> QED
  BY <1>4, <1>5

LEMMA GetMovesSound ==
  ASSUME RefreshInv, NEW r \in Gets, GetLostRace(r) \/ GetHeadFails(r) \/ GetReprobe(r)
  PROVE  RefreshInv'
<1>1. WorldOK' /\ EntryOK' /\ Onward
  BY CacheKept DEF GetLostRace, GetHeadFails, GetReprobe, Others
<1>2. req[r].pc \in LeadPcs
  BY DEF GetLostRace, GetHeadFails, GetReprobe, At, LeadPcs
<1>3. CASE GetLostRace(r)
  <2>1. CASE Satisfies(r, Peek)
    BY <1>1, <1>2, <1>3, <2>1, LeadServes DEF GetLostRace
  <2>2. CASE ~Satisfies(r, Peek)
    BY <1>1, <1>2, <1>3, <2>2, LeadOn DEF GetLostRace
  <2> QED
    BY <2>1, <2>2
<1>4. CASE GetHeadFails(r)
  BY <1>1, <1>2, <1>4, LeadOn DEF GetHeadFails, Others
<1>5. CASE GetReprobe(r)
  <2>1. CASE Satisfies(r, Peek)
    BY <1>1, <1>2, <1>5, <2>1, LeadServes DEF GetReprobe
  <2>2. CASE ~Satisfies(r, Peek)
    BY <1>1, <1>2, <1>5, <2>2, LeadOn DEF GetReprobe
  <2> QED
    BY <2>1, <2>2
<1> QED
  BY <1>3, <1>4, <1>5

(* A leader with the backend's answer in hand ends with it.                  *)
LEMMA LeadAnswers ==
  ASSUME RefreshInv, WorldOK', EntryOK', Onward, NEW r \in Gets, req[r].pc \in {"get_404", "fetched"},
         \/ req[r].out.code = "ok" /\ Land(r, ServeFresh(r, req[r], req[r].out.v))
         \/ Land(r, ServeError(req[r], req[r].out))
  PROVE  RefreshInv'
<1>1. r \in Requests /\ req[r].misses = 0 /\ req[r].pc \in Holding
  BY RequestFacts DEF Requests, CountOK, Holding
<1>2. CASE req[r].out.code = "ok" /\ Land(r, ServeFresh(r, req[r], req[r].out.v))
  <2>1. RequestOK(vers, acked, entry, gen, fills, r, ServeFresh(r, req[r], req[r].out.v))
        /\ ServeFresh(r, req[r], req[r].out.v).leader = None
    BY <1>1, <1>2, AnswerInHand
  <2> QED
    BY <1>1, <1>2, <2>1, LandSound
<1>3. CASE Land(r, ServeError(req[r], req[r].out))
  <2>1. RequestOK(vers, acked, entry, gen, fills, r, ServeError(req[r], req[r].out))
        /\ ServeError(req[r], req[r].out).leader = None
    BY <1>1, AnswerInHand
  <2> QED
    BY <1>1, <1>3, <2>1, LandSound
<1> QED
  BY <1>2, <1>3

LEMMA GetBeginFillSound ==
  ASSUME RefreshInv, NEW r \in Gets, GetBeginFill(r)
  PROVE  RefreshInv'
<1> DEFINE q == [req[r] EXCEPT !.pc = "fetch", !.gen = gen, !.target = None, !.out = None]
<1>1. /\ r \in Requests /\ req[r] \in Reqs /\ req[r].pc = "begin_fill" /\ req[r].base <= acked
      /\ gen \in Nat /\ CountOK(r, req[r])
  BY RequestFacts DEF GetBeginFill, At, Requests
<1>2. /\ q \in Reqs /\ q.pc = "fetch" /\ q.gen = gen /\ q.target = None /\ q.leader = req[r].leader
      /\ q.base = req[r].base /\ q.hits = req[r].hits /\ q.misses = req[r].misses
  BY <1>1 DEF Reqs, GetPcs, LeadPcs
<1>3. WorldOK' /\ EntryOK' /\ Onward /\ flight' = flight /\ Go(r, q)
  BY CacheKept DEF GetBeginFill, Others
<1> HIDE DEF q
<1>4. TargetOK(vers, fills, entry, q) /\ OutOK(vers, gen, acked, q) /\ DoneOK(vers, r, q)
  BY <1>1, <1>2 DEF TargetOK, OutOK, DoneOK, Holding
<1>5. CountOK(r, q) /\ q.leader = None /\ q.pc \in LeadPcs
  BY <1>1, <1>2 DEF CountOK, HeadPcs, LeadPcs
<1>6. RequestOK(vers, acked, entry, gen, fills, r, q)
  BY <1>1, <1>2, <1>4, <1>5 DEF RequestOK
<1> QED
  BY <1>1, <1>3, <1>5, <1>6, GoSound

LEMMA GetFetchSound ==
  ASSUME RefreshInv, NEW r \in Gets, NEW out \in Answers, GetFetch(r, out)
  PROVE  RefreshInv'
<1> DEFINE q == [req[r] EXCEPT !.pc = "fetched", !.out = out]
<1>1. /\ r \in Requests /\ req[r] \in Reqs /\ req[r].pc = "fetch" /\ req[r].base <= acked
      /\ gen \in Nat /\ acked \in Nat /\ req[r].base \in Nat /\ Len(vers) \in Nat /\ CountOK(r, req[r])
      /\ OutOK(vers, gen, acked, req[r]) /\ TargetOK(vers, fills, entry, req[r]) /\ WorldOK
  BY RequestFacts DEF GetFetch, At, Requests
<1>2. /\ out \in Outs /\ (UNCHANGED faults \/ Fault)
      /\ out.code \in {"ok", "404"} => out.v \in 1..Len(vers) /\ out.v >= acked
  BY <1>1, AnswerSound DEF GetFetch
<1>3. /\ q \in Reqs /\ q.pc = "fetched" /\ q.out = out /\ q.gen = req[r].gen
      /\ q.target = req[r].target /\ q.leader = req[r].leader
      /\ q.base = req[r].base /\ q.hits = req[r].hits /\ q.misses = req[r].misses
  BY <1>1, <1>2 DEF Reqs, GetPcs, LeadPcs
<1>4. WorldOK' /\ EntryOK' /\ Onward /\ flight' = flight /\ Go(r, q)
  BY <1>2, CacheKept DEF GetFetch, Others
<1> HIDE DEF q
<1>5. TargetOK(vers, fills, entry, q) /\ DoneOK(vers, r, q)
  BY <1>1, <1>3 DEF TargetOK, DoneOK
<1>6. OutOK(vers, gen, acked, q)
  <2>1. q.out.code \in {"ok", "404"} => q.out.v \in 1..Len(vers) /\ q.out.v >= q.base
    BY <1>1, <1>2, <1>3
  <2> QED
    BY <1>1, <1>2, <1>3, <2>1 DEF OutOK
<1>7. CountOK(r, q) /\ q.leader = None /\ q.pc \in LeadPcs
  BY <1>1, <1>3 DEF CountOK, HeadPcs, LeadPcs
<1>8. RequestOK(vers, acked, entry, gen, fills, r, q)
  BY <1>1, <1>3, <1>5, <1>6, <1>7 DEF RequestOK
<1> QED
  BY <1>1, <1>4, <1>7, <1>8, GoSound

(* What a fill commits is no older than the last acknowledged write, as no   *)
(* purge came between.                                                       *)
LEMMA GetCommitSound ==
  ASSUME RefreshInv, NEW r \in Gets, GetCommit(r)
  PROVE  RefreshInv'
<1> DEFINE q == req[r]
<1>1. /\ r \in Requests /\ q \in Reqs /\ q.wants \in BOOLEAN /\ q.pc = "fetched" /\ WorldOK
      /\ OutOK(vers, gen, acked, q) /\ q.out.code = "ok" /\ EntryOK
      /\ UNCHANGED <<vers, acked, writing, faults>> /\ Land(r, ServeFresh(r, q, q.out.v))
  BY RequestFacts DEF GetCommit, At, Requests, RefreshInv
<1>2. q.out.v \in 1..Len(vers)
  BY <1>1 DEF OutOK, Holding
<1>3. WorldOK' /\ EntryOK' /\ Onward
  <2>1. CASE UNCHANGED cache
    BY <1>1, <2>1, CacheKept
  <2>2. ASSUME NEW sent \in BOOLEAN, q.gen = gen, fills' = fills + 1, poisoned' = FALSE, UNCHANGED gen,
               entry' = [preserve_same_etag_head_state_from(FilledMeta(q.out.v, sent), entry)
                           EXCEPT !.fill = fills']
        PROVE  WorldOK' /\ EntryOK' /\ Onward
    <3>1. fills \in Nat /\ fills + 1 \in 1..(fills + 1) /\ acked \in Nat /\ Len(vers) \in Nat
      BY <1>1 DEF WorldOK
    <3>2. MetaExact(vers, fills + 1, entry') /\ entry'.fill = fills + 1 /\ entry'.body = q.out.v
      BY <1>1, <1>2, <2>2, <3>1, PreservedSound
    <3>3. entry'.body >= acked
      BY <1>1, <2>2, <3>2 DEF OutOK
    <3>4. EntryOK'
      BY <1>1, <2>2, <3>2, <3>3 DEF EntryOK
    <3>5. poisoned' \in BOOLEAN /\ ~poisoned'
      BY <2>2
    <3>6. WorldOK'
      BY <1>1, <2>2, <3>1, <3>5 DEF WorldOK
    <3>7. Onward
      BY <1>1, <2>2, <3>1, <3>2 DEF Onward, Extends, Becomes, WorldOK
    <3> QED
      BY <3>4, <3>6, <3>7
  <2>3. \A sent \in {q.wants, TRUE} : sent \in BOOLEAN
    BY <1>1
  <2> QED
    BY <2>1, <2>2, <2>3 DEF GetCommit
<1> QED
  BY <1>1, <1>3, LeadAnswers

LEMMA GetFailsSound ==
  ASSUME RefreshInv, NEW r \in Gets, GetFails(r) \/ GetRefreshed404(r)
  PROVE  RefreshInv'
<1>1. WorldOK' /\ EntryOK' /\ Onward /\ req[r].pc \in {"get_404", "fetched"} /\ req[r].pc \in LeadPcs
  BY CacheKept DEF GetFails, GetRefreshed404, At, LeadPcs
<1>2. CASE Land(r, ServeError(req[r], req[r].out))
  BY <1>1, <1>2, LeadAnswers
<1>3. CASE Satisfies(r, Peek) /\ Land(r, [ServeCached(r, Peek, "STALE") EXCEPT !.misses = @ + 1])
  BY <1>1, <1>3, LeadServes
<1> QED
  BY <1>2, <1>3 DEF GetFails, GetRefreshed404

LEMMA GetWokenSound ==
  ASSUME RefreshInv, NEW r \in Gets, GetWoken(r)
  PROVE  RefreshInv'
<1>1. r \in Requests /\ req[r].pc = "woken" /\ WorldOK' /\ EntryOK' /\ Onward /\ UNCHANGED flight
  BY CacheKept DEF GetWoken, At, Requests, Others
<1>2. /\ req[r] \in Reqs /\ req[r].base <= acked /\ req[r].misses = 0 /\ req[r].leader = None
      /\ req[r].pc \notin LeadPcs /\ req[r].hits = 0 /\ TargetOK(vers, fills, entry, req[r])
  BY <1>1, RequestFacts DEF CountOK, LeadPcs
<1>3. CASE Satisfies(r, Peek) /\ Go(r, ServeCached(r, Peek, "HIT"))
  <2>1. RequestOK(vers, acked, entry, gen, fills, r, ServeCached(r, Peek, "HIT"))
        /\ ServeCached(r, Peek, "HIT").leader = None
    BY <1>1, <1>2, <1>3, ServeCachedSound
  <2> QED
    BY <1>1, <1>2, <1>3, <2>1, GoSound
<1>4. CASE To(r, "passthrough")
  <2> DEFINE q == [req[r] EXCEPT !.pc = "passthrough"]
  <2>1. Go(r, q) /\ q.pc = "passthrough" /\ Moved(req[r], q)
    BY <1>2, <1>4 DEF To, Moved, Reqs, GetPcs
  <2> HIDE DEF q
  <2>2. RequestOK(vers, acked, entry, gen, fills, r, q) /\ q.leader = None
    BY <1>1, <1>2, <2>1, MoveSound DEF Holding
  <2> QED
    BY <1>1, <1>2, <2>1, <2>2, GoSound
<1>5. CASE Go(r, [req[r] EXCEPT !.pc = IF req[r].allow THEN "probe" ELSE "passthrough", !.allow = FALSE])
  <2> DEFINE q == [req[r] EXCEPT !.pc = IF req[r].allow THEN "probe" ELSE "passthrough", !.allow = FALSE]
  <2>1. /\ q \in Reqs /\ q.pc \in {"probe", "passthrough"} /\ q.target = req[r].target
        /\ q.leader = req[r].leader /\ q.base = req[r].base /\ q.hits = req[r].hits
        /\ q.misses = req[r].misses
    BY <1>2 DEF Reqs, GetPcs
  <2>2. Go(r, q)
    BY <1>5
  <2> HIDE DEF q
  <2>3. TargetOK(vers, fills, entry, q) /\ OutOK(vers, gen, acked, q) /\ DoneOK(vers, r, q)
    BY <1>2, <2>1 DEF TargetOK, OutOK, DoneOK, Holding
  <2>4. CountOK(r, q)
    BY <1>2, <2>1 DEF CountOK, HeadPcs
  <2>5. RequestOK(vers, acked, entry, gen, fills, r, q)
    BY <1>2, <2>1, <2>3, <2>4 DEF RequestOK
  <2> QED
    BY <1>1, <1>2, <2>1, <2>2, <2>5, GoSound
<1> QED
  BY <1>3, <1>4, <1>5 DEF GetWoken

LEMMA GetPassthroughSound ==
  ASSUME RefreshInv, NEW r \in Gets, NEW out \in Answers, GetPassthrough(r, out)
  PROVE  RefreshInv'
<1> DEFINE q == req[r]
<1>1. /\ r \in Requests /\ q \in Reqs /\ q.pc = "passthrough" /\ q.base \in Nat /\ q.base <= acked
      /\ acked \in Nat /\ Len(vers) \in Nat /\ WorldOK /\ q.wants \in BOOLEAN /\ CountOK(r, q)
  BY RequestFacts DEF GetPassthrough, At, Requests
<1>2. /\ out \in Outs /\ (UNCHANGED faults \/ Fault)
      /\ out.code \in {"ok", "404"} => out.v \in 1..Len(vers) /\ out.v >= acked
  BY <1>1, AnswerSound DEF GetPassthrough
<1>3. WorldOK' /\ EntryOK' /\ Onward /\ flight' = flight
  BY <1>2, CacheKept DEF GetPassthrough, Others
<1>4. q.hits = 0 /\ q.misses = 0 /\ q.pc \notin LeadPcs
  BY <1>1 DEF CountOK, LeadPcs
<1>5. out.code \in {"ok", "404"} => out.v >= q.base
  BY <1>1, <1>2
<1>6. CASE out.code = "ok"
  <2>1. RequestOK(vers, acked, entry, gen, fills, r, ServeFresh(r, q, out.v))
        /\ ServeFresh(r, q, out.v).leader = None
    BY <1>1, <1>2, <1>4, <1>5, <1>6, ServeFreshSound
  <2>2. Go(r, ServeFresh(r, q, out.v))
    BY <1>6 DEF GetPassthrough
  <2> QED
    BY <1>1, <1>3, <1>4, <2>1, <2>2, GoSound
<1>7. CASE out.code # "ok"
  <2>1. RequestOK(vers, acked, entry, gen, fills, r, ServeError(q, out))
        /\ ServeError(q, out).leader = None
    BY <1>1, <1>2, <1>4, <1>5, ServeErrorSound
  <2>2. Go(r, ServeError(q, out))
    BY <1>7 DEF GetPassthrough
  <2> QED
    BY <1>1, <1>3, <1>4, <2>1, <2>2, GoSound
<1> QED
  BY <1>6, <1>7

-----------------------------------------------------------------------------
(* Writes, and the whole of Next.                                            *)

LEMMA NewVersionSound ==
  ASSUME RefreshInv, NewVersion, UNCHANGED <<acked, cache, flight, req, faults>>,
         writing' \in {writing, Len(vers) + 1}
  PROVE  RefreshInv'
<1>0. WorldOK /\ EntryOK
  BY DEF RefreshInv
<1> DEFINE Versions == [exists : BOOLEAN, etag : ETags \cup {None}]
<1>1. PICK x \in Versions : vers' = Append(vers, x)
  BY DEF NewVersion
<1>2. vers \in Seq(Versions) /\ Len(vers) \in Nat /\ Len(vers) >= 1
  BY <1>0 DEF WorldOK
<1> HIDE DEF Versions
<1>3. vers' \in Seq(Versions) /\ Len(vers') = Len(vers) + 1 /\ \A i \in 1..Len(vers) : vers'[i] = vers[i]
  BY <1>1, <1>2
<1>4. Extends(vers, vers')
  BY <1>2, <1>3 DEF Extends
<1>5. WorldOK'
  <2>1. Len(vers') \in 1..MaxVersions
    BY <1>2, <1>3, BoundAssumption DEF NewVersion, Current
  <2>2. acked' \in 1..Len(vers') /\ writing' \in 0..Len(vers') /\ (writing' = 0 \/ writing' >= acked')
    BY <1>0, <1>2, <1>3 DEF WorldOK
  <2> QED
    BY <1>0, <1>3, <2>1, <2>2 DEF WorldOK, Versions, cache
<1>6. EntryOK'
  <2>1. entry # None => MetaExact(vers', fills, entry)
    BY <1>0, <1>2, <1>3, <1>4, ExactStays DEF WorldOK, EntryOK
  <2> QED
    BY <1>0, <2>1 DEF EntryOK, cache
<1>7. Onward
  BY <1>0, <1>4 DEF Onward, Becomes, WorldOK, cache
<1> QED
  BY <1>5, <1>6, <1>7, WorldStep

LEMMA WriteInvalidatesSound ==
  ASSUME RefreshInv, WriteInvalidates
  PROVE  RefreshInv'
<1>0. WorldOK /\ EntryOK
  BY DEF RefreshInv
<1>1. acked' \in 1..Len(vers) /\ acked' >= acked
  BY <1>0 DEF WorldOK, WriteInvalidates
<1>2. CASE entry' = None /\ poisoned' = FALSE /\ UNCHANGED faults
  <2>1. poisoned' \in BOOLEAN /\ ~poisoned'
    BY <1>2
  <2>2. WorldOK'
    BY <1>0, <1>1, <1>2, <2>1 DEF WorldOK, WriteInvalidates
  <2>3. EntryOK'
    BY <1>2 DEF EntryOK
  <2>4. Onward
    BY <1>0, <1>1, <1>2 DEF WorldOK, Onward, Extends, Becomes, WriteInvalidates
  <2> QED
    BY <2>2, <2>3, <2>4, WorldStep DEF WriteInvalidates
<1>3. CASE Fault /\ poisoned' = (entry # None) /\ UNCHANGED entry
  <2>1. poisoned' \in BOOLEAN /\ (poisoned' <=> entry' # None)
    BY <1>3
  <2>2. WorldOK'
    BY <1>0, <1>1, <1>3, <2>1, BoundAssumption DEF WorldOK, Fault, WriteInvalidates
  <2>3. EntryOK'
    BY <1>0, <1>3, <2>1 DEF EntryOK, WriteInvalidates
  <2>4. Onward
    BY <1>0, <1>1, <1>3 DEF WorldOK, Onward, Extends, Becomes, WriteInvalidates
  <2> QED
    BY <2>2, <2>3, <2>4, WorldStep DEF WriteInvalidates
<1> QED
  BY <1>2, <1>3 DEF WriteInvalidates

LEMMA EvictSound ==
  ASSUME RefreshInv, Evict
  PROVE  RefreshInv'
<1>0. WorldOK
  BY DEF RefreshInv
<1>1. poisoned' \in BOOLEAN /\ ~poisoned'
  BY DEF Evict
<1>2. WorldOK'
  BY <1>0, <1>1 DEF WorldOK, Evict
<1>3. EntryOK'
  BY DEF EntryOK, Evict
<1>4. Onward
  BY <1>0 DEF WorldOK, Onward, Extends, Becomes, Evict
<1> QED
  BY <1>2, <1>3, <1>4, WorldStep DEF Evict

LEMMA InitSound ==
  ASSUME Init
  PROVE  RefreshInv
<1>1. PICK e \in ETags \cup {None} : vers = <<[exists |-> TRUE, etag |-> e]>>
  BY DEF Init
<1>2. vers \in Seq([exists : BOOLEAN, etag : ETags \cup {None}]) /\ Len(vers) = 1
  BY <1>1
<1>3. WorldOK
  <2>1. Len(vers) \in 1..MaxVersions
    BY <1>2, BoundAssumption
  <2>2. poisoned \in BOOLEAN /\ ~poisoned
    BY DEF Init
  <2>3. fills \in Nat /\ gen \in Nat /\ faults \in 0..MaxFaults
    BY BoundAssumption DEF Init
  <2> QED
    BY <1>2, <2>1, <2>2, <2>3 DEF WorldOK, Init
<1>4. EntryOK
  <2>1. ASSUME entry # None PROVE MetaExact(vers, fills, entry) /\ entry.body >= acked
    <3>1. fills = 1
      BY <2>1 DEF Init
    <3>2. PICK w \in BOOLEAN : entry = [FilledMeta(1, w) EXCEPT !.fill = 1]
      BY <3>1 DEF Init
    <3>3. /\ entry \in Metas /\ entry.fill = 1 /\ entry.body = 1 /\ entry.shared = 1
          /\ ~entry.head_metadata_checked /\ ~entry.head_checksum_checked
          /\ entry.checksum_mode_checked = w /\ (w => entry.checksums = <<"get", 1>>)
      BY <3>2 DEF FilledMeta, Metas, Sums
    <3>4. Observed(vers, 1, 1) /\ SumsOf(vers, <<"get", 1>>, "get", 1)
      BY <1>2 DEF Observed, SumsOf, Sums
    <3>5. MetaExact(vers, fills, entry)
      BY <3>1, <3>3, <3>4 DEF MetaExact
    <3> QED
      BY <3>3, <3>5 DEF Init
  <2> QED
    BY <2>1 DEF EntryOK
<1>5. Idle \in Reqs
  BY DEF Idle, Reqs, NoResp, Resps
<1>6. req \in [Requests -> Reqs] /\ \A r \in Requests : req[r] = Idle
  BY <1>5 DEF Init
<1>7. FlightOK
  BY <1>6 DEF FlightOK, Init, Idle
<1>8. ASSUME NEW r \in Requests PROVE ReqOK(r)
  <2>1. /\ Idle.pc = "idle" /\ Idle.target = None /\ Idle.leader = None /\ Idle.hits = 0
        /\ Idle.misses = 0 /\ Idle.base = 0
    BY DEF Idle
  <2>2. TargetOK(vers, fills, entry, Idle) /\ OutOK(vers, gen, acked, Idle) /\ DoneOK(vers, r, Idle)
    BY <2>1 DEF TargetOK, OutOK, DoneOK, Holding
  <2>3. CountOK(r, Idle)
    BY <2>1 DEF CountOK, HeadPcs, GetPcs, LeadPcs
  <2>4. Idle.base <= acked
    BY <2>1 DEF Init
  <2> QED
    BY <1>5, <1>6, <2>2, <2>3, <2>4 DEF ReqOK, RequestOK
<1> QED
  BY <1>3, <1>4, <1>6, <1>7, <1>8 DEF RefreshInv

LEMMA NextSound ==
  ASSUME RefreshInv, [Next]_vars
  PROVE  RefreshInv'
<1>1. CASE WriteBackend \/ ExternalWrite
  BY <1>1, NewVersionSound DEF WriteBackend, ExternalWrite, Current
<1>2. CASE WriteInvalidates \/ Evict
  BY <1>2, WriteInvalidatesSound, EvictSound
<1>3. ASSUME NEW r \in Heads,
             \/ \E w \in BOOLEAN : HeadStart(r, w)
             \/ \E out \in Answers : HeadSend(r, out) \/ HeadResend(r, out)
             \/ HeadNoTarget(r) \/ HeadUpdate(r) \/ HeadNoMatch(r) \/ HeadMismatch(r)
             \/ HeadNotFound(r) \/ HeadReprobe(r) \/ HeadReprobeAgain(r) \/ HeadRetryUpdate(r)
             \/ HeadRetryDisproved(r) \/ HeadRetryFails(r) \/ HeadFails(r)
      PROVE  RefreshInv'
  <2>1. r \in Requests
    BY DEF Requests
  <2>2. ASSUME NEW out \in Answers, HeadSend(r, out) \/ HeadResend(r, out) PROVE RefreshInv'
    BY <2>1, <2>2, AskSound DEF HeadSend, HeadResend, At, Others
  <2> QED
    BY <1>3, <2>2, HeadStartSound, HeadNoTargetSound, HeadUpdateSound, HeadNoMatchSound,
       HeadMismatchSound, HeadNotFoundSound, HeadReprobeSound, HeadReprobeAgainSound,
       HeadRetryUpdateSound, HeadRetryDisprovedSound, HeadFailsSound
<1>4. ASSUME NEW r \in Gets,
             \/ \E w \in BOOLEAN : GetStart(r, w)
             \/ \E out \in Answers : GetHead(r, out) \/ GetFetch(r, out) \/ GetPassthrough(r, out)
             \/ GetProbe(r) \/ GetLead(r) \/ GetRefresh(r) \/ GetLostRace(r) \/ GetMismatch(r)
             \/ GetNotFound(r) \/ GetRefreshed404(r) \/ GetHeadFails(r) \/ GetReprobe(r)
             \/ GetBeginFill(r) \/ GetCommit(r) \/ GetFails(r) \/ GetWoken(r)
      PROVE  RefreshInv'
  <2>1. r \in Requests
    BY DEF Requests
  <2>2. ASSUME NEW out \in Answers, GetHead(r, out) PROVE RefreshInv'
    BY <2>1, <2>2, AskSound DEF GetHead, At, Others
  <2> QED
    BY <1>4, <2>2, GetStartSound, GetFetchSound, GetPassthroughSound, GetProbeSound, GetLeadSound,
       GetRefreshSound, GetMovesSound, GetDisprovedSound, GetFailsSound, GetBeginFillSound,
       GetCommitSound, GetWokenSound
<1>5. CASE UNCHANGED vars
  <2>1. WorldOK' /\ EntryOK' /\ Onward
    BY <1>5, CacheKept DEF vars, cache
  <2> QED
    BY <1>5, <2>1, WorldStep DEF vars
<1> QED
  BY <1>1, <1>2, <1>3, <1>4, <1>5 DEF Next

(* Whatever GETs, HEADs, writes and faults do, the entry and every copy of   *)
(* its metadata are exact, the entry that is served is no older than the     *)
(* last acknowledged write, and every request ends with an exact, fresh and  *)
(* once counted answer.                                                      *)
THEOREM MetadataStaysExact == Spec => []RefreshInv
BY InitSound, NextSound, PTL DEF Spec

-----------------------------------------------------------------------------
(* The properties.                                                           *)

(* Every header of an answer belongs to the object it names, checksums are   *)
(* those of the right kind of request exactly when asked for, and each       *)
(* request is counted as what it was (handle_head, handle_get).              *)
THEOREM RefreshesAnswerExactly == Spec => []AnswersExact
<1>1. ASSUME RefreshInv PROVE AnswersExact
  <2>1. ASSUME NEW r \in Requests
        PROVE  /\ req[r] \in Reqs /\ DoneOK(vers, r, req[r])
               /\ (r \in Gets => r \notin Heads) /\ (r \notin Heads => r \in Gets)
    BY <1>1, RequestAssumption DEF RefreshInv, ReqOK, RequestOK, Requests
  <2>2. TypeOK
    <3>1. Current \in 1..MaxVersions /\ acked \in 1..Current /\ writing \in 0..Current
          /\ faults \in 0..MaxFaults
      BY <1>1 DEF RefreshInv, WorldOK, Current
    <3>2. entry # None => entry.fill \in 1..fills /\ entry.body \in 1..Current
      BY <1>1 DEF RefreshInv, EntryOK, MetaExact, Observed, Current
    <3>3. poisoned => entry # None
      BY <1>1 DEF RefreshInv, WorldOK
    <3>4. flight \in Gets \cup {None}
      BY <1>1 DEF RefreshInv, FlightOK
    <3>5. ASSUME NEW g \in {flight} \cup {req[r].leader : r \in Requests}, g # None
          PROVE  req[g].pc \notin {"idle", "done", "wait", "woken"}
      BY <1>1, <3>5 DEF RefreshInv, FlightOK, LeadPcs
    <3> QED
      BY <3>1, <3>2, <3>3, <3>4, <3>5 DEF TypeOK
  <2>3. ResponseExact
    <3>1. ASSUME NEW r \in Requests, Answered(r)
          PROVE  LET resp == req[r].resp IN
                 /\ SameObject(resp.v, resp.shared)
                 /\ r \in Heads => resp.extra # None /\ SameObject(resp.v, resp.extra)
                 /\ (resp.checksums # None) = req[r].wants
                 /\ req[r].wants => /\ resp.checksums[1] = IF r \in Heads THEN "head" ELSE "get"
                                    /\ SameObject(resp.v, resp.checksums[2])
      <4> DEFINE resp == req[r].resp
      <4>1. RespOK(vers, r, req[r].wants, resp) /\ resp.status \in {"HIT", "STALE", "MISS"}
        BY <2>1, <3>1 DEF DoneOK, Answered
      <4>2. req[r].wants \in BOOLEAN
        BY <2>1 DEF Reqs
      <4>3. \A v : Observed(vers, v, resp.v) => SameObject(resp.v, v)
        BY DEF Observed, SameObject, SameETag
      <4>4. \A v : Observed(vers, v, resp.v) => v # None
        BY ValueAssumption, <1>1 DEF Observed, RefreshInv, WorldOK
      <4>5. SameObject(resp.v, resp.shared)
        BY <4>1, <4>3 DEF RespOK
      <4>6. r \in Heads => resp.extra # None /\ SameObject(resp.v, resp.extra)
        BY <4>1, <4>3, <4>4 DEF RespOK
      <4>7. req[r].wants => /\ resp.checksums[1] = IF r \in Heads THEN "head" ELSE "get"
                            /\ SameObject(resp.v, resp.checksums[2])
        BY <4>1, <4>3 DEF RespOK, SumsOf
      <4>8. (req[r].wants => resp.checksums # None) /\ (~req[r].wants => resp.checksums = None)
        BY <4>1, ValueAssumption DEF RespOK, SumsOf
      <4> HIDE DEF resp
      <4>9. (resp.checksums # None) = req[r].wants
        BY <4>2, <4>8, Zenon
      <4> QED
        BY <4>5, <4>6, <4>7, <4>9 DEF resp
    <3> QED
      BY <3>1 DEF ResponseExact
  <2>4. Accounted
    <3>1. ASSUME NEW r \in Requests, req[r].pc = "done"
          PROVE  /\ (req[r].hits = 1) = req[r].resp.cached
                 /\ IF r \in Heads THEN req[r].hits + req[r].misses = 1
                    ELSE req[r].hits <= 1 /\ req[r].misses <= 1 /\ req[r].hits + req[r].misses >= 1
      <4>1. /\ IF req[r].resp.cached THEN req[r].hits = 1 ELSE req[r].hits = 0
            /\ IF r \in Heads THEN req[r].misses = 1 - req[r].hits
               ELSE req[r].misses \in 0..1 /\ req[r].hits + req[r].misses >= 1
        BY <2>1, <3>1 DEF DoneOK
      <4>2. req[r].resp.cached \in BOOLEAN /\ req[r].hits \in Nat /\ req[r].misses \in Nat
        BY <2>1 DEF Reqs, Resps
      <4>3. req[r].hits \in {0, 1} /\ (req[r].hits = 1 <=> req[r].resp.cached)
        BY <4>1, <4>2
      <4>4. (req[r].hits = 1) = req[r].resp.cached
        BY <4>2, <4>3, Zenon
      <4>5. IF r \in Heads THEN req[r].hits + req[r].misses = 1
            ELSE req[r].hits <= 1 /\ req[r].misses <= 1 /\ req[r].hits + req[r].misses >= 1
        BY <4>1, <4>2, <4>3
      <4> QED
        BY <4>4, <4>5
    <3> QED
      BY <3>1 DEF Accounted
  <2> QED
    BY <2>2, <2>3, <2>4 DEF AnswersExact
<1> QED
  BY <1>1, MetadataStaysExact, PTL

(* No request is answered with an object, or with 404, older than the last   *)
(* write acknowledged before it began.                                       *)
THEOREM RefreshesAnswerFresh == Spec => []AnswersFresh
<1>1. ASSUME RefreshInv PROVE AnswersFresh
  BY <1>1 DEF RefreshInv, ReqOK, RequestOK, DoneOK, AnswersFresh
<1> QED
  BY <1>1, MetadataStaysExact, PTL

(* What a step may do to the entry: keep it, enrich it, replace it by that   *)
(* of a new fill, or let request r purge it on newer evidence.               *)
Enriched ==
    /\ entry # None /\ entry' \in Metas /\ UNCHANGED poisoned
    /\ entry'.checksums = entry.checksums
    /\ entry'.checksum_mode_checked = entry.checksum_mode_checked
    /\ entry.head_metadata_checked => entry'.head_metadata_checked
    /\ entry.head_checksum_checked => entry'.head_checksum_checked

Replaced == entry' \in Metas /\ entry'.fill = fills + 1 /\ poisoned' = FALSE

Purged(r) ==
    /\ entry # None /\ entry.fill <= req[r].known /\ entry' \in {None, entry}
    /\ \A s \in Requests \ {r} : req'[s] = req[s]

EntryStep ==
    \/ UNCHANGED <<entry, poisoned>>
    \/ Enriched \/ Replaced
    \/ \E r \in Requests : Purged(r)
    \/ UNCHANGED req /\ entry' \in {None, entry}

LEMMA UpdateEnriches ==
  ASSUME RefreshInv, NEW r \in Requests, req[r].pc \in {"answered", "reanswered", "got_head"},
         req[r].target # None,
         \/ update_metadata_if_unchanged(req[r].target,
               refreshed_cache_meta(req[r].target, req[r].out.v, req[r].wants))
         \/ UNCHANGED cache
  PROVE  EntryStep
<1> DEFINE m == req[r].target
           u == refreshed_cache_meta(m, req[r].out.v, req[r].wants)
<1>1. MetaExact(vers, fills, m) /\ CopyOf(entry, m) /\ req[r].out \in Outs
  BY TargetInHand
<1>2. m \in Metas /\ req[r].out.v \in Nat /\ req[r].wants \in BOOLEAN
  BY <1>1, RequestFacts DEF MetaExact, Outs
<1>3. /\ u.mv = m.mv /\ u.checksums = m.checksums /\ u.head_metadata_checked
      /\ u.checksum_mode_checked = m.checksum_mode_checked
  BY <1>2 DEF refreshed_cache_meta, Metas
<1>4. u.head_checksum_checked = (m.head_checksum_checked \/ req[r].wants)
  BY <1>2 DEF refreshed_cache_meta, Metas
<1>5. u \in Metas
  <2>1. <<"head", req[r].out.v>> \in Sums /\ (m.head_checksum_checked \/ req[r].wants) \in BOOLEAN
    BY <1>2 DEF Sums, Metas
  <2> QED
    BY <1>2, <2>1 DEF refreshed_cache_meta, Metas
<1>6. \/ UNCHANGED cache
      \/ entry # None /\ entry.fill = m.fill /\ entry.mv = u.mv /\ UNCHANGED poisoned
         /\ entry' = [u EXCEPT !.mv = @ + 1]
  BY DEF update_metadata_if_unchanged
<1> HIDE DEF u
<1>7. CASE entry # None /\ entry.fill = m.fill /\ entry.mv = u.mv /\ UNCHANGED poisoned
           /\ entry' = [u EXCEPT !.mv = @ + 1]
  <2>1. m = entry
    BY <1>1, <1>3, <1>7, UpdateHitsCopy
  <2>2. /\ entry' \in Metas /\ entry'.checksums = u.checksums
        /\ entry'.head_metadata_checked = u.head_metadata_checked
        /\ entry'.head_checksum_checked = u.head_checksum_checked
        /\ entry'.checksum_mode_checked = u.checksum_mode_checked
    BY <1>5, <1>7 DEF Metas
  <2>3. entry.head_checksum_checked => entry'.head_checksum_checked
    BY <1>4, <2>1, <2>2, Zenon
  <2>4. Enriched
    BY <1>3, <1>7, <2>1, <2>2, <2>3 DEF Enriched
  <2> QED
    BY <2>4 DEF EntryStep
<1> QED
  BY <1>6, <1>7 DEF EntryStep, cache

LEMMA PurgeAimed ==
  ASSUME RefreshInv, NEW r \in Requests, req[r].pc \in {"answered", "reanswered", "got_head"},
         req[r].target # None, NEW yes, NEW no,
         purge_then_poison_if_unchanged(r, req[r].target.fill, yes, no)
  PROVE  EntryStep
<1>1. req[r].target.fill <= req[r].known /\ req \in [Requests -> Reqs]
  BY RequestFacts DEF TargetOK, RefreshInv
<1>2. entry = None => poisoned = FALSE
  BY DEF RefreshInv, WorldOK
<1>3. \A q : Go(r, q) => \A s \in Requests \ {r} : req'[s] = req[s]
  BY <1>1 DEF Go
<1>4. CASE Unchanged(req[r].target.fill)
  BY <1>1, <1>3, <1>4 DEF purge_then_poison_if_unchanged, Unchanged, EntryStep, Purged, cache
<1>5. CASE ~Unchanged(req[r].target.fill)
  BY <1>2, <1>5 DEF purge_then_poison_if_unchanged, EntryStep, cache
<1> QED
  BY <1>4, <1>5

LEMMA EntrySteps ==
  ASSUME RefreshInv, [Next]_vars
  PROVE  EntryStep
<1>1. CASE UNCHANGED vars \/ WriteBackend \/ ExternalWrite \/ WriteInvalidates \/ Evict
  BY <1>1 DEF vars, cache, WriteBackend, ExternalWrite, WriteInvalidates, Evict, EntryStep
<1>2. ASSUME NEW r \in Requests, UNCHANGED cache PROVE EntryStep
  BY <1>2 DEF cache, EntryStep
<1>3. ASSUME NEW r \in Heads,
             \/ \E w \in BOOLEAN : HeadStart(r, w)
             \/ \E out \in Answers : HeadSend(r, out) \/ HeadResend(r, out)
             \/ HeadNoTarget(r) \/ HeadUpdate(r) \/ HeadNoMatch(r) \/ HeadMismatch(r)
             \/ HeadNotFound(r) \/ HeadReprobe(r) \/ HeadReprobeAgain(r) \/ HeadRetryUpdate(r)
             \/ HeadRetryDisproved(r) \/ HeadRetryFails(r) \/ HeadFails(r)
      PROVE  EntryStep
  <2>1. r \in Requests /\ (req[r].pc = "reanswered" => req[r].target # None)
    BY RequestFacts DEF Requests, TargetOK
  <2>2. CASE HeadUpdate(r)
    BY <2>1, <2>2, UpdateEnriches DEF HeadUpdate, At
  <2>3. CASE HeadRetryUpdate(r)
    BY <2>1, <2>3, UpdateEnriches DEF HeadRetryUpdate, At
  <2>4. CASE HeadMismatch(r)
    BY <2>1, <2>4, PurgeAimed DEF HeadMismatch, At
  <2>5. CASE HeadNotFound(r)
    BY <2>1, <2>5, PurgeAimed DEF HeadNotFound, At
  <2>6. CASE HeadRetryDisproved(r)
    BY <2>1, <2>6, PurgeAimed DEF HeadRetryDisproved, At
  <2>7. CASE UNCHANGED cache
    BY <1>2, <2>1, <2>7
  <2> QED
    BY <1>3, <2>2, <2>3, <2>4, <2>5, <2>6, <2>7
    DEF HeadStart, HeadSend, HeadResend, HeadNoTarget, HeadNoMatch, HeadReprobe,
        HeadReprobeAgain, HeadRetryFails, HeadFails
<1>4. ASSUME NEW r \in Gets,
             \/ \E w \in BOOLEAN : GetStart(r, w)
             \/ \E out \in Answers : GetHead(r, out) \/ GetFetch(r, out) \/ GetPassthrough(r, out)
             \/ GetProbe(r) \/ GetLead(r) \/ GetRefresh(r) \/ GetLostRace(r) \/ GetMismatch(r)
             \/ GetNotFound(r) \/ GetRefreshed404(r) \/ GetHeadFails(r) \/ GetReprobe(r)
             \/ GetBeginFill(r) \/ GetCommit(r) \/ GetFails(r) \/ GetWoken(r)
      PROVE  EntryStep
  <2>1. r \in Requests /\ (req[r].pc = "got_head" => req[r].target # None)
    BY RequestFacts DEF Requests, TargetOK
  <2>2. CASE GetRefresh(r)
    BY <2>1, <2>2, UpdateEnriches DEF GetRefresh, At
  <2>3. CASE GetMismatch(r)
    <3> DEFINE q == [req[r] EXCEPT !.pc = "get_reprobe"]
    <3>1. /\ req[r].pc = "got_head"
          /\ UNCHANGED cache \/ purge_then_poison_if_unchanged(r, req[r].target.fill, q, q)
      <4>1. req[r] \in Reqs
        BY <2>1, RequestFacts
      <4>2. q.target = req[r].target
        BY <4>1 DEF Reqs
      <4> QED
        BY <2>3, <4>2 DEF GetMismatch, At
    <3> HIDE DEF q
    <3> QED
      BY <1>2, <2>1, <3>1, PurgeAimed
  <2>4. CASE GetNotFound(r)
    <3> DEFINE q == [req[r] EXCEPT !.pc = "get_reprobe"]
               n == [req[r] EXCEPT !.pc = "get_404"]
    <3>1. req[r].pc = "got_head" /\ purge_then_poison_if_unchanged(r, req[r].target.fill, n, q)
      BY <2>4 DEF GetNotFound, At
    <3> HIDE DEF q, n
    <3> QED
      BY <2>1, <3>1, PurgeAimed
  <2>5. CASE GetCommit(r)
    <3>1. \/ UNCHANGED cache
          \/ \E sent \in {req[r].wants, TRUE} :
               /\ fills' = fills + 1 /\ poisoned' = FALSE
               /\ entry' = [preserve_same_etag_head_state_from(FilledMeta(req[r].out.v, sent), entry)
                              EXCEPT !.fill = fills']
      BY <2>5 DEF GetCommit
    <3>2. /\ req[r].wants \in BOOLEAN /\ WorldOK /\ EntryOK /\ req[r].out.v \in 1..Len(vers)
          /\ fills \in Nat
      <4>1. req[r].pc = "fetched" /\ req[r].out.code = "ok"
        BY <2>5 DEF GetCommit, At
      <4> QED
        BY <2>1, <4>1, RequestFacts DEF OutOK, Holding, RefreshInv
    <3>3. ASSUME NEW sent \in BOOLEAN, fills' = fills + 1, poisoned' = FALSE,
                 entry' = [preserve_same_etag_head_state_from(FilledMeta(req[r].out.v, sent), entry)
                             EXCEPT !.fill = fills']
          PROVE  Replaced
      <4>0. fills' \in 1..(fills + 1)
        BY <3>2, <3>3
      <4>1. MetaExact(vers, fills + 1, entry') /\ entry'.fill = fills + 1
        BY <3>2, <3>3, <4>0, PreservedSound
      <4> QED
        BY <3>3, <4>1 DEF Replaced, MetaExact
    <3> QED
      BY <1>2, <2>1, <3>1, <3>2, <3>3 DEF EntryStep
  <2>7. CASE UNCHANGED cache
    BY <1>2, <2>1, <2>7
  <2> QED
    BY <1>4, <2>2, <2>3, <2>4, <2>5, <2>7
    DEF GetStart, GetHead, GetFetch, GetPassthrough, GetProbe, GetLead, GetLostRace,
        GetRefreshed404, GetHeadFails, GetReprobe, GetBeginFill, GetFails, GetWoken
<1> QED
  BY <1>1, <1>3, <1>4 DEF Next

(* A request purges or poisons an entry only on an answer that it asked for  *)
(* after the entry was published (purge_then_poison_if_unchanged).           *)
THEOREM PurgesOnNewerEvidence == Spec => EvidenceIsNewer
<1> DEFINE A == \A r \in Requests :
                  /\ req'[r] # req[r] /\ Peek # None
                  /\ (entry' = None \/ (poisoned' /\ ~poisoned))
                  => entry.fill <= req[r].known
<1>1. ASSUME RefreshInv, [Next]_vars PROVE [A]_vars
  <2>1. SUFFICES ASSUME NEW r \in Requests, req'[r] # req[r], Peek # None,
                        entry' = None \/ (poisoned' /\ ~poisoned)
                 PROVE  entry.fill <= req[r].known
    OBVIOUS
  <2>2. EntryStep
    BY <1>1, EntrySteps
  <2>3. entry # None /\ ~poisoned
    BY <2>1 DEF Peek
  <2>4. ~Enriched
    BY <2>1, <2>3, ValueAssumption DEF Enriched
  <2>5. ~Replaced
    BY <2>1, ValueAssumption DEF Replaced
  <2> QED
    BY <2>1, <2>2, <2>3, <2>4, <2>5 DEF EntryStep, Purged
<1> QED
  BY <1>1, MetadataStaysExact, PTL DEF Spec, EvidenceIsNewer

(* What a HEAD learned of an entry stays with it, whatever refreshes it, and *)
(* no HEAD touches what a GET observed (update_metadata_if_unchanged).       *)
THEOREM RefreshesKeepEnrichment == Spec => EnrichmentKept
<1> DEFINE A == /\ entry # None /\ entry' # None /\ entry'.fill = entry.fill
                => /\ entry'.checksums = entry.checksums
                   /\ entry'.checksum_mode_checked = entry.checksum_mode_checked
                   /\ entry.head_metadata_checked => entry'.head_metadata_checked
                   /\ entry.head_checksum_checked => entry'.head_checksum_checked
<1>1. ASSUME RefreshInv, [Next]_vars PROVE [A]_vars
  <2>1. SUFFICES ASSUME entry # None, entry' # None, entry'.fill = entry.fill, ~(entry' = entry)
                 PROVE  Enriched
    BY DEF Enriched
  <2>2. EntryStep
    BY <1>1, EntrySteps
  <2>3. entry.fill \in 1..fills /\ fills \in Nat
    BY <1>1, <2>1 DEF RefreshInv, EntryOK, MetaExact, WorldOK
  <2>4. ~Replaced
    BY <2>1, <2>3 DEF Replaced
  <2> QED
    BY <2>1, <2>2, <2>4 DEF EntryStep, Purged
<1> QED
  BY <1>1, MetadataStaysExact, PTL DEF Spec, EnrichmentKept
=============================================================================
