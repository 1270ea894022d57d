---------------------------- MODULE InboundAuth ----------------------------
(***************************************************************************)
(* A client signs a request, the request is changed or delayed on its way, *)
(* and the proxy verifies it (auth/sigv4/mod.rs, auth/sigv4a/mod.rs).      *)
(*                                                                         *)
(* The client signs as the S3 protocol prescribes, by definitions of its   *)
(* own: it is the reference the verifier is compared with.                 *)
(***************************************************************************)
EXTENDS SigV4

CONSTANTS
    Paths, Bodies, Tokens,
    Expiries,     \* X-Amz-Expires the client uses
    Ahead,        \* by how much its clock may be ahead of the proxy's
    Leaves,       \* a header it may leave unsigned, or None
    StartTimes,
    Allowed,      \* allowed_frontend_keys
    MaxTime       \* bound: the clock stops here

VARIABLES
    now,
    form,      \* how the client signed, or None
    sent,      \* the request it signed
    wire,      \* the request as it arrives
    touched,   \* "no", "harmless" or "changed" on the way
    verdict

vars == <<now, form, sent, wire, touched, verdict>>

Unsigned == <<"UNSIGNED-PAYLOAD">>

H(k, v) == [k |-> k, v |-> v]

Q(k, v) == [k |-> k, exact |-> TRUE, v |-> v]

-----------------------------------------------------------------------------
(***************************************************************************)
(* The client                                                              *)
(***************************************************************************)
\* The headers it sends, and those of them it must sign.
ClientHeaders(f) ==
    <<H("host", "h")>>
    \o (IF f.presigned THEN <<>>
        ELSE <<H(f.dated, f.t), H("x-amz-content-sha256", f.payload)>>
             \o (IF f.entry.token # None THEN <<H("x-amz-security-token", f.entry.token)>> ELSE <<>>)
             \o (IF f.alg = "ecdsa" THEN <<H("x-amz-region-set", "*")>> ELSE <<>>))
    \o <<H("x-extra", <<"e", "f">>)>>

\* "They must include `x-amz-date` when the request carries one": prescribed,
\* and not enforced (CarriedDateSigned).
MustSign(f) ==
    {"host"} \cup (IF f.presigned THEN {}
                   ELSE ({f.dated} \cap {"x-amz-date"})
                        \cup (IF f.entry.token # None THEN {"x-amz-security-token"} ELSE {})
                        \cup (IF f.alg = "ecdsa" THEN {"x-amz-region-set"} ELSE {}))

SignedNames(f) ==
    SelectSeq(NameOrder, LAMBDA n : n # f.leaves /\ \E i \in DOMAIN ClientHeaders(f) : ClientHeaders(f)[i].k = n)

Scope(f) ==
    [akid |-> f.entry.akid, day |-> f.t \div DayLength,
     region |-> IF f.alg = "hmac" THEN "r1" ELSE None, tail |-> "s3/aws4_request"]

ClientQuery(f) ==
    <<Q("prefix", "p")>>
    \o (IF ~f.presigned THEN <<>>
        ELSE <<Q("Algorithm", f.alg), Q("Credential", Scope(f)), Q("Date", f.t), Q("Expires", f.expires),
               Q("SignedHeaders", SignedNames(f))>>
             \o [i \in DOMAIN f.marks |-> Q("Content-Sha256", f.marks[i])]
             \o (IF f.entry.token # None THEN <<Q("Security-Token", f.entry.token)>> ELSE <<>>)
             \o (IF f.alg = "ecdsa" THEN <<Q("Region-Set", "*")>> ELSE <<>>))

ClientSignature(f, r) ==
    [key |-> IF f.alg = "hmac" THEN <<"hmac", f.entry.secret, Scope(f).day, Scope(f).region>>
             ELSE <<"ecdsa", f.entry.secret, f.entry.akid>>,
     over |-> [alg |-> f.alg, date |-> f.t, day |-> Scope(f).day, region |-> Scope(f).region,
               creq |-> [path |-> r.path,
                         query |-> [n \in {<<k, TRUE>> : k \in Names(r.query)} |->
                                      AsBag([i \in DOMAIN Params(r, n[1]) |-> Params(r, n[1])[i].v])],
                         headers |-> [n \in Range(SignedNames(f)) |-> Joined(n, <<ParamValue(r.headers, n)>>)],
                         signed |-> SignedNames(f),
                         payload |-> IF f.presigned THEN Unsigned ELSE f.payload]]]

\* One path and one body stand for all.
Path == CHOOSE p \in Paths : TRUE
Body == CHOOSE b \in Bodies : TRUE

SignedRequest(f) ==
    LET r == [path |-> Path, query |-> ClientQuery(f), headers |-> ClientHeaders(f),
              authz |-> None, body |-> Body]
        sig == ClientSignature(f, r)
    IN IF f.presigned THEN [r EXCEPT !.query = Append(@, Q("Signature", sig))]
       ELSE [r EXCEPT !.authz = [alg |-> f.alg,
                                 params |-> <<H("Credential", Scope(f)), H("SignedHeaders", SignedNames(f)),
                                              H("Signature", sig)>>]]

Payloads(body) == {sha256(body), Unsigned, <<"STREAMING-HMAC">>}

Init ==
    /\ now \in StartTimes
    /\ form = None /\ sent = None /\ wire = None /\ touched = "no" /\ verdict = None

Sign(f) ==
    /\ form = None /\ form' = f
    /\ sent' = SignedRequest(f) /\ wire' = sent'
    /\ UNCHANGED <<now, touched, verdict>>

SignHeader ==
    \E i \in DOMAIN Creds, alg \in {"hmac", "ecdsa"}, dated \in {"x-amz-date", "date"},
       leaves \in Leaves, ahead \in Ahead :
       \E payload \in Payloads(Body) :
          Sign([presigned |-> FALSE, entry |-> Creds[i], alg |-> alg, dated |-> dated, leaves |-> leaves,
                t |-> now + ahead, payload |-> payload, expires |-> 0, marks |-> <<>>])

SignPresigned ==
    \E i \in DOMAIN Creds, alg \in {"hmac", "ecdsa"}, leaves \in Leaves, ahead \in Ahead,
       expires \in Expiries, marks \in {<<>>, <<Unsigned>>, <<Unsigned, sha256(Body)>>} :
          Sign([presigned |-> TRUE, entry |-> Creds[i], alg |-> alg, dated |-> "Date", leaves |-> leaves,
                t |-> now + ahead, payload |-> Unsigned, expires |-> expires, marks |-> marks])

-----------------------------------------------------------------------------
(***************************************************************************)
(* The way                                                                 *)
(***************************************************************************)
\* The values a parameter or header may turn into.
Others(k, v) ==
    CASE k \in {"Date", "date", "x-amz-date"} -> {-1, v + 1, v - 1}
      [] k = "Credential" -> {[v EXCEPT !.akid = Creds[i].akid] : i \in DOMAIN Creds}
                             \cup {[v EXCEPT !.akid = ""], [v EXCEPT !.day = @ + 1],
                                   [v EXCEPT !.region = "r2"], [v EXCEPT !.tail = "other"]}
      [] k = "Expires" -> {0, v + 1, MaxPresignedExpires + 1}
      [] k = "SignedHeaders" -> {Tail(v), Reverse(v), v \o v} \cup {Append(v, n) : n \in Range(NameOrder)}
      [] k = "Signature" -> {[v EXCEPT !.key = Bad], [v EXCEPT !.over.date = @ + 1]}
      [] k \in {"Security-Token", "x-amz-security-token"} -> Tokens \cup {""}
      [] k \in {"Content-Sha256", "x-amz-content-sha256"} -> UNION {Payloads(b) : b \in Bodies} \cup {<<"junk">>}
      [] k = "Algorithm" -> {"hmac", "ecdsa", "junk"}
      [] k \in Lists -> {<<"">>, <<"e">>, <<"e", "f", "g">>}
      [] OTHER -> {"", "other"}

Way(how, r) ==
    /\ form # None /\ touched = "no" /\ verdict = None
    /\ touched' = how /\ wire' = r
    /\ UNCHANGED <<now, form, sent, verdict>>

ChangeTarget ==
    \/ \E p \in Paths \ {sent.path} : Way("changed", [wire EXCEPT !.path = p])
    \/ \E b \in Bodies \ {sent.body} : Way("changed", [wire EXCEPT !.body = b])

Swap(s, i) == [s EXCEPT ![i] = s[1], ![1] = s[i]]

ChangeQuery ==
    \/ \E i \in DOMAIN wire.query :
          \/ Way("changed", [wire EXCEPT !.query = RemoveAt(@, i)])
          \/ Way("changed", [wire EXCEPT !.query = InsertAt(@, i, @[i])])
          \/ Way("changed", [wire EXCEPT !.query[i].exact = FALSE])
          \/ \E v \in Others(wire.query[i].k, wire.query[i].v) : Way("changed", [wire EXCEPT !.query[i].v = v])
    \/ \E b \in Bodies : \E m \in Payloads(b) :
          \/ Way("changed", [wire EXCEPT !.query = Append(@, Q("Content-Sha256", m))])
          \/ Way("changed", [wire EXCEPT !.query = Append(<<Q("Content-Sha256", Unsigned)>> \o @, Q("Content-Sha256", m))])

ChangeHeaders ==
    \/ \E i \in DOMAIN wire.headers :
          \/ Way("changed", [wire EXCEPT !.headers = RemoveAt(@, i)])
          \/ Way("changed", [wire EXCEPT !.headers = InsertAt(@, i, @[i])])
          \/ \E v \in Others(wire.headers[i].k, wire.headers[i].v) : Way("changed", [wire EXCEPT !.headers[i].v = v])
          \/ \E v \in Others(wire.headers[i].k, wire.headers[i].v) :
                Way("changed", [wire EXCEPT !.headers = Append(@, H(wire.headers[i].k, v))])
    \/ \E t \in Tokens : Way("changed", [wire EXCEPT !.headers = Append(@, H("x-amz-security-token", t))])
    \/ \E b \in Bodies : \E m \in Payloads(b) :
          Way("changed", [wire EXCEPT !.headers = Append(@, H("x-amz-content-sha256", m))])
    \/ \E e \in {"identity", "aws-chunked"} :
          Way("changed", [wire EXCEPT !.headers = @ \o <<H("content-encoding", "identity"), H("content-encoding", e)>>])
    \/ \E k \in {"x-amz-trailer", "x-amz-decoded-content-length"} :
          Way("changed", [wire EXCEPT !.headers = Append(@, H(k, "1"))])

ChangeAuthorization ==
    \/ /\ wire.authz # None
       /\ \/ Way("changed", [wire EXCEPT !.authz = None])
          \/ \E a \in {"hmac", "ecdsa", "junk"} : Way("changed", [wire EXCEPT !.authz.alg = a])
          \/ \E i \in DOMAIN wire.authz.params :
                \/ Way("changed", [wire EXCEPT !.authz.params = RemoveAt(@, i)])
                \/ Way("changed", [wire EXCEPT !.authz.params = InsertAt(@, i, @[i])])
                \/ \E v \in Others(wire.authz.params[i].k, wire.authz.params[i].v) :
                      Way("changed", [wire EXCEPT !.authz.params[i].v = v])
          \/ Way("changed", [wire EXCEPT !.authz.params = Append(@, H("Other", "x"))])
          \/ Way("changed", [wire EXCEPT !.query = Append(@, Q("Signature", ParamValue(wire.authz.params, "Signature")))])
    \/ /\ wire.authz = None
       /\ Way("changed", [wire EXCEPT !.authz = [alg |-> "hmac", params |-> <<>>]])

\* What a conforming intermediary may do: order is not significant, a list
\* may be cut into several lines, and headers nobody signed may be added.
Forward ==
    \/ \E i \in DOMAIN wire.query : i > 1 /\ Way("harmless", [wire EXCEPT !.query = Swap(@, i)])
    \/ \E i \in DOMAIN wire.headers : i > 1 /\ Way("harmless", [wire EXCEPT !.headers = Swap(@, i)])
    \/ wire.authz # None /\ \E i \in 2..3 : Way("harmless", [wire EXCEPT !.authz.params = Swap(@, i)])
    \/ Way("harmless", [wire EXCEPT !.headers = Append(@, H("via", "proxy"))])
    \/ \E i \in DOMAIN wire.headers :
          /\ wire.headers[i].k \in Lists
          /\ Way("harmless", [wire EXCEPT !.headers =
                  ReplaceAt(InsertAt(@, i + 1, H(@[i].k, Tail(@[i].v))), i, H(@[i].k, <<Head(@[i].v)>>))])

\* The changes do not depend on the time, so they may all come last.
Delay ==
    /\ form # None /\ touched = "no" /\ verdict = None /\ now < MaxTime /\ now' = now + 1
    /\ UNCHANGED <<form, sent, wire, touched, verdict>>

-----------------------------------------------------------------------------
(***************************************************************************)
(* The proxy                                                               *)
(***************************************************************************)
\* The signature, and then the body against the digest that was signed.
Verify ==
    LET v == verify_at(wire, now) IN
    /\ form # None /\ verdict = None
    /\ verdict' = IF v.code = "ok" /\ ~verify_payload_hash(v.payload, wire.body)
                  THEN Denied("SignatureDoesNotMatch") ELSE v
    /\ UNCHANGED <<now, form, sent, wire, touched>>

Next ==
    \/ SignHeader \/ SignPresigned
    \/ form # None /\ verdict = None /\ touched = "no"
       /\ (ChangeTarget \/ ChangeQuery \/ ChangeHeaders \/ ChangeAuthorization \/ Forward)
    \/ Delay \/ Verify

Spec == Init /\ [][Next]_vars

-----------------------------------------------------------------------------
(***************************************************************************)
(* Properties                                                              *)
(***************************************************************************)
Accepted == verdict # None /\ verdict.code = "ok"

Count(s, q) == Cardinality({i \in DOMAIN s : s[i].k = q.k /\ s[i].exact = q.exact /\ s[i].v = q.v})

Plain(r) == SelectSeq(r.query, LAMBDA q : ~(form.presigned /\ q.k = "Signature"))

SameQuery ==
    LET a == Plain(sent)
        b == Plain(wire)
    IN Len(a) = Len(b) /\ \A i \in DOMAIN a : Count(a, a[i]) = Count(b, a[i])

\* An accepted request is what the holder of the credential signed: same
\* target, same query, same signed headers with all their values, same
\* payload declaration, same body where its digest is signed; and a client
\* that signs its token is resolved to that very credential.
Authentic ==
    Accepted =>
        /\ verdict.entry.secret = form.entry.secret
        /\ form.leaves # "x-amz-security-token" => verdict.entry = form.entry
        /\ wire.path = sent.path /\ SameQuery
        /\ \A n \in Range(SignedNames(form)) : Joined(n, Values(wire, n)) = Joined(n, Values(sent, n))
        /\ verdict.payload = form.payload
        /\ requires_body_bytes(form.payload) => wire.body = sent.body

\* The request is accepted only near the moment it was signed, or within the
\* life of its URL, and only while the credential lives.
InTime ==
    Accepted =>
        /\ IF form.presigned THEN now \in form.t..(form.t + form.expires)
           ELSE now \in (form.t - MaxSkew)..(form.t + MaxSkew)
        /\ verdict.entry.expires # None => now < verdict.entry.expires

Timely ==
    /\ IF form.presigned THEN form.t <= now /\ now <= form.t + form.expires
       ELSE form.t - MaxSkew <= now /\ now <= form.t + MaxSkew
    /\ form.entry.expires # None => now < form.entry.expires

\* A request signed as prescribed and delivered in time is accepted, whatever
\* the order of its parameters and headers, however its lists were cut into
\* lines, and whatever headers a proxy on the way added.  It is prescribed to
\* sign host, a carried x-amz-date, the token and the region set.  SigV4A is
\* verified, as README.md:209-210 says; the comment at config.rs:71-73, which
\* still calls it refused, is older than the verifier.
ConformingAccepted ==
    /\ verdict # None /\ touched # "changed" /\ Timely /\ MustSign(form) \subseteq Range(SignedNames(form))
    /\ Range(form.marks) \subseteq {Unsigned}
    => Accepted

\* The body of a presigned request is not verified, so no such request is
\* accepted with a marker that asks for it, in whichever place it stands.
UnverifiedBodyUnclaimed ==
    Accepted /\ form.presigned => /\ Markers(wire) \subseteq {Unsigned}
                                   /\ "aws-chunked" \notin Range(Values(wire, "content-encoding"))

\* The allowlist reads the access key id as the verifier does: what it admits
\* and the verifier accepts is on the list.
GatesAgree ==
    /\ Accepted /\ wire.authz # None
    /\ create_request_gate("access_key_allowlist", Allowed, wire.authz)
    => verdict.entry.akid \in Allowed

\* What auth/sigv4/parser.rs:24-25 says of the signed headers: they include
\* x-amz-date when the request carries it.  No code refuses such a request,
\* so this is false; the date is signed in any case, as part of what the
\* signature is over (Authentic and InTime hold without it).
CarriedDateSigned ==
    Accepted /\ ~form.presigned /\ Carries(wire, "x-amz-date")
    => "x-amz-date" \in Range(ParamValue(wire.authz.params, "SignedHeaders"))
=============================================================================
