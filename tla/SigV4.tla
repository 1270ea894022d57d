------------------------------- MODULE SigV4 -------------------------------
(***************************************************************************)
(* Strict inbound verification (auth/sigv4, auth/sigv4a): SigV4 with       *)
(* HMAC-SHA256 and SigV4A with ECDSA-P256, in the Authorization header or  *)
(* in the query of a presigned URL, as functions of a request.             *)
(*                                                                         *)
(* A request is a record:                                                  *)
(*   path     method and path                                              *)
(*   query    sequence of [k, exact, v], decoded; exact is FALSE when the  *)
(*            name is spelled in another case                              *)
(*   headers  sequence of [k, v], one for each line                        *)
(*   authz    [alg, params], or None; params a sequence of [k, v]          *)
(*   body                                                                  *)
(* A credential value is [akid, day, region, tail]; SignedHeaders is a     *)
(* sequence of names; a signature is the term [key, over], so that it      *)
(* matches exactly what was signed with that key.  A value that does not   *)
(* parse is Bad, or -1 for a number.                                       *)
(***************************************************************************)
EXTENDS Credentials, FiniteSets, SequencesExt

CONSTANTS
    Creds,        \* the loaded credentials
    DayLength, MaxSkew, MaxPresignedExpires,
    NameOrder,    \* header names in ascending order
    Bad

Values(r, h) ==
    LET s == SelectSeq(r.headers, LAMBDA x : x.k = h) IN [i \in DOMAIN s |-> s[i].v]

Carries(r, h) == Values(r, h) # <<>>

Params(r, n) == SelectSeq(r.query, LAMBDA q : q.k = n)

ParamValue(ps, n) == ps[CHOOSE i \in DOMAIN ps : ps[i].k = n].v

Names(ps) == {ps[i].k : i \in DOMAIN ps}

NoDuplicate(ps, names) ==
    \A i, j \in DOMAIN ps : ps[i].k = ps[j].k /\ ps[i].k \in names => i = j

Day(t) == t \div DayLength

Position(h) == CHOOSE i \in DOMAIN NameOrder : NameOrder[i] = h

-----------------------------------------------------------------------------
(***************************************************************************)
(* Parsing                                                                 *)
(***************************************************************************)
\* A SigV4 scope has a region, a SigV4A scope has none.
parse_credential(c) ==
    c.akid # "" /\ c.day >= 0 /\ c.region \notin {"", None} /\ c.tail = "s3/aws4_request"

parse_sigv4a_credential(c) ==
    c.akid # "" /\ c.day >= 0 /\ c.region = None /\ c.tail = "s3/aws4_request"

\* Sorted, without duplicates, with host.
parse_signed_headers(names) ==
    /\ names # <<>> /\ \A i \in DOMAIN names : names[i] \in Range(NameOrder)
    /\ \A i \in 1..(Len(names) - 1) : Position(names[i]) < Position(names[i + 1])
    /\ "host" \in Range(names)

parse_signature_hex(sig) == sig.key # Bad

parse_der_signature_hex(sig) == sig.key # Bad

AuthFields == {"Credential", "SignedHeaders", "Signature"}

parse_authorization(a) ==
    /\ a.alg = "hmac"
    /\ Names(a.params) = AuthFields /\ NoDuplicate(a.params, AuthFields)
    /\ parse_credential(ParamValue(a.params, "Credential"))
    /\ parse_signed_headers(ParamValue(a.params, "SignedHeaders"))
    /\ parse_signature_hex(ParamValue(a.params, "Signature"))

parse_sigv4a_authorization(a) ==
    /\ a.alg = "ecdsa"
    /\ Names(a.params) = AuthFields /\ NoDuplicate(a.params, AuthFields)
    /\ parse_sigv4a_credential(ParamValue(a.params, "Credential"))
    /\ parse_signed_headers(ParamValue(a.params, "SignedHeaders"))
    /\ parse_der_signature_hex(ParamValue(a.params, "Signature"))

classify_authorization_algorithm(a) == IF a.alg \in {"hmac", "ecdsa"} THEN a.alg ELSE "other"

Required == {"Algorithm", "Credential", "Date", "Expires", "SignedHeaders", "Signature"}

classify_presigned_auth_key(n) == n \in Required \cup {"Security-Token", "Content-Sha256"}

classify_sigv4a_presigned_auth_key(n) == classify_presigned_auth_key(n) \/ n = "Region-Set"

\* The fields common to both algorithms.  Content-Sha256 is a marker: it may
\* be repeated.
PresignedFields(alg, auth, q) ==
    /\ \A i \in DOMAIN q : q[i].k \in auth => q[i].exact
    /\ NoDuplicate(q, auth \ {"Content-Sha256"}) /\ Required \subseteq Names(q)
    /\ ParamValue(q, "Algorithm") = alg
    /\ "Security-Token" \in Names(q) => ParamValue(q, "Security-Token") # ""
    /\ ParamValue(q, "Date") >= 0
    /\ ParamValue(q, "Expires") \in 1..MaxPresignedExpires
    /\ parse_signed_headers(ParamValue(q, "SignedHeaders"))

parse_presigned_authorization(q) ==
    /\ PresignedFields("hmac", {n \in Names(q) : classify_presigned_auth_key(n)}, q)
    /\ parse_credential(ParamValue(q, "Credential"))
    /\ parse_signature_hex(ParamValue(q, "Signature"))

parse_sigv4a_presigned_authorization(q) ==
    /\ PresignedFields("ecdsa", {n \in Names(q) : classify_sigv4a_presigned_auth_key(n)}, q)
    /\ "Region-Set" \in Names(q) /\ ParamValue(q, "Region-Set") # ""
    /\ parse_sigv4a_credential(ParamValue(q, "Credential"))
    /\ parse_der_signature_hex(ParamValue(q, "Signature"))

\* Any spelling of the name counts.
has_presigned_signature_query(r) == Params(r, "Signature") # <<>>

classify_presigned_algorithm(r) ==
    LET a == Params(r, "Algorithm") IN IF a = <<>> THEN "none" ELSE Head(a).v

-----------------------------------------------------------------------------
(***************************************************************************)
(* Checks                                                                  *)
(***************************************************************************)
\* x-amz-date, else Date; -1 when neither parses.
resolve_request_time(r) ==
    IF Carries(r, "x-amz-date") THEN Head(Values(r, "x-amz-date"))
    ELSE IF Carries(r, "date") THEN Head(Values(r, "date")) ELSE -1

enforce_skew(t, now) == t - now <= MaxSkew /\ now - t <= MaxSkew

ensure_scope_date_matches(cred, t) == cred.day = Day(t)

\* Mutant: the last second does not count.
enforce_presigned_window_half_open(t, expires, now) == t <= now /\ now < t + expires

enforce_presigned_window(t, expires, now) == t <= now /\ now <= t + expires

Streaming == {"STREAMING-UNSIGNED-TRAILER", "STREAMING-HMAC", "STREAMING-HMAC-TRAILER",
              "STREAMING-ECDSA", "STREAMING-ECDSA-TRAILER"}

sha256(body) == <<"sha256", body>>

\* The digest of a body is the one payload that is checked against a buffer.
requires_body_bytes(p) == p[1] = "sha256"

classify_payload_header(r) ==
    LET v == Head(Values(r, "x-amz-content-sha256")) IN
    v[1] \in Streaming \cup {"UNSIGNED-PAYLOAD", "sha256"}

verify_payload_hash(p, body) == requires_body_bytes(p) => p = sha256(body)

reject_presigned_aws_chunked(r) ==
    \/ Carries(r, "x-amz-decoded-content-length") \/ Carries(r, "x-amz-trailer")
    \/ "aws-chunked" \in Range(Values(r, "content-encoding"))
    \/ Carries(r, "x-amz-content-sha256") /\ Head(Values(r, "x-amz-content-sha256"))[1] \in Streaming
    \/ \E i \in DOMAIN r.query :
          r.query[i].k = "Content-Sha256" /\ r.query[i].exact /\ r.query[i].v[1] \in Streaming

Markers(r) ==
    Range(Values(r, "x-amz-content-sha256"))
    \cup {r.query[i].v : i \in {j \in DOMAIN r.query : r.query[j].k = "Content-Sha256"}}

\* "ok", or the error.
classify_presigned_payload_marker(m) ==
    CASE m = <<"UNSIGNED-PAYLOAD">> -> "ok"
      [] m[1] \in Streaming -> "UnsupportedSignature"
      [] m[1] = "sha256" -> "InvalidRequest"
      [] OTHER -> "AuthorizationHeaderMalformed"

\* Every marker, in the headers and in the query: none asks for the body to
\* be verified, and they agree.
check_presigned_payload_marker(r) ==
    IF \E m \in Markers(r) : m[1] \in Streaming THEN "UnsupportedSignature"
    ELSE IF \E m \in Markers(r) : m[1] = "sha256" THEN "InvalidRequest"
    ELSE IF Cardinality(Markers(r)) > 1 THEN "InvalidRequest"
    ELSE IF Markers(r) = {} THEN "ok"
    ELSE classify_presigned_payload_marker(CHOOSE m \in Markers(r) : TRUE)

\* The token names the credential, so it has to be signed.
extract_header_session_token(r, names) ==
    LET ts == Values(r, "x-amz-security-token") IN
    IF ts = <<>> THEN [ok |-> TRUE, token |-> None]
    ELSE [ok |-> Len(ts) = 1 /\ "x-amz-security-token" \in Range(names) /\ ts[1] # "",
          token |-> ts[1]]

ensure_sigv4a_region_set_signed(r, names) ==
    /\ Carries(r, "x-amz-region-set") /\ Head(Values(r, "x-amz-region-set")) # ""
    /\ "x-amz-region-set" \in Range(names)

-----------------------------------------------------------------------------
(***************************************************************************)
(* The canonical request and its signature                                 *)
(***************************************************************************)
AsBag(s) == [v \in Range(s) |-> Cardinality({i \in DOMAIN s : s[i] = v})]

\* The pairs are sorted, so under each name only the bag of values counts.
canonicalize_query(r, presigned) ==
    LET kept == SelectSeq(r.query, LAMBDA q : ~(presigned /\ q.k = "Signature" /\ q.exact))
        under(n) == SelectSeq(kept, LAMBDA q : <<q.k, q.exact>> = n)
    IN [n \in {<<kept[i].k, kept[i].exact>> : i \in DOMAIN kept} |->
          AsBag([i \in DOMAIN under(n) |-> under(n)[i].v])]

\* The lines of one header are joined by commas.  The value of a header that
\* is a list is the sequence of its elements, so the lines may be cut at any
\* comma; every other value is one element.
Lists == {"x-extra"}

Joined(n, values) == IF n \in Lists THEN FlattenSeq(values) ELSE values

\* Mutant: only the first value of a header is signed.
canonicalize_first_values(r, names) == [n \in Range(names) |-> Joined(n, <<Head(Values(r, n))>>)]

\* Every value of every signed header.
canonicalize_headers(r, names) == [n \in Range(names) |-> Joined(n, Values(r, n))]

build_canonical_request(r, names, payload, presigned) ==
    [path |-> r.path, query |-> canonicalize_query(r, presigned),
     headers |-> canonicalize_headers(r, names), signed |-> names, payload |-> payload]

build_string_to_sign(date, cred, creq) ==
    [alg |-> "hmac", date |-> date, day |-> cred.day, region |-> cred.region, creq |-> creq]

build_sigv4a_string_to_sign(date, cred, creq) ==
    [alg |-> "ecdsa", date |-> date, day |-> cred.day, region |-> None, creq |-> creq]

\* The key of SigV4 belongs to a day and a region, that of SigV4A to the
\* access key id.
derive_signing_key(secret, cred) == <<"hmac", secret, cred.day, cred.region>>

derive_sigv4a_verifying_key(secret, cred) == <<"ecdsa", secret, cred.akid>>

verify_signature(sig, secret, date, cred, creq) ==
    sig = [key |-> derive_signing_key(secret, cred), over |-> build_string_to_sign(date, cred, creq)]

verify_sigv4a_der_signature(sig, secret, date, cred, creq) ==
    sig = [key |-> derive_sigv4a_verifying_key(secret, cred),
           over |-> build_sigv4a_string_to_sign(date, cred, creq)]

Denied(code) == [code |-> code, entry |-> None, payload |-> None]

resolve_credential_for_sigv4(akid, token, now) == resolve(Creds, akid, token, now)

VerifiedRequest(credential, payload) == [code |-> "ok", entry |-> credential, payload |-> payload]

\* Resolve the credential, rebuild what was signed, compare.
CheckSignature(r, alg, presigned, cred, names, date, payload, token, sig, now) ==
    LET found == resolve_credential_for_sigv4(cred.akid, token, now)
        creq == build_canonical_request(r, names, payload, presigned)
    IN IF found.code # "found" THEN Denied(found.code)
       ELSE IF \E n \in Range(names) : ~Carries(r, n) THEN Denied("AuthorizationHeaderMalformed")
       ELSE IF ~(IF alg = "hmac" THEN verify_signature(sig, found.entry.secret, date, cred, creq)
                 ELSE verify_sigv4a_der_signature(sig, found.entry.secret, date, cred, creq))
       THEN Denied("SignatureDoesNotMatch")
       ELSE VerifiedRequest(found.entry, payload)

\* A signature in the Authorization header, once that has been parsed.
VerifyHeader(r, alg, complete, now) ==
    LET cred == ParamValue(r.authz.params, "Credential")
        names == ParamValue(r.authz.params, "SignedHeaders")
        t == resolve_request_time(r)
        tok == extract_header_session_token(r, names)
    IN IF t < 0 THEN Denied("AuthorizationHeaderMalformed")
       ELSE IF ~enforce_skew(t, now) THEN Denied("RequestTimeTooSkewed")
       ELSE IF \/ ~ensure_scope_date_matches(cred, t)
               \/ ~complete
               \/ ~Carries(r, "x-amz-content-sha256")
               \/ ~classify_payload_header(r)
               \/ ~tok.ok
       THEN Denied("AuthorizationHeaderMalformed")
       ELSE CheckSignature(r, alg, FALSE, cred, names, t, Head(Values(r, "x-amz-content-sha256")),
                           tok.token, ParamValue(r.authz.params, "Signature"), now)

verify_authorization_header_at(r, now) ==
    IF ~parse_authorization(r.authz) THEN Denied("AuthorizationHeaderMalformed")
    ELSE VerifyHeader(r, "hmac", TRUE, now)

verify_sigv4a_authorization_header_at(r, now) ==
    IF ~parse_sigv4a_authorization(r.authz) THEN Denied("AuthorizationHeaderMalformed")
    ELSE VerifyHeader(r, "ecdsa",
                      ensure_sigv4a_region_set_signed(r, ParamValue(r.authz.params, "SignedHeaders")), now)

\* A signature in the query, once that has been parsed.
VerifyQuery(r, alg, now) ==
    LET cred == ParamValue(r.query, "Credential")
        t == ParamValue(r.query, "Date")
    IN IF ~ensure_scope_date_matches(cred, t) THEN Denied("AuthorizationHeaderMalformed")
       ELSE IF ~enforce_presigned_window(t, ParamValue(r.query, "Expires"), now)
       THEN Denied("RequestTimeTooSkewed")
       ELSE IF check_presigned_payload_marker(r) # "ok" THEN Denied(check_presigned_payload_marker(r))
       ELSE CheckSignature(r, alg, TRUE, cred, ParamValue(r.query, "SignedHeaders"), t,
                           <<"UNSIGNED-PAYLOAD">>,
                           IF "Security-Token" \in Names(r.query)
                           THEN ParamValue(r.query, "Security-Token") ELSE None,
                           ParamValue(r.query, "Signature"), now)

verify_presigned_request(r, now) ==
    IF reject_presigned_aws_chunked(r) THEN Denied("UnsupportedSignature")
    ELSE IF ~parse_presigned_authorization(r.query) THEN Denied("AuthorizationHeaderMalformed")
    ELSE VerifyQuery(r, "hmac", now)

verify_sigv4a_presigned_request(r, now) ==
    IF reject_presigned_aws_chunked(r) THEN Denied("UnsupportedSignature")
    ELSE IF ~parse_sigv4a_presigned_authorization(r.query) THEN Denied("AuthorizationHeaderMalformed")
    ELSE VerifyQuery(r, "ecdsa", now)

\* One mechanism, and only one.  What is not SigV4A goes to SigV4, which
\* refuses the algorithms it does not know.
verify_at(r, now) ==
    LET inHeader == r.authz # None
        inQuery == has_presigned_signature_query(r)
    IN IF inHeader /\ inQuery THEN Denied("InvalidRequest")
       ELSE IF inQuery
       THEN IF classify_presigned_algorithm(r) = "ecdsa" THEN verify_sigv4a_presigned_request(r, now)
            ELSE verify_presigned_request(r, now)
       ELSE IF inHeader
       THEN IF classify_authorization_algorithm(r.authz) = "ecdsa"
            THEN verify_sigv4a_authorization_header_at(r, now)
            ELSE verify_authorization_header_at(r, now)
       ELSE Denied("MissingAuthenticationToken")
=============================================================================
