------------------------------ MODULE Dispatch ------------------------------
(***************************************************************************)
(* handle_s3_request (handlers/mod.rs): the checks a request passes, the   *)
(* handler it is given to, what reaches the backend on its behalf and what *)
(* of the backend's answer reaches the client.  Several handlers run at    *)
(* the same time; they share only the metrics.                             *)
(***************************************************************************)
EXTENDS Requests

CONSTANTS
    Slots,      \* handler tasks
    Inputs,     \* requests that may arrive
    Nil

ASSUME InputAssumption == Inputs \subseteq S3Requests /\ IsFiniteSet(Slots) /\ Nil \notin ShaValues

Frontend == "frontend"
Backend == "backend"

VARIABLES
    strict,     \* an inbound SigV4 verifier is configured
    task,       \* the handler task in each slot
    in_flight,  \* the gauge s3proxy_in_flight_requests
    total       \* the counter s3proxy_requests_total

vars == <<strict, task, in_flight, total>>

Idle == [pc |-> "idle", req |-> Nil, op |-> Nil, payload |-> Nil,
         route |-> Nil, policy |-> Nil, sent |-> Nil, answer |-> Nil,
         response |-> Nil]

Init ==
    /\ strict \in BOOLEAN
    /\ task = [s \in Slots |-> Idle]
    /\ in_flight = 0
    /\ total = 0

Goto(s, pc) == task' = [task EXCEPT ![s].pc = pc]

Reject(s, code) ==
    task' = [task EXCEPT ![s].pc = "respond", ![s].response = [status |-> code, headers |-> {}]]

-----------------------------------------------------------------------------
(***************************************************************************)
(* The checks, in the order of the code                                    *)
(***************************************************************************)
Receive(s, r) ==
    /\ task[s].pc = "idle"
    /\ task' = [task EXCEPT ![s] = [Idle EXCEPT !.pc = "method", !.req = r,
                                                !.op = parse_request(r)]]
    /\ in_flight' = in_flight + 1
    /\ UNCHANGED <<strict, total>>

CheckMethod(s) ==
    /\ task[s].pc = "method"
    /\ IF task[s].req.method \in {"GET", "HEAD", "PUT", "POST", "DELETE"}
       THEN Goto(s, "length")
       ELSE Reject(s, "NotImplemented")
    /\ UNCHANGED <<strict, in_flight, total>>

CheckLength(s) ==
    /\ task[s].pc = "length"
    /\ IF "negative-length" \in task[s].req.headers
       THEN Reject(s, "InvalidRequest")
       ELSE Goto(s, "auth")
    /\ UNCHANGED <<strict, in_flight, total>>

\* The first value of x-amz-content-sha256 as the strict verifier reads it.
PayloadOf(r) ==
    CASE r.auth = "presigned" -> "UNSIGNED-PAYLOAD"
      [] r.auth # "presigned" /\ r.sha # <<>> -> r.sha[1]
      [] OTHER -> Nil

\* The strict verifier replaces the access gate.  It needs a payload hash it
\* knows; a presigned URL may not announce a streamed or hashed body.
Authenticate(s) ==
    LET r == task[s].req
        payload == PayloadOf(r)
        accepted == /\ payload \in Sentinels \cup {"UNSIGNED-PAYLOAD", "hex"}
                    /\ r.auth = "presigned" =>
                         /\ \A i \in DOMAIN r.sha : r.sha[i] = "UNSIGNED-PAYLOAD"
                         /\ "aws-chunked" \notin r.headers
    IN /\ task[s].pc = "auth"
       /\ IF r.auth = "bad" \/ (strict /\ ~accepted)
          THEN Reject(s, "AccessDenied")
          ELSE task' = [task EXCEPT ![s].pc = "bucket",
                                    ![s].payload = IF strict THEN payload ELSE Nil]
       /\ UNCHANGED <<strict, in_flight, total>>

CheckBucket(s) ==
    /\ task[s].pc = "bucket"
    /\ IF task[s].req.bucket = Frontend
       THEN Goto(s, "hash")
       ELSE Reject(s, "NoSuchBucket")
    /\ UNCHANGED <<strict, in_flight, total>>

\* Only a signed digest is compared, with the whole body in memory.
VerifyBodyHash(s) ==
    LET r == task[s].req IN
    /\ task[s].pc = "hash"
    /\ CASE task[s].payload # "hex" -> Goto(s, "route")
         [] task[s].payload = "hex" /\ r.body = "too_large" -> Reject(s, "EntityTooLarge")
         [] task[s].payload = "hex" /\ r.body = "tampered" -> Reject(s, "SignatureDoesNotMatch")
         [] OTHER -> Goto(s, "route")
    /\ UNCHANGED <<strict, in_flight, total>>

-----------------------------------------------------------------------------
(***************************************************************************)
(* Routing                                                                 *)
(***************************************************************************)
IsSignedStream(payload) == payload \in {HMAC, HMAC_T, ECDSA, ECDSA_T}

\* Mutant: a signed stream may take any route.
AllowAnyRoute(s, route) == TRUE

enforce_signed_streaming_decode_route(s, route) ==
    IsSignedStream(task[s].payload) => route = "DecodeAwsChunked"

Route(s) ==
    LET op == task[s].op
        route == RouteOf(op, task[s].req)
    IN /\ task[s].pc = "route"
       /\ IF \/ op \notin {"PutObject", "UploadPart"}
             \/ enforce_signed_streaming_decode_route(s, route)
          THEN task' = [task EXCEPT ![s].route = route,
                          ![s].pc = CASE route = "Passthrough" -> "passthrough"
                                      [] route = "DecodeAwsChunked" -> "decode"
                                      [] OTHER -> "handler"]
          ELSE Reject(s, "UnsupportedSignature")
       /\ UNCHANGED <<strict, in_flight, total>>

\* What goes out: the headers, the query, and the bucket of the request URL.
Outbound(headers, query, bucket) == [headers |-> headers, query |-> query, bucket |-> bucket]

Send(s, outbound) == task' = [task EXCEPT ![s].pc = "backend", ![s].sent = outbound]

HOP_BY_HOP_HEADERS == {"hop"}

\* The headers the signer and the HTTP client set themselves.
SKIP_REQUEST_HEADERS == {"content-sha256", "negative-length"}

ClientHeaders(r) == r.headers \cup (IF r.sha = <<>> THEN {} ELSE {"content-sha256"})

\* Headers the Connection header names are meant for the proxy alone.
collect_connection_nominated(r) == r.nominated

BaseHeaders(r) ==
    ClientHeaders(r) \ (SKIP_REQUEST_HEADERS \cup HOP_BY_HOP_HEADERS
                                             \cup collect_connection_nominated(r))

rewrite_bucket_in_path(bucket) == IF bucket = Frontend THEN Backend ELSE bucket

\* Raw passthrough forwards every header that is not hop-by-hop, as the
\* client spelled it, and the query string as it came.  The signing headers,
\* x-amz-content-sha256 among them, are replaced by the proxy's own.
route_to_passthrough(s) ==
    LET r == task[s].req IN
    /\ task[s].pc = "passthrough"
    /\ IF r.body = "too_large"
       THEN Reject(s, "EntityTooLarge")
       ELSE Send(s, Outbound(BaseHeaders(r), r.query, rewrite_bucket_in_path(r.bucket)))
    /\ UNCHANGED <<strict, in_flight, total>>

-----------------------------------------------------------------------------
(***************************************************************************)
(* The backend calls: what the input of each typed call holds of the       *)
(* request, and which headers and parameters the SDK request carries.      *)
(***************************************************************************)
\* x-amz-checksum-mode survives only as an enabled flag.
ReadOptions(r) == r.headers \cap {"checksum-mode"}

PutObjectInput(r) ==
    user_metadata(r) \cup content_headers(r) \cup content_md5(r) \cup extra_amz_headers(r)

CreateMultipartUploadInput(r) == user_metadata(r) \cup content_headers(r)

UploadPartInput(r) == content_md5(r)

PartQuery(r) == r.query \cap {"uploadId", "partNumber"}

get_object(options) == Outbound(options, {}, Backend)

head_object(options) == Outbound(options, {}, Backend)

put_object(input) == Outbound(input, {}, Backend)

delete_object == Outbound({}, {}, Backend)

list_objects(params) == Outbound({}, params, Backend)

create_multipart_upload(input) == Outbound(input, {"uploads"}, Backend)

upload_part(input, query) == Outbound(input, query, Backend)

\* The parts go out as number and ETag, nothing else.
complete_multipart_upload == Outbound({}, {"uploadId"}, Backend)

abort_multipart_upload == Outbound({}, {"uploadId"}, Backend)

\* A trailer that validated is sent on as a checksum header.
TrailerChecksum(r) == IF r.trailer = "known" THEN {"trailer-checksum"} ELSE {}

put_object_from_path(input, r) == Outbound(input \cup TrailerChecksum(r), {}, Backend)

upload_part_from_path(input, r) ==
    Outbound(input \cup TrailerChecksum(r), PartQuery(r), Backend)

(***************************************************************************)
(* The typed handlers: what each refuses, and what its backend call sends. *)
(***************************************************************************)
InHandler(s, op) == task[s].pc = "handler" /\ task[s].op = op

\* The read path of GetObject and HeadObject when the cache has no answer.
handle_read(s) ==
    /\ \/ InHandler(s, "GetObject") /\ Send(s, get_object(ReadOptions(task[s].req)))
       \/ InHandler(s, "HeadObject") /\ Send(s, head_object(ReadOptions(task[s].req)))
    /\ UNCHANGED <<strict, in_flight, total>>

handle_put(s) ==
    LET r == task[s].req IN
    /\ InHandler(s, "PutObject")
    /\ IF r.body = "too_large"
       THEN Reject(s, "EntityTooLarge")
       ELSE Send(s, put_object(PutObjectInput(r)))
    /\ UNCHANGED <<strict, in_flight, total>>

handle_delete(s) ==
    /\ InHandler(s, "DeleteObject")
    /\ Send(s, delete_object)
    /\ UNCHANGED <<strict, in_flight, total>>

handle_list(s) ==
    /\ InHandler(s, "ListObjectsV1") \/ InHandler(s, "ListObjectsV2")
    /\ Send(s, list_objects(ListParams(task[s].req)))
    /\ UNCHANGED <<strict, in_flight, total>>

handle_create_multipart(s) ==
    /\ InHandler(s, "CreateMultipartUpload")
    /\ Send(s, create_multipart_upload(CreateMultipartUploadInput(task[s].req)))
    /\ UNCHANGED <<strict, in_flight, total>>

handle_upload_part(s) ==
    LET r == task[s].req IN
    /\ InHandler(s, "UploadPart")
    /\ CASE part_number(r) = 0 -> Reject(s, "InvalidArgument")
         [] part_number(r) # 0 /\ r.body = "too_large" -> Reject(s, "EntityTooLarge")
         [] OTHER -> Send(s, upload_part(UploadPartInput(r), PartQuery(r)))
    /\ UNCHANGED <<strict, in_flight, total>>

\* The body is read first: one with per-part checksum elements is handed to
\* passthrough, where they survive.
handle_complete_multipart(s) ==
    LET body == task[s].req.body IN
    /\ InHandler(s, "CompleteMultipartUpload")
    /\ CASE body = "too_large" -> Reject(s, "EntityTooLarge")
         [] body = "part_checksums" -> task' = [task EXCEPT ![s].pc = "passthrough",
                                                            ![s].route = "Passthrough"]
         [] body = "malformed" -> Reject(s, "MalformedXML")
         [] OTHER -> Send(s, complete_multipart_upload)
    /\ UNCHANGED <<strict, in_flight, total>>

handle_abort_multipart(s) ==
    /\ InHandler(s, "AbortMultipartUpload")
    /\ Send(s, abort_multipart_upload)
    /\ UNCHANGED <<strict, in_flight, total>>

(***************************************************************************)
(* The decoding handlers                                                   *)
(***************************************************************************)
\* Decoding wants exactly one x-amz-content-sha256 value and, for a trailer
\* mode, an x-amz-trailer it knows.
decoder_mode_from_headers(r) ==
    IF Len(r.sha) # 1 THEN Nil
    ELSE CASE r.sha[1] \in {HMAC, ECDSA} -> r.sha[1]
           [] r.sha[1] \in {HMAC_T, ECDSA_T, PLAIN_T} /\ r.trailer = "known" -> r.sha[1]
           [] OTHER -> Nil

signature_policy_for_decode(s, mode) ==
    LET auth == task[s].req.auth IN
    CASE ~strict \/ mode = PLAIN_T -> "ShapeOnly"
      [] strict /\ mode \in {HMAC, HMAC_T} /\ auth # "sigv4a" -> "VerifyHmac"
      [] strict /\ mode \in {ECDSA, ECDSA_T} /\ auth = "sigv4a" -> "VerifyEcdsa"
      [] OTHER -> Nil

is_streaming_only_amz_header == {"decoded-length", "sdk-checksum"}

extra_amz_headers_for_decoded(r) == extra_amz_headers(r) \ is_streaming_only_amz_header

PutObjectSpoolInput(r) ==
    user_metadata(r) \cup content_headers(r) \cup content_md5(r)
        \cup extra_amz_headers_for_decoded(r)

UploadPartSpoolInput(r) == content_md5(r) \cup extra_amz_headers_for_decoded(r)

\* Whether the endpoint is HTTPS is a matter of configuration, left open here.
require_https_for_unsigned_payload(s) == Reject(s, "InternalError")

\* The decoded length, the mode and the signature policy are settled before
\* the body is read; a body whose chunks do not verify goes nowhere, and a
\* decoded body is not sent to an endpoint that is not HTTPS.
Decode(s, outbound) ==
    LET r == task[s].req
        mode == decoder_mode_from_headers(r)
        policy == signature_policy_for_decode(s, mode)
    IN IF "decoded-length" \notin r.headers THEN Reject(s, "InvalidArgument")
       ELSE IF r.body = "too_large" THEN Reject(s, "EntityTooLarge")
       ELSE IF mode = Nil THEN Reject(s, "InvalidRequest")
       ELSE IF policy = Nil THEN Reject(s, "InternalError")
       ELSE IF r.body = "tampered" /\ policy # "ShapeOnly"
            THEN Reject(s, "SignatureDoesNotMatch")
       ELSE \/ require_https_for_unsigned_payload(s)
            \/ task' = [task EXCEPT ![s].pc = "backend", ![s].policy = policy,
                                    ![s].sent = outbound]

handle_put_decode_aws_chunked(s) ==
    LET r == task[s].req IN
    /\ task[s].pc = "decode" /\ task[s].op = "PutObject"
    /\ Decode(s, put_object_from_path(PutObjectSpoolInput(r), r))
    /\ UNCHANGED <<strict, in_flight, total>>

handle_upload_part_decode_aws_chunked(s) ==
    LET r == task[s].req IN
    /\ task[s].pc = "decode" /\ task[s].op = "UploadPart"
    /\ IF part_number(r) = 0
       THEN Reject(s, "InvalidArgument")
       ELSE Decode(s, upload_part_from_path(UploadPartSpoolInput(r), r))
    /\ UNCHANGED <<strict, in_flight, total>>

-----------------------------------------------------------------------------
(***************************************************************************)
(* Answers                                                                 *)
(***************************************************************************)
\* What a backend may put into a successful answer, given what it was sent.
ResponseHeaders(op, sent) ==
    {"etag", "sse", "version", "expiration", "delete-marker", "abort"}
        \cup (sent.headers \cap {"sse-c"})
        \cup (IF "payer" \in sent.headers THEN {"charged"} ELSE {})
        \cup (IF sent.headers \cap {"checksum", "sdk-checksum", "checksum-mode",
                                    "trailer-checksum"} # {}
              THEN {"checksum"} ELSE {})

\* What S3 answers to each operation.
S3Response(op) ==
    CASE op \in {"GetObject", "HeadObject"} ->
           {"etag", "sse", "sse-c", "version", "expiration", "charged", "checksum",
            "delete-marker"}
      [] op \in {"PutObject", "CompleteMultipartUpload"} ->
           {"etag", "sse", "sse-c", "version", "expiration", "charged", "checksum"}
      [] op = "UploadPart" -> {"etag", "sse", "sse-c", "charged", "checksum"}
      [] op = "CreateMultipartUpload" -> {"sse", "sse-c", "charged", "checksum", "abort"}
      [] op = "DeleteObject" -> {"version", "delete-marker", "charged"}
      [] OTHER -> {"charged"}

extract_extra_headers ==
    {"sse", "sse-c", "version", "expiration", "charged", "checksum", "delete-marker"}

extract_write_extra_headers == {"sse", "charged", "checksum"}
extract_write_extra_headers_full == {"expiration"}

\* x-amz-abort-date and x-amz-abort-rule-id ("abort") are not read.
CreateMultipartOutput == {"sse", "charged", "checksum"}
DeleteObjectOutput == {"version", "delete-marker"}

\* Checksums are left out of the answer to a read that did not ask for them.
build_object_headers_common(include_checksum_headers) ==
    {"etag"} \cup (extract_extra_headers \
                    IF include_checksum_headers THEN {} ELSE {"checksum"})

\* What each typed handler copies from the backend's answer to its own.
CopiedHeaders(op, r) ==
    CASE op \in {"GetObject", "HeadObject"} ->
           build_object_headers_common(ReadOptions(r) # {})
      [] op \in {"PutObject", "CompleteMultipartUpload"} ->
           {"etag", "version"} \cup extract_write_extra_headers
                               \cup extract_write_extra_headers_full
      [] op = "UploadPart" -> {"etag"} \cup extract_write_extra_headers
      [] op = "CreateMultipartUpload" -> CreateMultipartOutput
      [] op = "DeleteObject" -> DeleteObjectOutput
      [] OTHER -> {}

\* The backend answers.  What a successful write does to the cache before the
\* client hears of it is CacheCoherence's.
BackendOk(s) ==
    LET t == task[s]
        answer == ResponseHeaders(t.op, t.sent) \cap S3Response(t.op)
    IN /\ t.pc = "backend"
       /\ task' = [task EXCEPT
             ![s].pc = "respond",
             ![s].answer = answer,
             ![s].response = [status |-> "OK",
                              headers |-> IF t.route = "Passthrough" THEN answer
                                          ELSE answer \cap CopiedHeaders(t.op, t.req)]]
       /\ UNCHANGED <<strict, in_flight, total>>

\* The call fails, or its answer has no upload id or ETag where the handler
\* needs one.
BackendError(s) ==
    /\ task[s].pc = "backend"
    /\ Reject(s, "BackendError")
    /\ UNCHANGED <<strict, in_flight, total>>

\* Every return of handle_s3_request records the metrics first.
record_metrics(s) ==
    /\ task[s].pc = "respond"
    /\ task' = [task EXCEPT ![s].pc = "done"]
    /\ in_flight' = in_flight - 1
    /\ total' = total + 1
    /\ UNCHANGED strict

\* A client that goes away drops the handler's future at an await: reading
\* the body or waiting for the backend.
Disconnect(s) ==
    /\ task[s].pc \in {"hash", "handler", "decode", "passthrough", "backend"}
    /\ Goto(s, "dropped")
    /\ UNCHANGED <<strict, in_flight, total>>

Step(s) ==
    \/ CheckMethod(s) \/ CheckLength(s) \/ Authenticate(s) \/ CheckBucket(s)
    \/ VerifyBodyHash(s) \/ Route(s) \/ route_to_passthrough(s)
    \/ handle_read(s) \/ handle_put(s) \/ handle_delete(s) \/ handle_list(s)
    \/ handle_create_multipart(s) \/ handle_upload_part(s)
    \/ handle_complete_multipart(s) \/ handle_abort_multipart(s)
    \/ handle_put_decode_aws_chunked(s) \/ handle_upload_part_decode_aws_chunked(s)
    \/ BackendOk(s) \/ BackendError(s) \/ record_metrics(s)

Next ==
    \/ \E s \in Slots : task[s].pc = "idle" /\ \E r \in Inputs : Receive(s, r)
    \/ \E s \in Slots : Step(s)

NextWithDisconnects == Next \/ \E s \in Slots : Disconnect(s)

Spec == Init /\ [][Next]_vars
DisconnectSpec == Init /\ [][NextWithDisconnects]_vars

-----------------------------------------------------------------------------
Routes == {"Typed", "DecodeAwsChunked", "Passthrough"}

\* Every variable has the shape its declaration gives it.
TypeOK ==
    /\ strict \in BOOLEAN
    /\ \A s \in Slots :
         /\ task[s].req # Nil => task[s].req.headers \subseteq HeaderClasses
         /\ task[s].route \in Routes \cup {Nil}
    /\ in_flight \in Nat
    /\ total \in Nat

\* The headers that mean something to each S3 operation.
Meaningful(op) ==
    CASE op \in {"GetObject", "HeadObject"} ->
           {"range", "if-match", "if-modified", "sse-c", "payer", "checksum-mode",
            "checksum-mode?"}
      [] op = "PutObject" ->
           {"meta", "repeated", "content", "md5", "modifier", "sse-c", "payer", "checksum",
            "if-match", "other-amz"}
      [] op = "DeleteObject" -> {"modifier", "payer", "if-match"}
      [] op = "CreateMultipartUpload" ->
           {"meta", "repeated", "content", "modifier", "sse-c", "payer", "checksum"}
      [] op = "UploadPart" -> {"md5", "sse-c", "payer", "checksum"}
      [] op = "CompleteMultipartUpload" -> {"modifier", "sse-c", "payer", "checksum", "if-match"}
      [] op = "AbortMultipartUpload" -> {"modifier", "payer"}
      [] op \in {"ListObjectsV1", "ListObjectsV2"} -> {"payer"}
      [] OTHER -> HeaderClasses \ {"hop", "negative-length"}

\* The parameters that mean something, in the URL of an object and a bucket.
MeaningfulQuery(r) ==
    IF r.hasKey THEN {"acl", "attributes", "uploads", "uploadId", "partNumber"}
    ELSE {"acl", "attributes", "uploads", "list-type=2", "list-type=3", "max-keys=x", "fetch-owner", "prefix"}

\* What the parser cannot keep and the routes built on it therefore lose: a
\* value that is not visible ASCII, all but the last of repeated x-amz-*
\* values, and the subresources missing from S3_SUBRESOURCE_PARAMS.
UnkeptHeaders(r) == r.opaque \cup {"repeated"}
UnkeptQuery == {"attributes"}

\* On the raw passthrough nothing the client said is lost on the way to the
\* backend: every header that means something to the operation, and every
\* query parameter however it is spelled, is part of what the backend
\* receives.  A typed or decoded call loses what the parser cannot keep and
\* nothing else, because the gates of modifiers.rs send to passthrough exactly
\* what the calls of backend/client.rs cannot carry.
NothingDropped ==
    \A s \in Slots :
        LET t == task[s]
            raw == t.route = "Passthrough"
            headers == (t.req.headers \cap Meaningful(t.op)) \ t.req.nominated
            query == parse_query(t.req.query) \cap MeaningfulQuery(t.req)
        IN t.sent # Nil =>
             /\ headers \ (IF raw THEN {} ELSE UnkeptHeaders(t.req)) \subseteq t.sent.headers
             /\ query \ (IF raw THEN {} ELSE UnkeptQuery) \subseteq parse_query(t.sent.query)

\* Part checksums in a CompleteMultipartUpload body survive: the typed call
\* rebuilds the body without them.
PartChecksumsKept ==
    \A s \in Slots :
        task[s].sent # Nil /\ task[s].op = "CompleteMultipartUpload"
            /\ task[s].req.body = "part_checksums"
        => task[s].route = "Passthrough"

\* Nothing of the backend's answer is lost on the way to the client, but for
\* the lifecycle headers of a typed CreateMultipartUpload.  The write handlers
\* copy no SSE-C headers, since requests that provoke them take the passthrough
\* (the comment in extract_write_extra_headers).
AnswerKept ==
    \A s \in Slots :
        LET t == task[s]
            lost == IF t.op = "CreateMultipartUpload" /\ t.route # "Passthrough"
                    THEN {"abort"} ELSE {}
        IN t.answer # Nil => t.answer \ lost \subseteq t.response.headers

\* The backend sees only requests for its own bucket, from clients that
\* passed the access check.  Whatever the operation, a body that does not have
\* the digest that was signed goes nowhere; and an upload whose body was
\* altered goes out only if nobody signed the body.
OnlyChecked ==
    \A s \in Slots :
        task[s].sent # Nil =>
            /\ task[s].sent.bucket = Backend
            /\ task[s].req.auth # "bad"
            /\ task[s].payload = "hex" => task[s].req.body # "tampered"
            /\ strict /\ task[s].req.body = "tampered"
                 /\ task[s].op \in {"PutObject", "UploadPart"}
               => task[s].payload \in {"UNSIGNED-PAYLOAD", PLAIN_T}

\* In strict mode the signed stream of an upload reaches the backend only
\* through the decoder, with the policy that verifies its chunks.
SignedStreamVerified ==
    \A s \in Slots :
        /\ task[s].sent # Nil
        /\ IsSignedStream(task[s].payload)
        /\ task[s].op \in {"PutObject", "UploadPart"}
        => /\ task[s].route = "DecodeAwsChunked"
           /\ task[s].policy = IF task[s].payload \in {HMAC, HMAC_T}
                               THEN "VerifyHmac" ELSE "VerifyEcdsa"

\* A signed stream on any other operation is verified by nobody.  It is passed
\* on raw, or the typed call (a read or a list) has no body: no handler of the
\* proxy acts on it.
OtherStreamsUntouched ==
    \A s \in Slots :
        /\ task[s].sent # Nil
        /\ IsSignedStream(task[s].payload)
        /\ task[s].op \notin {"PutObject", "UploadPart"}
        => \/ task[s].route = "Passthrough"
           \/ task[s].op \in {"GetObject", "HeadObject", "ListObjectsV1", "ListObjectsV2"}

\* The mode the router reads off repeated x-amz-content-sha256 values does
\* not depend on their order.
ModeIgnoresOrder ==
    \A s \in Slots :
        task[s].req # Nil =>
            classify_aws_chunked_upload(task[s].req)
                = classify_aws_chunked_upload([task[s].req EXCEPT !.sha = Reverse(@)])

(* Nothing the client said is lost on the way to the backend but what the    *)
(* parser cannot keep, and nothing of the answer on the way back but the     *)
(* lifecycle headers of a new multipart upload: the gates of modifiers.rs    *)
(* send to passthrough exactly what the typed calls cannot carry, part       *)
(* checksums included.                                                       *)
NothingLost == NothingDropped /\ PartChecksumsKept /\ AnswerKept

(* The backend gets only what passed the checks: the bucket, the client, the *)
(* signed digest whatever the operation, and in strict mode the signed       *)
(* stream of an upload only through the decoder that verifies it.            *)
OnlyVerified == TypeOK /\ OnlyChecked /\ SignedStreamVerified

-----------------------------------------------------------------------------
(* What the documentation says and the code does not do.                     *)

Executing == {s \in Slots : task[s].pc \notin {"idle", "done", "dropped"}}

\* The gauge s3proxy_in_flight_requests counts the handlers that execute.
GaugeExact == in_flight = Cardinality(Executing)

\* A streaming upload that is passed through byte-for-byte keeps the
\* x-amz-content-sha256 value that announces its framing.
FramingAnnounced ==
    \A s \in Slots :
        /\ task[s].sent # Nil
        /\ task[s].op \in {"PutObject", "UploadPart"}
        /\ task[s].route = "Passthrough"
        /\ classify_aws_chunked_upload(task[s].req) = "OtherStreaming"
        => "content-sha256" \in task[s].sent.headers

\* A request for a subresource of an object or a bucket is not taken for the
\* operation on the object or bucket itself (parse.rs:8-12).
SubresourcesPassThrough ==
    \A s \in Slots :
        /\ task[s].sent # Nil
        /\ parse_query(task[s].req.query) \cap {"acl", "attributes"} # {}
        => task[s].route = "Passthrough"

\* Every signed stream is verified chunk by chunk (README.md:206, 211).
StreamsVerified ==
    \A s \in Slots :
        task[s].sent # Nil /\ IsSignedStream(task[s].payload)
        => task[s].policy \in {"VerifyHmac", "VerifyEcdsa"}

\* Headers that modify a write and cannot be preserved by a typed call make
\* the request take the passthrough (modifiers.rs:1-2).
WriteModifiersKept ==
    \A s \in Slots :
        /\ task[s].sent # Nil
        /\ task[s].op \in {"PutObject", "UploadPart"}
        /\ (task[s].req.headers \cap WRITE_MODIFYING_BASE) \ task[s].req.nominated # {}
        => task[s].route = "Passthrough"
=============================================================================
