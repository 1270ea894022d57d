---------------------------- MODULE RequestProofs ----------------------------
(***************************************************************************)
(* Proofs about the path of a request (Dispatch), for every request and    *)
(* any number of handlers, and about the credentials file that strict mode *)
(* reads (CredentialStore), for every file.                                *)
(***************************************************************************)
EXTENDS Dispatch, CredentialStore, FiniteSetTheorems, TLAPS

-----------------------------------------------------------------------------
(* The inductive invariant: what is known of a handler at each point.        *)

Operations == {"Unsupported", "GetObject", "HeadObject", "PutObject", "DeleteObject",
               "UploadPart", "CreateMultipartUpload", "CompleteMultipartUpload",
               "AbortMultipartUpload", "ListObjectsV1", "ListObjectsV2"}

AnswerNames == {"etag", "sse", "sse-c", "version", "expiration", "charged", "checksum",
                "delete-marker", "abort"}

Pcs == {"idle", "method", "length", "auth", "bucket", "hash", "route", "handler", "decode",
        "passthrough", "backend", "respond", "done", "dropped"}

Outbounds == [headers : SUBSET (HeaderClasses \cup {"content-sha256", "trailer-checksum"}),
              query : SUBSET QueryNames, bucket : {Backend}]

Codes == {"OK", "NotImplemented", "InvalidRequest", "AccessDenied", "NoSuchBucket",
          "EntityTooLarge", "SignatureDoesNotMatch", "UnsupportedSignature",
          "InvalidArgument", "MalformedXML", "InternalError", "BackendError"}

Answers == [status : Codes, headers : SUBSET AnswerNames]

Policies == {"ShapeOnly", "VerifyHmac", "VerifyEcdsa"}

Tasks == [pc : Pcs, req : S3Requests \cup {Nil}, op : Operations \cup {Nil},
          payload : ShaValues \cup {Nil}, route : Routes \cup {Nil},
          policy : Policies \cup {Nil}, sent : Outbounds \cup {Nil},
          answer : (SUBSET AnswerNames) \cup {Nil}, response : Answers \cup {Nil}]

(* The places before anything is sent, and those past each check.            *)
Unsent == {"idle", "method", "length", "auth", "bucket", "hash", "route", "handler",
           "decode", "passthrough"}
Routed == {"handler", "decode", "passthrough"}
PastHash == Routed \cup {"route", "backend"}
PastBucket == PastHash \cup {"hash"}
PastAuth == PastBucket \cup {"bucket"}

Authenticated(t, st) ==
    /\ t.req.auth # "bad"
    /\ t.payload = IF st THEN PayloadOf(t.req) ELSE Nil
    /\ st => t.payload \in Sentinels \cup {"UNSIGNED-PAYLOAD", "hex"}

BodyChecked(t) == t.payload = "hex" => t.req.body \notin {"too_large", "tampered"}

(* The route was chosen by the modifiers, and a signed stream is decoded.    *)
RouteKept(t) ==
    /\ t.pc = "handler" => t.route = "Typed"
    /\ t.pc = "decode" => t.route = "DecodeAwsChunked"
    /\ t.pc = "passthrough" => t.route = "Passthrough"
    /\ t.pc \in {"handler", "decode"} => t.route = RouteOf(t.op, t.req)
    /\ t.op \in {"PutObject", "UploadPart"} /\ IsSignedStream(t.payload)
         => t.route = "DecodeAwsChunked"

(* What was sent carries the request: all of it on the passthrough, what the *)
(* parser keeps on the other routes.  Its answer can be carried back.        *)
CarriedRaw(op, r, out) ==
    /\ (r.headers \cap Meaningful(op)) \ r.nominated \subseteq out.headers
    /\ parse_query(r.query) \cap MeaningfulQuery(r) \subseteq parse_query(out.query)

Carried(op, r, out) ==
    /\ ((r.headers \cap Meaningful(op)) \ r.nominated) \ UnkeptHeaders(r) \subseteq out.headers
    /\ (parse_query(r.query) \cap MeaningfulQuery(r)) \ UnkeptQuery \subseteq parse_query(out.query)

Returned(op, r, out) ==
    (ResponseHeaders(op, out) \cap S3Response(op))
        \ (IF op = "CreateMultipartUpload" THEN {"abort"} ELSE {}) \subseteq CopiedHeaders(op, r)

(* What was sent passed the checks.                                          *)
Verified(t, st) ==
    /\ t.req.auth # "bad"
    /\ BodyChecked(t)
    /\ st /\ t.req.body = "tampered" /\ t.op \in {"PutObject", "UploadPart"}
         => t.payload \in {"UNSIGNED-PAYLOAD", PLAIN_T}
    /\ IsSignedStream(t.payload) /\ t.op \in {"PutObject", "UploadPart"}
         => /\ t.route = "DecodeAwsChunked"
            /\ t.policy = IF t.payload \in {HMAC, HMAC_T} THEN "VerifyHmac" ELSE "VerifyEcdsa"

SentOK(t, st) ==
    /\ t.sent \in Outbounds
    /\ t.route = "Passthrough" => CarriedRaw(t.op, t.req, t.sent)
    /\ t.route # "Passthrough" => Carried(t.op, t.req, t.sent) /\ Returned(t.op, t.req, t.sent)
    /\ t.op = "CompleteMultipartUpload" /\ t.req.body = "part_checksums"
         => t.route = "Passthrough"
    /\ Verified(t, st)

AnswerOK(t) ==
    t.answer \ (IF t.op = "CreateMultipartUpload" /\ t.route # "Passthrough" THEN {"abort"} ELSE {})
        \subseteq t.response.headers

TaskOK(t, st) ==
    /\ t \in Tasks
    /\ t.pc # "idle" => t.req \in S3Requests /\ t.op = parse_request(t.req)
    /\ t.pc \in PastAuth => Authenticated(t, st)
    /\ t.pc \in PastBucket => t.req.bucket = Frontend
    /\ t.pc \in PastHash => BodyChecked(t)
    /\ t.pc \in Routed => RouteKept(t)
    /\ t.pc \in Unsent => t.sent = Nil
    /\ t.pc = "backend" \/ t.sent # Nil => SentOK(t, st)
    /\ t.pc \in Unsent \cup {"backend"} => t.answer = Nil
    /\ t.answer # Nil => AnswerOK(t)

(* The gauge counts at least the handlers that execute.                      *)
GaugeCovers == in_flight \in Nat /\ in_flight >= Cardinality(Executing)

RequestInv ==
    /\ strict \in BOOLEAN
    /\ task \in [Slots -> Tasks]
    /\ \A s \in Slots : TaskOK(task[s], strict)
    /\ GaugeCovers
    /\ total \in Nat

-----------------------------------------------------------------------------
(* Parameters and operations.                                                *)

Undecoded == QueryNames \ {"acl", "%61cl", "fetch-owner", "fetch%2Downer"}

LEMMA DecodedName ==
  ASSUME NEW x \in Undecoded, NEW n \in QueryNames
  PROVE  percent_decode_str(n) = x <=> n = x
  BY DEF Undecoded, QueryNames, percent_decode_str

(* Percent-decoding matters only for the names it changes.                   *)
LEMMA DecodedQuery ==
  ASSUME NEW Q \in SUBSET QueryNames, NEW x \in Undecoded
  PROVE  x \in parse_query(Q) <=> x \in Q
  BY DecodedName DEF parse_query

LEMMA OperationType ==
  ASSUME NEW r \in S3Requests
  PROVE  parse_request(r) \in Operations
  BY DEF parse_request, BucketOperation, MultipartOperation, ObjectOperation, Operations

(* What the parameters of a request are, given the operation it was taken for. *)
LEMMA ObjectQuery ==
  ASSUME NEW r \in S3Requests,
         parse_request(r) \in {"GetObject", "HeadObject", "PutObject", "DeleteObject"}
  PROVE  /\ r.hasKey
         /\ parse_query(r.query) \cap {"acl", "uploads", "uploadId", "partNumber"} = {}
<1> DEFINE q == parse_query(r.query)
<1> HIDE DEF q
<1>1. \/ r.bucket = ""
      \/ r.bucket # "" /\ ~r.hasKey
      \/ r.bucket # "" /\ r.hasKey
  BY DEF S3Requests
<1>2. BucketOperation(r, q) \in {"Unsupported", "ListObjectsV1", "ListObjectsV2"}
  BY DEF BucketOperation
<1>3. MultipartOperation(r, q) \in {"Unsupported", "UploadPart", "CreateMultipartUpload",
                                     "CompleteMultipartUpload", "AbortMultipartUpload"}
  BY DEF MultipartOperation
<1>4. parse_request(r) =
        CASE r.bucket = "" -> "Unsupported"
          [] r.bucket # "" /\ ~r.hasKey -> BucketOperation(r, q)
          [] OTHER ->
               IF q \cap S3_SUBRESOURCE_PARAMS # {} THEN "Unsupported"
               ELSE IF q \cap {"uploads", "uploadId", "partNumber", "partNumber=0"} # {}
                    THEN MultipartOperation(r, q)
                    ELSE ObjectOperation(r)
  BY DEF parse_request, q
<1>5. r.hasKey /\ q \cap S3_SUBRESOURCE_PARAMS = {}
        /\ q \cap {"uploads", "uploadId", "partNumber", "partNumber=0"} = {}
  BY <1>1, <1>2, <1>3, <1>4
<1> QED
  BY <1>5 DEF q, S3_SUBRESOURCE_PARAMS

LEMMA MultipartQuery ==
  ASSUME NEW r \in S3Requests,
         parse_request(r) \in {"UploadPart", "CreateMultipartUpload",
                               "CompleteMultipartUpload", "AbortMultipartUpload"}
  PROVE  /\ r.hasKey
         /\ "acl" \notin parse_query(r.query)
         /\ parse_request(r) = MultipartOperation(r, parse_query(r.query))
<1> DEFINE q == parse_query(r.query)
<1> HIDE DEF q
<1>1. \/ r.bucket = ""
      \/ r.bucket # "" /\ ~r.hasKey
      \/ r.bucket # "" /\ r.hasKey
  BY DEF S3Requests
<1>2. BucketOperation(r, q) \in {"Unsupported", "ListObjectsV1", "ListObjectsV2"}
  BY DEF BucketOperation
<1>3. ObjectOperation(r) \in {"Unsupported", "GetObject", "HeadObject", "PutObject",
                              "DeleteObject"}
  BY DEF ObjectOperation
<1>4. parse_request(r) =
        CASE r.bucket = "" -> "Unsupported"
          [] r.bucket # "" /\ ~r.hasKey -> BucketOperation(r, q)
          [] OTHER ->
               IF q \cap S3_SUBRESOURCE_PARAMS # {} THEN "Unsupported"
               ELSE IF q \cap {"uploads", "uploadId", "partNumber", "partNumber=0"} # {}
                    THEN MultipartOperation(r, q)
                    ELSE ObjectOperation(r)
  BY DEF parse_request, q
<1>5. r.hasKey /\ q \cap S3_SUBRESOURCE_PARAMS = {}
        /\ parse_request(r) = MultipartOperation(r, q)
  BY <1>1, <1>2, <1>3, <1>4
<1> QED
  BY <1>5 DEF q, S3_SUBRESOURCE_PARAMS

LEMMA ListQuery ==
  ASSUME NEW r \in S3Requests, parse_request(r) \in {"ListObjectsV1", "ListObjectsV2"}
  PROVE  /\ ~r.hasKey
         /\ parse_query(r.query) \cap {"acl", "uploads", "list-type=3", "max-keys=x"} = {}
<1> DEFINE q == parse_query(r.query)
<1> HIDE DEF q
<1>1. \/ r.bucket = ""
      \/ r.bucket # "" /\ ~r.hasKey
      \/ r.bucket # "" /\ r.hasKey
  BY DEF S3Requests
<1>2. MultipartOperation(r, q) \in {"Unsupported", "UploadPart", "CreateMultipartUpload",
                                     "CompleteMultipartUpload", "AbortMultipartUpload"}
  BY DEF MultipartOperation
<1>3. ObjectOperation(r) \in {"Unsupported", "GetObject", "HeadObject", "PutObject",
                              "DeleteObject"}
  BY DEF ObjectOperation
<1>4. parse_request(r) =
        CASE r.bucket = "" -> "Unsupported"
          [] r.bucket # "" /\ ~r.hasKey -> BucketOperation(r, q)
          [] OTHER ->
               IF q \cap S3_SUBRESOURCE_PARAMS # {} THEN "Unsupported"
               ELSE IF q \cap {"uploads", "uploadId", "partNumber", "partNumber=0"} # {}
                    THEN MultipartOperation(r, q)
                    ELSE ObjectOperation(r)
  BY DEF parse_request, q
<1>5. ~r.hasKey /\ parse_request(r) = BucketOperation(r, q)
  BY <1>1, <1>2, <1>3, <1>4
<1>6. q \cap (S3_SUBRESOURCE_PARAMS \cup {"uploads"}) = {} /\ q \cap {"list-type=3", "max-keys=x"} = {}
  BY <1>5 DEF BucketOperation
<1> QED
  BY <1>5, <1>6 DEF q, S3_SUBRESOURCE_PARAMS

-----------------------------------------------------------------------------
(* What each backend call carries, for every request that is given to it.    *)

LEMMA RequestTypes ==
  ASSUME NEW r \in S3Requests
  PROVE  /\ r.query \subseteq QueryNames /\ r.headers \subseteq HeaderClasses
         /\ \A i \in DOMAIN r.sha : r.sha[i] \in ShaValues
  BY DEF S3Requests

LEMMA OutboundFacts ==
  ASSUME NEW h \in SUBSET (HeaderClasses \cup {"content-sha256", "trailer-checksum"}),
         NEW q \in SUBSET QueryNames
  PROVE  /\ Outbound(h, q, Backend) \in Outbounds
         /\ Outbound(h, q, Backend).headers = h
         /\ Outbound(h, q, Backend).query = q
  BY DEF Outbound, Outbounds

LEMMA RouteType ==
  ASSUME NEW op, NEW r
  PROVE  RouteOf(op, r) \in Routes
  BY DEF RouteOf, Routes, classify_put_body_route, classify_upload_part_body_route,
         aws_chunked_route_for

LEMMA ReadCarried ==
  ASSUME NEW r \in S3Requests, NEW op \in {"GetObject", "HeadObject"},
         op = parse_request(r), RouteOf(op, r) = "Typed",
         NEW out, out = Outbound(ReadOptions(r), {}, Backend)
  PROVE  out \in Outbounds /\ Carried(op, r, out) /\ Returned(op, r, out)
<1>1. r.headers \cap {"range", "if-match", "if-modified", "payer", "sse-c", "checksum-mode?"} = {}
  BY DEF RouteOf, has_unsupported_get_modifiers, checksum_mode_requires_passthrough
<1>2. (parse_query(r.query) \cap MeaningfulQuery(r)) \ UnkeptQuery = {}
  BY ObjectQuery DEF MeaningfulQuery, UnkeptQuery
<1>3. Meaningful(op) = {"range", "if-match", "if-modified", "sse-c", "payer", "checksum-mode",
                        "checksum-mode?"}
  BY DEF Meaningful
<1>4. out.headers = r.headers \cap {"checksum-mode"} /\ out.query = {} /\ out \in Outbounds
  <2>1. ReadOptions(r) \in SUBSET (HeaderClasses \cup {"content-sha256", "trailer-checksum"})
    BY RequestTypes DEF ReadOptions
  <2>2. {} \in SUBSET QueryNames
    OBVIOUS
  <2> QED
    BY <2>1, <2>2, OutboundFacts DEF ReadOptions
<1>5. Carried(op, r, out)
  BY <1>1, <1>2, <1>3, <1>4 DEF Carried
<1>6. CopiedHeaders(op, r) = build_object_headers_common(ReadOptions(r) # {})
  BY DEF CopiedHeaders
<1>7. S3Response(op) = {"etag", "sse", "sse-c", "version", "expiration", "charged", "checksum",
            "delete-marker"}
  BY DEF S3Response
<1>8. Returned(op, r, out)
  BY <1>4, <1>6, <1>7
     DEF Returned, ResponseHeaders, build_object_headers_common, extract_extra_headers, ReadOptions
<1> QED
  BY <1>4, <1>5, <1>8

(* The gates the write handlers share.                                       *)
LEMMA WriteGate ==
  ASSUME NEW r \in S3Requests, NEW op \in {"PutObject", "UploadPart"}, 
         RouteOf(op, r) # "Passthrough"
  PROVE  /\ "if-match" \notin r.headers
         /\ header_str(r) \cap {"modifier", "sse-c", "payer"} = {}
         /\ op = "UploadPart" /\ RouteOf(op, r) = "Typed" =>
              header_str(r) \cap {"checksum", "sdk-checksum"} = {}
<1>1. CASE op = "PutObject"
  BY <1>1 DEF RouteOf, classify_put_body_route, has_unsupported_http_conditionals,
     extra_amz_headers, WRITE_MODIFYING_BASE
<1>2. CASE op = "UploadPart"
  BY <1>2 DEF RouteOf, classify_upload_part_body_route, has_unsupported_http_conditionals,
     extra_amz_headers, WRITE_MODIFYING_BASE, MULTIPART_CHECKSUM_HEADERS
<1> QED
  BY <1>1, <1>2

LEMMA PutCarried ==
  ASSUME NEW r \in S3Requests, parse_request(r) = "PutObject",
         RouteOf("PutObject", r) # "Passthrough",
         NEW out, NEW t \in SUBSET {"trailer-checksum"},
         NEW x \in SUBSET {"decoded-length", "sdk-checksum"},
         out = Outbound((header_str(r) \cap {"meta", "content", "md5"})
                          \cup (extra_amz_headers(r) \ x) \cup t, {}, Backend)
  PROVE  out \in Outbounds /\ Carried("PutObject", r, out) /\ Returned("PutObject", r, out)
<1>1. "if-match" \notin r.headers /\ header_str(r) \cap {"modifier", "sse-c", "payer"} = {}
  BY WriteGate
<1>2. (parse_query(r.query) \cap MeaningfulQuery(r)) \ UnkeptQuery = {}
  BY ObjectQuery DEF MeaningfulQuery, UnkeptQuery
<1>3. Meaningful("PutObject") = {"meta", "repeated", "content", "md5", "modifier", "sse-c", "payer",
                                 "checksum", "if-match", "other-amz"}
  BY DEF Meaningful
<1>4. out \in Outbounds /\ out.query = {}
      /\ out.headers = (header_str(r) \cap {"meta", "content", "md5"}) \cup (extra_amz_headers(r) \ x) \cup t
  <2>1. (header_str(r) \cap {"meta", "content", "md5"}) \cup (extra_amz_headers(r) \ x) \cup t
          \in SUBSET (HeaderClasses \cup {"content-sha256", "trailer-checksum"})
    BY RequestTypes DEF extra_amz_headers, header_str
  <2>2. {} \in SUBSET QueryNames
    OBVIOUS
  <2> QED
    BY <2>1, <2>2, OutboundFacts
<1>5. Carried("PutObject", r, out)
  BY <1>1, <1>2, <1>3, <1>4 DEF Carried, extra_amz_headers, header_str, UnkeptHeaders
<1>6. CopiedHeaders("PutObject", r) = {"etag", "version", "sse", "charged", "checksum", "expiration"}
  BY DEF CopiedHeaders, extract_write_extra_headers, extract_write_extra_headers_full
<1>7. S3Response("PutObject") = {"etag", "sse", "sse-c", "version", "expiration", "charged", "checksum"}
  BY DEF S3Response
<1>8. "sse-c" \notin out.headers
  BY <1>1, <1>4 DEF extra_amz_headers
<1>9. Returned("PutObject", r, out)
  BY <1>6, <1>7, <1>8 DEF Returned, ResponseHeaders
<1> QED
  BY <1>4, <1>5, <1>9

LEMMA UploadPartCarried ==
  ASSUME NEW r \in S3Requests, parse_request(r) = "UploadPart", part_number(r) # 0,
         NEW h \in SUBSET (HeaderClasses \cup {"trailer-checksum"}),
         ((r.headers \cap {"md5", "sse-c", "payer", "checksum"}) \ r.nominated)
           \ UnkeptHeaders(r) \subseteq h,
         "sse-c" \notin h,
         NEW out, out = Outbound(h, PartQuery(r), Backend)
  PROVE  out \in Outbounds /\ Carried("UploadPart", r, out) /\ Returned("UploadPart", r, out)
<1>1. /\ "acl" \notin parse_query(r.query) /\ r.hasKey
      /\ "uploads" \notin parse_query(r.query)
  BY MultipartQuery DEF MultipartOperation
<1>2. PartQuery(r) \in SUBSET QueryNames /\ r.query \in SUBSET QueryNames
  BY RequestTypes DEF PartQuery
<1>3. out \in Outbounds /\ out.query = PartQuery(r) /\ out.headers = h
  <2>1. h \in SUBSET (HeaderClasses \cup {"content-sha256", "trailer-checksum"})
    OBVIOUS
  <2> QED
    BY <2>1, <1>2, OutboundFacts
<1>4. \A x \in {"uploadId", "partNumber"} : x \in parse_query(r.query) => x \in parse_query(PartQuery(r))
  BY <1>2, DecodedQuery DEF Undecoded, QueryNames, PartQuery
<1>5. MeaningfulQuery(r) = {"acl", "attributes", "uploads", "uploadId", "partNumber"}
  BY <1>1 DEF MeaningfulQuery
<1>6. Meaningful("UploadPart") = {"md5", "sse-c", "payer", "checksum"}
  BY DEF Meaningful
<1>7. Carried("UploadPart", r, out)
  BY <1>1, <1>3, <1>4, <1>5, <1>6 DEF Carried, UnkeptQuery
<1>8. CopiedHeaders("UploadPart", r) = {"etag", "sse", "charged", "checksum"}
  BY DEF CopiedHeaders, extract_write_extra_headers
<1>9. S3Response("UploadPart") = {"etag", "sse", "sse-c", "charged", "checksum"}
  BY DEF S3Response
<1>10. Returned("UploadPart", r, out)
  BY <1>3, <1>8, <1>9 DEF Returned, ResponseHeaders
<1> QED
  BY <1>3, <1>7, <1>10

(* The typed calls whose request has no header and no body of the client.    *)
LEMMA DeleteCarried ==
  ASSUME NEW r \in S3Requests, parse_request(r) = "DeleteObject",
         RouteOf("DeleteObject", r) = "Typed"
  PROVE  /\ delete_object \in Outbounds
         /\ Carried("DeleteObject", r, delete_object) /\ Returned("DeleteObject", r, delete_object)
<1>1. "if-match" \notin r.headers /\ header_str(r) \cap {"modifier", "payer"} = {}
  BY DEF RouteOf, has_unsupported_write_modifiers, has_unsupported_http_conditionals,
     extra_amz_headers, WRITE_MODIFYING_BASE
<1>2. (parse_query(r.query) \cap MeaningfulQuery(r)) \ UnkeptQuery = {}
  BY ObjectQuery DEF MeaningfulQuery, UnkeptQuery
<1>3. Meaningful("DeleteObject") = {"modifier", "payer", "if-match"}
  BY DEF Meaningful
<1>4. delete_object \in Outbounds /\ delete_object.headers = {}
  <2>1. {} \in SUBSET (HeaderClasses \cup {"content-sha256", "trailer-checksum"})
          /\ {} \in SUBSET QueryNames
    OBVIOUS
  <2> QED
    BY <2>1, OutboundFacts DEF delete_object
<1>5. Carried("DeleteObject", r, delete_object)
  BY <1>1, <1>2, <1>3 DEF Carried, header_str, UnkeptHeaders
<1>6. CopiedHeaders("DeleteObject", r) = {"version", "delete-marker"}
  BY DEF CopiedHeaders, DeleteObjectOutput
<1>7. S3Response("DeleteObject") = {"version", "delete-marker", "charged"}
  BY DEF S3Response
<1>8. Returned("DeleteObject", r, delete_object)
  BY <1>4, <1>6, <1>7 DEF Returned, ResponseHeaders
<1> QED
  BY <1>4, <1>5, <1>8

(* The gate of the three multipart calls that have no body route.            *)
LEMMA MultipartGate ==
  ASSUME NEW r \in S3Requests,
         NEW op \in {"CreateMultipartUpload", "CompleteMultipartUpload", "AbortMultipartUpload"},
         RouteOf(op, r) = "Typed"
  PROVE  /\ "if-match" \notin r.headers
         /\ header_str(r) \cap {"modifier", "sse-c", "payer", "checksum", "sdk-checksum"} = {}
<1>1. ~has_unsupported_multipart_modifiers(r)
  BY DEF RouteOf
<1> QED
  BY <1>1 DEF has_unsupported_multipart_modifiers, has_unsupported_http_conditionals,
     extra_amz_headers, WRITE_MODIFYING_BASE, MULTIPART_CHECKSUM_HEADERS

LEMMA CreateCarried ==
  ASSUME NEW r \in S3Requests, parse_request(r) = "CreateMultipartUpload",
         RouteOf("CreateMultipartUpload", r) = "Typed",
         NEW out, out = create_multipart_upload(CreateMultipartUploadInput(r))
  PROVE  /\ out \in Outbounds /\ Carried("CreateMultipartUpload", r, out)
         /\ Returned("CreateMultipartUpload", r, out)
<1>1. header_str(r) \cap {"modifier", "sse-c", "payer", "checksum"} = {}
  BY MultipartGate
<1>2. /\ r.hasKey /\ "acl" \notin parse_query(r.query)
      /\ "uploadId" \notin parse_query(r.query) /\ "partNumber" \notin parse_query(r.query)
  BY MultipartQuery DEF MultipartOperation
<1>3. Meaningful("CreateMultipartUpload") = {"meta", "repeated", "content", "modifier", "sse-c",
                                             "payer", "checksum"}
  BY DEF Meaningful
<1>4. out \in Outbounds /\ out.headers = header_str(r) \cap {"meta", "content"} /\ out.query = {"uploads"}
  <2>1. header_str(r) \cap {"meta", "content"}
          \in SUBSET (HeaderClasses \cup {"content-sha256", "trailer-checksum"})
        /\ {"uploads"} \in SUBSET QueryNames
    BY RequestTypes DEF QueryNames, header_str
  <2>2. CreateMultipartUploadInput(r) = header_str(r) \cap {"meta", "content"}
    BY DEF CreateMultipartUploadInput, user_metadata, content_headers
  <2> QED
    BY <2>1, <2>2, OutboundFacts DEF create_multipart_upload
<1>5. "uploads" \in parse_query({"uploads"})
  BY DEF parse_query, percent_decode_str
<1>6. MeaningfulQuery(r) = {"acl", "attributes", "uploads", "uploadId", "partNumber"}
  BY <1>2 DEF MeaningfulQuery
<1>7. Carried("CreateMultipartUpload", r, out)
  BY <1>1, <1>2, <1>3, <1>4, <1>5, <1>6 DEF Carried, header_str, UnkeptHeaders, UnkeptQuery
<1>8. CopiedHeaders("CreateMultipartUpload", r) = {"sse", "charged", "checksum"}
  BY DEF CopiedHeaders, CreateMultipartOutput
<1>9. S3Response("CreateMultipartUpload") = {"sse", "sse-c", "charged", "checksum", "abort"}
  BY DEF S3Response
<1>10. Returned("CreateMultipartUpload", r, out)
  <2>1. "sse-c" \notin out.headers
    BY <1>4
  <2> QED
    BY <1>8, <1>9, <2>1 DEF Returned, ResponseHeaders
<1> QED
  BY <1>4, <1>7, <1>10

LEMMA EndCarried ==
  ASSUME NEW r \in S3Requests, NEW op \in {"CompleteMultipartUpload", "AbortMultipartUpload"},
         op = parse_request(r), RouteOf(op, r) = "Typed",
         NEW out, out = Outbound({}, {"uploadId"}, Backend)
  PROVE  out \in Outbounds /\ Carried(op, r, out) /\ Returned(op, r, out)
<1>1. /\ "if-match" \notin r.headers
      /\ header_str(r) \cap {"modifier", "sse-c", "payer", "checksum"} = {}
  BY MultipartGate
<1>2. /\ r.hasKey /\ "acl" \notin parse_query(r.query)
      /\ "uploads" \notin parse_query(r.query) /\ "partNumber" \notin parse_query(r.query)
  <2>1. op = MultipartOperation(r, parse_query(r.query)) /\ r.hasKey /\ "acl" \notin parse_query(r.query)
    BY MultipartQuery
  <2> QED
    BY <2>1 DEF MultipartOperation
<1>3. Meaningful(op) \subseteq {"modifier", "sse-c", "payer", "checksum", "if-match"}
  BY DEF Meaningful
<1>4. out \in Outbounds /\ out.headers = {} /\ out.query = {"uploadId"}
  <2>1. {} \in SUBSET (HeaderClasses \cup {"content-sha256", "trailer-checksum"})
        /\ {"uploadId"} \in SUBSET QueryNames
    BY DEF QueryNames
  <2> QED
    BY <2>1, OutboundFacts
<1>5. "uploadId" \in parse_query({"uploadId"})
  BY DEF parse_query, percent_decode_str
<1>6. MeaningfulQuery(r) = {"acl", "attributes", "uploads", "uploadId", "partNumber"}
  BY <1>2 DEF MeaningfulQuery
<1>7. Carried(op, r, out)
  BY <1>1, <1>2, <1>3, <1>4, <1>5, <1>6 DEF Carried, header_str, UnkeptHeaders, UnkeptQuery
<1>8. CASE op = "CompleteMultipartUpload"
  <2>1. CopiedHeaders(op, r) = {"etag", "version", "sse", "charged", "checksum", "expiration"}
    BY <1>8 DEF CopiedHeaders, extract_write_extra_headers, extract_write_extra_headers_full
  <2>2. S3Response(op) = {"etag", "sse", "sse-c", "version", "expiration", "charged", "checksum"}
    BY <1>8 DEF S3Response
  <2>3. Returned(op, r, out)
    BY <1>4, <2>1, <2>2 DEF Returned, ResponseHeaders
  <2> QED
    BY <1>4, <1>7, <2>3
<1>9. CASE op = "AbortMultipartUpload"
  <2>1. S3Response(op) = {"charged"}
    BY <1>9 DEF S3Response
  <2>2. Returned(op, r, out)
    BY <1>4, <2>1 DEF Returned, ResponseHeaders
  <2> QED
    BY <1>4, <1>7, <2>2
<1> QED
  BY <1>8, <1>9

LEMMA ListCarried ==
  ASSUME NEW r \in S3Requests, NEW op \in {"ListObjectsV1", "ListObjectsV2"},
         op = parse_request(r), RouteOf(op, r) = "Typed",
         NEW out, out = list_objects(ListParams(r))
  PROVE  out \in Outbounds /\ Carried(op, r, out) /\ Returned(op, r, out)
<1>1. "payer" \notin r.headers /\ "fetch-owner" \notin parse_query(r.query)
  BY DEF RouteOf, has_unsupported_list_modifiers
<1>2. /\ ~r.hasKey
      /\ parse_query(r.query) \cap {"acl", "uploads", "list-type=3", "max-keys=x"} = {}
  BY ListQuery
<1>3. Meaningful(op) = {"payer"}
  BY DEF Meaningful
<1>4. ListParams(r) \in SUBSET QueryNames /\ r.query \in SUBSET QueryNames
  BY RequestTypes DEF ListParams
<1>5. out \in Outbounds /\ out.headers = {} /\ out.query = ListParams(r)
  <2>1. {} \in SUBSET (HeaderClasses \cup {"content-sha256", "trailer-checksum"})
    OBVIOUS
  <2> QED
    BY <1>4, <2>1, OutboundFacts DEF list_objects
<1>6. \A x \in {"list-type=2", "prefix"} : x \in parse_query(r.query) => x \in parse_query(ListParams(r))
  BY <1>4, DecodedQuery DEF Undecoded, QueryNames, ListParams
<1>7. MeaningfulQuery(r) = {"acl", "attributes", "uploads", "list-type=2", "list-type=3", "max-keys=x",
                            "fetch-owner", "prefix"}
  BY <1>2 DEF MeaningfulQuery
<1>8. Carried(op, r, out)
  BY <1>1, <1>2, <1>3, <1>5, <1>6, <1>7 DEF Carried, UnkeptQuery
<1>9. S3Response(op) = {"charged"}
  BY DEF S3Response
<1>10. Returned(op, r, out)
  BY <1>5, <1>9 DEF Returned, ResponseHeaders
<1> QED
  BY <1>5, <1>8, <1>10

(* Passthrough forwards all there is.                                        *)
LEMMA RawCarried ==
  ASSUME NEW r \in S3Requests, r.bucket = Frontend, NEW op \in Operations,
         NEW out, out = Outbound(BaseHeaders(r), r.query, rewrite_bucket_in_path(r.bucket))
  PROVE  out \in Outbounds /\ CarriedRaw(op, r, out)
<1>1. BaseHeaders(r) \in SUBSET (HeaderClasses \cup {"content-sha256", "trailer-checksum"})
        /\ r.query \in SUBSET QueryNames
  BY RequestTypes DEF BaseHeaders, ClientHeaders
<1>2. out \in Outbounds /\ out.headers = BaseHeaders(r) /\ out.query = r.query
  BY <1>1, OutboundFacts DEF rewrite_bucket_in_path
<1>3. "hop" \notin Meaningful(op) /\ "negative-length" \notin Meaningful(op)
        /\ "content-sha256" \notin r.headers
  BY RequestTypes DEF Meaningful, HeaderClasses, Operations
<1>4. (r.headers \cap Meaningful(op)) \ r.nominated \subseteq BaseHeaders(r)
  BY <1>3 DEF BaseHeaders, ClientHeaders, SKIP_REQUEST_HEADERS, HOP_BY_HOP_HEADERS,
     collect_connection_nominated
<1> QED
  BY <1>2, <1>4 DEF CarriedRaw

-----------------------------------------------------------------------------
(* One handler moves on.                                                     *)

SameRequest(t, u) == u.req = t.req /\ u.op = t.op
SameSent(t, u) == u.payload = t.payload /\ u.route = t.route /\ u.policy = t.policy /\ u.sent = t.sent
SameAnswer(t, u) == u.answer = t.answer

LEMMA GotoFields ==
  ASSUME NEW t \in Tasks, NEW p \in Pcs, NEW u, u = [t EXCEPT !.pc = p]
  PROVE  /\ u \in Tasks /\ u.pc = p
         /\ SameRequest(t, u) /\ SameSent(t, u) /\ SameAnswer(t, u) /\ u.response = t.response
  BY DEF Tasks, SameRequest, SameSent, SameAnswer

LEMMA RejectFields ==
  ASSUME NEW t \in Tasks, NEW c \in Codes, NEW u,
         u = [t EXCEPT !.pc = "respond", !.response = [status |-> c, headers |-> {}]]
  PROVE  /\ u \in Tasks /\ u.pc = "respond"
         /\ SameRequest(t, u) /\ SameSent(t, u) /\ SameAnswer(t, u)
<1> DEFINE a == [status |-> c, headers |-> {}]
<1>1. a \in Answers
  BY DEF Answers
<1>2. "respond" \in Pcs
  BY DEF Pcs
<1> HIDE DEF a
<1>3. u = [t EXCEPT !.pc = "respond", !.response = a]
  BY DEF a
<1> QED
  BY <1>1, <1>2, <1>3 DEF Tasks, SameRequest, SameSent, SameAnswer

(* A handler that is answered keeps what is known of what it sent.           *)
LEMMA SettleOK ==
  ASSUME NEW t, NEW st, TaskOK(t, st), t.pc # "idle",
         NEW u \in Tasks, u.pc \in {"respond", "done", "dropped"},
         SameRequest(t, u), SameSent(t, u), u.answer # Nil => AnswerOK(u)
  PROVE  TaskOK(u, st)
<1>1. u.pc \notin PastAuth /\ u.pc \notin Unsent \cup {"backend"}
  BY DEF PastAuth, PastBucket, PastHash, Routed, Unsent
<1>2. u.pc \notin PastBucket /\ u.pc \notin PastHash /\ u.pc \notin Routed
  BY <1>1 DEF PastAuth, PastBucket, PastHash
<1>3. t.req \in S3Requests /\ t.op = parse_request(t.req) /\ (t.sent # Nil => SentOK(t, st))
  BY DEF TaskOK
<1>4. u.sent # Nil => SentOK(u, st)
  BY <1>3 DEF SameRequest, SameSent, SentOK, Verified, BodyChecked
<1> QED
  BY <1>1, <1>2, <1>3, <1>4 DEF TaskOK, SameRequest

LEMMA RejectOK ==
  ASSUME NEW t, NEW st, TaskOK(t, st), t.pc \in (Unsent \ {"idle"}) \cup {"backend"},
         NEW c \in Codes, NEW u,
         u = [t EXCEPT !.pc = "respond", !.response = [status |-> c, headers |-> {}]]
  PROVE  u \in Tasks /\ TaskOK(u, st) /\ u.pc = "respond"
<1>1. t \in Tasks /\ t.answer = Nil /\ t.pc # "idle"
  BY DEF TaskOK, Unsent
<1>2. /\ u \in Tasks /\ u.pc = "respond"
      /\ SameRequest(t, u) /\ SameSent(t, u) /\ SameAnswer(t, u)
  BY <1>1, RejectFields
<1> QED
  BY <1>1, <1>2, SettleOK DEF SameAnswer

(* A handler that is still unsent moves to a place whose facts hold.         *)
LEMMA UnsentOK ==
  ASSUME NEW t, NEW st, TaskOK(t, st), t.pc \in Unsent \ {"idle"},
         NEW u \in Tasks, u.pc \in Unsent \ {"idle"},
         SameRequest(t, u), SameAnswer(t, u), u.sent = t.sent,
         u.pc \in PastAuth => Authenticated(u, st),
         u.pc \in PastBucket => u.req.bucket = Frontend,
         u.pc \in PastHash => BodyChecked(u),
         u.pc \in Routed => RouteKept(u)
  PROVE  TaskOK(u, st)
<1>1. t.req \in S3Requests /\ t.op = parse_request(t.req) /\ t.sent = Nil /\ t.answer = Nil
  BY DEF TaskOK
<1>2. u.pc # "backend" /\ u.pc # "idle"
  BY DEF Unsent
<1> QED
  BY <1>1, <1>2 DEF TaskOK, SameRequest, SameAnswer

(* A handler sends its request.                                              *)
LEMMA SendOK ==
  ASSUME NEW t, NEW st, TaskOK(t, st), t.pc \in Routed,
         NEW u \in Tasks, u.pc = "backend", SameRequest(t, u), SameAnswer(t, u),
         u.payload = t.payload, SentOK(u, st)
  PROVE  TaskOK(u, st)
<1>1. /\ t.pc \in PastAuth /\ t.pc \in PastBucket /\ t.pc \in PastHash /\ t.pc \in Unsent
      /\ t.pc # "idle"
  BY DEF PastAuth, PastBucket, PastHash, Routed, Unsent
<1>2. u.pc \notin Routed /\ u.pc \notin Unsent /\ u.pc # "idle"
  BY DEF Routed, Unsent
<1>3. t.req \in S3Requests /\ t.op = parse_request(t.req) /\ t.answer = Nil
        /\ Authenticated(t, st) /\ t.req.bucket = Frontend /\ BodyChecked(t)
  BY <1>1 DEF TaskOK
<1>4. Authenticated(u, st) /\ BodyChecked(u)
  BY <1>3 DEF Authenticated, BodyChecked, SameRequest
<1> QED
  BY <1>2, <1>3, <1>4 DEF TaskOK, SameRequest, SameAnswer

-----------------------------------------------------------------------------
(* Each step of a handler.                                                   *)

Advances(s) ==
    \E u \in Tasks : /\ TaskOK(u, strict) /\ u.pc \notin {"idle", "done", "dropped"}
                     /\ task' = [task EXCEPT ![s] = u]

LEMMA RejectStep ==
  ASSUME RequestInv, NEW s \in Slots, NEW c \in Codes,
         task[s].pc \in (Unsent \ {"idle"}) \cup {"backend"}, Reject(s, c)
  PROVE  Advances(s)
<1> DEFINE u == [task[s] EXCEPT !.pc = "respond", !.response = [status |-> c, headers |-> {}]]
<1>1. task' = [task EXCEPT ![s] = u]
  BY DEF Reject
<1>2. TaskOK(task[s], strict)
  BY DEF RequestInv
<1>3. u \in Tasks /\ TaskOK(u, strict) /\ u.pc = "respond"
  BY <1>2, RejectOK
<1> HIDE DEF u
<1> QED
  BY <1>1, <1>3 DEF Advances

LEMMA GotoStep ==
  ASSUME RequestInv, NEW s \in Slots, NEW p \in Unsent \ {"idle"},
         task[s].pc \in Unsent \ {"idle"}, Goto(s, p),
         p \in PastAuth => Authenticated(task[s], strict),
         p \in PastBucket => task[s].req.bucket = Frontend,
         p \in PastHash => BodyChecked(task[s]),
         p \notin Routed
  PROVE  Advances(s)
<1> DEFINE u == [task[s] EXCEPT !.pc = p]
<1>1. task' = [task EXCEPT ![s] = u]
  BY DEF Goto
<1>2. TaskOK(task[s], strict) /\ task[s] \in Tasks
  BY DEF RequestInv
<1>3. p \in Pcs
  BY DEF Unsent, Pcs
<1>4. /\ u \in Tasks /\ u.pc = p
      /\ SameRequest(task[s], u) /\ SameSent(task[s], u) /\ SameAnswer(task[s], u)
  BY <1>2, <1>3, GotoFields
<1> HIDE DEF u
<1>5. (p \in PastAuth => Authenticated(u, strict)) /\ (p \in PastBucket => u.req.bucket = Frontend)
        /\ (p \in PastHash => BodyChecked(u))
  BY <1>4 DEF Authenticated, BodyChecked, SameRequest, SameSent
<1>6. TaskOK(u, strict)
  BY <1>2, <1>4, <1>5, UnsentOK DEF SameSent
<1>7. u.pc \notin {"idle", "done", "dropped"}
  BY <1>4 DEF Unsent
<1> QED
  BY <1>1, <1>4, <1>6, <1>7 DEF Advances

LEMMA CheckSteps ==
  ASSUME RequestInv, NEW s \in Slots, CheckMethod(s) \/ CheckLength(s) \/ CheckBucket(s)
  PROVE  Advances(s)
<1> DEFINE t == task[s]
<1>1. TaskOK(t, strict)
  BY DEF RequestInv
<1>2. CASE CheckMethod(s)
  <2>1. t.pc = "method" /\ (Goto(s, "length") \/ Reject(s, "NotImplemented"))
    BY <1>2 DEF CheckMethod
  <2>2. /\ t.pc \in Unsent \ {"idle"} /\ "length" \in Unsent \ {"idle"}
        /\ "length" \notin PastAuth \cup PastBucket \cup PastHash \cup Routed
        /\ "NotImplemented" \in Codes
    BY <2>1 DEF Unsent, PastAuth, PastBucket, PastHash, Routed, Codes
  <2> QED
    BY <2>1, <2>2, GotoStep, RejectStep
<1>3. CASE CheckLength(s)
  <2>1. t.pc = "length" /\ (Goto(s, "auth") \/ Reject(s, "InvalidRequest"))
    BY <1>3 DEF CheckLength
  <2>2. /\ t.pc \in Unsent \ {"idle"} /\ "auth" \in Unsent \ {"idle"}
        /\ "auth" \notin PastAuth \cup PastBucket \cup PastHash \cup Routed
        /\ "InvalidRequest" \in Codes
    BY <2>1 DEF Unsent, PastAuth, PastBucket, PastHash, Routed, Codes
  <2> QED
    BY <2>1, <2>2, GotoStep, RejectStep
<1>4. CASE CheckBucket(s)
  <2>1. /\ t.pc = "bucket"
        /\ (t.req.bucket = Frontend /\ Goto(s, "hash")) \/ Reject(s, "NoSuchBucket")
    BY <1>4 DEF CheckBucket
  <2>2. /\ t.pc \in Unsent \ {"idle"} /\ "hash" \in Unsent \ {"idle"}
        /\ t.pc \in PastAuth
        /\ "hash" \notin PastHash \cup Routed
        /\ "NoSuchBucket" \in Codes
    BY <2>1 DEF Unsent, PastAuth, PastHash, Routed, Codes
  <2>3. Authenticated(t, strict)
    BY <1>1, <2>2 DEF TaskOK
  <2> QED
    BY <2>1, <2>2, <2>3, GotoStep, RejectStep
<1> QED
  BY <1>2, <1>3, <1>4

LEMMA HashStep ==
  ASSUME RequestInv, NEW s \in Slots, VerifyBodyHash(s)
  PROVE  Advances(s)
<1> DEFINE t == task[s]
<1>1. TaskOK(t, strict)
  BY DEF RequestInv
<1>2. t.pc = "hash"
  BY DEF VerifyBodyHash
<1>3. \/ Goto(s, "route") /\ BodyChecked(t)
      \/ Reject(s, "EntityTooLarge")
      \/ Reject(s, "SignatureDoesNotMatch")
  BY DEF VerifyBodyHash, BodyChecked
<1>4. /\ t.pc \in Unsent \ {"idle"} /\ "route" \in Unsent \ {"idle"}
      /\ t.pc \in PastAuth /\ t.pc \in PastBucket
      /\ "route" \notin Routed
      /\ "EntityTooLarge" \in Codes /\ "SignatureDoesNotMatch" \in Codes
  BY <1>2 DEF Unsent, PastAuth, PastBucket, Routed, Codes
<1>5. Authenticated(t, strict) /\ t.req.bucket = Frontend
  BY <1>1, <1>4 DEF TaskOK
<1> QED
  BY <1>3, <1>4, <1>5, GotoStep, RejectStep

LEMMA PayloadType ==
  ASSUME NEW r \in S3Requests
  PROVE  PayloadOf(r) \in ShaValues \cup {Nil}
<1>1. CASE r.sha # <<>>
  <2>1. r.sha[1] \in ShaValues
    BY <1>1 DEF S3Requests
  <2> QED
    BY <2>1 DEF PayloadOf, ShaValues
<1>2. CASE r.sha = <<>>
  BY <1>2 DEF PayloadOf, ShaValues
<1> QED
  BY <1>1, <1>2

LEMMA AuthFields ==
  ASSUME NEW t \in Tasks, NEW p \in ShaValues \cup {Nil}, NEW u,
         u = [t EXCEPT !.pc = "bucket", !.payload = p]
  PROVE  /\ u \in Tasks /\ u.pc = "bucket" /\ u.payload = p /\ u.sent = t.sent
         /\ SameRequest(t, u) /\ SameAnswer(t, u)
<1>1. "bucket" \in Pcs
  BY DEF Pcs
<1> QED
  BY <1>1 DEF Tasks, SameRequest, SameAnswer

LEMMA AuthStep ==
  ASSUME RequestInv, NEW s \in Slots, Authenticate(s)
  PROVE  Advances(s)
<1> DEFINE t == task[s]
           p == IF strict THEN PayloadOf(t.req) ELSE Nil
           u == [t EXCEPT !.pc = "bucket", !.payload = p]
<1>1. TaskOK(t, strict) /\ t \in Tasks /\ strict \in BOOLEAN
  BY DEF RequestInv
<1>2. /\ t.pc = "auth"
      /\ \/ Reject(s, "AccessDenied")
         \/ /\ t.req.auth # "bad"
            /\ strict => PayloadOf(t.req) \in Sentinels \cup {"UNSIGNED-PAYLOAD", "hex"}
            /\ task' = [task EXCEPT ![s] = u]
  BY <1>1 DEF Authenticate
<1>3. t.pc \in Unsent \ {"idle"} /\ "AccessDenied" \in Codes
  BY <1>2 DEF Unsent, Codes
<1>4. CASE Reject(s, "AccessDenied")
  BY <1>3, <1>4, RejectStep
<1>5. CASE /\ t.req.auth # "bad"
           /\ strict => PayloadOf(t.req) \in Sentinels \cup {"UNSIGNED-PAYLOAD", "hex"}
           /\ task' = [task EXCEPT ![s] = u]
  <2>1. t.req \in S3Requests
    BY <1>1, <1>2 DEF TaskOK
  <2>2. p \in ShaValues \cup {Nil}
    BY <2>1, PayloadType
  <2> HIDE DEF p
  <2>3. /\ u \in Tasks /\ u.pc = "bucket" /\ u.payload = p /\ u.sent = t.sent
        /\ SameRequest(t, u) /\ SameAnswer(t, u)
    BY <1>1, <2>2, AuthFields
  <2> HIDE DEF u
  <2>4. Authenticated(u, strict)
    BY <1>5, <2>3 DEF Authenticated, SameRequest, p
  <2>5. u.pc \in Unsent \ {"idle"} /\ u.pc \notin PastBucket \cup PastHash \cup Routed
          /\ u.pc \notin {"idle", "done", "dropped"}
    BY <2>3 DEF Unsent, PastBucket, PastHash, Routed
  <2>6. TaskOK(u, strict)
    BY <1>1, <1>3, <2>3, <2>4, <2>5, UnsentOK
  <2> QED
    BY <1>5, <2>3, <2>5, <2>6 DEF Advances
<1> QED
  BY <1>2, <1>4, <1>5

LEMMA RouteFields ==
  ASSUME NEW t \in Tasks, NEW p \in Pcs, NEW route \in Routes, NEW u,
         u = [t EXCEPT !.pc = p, !.route = route]
  PROVE  /\ u \in Tasks /\ u.pc = p /\ u.route = route
         /\ u.payload = t.payload /\ u.sent = t.sent
         /\ SameRequest(t, u) /\ SameAnswer(t, u)
  BY DEF Tasks, SameRequest, SameAnswer

(* The request is given to the handler of a route.                           *)
LEMMA RouteTo ==
  ASSUME RequestInv, NEW s \in Slots, task[s].pc \in {"route", "handler"},
         NEW p \in Routed, NEW route \in Routes,
         task' = [task EXCEPT ![s] = [task[s] EXCEPT !.pc = p, !.route = route]],
         p = "handler" => route = "Typed",
         p = "decode" => route = "DecodeAwsChunked",
         p = "passthrough" => route = "Passthrough",
         p \in {"handler", "decode"} => route = RouteOf(task[s].op, task[s].req),
         task[s].op \in {"PutObject", "UploadPart"} /\ IsSignedStream(task[s].payload)
           => route = "DecodeAwsChunked"
  PROVE  Advances(s)
<1> DEFINE t == task[s]
           u == [t EXCEPT !.pc = p, !.route = route]
<1>1. TaskOK(t, strict) /\ t \in Tasks
  BY DEF RequestInv
<1>2. p \in Pcs
  BY DEF Pcs, Routed
<1>3. /\ u \in Tasks /\ u.pc = p /\ u.route = route
      /\ u.payload = t.payload /\ u.sent = t.sent
      /\ SameRequest(t, u) /\ SameAnswer(t, u)
  BY <1>1, <1>2, RouteFields
<1>4. task' = [task EXCEPT ![s] = u]
  OBVIOUS
<1> HIDE DEF u
<1>5. /\ t.pc \in PastAuth /\ t.pc \in PastBucket /\ t.pc \in PastHash /\ t.pc \in Unsent \ {"idle"}
      /\ u.pc \in Unsent \ {"idle"} /\ u.pc \notin {"idle", "done", "dropped"}
  BY <1>3 DEF PastAuth, PastBucket, PastHash, Routed, Unsent
<1>6. Authenticated(t, strict) /\ t.req.bucket = Frontend /\ BodyChecked(t)
  BY <1>1, <1>5 DEF TaskOK
<1>7. Authenticated(u, strict) /\ u.req.bucket = Frontend /\ BodyChecked(u)
  BY <1>3, <1>6 DEF Authenticated, BodyChecked, SameRequest
<1>8. RouteKept(u)
  BY <1>3 DEF RouteKept, SameRequest
<1>9. TaskOK(u, strict)
  BY <1>1, <1>3, <1>5, <1>7, <1>8, UnsentOK
<1> QED
  BY <1>3, <1>4, <1>5, <1>9 DEF Advances

LEMMA RouteStep ==
  ASSUME RequestInv, NEW s \in Slots, Route(s)
  PROVE  Advances(s)
<1> DEFINE t == task[s]
           route == RouteOf(t.op, t.req)
           p == CASE route = "Passthrough" -> "passthrough"
                  [] route = "DecodeAwsChunked" -> "decode"
                  [] OTHER -> "handler"
<1>1. t.pc = "route"
  BY DEF Route
<1>2. route \in Routes
  BY RouteType
<1>3. \/ Reject(s, "UnsupportedSignature")
      \/ /\ t.op \in {"PutObject", "UploadPart"} /\ IsSignedStream(t.payload)
              => route = "DecodeAwsChunked"
         /\ task' = [task EXCEPT ![s] = [t EXCEPT !.route = route, !.pc = p]]
  BY DEF Route, enforce_signed_streaming_decode_route
<1>4. CASE Reject(s, "UnsupportedSignature")
  <2>1. t.pc \in Unsent \ {"idle"} /\ "UnsupportedSignature" \in Codes
    BY <1>1 DEF Unsent, Codes
  <2> QED
    BY <1>4, <2>1, RejectStep
<1>5. CASE /\ t.op \in {"PutObject", "UploadPart"} /\ IsSignedStream(t.payload)
                => route = "DecodeAwsChunked"
           /\ task' = [task EXCEPT ![s] = [t EXCEPT !.route = route, !.pc = p]]
  <2>1. t \in Tasks
    BY DEF RequestInv
  <2>2. [t EXCEPT !.route = route, !.pc = p] = [t EXCEPT !.pc = p, !.route = route]
    BY <2>1 DEF Tasks
  <2>3. /\ p \in Routed
        /\ p = "handler" => route = "Typed"
        /\ p = "decode" => route = "DecodeAwsChunked"
        /\ p = "passthrough" => route = "Passthrough"
    BY <1>2 DEF Routed, Routes
  <2>4. task' = [task EXCEPT ![s] = [t EXCEPT !.pc = p, !.route = route]]
    BY <1>5, <2>2
  <2> HIDE DEF p
  <2> QED
    BY <1>1, <1>2, <1>5, <2>3, <2>4, RouteTo
<1> QED
  BY <1>3, <1>4, <1>5

-----------------------------------------------------------------------------
LEMMA SendFields ==
  ASSUME NEW t \in Tasks, NEW out \in Outbounds, NEW u,
         u = [t EXCEPT !.pc = "backend", !.sent = out]
  PROVE  /\ u \in Tasks /\ u.pc = "backend" /\ u.sent = out
         /\ u.payload = t.payload /\ u.route = t.route /\ u.policy = t.policy
         /\ SameRequest(t, u) /\ SameAnswer(t, u)
<1>1. "backend" \in Pcs
  BY DEF Pcs
<1> QED
  BY <1>1 DEF Tasks, SameRequest, SameAnswer

(* A request that is not a signed stream, or not a body route, is verified   *)
(* before it is sent.                                                        *)
LEMMA PlainVerified ==
  ASSUME NEW t, NEW st \in BOOLEAN, TaskOK(t, st), t.pc \in {"handler", "passthrough"}
  PROVE  /\ t.req.auth # "bad" /\ BodyChecked(t)
         /\ st /\ t.req.body = "tampered" /\ t.op \in {"PutObject", "UploadPart"}
              => t.payload \in {"UNSIGNED-PAYLOAD", PLAIN_T}
         /\ ~(IsSignedStream(t.payload) /\ t.op \in {"PutObject", "UploadPart"})
<1>1. t.pc \in PastAuth /\ t.pc \in PastHash /\ t.pc \in Routed
  BY DEF PastAuth, PastBucket, PastHash, Routed
<1>2. Authenticated(t, st) /\ BodyChecked(t) /\ RouteKept(t)
  BY <1>1 DEF TaskOK
<1>3. ~(IsSignedStream(t.payload) /\ t.op \in {"PutObject", "UploadPart"})
  BY <1>2 DEF RouteKept
<1> QED
  BY <1>2, <1>3 DEF Authenticated, BodyChecked, IsSignedStream, Sentinels

LEMMA SendStep ==
  ASSUME RequestInv, NEW s \in Slots, task[s].pc \in {"handler", "passthrough"},
         NEW out \in Outbounds, Send(s, out),
         task[s].route = "Passthrough" => CarriedRaw(task[s].op, task[s].req, out),
         task[s].route # "Passthrough" =>
           Carried(task[s].op, task[s].req, out) /\ Returned(task[s].op, task[s].req, out),
         task[s].op = "CompleteMultipartUpload" /\ task[s].req.body = "part_checksums"
           => task[s].route = "Passthrough"
  PROVE  Advances(s)
<1> DEFINE t == task[s]
           u == [t EXCEPT !.pc = "backend", !.sent = out]
<1>1. TaskOK(t, strict) /\ t \in Tasks /\ strict \in BOOLEAN
  BY DEF RequestInv
<1>2. /\ u \in Tasks /\ u.pc = "backend" /\ u.sent = out
      /\ u.payload = t.payload /\ u.route = t.route /\ u.policy = t.policy
      /\ SameRequest(t, u) /\ SameAnswer(t, u)
  BY <1>1, SendFields
<1>3. task' = [task EXCEPT ![s] = u]
  BY DEF Send
<1> HIDE DEF u
<1>4. Verified(u, strict)
  BY <1>1, <1>2, PlainVerified DEF Verified, SameRequest, BodyChecked
<1>5. SentOK(u, strict)
  BY <1>2, <1>4 DEF SentOK, SameRequest
<1>6. t.pc \in Routed
  BY DEF Routed
<1>7. TaskOK(u, strict)
  BY <1>1, <1>2, <1>5, <1>6, SendOK
<1> QED
  BY <1>2, <1>3, <1>7 DEF Advances

LEMMA PassthroughStep ==
  ASSUME RequestInv, NEW s \in Slots, route_to_passthrough(s)
  PROVE  Advances(s)
<1> DEFINE t == task[s]
           out == Outbound(BaseHeaders(t.req), t.req.query, rewrite_bucket_in_path(t.req.bucket))
<1>1. TaskOK(t, strict)
  BY DEF RequestInv
<1>2. t.pc = "passthrough" /\ (Reject(s, "EntityTooLarge") \/ Send(s, out))
  BY DEF route_to_passthrough
<1>3. t.pc \in PastBucket /\ t.pc \in Routed /\ t.pc \in Unsent \ {"idle"} /\ "EntityTooLarge" \in Codes
  BY <1>2 DEF PastBucket, PastHash, Routed, Unsent, Codes
<1>4. t.req \in S3Requests /\ t.op = parse_request(t.req) /\ t.req.bucket = Frontend /\ RouteKept(t)
  BY <1>1, <1>3 DEF TaskOK, Unsent
<1>5. t.route = "Passthrough" /\ t.op \in Operations
  BY <1>2, <1>4, OperationType DEF RouteKept
<1>6. out \in Outbounds /\ CarriedRaw(t.op, t.req, out)
  BY <1>4, <1>5, RawCarried
<1> HIDE DEF out
<1>7. CASE Reject(s, "EntityTooLarge")
  BY <1>3, <1>7, RejectStep
<1>8. CASE Send(s, out)
  BY <1>2, <1>5, <1>6, <1>8, SendStep
<1> QED
  BY <1>2, <1>7, <1>8

(* What a typed handler starts from.                                         *)
LEMMA HandlerFacts ==
  ASSUME RequestInv, NEW s \in Slots, task[s].pc = "handler"
  PROVE  /\ task[s].req \in S3Requests /\ task[s].op = parse_request(task[s].req)
         /\ task[s].route = "Typed" /\ RouteOf(task[s].op, task[s].req) = "Typed"
         /\ task[s].pc \in Unsent \ {"idle"}
<1>1. TaskOK(task[s], strict)
  BY DEF RequestInv
<1>2. task[s].pc \in Routed /\ task[s].pc \in Unsent \ {"idle"} /\ task[s].pc # "idle"
  BY DEF Routed, Unsent
<1>3. RouteKept(task[s]) /\ task[s].req \in S3Requests /\ task[s].op = parse_request(task[s].req)
  BY <1>1, <1>2 DEF TaskOK
<1> QED
  BY <1>2, <1>3 DEF RouteKept

LEMMA ReadStep ==
  ASSUME RequestInv, NEW s \in Slots, handle_read(s)
  PROVE  Advances(s)
<1> DEFINE t == task[s]
           out == Outbound(ReadOptions(t.req), {}, Backend)
<1>1. t.pc = "handler" /\ t.op \in {"GetObject", "HeadObject"} /\ Send(s, out)
  BY DEF handle_read, InHandler, get_object, head_object
<1>2. /\ t.req \in S3Requests /\ t.op = parse_request(t.req)
      /\ t.route = "Typed" /\ RouteOf(t.op, t.req) = "Typed"
  BY <1>1, HandlerFacts
<1>3. out \in Outbounds /\ Carried(t.op, t.req, out) /\ Returned(t.op, t.req, out)
  BY <1>1, <1>2, ReadCarried
<1> HIDE DEF out
<1> QED
  BY <1>1, <1>2, <1>3, SendStep

LEMMA PutStep ==
  ASSUME RequestInv, NEW s \in Slots, handle_put(s)
  PROVE  Advances(s)
<1> DEFINE t == task[s]
           out == put_object(PutObjectInput(t.req))
<1>1. /\ t.pc = "handler" /\ t.op = "PutObject"
      /\ Reject(s, "EntityTooLarge") \/ Send(s, out)
  BY DEF handle_put, InHandler
<1>2. /\ t.req \in S3Requests /\ t.op = parse_request(t.req)
      /\ t.route = "Typed" /\ RouteOf(t.op, t.req) = "Typed" /\ t.pc \in Unsent \ {"idle"}
  BY <1>1, HandlerFacts
<1>3. out = Outbound((header_str(t.req) \cap {"meta", "content", "md5"})
                       \cup (extra_amz_headers(t.req) \ {}) \cup {}, {}, Backend)
  <2>1. PutObjectInput(t.req) = (header_str(t.req) \cap {"meta", "content", "md5"})
                                  \cup (extra_amz_headers(t.req) \ {}) \cup {}
    BY DEF PutObjectInput, user_metadata, content_headers, content_md5
  <2> QED
    BY <2>1 DEF put_object
<1>4. {} \in SUBSET {"trailer-checksum"} /\ {} \in SUBSET {"decoded-length", "sdk-checksum"}
  OBVIOUS
<1> HIDE DEF out
<1>5. out \in Outbounds /\ Carried(t.op, t.req, out) /\ Returned(t.op, t.req, out)
  BY <1>1, <1>2, <1>3, <1>4, PutCarried
<1>6. "EntityTooLarge" \in Codes
  BY DEF Codes
<1> QED
  BY <1>1, <1>2, <1>5, <1>6, SendStep, RejectStep

LEMMA DeleteStep ==
  ASSUME RequestInv, NEW s \in Slots, handle_delete(s)
  PROVE  Advances(s)
<1> DEFINE t == task[s]
<1>1. t.pc = "handler" /\ t.op = "DeleteObject" /\ Send(s, delete_object)
  BY DEF handle_delete, InHandler
<1>2. /\ t.req \in S3Requests /\ t.op = parse_request(t.req)
      /\ t.route = "Typed" /\ RouteOf(t.op, t.req) = "Typed"
  BY <1>1, HandlerFacts
<1>3. delete_object \in Outbounds /\ Carried(t.op, t.req, delete_object)
        /\ Returned(t.op, t.req, delete_object)
  BY <1>1, <1>2, DeleteCarried
<1> QED
  BY <1>1, <1>2, <1>3, SendStep

LEMMA ListStep ==
  ASSUME RequestInv, NEW s \in Slots, handle_list(s)
  PROVE  Advances(s)
<1> DEFINE t == task[s]
           out == list_objects(ListParams(t.req))
<1>1. t.pc = "handler" /\ t.op \in {"ListObjectsV1", "ListObjectsV2"} /\ Send(s, out)
  BY DEF handle_list, InHandler
<1>2. /\ t.req \in S3Requests /\ t.op = parse_request(t.req)
      /\ t.route = "Typed" /\ RouteOf(t.op, t.req) = "Typed"
  BY <1>1, HandlerFacts
<1>3. out \in Outbounds /\ Carried(t.op, t.req, out) /\ Returned(t.op, t.req, out)
  BY <1>1, <1>2, ListCarried
<1> HIDE DEF out
<1> QED
  BY <1>1, <1>2, <1>3, SendStep

LEMMA CreateStep ==
  ASSUME RequestInv, NEW s \in Slots, handle_create_multipart(s)
  PROVE  Advances(s)
<1> DEFINE t == task[s]
           out == create_multipart_upload(CreateMultipartUploadInput(t.req))
<1>1. t.pc = "handler" /\ t.op = "CreateMultipartUpload" /\ Send(s, out)
  BY DEF handle_create_multipart, InHandler
<1>2. /\ t.req \in S3Requests /\ t.op = parse_request(t.req)
      /\ t.route = "Typed" /\ RouteOf(t.op, t.req) = "Typed"
  BY <1>1, HandlerFacts
<1>3. out \in Outbounds /\ Carried(t.op, t.req, out) /\ Returned(t.op, t.req, out)
  BY <1>1, <1>2, CreateCarried
<1> HIDE DEF out
<1> QED
  BY <1>1, <1>2, <1>3, SendStep

LEMMA UploadPartStep ==
  ASSUME RequestInv, NEW s \in Slots, handle_upload_part(s)
  PROVE  Advances(s)
<1> DEFINE t == task[s]
           h == UploadPartInput(t.req)
           out == upload_part(h, PartQuery(t.req))
<1>1. /\ t.pc = "handler" /\ t.op = "UploadPart"
      /\ \/ Reject(s, "InvalidArgument") \/ Reject(s, "EntityTooLarge")
         \/ part_number(t.req) # 0 /\ Send(s, out)
  BY DEF handle_upload_part, InHandler
<1>2. /\ t.req \in S3Requests /\ t.op = parse_request(t.req)
      /\ t.route = "Typed" /\ RouteOf(t.op, t.req) = "Typed" /\ t.pc \in Unsent \ {"idle"}
  BY <1>1, HandlerFacts
<1>3. "EntityTooLarge" \in Codes /\ "InvalidArgument" \in Codes
  BY DEF Codes
<1>4. CASE Reject(s, "InvalidArgument") \/ Reject(s, "EntityTooLarge")
  BY <1>2, <1>3, <1>4, RejectStep
<1>5. CASE part_number(t.req) # 0 /\ Send(s, out)
  <2>1. header_str(t.req) \cap {"modifier", "sse-c", "payer", "checksum", "sdk-checksum"} = {}
    BY <1>1, <1>2, WriteGate
  <2>2. /\ h \in SUBSET (HeaderClasses \cup {"trailer-checksum"}) /\ "sse-c" \notin h
        /\ ((t.req.headers \cap {"md5", "sse-c", "payer", "checksum"}) \ t.req.nominated)
             \ UnkeptHeaders(t.req) \subseteq h
    BY <1>2, <2>1, RequestTypes DEF UploadPartInput, content_md5, header_str, UnkeptHeaders
  <2> HIDE DEF h
  <2>3. out = Outbound(h, PartQuery(t.req), Backend)
    BY DEF upload_part
  <2> HIDE DEF out
  <2>4. out \in Outbounds /\ Carried(t.op, t.req, out) /\ Returned(t.op, t.req, out)
    BY <1>1, <1>2, <1>5, <2>2, <2>3, UploadPartCarried
  <2> QED
    BY <1>1, <1>2, <1>5, <2>4, SendStep
<1> QED
  BY <1>1, <1>4, <1>5

LEMMA EndSteps ==
  ASSUME RequestInv, NEW s \in Slots, handle_complete_multipart(s) \/ handle_abort_multipart(s)
  PROVE  Advances(s)
<1> DEFINE t == task[s]
           out == Outbound({}, {"uploadId"}, Backend)
<1>1. /\ t.pc = "handler"
      /\ \/ /\ t.op = "CompleteMultipartUpload"
            /\ \/ Reject(s, "EntityTooLarge") \/ Reject(s, "MalformedXML")
               \/ task' = [task EXCEPT ![s] = [t EXCEPT !.pc = "passthrough", !.route = "Passthrough"]]
               \/ t.req.body # "part_checksums" /\ Send(s, out)
         \/ t.op = "AbortMultipartUpload" /\ Send(s, out)
  BY DEF handle_complete_multipart, handle_abort_multipart, InHandler, complete_multipart_upload,
         abort_multipart_upload
<1>2. /\ t.req \in S3Requests /\ t.op = parse_request(t.req)
      /\ t.route = "Typed" /\ RouteOf(t.op, t.req) = "Typed" /\ t.pc \in Unsent \ {"idle"}
  BY <1>1, HandlerFacts
<1>3. "EntityTooLarge" \in Codes /\ "MalformedXML" \in Codes
  BY DEF Codes
<1>4. CASE Reject(s, "EntityTooLarge") \/ Reject(s, "MalformedXML")
  BY <1>2, <1>3, <1>4, RejectStep
<1>5. CASE /\ t.op = "CompleteMultipartUpload"
           /\ task' = [task EXCEPT ![s] = [t EXCEPT !.pc = "passthrough", !.route = "Passthrough"]]
  <2>1. "passthrough" \in Routed /\ "Passthrough" \in Routes
    BY DEF Routed, Routes
  <2> QED
    BY <1>1, <1>5, <2>1, RouteTo
<1>6. CASE /\ t.op = "CompleteMultipartUpload" => t.req.body # "part_checksums"
           /\ t.op \in {"CompleteMultipartUpload", "AbortMultipartUpload"} /\ Send(s, out)
  <2>1. out \in Outbounds /\ Carried(t.op, t.req, out) /\ Returned(t.op, t.req, out)
    BY <1>2, <1>6, EndCarried
  <2> HIDE DEF out
  <2> QED
    BY <1>1, <1>2, <1>6, <2>1, SendStep
<1> QED
  BY <1>1, <1>4, <1>5, <1>6

-----------------------------------------------------------------------------
(* The decoding handlers.                                                    *)

LEMMA DecodeFields ==
  ASSUME NEW t \in Tasks, NEW policy \in Policies, NEW out \in Outbounds, NEW u,
         u = [t EXCEPT !.pc = "backend", !.policy = policy, !.sent = out]
  PROVE  /\ u \in Tasks /\ u.pc = "backend" /\ u.sent = out /\ u.policy = policy
         /\ u.payload = t.payload /\ u.route = t.route
         /\ SameRequest(t, u) /\ SameAnswer(t, u)
<1>1. "backend" \in Pcs
  BY DEF Pcs
<1> QED
  BY <1>1 DEF Tasks, SameRequest, SameAnswer

(* The decoder of a stream whose signature was verified has the mode that    *)
(* was signed, and the policy that checks its chunks.                        *)
LEMMA PolicyVerifies ==
  ASSUME RequestInv, NEW s \in Slots, task[s].req \in S3Requests,
         Authenticated(task[s], strict), BodyChecked(task[s]),
         NEW mode, mode = decoder_mode_from_headers(task[s].req), mode # Nil,
         NEW policy, policy = signature_policy_for_decode(s, mode), policy # Nil,
         ~(task[s].req.body = "tampered" /\ policy # "ShapeOnly")
  PROVE  /\ policy \in Policies
         /\ strict /\ task[s].req.body = "tampered" => task[s].payload \in {"UNSIGNED-PAYLOAD", PLAIN_T}
         /\ IsSignedStream(task[s].payload) =>
              policy = IF task[s].payload \in {HMAC, HMAC_T} THEN "VerifyHmac" ELSE "VerifyEcdsa"
<1> DEFINE t == task[s]
           r == t.req
<1>1. strict \in BOOLEAN
  BY DEF RequestInv
<1>2. mode \in Sentinels /\ mode = r.sha[1] /\ r.sha # <<>>
  <2>1. Len(r.sha) = 1
    BY DEF decoder_mode_from_headers
  <2>2. r.sha # <<>>
    <3>1. r.sha \in Seq(ShaValues)
      BY DEF S3Requests
    <3>2. r.sha = <<>> => Len(r.sha) = 0
      BY <3>1
    <3> QED
      BY <2>1, <3>2
  <2>3. mode = r.sha[1] /\ mode \in {HMAC, ECDSA, HMAC_T, ECDSA_T, PLAIN_T}
    BY <2>1 DEF decoder_mode_from_headers
  <2> QED
    BY <2>2, <2>3 DEF Sentinels
<1>3. policy \in Policies
  BY <1>1, <1>2 DEF signature_policy_for_decode, Policies
<1>4. strict /\ r.auth # "presigned" => t.payload = mode
  BY <1>2 DEF Authenticated, PayloadOf
<1>5. strict /\ r.auth = "presigned" => t.payload = "UNSIGNED-PAYLOAD"
  BY DEF Authenticated, PayloadOf
<1>6. ~strict => t.payload = Nil
  BY DEF Authenticated
<1>7. ~IsSignedStream(Nil) /\ ~IsSignedStream("UNSIGNED-PAYLOAD")
  BY InputAssumption DEF IsSignedStream, ShaValues, Sentinels, HMAC, HMAC_T, ECDSA, ECDSA_T
<1>8. policy = "ShapeOnly" /\ strict => mode = PLAIN_T
  BY <1>1, <1>2 DEF signature_policy_for_decode
<1>9. IsSignedStream(t.payload) => strict /\ t.payload = mode /\ mode # PLAIN_T
  BY <1>1, <1>4, <1>5, <1>6, <1>7
     DEF IsSignedStream, HMAC, HMAC_T, ECDSA, ECDSA_T, PLAIN_T
<1>10. IsSignedStream(t.payload) =>
         policy = IF t.payload \in {HMAC, HMAC_T} THEN "VerifyHmac" ELSE "VerifyEcdsa"
  BY <1>2, <1>9 DEF signature_policy_for_decode, IsSignedStream, HMAC, HMAC_T, ECDSA, ECDSA_T
<1>11. strict /\ r.body = "tampered" => t.payload \in {"UNSIGNED-PAYLOAD", PLAIN_T}
  BY <1>4, <1>5, <1>8
<1> QED
  BY <1>3, <1>10, <1>11

LEMMA DecodeStep ==
  ASSUME RequestInv, NEW s \in Slots, task[s].pc = "decode",
         NEW out \in Outbounds, Decode(s, out),
         Carried(task[s].op, task[s].req, out), Returned(task[s].op, task[s].req, out),
         task[s].op # "CompleteMultipartUpload"
  PROVE  Advances(s)
<1> DEFINE t == task[s]
           mode == decoder_mode_from_headers(t.req)
           policy == signature_policy_for_decode(s, mode)
           u == [t EXCEPT !.pc = "backend", !.policy = policy, !.sent = out]
<1>1. TaskOK(t, strict) /\ t \in Tasks
  BY DEF RequestInv
<1>2. /\ t.pc \in PastAuth /\ t.pc \in PastHash /\ t.pc \in Routed /\ t.pc \in Unsent \ {"idle"}
      /\ t.pc # "idle"
      /\ {"InvalidArgument", "EntityTooLarge", "InvalidRequest", "InternalError",
          "SignatureDoesNotMatch"} \subseteq Codes
  BY DEF PastAuth, PastBucket, PastHash, Routed, Unsent, Codes
<1>3. t.req \in S3Requests /\ Authenticated(t, strict) /\ BodyChecked(t) /\ RouteKept(t)
  BY <1>1, <1>2 DEF TaskOK
<1>4. \/ Reject(s, "InvalidArgument") \/ Reject(s, "EntityTooLarge") \/ Reject(s, "InvalidRequest")
      \/ Reject(s, "InternalError") \/ Reject(s, "SignatureDoesNotMatch")
      \/ /\ mode # Nil /\ policy # Nil /\ ~(t.req.body = "tampered" /\ policy # "ShapeOnly")
         /\ task' = [task EXCEPT ![s] = u]
  BY DEF Decode, require_https_for_unsigned_payload
<1>5. CASE \/ Reject(s, "InvalidArgument") \/ Reject(s, "EntityTooLarge")
           \/ Reject(s, "InvalidRequest") \/ Reject(s, "InternalError")
           \/ Reject(s, "SignatureDoesNotMatch")
  BY <1>2, <1>5, RejectStep
<1>6. CASE /\ mode # Nil /\ policy # Nil /\ ~(t.req.body = "tampered" /\ policy # "ShapeOnly")
           /\ task' = [task EXCEPT ![s] = u]
  <2>1. /\ policy \in Policies
        /\ strict /\ t.req.body = "tampered" => t.payload \in {"UNSIGNED-PAYLOAD", PLAIN_T}
        /\ IsSignedStream(t.payload) =>
             policy = IF t.payload \in {HMAC, HMAC_T} THEN "VerifyHmac" ELSE "VerifyEcdsa"
    BY <1>3, <1>6, PolicyVerifies
  <2> HIDE DEF policy, mode
  <2>2. /\ u \in Tasks /\ u.pc = "backend" /\ u.sent = out /\ u.policy = policy
        /\ u.payload = t.payload /\ u.route = t.route
        /\ SameRequest(t, u) /\ SameAnswer(t, u)
    BY <1>1, <2>1, DecodeFields
  <2> HIDE DEF u
  <2>3. t.route = "DecodeAwsChunked" /\ t.req.auth # "bad"
    BY <1>3 DEF RouteKept, Authenticated
  <2>4. Verified(u, strict)
    BY <1>3, <2>1, <2>2, <2>3 DEF Verified, SameRequest, BodyChecked
  <2>5. SentOK(u, strict)
    BY <2>2, <2>3, <2>4 DEF SentOK, SameRequest
  <2>6. TaskOK(u, strict)
    BY <1>1, <1>2, <2>2, <2>5, SendOK
  <2> QED
    BY <1>6, <2>2, <2>6 DEF Advances
<1> QED
  BY <1>4, <1>5, <1>6

LEMMA DecoderFacts ==
  ASSUME RequestInv, NEW s \in Slots, task[s].pc = "decode"
  PROVE  /\ task[s].req \in S3Requests /\ task[s].op = parse_request(task[s].req)
         /\ RouteOf(task[s].op, task[s].req) = "DecodeAwsChunked"
         /\ task[s].pc \in Unsent \ {"idle"}
<1>1. TaskOK(task[s], strict)
  BY DEF RequestInv
<1>2. task[s].pc \in Routed /\ task[s].pc \in Unsent \ {"idle"} /\ task[s].pc # "idle"
  BY DEF Routed, Unsent
<1>3. RouteKept(task[s]) /\ task[s].req \in S3Requests /\ task[s].op = parse_request(task[s].req)
  BY <1>1, <1>2 DEF TaskOK
<1> QED
  BY <1>2, <1>3 DEF RouteKept

LEMMA PutDecodeStep ==
  ASSUME RequestInv, NEW s \in Slots, handle_put_decode_aws_chunked(s)
  PROVE  Advances(s)
<1> DEFINE t == task[s]
           c == TrailerChecksum(t.req)
           out == put_object_from_path(PutObjectSpoolInput(t.req), t.req)
<1>1. t.pc = "decode" /\ t.op = "PutObject" /\ Decode(s, out)
  BY DEF handle_put_decode_aws_chunked
<1>2. /\ t.req \in S3Requests /\ t.op = parse_request(t.req)
      /\ RouteOf(t.op, t.req) = "DecodeAwsChunked"
  BY <1>1, DecoderFacts
<1>3. c \in SUBSET {"trailer-checksum"}
  BY DEF TrailerChecksum
<1>4. out = Outbound((header_str(t.req) \cap {"meta", "content", "md5"})
               \cup (extra_amz_headers(t.req) \ {"decoded-length", "sdk-checksum"}) \cup c, {}, Backend)
  <2>1. PutObjectSpoolInput(t.req) = (header_str(t.req) \cap {"meta", "content", "md5"})
               \cup (extra_amz_headers(t.req) \ {"decoded-length", "sdk-checksum"})
    BY DEF PutObjectSpoolInput, extra_amz_headers_for_decoded, is_streaming_only_amz_header,
           user_metadata, content_headers, content_md5
  <2> QED
    BY <2>1 DEF put_object_from_path
<1> HIDE DEF out, c
<1>5. out \in Outbounds /\ Carried(t.op, t.req, out) /\ Returned(t.op, t.req, out)
  BY <1>1, <1>2, <1>3, <1>4, PutCarried
<1> QED
  BY <1>1, <1>5, DecodeStep

LEMMA UploadPartDecodeStep ==
  ASSUME RequestInv, NEW s \in Slots, handle_upload_part_decode_aws_chunked(s)
  PROVE  Advances(s)
<1> DEFINE t == task[s]
           h == UploadPartSpoolInput(t.req) \cup TrailerChecksum(t.req)
           out == upload_part_from_path(UploadPartSpoolInput(t.req), t.req)
<1>1. /\ t.pc = "decode" /\ t.op = "UploadPart"
      /\ Reject(s, "InvalidArgument") \/ (part_number(t.req) # 0 /\ Decode(s, out))
  BY DEF handle_upload_part_decode_aws_chunked
<1>2. /\ t.req \in S3Requests /\ t.op = parse_request(t.req)
      /\ RouteOf(t.op, t.req) = "DecodeAwsChunked" /\ t.pc \in Unsent \ {"idle"}
  BY <1>1, DecoderFacts
<1>3. "InvalidArgument" \in Codes
  BY DEF Codes
<1>4. CASE Reject(s, "InvalidArgument")
  BY <1>2, <1>3, <1>4, RejectStep
<1>5. CASE part_number(t.req) # 0 /\ Decode(s, out)
  <2>1. header_str(t.req) \cap {"modifier", "sse-c", "payer"} = {}
    BY <1>1, <1>2, WriteGate
  <2>2. /\ h \in SUBSET (HeaderClasses \cup {"trailer-checksum"}) /\ "sse-c" \notin h
        /\ ((t.req.headers \cap {"md5", "sse-c", "payer", "checksum"}) \ t.req.nominated)
             \ UnkeptHeaders(t.req) \subseteq h
    BY <1>2, <2>1, RequestTypes
       DEF UploadPartSpoolInput, TrailerChecksum, extra_amz_headers_for_decoded,
           extra_amz_headers, is_streaming_only_amz_header, content_md5, header_str, UnkeptHeaders
  <2>3. out = Outbound(h, PartQuery(t.req), Backend)
    BY DEF upload_part_from_path
  <2> HIDE DEF out, h
  <2>4. out \in Outbounds /\ Carried(t.op, t.req, out) /\ Returned(t.op, t.req, out)
    BY <1>1, <1>2, <1>5, <2>2, <2>3, UploadPartCarried
  <2> QED
    BY <1>1, <1>5, <2>4, DecodeStep
<1> QED
  BY <1>1, <1>4, <1>5

-----------------------------------------------------------------------------
(* Answers, metrics and arrivals.                                            *)

LEMMA ResponseType ==
  ASSUME NEW op
  PROVE  S3Response(op) \subseteq AnswerNames
  BY DEF S3Response, AnswerNames

LEMMA BackendOkStep ==
  ASSUME RequestInv, NEW s \in Slots, BackendOk(s)
  PROVE  Advances(s)
<1> DEFINE t == task[s]
           a == ResponseHeaders(t.op, t.sent) \cap S3Response(t.op)
           h == IF t.route = "Passthrough" THEN a ELSE a \cap CopiedHeaders(t.op, t.req)
           u == [t EXCEPT !.pc = "respond", !.answer = a,
                          !.response = [status |-> "OK", headers |-> h]]
<1>1. TaskOK(t, strict) /\ t \in Tasks
  BY DEF RequestInv
<1>2. t.pc = "backend" /\ task' = [task EXCEPT ![s] = u]
  BY DEF BackendOk
<1>3. SentOK(t, strict)
  BY <1>1, <1>2 DEF TaskOK
<1>4. t.route # "Passthrough" =>
        a \ (IF t.op = "CreateMultipartUpload" THEN {"abort"} ELSE {}) \subseteq CopiedHeaders(t.op, t.req)
  BY <1>3 DEF SentOK, Returned
<1>6. a \in SUBSET AnswerNames
  BY ResponseType
<1> HIDE DEF a
<1>7. /\ h \in SUBSET AnswerNames
      /\ a \ (IF t.op = "CreateMultipartUpload" /\ t.route # "Passthrough" THEN {"abort"} ELSE {})
           \subseteq h
  BY <1>4, <1>6
<1> HIDE DEF h
<1>u. u = [t EXCEPT !.pc = "respond", !.answer = a,
                    !.response = [status |-> "OK", headers |-> h]]
  OBVIOUS
<1> HIDE DEF u
<1>8. /\ u \in Tasks /\ u.pc = "respond" /\ u.answer = a /\ u.response.headers = h
      /\ SameRequest(t, u) /\ SameSent(t, u)
  <2> DEFINE w == [status |-> "OK", headers |-> h]
  <2>2. w \in Answers /\ w.headers = h
    BY <1>7 DEF Answers, Codes
  <2>3. "respond" \in Pcs
    BY DEF Pcs
  <2>4. u = [t EXCEPT !.pc = "respond", !.answer = a, !.response = w]
    BY <1>u
  <2> HIDE DEF w
  <2>5. u \in Tasks
    BY <1>1, <1>6, <2>2, <2>3, <2>4 DEF Tasks
  <2>6. /\ u.pc = "respond" /\ u.answer = a /\ u.response = w
        /\ SameRequest(t, u) /\ SameSent(t, u)
    BY <1>1, <2>4 DEF Tasks, SameRequest, SameSent
  <2> QED
    BY <2>2, <2>5, <2>6
<1>9. AnswerOK(u)
  BY <1>7, <1>8 DEF AnswerOK, SameRequest, SameSent
<1>10. TaskOK(u, strict)
  BY <1>1, <1>2, <1>8, <1>9, SettleOK
<1> QED
  BY <1>2, <1>8, <1>10 DEF Advances

LEMMA BackendErrorStep ==
  ASSUME RequestInv, NEW s \in Slots, BackendError(s)
  PROVE  Advances(s)
<1>1. task[s].pc = "backend" /\ Reject(s, "BackendError") /\ "BackendError" \in Codes
  BY DEF BackendError, Codes
<1> QED
  BY <1>1, RejectStep

(* A handler returns or is dropped.                                          *)
LEMMA LeaveOK ==
  ASSUME RequestInv, NEW s \in Slots, task[s].pc # "idle", NEW p \in {"done", "dropped"},
         task' = [task EXCEPT ![s].pc = p]
  PROVE  \E u \in Tasks : /\ TaskOK(u, strict) /\ u.pc = p
                          /\ task' = [task EXCEPT ![s] = u]
<1> DEFINE t == task[s]
           u == [t EXCEPT !.pc = p]
<1>1. TaskOK(t, strict) /\ t \in Tasks
  BY DEF RequestInv
<1>2. p \in Pcs
  BY DEF Pcs
<1>3. /\ u \in Tasks /\ u.pc = p
      /\ SameRequest(t, u) /\ SameSent(t, u) /\ SameAnswer(t, u) /\ u.response = t.response
  BY <1>1, <1>2, GotoFields
<1>4. task' = [task EXCEPT ![s] = u]
  OBVIOUS
<1> HIDE DEF u
<1>5. u.answer # Nil => AnswerOK(u)
  BY <1>1, <1>3 DEF TaskOK, AnswerOK, SameRequest, SameSent, SameAnswer
<1>6. TaskOK(u, strict)
  BY <1>1, <1>3, <1>5, SettleOK
<1> QED
  BY <1>3, <1>4, <1>6

LEMMA IdleOK ==
  ASSUME NEW st
  PROVE  Idle \in Tasks /\ TaskOK(Idle, st) /\ Idle.pc = "idle"
<1>1. Idle \in Tasks
  <2>1. "idle" \in Pcs
    BY DEF Pcs
  <2>2. ASSUME NEW p \in Pcs
        PROVE  [pc |-> p, req |-> Nil, op |-> Nil, payload |-> Nil,
                route |-> Nil, policy |-> Nil, sent |-> Nil, answer |-> Nil,
                response |-> Nil] \in Tasks
    BY DEF Tasks
  <2> QED
    BY <2>1, <2>2, ZenonT(30) DEF Idle
<1>2. Idle.pc = "idle" /\ Idle.sent = Nil /\ Idle.answer = Nil
  BY DEF Idle
<1>3. "idle" \notin PastAuth \cup PastBucket \cup PastHash \cup Routed
  BY DEF PastAuth, PastBucket, PastHash, Routed
<1> QED
  BY <1>1, <1>2, <1>3 DEF TaskOK

LEMMA ReceiveStep ==
  ASSUME RequestInv, NEW s \in Slots, NEW r \in Inputs, Receive(s, r)
  PROVE  Advances(s)
<1> DEFINE op == parse_request(r)
           u == [Idle EXCEPT !.pc = "method", !.req = r, !.op = op]
<1>1. r \in S3Requests /\ op \in Operations
  BY InputAssumption, OperationType
<1>2. Idle \in Tasks /\ Idle.sent = Nil /\ Idle.answer = Nil
  BY IdleOK DEF Idle
<1>3. task' = [task EXCEPT ![s] = u]
  BY DEF Receive
<1> HIDE DEF op
<1>4. /\ u \in Tasks /\ u.pc = "method" /\ u.req = r /\ u.op = op /\ u.sent = Nil /\ u.answer = Nil
  <2>1. "method" \in Pcs /\ r \in S3Requests \cup {Nil} /\ op \in Operations \cup {Nil}
    BY <1>1 DEF Pcs
  <2>2. u = [Idle EXCEPT !.pc = "method", !.req = r, !.op = op]
    OBVIOUS
  <2> HIDE DEF u
  <2>3. /\ u \in Tasks /\ u.pc = "method" /\ u.req = r /\ u.op = op
        /\ u.sent = Idle.sent /\ u.answer = Idle.answer
    BY <1>2, <2>1, <2>2 DEF Tasks
  <2> QED
    BY <1>2, <2>3
<1> HIDE DEF u
<1>5. u.pc \notin PastAuth \cup PastBucket \cup PastHash \cup Routed
  BY <1>4 DEF PastAuth, PastBucket, PastHash, Routed
<1>6. TaskOK(u, strict)
  BY <1>1, <1>4, <1>5 DEF TaskOK, op
<1> QED
  BY <1>3, <1>4, <1>6 DEF Advances

-----------------------------------------------------------------------------
(* The handlers together.                                                    *)

Active == Pcs \ {"idle", "done", "dropped"}

LEMMA ExecutingFinite == IsFiniteSet(Executing) /\ Cardinality(Executing) \in Nat
<1>1. IsFiniteSet(Executing)
  BY InputAssumption, FS_Subset DEF Executing
<1> QED
  BY <1>1, FS_CardinalityType

LEMMA OthersOK ==
  ASSUME RequestInv, NEW s \in Slots, NEW u \in Tasks, TaskOK(u, strict),
         task' = [task EXCEPT ![s] = u], strict' = strict
  PROVE  /\ strict' \in BOOLEAN /\ task' \in [Slots -> Tasks]
         /\ \A x \in Slots : TaskOK(task'[x], strict')
         /\ task'[s] = u /\ \A x \in Slots \ {s} : task'[x] = task[x]
<1>1. /\ strict' \in BOOLEAN /\ task' \in [Slots -> Tasks]
      /\ task'[s] = u /\ \A x \in Slots \ {s} : task'[x] = task[x]
  BY DEF RequestInv
<1>2. \A x \in Slots : TaskOK(task[x], strict)
  BY DEF RequestInv
<1>3. ASSUME NEW x \in Slots PROVE TaskOK(task'[x], strict')
  <2>1. CASE x = s
    BY <1>1, <2>1
  <2>2. CASE x # s
    BY <1>1, <1>2, <2>2
  <2> QED
    BY <2>1, <2>2
<1> QED
  BY <1>1, <1>3

LEMMA GaugeStays ==
  ASSUME NEW s \in Slots, task[s].pc \in Active, task'[s].pc \in Active,
         \A x \in Slots \ {s} : task'[x] = task[x]
  PROVE  Executing' = Executing
  BY DEF Executing, Active

LEMMA GaugeJoins ==
  ASSUME NEW s \in Slots, task[s].pc = "idle", task'[s].pc \in Active,
         \A x \in Slots \ {s} : task'[x] = task[x]
  PROVE  Cardinality(Executing') = Cardinality(Executing) + 1
<1>1. Executing' = Executing \cup {s} /\ s \notin Executing
  BY DEF Executing, Active
<1> QED
  BY <1>1, ExecutingFinite, FS_AddElement

LEMMA GaugeLeaves ==
  ASSUME NEW s \in Slots, task[s].pc \in Active, task'[s].pc \in {"done", "dropped"},
         \A x \in Slots \ {s} : task'[x] = task[x]
  PROVE  /\ Cardinality(Executing') = Cardinality(Executing) - 1
         /\ Cardinality(Executing') \in Nat
<1>1. Executing' = Executing \ {s} /\ s \in Executing
  BY DEF Executing, Active
<1>2. Cardinality(Executing') = Cardinality(Executing) - 1 /\ IsFiniteSet(Executing')
  BY <1>1, ExecutingFinite, FS_RemoveElement
<1> QED
  BY <1>2, FS_CardinalityType

(* Every step but the last starts and ends in a handler that executes, and   *)
(* leaves the metrics alone.                                                 *)
LEMMA WorkSteps ==
  ASSUME RequestInv, NEW s \in Slots, Step(s), ~record_metrics(s)
  PROVE  Advances(s) /\ task[s].pc \in Active /\ UNCHANGED <<strict, in_flight, total>>
<1>1. CASE CheckMethod(s) \/ CheckLength(s) \/ CheckBucket(s)
  BY <1>1, CheckSteps DEF CheckMethod, CheckLength, CheckBucket, Active, Pcs
<1>2. CASE Authenticate(s)
  BY <1>2, AuthStep DEF Authenticate, Active, Pcs
<1>3. CASE VerifyBodyHash(s)
  BY <1>3, HashStep DEF VerifyBodyHash, Active, Pcs
<1>4. CASE Route(s)
  BY <1>4, RouteStep DEF Route, Active, Pcs
<1>5. CASE route_to_passthrough(s)
  BY <1>5, PassthroughStep DEF route_to_passthrough, Active, Pcs
<1>6. CASE handle_read(s)
  BY <1>6, ReadStep DEF handle_read, InHandler, Active, Pcs
<1>7. CASE handle_put(s)
  BY <1>7, PutStep DEF handle_put, InHandler, Active, Pcs
<1>8. CASE handle_delete(s)
  BY <1>8, DeleteStep DEF handle_delete, InHandler, Active, Pcs
<1>9. CASE handle_list(s)
  BY <1>9, ListStep DEF handle_list, InHandler, Active, Pcs
<1>10. CASE handle_create_multipart(s)
  BY <1>10, CreateStep DEF handle_create_multipart, InHandler, Active, Pcs
<1>11. CASE handle_upload_part(s)
  BY <1>11, UploadPartStep DEF handle_upload_part, InHandler, Active, Pcs
<1>12. CASE handle_complete_multipart(s) \/ handle_abort_multipart(s)
  BY <1>12, EndSteps DEF handle_complete_multipart, handle_abort_multipart, InHandler, Active, Pcs
<1>13. CASE handle_put_decode_aws_chunked(s)
  BY <1>13, PutDecodeStep DEF handle_put_decode_aws_chunked, Active, Pcs
<1>14. CASE handle_upload_part_decode_aws_chunked(s)
  BY <1>14, UploadPartDecodeStep DEF handle_upload_part_decode_aws_chunked, Active, Pcs
<1>15. CASE BackendOk(s)
  BY <1>15, BackendOkStep DEF BackendOk, Active, Pcs
<1>16. CASE BackendError(s)
  BY <1>16, BackendErrorStep DEF BackendError, Active, Pcs
<1> QED
  BY <1>1, <1>2, <1>3, <1>4, <1>5, <1>6, <1>7, <1>8, <1>9, <1>10, <1>11, <1>12, <1>13,
     <1>14, <1>15, <1>16 DEF Step

(* What a step of any kind leaves; the gauge moves with the handlers.        *)
TasksOK ==
    /\ strict \in BOOLEAN
    /\ task \in [Slots -> Tasks]
    /\ \A s \in Slots : TaskOK(task[s], strict)

LEMMA NextOK ==
  ASSUME RequestInv, Next
  PROVE  /\ TasksOK' /\ in_flight' \in Nat /\ total' \in Nat
         /\ in_flight' - Cardinality(Executing') = in_flight - Cardinality(Executing)
<1> DEFINE n == Cardinality(Executing)
           m == Cardinality(Executing')
<1>1. in_flight \in Nat /\ in_flight >= n /\ total \in Nat /\ n \in Nat
  BY ExecutingFinite DEF RequestInv, GaugeCovers
<1> HIDE DEF n, m
<1>2. ASSUME NEW s \in Slots, NEW r \in Inputs, Receive(s, r)
      PROVE  TasksOK' /\ in_flight' \in Nat /\ total' \in Nat /\ in_flight' - m = in_flight - n
  <2>1. task[s].pc = "idle" /\ in_flight' = in_flight + 1 /\ strict' = strict /\ total' = total
    BY <1>2 DEF Receive
  <2>2. PICK u \in Tasks : /\ TaskOK(u, strict) /\ u.pc \notin {"idle", "done", "dropped"}
                           /\ task' = [task EXCEPT ![s] = u]
    BY <1>2, ReceiveStep DEF Advances
  <2>3. /\ TasksOK' /\ task'[s] = u /\ \A x \in Slots \ {s} : task'[x] = task[x]
    BY <2>1, <2>2, OthersOK DEF TasksOK
  <2>4. task'[s].pc \in Active
    BY <2>2, <2>3 DEF Active, Tasks
  <2>5. m = n + 1
    BY <2>1, <2>3, <2>4, GaugeJoins DEF n, m
  <2> QED
    BY <1>1, <2>1, <2>3, <2>5
<1>3. ASSUME NEW s \in Slots, Step(s), ~record_metrics(s)
      PROVE  TasksOK' /\ in_flight' \in Nat /\ total' \in Nat /\ in_flight' - m = in_flight - n
  <2>1. task[s].pc \in Active /\ in_flight' = in_flight /\ strict' = strict /\ total' = total
    BY <1>3, WorkSteps
  <2>2. PICK u \in Tasks : /\ TaskOK(u, strict) /\ u.pc \notin {"idle", "done", "dropped"}
                           /\ task' = [task EXCEPT ![s] = u]
    BY <1>3, WorkSteps DEF Advances
  <2>3. /\ TasksOK' /\ task'[s] = u /\ \A x \in Slots \ {s} : task'[x] = task[x]
    BY <2>1, <2>2, OthersOK DEF TasksOK
  <2>4. task'[s].pc \in Active
    BY <2>2, <2>3 DEF Active, Tasks
  <2>5. m = n
    BY <2>1, <2>3, <2>4, GaugeStays DEF n, m
  <2> QED
    BY <1>1, <2>1, <2>3, <2>5
<1>4. ASSUME NEW s \in Slots, record_metrics(s)
      PROVE  TasksOK' /\ in_flight' \in Nat /\ total' \in Nat /\ in_flight' - m = in_flight - n
  <2>1. /\ task[s].pc = "respond" /\ in_flight' = in_flight - 1 /\ strict' = strict
        /\ total' = total + 1 /\ task' = [task EXCEPT ![s].pc = "done"]
    BY <1>4 DEF record_metrics
  <2>2. PICK u \in Tasks : /\ TaskOK(u, strict) /\ u.pc = "done"
                           /\ task' = [task EXCEPT ![s] = u]
    BY <2>1, LeaveOK
  <2>3. /\ TasksOK' /\ task'[s] = u /\ \A x \in Slots \ {s} : task'[x] = task[x]
    BY <2>1, <2>2, OthersOK DEF TasksOK
  <2>4. task[s].pc \in Active
    BY <2>1 DEF Active, Pcs
  <2>5. m = n - 1 /\ m \in Nat
    BY <2>2, <2>3, <2>4, GaugeLeaves DEF n, m
  <2> QED
    BY <1>1, <2>1, <2>3, <2>5
<1> QED
  BY <1>2, <1>3, <1>4 DEF Next, n, m

LEMMA DisconnectOK ==
  ASSUME RequestInv, NEW s \in Slots, Disconnect(s)
  PROVE  RequestInv'
<1>1. task[s].pc \in Active /\ task[s].pc # "idle"
  BY DEF Disconnect, Active, Pcs
<1>2. /\ in_flight' = in_flight /\ strict' = strict /\ total' = total
      /\ task' = [task EXCEPT ![s].pc = "dropped"]
  BY DEF Disconnect, Goto
<1>3. PICK u \in Tasks : TaskOK(u, strict) /\ u.pc = "dropped" /\ task' = [task EXCEPT ![s] = u]
  BY <1>1, <1>2, LeaveOK
<1>4. /\ TasksOK' /\ task'[s] = u /\ \A x \in Slots \ {s} : task'[x] = task[x]
  BY <1>2, <1>3, OthersOK DEF TasksOK
<1>5. Cardinality(Executing') = Cardinality(Executing) - 1 /\ Cardinality(Executing') \in Nat
  BY <1>1, <1>3, <1>4, GaugeLeaves
<1>6. in_flight \in Nat /\ in_flight >= Cardinality(Executing) /\ total \in Nat
        /\ Cardinality(Executing) \in Nat
  BY ExecutingFinite DEF RequestInv, GaugeCovers
<1>7. in_flight' \in Nat /\ in_flight' >= Cardinality(Executing')
  BY <1>2, <1>5, <1>6
<1> QED
  BY <1>2, <1>4, <1>6, <1>7 DEF RequestInv, TasksOK, GaugeCovers

LEMMA StutterOK == RequestInv /\ UNCHANGED vars => RequestInv'
  BY DEF RequestInv, GaugeCovers, Executing, vars

LEMMA RequestInit == Init => RequestInv
<1> SUFFICES ASSUME Init PROVE RequestInv
  OBVIOUS
<1>1. strict \in BOOLEAN /\ task = [s \in Slots |-> Idle] /\ in_flight = 0 /\ total = 0
  BY DEF Init
<1>2. Idle \in Tasks /\ TaskOK(Idle, strict) /\ Idle.pc = "idle"
  BY IdleOK
<1>3. Executing = {}
  BY <1>1, <1>2 DEF Executing
<1>4. Cardinality(Executing) = 0
  BY <1>3, FS_EmptySet
<1>5. GaugeCovers
  BY <1>1, <1>4 DEF GaugeCovers
<1>6. task \in [Slots -> Tasks] /\ \A s \in Slots : TaskOK(task[s], strict)
  BY <1>1, <1>2
<1> QED
  BY <1>1, <1>5, <1>6 DEF RequestInv

LEMMA RequestStep == RequestInv /\ [NextWithDisconnects]_vars => RequestInv'
<1>1. ASSUME RequestInv, Next PROVE RequestInv'
  <2>1. /\ TasksOK' /\ in_flight' \in Nat /\ total' \in Nat
        /\ in_flight' - Cardinality(Executing') = in_flight - Cardinality(Executing)
    BY <1>1, NextOK
  <2>2. in_flight \in Nat /\ in_flight >= Cardinality(Executing) /\ Cardinality(Executing) \in Nat
    BY <1>1, ExecutingFinite DEF RequestInv, GaugeCovers
  <2>3. IsFiniteSet(Executing')
    BY InputAssumption, FS_Subset DEF Executing
  <2>4. Cardinality(Executing') \in Nat
    BY <2>3, FS_CardinalityType
  <2>5. in_flight' >= Cardinality(Executing')
    BY <2>1, <2>2, <2>4
  <2> QED
    BY <2>1, <2>5 DEF RequestInv, TasksOK, GaugeCovers
<1> QED
  BY <1>1, DisconnectOK, StutterOK DEF NextWithDisconnects

(* Every handler that handle_s3_request runs, for any request and with any   *)
(* number of others, is at each point in a state its checks allow.           *)
THEOREM HandlersInOrder == DisconnectSpec => []RequestInv
<1>1. Init => RequestInv
  BY RequestInit
<1> QED
  BY <1>1, RequestStep, PTL DEF DisconnectSpec

LEMMA InvLost == RequestInv => NothingLost
<1> SUFFICES ASSUME RequestInv PROVE NothingLost
  OBVIOUS
<1>1. ASSUME NEW s \in Slots, task[s].sent # Nil
      PROVE  /\ task[s].route = "Passthrough" =>
                  CarriedRaw(task[s].op, task[s].req, task[s].sent)
             /\ task[s].route # "Passthrough" =>
                  Carried(task[s].op, task[s].req, task[s].sent)
             /\ task[s].op = "CompleteMultipartUpload" /\ task[s].req.body = "part_checksums"
                  => task[s].route = "Passthrough"
  <2>1. SentOK(task[s], strict)
    BY <1>1 DEF RequestInv, TaskOK
  <2> QED
    BY <2>1 DEF SentOK
<1>2. NothingDropped
  BY <1>1 DEF NothingDropped, Carried, CarriedRaw
<1>3. PartChecksumsKept
  BY <1>1 DEF PartChecksumsKept
<1>4. AnswerKept
  BY DEF AnswerKept, RequestInv, TaskOK, AnswerOK
<1> QED
  BY <1>2, <1>3, <1>4 DEF NothingLost

(* Whatever the client sends, and whenever it goes away: what the gates send *)
(* to passthrough reaches the backend whole; a typed or decoded call loses   *)
(* only what the parser cannot keep (values that are no text, all but the    *)
(* last of repeated values, the subresources it does not list), and the      *)
(* answer only the lifecycle headers of a new multipart upload.              *)
THEOREM NothingIsLost == DisconnectSpec => []NothingLost
  BY HandlersInOrder, InvLost, PTL

LEMMA InvVerified == RequestInv => OnlyVerified
<1> SUFFICES ASSUME RequestInv PROVE OnlyVerified
  OBVIOUS
<1>1. ASSUME NEW s \in Slots
      PROVE  /\ task[s] \in Tasks
             /\ task[s].sent # Nil => SentOK(task[s], strict)
             /\ task[s].answer # Nil => AnswerOK(task[s])
  BY DEF RequestInv, TaskOK
<1>2. TypeOK
  <2>1. ASSUME NEW s \in Slots
        PROVE  /\ task[s].req # Nil => task[s].req.headers \subseteq HeaderClasses
               /\ task[s].route \in Routes \cup {Nil}
    <3>1. task[s].req \in S3Requests \cup {Nil} /\ task[s].route \in Routes \cup {Nil}
      BY <1>1 DEF Tasks
    <3> QED
      BY <3>1, RequestTypes
  <2> QED
    BY <2>1 DEF TypeOK, RequestInv, GaugeCovers
<1>3. OnlyChecked
  <2>1. ASSUME NEW s \in Slots, task[s].sent # Nil
        PROVE  /\ task[s].sent.bucket = Backend
               /\ Verified(task[s], strict)
    BY <1>1, <2>1 DEF SentOK, Outbounds
  <2> QED
    BY <2>1 DEF OnlyChecked, Verified, BodyChecked
<1>4. SignedStreamVerified
  BY <1>1 DEF SignedStreamVerified, SentOK, Verified
<1> QED
  BY <1>2, <1>3, <1>4 DEF OnlyVerified

(* The backend gets only what passed the checks, whatever the client sends:  *)
(* on no operation a body without the digest that was signed, and in strict  *)
(* mode a tampered upload only if nobody signed its body, the signed stream  *)
(* of an upload only decoded under the policy that verifies it.              *)
THEOREM OnlyVerifiedIsSent == DisconnectSpec => []OnlyVerified
  BY HandlersInOrder, InvVerified, PTL

-----------------------------------------------------------------------------
(* The credentials file.                                                     *)

CredentialFiles ==
    [version : 0..2, credentials : UNION {[1..n -> Entries] : n \in 0..MaxEntries}]

(* What was looked up last was looked up in a file that loaded, at this time. *)
StoreInv ==
    /\ file \in CredentialFiles /\ clock \in Int
    /\ state = "up" => load_from_file(file)
    /\ \/ last = NoLookup
       \/ /\ state = "up"
          /\ last.result = resolve(file.credentials, last.akid, last.token, clock)

Hits(creds, akid, token) ==
    {i \in DOMAIN creds : creds[i].akid = akid /\ creds[i].token = token}

LEMMA FileFacts ==
  ASSUME NEW f \in CredentialFiles
  PROVE  \E n \in Nat : f.credentials \in [1..n -> Entries]
<1>1. f.credentials \in UNION {[1..n -> Entries] : n \in 0..MaxEntries}
  BY DEF CredentialFiles
<1> QED
  BY <1>1, StoreAssumption

(* A file that loaded has at most one entry in each namespace.               *)
LEMMA OneHit ==
  ASSUME NEW f \in CredentialFiles, load_from_file(f),
         NEW i \in DOMAIN f.credentials, NEW j \in DOMAIN f.credentials,
         f.credentials[i].akid = f.credentials[j].akid,
         f.credentials[i].token = f.credentials[j].token
  PROVE  i = j
<1>1. PICK n \in Nat : f.credentials \in [1..n -> Entries]
  BY FileFacts
<1>2. i \in 1..n /\ j \in 1..n
  BY <1>1
<1>3. ASSUME NEW a \in 1..n, NEW b \in 1..n, a < b,
             f.credentials[a].akid = f.credentials[b].akid,
             f.credentials[a].token = f.credentials[b].token
      PROVE  FALSE
  <2>1. ~LoadError(f, b) /\ a \in 1..(b - 1)
    BY <1>1, <1>3 DEF load_from_file
  <2> QED
    BY <1>3, <2>1 DEF LoadError
<1> QED
  BY <1>2, <1>3

LEMMA FirstOfOne ==
  ASSUME NEW k \in Int
  PROVE  First({k}) = k
  BY DEF First

(* The answer that belongs to an entry.                                      *)
Answer(e, now) == IF e.expires # None /\ now >= e.expires THEN Expired ELSE Found(e)

LEMMA ResolveNone ==
  ASSUME NEW creds, NEW akid, NEW token, NEW now, Hits(creds, akid, token) = {}
  PROVE  resolve(creds, akid, token, now) = NotFound
  BY DEF resolve, Hits

LEMMA ResolveOne ==
  ASSUME NEW creds, NEW akid, NEW token, NEW now, NEW k \in Int, Hits(creds, akid, token) = {k}
  PROVE  resolve(creds, akid, token, now) = Answer(creds[k], now)
<1>1. First(Hits(creds, akid, token)) = k
  BY FirstOfOne
<1>2. Hits(creds, akid, token) # {}
  OBVIOUS
<1> QED
  BY <1>1, <1>2 DEF resolve, Hits, Answer

LEMMA HitCases ==
  ASSUME NEW f \in CredentialFiles, load_from_file(f), NEW akid, NEW token
  PROVE  \/ Hits(f.credentials, akid, token) = {}
         \/ \E k \in DOMAIN f.credentials : k \in Int /\ Hits(f.credentials, akid, token) = {k}
<1> SUFFICES ASSUME NEW k \in Hits(f.credentials, akid, token)
             PROVE  k \in DOMAIN f.credentials /\ k \in Int /\ Hits(f.credentials, akid, token) = {k}
  OBVIOUS
<1>1. PICK n \in Nat : f.credentials \in [1..n -> Entries]
  BY FileFacts
<1>2. k \in DOMAIN f.credentials /\ k \in 1..n
  BY <1>1 DEF Hits
<1>3. \A j \in Hits(f.credentials, akid, token) : j = k
  BY <1>2, OneHit DEF Hits
<1> QED
  BY <1>2, <1>3

(* The same entry is found wherever it stands.                               *)
LEMMA OrderFree ==
  ASSUME NEW f \in CredentialFiles, load_from_file(f), NEW akid, NEW token, NEW now,
         NEW p \in Bijection(DOMAIN f.credentials, DOMAIN f.credentials)
  PROVE  resolve(Reordered(f.credentials, p), akid, token, now)
           = resolve(f.credentials, akid, token, now)
<1> DEFINE creds == f.credentials
           D == DOMAIN creds
           other == Reordered(creds, p)
<1>1. PICK n \in Nat : creds \in [1..n -> Entries]
  BY FileFacts
<1>2. D = 1..n
  BY <1>1
<1>3. p \in [D -> D] /\ (\A i, j \in D : p[i] = p[j] => i = j) /\ \A k \in D : \E i \in D : p[i] = k
  BY DEF Bijection, Injection, Surjection, IsInjective
<1>4. DOMAIN other = D /\ \A i \in D : other[i] = creds[p[i]]
  BY DEF Reordered
<1> HIDE DEF D
<1>5. CASE Hits(creds, akid, token) = {}
  <2>1. Hits(other, akid, token) = {}
    BY <1>3, <1>4, <1>5 DEF Hits, D
  <2> QED
    BY <1>5, <2>1, ResolveNone
<1>6. CASE \E k \in D : k \in Int /\ Hits(creds, akid, token) = {k}
  <2>1. PICK k \in D : k \in Int /\ Hits(creds, akid, token) = {k}
    BY <1>6
  <2>2. PICK i \in D : p[i] = k
    BY <1>3
  <2>3. i \in Int
    BY <1>2
  <2>4. Hits(other, akid, token) = {i}
    <3>1. ASSUME NEW j \in D PROVE j \in Hits(other, akid, token) <=> p[j] = k
      <4>1. p[j] \in D /\ other[j] = creds[p[j]]
        BY <1>3, <1>4
      <4>2. j \in Hits(other, akid, token) <=> p[j] \in Hits(creds, akid, token)
        BY <1>4, <4>1 DEF Hits, D
      <4> QED
        BY <2>1, <4>2
    <3>2. Hits(other, akid, token) \subseteq D
      BY <1>4 DEF Hits
    <3> QED
      BY <1>3, <2>2, <3>1, <3>2
  <2>5. other[i] = creds[k]
    BY <1>4, <2>2
  <2> QED
    BY <2>1, <2>3, <2>4, <2>5, ResolveOne
<1> QED
  BY <1>5, <1>6, HitCases DEF D

(* What a lookup finds belongs to its namespace and is alive.                *)
Alive(e, akid, token, now) ==
    /\ e.akid = akid /\ e.token = token
    /\ e.secret # "" /\ e.secret \notin Padded
    /\ e.token # None => e.expires # None /\ now < e.expires

LEMMA FoundAlive ==
  ASSUME NEW f \in CredentialFiles, load_from_file(f), NEW akid, NEW token, NEW now \in Int,
         NEW res, res = resolve(f.credentials, akid, token, now), res.code = "found"
  PROVE  Alive(res.entry, akid, token, now)
<1> DEFINE creds == f.credentials
<1>1. NotFound.code # "found" /\ Expired.code # "found"
  BY DEF NotFound, Expired
<1>2. PICK k \in DOMAIN creds : k \in Int /\ Hits(creds, akid, token) = {k}
  <2>1. CASE Hits(creds, akid, token) = {}
    <3>1. resolve(creds, akid, token, now) = NotFound
      BY <2>1, ResolveNone
    <3> QED
      BY <1>1, <3>1
  <2> QED
    BY <2>1, HitCases
<1>3. res = Answer(creds[k], now)
  BY <1>2, ResolveOne
<1>4. res = Found(creds[k]) /\ ~(creds[k].expires # None /\ now >= creds[k].expires)
  BY <1>1, <1>3 DEF Answer
<1>5. res.entry = creds[k]
  BY <1>4 DEF Found
<1>6. k \in Hits(creds, akid, token) /\ creds[k].akid = akid /\ creds[k].token = token
  BY <1>2 DEF Hits
<1>7. PICK n \in Nat : creds \in [1..n -> Entries]
  BY FileFacts
<1>8. creds[k].expires \in FileExpiries \cup {None}
  BY <1>7 DEF Entries
<1>9. ~LoadError(f, k)
  BY DEF load_from_file
<1>10. /\ creds[k].secret # "" /\ creds[k].secret \notin Padded
       /\ creds[k].token # None => creds[k].expires # None
  BY <1>9 DEF LoadError
<1>11. creds[k].expires # None => now < creds[k].expires
  <2> DEFINE x == creds[k].expires
  <2>1. x \in FileExpiries \cup {None} /\ ~(x # None /\ now >= x)
    BY <1>4, <1>8
  <2> HIDE DEF x
  <2>2. x # None => x \in Int
    BY <2>1, StoreAssumption
  <2>3. x # None => now < x
    BY <2>1, <2>2
  <2> QED
    BY <2>3 DEF x
<1> QED
  BY <1>5, <1>6, <1>10, <1>11 DEF Alive

LEMMA StoreInitOK == StoreInit => StoreInv
<1> SUFFICES ASSUME StoreInit PROVE StoreInv
  OBVIOUS
<1>1. PICK v \in 0..2, n \in 0..MaxEntries : \E es \in [1..n -> Entries] :
          file = [version |-> v, credentials |-> es]
  BY DEF StoreInit
<1>2. PICK es \in [1..n -> Entries] : file = [version |-> v, credentials |-> es]
  BY <1>1
<1>3. es \in UNION {[1..m -> Entries] : m \in 0..MaxEntries}
  BY <1>2
<1>4. file \in CredentialFiles
  BY <1>2, <1>3 DEF CredentialFiles
<1> QED
  BY <1>4 DEF StoreInv, StoreInit

LEMMA StoreStep == StoreInv /\ [StoreNext]_storeVars => StoreInv'
<1> SUFFICES ASSUME StoreInv, [StoreNext]_storeVars PROVE StoreInv'
  OBVIOUS
<1>1. CASE Start
  BY <1>1 DEF Start, StoreInv
<1>2. CASE Tick
  BY <1>2 DEF Tick, StoreInv
<1>3. ASSUME NEW a, NEW t, Lookup(a, t) PROVE StoreInv'
  <2>1. /\ last'.akid = a /\ last'.token = t
        /\ last'.result = resolve(file.credentials, a, t, clock)
    BY <1>3 DEF Lookup
  <2>2. state = "up" /\ file' = file /\ state' = state /\ clock' = clock
    BY <1>3 DEF Lookup
  <2> QED
    BY <2>1, <2>2 DEF StoreInv
<1>4. CASE UNCHANGED storeVars
  BY <1>4 DEF storeVars, StoreInv
<1> QED
  BY <1>1, <1>2, <1>3, <1>4 DEF StoreNext

LEMMA StoreSound == StoreInv => LookupsSound
<1> SUFFICES ASSUME StoreInv PROVE LookupsSound
  OBVIOUS
<1>1. CASE last = NoLookup
  <2>1. last.akid = None /\ last.result.code # "found"
    BY <1>1 DEF NoLookup, NotFound
  <2> QED
    BY <2>1 DEF LookupsSound, OrderIrrelevant, LookupSound
<1>2. CASE state = "up" /\ last.result = resolve(file.credentials, last.akid, last.token, clock)
  <2>1. file \in CredentialFiles /\ load_from_file(file) /\ clock \in Int
    BY <1>2 DEF StoreInv
  <2>2. OrderIrrelevant
    BY <1>2, <2>1, OrderFree DEF OrderIrrelevant
  <2>3. last.result.code = "found" => Alive(last.result.entry, last.akid, last.token, clock)
    BY <1>2, <2>1, FoundAlive
  <2>4. LookupSound
    BY <2>3 DEF LookupSound, Alive
  <2> QED
    BY <2>2, <2>4 DEF LookupsSound
<1> QED
  BY <1>1, <1>2 DEF StoreInv

(* Whatever file StaticInboundCredentials::load_from_file accepts: resolve    *)
(* finds the one entry of the namespace of a request, a temporary one only   *)
(* before its end, and the same in whatever order the file lists them.       *)
THEOREM LookupsAreSound == StoreSpec => []LookupsSound
<1>1. StoreSpec => []StoreInv
  BY StoreInitOK, StoreStep, PTL DEF StoreSpec
<1> QED
  BY <1>1, StoreSound, PTL
=============================================================================
