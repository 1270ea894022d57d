------------------------------ MODULE Requests ------------------------------
(***************************************************************************)
(* An inbound S3 request, the operation parse_request makes of it          *)
(* (s3/parse.rs, s3/ops.rs) and the route the request modifiers choose for *)
(* it (handlers/modifiers.rs).                                             *)
(*                                                                         *)
(* A request is a record                                                   *)
(*   method, bucket, hasKey   the request line                             *)
(*   query      set of parameters as spelled in the URL                    *)
(*   headers    set of header classes present (see HeaderClasses)          *)
(*   opaque     those whose value is not visible ASCII: to_str refuses it  *)
(*   nominated  headers its Connection header declares hop-by-hop          *)
(*   sha        the values of x-amz-content-sha256, in order               *)
(*   trailer    "none", "known" or "unknown" value of x-amz-trailer        *)
(*   auth       "sigv4", "sigv4a", "presigned" or "bad"                    *)
(*   body       what is special about the body                             *)
(***************************************************************************)
EXTENDS Naturals, Sequences, FiniteSets, SequencesExt

\* One class stands for the headers that are treated alike everywhere.
HeaderClasses ==
    {"meta",            \* x-amz-meta-*
     "repeated",        \* the earlier values of an x-amz-* header sent twice
     "content",         \* content-type, -encoding, -language, cache-control, ...
     "md5",             \* content-md5
     "modifier",        \* storage class, ACL, object lock, tagging, ...
     "sse-c",           \* x-amz-server-side-encryption-customer-*
     "payer",           \* request-payer, expected-bucket-owner
     "checksum",        \* x-amz-checksum-crc32, ...
     "sdk-checksum",    \* x-amz-sdk-checksum-algorithm
     "checksum-mode",   \* exactly one, ENABLED
     "checksum-mode?",  \* repeated or some other value
     "other-amz",       \* an x-amz-* header the proxy has no rule for
     "copy-source", "range", "if-match", "if-modified",
     "decoded-length", "aws-chunked",   \* Content-Encoding: aws-chunked
     "negative-length", \* Content-Length below zero
     "hop"}             \* connection, te, transfer-encoding, ...

\* The classes whose value is read as text and nothing else is known of it.
OpaqueClasses ==
    {"meta", "content", "md5", "modifier", "sse-c", "payer", "checksum", "sdk-checksum",
     "other-amz"}

\* "attributes" stands for the subresources the parser has no rule for:
\* attributes, publicAccessBlock, ownershipControls, policyStatus, session.
QueryNames == {"acl", "%61cl", "attributes", "uploads", "uploadId", "partNumber",
               "partNumber=0", "list-type=2", "list-type=3", "max-keys=x",
               "fetch-owner", "fetch%2Downer", "prefix"}

HMAC    == "STREAMING-AWS4-HMAC-SHA256-PAYLOAD"
HMAC_T  == "STREAMING-AWS4-HMAC-SHA256-PAYLOAD-TRAILER"
ECDSA   == "STREAMING-AWS4-ECDSA-P256-SHA256-PAYLOAD"
ECDSA_T == "STREAMING-AWS4-ECDSA-P256-SHA256-PAYLOAD-TRAILER"
PLAIN_T == "STREAMING-UNSIGNED-PAYLOAD-TRAILER"
Sentinels == {HMAC, HMAC_T, ECDSA, ECDSA_T, PLAIN_T}
ShaValues == Sentinels \cup {"UNSIGNED-PAYLOAD", "hex", "STREAMING-?"}

S3Requests ==
    [method : STRING, bucket : STRING, hasKey : BOOLEAN, query : SUBSET QueryNames,
     headers : SUBSET HeaderClasses, opaque : SUBSET OpaqueClasses,
     nominated : SUBSET HeaderClasses, sha : Seq(ShaValues),
     trailer : {"none", "known", "unknown"}, auth : {"sigv4", "sigv4a", "presigned", "bad"},
     body : {"plain", "tampered", "too_large", "part_checksums", "malformed"}]

-----------------------------------------------------------------------------
(***************************************************************************)
(* parse_request                                                           *)
(***************************************************************************)
\* Parameter names are percent-decoded before anything looks at them.
percent_decode_str(name) ==
    CASE name = "%61cl" -> "acl"
      [] name = "fetch%2Downer" -> "fetch-owner"
      [] OTHER -> name

parse_query(query) == {percent_decode_str(n) : n \in query}

\* "acl" stands for the subresources, versionId and the response overrides
\* on the list; those of "attributes" are not on it.
S3_SUBRESOURCE_PARAMS == {"acl"}

MultipartOperation(r, q) ==
    LET number == q \cap {"partNumber", "partNumber=0"} # {}
        id     == "uploadId" \in q
        start  == "uploads" \in q
    IN CASE r.method = "PUT" /\ number /\ id /\ ~start ->
              IF "copy-source" \in r.headers THEN "Unsupported" ELSE "UploadPart"
         [] r.method = "POST" /\ start /\ ~id /\ ~number -> "CreateMultipartUpload"
         [] r.method = "POST" /\ id /\ ~start /\ ~number -> "CompleteMultipartUpload"
         [] r.method = "DELETE" /\ id /\ ~start /\ ~number -> "AbortMultipartUpload"
         [] OTHER -> "Unsupported"

ObjectOperation(r) ==
    CASE r.method = "GET" -> "GetObject"
      [] r.method = "HEAD" -> "HeadObject"
      [] r.method = "PUT" /\ "copy-source" \notin r.headers -> "PutObject"
      [] r.method = "DELETE" -> "DeleteObject"
      [] OTHER -> "Unsupported"

BucketOperation(r, q) ==
    IF \/ r.method # "GET"
       \/ q \cap (S3_SUBRESOURCE_PARAMS \cup {"uploads"}) # {}
       \/ q \cap {"list-type=3", "max-keys=x"} # {}
    THEN "Unsupported"
    ELSE IF "list-type=2" \in q THEN "ListObjectsV2" ELSE "ListObjectsV1"

parse_request(r) ==
    LET q == parse_query(r.query) IN
    CASE r.bucket = "" -> "Unsupported"
      [] r.bucket # "" /\ ~r.hasKey -> BucketOperation(r, q)
      [] OTHER ->
           IF q \cap S3_SUBRESOURCE_PARAMS # {} THEN "Unsupported"
           ELSE IF q \cap {"uploads", "uploadId", "partNumber", "partNumber=0"} # {}
                THEN MultipartOperation(r, q)
                ELSE ObjectOperation(r)

\* An unparsable partNumber becomes 0, which the handlers refuse.
part_number(r) == IF "partNumber=0" \in r.query THEN 0 ELSE 1

\* The headers whose value is text.  The parser skips any other value
\* without a word, and the gates below that look at the maps it builds do not
\* see the header at all; those that look at the raw headers do.
header_str(r) == r.headers \ r.opaque

\* The x-amz-* headers kept for forwarding, one value per name: the last one
\* wins.  The signing headers and the decoded length are dropped here and read
\* from the raw headers where needed.
extra_amz_headers(r) ==
    header_str(r) \cap {"modifier", "sse-c", "payer", "checksum", "sdk-checksum",
                        "checksum-mode", "checksum-mode?", "other-amz", "copy-source"}

user_metadata(r) == header_str(r) \cap {"meta"}

content_headers(r) == header_str(r) \cap {"content"}

content_md5(r) == header_str(r) \cap {"md5"}

\* The list parameters the typed call understands.
ListParams(r) == r.query \cap {"list-type=2", "prefix"}

-----------------------------------------------------------------------------
(***************************************************************************)
(* The request modifiers                                                   *)
(***************************************************************************)
WRITE_MODIFYING_BASE == {"modifier", "sse-c", "payer"}

MULTIPART_CHECKSUM_HEADERS == {"checksum", "sdk-checksum"}

checksum_mode_requires_passthrough(r) == "checksum-mode?" \in r.headers

has_unsupported_get_modifiers(r) ==
    \/ r.headers \cap {"range", "if-match", "if-modified", "payer", "sse-c"} # {}
    \/ checksum_mode_requires_passthrough(r)

has_unsupported_http_conditionals(r) == "if-match" \in r.headers

trailer_algorithm_supported(r) == r.trailer = "known"

\* The upload mode one value of x-amz-content-sha256 announces.
SentinelMode(r, value) ==
    CASE value \in {HMAC, ECDSA} -> value
      [] value \in {HMAC_T, ECDSA_T, PLAIN_T} ->
           IF trailer_algorithm_supported(r) THEN value ELSE "OtherStreaming"
      [] value = "STREAMING-?" -> "OtherStreaming"
      [] OTHER -> "none"

\* Two values that announce different modes are ambiguous.
Escalate(mode, candidate) ==
    CASE mode = "none" -> candidate
      [] mode # "none" /\ candidate \notin {"none", mode} -> "OtherStreaming"
      [] OTHER -> mode

ObservedMode(r) ==
    LET Step(value, mode) == Escalate(mode, SentinelMode(r, value))
    IN FoldLeft(LAMBDA m, v : Step(v, m), "none", r.sha)

classify_aws_chunked_upload(r) ==
    LET mode == ObservedMode(r) IN
    IF r.trailer # "none" /\ mode \notin {PLAIN_T, HMAC_T, ECDSA_T} THEN "OtherStreaming"
    ELSE IF mode = "none" /\ r.headers \cap {"aws-chunked", "decoded-length"} # {}
         THEN "OtherStreaming"
         ELSE mode

aws_chunked_route_for(r) ==
    LET mode == classify_aws_chunked_upload(r) IN
    CASE mode = "none" -> "Typed"
      [] mode = "OtherStreaming" -> "Passthrough"
      [] OTHER -> "DecodeAwsChunked"

classify_put_body_route(r) ==
    IF \/ has_unsupported_http_conditionals(r)
       \/ extra_amz_headers(r) \cap WRITE_MODIFYING_BASE # {}
    THEN "Passthrough"
    ELSE aws_chunked_route_for(r)

\* The checksum gate comes after the decode route, the modifiers before it.
classify_upload_part_body_route(r) ==
    IF \/ has_unsupported_http_conditionals(r)
       \/ extra_amz_headers(r) \cap WRITE_MODIFYING_BASE # {}
    THEN "Passthrough"
    ELSE IF aws_chunked_route_for(r) = "DecodeAwsChunked" THEN "DecodeAwsChunked"
    ELSE IF extra_amz_headers(r) \cap MULTIPART_CHECKSUM_HEADERS # {}
         THEN "Passthrough"
         ELSE aws_chunked_route_for(r)

has_unsupported_write_modifiers(r) ==
    \/ has_unsupported_http_conditionals(r)
    \/ classify_aws_chunked_upload(r) # "none"
    \/ extra_amz_headers(r) \cap WRITE_MODIFYING_BASE # {}

has_unsupported_multipart_modifiers(r) ==
    \/ has_unsupported_http_conditionals(r)
    \/ classify_aws_chunked_upload(r) # "none"
    \/ extra_amz_headers(r) \cap (WRITE_MODIFYING_BASE \cup MULTIPART_CHECKSUM_HEADERS) # {}

\* Mutant: the gate looks at the query before it is decoded.
RawListGate(r) == "fetch-owner" \in r.query \/ "payer" \in r.headers

has_unsupported_list_modifiers(r) ==
    \/ "fetch-owner" \in parse_query(r.query)
    \/ "payer" \in r.headers

\* The path handle_s3_request takes for a supported operation.  A complete
\* request that carries part checksums turns to passthrough later, once its
\* body is read.
RouteOf(op, r) ==
    LET Gate(unsupported) == IF unsupported THEN "Passthrough" ELSE "Typed" IN
    CASE op = "Unsupported" -> "Passthrough"
      [] op \in {"GetObject", "HeadObject"} -> Gate(has_unsupported_get_modifiers(r))
      [] op = "PutObject" -> classify_put_body_route(r)
      [] op = "UploadPart" -> classify_upload_part_body_route(r)
      [] op = "DeleteObject" -> Gate(has_unsupported_write_modifiers(r))
      [] op \in {"ListObjectsV1", "ListObjectsV2"} -> Gate(has_unsupported_list_modifiers(r))
      [] OTHER -> Gate(has_unsupported_multipart_modifiers(r))
=============================================================================
