----------------------------- MODULE MCDispatch -----------------------------
EXTENDS Dispatch

Plain == [method |-> "GET", bucket |-> Frontend, hasKey |-> TRUE, query |-> {},
          headers |-> {}, opaque |-> {}, nominated |-> {}, sha |-> <<"UNSIGNED-PAYLOAD">>,
          trailer |-> "none", auth |-> "sigv4", body |-> "plain"]

Methods == {"GET", "HEAD", "PUT", "POST", "DELETE"}

AtMost(S, n) == UNION {kSubset(k, S) : k \in 0..n}

\* Every pair of header classes on every operation.
HeaderRequests ==
    {[Plain EXCEPT !.method = m, !.query = q, !.headers = h] :
        m \in Methods,
        q \in {{}, {"uploads"}, {"uploadId"}, {"uploadId", "partNumber"}},
        h \in AtMost(HeaderClasses, 2)}

\* One value that is no text, beside any other header.
OpaqueRequests ==
    {[Plain EXCEPT !.method = m, !.query = q, !.headers = {o, h}, !.opaque = {o}] :
        m \in Methods,
        q \in {{}, {"uploads"}, {"uploadId"}, {"uploadId", "partNumber"}},
        o \in OpaqueClasses, h \in HeaderClasses}

\* Every triple of query parameters on objects and buckets.
QueryRequests ==
    {[Plain EXCEPT !.method = m, !.query = q, !.hasKey = k] :
        m \in Methods, q \in AtMost(QueryNames, 3), k \in BOOLEAN}

\* The checks before the routing.
EnvelopeRequests ==
    {[Plain EXCEPT !.method = m, !.bucket = b, !.auth = a, !.body = x,
                   !.sha = <<v>>, !.nominated = n, !.headers = {"meta", "hop"}] :
        m \in Methods \cup {"PATCH"}, b \in {Frontend, "frontend2", ""},
        a \in {"sigv4", "presigned", "bad"},
        x \in {"plain", "tampered", "too_large"},
        v \in {"UNSIGNED-PAYLOAD", "hex", "STREAMING-?"}, n \in {{}, {"meta"}}}

CompleteRequests ==
    {[Plain EXCEPT !.method = "POST", !.query = {"uploadId"}, !.body = x, !.headers = h] :
        x \in {"plain", "part_checksums", "malformed", "too_large"},
        h \in AtMost(HeaderClasses, 1)}

\* Streaming uploads: repeated x-amz-content-sha256 values, and one value with
\* every envelope and body.
StreamHeaders == {{"decoded-length"}, {}, {"decoded-length", "aws-chunked"},
                  {"decoded-length", "modifier"},
                  {"decoded-length", "sdk-checksum", "meta"}}

RepeatedShaRequests ==
    {[Plain EXCEPT !.method = "PUT", !.query = q, !.sha = v, !.trailer = t,
                   !.headers = h, !.auth = a] :
        q \in {{}, {"uploadId", "partNumber"}}, v \in SeqOf(ShaValues, 2),
        t \in {"none", "known", "unknown"}, h \in StreamHeaders, a \in {"sigv4", "sigv4a"}}

SingleShaRequests ==
    {[Plain EXCEPT !.method = "PUT", !.query = q, !.sha = v, !.trailer = t,
                   !.headers = h, !.auth = a, !.body = x] :
        q \in {{}, {"uploadId", "partNumber"}, {"uploadId", "partNumber=0"}},
        v \in SeqOf(ShaValues, 1), t \in {"none", "known"}, h \in StreamHeaders,
        a \in {"sigv4", "sigv4a", "presigned"}, x \in {"plain", "tampered", "too_large"}}

\* Signed streams on the operations that are no uploads.
OtherStreamRequests ==
    {[Plain EXCEPT !.method = m, !.query = q, !.sha = <<v>>, !.hasKey = k, !.body = x] :
        m \in Methods \ {"PUT"}, q \in {{}, {"acl"}, {"uploads"}, {"uploadId"}},
        v \in Sentinels, k \in BOOLEAN, x \in {"plain", "tampered"}}

MCRoutingInputs ==
    HeaderRequests \cup OpaqueRequests \cup QueryRequests \cup EnvelopeRequests
        \cup CompleteRequests \cup OtherStreamRequests

MCStreamInputs == RepeatedShaRequests \cup SingleShaRequests

MCInputs == MCRoutingInputs \cup MCStreamInputs

\* A request for each of the differences from the documentation.
MCDocInputs ==
    {[Plain EXCEPT !.query = {"attributes"}],
     [Plain EXCEPT !.method = "DELETE", !.sha = <<HMAC>>],
     [Plain EXCEPT !.method = "PUT", !.headers = {"modifier"}, !.opaque = {"modifier"}],
     [Plain EXCEPT !.method = "PUT", !.sha = <<"STREAMING-?">>]}
=============================================================================
