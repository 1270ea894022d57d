----------------------------- MODULE AwsChunked -----------------------------
(***************************************************************************)
(* AwsChunkedDecoder (s3/aws_chunked.rs): decodes one aws-chunked upload,  *)
(* which arrives in reads of any length, into the spool file, checking the *)
(* framing, the chunk signatures and the checksum in the trailer.          *)
(*                                                                         *)
(* The wire is a sequence of symbols.  A line of text is one symbol, its   *)
(* CR and LF are symbols of their own, and a payload byte is a symbol that *)
(* may be a CR or an LF as well.  Hashes and signatures are symbolic: the  *)
(* digest of data is the data, and the signature of a chunk is the         *)
(* sequence of everything the signature chain has covered so far.          *)
(***************************************************************************)
EXTENDS Integers, Sequences, FiniteSets, SequencesExt, FiniteSetsExt

CONSTANTS
    Confs,      \* the decoders to build: mode, policy, declared length
    Bytes,      \* the payload bytes that occur
    MinChunk,   \* MIN_NON_FINAL_CHUNK_BYTES
    MaxLine,    \* MAX_CHUNK_HEADER_LINE_BYTES, MAX_TRAILER_LINE_BYTES
    MaxRead     \* bound: symbols one read of the client's stream delivers

Byte(b) == [kind |-> "byte", byte |-> b]
CR == Byte("CR")
LF == Byte("LF")
Star == Byte("*")
Junk == [kind |-> "junk"]

\* A chunk header: size -1 is a size that does not parse, the empty
\* signature a header without the chunk-signature extension.
Header(size, sig) == [kind |-> "header", size |-> size, sig |-> sig]
Trailer(name, value) == [kind |-> "trailer", name |-> name, value |-> value]
TrailerSig(sig) == [kind |-> "trailer-signature", sig |-> sig]
Misshapen == <<<<Junk>>>>

VARIABLES
    conf,       \* [alg, trailer, verify, declared] of this decoder
    sent,       \* everything the client has sent
    input,      \* "open", "eof" or "reset": the client's stream
    inbuf,      \* BufReader: received and not yet consumed
    line,       \* the line, or the CRLF, being collected
    pc,
    header,     \* the chunk header parsed last
    chunk,      \* the payload of the current chunk so far
    decoded_len,
    previous_data_chunk_size,   \* 0: no data chunk yet
    previous_signature,
    trailer,    \* the checksum trailer
    spool,      \* what the writer was given
    result

chunkedVars == <<conf, sent, input, inbuf, line, pc, header, chunk, decoded_len,
                 previous_data_chunk_size, previous_signature, trailer, spool, result>>

\* The five checksums and the length of their digests.
digest_len == [crc32 |-> 4, crc32c |-> 4, crc64nvme |-> 8, sha1 |-> 20, sha256 |-> 32]

expects_chunk_signature == conf.alg # "none"

trailer_info == conf.trailer # "none"

\* from_verified: the chain starts at the signature of the request itself.
Seed == <<>>

ChunkedInit ==
    /\ conf \in Confs
    /\ sent = <<>> /\ input = "open" /\ inbuf = <<>>
    /\ line = <<>> /\ pc = "header" /\ header = Header(-1, <<>>)
    /\ chunk = <<>> /\ decoded_len = 0 /\ previous_data_chunk_size = 0
    /\ previous_signature = Seed /\ trailer = Junk
    /\ spool = <<>> /\ result = "none"

Fail(error) == pc' = "done" /\ result' = error

Proceed(next) == pc' = next /\ UNCHANGED result

-----------------------------------------------------------------------------
(***************************************************************************)
(* The client                                                              *)
(***************************************************************************)
trim_end_matches(sig) == IF sig # <<>> /\ Last(sig) = <<Star>> THEN Front(sig) ELSE sig

SeqsOf(S, n) == [1..n -> S]

\* Signatures a client may put on a chunk of n bytes: correct ones, ones for
\* other bytes, ones that skip the chain, misshapen ones, padded ones.
SignaturesFor(n) ==
    LET payloads == IF conf.verify THEN SeqsOf(Bytes, n) ELSE {<<>>}
        plain == {Append(trim_end_matches(previous_signature), p) : p \in payloads} \cup {<<p>> : p \in payloads}
    IN {<<>>, Misshapen} \cup plain \cup {Append(s, <<Star>>) : s \in plain}

HeaderLines ==
    {Header(-1, <<>>)} \cup
    UNION {{Header(n, s) : s \in SignaturesFor(n)} : n \in 0..(conf.declared - Len(spool) + 1)}

TrailerLines ==
    {Trailer(n, [alg |-> a, data |-> d]) :
        n \in {conf.trailer, "other"}, a \in {conf.trailer, "crc32c", "sha1", "not-base64"},
        d \in {spool, <<>>}}

TrailerSigLines ==
    {TrailerSig(s) : s \in {<<>>, Misshapen, <<<<trailer>>>>,
                            Append(previous_signature, <<trailer>>),
                            Append(Append(previous_signature, <<trailer>>), <<Star>>)}}

\* What the client sends next, given where the decoder is.
NextSymbols ==
    IF pc = "payload" THEN Bytes ELSE
    {CR, LF, Junk} \cup
    CASE pc = "header" /\ line = <<>> -> HeaderLines
      [] pc = "trailer" /\ line = <<>> -> TrailerLines
      [] pc = "trailer-signature" /\ line = <<>> -> TrailerSigLines
      [] OTHER -> {}

ReadsHere == pc \in {"header", "payload", "crlf", "trailer", "trailer-signature", "end", "eof"}

ClientSends(read) ==
    /\ input = "open" /\ inbuf = <<>> /\ ReadsHere
    /\ inbuf' = read
    /\ sent' = sent \o read
    /\ UNCHANGED <<conf, input, line, pc, header, chunk, decoded_len,
                   previous_data_chunk_size, previous_signature, trailer, spool, result>>

\* The body ends, or the connection breaks (an error of the body stream).
ClientStops(how) ==
    /\ input = "open" /\ inbuf = <<>> /\ ReadsHere
    /\ input' = how
    /\ UNCHANGED <<conf, sent, inbuf, line, pc, header, chunk, decoded_len,
                   previous_data_chunk_size, previous_signature, trailer, spool, result>>

-----------------------------------------------------------------------------
(***************************************************************************)
(* Reading                                                                 *)
(***************************************************************************)
Ended == inbuf = <<>> /\ input # "open"

\* One fill_buf of read_chunk_header_line or read_trailer_line: a line may
\* come in several reads, and a read may hold more than the line.
FillLine(next, missing, cut, too_long) ==
    IF Ended
    THEN /\ Fail(CASE input = "reset" -> "InboundIo"
                   [] input = "eof" /\ line = <<>> -> missing
                   [] OTHER -> cut)
         /\ UNCHANGED <<inbuf, line>>
    ELSE LET lf == {i \in DOMAIN inbuf : inbuf[i] = LF}
             n == IF lf = {} THEN Len(inbuf) ELSE Min(lf)
         IN /\ inbuf # <<>>
            /\ IF Len(line) + n > MaxLine
               THEN Fail(too_long) /\ UNCHANGED <<inbuf, line>>
               ELSE /\ line' = line \o SubSeq(inbuf, 1, n)
                    /\ inbuf' = SubSeq(inbuf, n + 1, Len(inbuf))
                    /\ Proceed(IF lf = {} THEN pc ELSE next)

Read == UNCHANGED <<conf, sent, input>>

read_chunk_header_line ==
    /\ pc = "header"
    /\ FillLine("parse", "Truncated", "MalformedFrame", "ChunkHeaderTooLarge")
    /\ Read
    /\ UNCHANGED <<header, chunk, decoded_len, previous_data_chunk_size, previous_signature,
                   trailer, spool>>

read_trailer_line ==
    /\ pc = "trailer"
    /\ FillLine("trailer-line", "MissingTrailer", "InvalidTrailer", "InvalidTrailer")
    /\ Read
    /\ UNCHANGED <<header, chunk, decoded_len, previous_data_chunk_size, previous_signature,
                   trailer, spool>>

read_trailer_signature_line ==
    /\ pc = "trailer-signature"
    /\ FillLine("trailer-signature-line", "InvalidTrailerSignature", "InvalidTrailer",
                "InvalidTrailer")
    /\ Read
    /\ UNCHANGED <<header, chunk, decoded_len, previous_data_chunk_size, previous_signature,
                   trailer, spool>>

\* read_exact of two bytes, then the comparison.
ExpectCrlf(next) ==
    LET n == Min({2 - Len(line), Len(inbuf)})
        two == line \o SubSeq(inbuf, 1, n)
    IN IF Ended
       THEN Fail(IF input = "reset" THEN "InboundIo" ELSE "Truncated") /\ UNCHANGED <<inbuf, line>>
       ELSE /\ inbuf # <<>>
            /\ inbuf' = SubSeq(inbuf, n + 1, Len(inbuf))
            /\ line' = IF Len(two) = 2 THEN <<>> ELSE two
            /\ CASE Len(two) < 2 -> Proceed(pc)
                 [] two = <<CR, LF>> -> Proceed(next)
                 [] OTHER -> Fail("MalformedFrame")

-----------------------------------------------------------------------------
(***************************************************************************)
(* Chunks                                                                  *)
(***************************************************************************)
\* An HMAC signature has one width; an ECDSA one may be padded with stars.
parse_streaming_der_signature_hex_padded(sig) == sig \notin {<<>>, Misshapen}

validate_chunk_signature_shape(sig) ==
    /\ parse_streaming_der_signature_hex_padded(sig)
    /\ conf.alg = "hmac" => Last(sig) # <<Star>>

parse_chunk_header(text) ==
    /\ Len(text) = 1
    /\ text[1].kind = "header"
    /\ text[1].size >= 0
    /\ IF expects_chunk_signature
       THEN validate_chunk_signature_shape(text[1].sig)
       ELSE text[1].sig = <<>>

StripCrlf(l) == IF Len(l) >= 2 /\ l[Len(l) - 1] = CR THEN SubSeq(l, 1, Len(l) - 2) ELSE l

\* The loop of decode_to_writer up to the payload.  A chunk below the minimum
\* is an error only when another data chunk follows it; a chunk that would
\* exceed the declared length is refused before its payload is read.
BeginChunk(h) ==
    IF h.size = 0 THEN Proceed("zero")
    ELSE IF previous_data_chunk_size \in 1..(MinChunk - 1) THEN Fail("InvalidChunkSize")
    ELSE IF decoded_len + h.size > conf.declared THEN Fail("DecodedLengthExceeded")
    ELSE Proceed("payload")

decode_header ==
    LET text == StripCrlf(line)
        h == text[1]
    IN /\ pc = "parse"
       /\ IF text = line \/ ~parse_chunk_header(text)
          THEN Fail("MalformedFrame") /\ UNCHANGED header
          ELSE BeginChunk(h) /\ header' = h
       /\ line' = <<>>
       /\ chunk' = <<>>
       /\ UNCHANGED <<conf, sent, input, inbuf, decoded_len, previous_data_chunk_size,
                      previous_signature, trailer, spool>>

\* Reads at most what the chunk still lacks: the rest belongs to the framing.
Wanted == header.size - Len(chunk)

copy_chunk_payload ==
    LET n == Min({Wanted, Len(inbuf)})
        got == SubSeq(inbuf, 1, n)
    IN /\ pc = "payload"
       /\ IF Ended
          THEN /\ Fail(IF input = "reset" THEN "InboundIo" ELSE "Truncated")
               /\ UNCHANGED <<inbuf, chunk, spool>>
          ELSE /\ inbuf # <<>>
               /\ inbuf' = SubSeq(inbuf, n + 1, Len(inbuf))
               /\ chunk' = chunk \o got
               /\ spool' = spool \o got
               /\ Proceed(IF Len(chunk \o got) = header.size THEN "verify" ELSE "payload")
       /\ Read
       /\ UNCHANGED <<line, header, decoded_len, previous_data_chunk_size,
                      previous_signature, trailer>>

SpoolWriteFails ==
    /\ pc = "payload" /\ inbuf # <<>>
    /\ Fail("SpoolIo")
    /\ UNCHANGED <<conf, sent, input, inbuf, line, header, chunk, decoded_len,
                   previous_data_chunk_size, previous_signature, trailer, spool>>

\* verify_payload_chunk of the HMAC and of the ECDSA context: the signature
\* covers the previous one.
HmacMatches(sig, data) == sig = Append(previous_signature, data)

EcdsaMatches(sig, data) == trim_end_matches(sig) = Append(previous_signature, data)

SignatureMatches(sig, data) ==
    IF conf.alg = "ecdsa" THEN EcdsaMatches(sig, data) ELSE HmacMatches(sig, data)

\* Mutant: a chunk is verified without its predecessor.
VerifyChunkUnchained(sig, data, next) ==
    IF ~(expects_chunk_signature /\ conf.verify) \/ Last(trim_end_matches(sig)) = data
    THEN Proceed(next) /\ UNCHANGED previous_signature
    ELSE Fail("ChunkSignatureMismatch") /\ UNCHANGED previous_signature

\* The chain advances only when the signature matches, without the padding.
VerifyChunk(sig, data, next) ==
    IF expects_chunk_signature /\ conf.verify
    THEN IF SignatureMatches(sig, data)
         THEN Proceed(next) /\ previous_signature' = trim_end_matches(sig)
         ELSE Fail("ChunkSignatureMismatch") /\ UNCHANGED previous_signature
    ELSE Proceed(next) /\ UNCHANGED previous_signature

\* The signature is compared before the CRLF after the payload is read.
verify_chunk ==
    /\ pc = "verify"
    /\ VerifyChunk(header.sig, chunk, "crlf")
    /\ UNCHANGED <<conf, sent, input, inbuf, line, header, chunk, decoded_len,
                   previous_data_chunk_size, trailer, spool>>

expect_crlf ==
    /\ pc = "crlf"
    /\ ExpectCrlf("header")
    /\ IF pc' = "header"
       THEN /\ decoded_len' = decoded_len + header.size
            /\ previous_data_chunk_size' = header.size
       ELSE UNCHANGED <<decoded_len, previous_data_chunk_size>>
    /\ Read
    /\ UNCHANGED <<header, chunk, previous_signature, trailer, spool>>

-----------------------------------------------------------------------------
(***************************************************************************)
(* finalize: the zero chunk, the trailer, the end of the body              *)
(***************************************************************************)
verify_zero_chunk ==
    /\ pc = "zero"
    /\ VerifyChunk(header.sig, <<>>, IF trailer_info THEN "trailer" ELSE "end")
    /\ UNCHANGED <<conf, sent, input, inbuf, line, header, chunk, decoded_len,
                   previous_data_chunk_size, trailer, spool>>

\* A trailer line may end in CRLF or in a bare LF.
TrailerText(l) == IF StripCrlf(l) = l THEN Front(l) ELSE StripCrlf(l)

read_and_validate_trailer ==
    LET text == TrailerText(line)
        t == text[1]
    IN /\ pc = "trailer-line"
       /\ CASE text = <<>> -> Fail("MissingTrailer") /\ UNCHANGED trailer
            [] text # <<>> /\ (Len(text) # 1 \/ t.kind # "trailer") ->
                   Fail("InvalidTrailer") /\ UNCHANGED trailer
            [] OTHER ->
                 CASE t.name # conf.trailer -> Fail("InvalidTrailer") /\ UNCHANGED trailer
                   [] t.name = conf.trailer
                        /\ (\/ t.value.alg \notin DOMAIN digest_len
                            \/ digest_len[t.value.alg] # digest_len[conf.trailer]) ->
                        Fail("InvalidTrailerChecksum") /\ UNCHANGED trailer
                   [] OTHER ->
                        /\ Proceed(IF expects_chunk_signature THEN "trailer-signature" ELSE "end")
                        /\ trailer' = t
       /\ line' = <<>>
       /\ UNCHANGED <<conf, sent, input, inbuf, header, chunk, decoded_len,
                      previous_data_chunk_size, previous_signature, spool>>

\* The signature of the trailer covers the signature of the zero chunk.
HmacTrailerMatches(sig) == sig = Append(previous_signature, <<trailer>>)

EcdsaTrailerMatches(sig) == trim_end_matches(sig) = Append(previous_signature, <<trailer>>)

TrailerSignatureMatches(sig) ==
    conf.verify => IF conf.alg = "ecdsa" THEN EcdsaTrailerMatches(sig) ELSE HmacTrailerMatches(sig)

read_and_validate_trailer_signature ==
    LET text == TrailerText(line)
        t == text[1]
    IN /\ pc = "trailer-signature-line"
       /\ IF \/ Len(text) # 1
             \/ Len(text) = 1 /\ (IF t.kind = "trailer-signature"
                                  THEN ~validate_chunk_signature_shape(t.sig)
                                  ELSE TRUE)
          THEN Fail("InvalidTrailerSignature")
          ELSE IF TrailerSignatureMatches(t.sig)
               THEN Proceed("end")
               ELSE Fail("TrailerSignatureMismatch")
       /\ line' = <<>>
       /\ UNCHANGED <<conf, sent, input, inbuf, header, chunk, decoded_len,
                      previous_data_chunk_size, previous_signature, trailer, spool>>

expect_final_crlf ==
    /\ pc = "end"
    /\ ExpectCrlf("eof")
    /\ Read
    /\ UNCHANGED <<header, chunk, decoded_len, previous_data_chunk_size, previous_signature,
                   trailer, spool>>

expect_eof ==
    /\ pc = "eof"
    /\ \/ Ended /\ IF input = "reset" THEN Fail("InboundIo") ELSE Proceed("check")
       \/ inbuf # <<>> /\ Fail("TrailingData")
    /\ UNCHANGED <<conf, sent, input, inbuf, line, header, chunk, decoded_len,
                   previous_data_chunk_size, previous_signature, trailer, spool>>

\* The length first, then the digest of the whole body.
LengthMatches == decoded_len = conf.declared

check_totals ==
    /\ pc = "check"
    /\ CASE ~LengthMatches -> Fail("DecodedLengthMismatch")
         [] LengthMatches /\ trailer_info
              /\ trailer.value # [alg |-> conf.trailer, data |-> spool] ->
              Fail("TrailerChecksumMismatch")
         [] OTHER -> Proceed("flush")
    /\ UNCHANGED <<conf, sent, input, inbuf, line, header, chunk, decoded_len,
                   previous_data_chunk_size, previous_signature, trailer, spool>>

\* decode_into_spool flushes the buffered writer before it reports success.
flush(ok) ==
    /\ pc = "flush"
    /\ Fail(IF ok THEN "Ok" ELSE "SpoolIo")
    /\ UNCHANGED <<conf, sent, input, inbuf, line, header, chunk, decoded_len,
                   previous_data_chunk_size, previous_signature, trailer, spool>>

DecoderStep ==
    \/ read_chunk_header_line \/ decode_header
    \/ copy_chunk_payload \/ SpoolWriteFails \/ verify_chunk \/ expect_crlf
    \/ verify_zero_chunk \/ read_trailer_line \/ read_and_validate_trailer
    \/ read_trailer_signature_line \/ read_and_validate_trailer_signature
    \/ expect_final_crlf \/ expect_eof \/ check_totals
    \/ \E ok \in BOOLEAN : flush(ok)

Reads == {<<x>> : x \in NextSymbols} \cup
         (IF MaxRead < 2 THEN {} ELSE {<<x, y>> : x \in NextSymbols, y \in Bytes})

Client ==
    /\ input = "open" /\ inbuf = <<>> /\ ReadsHere
    /\ \/ \E read \in Reads : ClientSends(read)
       \/ \E how \in {"eof", "reset"} : ClientStops(how)

ChunkedNext == DecoderStep \/ Client

ChunkedSpec == ChunkedInit /\ [][ChunkedNext]_chunkedVars

\* map_decode_error: the class of the answer.
map_decode_error(e) ==
    CASE e = "SpoolIo" -> "InternalError"
      [] e = "InvalidChunkSize" -> "InvalidChunkSizeError"
      [] e \in {"InvalidTrailer", "MissingTrailer", "InvalidTrailerSignature"} -> "InvalidRequest"
      [] e = "InvalidTrailerChecksum" -> "InvalidDigest"
      [] e = "TrailerChecksumMismatch" -> "BadDigest"
      [] e \in {"ChunkSignatureMismatch", "TrailerSignatureMismatch"} -> "SignatureDoesNotMatch"
      [] OTHER -> "IncompleteBody"

-----------------------------------------------------------------------------
(***************************************************************************)
(* What a correct client sends for a payload                               *)
(***************************************************************************)
\* The ways to cut n bytes into chunks of which only the last may be small.
Cuts(n) ==
    {c \in UNION {SeqsOf(1..n, k) : k \in 0..n} :
        /\ FoldSeq(LAMBDA x, y : x + y, 0, c) = n
        /\ \A i \in 1..(Len(c) - 1) : c[i] >= MinChunk}

Pieces(p, cut) ==
    [i \in 1..Len(cut) |->
        LET before == FoldSeq(LAMBDA x, y : x + y, 0, SubSeq(cut, 1, i - 1))
        IN SubSeq(p, before + 1, before + cut[i])]

ChunkLine(c, data, sig) ==
    <<Header(Len(data), IF c.alg = "none" THEN <<>> ELSE sig), CR, LF>>

Encode(c, p, cut, eols) ==
    LET pieces == Append(Pieces(p, cut), <<>>)
        frame(i) == ChunkLine(c, pieces[i], SubSeq(pieces, 1, i))
                      \o pieces[i] \o (IF i < Len(pieces) THEN <<CR, LF>> ELSE <<>>)
        t == Trailer(c.trailer, [alg |-> c.trailer, data |-> p])
        tsig == TrailerSig(Append(pieces, <<t>>))
    IN FlattenSeq([i \in 1..Len(pieces) |-> frame(i)])
         \o (IF c.trailer = "none" THEN <<>> ELSE <<t>> \o eols[1])
         \o (IF c.trailer = "none" \/ c.alg = "none" THEN <<>> ELSE <<tsig>> \o eols[2])
         \o <<CR, LF>>

\* Signatures that mean the same to the decoder: an ECDSA one with and without
\* its padding, and any two of the right shape when they are not verified.
Same(c, x) ==
    IF x.kind \notin {"header", "trailer-signature"} \/ c.alg = "none" THEN x
    ELSE [x EXCEPT !.sig = CASE @ \in {<<>>, Misshapen} -> @
                             [] Last(@) = <<Star>> /\ c.alg = "hmac" -> Misshapen
                             [] OTHER -> IF c.verify THEN trim_end_matches(@) ELSE <<<<Star>>>>]

Normal(c, body) == [i \in DOMAIN body |-> Same(c, body[i])]

CorrectBodies ==
    [c \in Confs |->
        UNION {{Normal(c, Encode(c, p, cut, eols)) :
                  p \in SeqsOf(Bytes, c.declared), eols \in SeqsOf({<<LF>>, <<CR, LF>>}, 2)}
                : cut \in Cuts(c.declared)}]

Correct(body) == Normal(conf, body) \in CorrectBodies[conf]

PrefixOfCorrect(body) ==
    LET n == Normal(conf, body) IN \E b \in CorrectBodies[conf] : IsPrefix(n, b)

-----------------------------------------------------------------------------
(***************************************************************************)
(* Properties                                                              *)
(***************************************************************************)
DecoderTypeOK ==
    /\ conf \in Confs
    /\ input \in {"open", "eof", "reset"}
    /\ pc \in {"header", "parse", "payload", "verify", "crlf", "zero", "trailer", "trailer-line",
               "trailer-signature", "trailer-signature-line", "end", "eof", "check", "flush", "done"}
    /\ decoded_len \in 0..conf.declared
    /\ previous_data_chunk_size \in 0..conf.declared

\* However the reads split the body (fill_buf, read), decode_to_writer accepts
\* it only when it is, to the last byte, what a correct client sends for some
\* payload of the declared length - chunk minimum, signature chain, trailer
\* and its checksum included - and then the spool holds that payload.
AcceptsOnlyCorrect ==
    result = "Ok" =>
        /\ Correct(sent)
        /\ decoded_len = conf.declared
        /\ \E p \in SeqsOf(Bytes, conf.declared) :
              /\ spool = p
              /\ trailer_info => trailer.value = [alg |-> conf.trailer, data |-> p]

\* The decoder never refuses a correct body: when it reports an error of the
\* client, what was sent is not the beginning of one, or it stopped early.
RejectsOnlyWrong ==
    result \notin {"none", "Ok", "InboundIo", "SpoolIo"} =>
        IF input = "eof" THEN ~Correct(sent) ELSE ~PrefixOfCorrect(sent)

\* The decoder holds at most one line of MAX_CHUNK_HEADER_LINE_BYTES and never
\* spools more than the declared length, whatever a chunk header announces.
Bounded == Len(line) <= MaxLine /\ Len(spool) <= conf.declared

\* A data chunk received in full whose signature does not continue the chain
\* is answered SignatureDoesNotMatch, whatever comes after it on the wire: a
\* fault in the framing that follows must not mask the tampering.
TamperingReported ==
    /\ conf.verify /\ expects_chunk_signature
    /\ pc = "done" /\ result # "SpoolIo"
    /\ header.size > 0 /\ Len(chunk) = header.size
    /\ trim_end_matches(header.sig) \notin {previous_signature, Append(previous_signature, chunk)}
    => map_decode_error(result) = "SignatureDoesNotMatch"
=============================================================================
