----------------------------- MODULE MCRequests -----------------------------
(***************************************************************************)
(* The path of one request in one run: dispatch and the gates of the typed *)
(* calls ("dispatch"), the decoder of aws-chunked bodies ("chunked") and   *)
(* the parser of multipart completions ("xml").  They share no state: in   *)
(* each behaviour one of them moves, and a variable two of them name       *)
(* belongs to that one.                                                    *)
(***************************************************************************)
EXTENDS MCDispatch, AwsChunked

CONSTANT None

VARIABLES
    part,
    open, meant, children, texted, odd, checksum, parsed, detected   \* MultipartXml

chunkedOnly == <<conf, sent, input, inbuf, line, pc, header, chunk, decoded_len,
                 previous_data_chunk_size, previous_signature, trailer, spool>>
xmlOnly == <<open, meant, children, texted, odd, checksum, parsed, detected>>
allVars == <<part, vars, chunkedVars, xmlOnly>>

-----------------------------------------------------------------------------
(* The decoders: the wire formats, with and without verification, for every  *)
(* declared length up to a bound.                                            *)

Conf(alg, trailer_, verify, declared) ==
    [alg |-> alg, trailer |-> trailer_, verify |-> verify, declared |-> declared]

\* Framing: no verification, payloads that contain line feeds.
ShapeConfs ==
    {Conf("none", "crc32", FALSE, n) : n \in {0, 3}}
      \cup {Conf("hmac", "crc32", FALSE, 2), Conf("ecdsa", "none", FALSE, 3)}

\* Signatures: the chain over two data chunks, the zero chunk and the trailer.
SignedConfs ==
    {Conf("hmac", "none", TRUE, 3), Conf("hmac", "crc32", TRUE, 2),
     Conf("ecdsa", "sha256", TRUE, 3)}

AllConfs == ShapeConfs \cup SignedConfs

\* Payloads are made of the bytes that also delimit lines.
PayloadBytes == {CR, LF}

Xml == INSTANCE MultipartXml WITH
           p <- parsed, MaxParts <- 2, MaxChildren <- 3, MaxOdd <- 2

-----------------------------------------------------------------------------
\* The variables of the parts that do not move.
Unused ==
    /\ IF part = "chunked" THEN TRUE
       ELSE /\ conf = None /\ sent = None /\ input = None /\ inbuf = None /\ line = None
            /\ pc = None /\ header = None /\ chunk = None /\ decoded_len = None
            /\ previous_data_chunk_size = None /\ previous_signature = None
            /\ trailer = None /\ spool = None
    /\ IF part = "xml" THEN TRUE
       ELSE /\ open = None /\ meant = None /\ children = None /\ texted = None
            /\ odd = None /\ checksum = None /\ parsed = None /\ detected = None
    /\ IF part = "dispatch" THEN result = None ELSE strict = FALSE

MCInit ==
    /\ part \in {"dispatch", "chunked", "xml"}
    /\ Unused
    /\ Init
    /\ part = "chunked" => ChunkedInit
    /\ part = "xml" => Xml!Init

MCNext ==
    /\ UNCHANGED part
    /\ \/ part = "dispatch" /\ Next /\ UNCHANGED <<chunkedVars, xmlOnly>>
       \/ part = "chunked" /\ ChunkedNext /\ UNCHANGED <<vars, xmlOnly>>
       \/ part = "xml" /\ Xml!Next /\ UNCHANGED <<vars, chunkedOnly>>

MCSpec == MCInit /\ [][MCNext]_allVars

-----------------------------------------------------------------------------
(***************************************************************************)
(* Properties                                                              *)
(***************************************************************************)
(* The decoder is chosen whatever the order of the markers of the stream,    *)
(* and a signed stream on an operation that has no decoder is passed on raw  *)
(* or ignored; however the reads split a body, it is accepted exactly when a *)
(* correct client sends it for the declared length, within the decoder's     *)
(* bounds, and a chunk that breaks the signature chain is reported as such.  *)
DecodesExactly ==
    /\ ModeIgnoresOrder /\ OtherStreamsUntouched
    /\ part = "chunked" =>
          /\ DecoderTypeOK /\ Bounded
          /\ AcceptsOnlyCorrect /\ RejectsOnlyWrong /\ TamperingReported

(* The parts sent to the backend are the Part elements of the document, none *)
(* made up of two and none left out but one that a truncated document leaves *)
(* open, and checksums in a document that would be completed part by part    *)
(* are seen.                                                                 *)
PartsExact ==
    part = "xml" => Xml!ConformingParses /\ Xml!PartsFromOneElement /\ Xml!ChecksumsSeen
=============================================================================
