---------------------------- MODULE MultipartXml ----------------------------
(***************************************************************************)
(* Reading the body of CompleteMultipartUpload (s3/xml.rs): the parser of  *)
(* the parts and the search for checksum elements, over the events of one  *)
(* XML document.  The document is written while it is read.  References,   *)
(* comments and CDATA arrive as events of their own that both readers      *)
(* ignore, so one text of the document may come as several Text events.    *)
(***************************************************************************)
EXTENDS Integers, Sequences, SequencesExt

CONSTANTS
    MaxParts,     \* bound: Part elements under the root
    MaxChildren,  \* bound: elements in one Part
    MaxOdd        \* bound: events that the schema of the request does not have

VARIABLES
    open,      \* document: the names of the open elements
    meant,     \* document: for each Part under the root, the texts in its children
    children,  \* document: elements so far in the current Part
    texted,    \* document: the innermost element has a text
    odd,       \* document: events outside the schema
    checksum,  \* document: it has a checksum element
    p,         \* the locals of parse_complete_multipart_body
    detected,  \* what body_has_checksum_elements has found
    result     \* "none" while parsing, "ok" or "error"

document == <<open, meant, children, texted, odd, checksum>>
vars == <<document, p, detected, result>>

Absent == "none"
Root == "CompleteMultipartUpload"
Names == {Root, "Part", "PartNumber", "ETag", "ChecksumSHA256", "ns:ChecksumSHA256"}
Numbers == {"1", "2"}
Texts == Numbers \cup {"x"}

Path(k) == SubSeq(<<Root, "Part">>, 1, k)

\* The fields of the current Part that have a text.
Given == {f \in {"PartNumber", "ETag"} : Last(meant)[f] # <<>>}

\* The elements that the schema of the request allows next.
Allowed ==
    CASE open = <<>> -> {Root}
      [] open = Path(1) -> {"Part"}
      [] open = Path(2) -> Names \ ({Root, "Part"} \cup Given)
      [] OTHER -> {}

\* The current element has all that the schema wants in it.
Complete ==
    CASE open = Path(1) -> meant # <<>>
      [] open = Path(2) -> Given = {"PartNumber", "ETag"}
      [] OTHER -> texted

Init ==
    /\ open = <<>> /\ meant = <<>> /\ children = 0 /\ texted = FALSE
    /\ odd = 0 /\ checksum = FALSE
    /\ p = [parts |-> <<>>, part_number |-> Absent, etag |-> Absent, inside_part |-> FALSE,
            found_root |-> FALSE, depth |-> 0, current_element |-> Absent]
    /\ detected = FALSE /\ result = Absent

local_name(name) == IF name = "ns:ChecksumSHA256" THEN "ChecksumSHA256" ELSE name

IsChecksum(name) == local_name(name) = "ChecksumSHA256"

\* The search looks at the local name of every element, empty or not.
body_has_checksum_elements(name) == detected' = (detected \/ IsChecksum(name))

-----------------------------------------------------------------------------
\* The three ways an element opens that the parser acts on.
StartsRoot(name) == name = Root /\ p.depth = 0
StartsPart(name) == name = "Part" /\ p.found_root /\ p.depth = 1
StartsField(name) == name \in {"PartNumber", "ETag"} /\ p.inside_part /\ p.depth = 2

\* Mutant: the fields of the previous part are kept.
OpenPartKeeping == [p EXCEPT !.inside_part = TRUE, !.depth = @ + 1]

OpenPart ==
    [p EXCEPT !.inside_part = TRUE, !.part_number = Absent, !.etag = Absent, !.depth = @ + 1]

\* Event::Start.  A second PartNumber or ETag is refused.
ParseStart(name) ==
    LET field == IF name = "ETag" THEN p.etag ELSE p.part_number IN
    \/ StartsRoot(name) /\ p' = [p EXCEPT !.found_root = TRUE, !.depth = @ + 1] /\ UNCHANGED result
    \/ StartsPart(name) /\ p' = OpenPart /\ UNCHANGED result
    \/ StartsField(name) /\ field # Absent /\ result' = "error" /\ UNCHANGED p
    \/ /\ StartsField(name) /\ field = Absent
       /\ p' = [p EXCEPT !.current_element = name, !.depth = @ + 1] /\ UNCHANGED result
    \/ /\ ~StartsRoot(name) /\ ~StartsPart(name) /\ ~StartsField(name)
       /\ p' = [p EXCEPT !.depth = @ + 1] /\ UNCHANGED result

\* Event::Empty.
ParseEmpty(name) ==
    /\ p' = IF StartsRoot(name) THEN [p EXCEPT !.found_root = TRUE] ELSE p
    /\ UNCHANGED result

\* Event::Text.  The last text of a field counts.
ParseText(text) ==
    LET e == IF p.inside_part THEN p.current_element ELSE Absent IN
    \/ e = Absent /\ UNCHANGED <<p, result>>
    \/ e = "ETag" /\ p' = [p EXCEPT !.etag = text] /\ UNCHANGED result
    \/ e = "PartNumber" /\ text \in Numbers /\ p' = [p EXCEPT !.part_number = text] /\ UNCHANGED result
    \/ e = "PartNumber" /\ text \notin Numbers /\ result' = "error" /\ UNCHANGED p

\* An element that closes is no longer current.
Close == [p EXCEPT !.depth = @ - 1, !.current_element = Absent]

\* Event::End.
ParseEnd(name) ==
    LET ends == name = "Part" /\ p.inside_part
        q == Close
    IN
    \/ ends /\ Absent \in {p.part_number, p.etag} /\ result' = "error" /\ UNCHANGED p
    \/ /\ ends /\ Absent \notin {p.part_number, p.etag}
       /\ p' = [q EXCEPT !.parts = Append(@, [part_number |-> p.part_number, etag |-> p.etag]),
                         !.etag = Absent, !.inside_part = FALSE]
       /\ UNCHANGED result
    \/ ~ends /\ p' = q /\ UNCHANGED result

-----------------------------------------------------------------------------
(***************************************************************************)
(* The document: one root, elements that nest.  Up to MaxOdd events may    *)
(* break the schema.                                                       *)
(***************************************************************************)
Bounded(regular) == odd' = (IF regular THEN odd ELSE odd + 1) /\ odd' <= MaxOdd

Written == meant # <<>> \/ p.found_root \/ odd > 0

Start(name) ==
    /\ result = Absent /\ Bounded(name \in Allowed)
    /\ open = <<>> => ~Written
    /\ open' = Append(open, name) /\ texted' = FALSE
    /\ IF open = Path(1) /\ name = "Part"
       THEN /\ Len(meant) < MaxParts /\ children' = 0
            /\ meant' = Append(meant, [PartNumber |-> <<>>, ETag |-> <<>>])
       ELSE /\ open = Path(2) => children < MaxChildren
            /\ children' = IF open = Path(2) THEN children + 1 ELSE children
            /\ UNCHANGED meant
    /\ checksum' = (checksum \/ IsChecksum(name))
    /\ body_has_checksum_elements(name) /\ ParseStart(name)

\* An empty element has no text, and the schema wants one in every leaf.
Empty(name) ==
    /\ result = Absent /\ Bounded(FALSE)
    /\ open = <<>> => ~Written
    /\ checksum' = (checksum \/ IsChecksum(name))
    /\ body_has_checksum_elements(name) /\ ParseEmpty(name)
    /\ UNCHANGED <<open, meant, children, texted>>

Text(text) ==
    /\ result = Absent /\ open # <<>>
    /\ Bounded(/\ Len(open) = 3 /\ Front(open) = Path(2) /\ ~texted
               /\ Last(open) = "PartNumber" => text \in Numbers)
    /\ texted' = TRUE
    /\ meant' = IF /\ Len(open) > 2 /\ SubSeq(open, 1, 2) = Path(2)
                   /\ open[3] \in {"PartNumber", "ETag"}
                THEN [meant EXCEPT ![Len(meant)][open[3]] = Append(@, text)]
                ELSE meant
    /\ ParseText(text)
    /\ UNCHANGED <<open, children, checksum, detected>>

End ==
    /\ result = Absent /\ open # <<>> /\ Bounded(Complete)
    /\ open' = Front(open) /\ texted' = FALSE
    /\ ParseEnd(Last(open))
    /\ UNCHANGED <<meant, children, checksum, detected>>

\* Event::Eof, in a truncated document too.
Eof ==
    /\ result = Absent /\ Bounded(open = <<>> /\ meant # <<>>)
    /\ result' = IF p.found_root /\ p.parts # <<>> THEN "ok" ELSE "error"
    /\ UNCHANGED <<open, meant, children, texted, checksum, p, detected>>

\* What is not XML ends both readers.
Malformed ==
    /\ result = Absent /\ result' = "error" /\ Bounded(FALSE)
    /\ UNCHANGED <<open, meant, children, texted, checksum, p, detected>>

Next ==
    \/ \E name \in Names : Start(name) \/ Empty(name)
    \/ \E text \in Texts : Text(text)
    \/ End \/ Eof \/ Malformed

Spec == Init /\ [][Next]_vars

-----------------------------------------------------------------------------
\* A document of the request's schema is never refused, and parses to the parts
\* it names: no text of a checksum element or of another part gets into a field
\* (parse_complete_multipart_body).
ConformingParses ==
    odd = 0 =>
        /\ result # "error"
        /\ result = "ok" => p.parts = [i \in DOMAIN meant |->
              [part_number |-> meant[i].PartNumber[1], etag |-> meant[i].ETag[1]]]

\* Whatever the document, the parts sent to the backend are its Part elements in
\* order, each with a number and an ETag out of that element: none is made up of
\* two elements or repeated, and none is left out, but for the Part that is open
\* where a truncated document ends, which the parser accepts without it.
PartsFromOneElement ==
    result = "ok" =>
        /\ \/ Len(p.parts) = Len(meant)
           \/ Len(open) > 1 /\ Len(p.parts) = Len(meant) - 1
        /\ \A i \in DOMAIN p.parts :
             /\ p.parts[i].part_number \in ToSet(meant[i].PartNumber)
             /\ p.parts[i].etag \in ToSet(meant[i].ETag)

\* A body that would be completed part by part, which cannot carry checksums,
\* while the document has some, is seen to have them (and is passed through).
ChecksumsSeen == result = "ok" /\ checksum => detected
=============================================================================
