--------------------------- MODULE CanonicalForm ---------------------------
(***************************************************************************)
(* The canonical query string and header values that SigV4 signs           *)
(* (auth/sigv4/canonical.rs), on sequences of byte values.  The verifier   *)
(* rebuilds from the query as received what the client built from the      *)
(* parameters it meant: the result may not depend on the spelling, and may *)
(* not confuse two queries.                                                *)
(***************************************************************************)
EXTENDS Integers, Sequences, FiniteSets, SequencesExt

CONSTANTS
    QueryBytes, HeaderBytes,   \* the bytes inputs are made of
    MaxQuery, MaxHeader        \* bounds: their lengths

VARIABLES raw, value

vars == <<raw, value>>

Amp == 38
Eq == 61
Pct == 37
Space == 32

Hex == (48..57) \cup (65..70) \cup (97..102)

hex_nibble(b) == IF b <= 57 THEN b - 48 ELSE IF b <= 70 THEN b - 55 ELSE b - 87

\* A percent sign that no two hex digits follow stands for itself, and so
\* does a plus sign.
percent_decode_for_query(s) ==
    LET dec[i \in 1..(Len(s) + 1)] ==
            IF i > Len(s) THEN <<>>
            ELSE IF s[i] = Pct /\ i + 2 <= Len(s) /\ s[i + 1] \in Hex /\ s[i + 2] \in Hex
            THEN <<16 * hex_nibble(s[i + 1]) + hex_nibble(s[i + 2])>> \o dec[i + 3]
            ELSE <<s[i]>> \o dec[i + 1]
    IN dec[1]

Unreserved == (48..57) \cup (65..90) \cup (97..122) \cup {45, 46, 95, 126}

Digit(n) == IF n < 10 THEN 48 + n ELSE 55 + n

aws_uri_encode_bytes(bs) ==
    LET enc(b) == IF b \in Unreserved THEN <<b>> ELSE <<Pct, Digit(b \div 16), Digit(b % 16)>>
    IN FlattenSeq([i \in DOMAIN bs |-> enc(bs[i])])

\* The parts of s between the separators.
Split(s, sep) ==
    LET step(b, parts) == IF b = sep THEN Append(parts, <<>>)
                          ELSE [parts EXCEPT ![Len(parts)] = Append(@, b)]
    IN FoldLeft(LAMBDA parts, b : step(b, parts), <<<<>>>>, s)

Chunks(s) == SelectSeq(Split(s, Amp), LAMBDA c : c # <<>>)

SplitOnce(c) ==
    LET at == {i \in DOMAIN c : c[i] = Eq} IN
    IF at = {} THEN <<c, <<>>>>
    ELSE LET i == CHOOSE i \in at : \A j \in at : i <= j
         IN <<SubSeq(c, 1, i - 1), SubSeq(c, i + 1, Len(c))>>

\* The parameters of a query, as meant.
Decoded(s) ==
    LET cs == Chunks(s) IN
    [i \in DOMAIN cs |-> <<percent_decode_for_query(SplitOnce(cs[i])[1]),
                           percent_decode_for_query(SplitOnce(cs[i])[2])>>]

Less(a, b) ==
    \/ \E i \in DOMAIN b : /\ i \notin DOMAIN a \/ a[i] < b[i]
                           /\ \A j \in 1..(i - 1) : j \in DOMAIN a /\ a[j] = b[j]

PairLess(p, q) == Less(p[1], q[1]) \/ (p[1] = q[1] /\ Less(p[2], q[2]))

Joined(ps) ==
    FlattenSeq([i \in DOMAIN ps |->
        (IF i > 1 THEN <<Amp>> ELSE <<>>) \o ps[i][1] \o <<Eq>> \o ps[i][2]])

Encoded(ps) == [i \in DOMAIN ps |-> <<aws_uri_encode_bytes(ps[i][1]), aws_uri_encode_bytes(ps[i][2])>>]

\* Mutant: the parameters keep their order.
canonicalize_unsorted(s) == Joined(Encoded(Decoded(s)))

canonicalize_query(s) == Joined(SortSeq(Encoded(Decoded(s)), PairLess))

-----------------------------------------------------------------------------
(***************************************************************************)
(* Header values                                                           *)
(***************************************************************************)
Inner(s) ==
    LET solid == {i \in DOMAIN s : s[i] # Space} IN
    IF solid = {} THEN <<>>
    ELSE SubSeq(s, CHOOSE i \in solid : \A j \in solid : i <= j,
                   CHOOSE i \in solid : \A j \in solid : i >= j)

\* Spaces at the ends go, runs of spaces become one; tabs stay.
trim_ws(s) ==
    LET t == Inner(s)
        kept == SelectSeq([i \in DOMAIN t |-> i], LAMBDA i : t[i] # Space \/ t[i - 1] # Space)
    IN [i \in DOMAIN kept |-> t[kept[i]]]

\* The session token is looked up by a normalisation of its own.
normalize_sigv4_header_value(s) ==
    LET t == Inner(s)
        kept == SelectSeq([i \in DOMAIN t |-> i], LAMBDA i : t[i] # Space \/ t[i - 1] # Space)
    IN [i \in DOMAIN kept |-> t[kept[i]]]

-----------------------------------------------------------------------------
Init == raw = <<>> /\ value = <<>>

\* Every input of the bounded lengths is reached.
Next ==
    \/ /\ Len(raw) < MaxQuery /\ value = <<>>
       /\ \E b \in QueryBytes : raw' = Append(raw, b)
       /\ UNCHANGED value
    \/ /\ Len(value) < MaxHeader /\ raw = <<>>
       /\ \E b \in HeaderBytes : value' = Append(value, b)
       /\ UNCHANGED raw

Spec == Init /\ [][Next]_vars

Times(ps, p) == Cardinality({i \in DOMAIN ps : ps[i] = p})

\* The canonical query has exactly the parameters of the query, each as often:
\* two queries with the same canonical form mean the same, because nothing a
\* parameter contains is taken for a separator or an escape.
CanonicalFaithful ==
    LET a == Decoded(raw)
        b == Decoded(canonicalize_query(raw))
    IN Len(a) = Len(b) /\ \A i \in DOMAIN a : Times(a, a[i]) = Times(b, a[i])

\* A client that sends its canonical query as it signed it is understood: the
\* canonical form is its own canonical form.
CanonicalStable == canonicalize_query(canonicalize_query(raw)) = canonicalize_query(raw)

Reversed ==
    LET cs == Reverse(Chunks(raw)) IN
    FlattenSeq([i \in DOMAIN cs |-> (IF i > 1 THEN <<Amp>> ELSE <<>>) \o cs[i]])

\* The order of the parameters does not matter.
OrderFree == canonicalize_query(Reversed) = canonicalize_query(raw)

\* The token by which the credential is found is the token that is signed,
\* and what a proxy does to the spaces around it changes neither.
TokenAsSigned ==
    /\ normalize_sigv4_header_value(value) = trim_ws(value)
    /\ trim_ws(trim_ws(value)) = trim_ws(value)
    /\ trim_ws(<<Space>> \o value \o <<Space, Space>>) = trim_ws(value)
=============================================================================
