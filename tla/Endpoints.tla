----------------------------- MODULE Endpoints -----------------------------
(***************************************************************************)
(* What the proxy takes for the scheme and the user information of         *)
(* BACKEND_ENDPOINT, and what it logs of it (config.rs), on sequences of   *)
(* characters.                                                             *)
(***************************************************************************)
EXTENDS Integers, Sequences

CONSTANTS Chars, MaxLength

VARIABLES endpoint

\* Where a string is cut at the first position that satisfies P; 0 if none.
First(s, P(_)) ==
    LET at == {i \in DOMAIN s : P(i)} IN
    IF at = {} THEN 0 ELSE CHOOSE i \in at : \A j \in at : i <= j

Last(s, P(_)) ==
    LET at == {i \in DOMAIN s : P(i)} IN
    IF at = {} THEN 0 ELSE CHOOSE i \in at : \A j \in at : i >= j

\* The colon of the first "://".
SchemeEnd(s) ==
    First(s, LAMBDA i : i + 2 <= Len(s) /\ s[i] = ":" /\ s[i + 1] = "/" /\ s[i + 2] = "/")

HasScheme(s) == SchemeEnd(s) # 0

endpoint_scheme(s) == IF HasScheme(s) THEN SubSeq(s, 1, SchemeEnd(s) - 1) ELSE <<>>

Rest(s) == SubSeq(s, SchemeEnd(s) + 3, Len(s))

\* The authority ends at the first "/", "?" or "#".
AuthorityEnd(r) ==
    LET i == First(r, LAMBDA j : r[j] \in {"/", "?", "#"}) IN IF i = 0 THEN Len(r) ELSE i - 1

Authority(s) == SubSeq(Rest(s), 1, AuthorityEnd(Rest(s)))

Suffix(s) == SubSeq(Rest(s), AuthorityEnd(Rest(s)) + 1, Len(Rest(s)))

\* The user information goes up to the last "@".
rsplit_at(a) == Last(a, LAMBDA i : a[i] = "@")

endpoint_has_userinfo(s) == HasScheme(s) /\ rsplit_at(Authority(s)) > 1

redact_url_userinfo(s) ==
    IF ~HasScheme(s) \/ endpoint_scheme(s) = <<>> \/ rsplit_at(Authority(s)) = 0 THEN s
    ELSE endpoint_scheme(s) \o <<":", "/", "/">>
         \o SubSeq(Authority(s), rsplit_at(Authority(s)) + 1, Len(Authority(s))) \o Suffix(s)

Init == endpoint = <<>>

Next == Len(endpoint) < MaxLength /\ \E c \in Chars : endpoint' = Append(endpoint, c)

Spec == Init /\ [][Next]_endpoint

\* Every part of the authority that a URL parser would take for the user
\* information: all before some "@".
Secret(s) == IF HasScheme(s) THEN {i \in DOMAIN Authority(s) : Authority(s)[i] = "@"} ELSE {}

\* What an endpoint that passes the check shows in the log contains no user
\* information, wherever the "@" stands.
LogHidesUserinfo ==
    ~endpoint_has_userinfo(endpoint) /\ endpoint_scheme(endpoint) # <<>>
        => Secret(redact_url_userinfo(endpoint)) = {}

\* Redaction changes the user information and nothing else.
RedactsOnlyUserinfo ==
    LET r == redact_url_userinfo(endpoint) IN
    /\ endpoint_scheme(r) = endpoint_scheme(endpoint)
    /\ HasScheme(endpoint) =>
          /\ Suffix(r) = Suffix(endpoint)
          /\ \E k \in 0..Len(Authority(endpoint)) :
                /\ k = 0 \/ Authority(endpoint)[k] = "@"
                /\ Authority(r) = SubSeq(Authority(endpoint), k + 1, Len(Authority(endpoint)))
=============================================================================
