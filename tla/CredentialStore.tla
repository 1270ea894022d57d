-------------------------- MODULE CredentialStore --------------------------
(* The proxy starts with a credentials file and looks credentials up.      *)
EXTENDS Credentials, SequencesExt

CONSTANTS AccessKeys, Secrets, FileTokens, FileExpiries, MaxEntries, MaxClock

ASSUME StoreAssumption == FileExpiries \subseteq Int /\ MaxEntries \in Nat /\ MaxClock \in Nat

VARIABLES file, state, clock, last

storeVars == <<file, state, clock, last>>

Entries ==
    [akid : AccessKeys, secret : Secrets, token : FileTokens \cup {None},
     expires : FileExpiries \cup {None}]

NoLookup == [akid |-> None, token |-> None, result |-> NotFound]

StoreInit ==
    /\ \E v \in 0..2, n \in 0..MaxEntries : \E es \in [1..n -> Entries] :
          file = [version |-> v, credentials |-> es]
    /\ state = "down" /\ clock = 0 /\ last = NoLookup

\* A file with an error keeps the proxy from starting.
Start ==
    /\ state = "down"
    /\ state' = IF load_from_file(file) THEN "up" ELSE "refused"
    /\ UNCHANGED <<file, clock, last>>

\* The token of a request is never empty.
Lookup(akid, token) ==
    /\ state = "up"
    /\ last' = [akid |-> akid, token |-> token,
                result |-> resolve(file.credentials, akid, token, clock)]
    /\ UNCHANGED <<file, state, clock>>

Tick ==
    /\ state = "up" /\ clock < MaxClock /\ clock' = clock + 1 /\ last' = NoLookup
    /\ UNCHANGED <<file, state>>

StoreNext ==
    \/ Start \/ Tick
    \/ \E a \in AccessKeys, t \in (FileTokens \ {""}) \cup {None} : Lookup(a, t)

StoreSpec == StoreInit /\ [][StoreNext]_storeVars

-----------------------------------------------------------------------------
Reordered(creds, p) == [i \in DOMAIN creds |-> creds[p[i]]]

\* What a lookup finds does not depend on the order of the file, though it
\* takes the first entry that matches.
OrderIrrelevant ==
    last.akid # None =>
        \A p \in Bijection(DOMAIN file.credentials, DOMAIN file.credentials) :
            last.result = resolve(Reordered(file.credentials, p), last.akid, last.token, clock)

\* Temporary and long-lived credentials are never taken for each other, and
\* a temporary one is found only before its end.
LookupSound ==
    last.result.code = "found" =>
        LET e == last.result.entry IN
        /\ e.akid = last.akid /\ e.token = last.token
        /\ e.secret # "" /\ e.secret \notin Padded
        /\ e.token # None => e.expires # None /\ clock < e.expires

(* A lookup finds the entry of its own namespace, alive, and the same        *)
(* whatever the order of the file.                                           *)
LookupsSound == OrderIrrelevant /\ LookupSound
=============================================================================
