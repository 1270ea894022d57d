---------------------------- MODULE Credentials ----------------------------
(***************************************************************************)
(* The static credentials file of strict mode (auth/credentials.rs) and    *)
(* the gates that strict mode replaces (auth/allowlist.rs, mod.rs,         *)
(* trusted_internal.rs).                                                   *)
(*                                                                         *)
(* An entry is [akid, secret, token, expires]; token and expires may be    *)
(* None.  "" is the empty string, and a value in Padded has white space    *)
(* around it.                                                              *)
(***************************************************************************)
EXTENDS Integers, Sequences

CONSTANTS Padded, None

LoadError(f, i) ==
    LET e == f.credentials[i] IN
    \/ e.akid = "" \/ e.akid \in Padded
    \/ e.secret = "" \/ e.secret \in Padded
    \/ f.version = 1 /\ (e.token # None \/ e.expires # None)
    \/ e.token # None /\ e.expires = None
    \/ e.token = ""
    \/ \E j \in 1..(i - 1) : f.credentials[j].akid = e.akid /\ f.credentials[j].token = e.token

\* The file is refused as a whole at its first bad entry.
load_from_file(f) ==
    /\ f.version \in {1, 2}
    /\ f.credentials # <<>>
    /\ \A i \in DOMAIN f.credentials : ~LoadError(f, i)

Found(e) == [code |-> "found", entry |-> e]
NotFound == [code |-> "InvalidAccessKeyId", entry |-> None]
Expired == [code |-> "ExpiredToken", entry |-> None]

\* bucket.iter().find(..): the first entry, in the order of the file.
First(hits) == CHOOSE i \in hits : \A j \in hits : i <= j

\* Mutant: without a token any entry of the key will do.
resolve_any_namespace(creds, akid, token, now) ==
    LET hits == {i \in DOMAIN creds : /\ creds[i].akid = akid
                                      /\ token = None \/ creds[i].token = token}
    IN IF hits = {} THEN NotFound ELSE Found(creds[First(hits)])

\* The first entry under (akid, token), unless it has expired.
resolve(creds, akid, token, now) ==
    LET hits == {i \in DOMAIN creds : creds[i].akid = akid /\ creds[i].token = token}
        e == creds[First(hits)]
    IN IF hits = {} THEN NotFound
       ELSE IF e.expires # None /\ now >= e.expires THEN Expired
       ELSE Found(e)

-----------------------------------------------------------------------------
(***************************************************************************)
(* The gates.  authz is the Authorization header, [alg, params], or None.  *)
(***************************************************************************)
\* Only a Credential that comes first is seen.
extract_access_key_id(authz) ==
    IF \/ authz = None
       \/ authz.alg # "hmac" \/ authz.params = <<>>
       \/ Head(authz.params).k # "Credential"
    THEN "" ELSE Head(authz.params).v.akid

AllowlistGate(allowed, authz) ==
    extract_access_key_id(authz) # "" /\ extract_access_key_id(authz) \in allowed

create_request_gate(mode, allowed, authz) ==
    \/ mode = "trusted_internal"
    \/ mode = "access_key_allowlist" /\ AllowlistGate(allowed, authz)
=============================================================================
