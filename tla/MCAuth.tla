------------------------------- MODULE MCAuth -------------------------------
(***************************************************************************)
(* Inbound authentication and secrets in one run: the verification of a    *)
(* signed request ("request"), the credentials file ("store"), the         *)
(* canonical query and header values ("canonical"), the derivation of      *)
(* SigV4a keys ("kdf") and the endpoint in the log ("url").  Verification  *)
(* is a function of the request, the credentials and the clock, so the     *)
(* parts share no state: in each behaviour one of them moves.              *)
(***************************************************************************)
EXTENDS InboundAuth, CredentialStore

VARIABLES
    part,
    canon_raw, canon_value,                           \* CanonicalForm
    kdf_counter, kdf_k0, kdf_scalar, kdf_result,      \* SigV4aKdf
    endpoint                                          \* Endpoints

canonVars == <<canon_raw, canon_value>>
kdfVars == <<kdf_counter, kdf_k0, kdf_scalar, kdf_result>>
allVars == <<part, vars, storeVars, canonVars, kdfVars, endpoint>>

\* Queries over % & = 2 6 a and header values over space, tab and a.
Canonical == INSTANCE CanonicalForm WITH
                 raw <- canon_raw, value <- canon_value,
                 QueryBytes <- {37, 38, 61, 50, 54, 97}, HeaderBytes <- {32, 9, 97},
                 MaxQuery <- 6, MaxHeader <- 6

\* Scalars of three base-4 bytes; 50 is below 4^3, as the order of P-256 is
\* below 2^256.
Kdf == INSTANCE SigV4aKdf WITH
           counter <- kdf_counter, k0 <- kdf_k0, scalar <- kdf_scalar, result <- kdf_result,
           Base <- 4, Width <- 3, N <- 50, MaxCounter <- 3

Url == INSTANCE Endpoints WITH Chars <- {":", "/", "@", "a", "?"}, MaxLength <- 7

-----------------------------------------------------------------------------
(* Two long-lived keys, and a temporary credential that shares the access    *)
(* key id and the secret of the first.                                       *)

MCCreds ==
    <<[akid |-> "a1", secret |-> "s1", token |-> None, expires |-> None],
      [akid |-> "a1", secret |-> "s1", token |-> "t1", expires |-> 4],
      [akid |-> "a2", secret |-> "s2", token |-> None, expires |-> None]>>

MCNameOrder ==
    <<"date", "host", "x-amz-content-sha256", "x-amz-date", "x-amz-region-set",
      "x-amz-security-token", "x-extra">>

MCLeaves == {None, "x-amz-date", "x-amz-security-token", "x-extra"}

-----------------------------------------------------------------------------
\* The variables of the parts that do not move.
Unused ==
    /\ IF part = "request" THEN TRUE
       ELSE /\ now = None /\ form = None /\ sent = None /\ wire = None
            /\ touched = None /\ verdict = None
    /\ IF part = "store" THEN TRUE
       ELSE file = None /\ state = None /\ clock = None /\ last = NoLookup
    /\ IF part = "canonical" THEN TRUE ELSE canon_raw = None /\ canon_value = None
    /\ IF part = "kdf" THEN TRUE
       ELSE kdf_counter = None /\ kdf_k0 = None /\ kdf_scalar = None /\ kdf_result = None
    /\ IF part = "url" THEN TRUE ELSE endpoint = None

MCInit ==
    /\ part \in {"request", "store", "canonical", "kdf", "url"}
    /\ Unused
    /\ \/ part = "request" /\ Init
       \/ part = "store" /\ StoreInit
       \/ part = "canonical" /\ Canonical!Init
       \/ part = "kdf" /\ Kdf!Init
       \/ part = "url" /\ Url!Init

MCNext ==
    /\ UNCHANGED part
    /\ \/ part = "request" /\ Next /\ UNCHANGED <<storeVars, canonVars, kdfVars, endpoint>>
       \/ part = "store" /\ StoreNext /\ UNCHANGED <<vars, canonVars, kdfVars, endpoint>>
       \/ part = "canonical" /\ Canonical!Next /\ UNCHANGED <<vars, storeVars, kdfVars, endpoint>>
       \/ part = "kdf" /\ Kdf!Next /\ UNCHANGED <<vars, storeVars, canonVars, endpoint>>
       \/ part = "url" /\ Url!Next /\ UNCHANGED <<vars, storeVars, canonVars, kdfVars>>

MCSpec == MCInit /\ [][MCNext]_allVars

-----------------------------------------------------------------------------
(***************************************************************************)
(* Properties                                                              *)
(***************************************************************************)
(* A request that strict verification accepts is what the holder of the      *)
(* credential signed, in time, with no claim about a body nobody verified.   *)
OnlyAuthentic ==
    part = "request" => Authentic /\ InTime /\ UnverifiedBodyUnclaimed /\ GatesAgree

(* A request signed as prescribed and delivered in time is accepted, however *)
(* its parameters and headers were reordered, cut into lines or added to on  *)
(* the way.  Prescribed is what auth/sigv4/parser.rs:22-25 says of the       *)
(* signed headers, a carried x-amz-date among them.                          *)
AcceptsConforming == part = "request" => ConformingAccepted

(* What is read character by character is read right.  Two queries with the  *)
(* same canonical form mean the same, a canonical query is its own canonical *)
(* form whatever its order, and the token that finds the credential is the   *)
(* one that is signed.  An endpoint that passes the checks shows no user     *)
(* information in the log, and the log nothing else than the endpoint.       *)
TextSound ==
    /\ part = "canonical" => /\ Canonical!CanonicalFaithful /\ Canonical!CanonicalStable
                             /\ Canonical!OrderFree /\ Canonical!TokenAsSigned
    /\ part = "url" => Url!LogHidesUserinfo /\ Url!RedactsOnlyUserinfo

(* The derived private key is in the range of the curve and the successor of *)
(* the output it came from, and no usable output is thrown away.             *)
KeysDerived == [][part = "kdf" => Kdf!ScalarValid' /\ Kdf!RetryJustified]_allVars
=============================================================================
