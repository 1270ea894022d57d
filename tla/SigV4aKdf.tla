----------------------------- MODULE SigV4aKdf -----------------------------
(***************************************************************************)
(* The counter-mode derivation of the SigV4A key (auth/sigv4a/crypto.rs):  *)
(* HMAC outputs are drawn until one, read as a big-endian number, is at    *)
(* most N - 2; the key is that number plus one.  Numbers are sequences of  *)
(* Width bytes of value 0..Base-1, compared and incremented byte by byte.  *)
(***************************************************************************)
EXTENDS Integers, Sequences, FiniteSets

CONSTANTS
    Base, Width,   \* a scalar has Width bytes of Base values each
    N,             \* the order of the curve, 3 .. Base ^ Width
    MaxCounter     \* the last counter that is tried, at least 1

VARIABLES counter, k0, scalar, result

vars == <<counter, k0, scalar, result>>

Bytes == [1..Width -> 0..(Base - 1)]

\* What a sequence of bytes is worth.
Val(a) ==
    LET v[i \in 0..Width] == IF i = 0 THEN 0 ELSE Base * v[i - 1] + a[i] IN v[Width]

N_MINUS_2_BE == CHOOSE a \in Bytes : Val(a) = N - 2

\* Decided by the first byte that differs.
be_less_or_equal(a, b) ==
    \/ a = b
    \/ \E i \in 1..Width : a[i] < b[i] /\ \A j \in 1..(i - 1) : a[j] = b[j]

\* Mutant: the carry is lost.
be_add_one_no_carry(a) == [a EXCEPT ![Width] = (@ + 1) % Base]

\* The carry goes as far left as the bytes are at their maximum.
be_add_one(a) ==
    [i \in 1..Width |-> IF \A j \in (i + 1)..Width : a[j] = Base - 1 THEN (a[i] + 1) % Base ELSE a[i]]

Init == counter = 1 /\ k0 = <<>> /\ scalar = <<>> /\ result = "deriving"

\* One round of derive_sigv4a_private_scalar, with any HMAC output.
Round(h) ==
    /\ result = "deriving" /\ counter <= MaxCounter
    /\ k0' = h
    /\ IF be_less_or_equal(h, N_MINUS_2_BE)
       THEN scalar' = be_add_one(h) /\ result' = "derived" /\ UNCHANGED counter
       ELSE counter' = counter + 1 /\ UNCHANGED <<scalar, result>>

Exhausted ==
    /\ result = "deriving" /\ counter > MaxCounter
    /\ result' = "KdfExhausted"
    /\ UNCHANGED <<counter, k0, scalar>>

Next == Exhausted \/ \E h \in Bytes : Round(h)

Spec == Init /\ [][Next]_vars

\* The private key is in 1..N-1, so building the key cannot fail, and it is
\* the successor of the output it came from: no carry is lost and none wraps.
ScalarValid ==
    result = "derived" => Val(scalar) \in 1..(N - 1) /\ Val(scalar) = Val(k0) + 1

\* No usable output is thrown away: another round only follows one that is
\* out of range.
RetryJustified == counter' # counter => Val(k0') > N - 2
=============================================================================
