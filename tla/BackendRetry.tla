---------------------------- MODULE BackendRetry ----------------------------
(***************************************************************************)
(* How one proxied request reaches the S3 backend: the typed methods of    *)
(* S3Backend under with_retry (backend/retry.rs, backend/client.rs) and    *)
(* the raw send loops of handle_passthrough (handlers/passthrough.rs).     *)
(*                                                                         *)
(* The network is unreliable.  An attempt stays in `net' until the backend *)
(* processes it, which may be after the proxy gave up waiting for it; an   *)
(* answer that comes after the timeout is never read.  Elapsed time is     *)
(* left out: a backoff is a state that is left by a step.                  *)
(***************************************************************************)
EXTENDS Integers, FiniteSets

CONSTANTS
    Calls,          \* proxied requests running at the same time
    Ops,            \* operations the calls may ask for
    MaxAttempts,    \* bound on the *_max_attempts of the configuration
    BodyLimit,      \* max_request_body_bytes
    None

Typed == {"GetObject", "HeadObject", "ListObjects", "PutObject",
          "PutObjectFromPath", "DeleteObject", "CreateMultipartUpload",
          "UploadPart", "UploadPartFromPath", "CompleteMultipartUpload",
          "AbortMultipartUpload"}

Raw == {"GET", "HEAD", "DELETE", "PUT", "POST"}

ASSUME OpAssumption == Ops \subseteq Typed \cup Raw /\ None \notin Typed \cup Raw
ASSUME LimitAssumption == MaxAttempts \in Nat /\ BodyLimit \in Nat /\ None \notin Nat

VARIABLES
    config,     \* what S3Backend and passthrough are configured with
    call,       \* the proxy's side of each call
    net,        \* attempts sent and not yet processed by the backend
    answers,    \* answers on their way back
    applied,    \* how often the backend carried out each call's effect
    object      \* the call that last wrote the object, None when deleted

backendVars == <<config, call, net, answers, applied, object>>

(***************************************************************************)
(* Errors.  `timeout' and `backend' are the transport errors; an upstream  *)
(* answer keeps its status.  500 stands for the server errors a backend    *)
(* may give after it carried the request out (500, 502, 504), 503 for the  *)
(* ones that say it did not (408, 429, 503).                               *)
(***************************************************************************)
Statuses == {200, 403, 404, 500, 503}

Err(kind, status) == [kind |-> kind, status |-> status]

\* What a call may end with.
Results == [kind : {"ok", "answer", "internal", "auth", "upstream", "timeout",
                    "backend", "too_large"}, status : Statuses \cup {0}]

ASSUME ResultAssumption == None \notin Results

map_sdk_error(failure, status) ==
    CASE failure = "construction" -> Err("internal", 0)
      [] failure = "timeout" -> Err("timeout", 0)
      [] failure = "answer" /\ status = 403 -> Err("auth", 0)
      [] failure = "answer" /\ status # 403 -> Err("upstream", status)
      [] OTHER -> Err("backend", 0)

for_reads == [codes |-> {500, 503}, transport |-> TRUE]

for_idempotent_writes == [codes |-> {500, 503}, transport |-> TRUE]

\* Mutant: a write is repeated after a 500.
EagerWrites == [codes |-> {500, 503}, transport |-> FALSE]
for_writes == [codes |-> {503}, transport |-> FALSE]

no_retry == [codes |-> {}, transport |-> FALSE]

\* The policy each method of S3Backend runs under.  The multipart methods
\* other than abort are sent once, outside with_retry.
Policy(op) ==
    CASE op \in {"GetObject", "HeadObject", "ListObjects"} -> for_reads
      [] op \in {"PutObject", "PutObjectFromPath"} -> for_writes
      [] op \in {"DeleteObject", "AbortMultipartUpload"} -> for_idempotent_writes
      [] OTHER -> no_retry

is_retryable(policy, err) ==
    CASE err.kind \in {"backend", "timeout"} -> policy.transport
      [] err.kind = "upstream" -> err.status \in policy.codes
      [] OTHER -> FALSE

Idempotent(method) == method \in {"GET", "HEAD", "DELETE"}

AtLeastOne(n) == IF n = 0 THEN 1 ELSE n

Budget(op) ==
    IF op \in Raw
    THEN IF Idempotent(op) THEN AtLeastOne(config.attempts) ELSE 1
    ELSE IF Policy(op) = no_retry THEN 1 ELSE AtLeastOne(config.attempts)

\* The effect of an operation on the backend's object.
Writes(op) == op \in {"PutObject", "PutObjectFromPath", "PUT"}
Deletes(op) == op \in {"DeleteObject", "DELETE"}

\* Carrying one of these out twice is not the same as carrying it out once.
NonIdempotent(op) ==
    op \in {"PutObject", "PutObjectFromPath", "CreateMultipartUpload",
            "UploadPart", "UploadPartFromPath", "CompleteMultipartUpload",
            "PUT", "POST"}

-----------------------------------------------------------------------------
Idle == [op |-> None, pc |-> "idle", attempt |-> 0, body |-> 0,
         declared |-> None, result |-> None, lastErr |-> None]

\* from_config_inner: a plaintext endpoint is accepted only when the
\* configuration allows it.
Configs == {k \in [https : BOOLEAN, allowHttp : BOOLEAN, unsigned : BOOLEAN,
                   attempts : 0..MaxAttempts] : k.https \/ k.allowHttp}

BackendInit ==
    /\ config \in Configs
    /\ call = [c \in Calls |-> Idle]
    /\ net = {}
    /\ answers = {}
    /\ applied = [c \in Calls |-> 0]
    /\ object = None

Finish(c, result) ==
    call' = [call EXCEPT ![c].pc = "done", ![c].result = result]

Refuse(c, op, kind) ==
    call' = [call EXCEPT ![c] = [Idle EXCEPT !.op = op, !.pc = "done",
                                             !.result = Err(kind, 0)]]

Accept(c, op, body, declared) ==
    call' = [call EXCEPT ![c] = [Idle EXCEPT !.op = op, !.pc = "send",
                                 !.attempt = 1, !.body = body,
                                 !.declared = declared]]

\* A typed method is called.  The two that forward a decoded body refuse a
\* plaintext backend before anything is sent.
CallTyped(c, op) ==
    /\ call[c].pc = "idle"
    /\ IF op \in {"PutObjectFromPath", "UploadPartFromPath"} /\ ~config.https
       THEN Refuse(c, op, "internal")
       ELSE Accept(c, op, 0, None)
    /\ UNCHANGED <<config, net, answers, applied, object>>

\* A raw request streams only when the payload is unsigned and the method is
\* sent once; otherwise its body is buffered.
Streams(op) == op \in Raw /\ config.unsigned /\ ~Idempotent(op)

\* handle_passthrough up to the send.  A buffered body over the limit fails
\* while it is read; a streamed one is refused only when its Content-Length
\* already says so.
CallRaw(c, op, body, declared) ==
    /\ call[c].pc = "idle"
    /\ IF Streams(op)
       THEN IF declared # None /\ declared > BodyLimit
            THEN Refuse(c, op, "too_large")
            ELSE Accept(c, op, body, declared)
       ELSE IF body > BodyLimit
            THEN Refuse(c, op, "too_large")
            ELSE Accept(c, op, body, declared)
    /\ UNCHANGED <<config, net, answers, applied, object>>

(***************************************************************************)
(* What happens to an attempt that failed.                                 *)
(***************************************************************************)
\* Mutant: attempts are not counted.
RetryForever(c, err) ==
    IF is_retryable(Policy(call[c].op), err)
    THEN call' = [call EXCEPT ![c].pc = "backoff", ![c].attempt = @ - 1,
                              ![c].lastErr = err]
    ELSE Finish(c, err)

with_retry(c, err) ==
    LET remaining == Budget(call[c].op) - call[c].attempt IN
    IF ~is_retryable(Policy(call[c].op), err) \/ remaining = 0
    THEN Finish(c, err)
    ELSE call' = [call EXCEPT ![c].pc = "backoff", ![c].lastErr = err]

\* The buffered raw loop retries whatever transport error it meets, and the
\* statuses only for idempotent methods; any other answer ends the loop.
RawAnswer(c, status) ==
    IF /\ Idempotent(call[c].op)
       /\ call[c].attempt < Budget(call[c].op)
       /\ status \in {500, 503}
    THEN call' = [call EXCEPT ![c].pc = "backoff"]
    ELSE Finish(c, [kind |-> "answer", status |-> status])

RawError(c, err) ==
    IF call[c].attempt < Budget(call[c].op)
    THEN call' = [call EXCEPT ![c].pc = "backoff", ![c].lastErr = err]
    ELSE call' = [call EXCEPT ![c].pc = "exhausted", ![c].lastErr = err]

\* The loop ended without a response: the last transport error is unwrapped.
Exhausted(c) ==
    /\ call[c].pc = "exhausted"
    /\ IF call[c].lastErr = None
       THEN call' = [call EXCEPT ![c].pc = "panic"]
       ELSE Finish(c, call[c].lastErr)
    /\ UNCHANGED <<config, net, answers, applied, object>>

RawFailure(failure) == Err(IF failure = "timeout" THEN "timeout" ELSE "backend", 0)

\* A streamed request is sent once: its failure is the answer.
Fail(c, failure) ==
    CASE call[c].op \in Typed -> with_retry(c, map_sdk_error(failure, 0))
      [] Streams(call[c].op) -> Finish(c, RawFailure(failure))
      [] OTHER -> RawError(c, RawFailure(failure))

-----------------------------------------------------------------------------
(***************************************************************************)
(* The network and the backend.                                            *)
(***************************************************************************)
Emit(c) ==
    /\ net' = net \cup {[call |-> c, attempt |-> call[c].attempt]}
    /\ call' = [call EXCEPT ![c].pc = "wait"]

SendTyped(c) == call[c].op \in Typed /\ Emit(c)

\* Signed afresh for every attempt; the body is a cheap clone.
SendBuffered(c) == call[c].op \in Raw /\ ~Streams(call[c].op) /\ Emit(c)

\* A streamed body that turns out longer than the limit breaks the upload
\* off: the backend never sees a whole request.
SendStreamed(c) ==
    /\ Streams(call[c].op)
    /\ IF call[c].body > BodyLimit
       THEN Finish(c, Err("too_large", 0)) /\ UNCHANGED net
       ELSE Emit(c)

Send(c) ==
    /\ call[c].pc = "send"
    /\ SendTyped(c) \/ SendBuffered(c) \/ SendStreamed(c)
    /\ UNCHANGED <<config, answers, applied, object>>

\* The attempt fails before it leaves: no connection, or the SDK cannot
\* build the request or open the spool file.
FailToSend(c, failure) ==
    /\ call[c].pc = "send"
    /\ failure = "construction" => call[c].op \in Typed
    /\ Fail(c, failure)
    /\ UNCHANGED <<config, net, answers, applied, object>>

\* The backend carries an attempt out, or not, and answers.  It does not
\* carry out what it answers 403, 404 or 503, and may have carried out what
\* it answers 500.
Process(r, status, effective) ==
    /\ r \in net
    /\ status = 200 => effective
    /\ status \in {403, 404, 503} => ~effective
    /\ net' = net \ {r}
    /\ answers' = answers \cup {[call |-> r.call, attempt |-> r.attempt,
                                 status |-> status]}
    /\ applied' = IF effective THEN [applied EXCEPT ![r.call] = @ + 1]
                               ELSE applied
    /\ object' = CASE effective /\ Writes(call[r.call].op) -> r.call
                   [] effective /\ Deletes(call[r.call].op) -> None
                   [] OTHER -> object
    /\ UNCHANGED <<config, call>>

Answer(c, a) ==
    /\ call[c].pc = "wait"
    /\ a \in answers
    /\ a.call = c /\ a.attempt = call[c].attempt
    /\ answers' = answers \ {a}
    /\ CASE call[c].op \in Raw -> RawAnswer(c, a.status)
         [] call[c].op \in Typed /\ a.status = 200 ->
              Finish(c, [kind |-> "ok", status |-> 200])
         [] call[c].op \in Typed /\ a.status # 200 ->
              with_retry(c, map_sdk_error("answer", a.status))
    /\ UNCHANGED <<config, net, applied, object>>

\* The read timeout, or a connection lost while waiting.
GiveUp(c, failure) ==
    /\ call[c].pc = "wait"
    /\ Fail(c, failure)
    /\ UNCHANGED <<config, net, answers, applied, object>>

Backoff(c) ==
    /\ call[c].pc = "backoff"
    /\ call' = [call EXCEPT ![c].pc = "send", ![c].attempt = @ + 1]
    /\ UNCHANGED <<config, net, answers, applied, object>>

CallStep(c) ==
    \/ Send(c)
    \/ \E f \in {"construction", "dispatch"} : FailToSend(c, f)
    \/ \E a \in answers : Answer(c, a)
    \/ \E f \in {"timeout", "dispatch"} : GiveUp(c, f)
    \/ Backoff(c)
    \/ Exhausted(c)

BackendNext ==
    \/ \E c \in Calls, op \in Ops \cap Typed : CallTyped(c, op)
    \/ \E c \in Calls, op \in Ops \cap Raw, body \in 0..BodyLimit + 1,
          declared \in (0..BodyLimit + 1) \cup {None} : CallRaw(c, op, body, declared)
    \/ \E r \in net, status \in Statuses, effective \in BOOLEAN :
          Process(r, status, effective)
    \/ \E c \in Calls : CallStep(c)

\* The proxy's own steps happen: the SDK and reqwest both end a wait with an
\* answer or a timeout, and a sleep ends.
Fairness == \A c \in Calls : WF_backendVars(CallStep(c))

BackendSpec == BackendInit /\ [][BackendNext]_backendVars
BackendFairSpec == BackendSpec /\ Fairness

-----------------------------------------------------------------------------
\* Every variable has the shape its declaration gives it.
BackendTypeOK ==
    /\ \A c \in Calls :
         /\ call[c].pc \in {"idle", "send", "wait", "backoff", "exhausted",
                            "done", "panic"}
         /\ call[c].attempt \in Nat
         /\ call[c].result \in Results \cup {None}
    /\ net \subseteq [call : Calls, attempt : Nat]
    /\ answers \subseteq [call : Calls, attempt : Nat, status : Statuses]
    /\ applied \in [Calls -> Nat]
    /\ config \in Configs
    /\ object \in Calls \cup {None}

\* However attempts, answers and timeouts interleave, the backend carries a
\* write that is not idempotent out at most once: for_writes retries only
\* what a backend refuses to process, and the raw loop sends PUT and POST
\* once (retry.rs for_writes, passthrough.rs retry strategy).
AtMostOnce == \A c \in Calls : NonIdempotent(call[c].op) => applied[c] <= 1

\* The unwrap of the last error after the raw retry loop never fails: a loop
\* that ends without a response met a transport error on its last attempt.
NoPanic == \A c \in Calls : call[c].pc # "panic"

\* What goes out for a raw request is never longer than the body limit, even
\* when the Content-Length is missing or says less than the body holds.
WithinBodyLimit ==
    \A r \in net : call[r.call].op \in Raw => call[r.call].body <= BodyLimit

\* A call never puts more requests on the wire than its attempt budget,
\* whichever of them the backend or the network lost.
WithinBudget ==
    \A c \in Calls :
        /\ call[c].attempt <= Budget(call[c].op)
        /\ applied[c] <= Budget(call[c].op)

\* What bounds a call, together.
WithinLimits == WithinBudget /\ WithinBodyLimit /\ NoPanic

\* However attempts, answers and timeouts interleave, no write that is not
\* idempotent is carried out twice, a call stays within its budget of
\* attempts and its body limit, and the unwrap after the raw loop finds an
\* error.
CallsSound == BackendTypeOK /\ AtMostOnce /\ WithinLimits

\* Every call is answered: no mixture of failures keeps it retrying.
CallsFinish == \A c \in Calls : (call[c].pc # "idle") ~> (call[c].pc = "done")

\* What the comment on for_idempotent_writes says: a delete is safe to
\* repeat.  Once it was answered with success, no attempt of it removes the
\* object that stands by then.
DeleteIsSafeToRepeat ==
    [][\A c \in Calls :
         /\ call[c].pc = "done" /\ Deletes(call[c].op)
         /\ call[c].result.kind = "ok"
         /\ applied'[c] # applied[c]
         => object = None]_backendVars
=============================================================================
