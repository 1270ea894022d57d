----------------------------- MODULE Lifecycle -----------------------------
(***************************************************************************)
(* The life of the process (main.rs): the configuration is read and        *)
(* checked (config.rs, backend/client.rs), the parts are built in order,   *)
(* two listeners serve, and a signal makes both drain.                     *)
(*                                                                         *)
(* The environment is what the checks tell apart: the kind of auth mode,   *)
(* whether keys are listed, whether signatures are verified, the state of  *)
(* the credentials file, the scheme of the endpoint and whether it carries *)
(* user information, and the two switches about plaintext.                 *)
(***************************************************************************)
EXTENDS Integers, FiniteSets

CONSTANTS MaxActive   \* bound: requests in flight on one listener

ASSUME ActiveAssumption == MaxActive \in Nat

VARIABLES
    env,
    stage,      \* how far main has come
    verifier,   \* the strict verifier was built
    server,     \* listener -> "off", "bound", "serving", "draining" or "done"
    active,     \* listener -> requests in flight
    signal_task, \* "none", "spawned", "waiting" (its handlers are installed)
                \* or "sent" (shutdown_tx.send(true) was called)
    arrived,    \* signals that have arrived since the handlers are there
    receiver    \* listener -> "none", "watching", or "stale": created after the
                \* send, it takes the value for seen

lifeVars == <<env, stage, verifier, server, active, signal_task, arrived, receiver>>

Listeners == {"s3", "admin"}
Signals == {"SIGINT", "SIGTERM"}

-----------------------------------------------------------------------------
(***************************************************************************)
(* Configuration                                                           *)
(***************************************************************************)
Envs ==
    [auth_mode : {"trusted_internal", "access_key_allowlist", "other"}, keys : BOOLEAN,
     verify : BOOLEAN, credentials : {"unset", "absent", "refused", "good"},
     scheme : {"", "http", "HTTP", "https"}, userinfo : BOOLEAN,
     allow_http : BOOLEAN, unsigned : BOOLEAN]

\* Mutant: schemes are compared with case.
is_http_by_case(e) == e.scheme = "http"

\* Schemes are compared without case.
is_http(e) == e.scheme \in {"http", "HTTP"}

parse_auth_mode(e) == e.auth_mode # "other"

\* Without a scheme there is no user information to be found.
from_env(e) ==
    /\ parse_auth_mode(e)
    /\ ~(e.auth_mode = "access_key_allowlist" /\ ~e.keys /\ ~e.verify)
    /\ e.verify => e.credentials \notin {"unset", "absent"}
    /\ ~(e.scheme # "" /\ e.userinfo)
    /\ ~(e.unsigned /\ is_http(e))

from_config(e) == e.allow_http \/ ~is_http(e)

-----------------------------------------------------------------------------
(***************************************************************************)
(* Start                                                                   *)
(***************************************************************************)
LifeInit ==
    /\ env \in Envs
    /\ stage = "config" /\ verifier = FALSE
    /\ server = [l \in Listeners |-> "off"] /\ active = [l \in Listeners |-> 0]
    /\ signal_task = "none" /\ arrived = {} /\ receiver = [l \in Listeners |-> "none"]

\* From one step of main to the next, or out of it.
Advance(from, ok, to) ==
    /\ stage = from /\ stage' = IF ok THEN to ELSE "failed"
    /\ UNCHANGED <<env, active, arrived>>

Configure ==
    /\ Advance("config", from_env(env), "credentials")
    /\ UNCHANGED <<verifier, server, signal_task, receiver>>

\* A file that is there may still be refused.
LoadCredentials ==
    /\ Advance("credentials", env.verify => env.credentials = "good", "backend")
    /\ verifier' = (env.verify /\ env.credentials = "good")
    /\ UNCHANGED <<server, signal_task, receiver>>

BuildBackend ==
    /\ Advance("backend", from_config(env), "cache")
    /\ UNCHANGED <<verifier, server, signal_task, receiver>>

\* The cache directory may be locked or unusable.
BuildCache ==
    /\ \E ok \in BOOLEAN : Advance("cache", ok, "bind_s3")
    /\ UNCHANGED <<verifier, server, signal_task, receiver>>

Bind(from, l, to) ==
    /\ \E ok \in BOOLEAN :
          /\ Advance(from, ok, to)
          /\ server' = IF ok THEN [server EXCEPT ![l] = "bound"] ELSE server
    /\ UNCHANGED <<verifier, signal_task, receiver>>

\* shutdown_tx.subscribe(): a receiver waits for what is sent from now on.
Subscribe(from, l, to) ==
    /\ Advance(from, TRUE, to)
    /\ receiver' = [receiver EXCEPT ![l] = IF signal_task = "sent" THEN "stale" ELSE "watching"]
    /\ UNCHANGED <<verifier, server, signal_task>>

SpawnSignalTask(from, to) ==
    /\ Advance(from, TRUE, to)
    /\ signal_task' = "spawned"
    /\ UNCHANGED <<verifier, server, receiver>>

\* try_join! polls both servers for the first time.
Serve ==
    /\ Advance("serve", TRUE, "serving")
    /\ server' = [l \in Listeners |-> "serving"]
    /\ UNCHANGED <<verifier, signal_task, receiver>>

\* The checks, and then the listeners.
Prepare(next) ==
    \/ Configure \/ LoadCredentials \/ BuildBackend \/ BuildCache
    \/ Bind("bind_s3", "s3", "bind_admin") \/ Bind("bind_admin", "admin", next)

\* Mutant: the signal task is spawned before the receivers exist.
SpawnFirst ==
    \/ Prepare("spawn") \/ SpawnSignalTask("spawn", "subscribe_s3")
    \/ Subscribe("subscribe_s3", "s3", "subscribe_admin") \/ Subscribe("subscribe_admin", "admin", "serve")
    \/ Serve

Startup ==
    \/ Prepare("subscribe_s3")
    \/ Subscribe("subscribe_s3", "s3", "subscribe_admin") \/ Subscribe("subscribe_admin", "admin", "spawn")
    \/ SpawnSignalTask("spawn", "serve") \/ Serve

-----------------------------------------------------------------------------
(***************************************************************************)
(* Shutdown                                                                *)
(***************************************************************************)
Running == stage \notin {"failed", "killed", "exited"}

\* The handlers are installed when the task first runs, on another thread
\* than main perhaps.
InstallHandlers ==
    /\ signal_task = "spawned" /\ Running /\ signal_task' = "waiting"
    /\ UNCHANGED <<env, stage, verifier, server, active, arrived, receiver>>

Installed == signal_task \in {"waiting", "sent"}

\* Until then a signal ends the process at once.
Signal(s) ==
    /\ Running /\ s \notin arrived
    /\ IF Installed THEN arrived' = arrived \cup {s} /\ UNCHANGED stage
       ELSE stage' = "killed" /\ UNCHANGED arrived
    /\ UNCHANGED <<env, verifier, server, active, signal_task, receiver>>

\* Mutant: it waits for both signals.
shutdown_signal_join == arrived = Signals

\* The first of the two.
shutdown_signal == arrived # {}

SendShutdown ==
    /\ signal_task = "waiting" /\ Running /\ shutdown_signal /\ signal_task' = "sent"
    /\ UNCHANGED <<env, stage, verifier, server, active, arrived, receiver>>

\* changed() returns when a value was sent that the receiver has not seen.
Notice(l) ==
    /\ stage = "serving" /\ server[l] = "serving" /\ signal_task = "sent" /\ receiver[l] = "watching"
    /\ server' = [server EXCEPT ![l] = "draining"]
    /\ UNCHANGED <<env, stage, verifier, active, signal_task, arrived, receiver>>

\* axum::serve accepts until it notices, then waits for what it accepted.
Accept(l) ==
    /\ stage = "serving" /\ server[l] = "serving" /\ active[l] < MaxActive
    /\ active' = [active EXCEPT ![l] = @ + 1]
    /\ UNCHANGED <<env, stage, verifier, server, signal_task, arrived, receiver>>

Respond(l) ==
    /\ stage = "serving" /\ active[l] > 0
    /\ active' = [active EXCEPT ![l] = @ - 1]
    /\ UNCHANGED <<env, stage, verifier, server, signal_task, arrived, receiver>>

Drained(l) ==
    /\ stage = "serving" /\ server[l] = "draining" /\ active[l] = 0
    /\ server' = [server EXCEPT ![l] = "done"]
    /\ UNCHANGED <<env, stage, verifier, active, signal_task, arrived, receiver>>

try_join == \A l \in Listeners : server[l] = "done"

Exit ==
    /\ stage = "serving" /\ try_join
    /\ stage' = "exited"
    /\ UNCHANGED <<env, verifier, server, active, signal_task, arrived, receiver>>

LifeNext ==
    \/ Startup \/ InstallHandlers \/ SendShutdown \/ Exit
    \/ \E s \in Signals : Signal(s)
    \/ \E l \in Listeners : Notice(l) \/ Accept(l) \/ Respond(l) \/ Drained(l)

\* The runtime polls its tasks, main among them, and every request ends.
LifeFairness ==
    /\ WF_lifeVars(Startup) /\ WF_lifeVars(SendShutdown) /\ WF_lifeVars(Exit)
    /\ \A l \in Listeners : WF_lifeVars(Notice(l)) /\ WF_lifeVars(Respond(l)) /\ WF_lifeVars(Drained(l))

LifeSpec == LifeInit /\ [][LifeNext]_lifeVars /\ LifeFairness

-----------------------------------------------------------------------------
(***************************************************************************)
(* Properties                                                              *)
(***************************************************************************)
\* A proxy that serves can admit somebody, verifies when it was told to, and
\* sends nothing over plaintext that was not allowed, nor any unsigned body.
ConfigurationKept ==
    \A l \in Listeners : server[l] \notin {"off", "bound"} =>
        /\ verifier = env.verify
        /\ env.auth_mode = "trusted_internal" \/ env.keys \/ verifier
        /\ env.scheme \in {"http", "HTTP"} => env.allow_http /\ ~env.unsigned
        /\ env.userinfo => env.scheme = ""

\* A clean exit loses no request that was accepted.
DrainedBeforeExit ==
    stage = "exited" => \A l \in Listeners : active[l] = 0

(* A proxy that serves does it as configured, and a clean exit loses no      *)
(* request.                                                                  *)
ServesAsConfigured == ConfigurationKept /\ DrainedBeforeExit

\* One signal is enough: once the handlers are there, the process drains and
\* exits, even if the signal comes before main has come to serve.
SignalEnds == arrived # {} ~> stage = "exited"
=============================================================================
