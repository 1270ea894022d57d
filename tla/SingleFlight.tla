---------------------------- MODULE SingleFlight ----------------------------
(***************************************************************************)
(* Miss coalescing (src/cache/singleflight.rs) for one cache key.  The     *)
(* first request to miss leads a flight and fetches; the others subscribe  *)
(* to its broadcast channel and wait.  A flight is identified by its       *)
(* generation, and so is its channel: the channel is open as long as the   *)
(* registry or a FlightWaiter holds a sender.                              *)
(*                                                                         *)
(* The registry mutex is never held across an await, so each critical      *)
(* section is one action.  What is not atomic is modelled: complete()      *)
(* sends before it unregisters, its FlightWaiter is dropped after that,    *)
(* and a drop that finds the mutex taken leaves the removal to a spawned   *)
(* task.                                                                   *)
(***************************************************************************)
EXTENDS Naturals

CONSTANTS
  Tasks,         \* requests for the key
  MaxFlights,    \* bound on flights
  MaxLosses,     \* bound on cancels
  NoFlight

ASSUME FlightAssumption == NoFlight \notin Nat

VARIABLES
  registry,      \* generation of the registered flight, or NoFlight
  nextGeneration,
  role,          \* none, leader, sent, removed (inside complete), follower
  flight,        \* generation of a task's FlightWaiter or Receiver
  woken,         \* the task's Receiver holds the message
  cleanups,      \* generations that spawned tasks will unregister
  losses         \* how many cancels there were

sfVars == <<registry, nextGeneration, role, flight, woken, cleanups, losses>>

SFInit ==
  /\ registry = NoFlight
  /\ nextGeneration = 1
  /\ role = [t \in Tasks |-> "none"]
  /\ flight = [t \in Tasks |-> NoFlight]
  /\ woken = [t \in Tasks |-> FALSE]
  /\ cleanups = {}
  /\ losses = 0

\* The tasks that hold a FlightWaiter, and with it a sender.
Waiters == {t \in Tasks : role[t] \in {"leader", "sent", "removed"}}

\* The registry without flight g, if it is still g that is registered.
Unregistered(g) == IF registry = g THEN NoFlight ELSE registry

Leave(t) ==
  /\ role' = [role EXCEPT ![t] = "none"]
  /\ flight' = [flight EXCEPT ![t] = NoFlight]
  /\ woken' = [woken EXCEPT ![t] = FALSE]

TryAcquire(t) ==
  /\ role[t] = "none"
  /\ \/ /\ registry # NoFlight
        /\ role' = [role EXCEPT ![t] = "follower"]
        /\ flight' = [flight EXCEPT ![t] = registry]
        /\ UNCHANGED <<registry, nextGeneration>>
     \/ /\ registry = NoFlight
        /\ nextGeneration' = nextGeneration + 1
        /\ registry' = nextGeneration
        /\ role' = [role EXCEPT ![t] = "leader"]
        /\ flight' = [flight EXCEPT ![t] = nextGeneration]
  /\ UNCHANGED <<woken, cleanups, losses>>

\* complete(): wake the receivers that are subscribed now.
CompleteSend(t) ==
  /\ role[t] = "leader"
  /\ role' = [role EXCEPT ![t] = "sent"]
  /\ woken' = [u \in Tasks |->
                 woken[u] \/ (role[u] = "follower" /\ flight[u] = flight[t])]
  /\ UNCHANGED <<registry, nextGeneration, flight, cleanups, losses>>

\* complete(): unregister the flight if the registry still has it.
CompleteRemove(t) ==
  /\ role[t] = "sent"
  /\ registry' = Unregistered(flight[t])
  /\ role' = [role EXCEPT ![t] = "removed"]
  /\ UNCHANGED <<nextGeneration, flight, woken, cleanups, losses>>

\* Mutant: the drop of a FlightWaiter unregisters whatever is registered.
DropUnguarded(t) ==
  /\ role[t] \in {"leader", "sent", "removed"}
  /\ registry' = NoFlight
  /\ Leave(t)
  /\ UNCHANGED <<nextGeneration, cleanups, losses>>

\* Mutant: a drop that finds the mutex taken gives up.
DropForgets(t) ==
  /\ role[t] \in {"leader", "sent", "removed"}
  /\ registry' \in {registry, Unregistered(flight[t])}
  /\ Leave(t)
  /\ UNCHANGED <<nextGeneration, cleanups, losses>>

\* Drop of the FlightWaiter: at the end of complete(), or because the leader's
\* future was dropped at any await.  The mutex is free, or taken and the removal spawned.
DropWaiter(t) ==
  /\ role[t] \in {"leader", "sent", "removed"}
  /\ \/ registry' = Unregistered(flight[t]) /\ UNCHANGED cleanups
     \/ cleanups' = cleanups \cup {flight[t]} /\ UNCHANGED registry
  /\ Leave(t)
  /\ UNCHANGED <<nextGeneration, losses>>

\* The spawned task of a contended drop.
Cleanup(g) ==
  /\ g \in cleanups
  /\ registry' = Unregistered(g)
  /\ cleanups' = cleanups \ {g}
  /\ UNCHANGED <<nextGeneration, role, flight, woken, losses>>

\* cancel(), at the end of an invalidation.
Cancel ==
  /\ losses' = losses + 1
  /\ registry' = NoFlight
  /\ UNCHANGED <<nextGeneration, role, flight, woken, cleanups>>

\* The channel of flight g has no sender left: recv() returns Closed.
Closed(g) == registry # g /\ \A u \in Waiters : flight[u] # g

\* recv() returns, with the message or because the channel is closed.
Wake(t) ==
  /\ role[t] = "follower"
  /\ woken[t] \/ Closed(flight[t])
  /\ Leave(t)
  /\ UNCHANGED <<registry, nextGeneration, cleanups, losses>>

\* The follower's future is dropped, and its Receiver with it.
Unsubscribe(t) ==
  /\ role[t] = "follower"
  /\ Leave(t)
  /\ UNCHANGED <<registry, nextGeneration, cleanups, losses>>

Complete(t) == CompleteSend(t) \/ CompleteRemove(t) \/ DropWaiter(t)

SFNext ==
  \/ \E t \in Tasks :
       \/ nextGeneration <= MaxFlights /\ TryAcquire(t)
       \/ Complete(t)
       \/ Wake(t)
       \/ Unsubscribe(t)
  \/ \E g \in cleanups : Cleanup(g)
  \/ losses < MaxLosses /\ Cancel

\* The leader ends one way or another: its backend calls and its copy loop
\* have timeouts.  The runtime runs spawned tasks and woken receivers.
SFFairness ==
  /\ \A t \in Tasks : WF_sfVars(Complete(t)) /\ WF_sfVars(Wake(t))
  /\ \A g \in 1 .. MaxFlights : WF_sfVars(Cleanup(g))

SFSpec == SFInit /\ [][SFNext]_sfVars /\ SFFairness
-----------------------------------------------------------------------------
(* The registry, the generations and the roles are consistent: a registered  *)
(* generation was issued, and each FlightWaiter has its own.                 *)
SFTypeOK ==
  /\ nextGeneration \in Nat \ {0} /\ losses \in Nat
  /\ registry \in (1 .. nextGeneration - 1) \cup {NoFlight}
  /\ role \in [Tasks -> {"none", "leader", "sent", "removed", "follower"}]
  /\ flight \in [Tasks -> (1 .. nextGeneration - 1) \cup {NoFlight}]
  /\ woken \in [Tasks -> BOOLEAN]
  /\ cleanups \subseteq 1 .. nextGeneration - 1
  /\ \A t \in Tasks : role[t] = "none" <=> flight[t] = NoFlight
  /\ \A t, u \in Waiters : t # u => flight[t] # flight[u]

(* A registered flight always has somebody who will end it: a FlightWaiter   *)
(* or a spawned clean-up.  Otherwise every later request for the key would   *)
(* follow a flight without a leader.                                         *)
NoOrphanFlight ==
  registry # NoFlight =>
    (\E t \in Waiters : role[t] # "removed" /\ flight[t] = registry)
    \/ registry \in cleanups

(* Without a cancel, at most one request at a time is the leader: a leader's *)
(* completion, its drop, or a late spawned clean-up never unregisters the    *)
(* flight of the leader after it ("Only remove the registry entry if it      *)
(* still belongs to this flight").                                           *)
OneLeader ==
  losses = 0 => \A t, u \in Tasks : role[t] = "leader" /\ role[u] = "leader" => t = u

\* Without a cancel, the registered flight is the leader's.
LeaderRegistered == losses = 0 => \A t \in Tasks : role[t] = "leader" => registry = flight[t]

\* A spawned clean-up is for a flight whose FlightWaiter is gone.
CleanupsRetired == \A t \in Waiters : flight[t] \notin cleanups

(* The inductive invariant behind the two properties above: the generation   *)
(* check in complete() and drop() suffices because a generation is never     *)
(* issued again and a pending clean-up never names a flight that is led.     *)
SFInv == SFTypeOK /\ NoOrphanFlight /\ LeaderRegistered /\ CleanupsRetired

(* No lost wake-up: a follower that subscribed before, during or after the   *)
(* leader's send, or whose flight was cancelled, or whose leader was         *)
(* dropped, stops waiting.                                                   *)
FollowersWake == \A t \in Tasks : role[t] = "follower" ~> role[t] # "follower"
=============================================================================
