------------------------- MODULE MCMetadataRefresh -------------------------
(***************************************************************************)
(* MetadataRefresh for TLC.  In each behaviour the requests of one         *)
(* scenario are made, within the bounds of that scenario; the others stay  *)
(* idle.                                                                   *)
(***************************************************************************)
EXTENDS MetadataRefresh

CONSTANT Scenarios   \* [who : SUBSET Requests, versions, etags, faults : Nat]

CONSTANTS h1, h2, g1, g2, e1, e2

VARIABLE scenario

TwoHeads == [who |-> {h1, h2}, versions |-> 2, etags |-> {e1}, faults |-> 1]
TwoGets == [who |-> {g1, g2}, versions |-> 2, etags |-> {e1}, faults |-> 1]
HeadAndGet == [who |-> {h1, g1}, versions |-> 3, etags |-> {e1, e2}, faults |-> 0]
MCScenarios == {TwoHeads, TwoGets, HeadAndGet}

Bounded ==
    /\ \A r \in Requests \ scenario.who : req[r].pc = "idle"
    /\ Current <= scenario.versions /\ faults <= scenario.faults
    /\ \A v \in 1 .. Current : vers[v].etag \in scenario.etags \cup {None}

MCInit == scenario \in Scenarios /\ Init /\ Bounded

MCNext == Next /\ UNCHANGED scenario /\ Bounded'

MCSpec == MCInit /\ [][MCNext]_<<vars, scenario>>
============================================================================
