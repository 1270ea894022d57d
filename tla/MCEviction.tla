----------------------------- MODULE MCEviction -----------------------------
(***************************************************************************)
(* Two instances of Eviction in one run.  One hash with commits, purges    *)
(* and access-time rewrites that race the pass; and several hashes (`Wide')*)
(* that only the pass touches, with more failing file operations, so that  *)
(* it has to choose among candidates.  Both have the same names and budget,*)
(* and so the same properties.                                             *)
(***************************************************************************)
EXTENDS Eviction

CONSTANTS
  WideSizes, WideFaults   \* Sizes and MaxFaults of Wide

VARIABLE wide

Wide == INSTANCE Eviction WITH
          Hashes <- Names, Junk <- {}, Sizes <- WideSizes,
          MaxFills <- 0, MaxOps <- 0, MaxFaults <- WideFaults

allVars == <<wide, vars>>

MCInit == wide \in BOOLEAN /\ IF wide THEN Wide!Init ELSE Init

MCNext ==
  /\ UNCHANGED wide
  /\ \/ ~wide /\ Next
     \/ wide /\ Wide!Next

\* The fairness of Eviction, for the instance that moves.
MCFairness ==
  /\ WF_vars(~wide /\ PassStep)
  /\ \A n \in Hashes : WF_vars(~wide /\ busy[n] # "free" /\ CacheStep)
  /\ WF_vars(wide /\ Wide!PassStep)

MCSpec == MCInit /\ [][MCNext]_allVars /\ MCFairness
=============================================================================
