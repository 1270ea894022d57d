-------------------------- MODULE MCCacheCoherence --------------------------
(***************************************************************************)
(* Three instances of CacheCoherence in one run.  Three tasks without      *)
(* failures, so that a write overlaps a leader and a follower ("calm");    *)
(* and a pair of tasks with failing file operations, a restart and a       *)
(* dropped call, once with two reads and one write ("reads") and once with *)
(* two writes and one read ("writes").  `instance' says which of them a    *)
(* behaviour belongs to.                                                   *)
(***************************************************************************)
EXTENDS CacheCoherence, TLC

CONSTANT Pair    \* the tasks of the instances with failures

VARIABLE instance

Reads == INSTANCE CacheCoherence WITH
           Tasks <- Pair, MaxGets <- 2,
           MaxFaults <- 2, MaxCrashes <- 1, MaxCancels <- 1, MaxFailures <- 2

Writes == INSTANCE CacheCoherence WITH
            Tasks <- Pair, MaxGets <- 1, Versions <- 0 .. 2, MaxVersion <- 2,
            MaxFaults <- 2, MaxCrashes <- 1, MaxCancels <- 1, MaxFailures <- 3

MCInit ==
  /\ instance \in {"calm", "reads", "writes"}
  /\ CASE instance = "calm"   -> CohInit
       [] instance = "reads"  -> Reads!CohInit
       [] instance = "writes" -> Writes!CohInit

MCNext ==
  /\ UNCHANGED instance
  /\ \/ instance = "calm" /\ CohNext
     \/ instance = "reads" /\ Reads!CohNext
     \/ instance = "writes" /\ Writes!CohNext

MCSpec == MCInit /\ [][MCNext]_<<instance, cohVars>>

Symmetry == Permutations(Tasks) \cup Permutations(Pair)
=============================================================================
