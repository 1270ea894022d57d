---------------------------- MODULE MCDiskCache ----------------------------
(***************************************************************************)
(* Two instances of DiskCache in one run.  Fills of two versions, purges,  *)
(* poisons and lookups with one failure of any kind ("files"); and         *)
(* refreshes and access-time rewrites of one version with a failing file   *)
(* operation, whose fills keep what a refresh learned ("updates").         *)
(* `updates' says which of them a behaviour belongs to.                    *)
(***************************************************************************)
EXTENDS DiskCache, TLC

CONSTANT FileVersions    \* the versions of the first instance

VARIABLE updates

Files == INSTANCE DiskCache WITH
           Versions <- FileVersions, HeadBits <- {}, MaxHours <- 0

Updates == INSTANCE DiskCache WITH
             Versions <- Versions \ FileVersions, MaxCrashes <- 0, MaxCancels <- 0,
             MaxFills <- 1, MaxRefs <- 1

MCInit == updates \in BOOLEAN /\ IF updates THEN Updates!Init ELSE Files!Init

MCNext ==
  /\ UNCHANGED updates
  /\ \/ ~updates /\ Files!Next
     \/ updates /\ Updates!Next

MCSpec == MCInit /\ [][MCNext]_<<updates, vars>>

Symmetry == Permutations(Tasks) \cup Permutations(FileVersions)
=============================================================================
