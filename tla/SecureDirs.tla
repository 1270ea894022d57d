----------------------------- MODULE SecureDirs -----------------------------
(***************************************************************************)
(* Creating the cache directories (cache/perms.rs).  The levels of the     *)
(* path are 1..Depth; level 0 is the root, or the empty path when the path *)
(* is relative.  Several tasks create the same path, and an operator       *)
(* may change the tree meanwhile.                                          *)
(***************************************************************************)
EXTENDS Integers, FiniteSets

CONSTANTS Callers, Depth, MaxMeddling   \* bound: changes by the operator

ASSUME DepthAssumption == Depth \in Nat \ {0} /\ MaxMeddling \in Nat

VARIABLES
    relative,   \* the path is relative
    entry,      \* level -> "none", "file" or "dir"
    mode,       \* level -> its permission bits: "0700" or "looser"
    made,       \* levels the proxy made
    pc, at,     \* task -> where it is, and the level it is at
    meddled     \* changes the operator has made since

dirsVars == <<relative, entry, mode, made, pc, at, meddled>>

Levels == 1..Depth

Exists(i) == i \in {0} \cup {j \in Levels : entry[j] = "dir"}

\* An operator may have made the first levels, with looser permissions.
DirsInit ==
    /\ relative \in BOOLEAN
    /\ \E n \in 0..Depth : entry = [i \in Levels |-> IF i <= n THEN "dir" ELSE "none"]
    /\ mode = [i \in Levels |-> "looser"] /\ made = {}
    /\ pc = [t \in Callers |-> "walk"] /\ at = [t \in Callers |-> Depth - 1]
    /\ meddled = 0

Move(t, p, i) == pc' = [pc EXCEPT ![t] = p] /\ at' = [at EXCEPT ![t] = i]

\* The empty path has no metadata.
metadata(i) == IF i = 0 THEN (IF relative THEN "none" ELSE "dir") ELSE entry[i]

\* One round of the loop that looks for the missing parents.
Walk(t) ==
    LET i == at[t] IN
    /\ pc[t] = "walk"
    /\ \/ i = 0 /\ relative /\ Move(t, "create", 1)
       \/ ~(i = 0 /\ relative) /\ metadata(i) = "dir" /\ Move(t, "create", i + 1)
       \/ ~(i = 0 /\ relative) /\ metadata(i) = "file" /\ Move(t, "error", i)
       \/ ~(i = 0 /\ relative) /\ metadata(i) = "none" /\ Move(t, "walk", i - 1)
    /\ UNCHANGED <<relative, entry, mode, made, meddled>>

\* The next level, or the end.
Created(t) == IF at[t] = Depth THEN Move(t, "ok", Depth) ELSE Move(t, "create", at[t] + 1)

\* mkdir with mode 0700.
create_dir_secure(t) ==
    LET i == at[t] IN
    /\ pc[t] = "create"
    /\ \/ /\ ~Exists(i - 1) /\ Move(t, "error", i)
          /\ UNCHANGED <<entry, mode, made>>
       \/ /\ Exists(i - 1) /\ entry[i] = "none"
          /\ entry' = [entry EXCEPT ![i] = "dir"] /\ mode' = [mode EXCEPT ![i] = "0700"]
          /\ made' = made \cup {i} /\ Created(t)
       \/ /\ Exists(i - 1) /\ entry[i] # "none" /\ Move(t, "verify", i)
          /\ UNCHANGED <<entry, mode, made>>
    /\ UNCHANGED <<relative, meddled>>

\* Mutant: a directory somebody else just made is an error.
refuse_existing(t) ==
    /\ pc[t] = "verify" /\ Move(t, "error", at[t])
    /\ UNCHANGED <<relative, entry, mode, made, meddled>>

\* Something was there: it has to be a directory, and is still to be there.
\* Its permissions are left alone.
verify_existing_dir(t) ==
    /\ pc[t] = "verify"
    /\ IF Exists(at[t]) THEN Created(t) ELSE Move(t, "error", at[t])
    /\ UNCHANGED <<relative, entry, mode, made, meddled>>

Meddle ==
    /\ meddled < MaxMeddling /\ meddled' = meddled + 1
    /\ \E i \in Levels :
          \/ /\ entry[i] = "none" /\ Exists(i - 1)
             /\ \E k \in {"file", "dir"} : entry' = [entry EXCEPT ![i] = k]
             /\ mode' = [mode EXCEPT ![i] = "looser"]
             /\ UNCHANGED made
          \/ /\ entry[i] # "none" /\ (\A j \in Levels : j > i => entry[j] = "none")
             /\ entry' = [entry EXCEPT ![i] = "none"] /\ made' = made \ {i}
             /\ UNCHANGED mode
    /\ UNCHANGED <<relative, pc, at>>

DirsNext == Meddle \/ \E t \in Callers : Walk(t) \/ create_dir_secure(t) \/ verify_existing_dir(t)

\* Every system call returns.
DirsFairness ==
    \A t \in Callers : WF_dirsVars(Walk(t)) /\ WF_dirsVars(create_dir_secure(t)) /\ WF_dirsVars(verify_existing_dir(t))

DirsSpec == DirsInit /\ [][DirsNext]_dirsVars /\ DirsFairness

\* A call that succeeds leaves a directory, never a file in its place.
LeafIsDir == [][\A t \in Callers : pc[t] # "ok" /\ pc'[t] = "ok" => entry'[Depth] = "dir"]_dirsVars

\* Whatever the proxy made only the proxy can read, and what the operator made
\* keeps the permissions the operator gave it.
ModesKept ==
    /\ \A i \in made : mode[i] = "0700"
    /\ \A i \in Levels \ made : entry[i] = "dir" => mode[i] = "looser"

\* Callers that create the same path at the same time do not disturb each
\* other: nobody fails unless the operator interfered.
ConcurrentCreate == meddled = 0 => \A t \in Callers : pc[t] # "error"

(* Calls that make the same directories at the same time do not fail one     *)
(* another, and nobody's permissions are changed.                            *)
DirsShared == ConcurrentCreate /\ ModesKept

\* Every call ends, for a relative path too.
CallEnds == \A t \in Callers : <>(pc[t] \in {"ok", "error"})
=============================================================================
