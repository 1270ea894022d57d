----------------------------- MODULE MCProcess -----------------------------
(***************************************************************************)
(* What happens around the requests, in one run: the scan of the cache     *)
(* directory (with files in it, "scan", and with odd directories, "walk"), *)
(* the temporary files of two proxies ("tmp") and the sweep of odd names   *)
(* ("names"), the directories made at start ("dirs"), and start and        *)
(* shutdown ("life").  The parts share no state in the program: in each    *)
(* behaviour one of them moves.                                            *)
(***************************************************************************)
EXTENDS TmpFiles, SecureDirs, Lifecycle, StartupScan

VARIABLES part

allVars == <<part, scanVars, vars, dirsVars, lifeVars>>

-----------------------------------------------------------------------------
(***************************************************************************)
(* The parts and their bounds                                              *)
(***************************************************************************)
AllExts == {Shape[k].exts : k \in Kinds}
             \cup {<<"tmp">>, <<"json">>, <<"x", "prev", "body">>,
                   <<"prev", "prev", "body">>, <<"x", "meta", "json">>, <<"x", "body">>}

AllSegs == UNION {[1..n -> {"digits", "hex32", "other"}] : n \in 0..3}

\* Every name that no writer produces, and links and directories named like
\* files of a writer.
AllStrangers ==
    {s \in [type : {"file", "symlink", "dir"}, segs : AllSegs, exts : AllExts, pid : {9}, n : {9}] :
        (s.type = "file") # (\E k \in Kinds : s.segs = Shape[k].segs /\ s.exts = Shape[k].exts)}

-----------------------------------------------------------------------------
Parts == {"scan", "walk", "tmp", "names", "dirs", "life"}

NoFiles == bodies = {} /\ metas = [k \in Dirs \X Hashes |-> Absent] /\ markers = {}

\* Files in two directories.
ScanFiles ==
    /\ kind1 = [p \in Firsts |-> IF p = "a" THEN "dir" ELSE "odd"]
    /\ kind2 = [d \in Dirs |-> IF d[1] = "a" THEN "dir" ELSE "odd"]
    /\ scan_mode = "BestEffort"
    /\ metas \in [Dirs \X Hashes -> Metas \cup {Absent}]
    /\ \A k \in Dirs \X Hashes : k[1][1] # "a" => metas[k] = Absent
    /\ bodies \in SUBSET (({"a"} \X Seconds) \X Hashes)
    /\ markers \in SUBSET (({"a"} \X Seconds) \X Hashes)

\* What does not move has one initial state.
MCInit ==
    /\ part \in Parts
    /\ CASE part = "scan" -> ScanFiles
         [] part = "walk" -> NoFiles
         [] OTHER -> /\ kind1 = [p \in Firsts |-> "odd"] /\ kind2 = [d \in Dirs |-> "odd"]
                     /\ scan_mode = "BestEffort" /\ NoFiles
    /\ CASE part = "names" -> TRUE
         [] part = "tmp" -> tmp \in {{}, {s \in AllStrangers : s.segs = <<"hex32">> /\ s.exts = <<"tmp">>}}
         [] OTHER -> tmp = {}
    /\ IF part = "dirs" THEN TRUE
       ELSE relative = FALSE /\ entry = [i \in Levels |-> "none"]
    /\ IF part = "life" THEN TRUE
       ELSE env = CHOOSE e \in Envs : from_env(e) /\ from_config(e)
    /\ ScanInit /\ Init /\ DirsInit /\ LifeInit

\* Sweeps by one proxy, with no requests.
SweepOnly == UNCHANGED task /\ Next /\ proxy'["p2"] = Down

MCNext ==
    /\ UNCHANGED part
    /\ \/ /\ part \in {"scan", "walk"} /\ ScanNext
          /\ UNCHANGED <<vars, dirsVars, lifeVars>>
       \/ /\ (part = "tmp" /\ Next) \/ (part = "names" /\ SweepOnly)
          /\ UNCHANGED <<scanVars, dirsVars, lifeVars>>
       \/ part = "dirs" /\ DirsNext /\ UNCHANGED <<scanVars, vars, lifeVars>>
       \/ part = "life" /\ LifeNext /\ UNCHANGED <<scanVars, vars, dirsVars>>

\* The fairness of StartupScan, SecureDirs and Lifecycle, for the part that
\* moves.
MCFairness ==
    /\ WF_scanVars(part = "walk" /\ ScanNext)
    /\ \A t \in Callers :
          WF_dirsVars(part = "dirs" /\ (Walk(t) \/ create_dir_secure(t) \/ verify_existing_dir(t)))
    /\ WF_lifeVars(part = "life" /\ (Startup \/ Exit)) /\ WF_lifeVars(part = "life" /\ SendShutdown)
    /\ \A l \in Listeners :
          /\ WF_lifeVars(part = "life" /\ Notice(l)) /\ WF_lifeVars(part = "life" /\ Respond(l))
          /\ WF_lifeVars(part = "life" /\ Drained(l))

MCSpec == MCInit /\ [][MCNext]_allVars /\ MCFairness
-----------------------------------------------------------------------------
(***************************************************************************)
(* Properties                                                              *)
(***************************************************************************)
(* What was begun ends: a scan, a call that makes directories, and a process *)
(* that got a signal after its handlers were installed.                      *)
Pending ==
    \/ part = "walk" /\ scan_pc \notin {"done", "failed"}
    \/ part = "dirs" /\ \E t \in Callers : pc[t] \notin {"ok", "error"}
    \/ part = "life" /\ arrived # {} /\ stage # "exited"

WorkEnds == Pending ~> ~Pending
============================================================================
