------------------------------ MODULE MCParts ------------------------------
(***************************************************************************)
(* Small parts in one run: the fill_id allocator, the singleflight         *)
(* registry, the map of metadata locks, the calls to the backend, and the  *)
(* methods of one cache entry in a small instance of DiskCache, for what   *)
(* they need fairness for.  They share no state, so interleaving them adds *)
(* nothing: in each behaviour one of them moves, and `part' says which.    *)
(***************************************************************************)
EXTENDS FillIdCounter, SingleFlight, MetaLocks, BackendRetry

CONSTANTS
  Methods, Corrupt,        \* tasks that call methods of DiskCache
  MethodFaults, MethodFills

VARIABLES
  part,
  dBody, dMeta, dPoisonFile, dPoisonMem, dCur, dEntry, dMetaLock, dEntryCount,
  dNextFill, dPc, dLoc, dRes, dDetached, dFaults, dCrashes, dCancels

diskVars == <<dBody, dMeta, dPoisonFile, dPoisonMem, dCur, dEntry, dMetaLock, dEntryCount,
              dNextFill, dPc, dLoc, dRes, dDetached, dFaults, dCrashes, dCancels>>

Disk == INSTANCE DiskCache WITH
                Tasks <- Methods, Versions <- {"v"}, EntryIds <- 1 .. 3, HeadBits <- {},
                MaxFaults <- MethodFaults, MaxCrashes <- 0, MaxCancels <- 0,
                MaxFailures <- MethodFaults, MaxFills <- MethodFills, MaxGen <- 1,
                MaxRefs <- 1, MaxHours <- 0,
                body <- dBody, meta <- dMeta, poisonFile <- dPoisonFile, poisonMem <- dPoisonMem,
                cur <- dCur, entry <- dEntry, metaLock <- dMetaLock, entryCount <- dEntryCount,
                nextFill <- dNextFill, pc <- dPc, loc <- dLoc, res <- dRes,
                detached <- dDetached, faults <- dFaults, crashes <- dCrashes, cancels <- dCancels

allVars == <<part, vars, sfVars, lockVars, backendVars, diskVars>>

Parts == {"ids", "flights", "locks", "backend", "methods"}

PartsInit ==
  /\ part \in Parts
  /\ IF part = "ids" THEN TRUE ELSE live = {}
  /\ IF part = "locks" THEN TRUE ELSE onDisk = FALSE
  /\ IF part = "backend" THEN TRUE
     ELSE config = [https |-> TRUE, allowHttp |-> FALSE, unsigned |-> FALSE, attempts |-> 1]
  /\ IF part = "methods" THEN TRUE ELSE dBody = None
  /\ Init /\ SFInit /\ LockInit /\ BackendInit /\ Disk!Init

PartsNext ==
  /\ UNCHANGED part
  /\ \/ part = "ids" /\ Next /\ UNCHANGED <<sfVars, lockVars, backendVars, diskVars>>
     \/ part = "flights" /\ SFNext /\ UNCHANGED <<vars, lockVars, backendVars, diskVars>>
     \/ part = "locks" /\ LockNext /\ UNCHANGED <<vars, sfVars, backendVars, diskVars>>
     \/ part = "backend" /\ BackendNext /\ UNCHANGED <<vars, sfVars, lockVars, diskVars>>
     \/ part = "methods" /\ Disk!Next /\ UNCHANGED <<vars, sfVars, lockVars, backendVars>>

\* The fairness of SingleFlight, of BackendRetry and of DiskCache, for the part
\* that moves.
PartsFairness ==
  /\ \A t \in Tasks : /\ WF_sfVars(part = "flights" /\ Complete(t))
                       /\ WF_sfVars(part = "flights" /\ Wake(t))
  /\ \A g \in 1 .. MaxFlights : WF_sfVars(part = "flights" /\ Cleanup(g))
  /\ \A c \in Calls : WF_backendVars(part = "backend" /\ CallStep(c))
  /\ \A t \in Methods : SF_diskVars(part = "methods" /\ Disk!MethodStep(t))

PartsSpec == PartsInit /\ [][PartsNext]_allVars /\ PartsFairness

-----------------------------------------------------------------------------
(* Every method of the cache that was called returns: the order commit lock, *)
(* then metadata lock admits no deadlock, and no exit path keeps a lock.     *)
MethodsReturn == Disk!MethodsReturn
============================================================================
