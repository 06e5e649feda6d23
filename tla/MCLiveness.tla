----------------------------- MODULE MCLiveness -----------------------------
(***************************************************************************)
(* What must happen eventually, in the parts of the driver that promise    *)
(* it, and the safety of the group lock, which is one of them.  As in      *)
(* MCUtil, a behaviour belongs to one part.  The fairness is that of the   *)
(* modules, for the part of the behaviour.                                 *)
(***************************************************************************)
EXTENDS GroupLock, TLC

CONSTANTS RPCs, MaxCheckers,
          Names, UUIDs, Sources, NoName, NoUUID, NoObject, Requests, MaxImages

VARIABLES part,
          hCheckers, hChecker, hPC, hMine,
          vCsiDirectory, vUuidDirectory, vImages, vTrash, vNextID, vSecondary, vLocks,
          vPC, vReq, vServedFor, vGranted, vUsed, vRecycled, vAbandoned, vFaults,
          vCrashes, vScenario,
          sCsiDirectory, sUuidDirectory, sParentSnaps, sImages, sCloneSnaps, sTrash,
          sNextID, sKeys, sLocks, sPC, sReq, sServedFor, sGranted, sUsed, sAbandoned,
          sFaults, sCrashes, sScenario

hVars == <<hCheckers, hChecker, hPC, hMine>>
vVars == <<vCsiDirectory, vUuidDirectory, vImages, vTrash, vNextID, vSecondary, vLocks,
           vPC, vReq, vServedFor, vGranted, vUsed, vRecycled, vAbandoned, vFaults,
           vCrashes, vScenario>>
sVars == <<sCsiDirectory, sUuidDirectory, sParentSnaps, sImages, sCloneSnaps, sTrash,
           sNextID, sKeys, sLocks, sPC, sReq, sServedFor, sGranted, sUsed, sAbandoned,
           sFaults, sCrashes, sScenario>>

liveVars == <<part, vars, hVars, vVars, sVars>>

\* A volume: two overlapping requests, and a failing call.
VolumeScenarios ==
    {[requests |-> 2, uuids |-> 3, faults |-> 1, crashes |-> 0, mirroring |-> FALSE,
      encrypted |-> TRUE, overlap |-> TRUE]}

\* A snapshot: a failing call and a restart.
SnapshotScenarios ==
    {[names |-> Names, sources |-> Sources, uuids |-> 3, faults |-> 1, crashes |-> 1,
      encrypted |-> TRUE, overlap |-> FALSE]}

Health == INSTANCE HealthChecker WITH
    checkers <- hCheckers, checker <- hChecker, rpcPC <- hPC, mine <- hMine

Volumes == INSTANCE RbdVolumes WITH
    Scenarios <- VolumeScenarios, csiDirectory <- vCsiDirectory,
    uuidDirectory <- vUuidDirectory, images <- vImages, trash <- vTrash,
    nextID <- vNextID, secondary <- vSecondary, volumeLocks <- vLocks, pc <- vPC,
    req <- vReq, servedFor <- vServedFor, granted <- vGranted, used <- vUsed,
    recycled <- vRecycled, abandoned <- vAbandoned, faults <- vFaults,
    crashes <- vCrashes, scenario <- vScenario

Snapshots == INSTANCE RbdSnapshots WITH
    Scenarios <- SnapshotScenarios, csiDirectory <- sCsiDirectory,
    uuidDirectory <- sUuidDirectory, parentSnaps <- sParentSnaps, images <- sImages,
    cloneSnaps <- sCloneSnaps, trash <- sTrash, nextID <- sNextID, keys <- sKeys,
    snapshotLocks <- sLocks, pc <- sPC, req <- sReq, servedFor <- sServedFor,
    granted <- sGranted, used <- sUsed, abandoned <- sAbandoned, faults <- sFaults,
    crashes <- sCrashes, scenario <- sScenario

LiveInit == /\ part \in {"group", "health", "volumes", "snapshots"}
            /\ Init /\ Health!HealthInit /\ Volumes!Init /\ Snapshots!Init

LiveNext ==
    /\ UNCHANGED part
    /\ \/ part = "group" /\ Next /\ UNCHANGED <<hVars, vVars, sVars>>
       \/ part = "health" /\ Health!HealthNext /\ UNCHANGED <<vars, vVars, sVars>>
       \/ part = "volumes" /\ Volumes!Next /\ UNCHANGED <<vars, hVars, sVars>>
       \/ part = "snapshots" /\ Snapshots!Next /\ UNCHANGED <<vars, hVars, vVars>>

\* GroupLock and HealthChecker do not move in the behaviours of other parts, so
\* their fairness asks for nothing there.
LiveSpec ==
    /\ LiveInit /\ [][LiveNext]_liveVars
    /\ Fairness
    /\ Health!HealthFairness
    /\ \A p \in Requests : /\ WF_vVars(part = "volumes" /\ Volumes!Step(p))
                           /\ WF_sVars(part = "snapshots" /\ Snapshots!Step(p))
    /\ \A n \in Names : /\ WF_vVars(part = "volumes" /\ Volumes!Retry(n))
                        /\ WF_sVars(part = "snapshots" /\ Snapshots!Retry(n))

-----------------------------------------------------------------------------
(* Properties *)

\* StopChecker returns, as long as the calls on the mount do.
StopReturns == Health!StopReturns

\* A CreateVolume that the CO repeats after a failing call ends with a volume, although
\* the call may have failed between any two writes to the journal; a CreateSnapshot that
\* it repeats after a failing call and a restart ends with a snapshot.
CreateSucceeds == /\ part = "volumes" => Volumes!RetriedCreateSucceeds
                  /\ part = "snapshots" => Snapshots!RetriedCreateSucceeds
=============================================================================
