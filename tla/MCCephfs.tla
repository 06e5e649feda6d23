------------------------------ MODULE MCCephfs ------------------------------
(***************************************************************************)
(* The CephFS driver in three parts, side by side: snapshots with their    *)
(* shallow volumes, which are extended, and volumes and the node server,   *)
(* which are instantiated.  A behaviour belongs to one part.               *)
(***************************************************************************)
EXTENDS CephfsSnapshots, TLC

CONSTANTS s1, n1, n2, Parts, VolScenarios, NodeScenarios, Targets, Volume, NoTarget

VARIABLES part, vNameKey, vEntry, vSubvol, vQuota, vTmpSnaps, vPC, vReq, vGranted, vAsked,
          vDeleting, vUsed, vAbandoned, vFaults, vCrashes, vScenario

vVars == <<vNameKey, vEntry, vSubvol, vQuota, vTmpSnaps, vPC, vReq, vGranted, vAsked,
           vDeleting, vUsed, vAbandoned, vFaults, vCrashes, vScenario>>

V == INSTANCE CephfsVolumes WITH
    Names <- VolNames, Scenarios <- VolScenarios,
    nameKey <- vNameKey, entry <- vEntry, subvol <- vSubvol, quota <- vQuota,
    tmpSnaps <- vTmpSnaps, pc <- vPC, req <- vReq, granted <- vGranted, asked <- vAsked,
    deleting <- vDeleting, used <- vUsed, abandoned <- vAbandoned, faults <- vFaults,
    crashes <- vCrashes, scenario <- vScenario

VARIABLES staged, published, nPC, nReq, staging, target, mountinfo, checkers, found, nCut,
          exposed, nFaults, nCrashes, deaths, nScenario

nVars == <<staged, published, nPC, nReq, staging, target, mountinfo, checkers, found, nCut,
           exposed, nFaults, nCrashes, deaths, nScenario>>

N == INSTANCE CephfsNode WITH
    Calls <- Requests, Scenarios <- NodeScenarios, pc <- nPC, req <- nReq, cut <- nCut,
    faults <- nFaults, crashes <- nCrashes, scenario <- nScenario

\* The scenario of the parts that are not looked at does not matter.
CephfsInit == /\ part \in Parts
              /\ Init /\ V!Init /\ N!Init
              /\ part # "snapshots" => scenario = CHOOSE s \in Scenarios : TRUE
              /\ part # "volumes" => vScenario = CHOOSE s \in VolScenarios : TRUE
              /\ part # "node" => nScenario = CHOOSE s \in NodeScenarios : TRUE

CephfsNext == /\ UNCHANGED part
              /\ \/ part = "snapshots" /\ Next /\ UNCHANGED <<vVars, nVars>>
                 \/ part = "volumes" /\ V!Next /\ UNCHANGED <<vars, nVars>>
                 \/ part = "node" /\ N!Next /\ UNCHANGED <<vars, vVars>>

CephfsSpec == CephfsInit /\ [][CephfsNext]_<<part, vars, vVars, nVars>>

Symmetry == Permutations(Requests) \cup Permutations(UUIDs) \cup Permutations(Targets)

SnapScenario(failing, restarts) ==
    [restores |-> [v \in VolNames |-> s1], faults |-> failing, crashes |-> restarts,
     encrypted |-> TRUE]
VolScenario(kind1, kind2, failing, restarts) ==
    [kinds |-> n1 :> kind1 @@ n2 :> kind2, faults |-> failing, crashes |-> restarts]

\* One snapshot with two shallow volumes.
SnapScenarios == {SnapScenario(2, 1), SnapScenario(0, 2)}
\* Every kind of volume, next to another.
AllVolScenarios == {VolScenario("ofVolume", "empty", 2, 0),
                    VolScenario("ofVolume", "empty", 1, 1),
                    VolScenario("ofSnapshot", "ofVolume", 1, 0),
                    VolScenario("ofSnapshot", "empty", 1, 1)}
\* A restart, and no failing call.
CrashScenarios == {SnapScenario(0, 1)}
\* A volume that is cloned, and a restart.
CloneScenarios == {VolScenario("ofVolume", "empty", 0, 1)}

NodeScenario(fuse, shallow, encrypted, failing, restarts, dying) ==
    [fuse |-> fuse, shallow |-> shallow, encrypted |-> encrypted, faults |-> failing,
     crashes |-> restarts, deaths |-> dying]
\* Kernel mounts of encrypted and of shallow volumes, FUSE mounts of both kinds.
AllNodeScenarios == {NodeScenario(FALSE, FALSE, TRUE, 1, 1, 0),
                     NodeScenario(FALSE, TRUE, FALSE, 1, 1, 0),
                     NodeScenario(TRUE, FALSE, FALSE, 2, 0, 0),
                     NodeScenario(TRUE, FALSE, FALSE, 1, 0, 1),
                     NodeScenario(TRUE, TRUE, FALSE, 0, 1, 0)}
\* A failing call, a kernel mount.
BindScenarios == {NodeScenario(FALSE, TRUE, FALSE, 1, 0, 0)}

-----------------------------------------------------------------------------
\* The types of all parts.
CephfsTypeOK == TypeOK /\ V!TypeOK /\ N!TypeOK

\* A volume that the CO has is complete, of the size it was told, and can be found.
VolumeUsable == V!VolumeUsable
\* References, subvolumes, snapshots and reservations have owners, or can be found by
\* the name of their request.
NothingForgotten == NothingOrphaned /\ V!NothingLost
\* A stale reservation is collected before its name is reserved again.  Does not hold with
\* CloneScenarios (README, Known disagreements).
StaleCollected == V!StaleCollected

\* Published targets show the volume, and the record for their recovery is there; what
\* was unpublished or unstaged is gone.
NodeServes == N!VolumeServed /\ N!NodeReleased
\* A volume backed by a snapshot shows the snapshot.  Does not hold with BindScenarios
\* (README, Known disagreements).
ShallowShowsSnapshot == N!ShallowShowsSnapshot
=============================================================================
