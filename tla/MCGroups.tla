------------------------------ MODULE MCGroups ------------------------------
(***************************************************************************)
(* Runs of RbdGroups, CephfsGroups, Mirroring and RbdClones.  They share   *)
(* no state: a behaviour belongs to one part.                              *)
(***************************************************************************)
EXTENDS RbdGroups, TLC

CONSTANTS Parts, n1, n2, v1, v2, v3,
          CephfsNames, MaxWindows, CephfsScenarios,
          Sites, Nodes, Controller, MaxWrites, MaxImages, NoImage,
          MirrorScenarios,
          k1, k2, k3, k4, CloneNames, Root, MaxIDs, CloneScenarios

VARIABLES part,
          cScenario, cFaults, cCrashes, cDirectory, cObjects, cNextUUID, cNextSnap,
          cNextWindow, cQuiesce, cSnaps, cLocks, cPC, cReq, cGranted, cWaiting, cDeleting,
          cGiven,
          mScenario, mFaults, mCrashes, moves, desired, writes, forced, nextImage, image,
          parent, imageID, clients, schedule, mPC, mReq, fresh, restarted, early,
          kScenario, kFaults, kCrashes, rbdImages, rbdSnaps, flattening, purging, reserved,
          deks, nextID, kPC, kReq, life, kGranted, since, abandoned

cVars == <<cScenario, cFaults, cCrashes, cDirectory, cObjects, cNextUUID, cNextSnap,
           cNextWindow, cQuiesce, cSnaps, cLocks, cPC, cReq, cGranted, cWaiting, cDeleting,
           cGiven>>
mVars == <<mScenario, mFaults, mCrashes, moves, desired, writes, forced, nextImage, image,
           parent, imageID, clients, schedule, mPC, mReq, fresh, restarted, early>>
kVars == <<kScenario, kFaults, kCrashes, rbdImages, rbdSnaps, flattening, purging, reserved,
           deks, nextID, kPC, kReq, life, kGranted, since, abandoned>>

C == INSTANCE CephfsGroups WITH
    Names <- CephfsNames, Scenarios <- CephfsScenarios, scenario <- cScenario,
    faults <- cFaults, crashes <- cCrashes, csiDirectory <- cDirectory,
    groupObjects <- cObjects, nextUUID <- cNextUUID, nextSnap <- cNextSnap,
    nextWindow <- cNextWindow, quiesce <- cQuiesce, snaps <- cSnaps,
    volumeGroupLocks <- cLocks, pc <- cPC, req <- cReq, granted <- cGranted,
    waiting <- cWaiting, deleting <- cDeleting, given <- cGiven

M == INSTANCE Mirroring WITH
    Scenarios <- MirrorScenarios, scenario <- mScenario, faults <- mFaults,
    crashes <- mCrashes, pc <- mPC, req <- mReq

K == INSTANCE RbdClones WITH
    scenario <- kScenario, faults <- kFaults, crashes <- kCrashes, pc <- kPC, req <- kReq,
    granted <- kGranted

\* The scenario of the parts that are not looked at does not matter.
UnionInit == /\ part \in Parts
             /\ GroupsInit /\ C!CephfsGroupsInit /\ M!MirroringInit /\ K!ClonesInit
             /\ part # "rbd" => scenario = CHOOSE s \in Scenarios : TRUE
             /\ part # "cephfs" => cScenario = CHOOSE s \in CephfsScenarios : TRUE
             /\ part # "mirroring" => mScenario = CHOOSE s \in MirrorScenarios : TRUE
             /\ part # "clones" => kScenario = CHOOSE s \in CloneScenarios : TRUE

UnionNext == /\ UNCHANGED part
             /\ \/ part = "rbd" /\ GroupsNext /\ UNCHANGED <<cVars, mVars, kVars>>
                \/ part = "cephfs" /\ C!CephfsGroupsNext /\ UNCHANGED <<gvars, mVars, kVars>>
                \/ part = "mirroring" /\ M!MirroringNext /\ UNCHANGED <<gvars, cVars, kVars>>
                \/ part = "clones" /\ K!ClonesNext /\ UNCHANGED <<gvars, cVars, mVars>>

UnionSpec == UnionInit /\ [][UnionNext]_<<part, gvars, cVars, mVars, kVars>>

Symmetry == Permutations(Requests)

Scenario(kind, others1, serially, failing, restarting) ==
    [kind |-> n1 :> "snap" @@ n2 :> kind, sources |-> n1 :> {v1, v2} @@ n2 :> others1,
     serial |-> serially, faults |-> failing, crashes |-> restarting]
\* A group snapshot next to another one, or to a volume group, of the same volumes, with
\* a failing call or a restart; and next to a volume group of another volume.
AllScenarios == {Scenario("snap", {v1, v2}, TRUE, 1, 0), Scenario("group", {v1, v2}, TRUE, 1, 0),
                 Scenario("snap", {v1, v2}, TRUE, 0, 1), Scenario("group", {v1, v2}, TRUE, 0, 1),
                 Scenario("group", {v3}, TRUE, 0, 0)}
\* Two group snapshots of the same volumes at the same time.
Concurrent == {Scenario("snap", {v1, v2}, FALSE, 0, 0)}

CephfsScenario(expiring, failing, restarting) ==
    [sources |-> [n \in CephfsNames |-> {v1, v2}], expires |-> expiring, faults |-> failing,
     crashes |-> restarting]
\* A quiesce that expires, and a failing call; a restart.
AllCephfs == {CephfsScenario(TRUE, 1, 0), CephfsScenario(FALSE, 0, 1)}

MirrorScenario(kind, flat, forcing, failing, restarting) ==
    [parent |-> kind, flatten |-> flat, force |-> forcing, hasty |-> FALSE,
     faults |-> failing, crashes |-> restarting, moves |-> 2, nodes |-> {Controller}]
\* Promotions that are forced, a failing call, a restart, resyncs that are forced at any
\* time, and every kind of parent.
AllMirror == {MirrorScenario("none", FALSE, TRUE, 1, 0),
              MirrorScenario("none", FALSE, FALSE, 0, 1),
              MirrorScenario("plain", TRUE, FALSE, 0, 0),
              MirrorScenario("trash", FALSE, FALSE, 0, 0),
              [MirrorScenario("mirrored", FALSE, FALSE, 0, 0) EXCEPT !.hasty = TRUE, !.moves = 1]}

CloneScenario(kinds, sources, bigger, crypt, failing, restarting) ==
    [kind |-> k1 :> kinds[1] @@ k2 :> kinds[2] @@ k3 :> kinds[3] @@ k4 :> "clone",
     source |-> k1 :> sources[1] @@ k2 :> sources[2] @@ k3 :> sources[3] @@ k4 :> k4,
     big |-> bigger, encrypted |-> crypt, hard |-> 4, soft |-> 4,
     minSnaps |-> 1, maxSnaps |-> 1, expands |-> "no", faults |-> failing, crashes |-> restarting]
Clones == <<"clone", "clone", "clone">>
Restored == <<"snap", "restore", "clone">>
\* A name that is its own source is not asked for.
Chains == {CloneScenario(Clones, <<Root, k1, k2>>, {k1, k2}, TRUE, 0, 0),
           CloneScenario(Restored, <<Root, k1, k2>>, {}, FALSE, 1, 0),
           [CloneScenario(<<"clone", "snap", "restore">>, <<Root, k1, k2>>, {k1, k3, k4}, TRUE, 0, 0)
            EXCEPT !.hard = 5, !.soft = 5, !.source[k4] = k3]}
Single == {CloneScenario(Clones, <<Root, k2, k3>>, {k1}, TRUE, 2, 0),
           CloneScenario(Clones, <<Root, k2, k3>>, {}, TRUE, 0, 2),
           CloneScenario(Restored, <<Root, k1, k3>>, {k2}, TRUE, 2, 0),
           CloneScenario(Restored, <<Root, k1, k3>>, {}, FALSE, 1, 1),
           [CloneScenario(Clones, <<Root, k2, k3>>, {k1}, TRUE, 1, 1) EXCEPT !.expands = "apart"]}
Together == {[CloneScenario(<<"clone", "snap", "clone">>, <<Root, Root, k3>>, {k1}, FALSE, 0, 0)
              EXCEPT !.expands = "apart"],
             [CloneScenario(Clones, <<Root, Root, k3>>, {k1}, TRUE, 0, 0)
              EXCEPT !.minSnaps = 0, !.soft = 5]}
AllClones == Chains \cup Single \cup Together
\* An encrypted volume that is restored, and a restart.
RestoreScenarios == {CloneScenario(Restored, <<Root, k1, k3>>, {}, TRUE, 0, 1)}

-----------------------------------------------------------------------------
\* The types of the four parts.
UnionTypeOK == /\ part = "rbd" => GroupsTypeOK
               /\ part = "cephfs" => C!CephfsGroupsTypeOK
               /\ part = "mirroring" => M!MirroringTypeOK
               /\ part = "clones" => K!ClonesTypeOK
\* A group snapshot that the CO holds has one snapshot of each volume, all of one point
\* in time (RBD) or of one quiesce (CephFS), and the volumes can be written to again.
GroupConsistent == /\ part = "rbd" => GroupSnapshotWhole
                   /\ part = "cephfs" => C!GroupSnapshotConsistent /\ C!WritesResumed
\* Deleted group snapshots leave no snapshot, a volume group has the members that were
\* asked for, and undisturbed calls leave nothing that is not wanted.  Every image, snapshot
\* and passphrase that was made for a clone belongs to its reservation, or is being removed.
NothingForgotten ==
    /\ part = "rbd" => GroupSnapshotDeleted /\ VolumeGroupAgrees /\ NoGroupLeftBehind
    /\ part = "cephfs" => C!GroupSnapshotDeleted /\ C!NoSnapshotLeftBehind
    /\ part = "clones" => K!ClonesAccounted
\* A move of the primary keeps all writes; only images whose parent is mirrored, or that
\* have none, are mirrored.  Resyncs that are asked for again come to an end, and a volume
\* that is called ready has the data.
ReplicationHonest == part = "mirroring" =>
    M!WritesKept /\ M!ParentMirrored /\ M!ResyncEnds /\ M!ReadyIsSynced
\* A volume that was made from another one or from a snapshot is complete when the CO gets
\* it, and the chain of images below it stays shorter than krbd's limit.
CloneUsable == part = "clones" => K!CloneComplete /\ K!DepthBounded
=============================================================================
