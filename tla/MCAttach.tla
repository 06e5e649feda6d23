------------------------------ MODULE MCAttach ------------------------------
(***************************************************************************)
(* Runs of Fencing, NvmeofController, NvmeofNode and NfsVolumes: who may   *)
(* reach a volume.  They share no state: a behaviour belongs to one part.  *)
(***************************************************************************)
EXTENDS Fencing, TLC

CONSTANTS Parts, Requests,
          Names, IDs, NoVolume, Shared, Hosts, MaxNSID, NvmeofScenarios,
          Disks, NodeScenarios,
          s1, s2, NfsVols, NoVol, NfsCalls, NfsScenarios

VARIABLES part,
          cImage, cMeta, cSubsystems, cNamespaces, cHosts, cKeys, cLocks, cPC, cReq, cCO,
          cVolume, cPublished, cUsed, cMisdeleted, cAbandoned, cOverridden, cFaults,
          cRestarts, cScenario,
          nConnected, nMounted, nBound, nCache, nVolumeLocks, nCount, nGroup, nLockPC,
          nPC, nReq, nStaged, nPodUses, nVictims, nFaults, nRestarts, nScenario,
          xScenario, xFaults, xCrashes, xLate, xSubvols, xAttrs, xExports, xMounts, xCheckers,
          xCalls, xLife, xLimited, xPublished

cVars == <<cImage, cMeta, cSubsystems, cNamespaces, cHosts, cKeys, cLocks, cPC, cReq, cCO,
           cVolume, cPublished, cUsed, cMisdeleted, cAbandoned, cOverridden, cFaults,
           cRestarts, cScenario>>
nVars == <<nConnected, nMounted, nBound, nCache, nVolumeLocks, nCount, nGroup, nLockPC,
           nPC, nReq, nStaged, nPodUses, nVictims, nFaults, nRestarts, nScenario>>
xVars == <<xScenario, xFaults, xCrashes, xLate, xSubvols, xAttrs, xExports, xMounts, xCheckers,
           xCalls, xLife, xLimited, xPublished>>

C == INSTANCE NvmeofController WITH
    Scenarios <- NvmeofScenarios, image <- cImage, meta <- cMeta, subsystems <- cSubsystems,
    namespaces <- cNamespaces, hosts <- cHosts, keys <- cKeys, locks <- cLocks, pc <- cPC,
    req <- cReq, co <- cCO, volume <- cVolume, published <- cPublished, used <- cUsed,
    misdeleted <- cMisdeleted, abandoned <- cAbandoned, overridden <- cOverridden,
    faults <- cFaults, restarts <- cRestarts, scenario <- cScenario

N == INSTANCE NvmeofNode WITH
    Volumes <- Disks, Scenarios <- NodeScenarios, connected <- nConnected,
    mounted <- nMounted, bound <- nBound, cache <- nCache, volumeLocks <- nVolumeLocks,
    glCount <- nCount, glGroup <- nGroup, glPC <- nLockPC, pc <- nPC, req <- nReq,
    staged <- nStaged, podUses <- nPodUses, victims <- nVictims, faults <- nFaults,
    restarts <- nRestarts, scenario <- nScenario

X == INSTANCE NfsVolumes WITH
    scenario <- xScenario, faults <- xFaults, crashes <- xCrashes, late <- xLate,
    subvols <- xSubvols, attrs <- xAttrs, exports <- xExports, mounts <- xMounts,
    checkers <- xCheckers, calls <- xCalls, life <- xLife, limited <- xLimited,
    published <- xPublished

\* The scenario of the parts that are not looked at does not matter.
AttachInit == /\ part \in Parts
              /\ FencingInit /\ C!Init /\ N!Init /\ X!NfsInit
              /\ part # "fencing" => fscenario = CHOOSE s \in Scenarios : TRUE
              /\ part # "controller" => cScenario = CHOOSE s \in NvmeofScenarios : TRUE
              /\ part # "node" => nScenario = CHOOSE s \in NodeScenarios : TRUE
              /\ part # "nfs" => xScenario = CHOOSE s \in NfsScenarios : TRUE

AttachNext == /\ UNCHANGED part
              /\ \/ part = "fencing" /\ FencingNext /\ UNCHANGED <<cVars, nVars, xVars>>
                 \/ part = "controller" /\ C!Next /\ UNCHANGED <<fvars, nVars, xVars>>
                 \/ part = "node" /\ N!Next /\ UNCHANGED <<fvars, cVars, xVars>>
                 \/ part = "nfs" /\ X!NfsNext /\ UNCHANGED <<fvars, cVars, nVars>>

AttachSpec == AttachInit /\ [][AttachNext]_<<part, fvars, cVars, nVars, xVars>>

Symmetry == Permutations(Requests) \cup Permutations(Volumes) \cup Permutations(Nodes)

FencingScenario(driver, fences, failing, crashing, tainted) ==
    [driver |-> driver, networks |-> fences, faults |-> failing, crashes |-> crashing,
     outages |-> tainted]
\* Both drivers with nodes that go out of service, failing calls of RBD, restarts, and
\* networks that are fenced, with such nodes and with failing calls.
AllFencing == {FencingScenario("rbd", FALSE, 1, 0, 1), FencingScenario("rbd", FALSE, 0, 1, 2),
               FencingScenario("cephfs", FALSE, 0, 1, 1), FencingScenario("rbd", TRUE, 1, 0, 0),
               FencingScenario("rbd", TRUE, 0, 0, 1)}
\* CephFS, with a failing call.
FailingCephfs == {FencingScenario("cephfs", FALSE, 1, 0, 1)}

NvmeofScenario(shared, dhchap, modify, parallel, failing, restarting) ==
    [shared |-> shared, dhchap |-> dhchap, modify |-> modify, requests |-> parallel,
     faults |-> failing, restarts |-> restarting]
\* Volumes with one subsystem and with one each, with and without DH-CHAP, lists of
\* hosts, requests at the same time, failing calls and restarts.
AllNvmeof == {NvmeofScenario(TRUE, FALSE, FALSE, 2, 1, 0),
              NvmeofScenario(FALSE, TRUE, FALSE, 2, 1, 0),
              NvmeofScenario(TRUE, TRUE, FALSE, 1, 2, 1),
              NvmeofScenario(FALSE, FALSE, TRUE, 2, 0, 0),
              NvmeofScenario(TRUE, FALSE, TRUE, 1, 1, 1)}

\* Volumes with one subsystem and with one each, failing calls and restarts.
AllNodes == {[shared |-> TRUE, faults |-> 1, restarts |-> 1],
             [shared |-> FALSE, faults |-> 1, restarts |-> 1]}

NfsScenario(volumes, friendly, mutable, failing, crashing, given_up) ==
    [vols |-> volumes, friendly |-> friendly, mutable |-> mutable, faults |-> failing,
     crashes |-> crashing, late |-> given_up]
\* A volume with failing calls, restarts and calls that the CO gave up, and two volumes
\* with the same friendly name.
AllNfs == {NfsScenario({s1}, FALSE, TRUE, 2, 1, 1), NfsScenario({s1}, TRUE, FALSE, 1, 1, 0),
           NfsScenario({s1, s2}, TRUE, TRUE, 0, 0, 0)}
\* Two volumes with the same friendly name, and a failing call.
FriendlyNfs == {NfsScenario({s1, s2}, TRUE, FALSE, 1, 0, 0)}

-----------------------------------------------------------------------------
\* The types of the parts.
AttachTypeOK == /\ part = "fencing" => FencingTypeOK
                /\ part = "controller" => C!TypeOK
                /\ part = "node" => N!TypeOK
                /\ part = "nfs" => X!NfsTypeOK
\* A volume that the CO holds is exposed by the gateway, its image is there, and the
\* hosts that it is published to are admitted with their keys; what is staged on a
\* node can be reached, and the cache of mounted devices is right.  Over NFS a volume is
\* exported at the path that the CO knows, to the clients that were asked for.
VolumeReachable ==
    /\ part = "controller" => C!VolumeExposed /\ C!NamespaceBacked /\ C!HostAdmitted
    /\ part = "node" => N!StagedReachable /\ N!CacheIsMounts
    /\ part = "nfs" => X!NfsExported
\* Nothing is left in the gateway, in the NFS cluster, in the pool or on the node of a
\* volume that is gone, and a volume that is being cloned stays.
VolumeReleased ==
    /\ part = "controller" => C!NothingForgotten /\ C!SourceKept
    /\ part = "node" => N!NodeClean
    /\ part = "nfs" => X!NfsReleased
\* Nothing of a node is left of a volume that was unpublished from it: no keys in the
\* metadata, and no mapping, but that of a node that is still out of service.
NodeDetached == part = "fencing" => NodeReleased
\* The cache of mounted devices tells "when it's safe to disconnect a device".
StagedNeverCut == N!StagedNeverCut
=============================================================================
