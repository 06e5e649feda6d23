----------------------------- MODULE NvmeofNode -----------------------------
(***************************************************************************)
(* The node server of the NVMe-oF driver (internal/nvmeof/nodeserver): it  *)
(* connects the node to the subsystem of a volume, mounts the device of    *)
(* the namespace, and disconnects after the last mount.  A cache of the    *)
(* mounted devices says which mount is the last.  Staging runs in group A  *)
(* and unstaging in group B of the lock of GroupLock.tla, whose steps are  *)
(* steps of this module.                                                   *)
(*                                                                         *)
(* A device stands for its volume, and so does the staging path.           *)
(***************************************************************************)
EXTENDS Integers, FiniteSets

CONSTANTS Volumes, Requests,
          Scenarios    \* the environments to explore, one per behaviour

\* shared    whether the volumes are namespaces of one subsystem
\* faults    bound: failing calls and lost answers
\* restarts  bound: restarts of the node plugin

VARIABLES
    connected,     \* subsystems the node is connected to
    mounted,       \* volumes mounted at their staging path
    bound,         \* volumes bind mounted at the target path of a pod
    cache,         \* mountCache: the devices known to be mounted
    volumeLocks,   \* volume ids and target paths
    glCount, glGroup, glPC,   \* stageUnstageLock
    pc, req,       \* where each request is, and its variables
    staged,        \* what the CO knows of the staging of a volume
    podUses,       \* what the CO knows of the target path of a volume
    victims,       \* staged volumes disconnected by the undo of another staging
    faults, restarts, scenario

system == <<connected, mounted, bound>>
lockVars == <<glCount, glGroup, glPC>>
coState == <<staged, podUses>>
bounds == <<faults, restarts, scenario>>
vars == <<system, cache, volumeLocks, lockVars, pc, req, coState, victims, bounds>>

GL == INSTANCE GroupLock WITH Callers <- Requests, count <- glCount, group <- glGroup,
                              pc <- glPC

\* The subsystem of a volume: the same one, or one per volume.
Subsystem(v) == IF scenario.shared THEN CHOOSE w \in Volumes : TRUE ELSE v

Idle == [op |-> "none", vol |-> CHOOSE v \in Volumes : TRUE, dev |-> FALSE, last |-> FALSE,
         key |-> <<>>]

StageSteps == {"stEnter", "stCheck", "stConnect", "stDevice", "stMount", "stCache",
               "undoCache", "undoDisconnect"}
UnstageSteps == {"unEnter", "unDevice", "unUnmount", "unRemove", "unCache", "unDisconnect"}
PublishSteps == {"pbMount", "upUnmount"}

TypeOK ==
    /\ connected \subseteq Volumes /\ mounted \subseteq Volumes /\ bound \subseteq Volumes
    /\ cache \subseteq Volumes /\ victims \subseteq Volumes
    /\ volumeLocks \subseteq {"volume", "target"} \X Volumes
    /\ GL!TypeOK
    /\ pc \in [Requests -> StageSteps \cup UnstageSteps \cup PublishSteps \cup {"idle"}]
    /\ \A p \in Requests : req[p].vol \in Volumes
    /\ staged \in [Volumes -> {"no", "asked", "yes", "leaving"}]
    /\ podUses \in [Volumes -> {"no", "asked", "yes", "leaving"}]
    /\ faults \in 0 .. scenario.faults /\ restarts \in 0 .. scenario.restarts

Init ==
    /\ connected = {} /\ mounted = {} /\ bound = {} /\ cache = {} /\ volumeLocks = {}
    /\ GL!Init
    /\ pc = [p \in Requests |-> "idle"] /\ req = [p \in Requests |-> Idle]
    /\ staged = [v \in Volumes |-> "no"] /\ podUses = [v \in Volumes |-> "no"]
    /\ victims = {} /\ faults = 0 /\ restarts = 0 /\ scenario \in Scenarios

-----------------------------------------------------------------------------
(* Control flow *)

At(p, step) == pc[p] = step

\* The step of a request that changes neither locks nor its own variables.
Go(p, step) == /\ pc' = [pc EXCEPT ![p] = step]
               /\ UNCHANGED <<req, volumeLocks, lockVars>>

Fault == /\ faults < scenario.faults
         /\ faults' = faults + 1
         /\ UNCHANGED <<restarts, scenario>>

\* TryAcquire on the volume or the target path; a request that does not get
\* it is answered Aborted.  Stage and unstage then ask for the group lock.
Begin(p, op, v, key, step) ==
    /\ At(p, "idle")
    /\ key \notin volumeLocks
    /\ volumeLocks' = volumeLocks \cup {key}
    /\ req' = [req EXCEPT ![p] = [Idle EXCEPT !.op = op, !.vol = v, !.key = key]]
    /\ pc' = [pc EXCEPT ![p] = step]
    /\ UNCHANGED <<system, cache, victims, bounds>>

\* The deferred releases.
Return(p) == /\ pc' = [pc EXCEPT ![p] = "idle"]
             /\ req' = [req EXCEPT ![p] = Idle]
             /\ volumeLocks' = volumeLocks \ {req[p].key}
             /\ IF glPC[p] = "holding" THEN GL!Release(p) ELSE UNCHANGED lockVars

\* The request succeeds, and the CO learns of it unless the answer is lost.
Answer(p, news) == /\ Return(p)
                   /\ \/ news /\ UNCHANGED bounds
                      \/ Fault /\ UNCHANGED coState

\* AcquireGroupA and AcquireGroupB.
EnterGroup(p) ==
    /\ pc[p] \in {"stEnter", "unEnter"}
    /\ \/ GL!Wait(p) /\ UNCHANGED pc
       \/ /\ GL!Acquire(p)
          /\ pc' = [pc EXCEPT ![p] = IF @ = "stEnter" THEN "stCheck" ELSE "unDevice"]
    /\ UNCHANGED <<system, cache, volumeLocks, req, coState, victims, bounds>>

\* Calls whose failure ends the request and undoes nothing.
CallFails(p) == /\ pc[p] \in {"stCheck", "stConnect", "unUnmount", "unRemove",
                              "pbMount", "upUnmount"}
                /\ Fault
                /\ Return(p)
                /\ UNCHANGED <<system, cache, coState, victims>>

-----------------------------------------------------------------------------
(* NodeStageVolume *)

NodeStageVolume(p, v) ==
    /\ staged[v] # "yes" /\ podUses[v] = "no"
    /\ Begin(p, "stage", v, <<"volume", v>>, "stEnter")
    /\ GL!Call(p, "A")
    /\ staged' = [staged EXCEPT ![v] = "asked"] /\ UNCHANGED podUses

Staged(p) == staged' = [staged EXCEPT ![req[p].vol] = "yes"] /\ UNCHANGED podUses

\* A staging path that is mounted already is a success.
StageCheck(p) ==
    /\ At(p, "stCheck")
    /\ IF req[p].vol \in mounted THEN Answer(p, Staged(p))
       ELSE Go(p, "stConnect") /\ UNCHANGED <<coState, bounds>>
    /\ UNCHANGED <<system, cache, victims>>

\* ConnectSubsystem; "already connected" is a success.
Connect(p) ==
    /\ At(p, "stConnect")
    /\ connected' = connected \cup {Subsystem(req[p].vol)}
    /\ Go(p, "stDevice")
    /\ UNCHANGED <<mounted, bound, cache, coState, victims, bounds>>

\* GetNamespaceDeviceByUUID.  Its failure leaves transaction.devicePath empty, so
\* that the connection stays.
FindDevice(p) ==
    /\ At(p, "stDevice")
    /\ \/ /\ Subsystem(req[p].vol) \in connected
          /\ Go(p, "stMount") /\ UNCHANGED bounds
       \/ /\ Fault \/ (Subsystem(req[p].vol) \notin connected /\ UNCHANGED bounds)
          /\ Return(p)
    /\ UNCHANGED <<system, cache, coState, victims>>

\* createStageMountPoint and mountVolumeToStagePath.
MountStage(p) ==
    /\ At(p, "stMount")
    /\ \/ /\ Subsystem(req[p].vol) \in connected
          /\ mounted' = mounted \cup {req[p].vol}
          /\ Go(p, "stCache") /\ UNCHANGED bounds
       \/ /\ Fault \/ (Subsystem(req[p].vol) \notin connected /\ UNCHANGED bounds)
          /\ Go(p, "undoCache") /\ UNCHANGED mounted
    /\ UNCHANGED <<connected, bound, cache, coState, victims>>

\* mountCache.Add, which falls back to the path of the device when findmnt fails.
StageCache(p) == /\ At(p, "stCache")
                 /\ cache' = cache \cup {req[p].vol}
                 /\ Answer(p, Staged(p))
                 /\ UNCHANGED <<system, victims>>

\* Whether DisconnectIfLastMount is given an empty copy of the cache.
TakeCopy(p, step) ==
    /\ cache' = cache \ {req[p].vol}
    /\ req' = [req EXCEPT ![p].last = (cache' = {})]
    /\ pc' = [pc EXCEPT ![p] = step]
    /\ UNCHANGED <<system, volumeLocks, lockVars, coState, victims, bounds>>

\* undoStagingTransaction: the staging path is removed, and the cache copied.
UndoCache(p) == At(p, "undoCache") /\ TakeCopy(p, "undoDisconnect")

\* The other volumes that rely on the connection: stagings that are not in the
\* cache yet, or were not when it was copied.
Exposed(p) == {v \in Volumes \ {req[p].vol} :
    /\ Subsystem(v) = Subsystem(req[p].vol)
    /\ v \in mounted \/ \E q \in Requests : req[q].vol = v /\ pc[q] \in {"stDevice", "stMount"}}

\* DisconnectIfLastMount disconnects all controllers of the device; its error
\* is only logged.
Disconnect(p) ==
    \/ /\ connected' = IF req[p].last THEN connected \ {Subsystem(req[p].vol)}
                       ELSE connected
       /\ UNCHANGED bounds
    \/ req[p].last /\ Fault /\ UNCHANGED connected

UndoDisconnect(p) ==
    /\ At(p, "undoDisconnect")
    /\ Disconnect(p)
    /\ victims' = IF req[p].last THEN victims \cup Exposed(p) ELSE victims
    /\ Return(p)
    /\ UNCHANGED <<mounted, bound, cache, coState>>

-----------------------------------------------------------------------------
(* NodeUnstageVolume *)

NodeUnstageVolume(p, v) ==
    /\ staged[v] # "no" /\ podUses[v] = "no"
    /\ Begin(p, "unstage", v, <<"volume", v>>, "unEnter")
    /\ GL!Call(p, "B")
    /\ staged' = [staged EXCEPT ![v] = "leaving"] /\ UNCHANGED podUses

\* The device comes from the cache, or from findmnt, whose failure leaves the
\* path empty.
LookUpDevice(p) ==
    /\ At(p, "unDevice")
    /\ \E found \in {req[p].vol \in cache \cup mounted} \cup
                    (IF req[p].vol \in mounted \ cache THEN {FALSE} ELSE {}) :
         req' = [req EXCEPT ![p].dev = found]
    /\ pc' = [pc EXCEPT ![p] = "unUnmount"]
    /\ UNCHANGED <<system, cache, volumeLocks, lockVars, coState, victims, bounds>>

UnmountStage(p) ==
    /\ At(p, "unUnmount")
    /\ mounted' = mounted \ {req[p].vol}
    /\ Go(p, "unRemove")
    /\ UNCHANGED <<connected, bound, cache, coState, victims, bounds>>

Unstaged(p) == /\ staged' = [staged EXCEPT ![req[p].vol] = "no"]
               /\ UNCHANGED podUses

\* The staging path is removed; without a device path nothing else is done.
RemoveStage(p) ==
    /\ At(p, "unRemove")
    /\ IF req[p].dev THEN Go(p, "unCache") /\ UNCHANGED <<coState, bounds, victims>>
       ELSE Answer(p, Unstaged(p)) /\ victims' = victims \ {req[p].vol}
    /\ UNCHANGED <<system, cache>>

\* Mutant: the copy is taken before the device is removed from the cache.
UnstageCopiesFirst(p) ==
    /\ At(p, "unCache")
    /\ cache' = cache \ {req[p].vol}
    /\ req' = [req EXCEPT ![p].last = (cache = {})]
    /\ pc' = [pc EXCEPT ![p] = "unDisconnect"]
    /\ UNCHANGED <<system, volumeLocks, lockVars, coState, victims, bounds>>

\* RemoveByDevice and GetCopyAllDevices.
UnstageCache(p) == At(p, "unCache") /\ TakeCopy(p, "unDisconnect")

UnstageDisconnect(p) ==
    /\ At(p, "unDisconnect")
    /\ connected' \in {connected} \cup
                      (IF req[p].last THEN {connected \ {Subsystem(req[p].vol)}} ELSE {})
    /\ IF req[p].last /\ connected' = connected /\ Subsystem(req[p].vol) \in connected
       THEN Fault /\ Return(p) /\ Unstaged(p)
       ELSE Answer(p, Unstaged(p))
    /\ victims' = victims \ {req[p].vol}
    /\ UNCHANGED <<mounted, bound, cache>>

-----------------------------------------------------------------------------
(* NodePublishVolume, NodeUnpublishVolume, and restarts *)

\* Publishing locks the target path only.
NodePublishVolume(p, v) ==
    /\ staged[v] = "yes" /\ podUses[v] \in {"no", "asked"}
    /\ Begin(p, "publish", v, <<"target", v>>, "pbMount")
    /\ podUses' = [podUses EXCEPT ![v] = "asked"]
    /\ UNCHANGED <<lockVars, staged>>

\* createTargetMountPath and mountVolume; a target that is mounted is a success.
PublishMount(p) ==
    /\ At(p, "pbMount")
    /\ bound' = bound \cup {req[p].vol}
    /\ Answer(p, podUses' = [podUses EXCEPT ![req[p].vol] = "yes"] /\ UNCHANGED staged)
    /\ UNCHANGED <<connected, mounted, cache, victims>>

NodeUnpublishVolume(p, v) ==
    /\ podUses[v] # "no"
    /\ Begin(p, "unpublish", v, <<"target", v>>, "upUnmount")
    /\ podUses' = [podUses EXCEPT ![v] = "leaving"]
    /\ UNCHANGED <<lockVars, staged>>

UnpublishUnmount(p) ==
    /\ At(p, "upUnmount")
    /\ bound' = bound \ {req[p].vol}
    /\ Answer(p, podUses' = [podUses EXCEPT ![req[p].vol] = "no"] /\ UNCHANGED staged)
    /\ UNCHANGED <<connected, mounted, cache, victims>>

\* Mutant: the cache starts empty.
CacheAtStartEmpty == {}

\* initNVMeMountedDevices: the devices that findmnt shows at staging paths.
CacheAtStart == mounted

\* The plugin restarts: requests and locks are lost.
Restart ==
    /\ restarts < scenario.restarts
    /\ restarts' = restarts + 1
    /\ cache' = CacheAtStart
    /\ volumeLocks' = {}
    /\ glCount' = [g \in GL!Groups |-> 0] /\ glPC' = [p \in Requests |-> "idle"]
    /\ glGroup' = [p \in Requests |-> "A"]
    /\ pc' = [p \in Requests |-> "idle"] /\ req' = [p \in Requests |-> Idle]
    /\ UNCHANGED <<system, coState, victims, faults, scenario>>

Step(p) == \/ EnterGroup(p) \/ CallFails(p)
           \/ StageCheck(p) \/ Connect(p) \/ FindDevice(p) \/ MountStage(p) \/ StageCache(p)
           \/ UndoCache(p) \/ UndoDisconnect(p)
           \/ LookUpDevice(p) \/ UnmountStage(p) \/ RemoveStage(p) \/ UnstageCache(p)
           \/ UnstageDisconnect(p) \/ PublishMount(p) \/ UnpublishUnmount(p)

Call(p) == \E v \in Volumes : \/ NodeStageVolume(p, v) \/ NodeUnstageVolume(p, v)
                              \/ NodePublishVolume(p, v) \/ NodeUnpublishVolume(p, v)

Next == Restart \/ \E p \in Requests : Call(p) \/ Step(p)

Spec == Init /\ [][Next]_vars

-----------------------------------------------------------------------------
(* Properties *)

Busy(v) == \E p \in Requests : ~ At(p, "idle") /\ req[p].key = <<"volume", v>>

\* A volume that the CO knows to be staged is mounted, and the node is connected
\* to its subsystem, although other volumes of the subsystem are unstaged, and
\* the plugin restarts.  Excepted are the victims of StagedNeverCut.
StagedReachable == \A v \in Volumes : staged[v] = "yes" =>
    /\ v \in mounted
    /\ v \in victims \/ Subsystem(v) \in connected

\* The mount cache has every mounted device outside the requests for the
\* volume: this is what makes the copy of the cache tell the last mount.  And
\* an entry that would keep the connections up for ever is gone with the
\* staging of the volume.
CacheIsMounts == \A v \in Volumes :
    /\ v \in mounted => v \in cache \/ Busy(v)
    /\ v \in cache => staged[v] # "no"

\* A volume that is not staged has left nothing at the node: no mount, and, when
\* the volumes share their subsystem and no call failed, no connection after
\* the last one.
NodeClean ==
    /\ \A v \in Volumes : staged[v] = "no" => v \notin mounted /\ v \notin bound
    /\ scenario.shared /\ faults = 0 /\ restarts = 0
       /\ (\A v \in Volumes : staged[v] = "no") => connected = {}

\* The cache is "used to determine when it's safe to disconnect a device": no
\* staged volume loses its connection.
StagedNeverCut == \A v \in Volumes : staged[v] = "yes" => Subsystem(v) \in connected
=============================================================================
