-------------------------- MODULE NvmeofController --------------------------
(***************************************************************************)
(* The controller server of the NVMe-oF driver (internal/nvmeof): an RBD   *)
(* volume is created by the RBD backend and exposed as a namespace of a    *)
(* subsystem of the gateway; ControllerPublishVolume admits a host to the  *)
(* subsystem, with a DH-CHAP key that is kept in the metadata of the       *)
(* image.  Names, volume ids and node ids are locked by the requests, and  *)
(* so is the subsystem while its namespaces change.                        *)
(*                                                                         *)
(* Each step of a request is one call to the gateway or to the backend.  A *)
(* call may fail with or without having had its effect, the answer to the  *)
(* CO may be lost, and the provisioner may restart.                        *)
(***************************************************************************)
EXTENDS Integers, FiniteSets

CONSTANTS Names,       \* the volumes the CO asks for
          IDs,         \* volume ids the backend may give
          NoVolume,
          Shared,      \* the subsystem of a storage class that names one
          Hosts, Requests,
          MaxNSID,     \* bound: namespaces of a subsystem
          Scenarios    \* the environments to explore, one per behaviour

\* shared    whether the volumes share one subsystem
\* dhchap    whether hosts authenticate
\* modify    whether the CO calls ControllerModifyVolume with a list of hosts
\* requests  bound: requests at the same time
\* faults    bound: failing calls and lost answers
\* restarts  bound: provisioner restarts
Environment == [shared : BOOLEAN, dhchap : BOOLEAN, modify : BOOLEAN,
                requests : Nat, faults : Nat, restarts : Nat]

VARIABLES
    image,         \* the id of the RBD image of a name, NoVolume if none
    meta,          \* the NamespaceID in the metadata of an image, 0 if incomplete
    subsystems,    \* the subsystems of the gateway
    namespaces,    \* the volume behind each namespace of a subsystem
    hosts,         \* the hosts admitted to a subsystem, with the key of each
    keys,          \* the hosts whose key the metadata of an image has
    locks,         \* volumeLocks, hostLocks and subsystemLocks
    pc, req,       \* where each request is, and its variables
    co,            \* what the CO wants of a name
    volume,        \* the volume id the CO was given
    published,     \* the hosts a volume is published to, as the CO knows it
    used,          \* ids given so far
    misdeleted,    \* volumes whose namespace was removed for another volume
    abandoned,     \* subsystems whose clean up failed or was skipped
    overridden,    \* subsystems whose hosts ControllerModifyVolume replaced
    faults, restarts, scenario

pool == <<image, meta, keys, used>>
gateway == <<subsystems, namespaces, hosts>>
coState == <<co, volume, published>>
notes == <<misdeleted, abandoned, overridden>>
bounds == <<faults, restarts, scenario>>
vars == <<pool, gateway, locks, pc, req, coState, notes, bounds>>

NSIDs == 1 .. MaxNSID
Subsystems == IDs \cup {Shared}

\* SetFromParameters: the subsystem of the storage class, or one per volume.
SubsystemNQN(v) == IF scenario.shared THEN Shared ELSE v

\* ListNamespaces, and the namespaces that expose a volume.
InUse(s) == {k \in NSIDs : namespaces[s][k] # NoVolume}
NamespacesOf(s, v) == {k \in NSIDs : namespaces[s][k] = v}

\* ListHosts.
Admitted(s) == {h \in Hosts : hosts[s][h] # "none"}

Idle == [op |-> "none", name |-> CHOOSE n \in Names : TRUE, vol |-> NoVolume, src |-> NoVolume,
         host |-> CHOOSE h \in Hosts : TRUE, nsid |-> 0,
         todo |-> {}, add |-> {}, held |-> {}]

CreateSteps == {"cvBackend", "cvLock", "cvSubsystem", "cvNamespace", "cvFinish", "cvStore"}
CleanSteps == {"clLock", "clNamespace", "clSubsystem", "deleteBackend"}
Steps == CreateSteps \cup CleanSteps
         \cup {"dvMeta", "pbKeys", "pbHost", "pbBackend", "upMeta", "upList", "upRemove",
               "mdList", "mdRemove", "mdAdd"}

LockNames == {<<"volume", x>> : x \in Names \cup IDs} \cup {<<"host", h>> : h \in Hosts}
             \cup {<<"subsystem", s>> : s \in Subsystems}

TypeOK ==
    /\ image \in [Names -> IDs \cup {NoVolume}] /\ meta \in [IDs -> 0 .. MaxNSID]
    /\ subsystems \subseteq Subsystems
    /\ namespaces \in [Subsystems -> [NSIDs -> IDs \cup {NoVolume}]]
    /\ hosts \in [Subsystems -> [Hosts -> IDs \cup {"none", "noKey"}]]
    /\ keys \in [IDs -> SUBSET Hosts]
    /\ locks \subseteq LockNames
    /\ pc \in [Requests -> Steps \cup {"idle"}]
    /\ \A p \in Requests : /\ req[p].vol \in IDs \cup {NoVolume}
                           /\ req[p].nsid \in 0 .. MaxNSID
                           /\ req[p].held \subseteq locks
    /\ co \in [Names -> {"none", "wanted", "held", "leaving", "gone"}]
    /\ volume \in [Names -> IDs \cup {NoVolume}]
    /\ published \in [Names -> [Hosts -> {"no", "asked", "yes", "leaving"}]]
    /\ used \subseteq IDs /\ misdeleted \subseteq IDs
    /\ abandoned \subseteq Subsystems /\ overridden \subseteq Subsystems
    /\ scenario \in Environment
    /\ faults \in 0 .. scenario.faults /\ restarts \in 0 .. scenario.restarts

Init ==
    /\ image = [n \in Names |-> NoVolume] /\ meta = [v \in IDs |-> 0]
    /\ keys = [v \in IDs |-> {}] /\ used = {}
    /\ subsystems = {}
    /\ namespaces = [s \in Subsystems |-> [k \in NSIDs |-> NoVolume]]
    /\ hosts = [s \in Subsystems |-> [h \in Hosts |-> "none"]]
    /\ locks = {}
    /\ pc = [p \in Requests |-> "idle"] /\ req = [p \in Requests |-> Idle]
    /\ co = [n \in Names |-> "none"] /\ volume = [n \in Names |-> NoVolume]
    /\ published = [n \in Names |-> [h \in Hosts |-> "no"]]
    /\ misdeleted = {} /\ abandoned = {} /\ overridden = {}
    /\ faults = 0 /\ restarts = 0 /\ scenario \in Scenarios

-----------------------------------------------------------------------------
(* Control flow *)

At(p, step) == pc[p] = step

Goto(p, step) == pc' = [pc EXCEPT ![p] = step]

Go(p, step) == Goto(p, step) /\ UNCHANGED <<req, locks>>

\* The request returns: the deferred Release calls run.
Return(p) == /\ Goto(p, "idle")
             /\ req' = [req EXCEPT ![p] = Idle]
             /\ locks' = locks \ req[p].held

Fault == /\ faults < scenario.faults
         /\ faults' = faults + 1
         /\ UNCHANGED <<restarts, scenario>>

\* A request begins with the TryAcquire calls of its handler; one that does not
\* get a lock is answered Aborted and changes nothing.
Begin(p, r, step) ==
    /\ At(p, "idle")
    /\ Cardinality({q \in Requests : ~ At(q, "idle")}) < scenario.requests
    /\ r.held \cap locks = {}
    /\ locks' = locks \cup r.held
    /\ req' = [req EXCEPT ![p] = r]
    /\ Goto(p, step)
    /\ UNCHANGED <<pool, gateway, notes, bounds>>

\* The request succeeds, and the CO learns of it unless the answer is lost.
Answer(p, news) == /\ Return(p)
                   /\ \/ news /\ UNCHANGED bounds
                      \/ Fault /\ UNCHANGED coState

\* Mutant: the request forgets that it has released the subsystem.
ReleaseSubsystemTwice(p, r) ==
    /\ locks' = locks \ ({<<"subsystem", SubsystemNQN(r.vol)>>} \cap r.held)
    /\ req' = [req EXCEPT ![p] = r]

\* createNVMeoFResources and cleanupNVMeoFResources release the subsystem.
ReleaseSubsystem(p, r) ==
    LET l == <<"subsystem", SubsystemNQN(r.vol)>> IN
      /\ locks' = locks \ ({l} \cap r.held)
      /\ req' = [req EXCEPT ![p] = [r EXCEPT !.held = @ \ {l}]]

\* Calls whose failure ends the request and leaves the rest to its repetition.
PlainSteps == {"cvBackend", "pbKeys", "pbHost", "pbBackend", "upMeta", "upList", "upRemove",
               "mdList", "mdRemove", "mdAdd", "deleteBackend"}

CallFails(p) == /\ pc[p] \in PlainSteps
                /\ Fault
                /\ Return(p)
                /\ UNCHANGED <<pool, gateway, coState, notes>>

-----------------------------------------------------------------------------
(* CreateVolume *)

\* Mutant: the volume to clone is not locked.
CreateVolumeSourceUnlocked(p, n, src) ==
    /\ co[n] \in {"none", "wanted"}
    /\ Begin(p, [Idle EXCEPT !.op = "create", !.name = n, !.src = src,
                             !.held = {<<"volume", n>>}], "cvBackend")
    /\ co' = [co EXCEPT ![n] = "wanted"]
    /\ UNCHANGED <<volume, published>>

\* The name is locked, and the volume to clone if there is one.
CreateVolume(p, n, src) ==
    /\ co[n] \in {"none", "wanted"}
    /\ Begin(p, [Idle EXCEPT !.op = "create", !.name = n, !.src = src,
                   !.held = {<<"volume", n>>}
                            \cup (IF src = NoVolume THEN {} ELSE {<<"volume", src>>})],
             "cvBackend")
    /\ co' = [co EXCEPT ![n] = "wanted"]
    /\ UNCHANGED <<volume, published>>

\* A volume id that was not given before; which one makes no difference.
FreshID == IF used = IDs THEN {} ELSE {CHOOSE v \in IDs : v \notin used}

\* The backend makes the image, or finds the one of an earlier request.
CreateBackend(p) ==
    /\ At(p, "cvBackend")
    /\ LET n == req[p].name IN
         \E v \in IF image[n] # NoVolume THEN {image[n]} ELSE FreshID :
            /\ image' = [image EXCEPT ![n] = v]
            /\ used' = used \cup {v}
            /\ req' = [req EXCEPT ![p].vol = v]
            /\ Goto(p, "cvLock")
    /\ UNCHANGED <<meta, keys, gateway, locks, coState, notes, bounds>>

\* The deferred functions of CreateVolume.  Once createNVMeoFResources has the
\* subsystem, cleanupNVMeoFResources runs before the image is deleted; before
\* that nvmeofData is nil, and only the image is deleted.
RollBack(p, r) == Goto(p, "clLock") /\ ReleaseSubsystem(p, r)

\* connectGateway, and TryAcquire on the subsystem.
SubsystemLock(p) ==
    /\ At(p, "cvLock")
    /\ LET l == <<"subsystem", SubsystemNQN(req[p].vol)>> IN
         \/ /\ l \notin locks
            /\ locks' = locks \cup {l}
            /\ req' = [req EXCEPT ![p].held = @ \cup {l}]
            /\ Goto(p, "cvSubsystem")
            /\ UNCHANGED bounds
         \/ /\ (l \in locks /\ UNCHANGED bounds) \/ Fault
            /\ Go(p, "deleteBackend")
    /\ UNCHANGED <<pool, gateway, coState, notes>>

\* CreateSubsystem, which is not called for one that SubsystemExists.
CreateSubsystem(s) == subsystems \cup {s}

\* ensureSubsystem: the subsystem, and its listeners.
EnsureSubsystem(p) ==
    /\ At(p, "cvSubsystem")
    /\ \/ /\ subsystems' = CreateSubsystem(SubsystemNQN(req[p].vol))
          /\ Go(p, "cvNamespace") /\ UNCHANGED bounds
       \/ /\ subsystems' \in {subsystems, CreateSubsystem(SubsystemNQN(req[p].vol))}
          /\ Fault /\ RollBack(p, req[p])
    /\ UNCHANGED <<pool, namespaces, hosts, coState, notes>>

\* findExistingNamespace when the image has a namespace; otherwise the gateway
\* gives any NSID that is free.
FindExistingNamespace(s, v) ==
    IF NamespacesOf(s, v) # {} THEN NamespacesOf(s, v) ELSE NSIDs \ InUse(s)

CreateNamespace(p) ==
    /\ At(p, "cvNamespace")
    /\ LET v == req[p].vol
           s == SubsystemNQN(v)
           found == FindExistingNamespace(s, v) IN
         \/ \E k \in found :
              /\ namespaces' = [namespaces EXCEPT ![s][k] = v]
              /\ \/ /\ req' = [req EXCEPT ![p].nsid = k]
                    /\ Goto(p, "cvFinish") /\ UNCHANGED <<locks, bounds>>
                 \/ Fault /\ RollBack(p, req[p])
         \/ /\ Fault \/ (found = {} /\ UNCHANGED bounds)
            /\ RollBack(p, req[p]) /\ UNCHANGED namespaces
    /\ UNCHANGED <<pool, subsystems, hosts, coState, notes>>

\* AddHost leaves a host that is there as it is (EEXIST).
WithHosts(s, new, key) ==
    [hosts EXCEPT ![s] = [h \in Hosts |-> IF h \in new /\ @[h] = "none" THEN key ELSE @[h]]]

\* The QoS limits, the hosts of the volume attributes class, which are external
\* clients without key, and the UUID of the namespace.
FinishResources(p) ==
    /\ At(p, "cvFinish")
    /\ \E ext \in IF scenario.modify THEN SUBSET Hosts ELSE {{}} :
         hosts' = WithHosts(SubsystemNQN(req[p].vol), ext, "noKey")
    /\ \/ Goto(p, "cvStore") /\ ReleaseSubsystem(p, req[p]) /\ UNCHANGED bounds
       \/ Fault /\ RollBack(p, req[p])
    /\ UNCHANGED <<pool, subsystems, namespaces, coState, notes>>

\* storeNVMeoFMetadata writes one key after the other: the metadata that a
\* failure leaves is incomplete, or a mixture if the image had metadata.
StoreMetadata(p) ==
    /\ At(p, "cvStore")
    /\ LET n == req[p].name
           v == req[p].vol
           k == req[p].nsid IN
         \/ /\ image[n] = v
            /\ meta' = [meta EXCEPT ![v] = k]
            /\ Answer(p, /\ co' = [co EXCEPT ![n] = "held"]
                         /\ volume' = [volume EXCEPT ![n] = v]
                         /\ UNCHANGED published)
         \/ /\ \/ image[n] # v /\ UNCHANGED <<bounds, meta>>
               \/ /\ image[n] = v /\ Fault
                  /\ \E m \in IF meta[v] = 0 THEN {0} ELSE {meta[v], k} :
                       meta' = [meta EXCEPT ![v] = m]
            /\ RollBack(p, req[p])
            /\ UNCHANGED coState
    /\ UNCHANGED <<image, keys, used, gateway, notes>>

-----------------------------------------------------------------------------
(* cleanupNVMeoFResources, of a failed CreateVolume and of DeleteVolume *)

\* Mutant: DeleteVolume only logs an error of the clean up, too.
CleanupFailsLogged(p) ==
    /\ Goto(p, "deleteBackend") /\ ReleaseSubsystem(p, req[p])
    /\ UNCHANGED notes

\* An error of the clean up ends DeleteVolume; CreateVolume only logs it and
\* goes on to remove the image.
CleanupFails(p) ==
    /\ abandoned' = abandoned \cup
                      (IF req[p].op = "create" THEN {SubsystemNQN(req[p].vol)} ELSE {})
    /\ IF req[p].op = "create"
       THEN Goto(p, "deleteBackend") /\ ReleaseSubsystem(p, req[p])
       ELSE Return(p)
    /\ UNCHANGED <<misdeleted, overridden>>

CleanupLock(p) ==
    /\ At(p, "clLock")
    /\ LET l == <<"subsystem", SubsystemNQN(req[p].vol)>> IN
         \/ /\ l \notin locks
            /\ locks' = locks \cup {l}
            /\ req' = [req EXCEPT ![p].held = @ \cup {l}]
            /\ Goto(p, "clNamespace")
            /\ UNCHANGED <<bounds, notes>>
         \/ /\ (l \in locks /\ UNCHANGED bounds) \/ Fault
            /\ CleanupFails(p)
    /\ UNCHANGED <<pool, gateway, coState>>

\* DeleteNamespace with the NSID of the metadata, which may by now be the one
\* of another volume; a namespace that is not there is no error.
RemoveNamespace(s, k, v) ==
    /\ namespaces' = IF k = 0 THEN namespaces ELSE [namespaces EXCEPT ![s][k] = NoVolume]
    /\ misdeleted' = misdeleted \cup
                       (IF k = 0 THEN {} ELSE {namespaces[s][k]} \ {v, NoVolume})

CleanupNamespace(p) ==
    /\ At(p, "clNamespace")
    /\ \/ /\ RemoveNamespace(SubsystemNQN(req[p].vol), req[p].nsid, req[p].vol)
          /\ Go(p, "clSubsystem")
          /\ UNCHANGED <<bounds, abandoned, overridden>>
       \/ req[p].nsid > 0 /\ Fault /\ CleanupFails(p) /\ UNCHANGED namespaces
    /\ UNCHANGED <<pool, subsystems, hosts, coState>>

\* Mutant: the subsystem is deleted by force, its namespaces with it.
DeleteSubsystemForced(s) ==
    /\ subsystems' = subsystems \ {s}
    /\ hosts' = [hosts EXCEPT ![s] = [h \in Hosts |-> "none"]]
    /\ namespaces' = [namespaces EXCEPT ![s] = [k \in NSIDs |-> NoVolume]]

\* DeleteSubsystem takes the hosts and listeners along; a subsystem with
\* namespaces is busy, which is a success.
DeleteSubsystem(s) ==
    /\ IF InUse(s) = {}
       THEN /\ subsystems' = subsystems \ {s}
            /\ hosts' = [hosts EXCEPT ![s] = [h \in Hosts |-> "none"]]
       ELSE UNCHANGED <<subsystems, hosts>>
    /\ UNCHANGED namespaces

CleanupSubsystem(p) ==
    /\ At(p, "clSubsystem")
    /\ \/ /\ DeleteSubsystem(SubsystemNQN(req[p].vol))
          /\ Goto(p, "deleteBackend") /\ ReleaseSubsystem(p, req[p])
          /\ UNCHANGED <<bounds, notes>>
       \/ Fault /\ CleanupFails(p) /\ UNCHANGED gateway
    /\ UNCHANGED <<pool, coState>>

-----------------------------------------------------------------------------
(* DeleteVolume *)

DeleteVolume(p, n) ==
    /\ co[n] \in {"held", "leaving"}
    /\ \A h \in Hosts : published[n][h] = "no"
    /\ Begin(p, [Idle EXCEPT !.op = "delete", !.name = n, !.vol = volume[n],
                             !.held = {<<"volume", volume[n]>>}], "dvMeta")
    /\ co' = [co EXCEPT ![n] = "leaving"]
    /\ UNCHANGED <<volume, published>>

\* getNVMeoFMetadata reads the whole metadata of an image that is there.
HasMetadata(n, v) == image[n] = v /\ meta[v] > 0

\* Any error of getNVMeoFMetadata skips the clean up of the gateway.
DeleteReadMetadata(p) ==
    /\ At(p, "dvMeta")
    /\ LET v == req[p].vol IN
         \/ /\ HasMetadata(req[p].name, v)
            /\ req' = [req EXCEPT ![p].nsid = meta[v]]
            /\ Goto(p, "clLock")
            /\ UNCHANGED <<bounds, abandoned>>
         \/ /\ \/ ~ HasMetadata(req[p].name, v) /\ UNCHANGED <<bounds, abandoned>>
               \/ Fault /\ abandoned' = abandoned \cup {SubsystemNQN(v)}
            /\ Goto(p, "deleteBackend")
            /\ UNCHANGED req
    /\ UNCHANGED <<pool, gateway, locks, coState, misdeleted, overridden>>

\* The backend's DeleteVolume, which refuses an image that the gateway has open.
DeleteBackend(p) ==
    /\ At(p, "deleteBackend")
    /\ LET n == req[p].name
           v == req[p].vol IN
         IF \E s \in Subsystems : NamespacesOf(s, v) # {}
         THEN Return(p) /\ UNCHANGED <<pool, coState, bounds>>
         ELSE /\ image' = [image EXCEPT ![n] = IF @ = v THEN NoVolume ELSE @]
              /\ meta' = [meta EXCEPT ![v] = 0] /\ keys' = [keys EXCEPT ![v] = {}]
              /\ UNCHANGED used
              /\ IF req[p].op = "delete"
                 THEN Answer(p, co' = [co EXCEPT ![n] = "gone"]
                                /\ UNCHANGED <<volume, published>>)
                 ELSE Return(p) /\ UNCHANGED <<coState, bounds>>
    /\ UNCHANGED <<gateway, notes>>

-----------------------------------------------------------------------------
(* ControllerPublishVolume and ControllerUnpublishVolume *)

\* Mutant: the node is not locked, so a publish of another volume may overlap.
HostRequestNoHostLock(op, n, h) ==
    [Idle EXCEPT !.op = op, !.name = n, !.vol = volume[n], !.host = h,
                 !.held = {<<"volume", volume[n]>>}]

\* Both lock the volume and the node.
HostRequest(op, n, h) ==
    [Idle EXCEPT !.op = op, !.name = n, !.vol = volume[n], !.host = h,
                 !.held = {<<"volume", volume[n]>>, <<"host", h>>}]

ControllerPublishVolume(p, n, h) ==
    /\ co[n] = "held" /\ published[n][h] \in {"no", "asked"}
    /\ Begin(p, HostRequest("publish", n, h), "pbKeys")
    /\ published' = [published EXCEPT ![n][h] = "asked"]
    /\ UNCHANGED <<co, volume>>

\* GetOrCreateDHCHAPHostKey: a key is made and stored in the metadata of the
\* image when there is none.
GetOrCreateHostKey(v, h) == [keys EXCEPT ![v] = @ \cup {h}]

\* setupDHCHAPKeys: the key of the host for the subsystem.
SetupDHCHAPKeys(p) ==
    /\ At(p, "pbKeys")
    /\ keys' = IF scenario.dhchap THEN GetOrCreateHostKey(req[p].vol, req[p].host) ELSE keys
    /\ Go(p, "pbHost")
    /\ UNCHANGED <<image, meta, used, gateway, coState, notes, bounds>>

HostKey(v) == IF scenario.dhchap THEN v ELSE "noKey"

\* AddHost, then reconcileListeners, whose failure is replaced by the listeners
\* that were stored.
AddHost(p) ==
    /\ At(p, "pbHost")
    /\ LET v == req[p].vol
           s == SubsystemNQN(v) IN
         \/ /\ s \in subsystems
            /\ hosts' = WithHosts(s, {req[p].host}, HostKey(v))
            /\ \/ Go(p, "pbBackend") /\ UNCHANGED bounds
               \/ Return(p) /\ Fault
         \/ s \notin subsystems /\ Return(p) /\ UNCHANGED <<hosts, bounds>>
    /\ UNCHANGED <<pool, subsystems, namespaces, coState, notes>>

\* ControllerPublishVolume of the backend reads the service account.
PublishBackend(p) ==
    /\ At(p, "pbBackend")
    /\ Answer(p, /\ published' = [published EXCEPT ![req[p].name][req[p].host] = "yes"]
                 /\ UNCHANGED <<co, volume>>)
    /\ UNCHANGED <<pool, gateway, notes>>

ControllerUnpublishVolume(p, n, h) ==
    /\ published[n][h] \in {"asked", "yes", "leaving"}
    /\ Begin(p, HostRequest("unpublish", n, h), "upMeta")
    /\ published' = [published EXCEPT ![n][h] = "leaving"]
    /\ UNCHANGED <<co, volume>>

Unpublished(p) == /\ published' = [published EXCEPT ![req[p].name][req[p].host] = "no"]
                  /\ UNCHANGED <<co, volume>>

\* Without secrets, and without a reference to them in the configuration, the
\* request is answered at once.
UnpublishReadMetadata(p) ==
    /\ At(p, "upMeta")
    /\ \/ /\ HasMetadata(req[p].name, req[p].vol)
          /\ Go(p, "upList")
          /\ UNCHANGED <<coState, bounds>>
       \/ /\ ~ HasMetadata(req[p].name, req[p].vol)
          /\ Return(p)
          /\ UNCHANGED <<coState, bounds>>
       \/ Fault /\ Return(p) /\ Unpublished(p)
    /\ UNCHANGED <<pool, gateway, notes>>

\* The namespaces of the subsystem besides the one of the volume.
OtherNamespaces(s) == Cardinality(InUse(s)) - 1

\* ListNamespaces: the host keeps its access while other volumes are there.
UnpublishList(p) ==
    /\ At(p, "upList")
    /\ IF OtherNamespaces(SubsystemNQN(req[p].vol)) > 0
       THEN Answer(p, Unpublished(p))
       ELSE Go(p, "upRemove") /\ UNCHANGED <<coState, bounds>>
    /\ UNCHANGED <<pool, gateway, notes>>

\* RemoveHost: a host with open connections may be kept (EBUSY), which is a
\* success.
WithoutHost(s, h) == {hosts, [hosts EXCEPT ![s][h] = "none"]}

\* cleanupDHCHAPKeys asks the store to remove the key; the metadata of the image
\* keeps it.
RemoveHost(p) ==
    /\ At(p, "upRemove")
    /\ hosts' \in WithoutHost(SubsystemNQN(req[p].vol), req[p].host)
    /\ Answer(p, Unpublished(p))
    /\ UNCHANGED <<pool, subsystems, namespaces, notes>>

-----------------------------------------------------------------------------
(* ControllerModifyVolume with a list of hosts, and restarts *)

\* Only the volume is locked.
ControllerModifyVolume(p, n, desired) ==
    /\ scenario.modify /\ co[n] = "held"
    /\ Begin(p, [Idle EXCEPT !.op = "modify", !.name = n, !.vol = volume[n], !.add = desired,
                             !.held = {<<"volume", volume[n]>>}], "mdList")
    /\ UNCHANGED coState

\* UpdateHostsForSubsystem: ListHosts, then RemoveHost and AddHost one by one.
ModifyList(p) ==
    /\ At(p, "mdList")
    /\ LET s == SubsystemNQN(req[p].vol)
           r == req[p] IN
         /\ req' = [req EXCEPT ![p] = [r EXCEPT !.todo = Admitted(s) \ r.add,
                                                !.add = r.add \ Admitted(s)]]
         /\ overridden' = overridden \cup {s}
    /\ Goto(p, "mdRemove")
    /\ UNCHANGED <<pool, gateway, locks, coState, misdeleted, abandoned, bounds>>

ModifyRemove(p) ==
    /\ At(p, "mdRemove")
    /\ \/ \E h \in req[p].todo :
            /\ hosts' \in WithoutHost(SubsystemNQN(req[p].vol), h)
            /\ req' = [req EXCEPT ![p].todo = @ \ {h}]
            /\ UNCHANGED pc
       \/ req[p].todo = {} /\ Goto(p, "mdAdd") /\ UNCHANGED <<hosts, req>>
    /\ UNCHANGED <<pool, subsystems, namespaces, locks, coState, notes, bounds>>

ModifyAdd(p) ==
    /\ At(p, "mdAdd")
    /\ \/ \E h \in req[p].add :
            /\ hosts' = WithHosts(SubsystemNQN(req[p].vol), {h}, "noKey")
            /\ req' = [req EXCEPT ![p].add = @ \ {h}]
            /\ UNCHANGED <<pc, locks>>
       \/ req[p].add = {} /\ Return(p) /\ UNCHANGED hosts
    /\ UNCHANGED <<pool, subsystems, namespaces, coState, notes, bounds>>

\* The provisioner restarts: requests and locks are lost.
Restart ==
    /\ restarts < scenario.restarts
    /\ restarts' = restarts + 1
    /\ pc' = [p \in Requests |-> "idle"] /\ req' = [p \in Requests |-> Idle]
    /\ locks' = {}
    /\ UNCHANGED <<pool, gateway, coState, notes, faults, scenario>>

Step(p) == \/ CallFails(p) \/ CreateBackend(p) \/ SubsystemLock(p) \/ EnsureSubsystem(p)
           \/ CreateNamespace(p) \/ FinishResources(p) \/ StoreMetadata(p)
           \/ CleanupLock(p) \/ CleanupNamespace(p) \/ CleanupSubsystem(p)
           \/ DeleteReadMetadata(p) \/ DeleteBackend(p)
           \/ SetupDHCHAPKeys(p) \/ AddHost(p) \/ PublishBackend(p)
           \/ UnpublishReadMetadata(p) \/ UnpublishList(p) \/ RemoveHost(p)
           \/ ModifyList(p) \/ ModifyRemove(p) \/ ModifyAdd(p)

\* The volumes a clone may be made of.
Sources(n) == {volume[m] : m \in {m \in Names \ {n} : co[m] = "held"}}

Call(p) == \E n \in Names :
    \/ \E src \in Sources(n) \cup {NoVolume} : CreateVolume(p, n, src)
    \/ DeleteVolume(p, n)
    \/ \E h \in Hosts : ControllerPublishVolume(p, n, h) \/ ControllerUnpublishVolume(p, n, h)
    \/ \E desired \in SUBSET Hosts : ControllerModifyVolume(p, n, desired)

Next == Restart \/ \E p \in Requests : Call(p) \/ Step(p)

Spec == Init /\ [][Next]_vars

-----------------------------------------------------------------------------
(* Properties *)

\* A volume the CO holds is an image that the gateway exposes under the NSID
\* in its metadata, whatever failed while it was made, or while volumes of the
\* same subsystem were made or deleted (CreateVolume, cleanupNVMeoFResources).
\* Excepted are the namespaces removed for another volume (NamespaceIsOwn).
VolumeExposed == \A n \in Names : co[n] = "held" =>
    LET v == volume[n] IN
      /\ image[n] = v
      /\ v \in misdeleted \/ (meta[v] > 0 /\ namespaces[SubsystemNQN(v)][meta[v]] = v)

\* A namespace has its image: no image is removed under the gateway.
NamespaceBacked == \A s \in Subsystems : \A k \in InUse(s) :
    \E n \in Names : image[n] = namespaces[s][k]

\* A host that a volume is published to is admitted to the subsystem, with the
\* key that the metadata of the image has, although volumes of the subsystem
\* come and go and hosts are removed for them.  Volumes that share a subsystem
\* do not share the key, and ControllerModifyVolume replaces all hosts.
HostAdmitted == \A n \in Names : \A h \in Hosts :
    LET s == SubsystemNQN(volume[n]) IN
    published[n][h] = "yes" /\ s \notin overridden /\ volume[n] \notin misdeleted =>
        /\ h \in Admitted(s)
        /\ scenario.dhchap => h \in keys[volume[n]]
        /\ ~ scenario.shared => hosts[s][h] = HostKey(volume[n])

\* What the gateway and the pool hold is wanted by the CO, which repeats its
\* requests, so that nothing is left behind by a volume that is gone.
Wanted(s) == \E n \in Names : co[n] \notin {"none", "gone"} /\
    (s = Shared \/ s \in {image[n], volume[n]} \/ \E p \in Requests : req[p].vol = s)
NothingForgotten ==
    /\ \A s \in subsystems \ abandoned : Wanted(s)
    /\ \A n \in Names : co[n] \in {"none", "gone"} => image[n] = NoVolume

\* The volume that is cloned stays until the backend has made the clone.
SourceKept == \A p \in Requests :
    At(p, "cvBackend") /\ req[p].src # NoVolume => \E n \in Names : image[n] = req[p].src

\* cleanupNVMeoFResources is "idempotent and safe to call even if the subsystem
\* ... has active namespaces": it removes the namespace of its own volume only.
NamespaceIsOwn == misdeleted = {}

\* unpublishResources keeps the host when "there are more namespaces in this
\* subsystem with this host": a host that no volume of the subsystem is
\* published to is not admitted any more.
HostOfPublished == \A s \in subsystems : \A h \in Admitted(s) :
    \E n \in Names : SubsystemNQN(volume[n]) = s /\ published[n][h] # "no"
=============================================================================
