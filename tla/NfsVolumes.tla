----------------------------- MODULE NfsVolumes -----------------------------
(***************************************************************************)
(* internal/nfs: volumes of CephFS that are exported over NFS.             *)
(*                                                                         *)
(* The controller calls that of CephFS for the subvolume, keeps the name   *)
(* of the NFS cluster, of the export and of the server with the            *)
(* attributes of the volume in the journal, and has the Ceph manager       *)
(* create, change and remove the export.  It takes no lock: a call that    *)
(* the CO gave up runs next to the one that repeats it.  The calls of the  *)
(* CephFS backend are one step each, CephfsVolumes models theirs.  The     *)
(* "ceph nfs export" commands for old releases are left out.               *)
(***************************************************************************)
EXTENDS Integers

CONSTANTS NfsVols,       \* volumes
          NoVol,
          NfsCalls,
          NfsScenarios

VARIABLES scenario, faults, crashes, late,
          subvols,       \* subvolumes of CephFS
          attrs,         \* volume |-> its attributes in the journal
          exports,       \* path |-> [vol, clients] in the NFS cluster
          mounts,        \* volume |-> what is mounted at its target path
          checkers,      \* volumes with a health checker on the node
          calls,
          life,          \* volume |-> what the CO knows: "new", "asked", "given", "deleting",
                         \* "gone", or "overtaken": deleted while a call goes on that it gave up
          limited,       \* volumes whose clients were limited with the knowledge of the CO
          published      \* volumes that are published with the knowledge of the CO

nfsState == <<subvols, attrs, exports, mounts, checkers>>
nfsCO == <<life, limited, published>>
nfsEnv == <<scenario, crashes>>
nfsVars == <<nfsEnv, faults, late, nfsState, calls, nfsCO>>

NoAttrs == [reserved |-> FALSE, cluster |-> FALSE, name |-> FALSE, server |-> FALSE]
NoExport == [vol |-> NoVol, clients |-> "all"]
\* All volumes have the same friendly name; they are those of a PVC that was made again.
Friendly == "namespace/pvc"
Paths == NfsVols \cup {Friendly}
NoCall == [op |-> "none", v |-> NoVol, pc |-> "idle", path |-> NoVol, info |-> NoExport, lost |-> FALSE]

NfsTypeOK ==
    /\ subvols \subseteq NfsVols /\ checkers \subseteq NfsVols
    /\ limited \subseteq NfsVols /\ published \subseteq NfsVols
    /\ attrs \in [NfsVols -> [reserved : BOOLEAN, cluster : BOOLEAN, name : BOOLEAN, server : BOOLEAN]]
    /\ exports \in [Paths -> [vol : NfsVols \cup {NoVol}, clients : {"all", "some"}]]
    /\ mounts \in [NfsVols -> NfsVols \cup {NoVol}]
    /\ \A c \in NfsCalls : calls[c].op = "none" <=> calls[c] = NoCall

NfsInit ==
    /\ scenario \in NfsScenarios
    /\ faults = scenario.faults /\ crashes = scenario.crashes /\ late = scenario.late
    /\ subvols = {} /\ attrs = [v \in NfsVols |-> NoAttrs]
    /\ exports = [p \in Paths |-> NoExport]
    /\ mounts = [v \in NfsVols |-> NoVol] /\ checkers = {}
    /\ calls = [c \in NfsCalls |-> NoCall]
    /\ life = [v \in NfsVols |-> "new"] /\ limited = {} /\ published = {}

-----------------------------------------------------------------------------
(* Calls *)

At(c, label) == calls[c].pc = label
Goto(c, label) == calls' = [calls EXCEPT ![c].pc = label]
NoFault == UNCHANGED faults
Fault == faults > 0 /\ faults' = faults - 1
\* The call returns; the CO learns nothing but that it failed.
Return(c) == calls' = [calls EXCEPT ![c] = NoCall]
\* The answer, which the CO does not see when it gave up the call.
Answer(c, co) == Return(c) /\ IF calls[c].lost THEN UNCHANGED nfsCO ELSE co

Waits(v, ops) == \E c \in NfsCalls : calls[c].v = v /\ calls[c].op \in ops /\ ~calls[c].lost
Start(c, v, op, label) ==
    /\ calls[c] = NoCall
    /\ calls' = [calls EXCEPT ![c] = [NoCall EXCEPT !.op = op, !.v = v, !.pc = label]]
    /\ NoFault /\ UNCHANGED <<nfsEnv, late, nfsState, limited>>

\* friendlyExportName, and GetExportPath of the volume that is created.
ExportPath(v) == IF scenario.friendly THEN Friendly ELSE v
\* resolveExportName: the path that the journal tells.
ResolveExportName(v) == IF attrs[v].name THEN Friendly ELSE v

\* setAttribute, which also makes the object of the attributes if it is gone.
SetAttribute(v, value) == attrs' = [attrs EXCEPT ![v] = value]

-----------------------------------------------------------------------------
(* CreateVolume *)

CreateVolume(c, v) ==
    /\ v \in scenario.vols /\ life[v] \in {"new", "asked"} /\ ~Waits(v, {"create"})
    /\ Start(c, v, "create", "backend")
    /\ life' = [life EXCEPT ![v] = "asked"] /\ UNCHANGED published

\* CreateVolume of CephFS.  A call that is late here would make another volume.
BackendCreate(c) ==
    LET v == calls[c].v IN
    /\ At(c, "backend")
    /\ \/ /\ life[v] \in {"asked", "given"} /\ NoFault
          /\ subvols' = subvols \cup {v} /\ SetAttribute(v, [attrs[v] EXCEPT !.reserved = TRUE])
          /\ Goto(c, IF scenario.friendly THEN "name" ELSE "cluster")
       \/ Fault /\ Return(c) /\ UNCHANGED <<subvols, attrs>>
    /\ UNCHANGED <<nfsEnv, late, exports, mounts, checkers, nfsCO>>

\* SetExportName; then setNFSCluster, in CreateExport.
SetExportName(c) ==
    LET v == calls[c].v IN
    /\ At(c, "name")
    /\ \/ SetAttribute(v, [attrs[v] EXCEPT !.name = TRUE]) /\ Goto(c, "cluster") /\ NoFault
       \/ Fault /\ Return(c) /\ UNCHANGED attrs
    /\ UNCHANGED <<nfsEnv, late, subvols, exports, mounts, checkers, nfsCO>>

\* Mutant: an error is written to the log.
SetNFSClusterLogged(c) ==
    LET v == calls[c].v IN
    /\ At(c, "cluster") /\ Goto(c, "export")
    /\ \/ SetAttribute(v, [attrs[v] EXCEPT !.cluster = TRUE]) /\ NoFault
       \/ Fault /\ UNCHANGED attrs
    /\ UNCHANGED <<nfsEnv, late, subvols, exports, mounts, checkers, nfsCO>>

SetNFSCluster(c) ==
    LET v == calls[c].v IN
    /\ At(c, "cluster")
    /\ \/ SetAttribute(v, [attrs[v] EXCEPT !.cluster = TRUE]) /\ Goto(c, "export") /\ NoFault
       \/ Fault /\ Return(c) /\ UNCHANGED attrs
    /\ UNCHANGED <<nfsEnv, late, subvols, exports, mounts, checkers, nfsCO>>

\* What follows the export: the mutable parameters, or the answer.
Exported(c) == IF scenario.mutable THEN "server" ELSE "created"

\* CreateCephFSExport, for a path in the file system that is there.
CreateExport(c) ==
    LET v == calls[c].v
        p == ExportPath(v)
        new == exports' = [exports EXCEPT ![p] = [vol |-> v, clients |-> "all"]]
    IN  /\ At(c, "export")
        /\ \/ exports[p].vol = NoVol /\ v \in subvols /\ new /\ Goto(c, Exported(c)) /\ NoFault
           \/ exports[p].vol = NoVol /\ v \in subvols /\ new /\ Return(c) /\ Fault
           \/ exports[p].vol # NoVol /\ Goto(c, "exists") /\ NoFault /\ UNCHANGED exports
           \/ exports[p].vol = NoVol /\ v \notin subvols /\ Return(c) /\ NoFault /\ UNCHANGED exports
           \/ Return(c) /\ Fault /\ UNCHANGED exports
        /\ UNCHANGED <<nfsEnv, late, subvols, attrs, mounts, checkers, nfsCO>>

\* Mutant: an export that exists is taken for that of an earlier attempt.
ExportIsOwnAlways(c) == TRUE
\* "Export already exists": it has to be that of this subvolume.
ExportIsOwn(c) == exports[ExportPath(calls[c].v)].vol = calls[c].v

CheckExport(c) ==
    /\ At(c, "exists")
    /\ \/ ExportIsOwn(c) /\ Goto(c, Exported(c)) /\ NoFault
       \/ ~ExportIsOwn(c) /\ Return(c) /\ NoFault
       \/ ExportIsOwn(c) /\ Return(c) /\ Fault
    /\ UNCHANGED <<nfsEnv, late, nfsState, nfsCO>>

Created(c) ==
    /\ At(c, "created")
    /\ Answer(c, /\ life' = [life EXCEPT ![calls[c].v] = "given"]
                 /\ limited' = IF scenario.mutable THEN limited \cup {calls[c].v} ELSE limited
                 /\ UNCHANGED published)
    /\ NoFault /\ UNCHANGED <<nfsEnv, late, nfsState>>

-----------------------------------------------------------------------------
(* ControllerModifyVolume, called by the CO and at the end of CreateVolume *)

ControllerModifyVolume(c, v) ==
    /\ life[v] = "given" /\ ~Waits(v, {"modify"})
    /\ Start(c, v, "modify", "server") /\ UNCHANGED <<life, published>>

SetServer(c) ==
    LET v == calls[c].v IN
    /\ At(c, "server")
    /\ \/ SetAttribute(v, [attrs[v] EXCEPT !.server = TRUE]) /\ Goto(c, "clients") /\ NoFault
       \/ Fault /\ Return(c) /\ UNCHANGED attrs
    /\ UNCHANGED <<nfsEnv, late, subvols, exports, mounts, checkers, nfsCO>>

\* SetClients: the path and the cluster from the journal, ...
SetClients(c) ==
    LET v == calls[c].v IN
    /\ At(c, "clients")
    /\ \/ /\ attrs[v].cluster /\ NoFault
          /\ calls' = [calls EXCEPT ![c].pc = "info", ![c].path = ResolveExportName(v)]
       \/ ~attrs[v].cluster /\ Return(c) /\ NoFault
       \/ attrs[v].cluster /\ Return(c) /\ Fault
    /\ UNCHANGED <<nfsEnv, late, nfsState, nfsCO>>

\* ... what the export is, ...
ExportInfo(c) ==
    LET e == exports[calls[c].path] IN
    /\ At(c, "info")
    /\ \/ e.vol # NoVol /\ calls' = [calls EXCEPT ![c].pc = "apply", ![c].info = e] /\ NoFault
       \/ e.vol = NoVol /\ Return(c) /\ NoFault
       \/ e.vol # NoVol /\ Return(c) /\ Fault
    /\ UNCHANGED <<nfsEnv, late, nfsState, nfsCO>>

\* ... and the export with other clients; the Ceph manager makes one that is gone.
ApplyExportInfo(c) ==
    LET applied == exports' = [exports EXCEPT ![calls[c].path] =
                                              [calls[c].info EXCEPT !.clients = "some"]]
    IN  /\ At(c, "apply")
        /\ \/ /\ applied /\ NoFault
              /\ IF calls[c].op = "create" THEN Goto(c, "created") /\ UNCHANGED nfsCO
                 ELSE Answer(c, limited' = limited \cup {calls[c].v} /\ UNCHANGED <<life, published>>)
           \/ applied /\ Return(c) /\ Fault /\ UNCHANGED nfsCO
        /\ UNCHANGED <<nfsEnv, late, subvols, attrs, mounts, checkers>>

-----------------------------------------------------------------------------
(* DeleteVolume *)

\* The CO waits for its calls, but not for those that it gave up.  A target path that it
\* tried to publish to is unpublished before.
DeleteVolume(c, v) ==
    /\ life[v] \in {"given", "deleting", "overtaken"} /\ v \notin published /\ mounts[v] = NoVol
    /\ ~Waits(v, {"modify", "publish", "unpublish", "delete"})
    /\ Start(c, v, "delete", "resolve")
    /\ life' = [life EXCEPT ![v] =
                 IF @ = "given" /\ \E d \in NfsCalls : calls[d].v = v /\ calls[d].op \in {"create", "modify"}
                 THEN "overtaken" ELSE IF @ = "given" THEN "deleting" ELSE @]
    /\ UNCHANGED published

\* DeleteExport: without the name of the cluster there is no export, ...
ResolveExport(c) ==
    LET v == calls[c].v IN
    /\ At(c, "resolve")
    /\ \/ /\ NoFault
          /\ calls' = [calls EXCEPT ![c].pc = IF attrs[v].cluster THEN "remove" ELSE "purge",
                                    ![c].path = ResolveExportName(v)]
       \/ Return(c) /\ Fault
    /\ UNCHANGED <<nfsEnv, late, nfsState, nfsCO>>

\* Mutant: every error is taken for that of an export that does not exist.
RemoveExportOnAnyError(c) ==
    /\ At(c, "remove") /\ Goto(c, "purge")
    /\ \/ exports' = [exports EXCEPT ![calls[c].path] = NoExport] /\ NoFault
       \/ Fault /\ UNCHANGED exports
    /\ UNCHANGED <<nfsEnv, late, subvols, attrs, mounts, checkers, nfsCO>>

\* ... and one that does not exist is no error.
RemoveExport(c) ==
    LET removed == exports' = [exports EXCEPT ![calls[c].path] = NoExport] IN
    /\ At(c, "remove")
    /\ \/ removed /\ Goto(c, "purge") /\ NoFault
       \/ removed /\ Return(c) /\ Fault
       \/ Return(c) /\ Fault /\ UNCHANGED exports
    /\ UNCHANGED <<nfsEnv, late, subvols, attrs, mounts, checkers, nfsCO>>

\* DeleteVolume of CephFS: the subvolume, then the reservation; without a reservation there
\* is nothing to do.
BackendDelete(c) ==
    LET v == calls[c].v
        undone == SetAttribute(v, IF attrs[v].reserved THEN NoAttrs ELSE attrs[v])
        purged == subvols' = IF attrs[v].reserved THEN subvols \ {v} ELSE subvols
    IN  /\ At(c, "purge")
        /\ \/ /\ purged /\ undone /\ NoFault
              /\ Answer(c, life' = [life EXCEPT ![v] = IF @ = "deleting" THEN "gone" ELSE @] /\ UNCHANGED <<limited, published>>)
           \/ purged /\ undone /\ Return(c) /\ Fault /\ UNCHANGED nfsCO
           \/ purged /\ Return(c) /\ Fault /\ UNCHANGED <<attrs, nfsCO>>
        /\ UNCHANGED <<nfsEnv, late, exports, mounts, checkers>>

-----------------------------------------------------------------------------
(* The node *)

NodePublishVolume(c, v) ==
    /\ life[v] = "given" /\ ~Waits(v, {"publish", "unpublish"})
    /\ Start(c, v, "publish", "source") /\ UNCHANGED <<life, published>>

\* getSource: the server is that of the journal, if it has one.
GetSource(c) ==
    /\ At(c, "source")
    /\ \/ Goto(c, "mount") /\ NoFault
       \/ Return(c) /\ Fault
    /\ UNCHANGED <<nfsEnv, late, nfsState, nfsCO>>

\* mountNFS: what is mounted is not mounted again.
MountNFS(c) ==
    LET v == calls[c].v
        e == exports[ExportPath(v)]
    IN  /\ At(c, "mount")
        /\ \/ mounts[v] # NoVol /\ Goto(c, "check") /\ NoFault /\ UNCHANGED mounts
           \/ /\ mounts[v] = NoVol /\ e.vol # NoVol /\ NoFault
              /\ mounts' = [mounts EXCEPT ![v] = e.vol] /\ Goto(c, "check")
           \/ mounts[v] = NoVol /\ Return(c) /\ Fault /\ UNCHANGED mounts
        /\ UNCHANGED <<nfsEnv, late, subvols, attrs, exports, checkers, nfsCO>>

\* StartChecker, and the answer.
Published(c) ==
    LET v == calls[c].v IN
    /\ At(c, "check") /\ checkers' = checkers \cup {v}
    /\ Return(c) /\ published' = published \cup {v} /\ UNCHANGED <<life, limited>>
    /\ NoFault /\ UNCHANGED <<nfsEnv, late, subvols, attrs, exports, mounts>>

\* NodeGetVolumeStats starts a checker that is missing since a restart.
NodeGetVolumeStats(v) ==
    /\ v \in published \ checkers /\ ~Waits(v, {"unpublish"})
    /\ checkers' = checkers \cup {v}
    /\ UNCHANGED <<nfsEnv, faults, late, subvols, attrs, exports, mounts, calls, nfsCO>>

NodeUnpublishVolume(c, v) ==
    /\ mounts[v] # NoVol /\ ~Waits(v, {"publish", "unpublish"})
    /\ Start(c, v, "unpublish", "unmount") /\ UNCHANGED <<life, published>>

\* StopChecker, then CleanupMountPoint.
Unpublished(c) ==
    LET v == calls[c].v IN
    /\ At(c, "unmount") /\ checkers' = checkers \ {v}
    /\ \/ /\ mounts' = [mounts EXCEPT ![v] = NoVol] /\ NoFault
          /\ Return(c) /\ published' = published \ {v} /\ UNCHANGED <<life, limited>>
       \/ Return(c) /\ Fault /\ UNCHANGED <<mounts, nfsCO>>
    /\ UNCHANGED <<nfsEnv, late, subvols, attrs, exports>>

-----------------------------------------------------------------------------
\* The CO gives up a call of the controller, which goes on.
GiveUp(c) ==
    /\ late > 0 /\ calls[c].op \in {"create", "modify", "delete"} /\ ~calls[c].lost
    /\ late' = late - 1 /\ calls' = [calls EXCEPT ![c].lost = TRUE]
    /\ UNCHANGED <<nfsEnv, faults, nfsState, nfsCO>>

\* The controller and the node plugin restart.
Restart ==
    /\ crashes > 0 /\ crashes' = crashes - 1
    /\ calls' = [c \in NfsCalls |-> NoCall] /\ checkers' = {}
    /\ UNCHANGED <<scenario, faults, late, subvols, attrs, exports, mounts, nfsCO>>

NfsNext ==
    \/ \E c \in NfsCalls :
         \/ \E v \in NfsVols : \/ CreateVolume(c, v) \/ ControllerModifyVolume(c, v) \/ DeleteVolume(c, v)
                               \/ NodePublishVolume(c, v) \/ NodeUnpublishVolume(c, v)
         \/ BackendCreate(c) \/ SetExportName(c) \/ SetNFSCluster(c) \/ CreateExport(c) \/ CheckExport(c)
         \/ Created(c) \/ SetServer(c) \/ SetClients(c) \/ ExportInfo(c) \/ ApplyExportInfo(c)
         \/ ResolveExport(c) \/ RemoveExport(c) \/ BackendDelete(c)
         \/ GetSource(c) \/ MountNFS(c) \/ Published(c) \/ Unpublished(c) \/ GiveUp(c)
    \/ \E v \in NfsVols : NodeGetVolumeStats(v)
    \/ Restart

NfsSpec == NfsInit /\ [][NfsNext]_nfsVars

-----------------------------------------------------------------------------
\* A volume that the CO holds has its subvolume and is exported at the path that the CO was
\* told, to the clients that were asked for; what is published shows the volume itself.
\* CreateExport takes an export that exists for its own only if it is of the same subvolume.
NfsExported == \A v \in NfsVols :
    /\ life[v] = "given" =>
         /\ v \in subvols /\ attrs[v].reserved
         /\ exports[ExportPath(v)].vol = v
         /\ v \in limited => exports[ExportPath(v)].clients = "some" /\ attrs[v].server
    /\ v \in published => mounts[v] = v

\* A volume that was deleted with the knowledge of the CO has no export, no subvolume and no
\* attributes, and nothing is mounted or checked for it.  Not so for a volume that is deleted
\* while a CreateVolume or a ControllerModifyVolume goes on that the CO gave up: these write
\* to the journal and to the export what DeleteVolume has removed.
NfsReleased == \A v \in NfsVols :
    life[v] = "gone" /\ (\A c \in NfsCalls : calls[c].v # v) =>
        /\ \A p \in Paths : exports[p].vol # v
        /\ v \notin subvols /\ attrs[v] = NoAttrs
        /\ mounts[v] # v /\ v \notin checkers
=============================================================================
