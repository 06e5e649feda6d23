-------------------------- MODULE CephfsSnapshots --------------------------
(***************************************************************************)
(* Snapshots of the CephFS controller server, and the shallow volumes      *)
(* backed by them: CreateSnapshot, DeleteSnapshot, and CreateVolume and    *)
(* DeleteVolume of a volume that is read from the snapshot itself.         *)
(*                                                                         *)
(* The shallow volumes of a snapshot, and the snapshot, hold references in *)
(* a reference tracker.  DeleteSnapshot masks the reference of the         *)
(* snapshot; whoever removes the last one deletes the subvolume snapshot.  *)
(*                                                                         *)
(* A step of a request is one call to the cluster, or a group of reads;    *)
(* requests interleave between steps, calls fail without an effect and the *)
(* provisioner restarts.  Reservations are made and undone in one step     *)
(* (VolJournal.tla and RbdVolumes.tla have their parts).  The subvolume of *)
(* which the snapshots are taken exists throughout.                        *)
(***************************************************************************)
EXTENDS Integers, FiniteSets

CONSTANTS SnapNames, VolNames,   \* request names
          UUIDs,                 \* the ids of snapshots and shallow volumes
          NoUUID, NoName, NoEntry,
          Requests,              \* slots for concurrent requests
          Scenarios              \* the environments to explore

Names == SnapNames \cup VolNames

\* restores  the snapshot of which a volume is made
\* faults    bound: failing calls
\* crashes   bound: provisioner restarts
\* encrypted whether the passphrase is copied to the snapshot
ASSUME ScenariosTyped ==
    /\ NoUUID \notin UUIDs /\ NoName \notin Names
    /\ Scenarios \subseteq [restores : [VolNames -> SnapNames], faults : Nat,
                            crashes : Nat, encrypted : BOOLEAN]

R == INSTANCE References WITH Keys <- UUIDs

VARIABLES
    nameKey,       \* request name |-> UUID, of both journals
    entry,         \* the UUID objects: request name and backing snapshot
    snaps,         \* UUIDs whose subvolume snapshot exists
    rt,            \* the reference tracker of a snapshot
    pc, req,
    granted,       \* the id that the CO has for a name
    served,        \* names that were answered once
    deleting,      \* ids of which the CO asked the deletion
    used, abandoned, cut, faults, crashes, scenario

journal == <<nameKey, entry>>
history == <<granted, served, deleting, used, abandoned, cut>>
bounds == <<faults, crashes, scenario>>
vars == <<journal, snaps, rt, pc, req, history, bounds>>

\* backing: the snapshot of a shallow volume.  locks: names and ids of the
\* request in cs.VolumeLocks and cs.SnapshotLocks.
Idle == [op |-> "none", name |-> NoName, uuid |-> NoUUID, backing |-> NoUUID,
         found |-> FALSE, locks |-> {}]

CreateVolSteps == {"volLookup", "volCheck", "volReserve", "volAddRef", "volRecheck",
                   "volUnref", "volUndo"}
DeleteVolSteps == {"dvLookup", "dvUnref", "dvSnapLookup", "dvDropSnap", "dvUndoSnap", "dvUndo"}
CreateSnapSteps == {"csCheck", "csStale", "csInfo", "csMeta", "csReserve", "csCreate",
                    "csSnapInfo", "csDrop", "csKey", "csUndo"}
DeleteSnapSteps == {"dsLookup", "dsMask", "dsDrop", "dsUndo"}
Steps == CreateVolSteps \cup DeleteVolSteps \cup CreateSnapSteps \cup DeleteSnapSteps

TypeOK ==
    /\ nameKey \in [Names -> UUIDs \cup {NoUUID}]
    /\ entry \in [UUIDs -> [name : Names, backing : UUIDs \cup {NoUUID}] \cup {NoEntry}]
    /\ snaps \subseteq UUIDs /\ rt \in [UUIDs -> R!Refs]
    /\ pc \in [Requests -> Steps \cup {"idle"}]
    /\ req \in [Requests -> [op : {"none", "createVol", "deleteVol", "createSnap", "deleteSnap"},
                             name : Names \cup {NoName}, uuid : UUIDs \cup {NoUUID},
                             backing : UUIDs \cup {NoUUID}, found : BOOLEAN,
                             locks : SUBSET (Names \cup UUIDs)]]
    /\ granted \in [Names -> UUIDs \cup {NoUUID}] /\ served \subseteq Names
    /\ deleting \subseteq UUIDs
    /\ used \subseteq UUIDs /\ abandoned \subseteq UUIDs /\ cut \subseteq UUIDs
    /\ faults \in 0 .. scenario.faults /\ crashes \in 0 .. scenario.crashes
    /\ scenario \in Scenarios

Init == /\ nameKey = [n \in Names |-> NoUUID] /\ entry = [u \in UUIDs |-> NoEntry]
        /\ snaps = {} /\ rt = [u \in UUIDs |-> R!NoRefs]
        /\ pc = [p \in Requests |-> "idle"] /\ req = [p \in Requests |-> Idle]
        /\ granted = [n \in Names |-> NoUUID] /\ served = {} /\ deleting = {} /\ used = {}
        /\ abandoned = {} /\ cut = {} /\ faults = 0 /\ crashes = 0
        /\ scenario \in Scenarios

-----------------------------------------------------------------------------
(* Control flow, locks and the journal *)

At(p, step) == pc[p] = step

Goto(p, step) == pc' = [pc EXCEPT ![p] = step]

Return(p) == /\ pc' = [pc EXCEPT ![p] = "idle"]
             /\ req' = [req EXCEPT ![p] = Idle]

Fault == /\ faults < scenario.faults
         /\ faults' = faults + 1
         /\ UNCHANGED <<crashes, scenario>>

Locked(x) == \E q \in Requests : x \in req[q].locks

Start(p, op, n, u, step) ==
    /\ At(p, "idle")
    /\ req' = [req EXCEPT ![p] = [Idle EXCEPT !.op = op, !.name = n, !.uuid = u,
                                     !.locks = IF u = NoUUID THEN {n} ELSE {u}]]
    /\ Goto(p, step)

\* The operation locks on a snapshot: delete for DeleteSnapshot, restore for a
\* CreateVolume that works on the tracker.
DeleteLocked(s) == \E q \in Requests : req[q].op = "deleteSnap" /\ req[q].uuid = s
RestoreLocked(s) == \E q \in Requests : /\ pc[q] \in {"volRecheck", "volUnref"}
                                        /\ req[q].backing = s

\* A reservation with a new UUID.  Bound: without one left the request fails.
Reserve(p, backing, next) ==
    /\ \/ \E u \in UUIDs \ used :
            /\ nameKey' = [nameKey EXCEPT ![req[p].name] = u]
            /\ entry' = [entry EXCEPT ![u] = [name |-> req[p].name, backing |-> backing]]
            /\ used' = used \cup {u}
            /\ req' = [req EXCEPT ![p].uuid = u]
            /\ Goto(p, next)
       \/ used = UUIDs /\ Return(p) /\ UNCHANGED <<journal, used>>
    /\ UNCHANGED <<granted, served, deleting, abandoned, cut>>

Undo(u, n) == /\ nameKey' = [nameKey EXCEPT ![n] = NoUUID]
              /\ entry' = [entry EXCEPT ![u] = NoEntry]

\* NewSnapshotOptionsFromID: the UUID object, then the subvolume snapshot.
Found(s) == entry[s] # NoEntry /\ s \in snaps

\* Steps whose failure returns an error and leaves the rest to a retry.
PlainSteps == {"volLookup", "volCheck", "volReserve", "csCheck", "csStale", "csMeta", "csReserve",
               "csUndo"} \cup DeleteVolSteps \cup DeleteSnapSteps

CallFails(p) == /\ pc[p] \in PlainSteps
                /\ Fault
                /\ Return(p)
                /\ UNCHANGED <<journal, snaps, rt, history>>

Grant(n, u) == /\ granted' = [granted EXCEPT ![n] = u]
               /\ served' = served \cup {n}
               /\ UNCHANGED <<deleting, used, abandoned, cut>>

\* What the CO has and does not delete.
Holds(n, u) == granted[n] = u /\ u \notin deleting \cup {NoUUID}

\* The CO asks for a deletion, and may ask again also after an answer.
AskDeletion(n) == /\ granted[n] # NoUUID /\ ~Locked(granted[n])
                  /\ deleting' = deleting \cup {granted[n]}
                  /\ UNCHANGED <<granted, served, used, abandoned, cut>>

-----------------------------------------------------------------------------
(* CreateVolume of a shallow volume *)

Source(n) == scenario.restores[n]

\* The CO asks until it has the volume, and while it has the snapshot.
CreateVolume(p, n) ==
    /\ n \notin served /\ Holds(Source(n), granted[Source(n)])
    /\ ~Locked(n)
    /\ At(p, "idle")
    /\ Goto(p, "volLookup")
    /\ req' = [req EXCEPT ![p] = [Idle EXCEPT !.op = "createVol", !.name = n,
                                     !.backing = granted[Source(n)], !.locks = {n}]]
    /\ UNCHANGED <<journal, snaps, rt, history, bounds>>

\* NewVolumeOptions and checkContentSource retrieve the snapshot.
VolLookup(p) ==
    /\ At(p, "volLookup")
    /\ IF Found(req[p].backing) THEN Goto(p, "volCheck") /\ UNCHANGED req ELSE Return(p)
    /\ UNCHANGED <<journal, snaps, rt, history, bounds>>

\* CheckVolExists: a reservation with a backing snapshot is a volume.
VolCheck(p) ==
    /\ At(p, "volCheck")
    /\ LET r == req[p]
           u == nameKey[r.name] IN
         IF u = NoUUID
         THEN Goto(p, "volReserve") /\ UNCHANGED <<req, history>>
         ELSE Return(p) /\ Grant(r.name, u)
    /\ UNCHANGED <<journal, snaps, rt, bounds>>

VolReserve(p) ==
    /\ At(p, "volReserve")
    /\ Reserve(p, req[p].backing, "volAddRef")
    /\ UNCHANGED <<snaps, rt, bounds>>

\* The restore lock, and the references of the snapshot and the volume.
VolAddRef(p) ==
    /\ At(p, "volAddRef")
    /\ LET r == req[p] IN
         \/ /\ ~DeleteLocked(r.backing)
            /\ rt' = [rt EXCEPT ![r.backing] =
                         R!Added(@, R!Arg({r.backing, r.uuid}, "Normal"))]
            /\ Goto(p, "volRecheck")
            /\ UNCHANGED bounds
         \/ /\ \/ DeleteLocked(r.backing) /\ UNCHANGED bounds
               \/ Fault
            /\ Goto(p, "volUndo")
            /\ UNCHANGED rt
    /\ UNCHANGED <<journal, snaps, req, history>>

\* "Make sure the snapshot still exists by trying to retrieve it again."
VolRecheck(p) ==
    /\ At(p, "volRecheck")
    /\ \/ /\ Found(req[p].backing)
          /\ Return(p)
          /\ Grant(req[p].name, req[p].uuid)
          /\ UNCHANGED bounds
       \/ /\ \/ ~Found(req[p].backing) /\ UNCHANGED bounds
             \/ Fault
          /\ Goto(p, "volUnref")
          /\ UNCHANGED <<req, history>>
    /\ UNCHANGED <<journal, snaps, rt>>

\* The cleanup removes both references, also when the snapshot's was there
\* before, and goes on when that fails.
VolUnref(p) ==
    /\ At(p, "volUnref")
    /\ LET r == req[p] IN
         /\ \/ /\ rt' = [rt EXCEPT ![r.backing] =
                            R!Removed(@, R!Arg({r.backing, r.uuid}, "Normal"))]
               /\ UNCHANGED bounds
            \/ Fault /\ UNCHANGED rt
         /\ cut' = cut \cup {r.backing}
    /\ Goto(p, "volUndo")
    /\ UNCHANGED <<journal, snaps, req, granted, served, deleting, used, abandoned>>

\* The deferred UndoVolReservation.
VolUndo(p) ==
    /\ At(p, "volUndo")
    /\ LET r == req[p] IN
         \/ Undo(r.uuid, r.name) /\ UNCHANGED <<cut, bounds>>
         \/ Fault /\ cut' = cut \cup {r.backing} /\ UNCHANGED journal
    /\ Return(p)
    /\ UNCHANGED <<snaps, rt, granted, served, deleting, used, abandoned>>

-----------------------------------------------------------------------------
(* DeleteVolume of a shallow volume *)

DeleteVolume(p, n) ==
    /\ AskDeletion(n)
    /\ Start(p, "deleteVol", n, granted[n], "dvLookup")
    /\ UNCHANGED <<journal, snaps, rt, bounds>>

\* NewVolumeOptionsFromVolID.  A UUID object that is missing, the volume's or
\* its snapshot's, is taken as a deletion that was complete; another error of the
\* snapshot is returned.  The request name is locked for the rest.
DvLookup(p) ==
    /\ At(p, "dvLookup")
    /\ LET r == req[p]
           a == entry[r.uuid] IN
         IF a = NoEntry THEN Return(p)
         ELSE IF ~Found(a.backing) \/ Locked(a.name) THEN Return(p)
         ELSE /\ Goto(p, "dvUnref")
              /\ req' = [req EXCEPT ![p].backing = a.backing, ![p].locks = @ \cup {a.name}]
    /\ UNCHANGED <<journal, snaps, rt, history, bounds>>

\* UnrefSnapshotBackedVolume: the last reference takes the snapshot along.
DvUnref(p) ==
    /\ At(p, "dvUnref")
    /\ LET r == req[p] IN
         /\ rt' = [rt EXCEPT ![r.backing] = R!Removed(@, R!Arg({r.uuid}, "Normal"))]
         /\ Goto(p, IF rt'[r.backing] = R!NoRefs THEN "dvSnapLookup" ELSE "dvUndo")
    /\ UNCHANGED <<journal, snaps, req, history, bounds>>

\* Whatever shows that the snapshot is gone is no error.
DvSnapLookup(p) ==
    /\ At(p, "dvSnapLookup")
    /\ Goto(p, IF Found(req[p].backing) THEN "dvDropSnap" ELSE "dvUndo")
    /\ UNCHANGED <<journal, snaps, rt, req, history, bounds>>

DvDropSnap(p) ==
    /\ At(p, "dvDropSnap")
    /\ snaps' = snaps \ {req[p].backing}
    /\ Goto(p, "dvUndoSnap")
    /\ UNCHANGED <<journal, rt, req, history, bounds>>

DvUndoSnap(p) ==
    /\ At(p, "dvUndoSnap")
    /\ Undo(req[p].backing, Source(req[p].name))
    /\ Goto(p, "dvUndo")
    /\ UNCHANGED <<snaps, rt, req, history, bounds>>

DvUndo(p) ==
    /\ At(p, "dvUndo")
    /\ Undo(req[p].uuid, req[p].name)
    /\ Return(p)
    /\ UNCHANGED <<snaps, rt, history, bounds>>

-----------------------------------------------------------------------------
(* CreateSnapshot *)

\* The request name, the snapshot create lock, which conflicts with none of
\* these requests, and the id of the source volume in cs.VolumeLocks.
CreateSnapshot(p, n) ==
    /\ n \notin served /\ ~Locked(n)
    /\ \A q \in Requests : req[q].op # "createSnap"
    /\ Start(p, "createSnap", n, NoUUID, "csCheck")
    /\ UNCHANGED <<journal, snaps, rt, history, bounds>>

\* CheckSnapExists: a reservation without the subvolume snapshot is stale.
CsCheck(p) ==
    /\ At(p, "csCheck")
    /\ LET u == nameKey[req[p].name] IN
         IF u = NoUUID THEN Goto(p, "csInfo") /\ UNCHANGED req
         ELSE /\ Goto(p, IF u \in snaps THEN "csInfo" ELSE "csStale")
              /\ req' = [req EXCEPT ![p].uuid = u, ![p].found = u \in snaps]
    /\ UNCHANGED <<journal, snaps, rt, history, bounds>>

CsStale(p) ==
    /\ At(p, "csStale")
    /\ Undo(req[p].uuid, req[p].name)
    /\ Goto(p, "csInfo")
    /\ UNCHANGED <<snaps, rt, req, history, bounds>>

Abandon(u) == /\ abandoned' = abandoned \cup {u}
              /\ UNCHANGED <<granted, served, deleting, used, cut>>

\* GetSubVolumeInfo of the source: its failure undoes the reservation, also of
\* a snapshot that exists.
CsInfo(p) ==
    /\ At(p, "csInfo")
    /\ LET r == req[p] IN
         \/ /\ Goto(p, IF r.found THEN "csMeta" ELSE "csReserve")
            /\ UNCHANGED <<req, history, bounds>>
         \/ r.found /\ Fault /\ Goto(p, "csUndo") /\ Abandon(r.uuid) /\ UNCHANGED req
         \/ ~r.found /\ Fault /\ Return(p) /\ UNCHANGED history
    /\ UNCHANGED <<journal, snaps, rt>>

CsMeta(p) ==
    /\ At(p, "csMeta")
    /\ Return(p)
    /\ Grant(req[p].name, req[p].uuid)
    /\ UNCHANGED <<journal, snaps, rt, bounds>>

CsReserve(p) ==
    /\ At(p, "csReserve")
    /\ Reserve(p, NoUUID, "csCreate")
    /\ UNCHANGED <<snaps, rt, bounds>>

CsCreate(p) ==
    /\ At(p, "csCreate")
    /\ \/ /\ snaps' = snaps \cup {req[p].uuid}
          /\ Goto(p, "csSnapInfo")
          /\ UNCHANGED bounds
       \/ Fault /\ Goto(p, "csUndo") /\ UNCHANGED snaps
    /\ UNCHANGED <<journal, rt, req, history>>

\* Mutant: the snapshot stays when it cannot be completed.
CsSnapInfoKeeps(p) ==
    /\ At(p, "csSnapInfo")
    /\ \/ Goto(p, "csKey") /\ UNCHANGED bounds
       \/ Fault /\ Goto(p, "csUndo")
    /\ UNCHANGED <<journal, snaps, rt, req, history>>

\* GetSnapshotInfo and SetAllSnapshotMetadata.
CsSnapInfo(p) ==
    /\ At(p, "csSnapInfo")
    /\ \/ Goto(p, "csKey") /\ UNCHANGED bounds
       \/ Fault /\ Goto(p, "csDrop")
    /\ UNCHANGED <<journal, snaps, rt, req, history>>

\* The deferred DeleteSnapshot of doSnapshot; its failure is logged.
CsDrop(p) ==
    /\ At(p, "csDrop")
    /\ \/ snaps' = snaps \ {req[p].uuid} /\ UNCHANGED <<history, bounds>>
       \/ Fault /\ Abandon(req[p].uuid) /\ UNCHANGED snaps
    /\ Goto(p, "csUndo")
    /\ UNCHANGED <<journal, rt, req>>

\* CopyEncryptionConfig: its failure undoes the reservation only.
CsKey(p) ==
    /\ At(p, "csKey")
    /\ LET r == req[p] IN
         \/ Return(p) /\ Grant(r.name, r.uuid) /\ UNCHANGED bounds
         \/ /\ scenario.encrypted
            /\ Fault
            /\ Goto(p, "csUndo")
            /\ Abandon(r.uuid)
            /\ UNCHANGED req
    /\ UNCHANGED <<journal, snaps, rt>>

CsUndo(p) ==
    /\ At(p, "csUndo")
    /\ Undo(req[p].uuid, req[p].name)
    /\ Return(p)
    /\ UNCHANGED <<snaps, rt, history, bounds>>

-----------------------------------------------------------------------------
(* DeleteSnapshot *)

\* An orderly CO deletes a snapshot when it makes no volume of it.  The id is
\* locked, and the delete lock refuses a snapshot that is being restored.
DeleteSnapshot(p, n) ==
    /\ AskDeletion(n)
    /\ ~RestoreLocked(granted[n])
    /\ \A q \in Requests : req[q].op = "createVol" => req[q].backing # granted[n]
    /\ Start(p, "deleteSnap", n, granted[n], "dsLookup")
    /\ UNCHANGED <<journal, snaps, rt, bounds>>

\* handleSnapshotOptionsError: without the UUID object the deletion is complete,
\* without the subvolume snapshot the reservation is left to undo.
DsLookup(p) ==
    /\ At(p, "dsLookup")
    /\ LET r == req[p]
           a == entry[r.uuid] IN
         IF a = NoEntry THEN Return(p)
         ELSE IF r.uuid \notin snaps THEN Goto(p, "dsUndo") /\ UNCHANGED req
         ELSE IF Locked(a.name) THEN Return(p)
         ELSE /\ Goto(p, "dsMask")
              /\ req' = [req EXCEPT ![p].locks = @ \cup {a.name}]
    /\ UNCHANGED <<journal, snaps, rt, history, bounds>>

\* Mutant: the snapshot is deleted whether volumes refer to it or not.
DsMaskIgnored(p) ==
    /\ At(p, "dsMask")
    /\ rt' = [rt EXCEPT ![req[p].uuid] = R!Removed(@, R!Arg({req[p].uuid}, "Mask"))]
    /\ Goto(p, "dsDrop")
    /\ UNCHANGED <<journal, snaps, req, history, bounds>>

\* UnrefSelfInSnapshotBackedVolumes: with shallow volumes left the snapshot
\* stays, for the last of them to delete.
DsMask(p) ==
    /\ At(p, "dsMask")
    /\ LET s == req[p].uuid IN
         /\ rt' = [rt EXCEPT ![s] = R!Removed(@, R!Arg({s}, "Mask"))]
         /\ IF rt'[s] = R!NoRefs
            THEN Goto(p, "dsDrop") /\ UNCHANGED req
            ELSE Return(p)
    /\ UNCHANGED <<journal, snaps, history, bounds>>

\* deleteSnapshotAndUndoReservation.
DsDrop(p) ==
    /\ At(p, "dsDrop")
    /\ snaps' = snaps \ {req[p].uuid}
    /\ Goto(p, "dsUndo")
    /\ UNCHANGED <<journal, rt, req, history, bounds>>

DsUndo(p) ==
    /\ At(p, "dsUndo")
    /\ Undo(req[p].uuid, req[p].name)
    /\ Return(p)
    /\ UNCHANGED <<snaps, rt, history, bounds>>

-----------------------------------------------------------------------------
\* The provisioner restarts: the requests and the locks are gone.  What they
\* were doing to a snapshot with a shallow volume is cut short.
Crash == /\ crashes < scenario.crashes
         /\ crashes' = crashes + 1
         /\ \E p \in Requests : req[p] # Idle
         /\ cut' = cut \cup {req[p].backing : p \in
                               {q \in Requests : pc[q] \in {"volAddRef", "volRecheck",
                                                            "volUnref", "volUndo"}}}
         /\ pc' = [p \in Requests |-> "idle"] /\ req' = [p \in Requests |-> Idle]
         /\ UNCHANGED <<journal, snaps, rt, granted, served, deleting, used, abandoned,
                        faults, scenario>>

Step(p) ==
    \/ \E n \in VolNames : CreateVolume(p, n) \/ DeleteVolume(p, n)
    \/ \E n \in SnapNames : CreateSnapshot(p, n) \/ DeleteSnapshot(p, n)
    \/ VolLookup(p) \/ VolCheck(p) \/ VolReserve(p) \/ VolAddRef(p) \/ VolRecheck(p)
    \/ VolUnref(p) \/ VolUndo(p)
    \/ DvLookup(p) \/ DvUnref(p) \/ DvSnapLookup(p) \/ DvDropSnap(p) \/ DvUndoSnap(p) \/ DvUndo(p)
    \/ CsCheck(p) \/ CsStale(p) \/ CsInfo(p) \/ CsMeta(p) \/ CsReserve(p) \/ CsCreate(p)
    \/ CsSnapInfo(p) \/ CsDrop(p) \/ CsKey(p) \/ CsUndo(p)
    \/ DsLookup(p) \/ DsMask(p) \/ DsDrop(p) \/ DsUndo(p)
    \/ CallFails(p)

Next == Crash \/ \E p \in Requests : Step(p)

Spec == Init /\ [][Next]_vars

-----------------------------------------------------------------------------
(* Properties *)

\* A snapshot that the CO has and did not ask to delete is there, whatever is
\* done to the shallow volumes made of it, as long as no CreateVolume of one was
\* cut short.
SnapshotKept ==
    \A n \in SnapNames : \A s \in UUIDs \ cut :
       Holds(n, s) => Found(s) /\ nameKey[n] = s

\* A shallow volume that the CO has keeps the snapshot that it is read from,
\* also after the CO deleted the snapshot, as long as no CreateVolume of a shallow
\* volume of it was cut short.
BackingKept ==
    \A n \in VolNames : \A u \in UUIDs :
       Holds(n, u) /\ entry[u].backing \notin cut =>
          LET s == entry[u].backing IN Found(s) /\ u \in R!Counted(rt[s])

\* Snapshots and shallow volumes in the hands of the CO keep their data.
GrantKept == SnapshotKept /\ BackingKept

\* A subvolume snapshot can be found by its reservation or by a request that
\* works on it, unless a failing step of CreateSnapshot gave it up.
NoOrphanSnapshot ==
    \A s \in snaps \ abandoned : entry[s] # NoEntry /\ nameKey[entry[s].name] = s

\* Nobody but the snapshot and its volumes holds a reference: a reference without
\* a reservation would keep the snapshot for ever.
RefsHaveOwner ==
    \A s \in UUIDs \ cut : \A u \in R!Counted(rt[s]) :
       u # s => entry[u] # NoEntry /\ entry[u].backing = s

\* Nothing is left behind that no request would remove.
NothingOrphaned == NoOrphanSnapshot /\ RefsHaveOwner

\* BackingKept without the exception, as the design document has it: the snapshot of
\* a shallow volume is not removed while the volume exists.
BackingNeverLost ==
    \A n \in VolNames : \A u \in UUIDs : Holds(n, u) => Found(entry[u].backing)
=============================================================================
