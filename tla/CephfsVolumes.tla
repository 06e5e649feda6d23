--------------------------- MODULE CephfsVolumes ---------------------------
(***************************************************************************)
(* CreateVolume, DeleteVolume and ControllerExpandVolume of the CephFS     *)
(* controller server, for empty subvolumes and for clones of a volume or   *)
(* of a snapshot.                                                          *)
(*                                                                         *)
(* A clone is made by the cluster in the background; a CreateVolume that   *)
(* finds it pending is answered with Aborted and asked again.  The clone   *)
(* of a volume needs a temporary snapshot of the source, which is named    *)
(* after the clone and has to be removed in the end.                       *)
(*                                                                         *)
(* Steps, failing calls, restarts and reservations are those of            *)
(* CephfsSnapshots.tla.  The sources exist throughout.                     *)
(***************************************************************************)
EXTENDS Integers, FiniteSets

CONSTANTS Names,       \* request names
          UUIDs, NoUUID, NoName,
          Requests,    \* slots for concurrent requests
          Scenarios    \* the environments to explore

\* kinds     what is asked for: an empty volume or the clone of a source
\* faults    bound: failing calls
\* crashes   bound: provisioner restarts
Kinds == {"empty", "ofVolume", "ofSnapshot"}
ScenarioType == [kinds : [Names -> Kinds], faults : Nat, crashes : Nat]

VARIABLES
    nameKey,      \* request name |-> UUID
    entry,        \* the request name in the UUID object, NoName without one
    subvol,       \* the state of the subvolume
    quota,        \* its size: 0 as the source, 1 as requested, 2 expanded
    tmpSnaps,     \* clones with a temporary snapshot of their source
    pc, req,
    granted,      \* the id that the CO has for a name
    asked,        \* the size that the CO was told of
    deleting,     \* ids of which the CO asked the deletion
    used, abandoned, faults, crashes, scenario

journal == <<nameKey, entry>>
store == <<subvol, quota, tmpSnaps>>
history == <<granted, asked, deleting, used, abandoned>>
bounds == <<faults, crashes, scenario>>
vars == <<journal, store, pc, req, history, bounds>>

Idle == [op |-> "none", name |-> NoName, uuid |-> NoUUID, locks |-> {}]

FindSteps == {"checkName", "cloneState", "purgeFailed", "staleTmp", "staleUndo", "rootPath",
              "foundTmp", "foundExpand", "foundPurge", "foundUndo", "foundMeta"}
MakeSteps == {"reserve", "create", "tmpSnap", "clone", "newState", "newExpand", "dropTmp",
              "newPurge", "newDropTmp", "newRoot", "rootPurge", "newMeta", "metaPurge", "undo"}
OtherSteps == {"dvLookup", "dvPurge", "dvUndo", "exLookup", "exResize"}

TypeOK ==
    /\ nameKey \in [Names -> UUIDs \cup {NoUUID}]
    /\ entry \in [UUIDs -> Names \cup {NoName}]
    /\ subvol \in [UUIDs -> {"none", "pending", "failed", "complete"}]
    /\ quota \in [UUIDs -> 0 .. 2] /\ tmpSnaps \subseteq UUIDs
    /\ pc \in [Requests -> FindSteps \cup MakeSteps \cup OtherSteps \cup {"idle"}]
    /\ req \in [Requests -> [op : {"none", "create", "delete", "expand"},
                             name : Names \cup {NoName}, uuid : UUIDs \cup {NoUUID},
                             locks : SUBSET (Names \cup UUIDs)]]
    /\ granted \in [Names -> UUIDs \cup {NoUUID}] /\ asked \in [UUIDs -> 0 .. 2]
    /\ deleting \subseteq UUIDs /\ used \subseteq UUIDs /\ abandoned \subseteq UUIDs
    /\ faults \in 0 .. scenario.faults /\ crashes \in 0 .. scenario.crashes
    /\ scenario \in Scenarios \cap ScenarioType

Init == /\ nameKey = [n \in Names |-> NoUUID] /\ entry = [u \in UUIDs |-> NoName]
        /\ subvol = [u \in UUIDs |-> "none"] /\ quota = [u \in UUIDs |-> 0] /\ tmpSnaps = {}
        /\ pc = [p \in Requests |-> "idle"] /\ req = [p \in Requests |-> Idle]
        /\ granted = [n \in Names |-> NoUUID] /\ asked = [u \in UUIDs |-> 0]
        /\ deleting = {} /\ used = {} /\ abandoned = {} /\ faults = 0 /\ crashes = 0
        /\ scenario \in Scenarios

-----------------------------------------------------------------------------
(* Control flow, locks, the journal and the calls to the cluster *)

At(p, step) == pc[p] = step
Goto(p, step) == pc' = [pc EXCEPT ![p] = step]
Return(p) == /\ pc' = [pc EXCEPT ![p] = "idle"]
             /\ req' = [req EXCEPT ![p] = Idle]

Kind(p) == scenario.kinds[req[p].name]
Locked(x) == \E q \in Requests : x \in req[q].locks
Holds(n, u) == granted[n] = u /\ u \notin deleting \cup {NoUUID}

Fault == /\ faults < scenario.faults
         /\ faults' = faults + 1
         /\ UNCHANGED <<crashes, scenario>>

Abandon(u) == /\ abandoned' = abandoned \cup {u}
              /\ UNCHANGED <<granted, asked, deleting, used>>

Undo(p) == /\ nameKey' = [nameKey EXCEPT ![req[p].name] = NoUUID]
           /\ entry' = [entry EXCEPT ![req[p].uuid] = NoName]

Purged(u) == /\ subvol' = [subvol EXCEPT ![u] = "none"]
             /\ quota' = [quota EXCEPT ![u] = 0]
             /\ UNCHANGED tmpSnaps

\* Mutant: the new size is added to the old one.
ResizedAdds(u, size) == /\ quota' = [quota EXCEPT ![u] = @ + size]
                        /\ UNCHANGED <<subvol, tmpSnaps>>

\* ExpandVolume and ResizeVolume never shrink.
Resized(u, size) == /\ quota' = [quota EXCEPT ![u] = IF @ < size THEN size ELSE @]
                    /\ UNCHANGED <<subvol, tmpSnaps>>

DropTmp(u) == tmpSnaps' = tmpSnaps \ {u} /\ UNCHANGED <<subvol, quota>>

\* The cluster removes neither a clone that is pending nor the snapshot that it
\* is made of.
Refused(p) == subvol[req[p].uuid] = "pending"

\* Steps whose failure returns an error and leaves the rest to a retry.
PlainSteps == {"checkName", "purgeFailed", "staleTmp", "staleUndo", "rootPath", "foundTmp",
               "foundPurge", "foundUndo", "foundMeta", "reserve", "undo"} \cup OtherSteps

CallFails(p) == /\ pc[p] \in PlainSteps
                /\ Fault
                /\ Return(p)
                /\ UNCHANGED <<journal, store, history>>

\* Calls whose failure goes on elsewhere.
FailsTo(p, step, next) == /\ At(p, step)
                          /\ Fault
                          /\ Goto(p, next)
                          /\ UNCHANGED <<journal, store, req, history>>

\* A call that changes the cluster by Effect and goes on.
CallTo(p, step, next, Effect) == /\ At(p, step)
                                 /\ Effect
                                 /\ Goto(p, next)
                                 /\ UNCHANGED <<journal, req, history, bounds>>

Grant(p) == /\ granted' = [granted EXCEPT ![req[p].name] = req[p].uuid]
            /\ asked' = [asked EXCEPT ![req[p].uuid] = 1]
            /\ UNCHANGED <<deleting, used, abandoned>>
            /\ Return(p)

-----------------------------------------------------------------------------
(* CreateVolume: CheckVolExists, and the volume that it finds *)

\* The CO asks until it has the volume.
CreateVolume(p, n) ==
    /\ granted[n] = NoUUID /\ ~Locked(n)
    /\ At(p, "idle")
    /\ Goto(p, "checkName")
    /\ req' = [req EXCEPT ![p] = [Idle EXCEPT !.op = "create", !.name = n, !.locks = {n}]]
    /\ UNCHANGED <<journal, store, history, bounds>>

CheckName(p) ==
    /\ At(p, "checkName")
    /\ LET u == nameKey[req[p].name] IN
         IF u = NoUUID THEN Goto(p, "reserve") /\ UNCHANGED req
         ELSE /\ Goto(p, IF Kind(p) = "empty" THEN "rootPath" ELSE "cloneState")
              /\ req' = [req EXCEPT ![p].uuid = u]
    /\ UNCHANGED <<journal, store, history, bounds>>

\* A failing GetCloneState, also of a clone that is not there, returns neither a
\* volume nor an error, and the request goes on with a new reservation.
CloneState(p) ==
    /\ At(p, "cloneState")
    /\ LET u == req[p].uuid IN
         \/ /\ (subvol[u] = "none" /\ UNCHANGED bounds) \/ Fault
            /\ Goto(p, "reserve") /\ UNCHANGED req
            /\ Abandon(u)
         \/ /\ subvol[u] = "pending"
            /\ Return(p)
            /\ UNCHANGED <<history, bounds>>
         \/ /\ subvol[u] \in {"failed", "complete"}
            /\ Goto(p, IF subvol[u] = "failed" THEN "purgeFailed" ELSE "rootPath")
            /\ UNCHANGED <<req, history, bounds>>
    /\ UNCHANGED <<journal, store>>

\* A failed clone is removed, with its snapshot and its reservation.
PurgeFailed(p) ==
    CallTo(p, "purgeFailed", IF Kind(p) = "ofVolume" THEN "staleTmp" ELSE "staleUndo",
           Purged(req[p].uuid))

StaleTmp(p) == CallTo(p, "staleTmp", "staleUndo", DropTmp(req[p].uuid))

StaleUndo(p) ==
    /\ At(p, "staleUndo")
    /\ Undo(p)
    /\ Goto(p, "reserve")
    /\ UNCHANGED <<store, req, history, bounds>>

\* Without the subvolume the reservation is stale.  With it the temporary
\* snapshot is removed.
RootPath(p) ==
    CallTo(p, "rootPath",
           IF subvol[req[p].uuid] = "none"
           THEN IF Kind(p) = "ofVolume" THEN "staleTmp" ELSE "staleUndo"
           ELSE CASE Kind(p) = "empty" -> "foundMeta"
                  [] Kind(p) = "ofVolume" -> "foundTmp"
                  [] Kind(p) = "ofSnapshot" -> "foundExpand",
           UNCHANGED store)

FoundTmp(p) == CallTo(p, "foundTmp", "foundExpand", DropTmp(req[p].uuid))

\* Mutant: a volume that was found is taken as it is.
FoundExpandSkipped(p) == \/ CallTo(p, "foundExpand", "foundMeta", UNCHANGED store)
                         \/ FailsTo(p, "foundExpand", "foundPurge")

\* A clone has the size of its source until it is expanded.
FoundExpand(p) == \/ CallTo(p, "foundExpand", "foundMeta", Resized(req[p].uuid, 1))
                  \/ FailsTo(p, "foundExpand", "foundPurge")

FoundPurge(p) == CallTo(p, "foundPurge", "foundUndo", Purged(req[p].uuid))

FoundUndo(p) ==
    /\ At(p, "foundUndo")
    /\ Undo(p)
    /\ Return(p)
    /\ UNCHANGED <<store, history, bounds>>

FoundMeta(p) ==
    /\ At(p, "foundMeta")
    /\ Grant(p)
    /\ UNCHANGED <<journal, store, bounds>>

-----------------------------------------------------------------------------
(* CreateVolume: a new volume *)

\* Bound: without a UUID left the request fails.
Reserve(p) ==
    /\ At(p, "reserve")
    /\ \/ \E u \in UUIDs \ used :
            /\ nameKey' = [nameKey EXCEPT ![req[p].name] = u]
            /\ entry' = [entry EXCEPT ![u] = req[p].name]
            /\ used' = used \cup {u}
            /\ req' = [req EXCEPT ![p].uuid = u]
            /\ Goto(p, CASE Kind(p) = "empty" -> "create"
                         [] Kind(p) = "ofVolume" -> "tmpSnap"
                         [] Kind(p) = "ofSnapshot" -> "clone")
       \/ used = UUIDs /\ Return(p) /\ UNCHANGED <<journal, used>>
    /\ UNCHANGED <<store, granted, asked, deleting, abandoned, bounds>>

Made(u, state, size) == /\ subvol' = [subvol EXCEPT ![u] = state]
                        /\ quota' = [quota EXCEPT ![u] = size]
                        /\ UNCHANGED tmpSnaps

Create(p) == \/ CallTo(p, "create", "newRoot", Made(req[p].uuid, "complete", 1))
             \/ FailsTo(p, "create", "undo")

\* CreateCloneFromSubvolume starts with a snapshot of the source.
TmpSnap(p) == \/ CallTo(p, "tmpSnap", "clone",
                        tmpSnaps' = tmpSnaps \cup {req[p].uuid} /\ UNCHANGED <<subvol, quota>>)
              \/ FailsTo(p, "tmpSnap", "undo")

Clone(p) == \/ CallTo(p, "clone", "newState", Made(req[p].uuid, "pending", 0))
            \/ FailsTo(p, "clone", IF Kind(p) = "ofVolume" THEN "newPurge" ELSE "undo")

\* A pending clone keeps its reservation for the next request; another error
\* removes what was made.
NewState(p) ==
    \/ /\ At(p, "newState") /\ subvol[req[p].uuid] = "pending"
       /\ Return(p)
       /\ UNCHANGED <<journal, store, history, bounds>>
    \/ /\ At(p, "newState") /\ subvol[req[p].uuid] # "pending"
       /\ CallTo(p, "newState", IF subvol[req[p].uuid] = "failed" THEN "newPurge" ELSE "newExpand",
                 UNCHANGED store)
    \/ FailsTo(p, "newState", "newPurge")

NewExpand(p) == \/ CallTo(p, "newExpand", IF Kind(p) = "ofVolume" THEN "dropTmp" ELSE "newRoot",
                          Resized(req[p].uuid, 1))
                \/ FailsTo(p, "newExpand", "newPurge")

DropTmpSnap(p) == \/ CallTo(p, "dropTmp", "newRoot", DropTmp(req[p].uuid))
                  \/ FailsTo(p, "dropTmp", "newPurge")

\* A purge whose failure is only logged, before the reservation is undone: what
\* it leaves is given up.
LoggedPurge(p, step, next) ==
    /\ At(p, step)
    /\ \/ ~Refused(p) /\ Purged(req[p].uuid) /\ UNCHANGED <<history, bounds>>
       \/ /\ (Refused(p) /\ UNCHANGED bounds) \/ Fault
          /\ Abandon(req[p].uuid)
          /\ UNCHANGED store
    /\ Goto(p, next)
    /\ UNCHANGED <<journal, req>>

NewPurge(p) == LoggedPurge(p, "newPurge", IF Kind(p) = "ofVolume" THEN "newDropTmp" ELSE "undo")

NewDropTmp(p) ==
    /\ At(p, "newDropTmp")
    /\ \/ ~Refused(p) /\ DropTmp(req[p].uuid) /\ UNCHANGED <<history, bounds>>
       \/ /\ (Refused(p) /\ UNCHANGED bounds) \/ Fault
          /\ Abandon(req[p].uuid)
          /\ UNCHANGED store
    /\ Goto(p, "undo")
    /\ UNCHANGED <<journal, req>>

NewRoot(p) == \/ CallTo(p, "newRoot", "newMeta", UNCHANGED store)
              \/ FailsTo(p, "newRoot", "rootPurge")

\* Mutant: the reservation is undone although the subvolume is still there.
RootPurgeUndoes(p) ==
    /\ At(p, "rootPurge")
    /\ \/ Purged(req[p].uuid) /\ UNCHANGED bounds
       \/ Fault /\ UNCHANGED store
    /\ Goto(p, "undo")
    /\ UNCHANGED <<journal, req, history>>

\* "If the subvolume deletion is failed, we should not cleanup the OMAP entry."
RootPurge(p) ==
    /\ At(p, "rootPurge")
    /\ \/ Purged(req[p].uuid) /\ Goto(p, "undo") /\ UNCHANGED <<req, bounds>>
       \/ Fault /\ Return(p) /\ UNCHANGED store
    /\ UNCHANGED <<journal, history>>

\* SetAllMetadata and the mutable parameters.
NewMeta(p) == \/ At(p, "newMeta") /\ Grant(p) /\ UNCHANGED <<journal, store, bounds>>
              \/ FailsTo(p, "newMeta", "metaPurge")

MetaPurge(p) == LoggedPurge(p, "metaPurge", "undo")

\* The deferred UndoVolReservation.
UndoNew(p) ==
    /\ At(p, "undo")
    /\ Undo(p)
    /\ Return(p)
    /\ UNCHANGED <<store, history, bounds>>

-----------------------------------------------------------------------------
(* DeleteVolume and ControllerExpandVolume *)

OnVolume(p, op, n, step) ==
    /\ At(p, "idle")
    /\ granted[n] # NoUUID /\ ~Locked(granted[n])
    /\ req' = [req EXCEPT ![p] = [op |-> op, name |-> n, uuid |-> granted[n],
                                  locks |-> {granted[n]}]]
    /\ Goto(p, step)
    /\ UNCHANGED <<journal, store, bounds>>

DeleteVolume(p, n) ==
    /\ OnVolume(p, "delete", n, "dvLookup")
    /\ deleting' = deleting \cup {granted[n]}
    /\ UNCHANGED <<granted, asked, used, abandoned>>

\* NewVolumeOptionsFromVolID: without the UUID object the deletion is complete,
\* without the subvolume the reservation is left.  The request name is locked
\* for both.
DvLookup(p) ==
    /\ At(p, "dvLookup")
    /\ LET r == req[p]
           n == entry[r.uuid] IN
         IF n = NoName \/ Locked(n) THEN Return(p)
         ELSE /\ Goto(p, IF subvol[r.uuid] = "none" THEN "dvUndo" ELSE "dvPurge")
              /\ req' = [req EXCEPT ![p].locks = @ \cup {n}]
    /\ UNCHANGED <<journal, store, history, bounds>>

DvPurge(p) == CallTo(p, "dvPurge", "dvUndo", Purged(req[p].uuid))

DvUndo(p) ==
    /\ At(p, "dvUndo")
    /\ Undo(p)
    /\ Return(p)
    /\ UNCHANGED <<store, history, bounds>>

\* ControllerExpandVolume holds the id and the expand lock, as DeleteVolume does.
ExpandVolume(p, n) ==
    /\ Holds(n, granted[n])
    /\ OnVolume(p, "expand", n, "exLookup")
    /\ UNCHANGED history

ExLookup(p) ==
    /\ At(p, "exLookup")
    /\ IF entry[req[p].uuid] = NoName \/ subvol[req[p].uuid] = "none"
       THEN Return(p) ELSE Goto(p, "exResize") /\ UNCHANGED req
    /\ UNCHANGED <<journal, store, history, bounds>>

ExResize(p) ==
    /\ At(p, "exResize")
    /\ Resized(req[p].uuid, 2)
    /\ asked' = [asked EXCEPT ![req[p].uuid] = 2]
    /\ Return(p)
    /\ UNCHANGED <<journal, granted, deleting, used, abandoned, bounds>>

-----------------------------------------------------------------------------
\* External: the cluster clones in the background, or fails to.
CloneEnds == \E u \in UUIDs : \E state \in {"complete", "failed"} :
                /\ subvol[u] = "pending"
                /\ subvol' = [subvol EXCEPT ![u] = state]
                /\ UNCHANGED <<journal, quota, tmpSnaps, pc, req, history, bounds>>

\* The provisioner restarts: the requests and the locks are gone.
Crash == /\ crashes < scenario.crashes
         /\ crashes' = crashes + 1
         /\ \E p \in Requests : req[p] # Idle
         /\ pc' = [p \in Requests |-> "idle"] /\ req' = [p \in Requests |-> Idle]
         /\ UNCHANGED <<journal, store, history, faults, scenario>>

Step(p) ==
    \/ \E n \in Names : CreateVolume(p, n) \/ DeleteVolume(p, n) \/ ExpandVolume(p, n)
    \/ CheckName(p) \/ CloneState(p) \/ PurgeFailed(p) \/ StaleTmp(p) \/ StaleUndo(p)
    \/ RootPath(p) \/ FoundTmp(p) \/ FoundExpand(p) \/ FoundPurge(p) \/ FoundUndo(p) \/ FoundMeta(p)
    \/ Reserve(p) \/ Create(p) \/ TmpSnap(p) \/ Clone(p) \/ NewState(p) \/ NewExpand(p)
    \/ DropTmpSnap(p) \/ NewPurge(p) \/ NewDropTmp(p) \/ NewRoot(p) \/ RootPurge(p)
    \/ NewMeta(p) \/ MetaPurge(p) \/ UndoNew(p)
    \/ DvLookup(p) \/ DvPurge(p) \/ DvUndo(p) \/ ExLookup(p) \/ ExResize(p)
    \/ CallFails(p)

Next == CloneEnds \/ Crash \/ \E p \in Requests : Step(p)

Spec == Init /\ [][Next]_vars

-----------------------------------------------------------------------------
(* Properties *)

\* A volume that the CO has is complete, has the size that the CO was told, and
\* a repeated request would find it.  The temporary snapshot of a clone is gone by
\* then: nothing would remove it later, and it keeps the source from being deleted.
VolumeUsable ==
    \A n \in Names : \A u \in UUIDs : Holds(n, u) =>
       /\ u \notin tmpSnaps
       /\ subvol[u] = "complete" /\ quota[u] >= asked[u]
       /\ entry[u] = n /\ nameKey[n] = u

\* What was made for a request can be found by its name, or by the request that
\* works on it: the subvolume, the temporary snapshot and the reservation.  The
\* exceptions are what failing purges gave up, and clones whose state could not be
\* read.
NothingLost ==
    \A u \in UUIDs \ abandoned :
       subvol[u] # "none" \/ u \in tmpSnaps \/ entry[u] # NoName =>
          entry[u] # NoName /\ nameKey[entry[u]] = u

\* Every reservation is that of its name: a stale one is collected before the name
\* is reserved again, as the comment of CheckVolExists says.  Does not hold with a restart
\* while a clone is made (README, Known disagreements).
StaleCollected ==
    \A u \in UUIDs : entry[u] # NoName => nameKey[entry[u]] = u
=============================================================================
