----------------------------- MODULE RbdVolumes -----------------------------
(***************************************************************************)
(* CreateVolume and DeleteVolume of the RBD controller server              *)
(* (internal/rbd/controllerserver.go) for volumes without content source,  *)
(* over the journal of VolJournal.tla and the images of one pool.          *)
(*                                                                         *)
(* A request is a goroutine of the provisioner.  Each of its steps is one  *)
(* call that reads or changes the cluster; between two steps every other   *)
(* request may run, the provisioner may crash (losing all requests and     *)
(* all locks, keeping the cluster), and any call may fail.                 *)
(***************************************************************************)
EXTENDS VolJournal, FiniteSets

CONSTANTS Requests,      \* slots for concurrent requests
          MaxImages,     \* bound: images ever created
          Scenarios      \* the environments to explore, one per behaviour

\* requests  bound: requests at the same time
\* uuids     bound: UUIDs ever generated
\* faults    bound: failing calls
\* crashes   bound: provisioner restarts
\* mirroring whether images may become healthy secondaries
\* encrypted whether new images are block encrypted
\* overlap   whether the CO may ask for the creation and the deletion of a
\*           volume at the same time
ASSUME ScenariosTyped ==
    /\ MaxImages \in Nat
    /\ Scenarios \subseteq [requests : Nat, uuids : Nat, faults : Nat, crashes : Nat,
                            mirroring : BOOLEAN, encrypted : BOOLEAN, overlap : BOOLEAN]

VARIABLES
    images,        \* the id of the image named after a UUID, NoID if none
    trash,         \* images in the RBD trash, as <<UUID, id>>
    nextID,        \* ids given to images so far
    secondary,     \* images that are up+replaying secondaries of a mirror
    volumeLocks,   \* cs.VolumeLocks: request names and volume ids
    pc, req,       \* where each request is, and its variables
    servedFor,     \* the name for which the CO was given a volume id
    granted,       \* the volume the CO holds for a name
    used,          \* UUIDs generated so far
    recycled,      \* UUIDs whose stale reservation Exists() removed
    abandoned,     \* UUIDs whose image the driver gave up on removing
    faults, crashes,
    scenario

store == <<images, trash, nextID, secondary>>
history == <<servedFor, granted, used, recycled, abandoned>>
bounds == <<faults, crashes, scenario>>
vars == <<journal, store, volumeLocks, pc, req, history, bounds>>

Idle == [op |-> "none", name |-> NoName, uuid |-> NoUUID, imageID |-> NoID,
         then |-> "none", held |-> {}]

CreateSteps == {"checkName", "getAttributes", "statImage", "repairID", "repairMeta",
                "reserveUUID", "reserveName", "reserveAttrs", "createImage", "storeID",
                "setMeta", "rollbackTrash", "rollbackRemove"}
DeleteSteps == {"delAttributes", "delStoreID", "delStat", "delTrash", "delUndoLock",
                "delLock", "delMirror", "delInUse", "delImage", "delRemove"}
UndoSteps == {"undoUUID", "undoName"}
Steps == CreateSteps \cup DeleteSteps \cup UndoSteps

Reqs == [op : {"none", "create", "delete"},
         name : Names \cup {NoName}, uuid : UUIDs \cup {NoUUID}, imageID : Nat,
         then : {"none", "reserveFresh", "reserveSame", "return"},
         held : SUBSET (Names \cup UUIDs \cup {NoName})]

TypeOK ==
    /\ JournalTypeOK
    /\ images \in [UUIDs -> Nat]
    /\ trash \subseteq UUIDs \X Nat
    /\ nextID \in Nat
    /\ secondary \subseteq UUIDs
    /\ volumeLocks \subseteq Names \cup UUIDs \cup {NoName}
    /\ pc \in [Requests -> Steps \cup {"idle"}]
    /\ req \in [Requests -> Reqs]
    /\ servedFor \in [UUIDs -> Names \cup {NoName}] /\ used \subseteq UUIDs
    /\ granted \in [Names -> UUIDs \cup {NoUUID}]
    /\ recycled \subseteq UUIDs /\ abandoned \subseteq UUIDs
    /\ faults \in 0 .. scenario.faults /\ crashes \in 0 .. scenario.crashes
    /\ scenario \in Scenarios

Init == /\ JournalInit
        /\ images = [u \in UUIDs |-> NoID] /\ trash = {} /\ nextID = 0 /\ secondary = {}
        /\ volumeLocks = {}
        /\ pc = [p \in Requests |-> "idle"] /\ req = [p \in Requests |-> Idle]
        /\ servedFor = [u \in UUIDs |-> NoName] /\ granted = [n \in Names |-> NoUUID] /\ used = {}
        /\ recycled = {} /\ abandoned = {}
        /\ faults = 0 /\ crashes = 0
        /\ scenario \in Scenarios

-----------------------------------------------------------------------------
(* Control flow *)

At(p, step) == pc[p] = step

Goto(p, step) == /\ pc' = [pc EXCEPT ![p] = step]
                 /\ UNCHANGED volumeLocks

\* The request returns: the deferred Release calls run.
Return(p) == /\ pc' = [pc EXCEPT ![p] = "idle"]
             /\ req' = [req EXCEPT ![p] = Idle]
             /\ volumeLocks' = volumeLocks \ req[p].held

\* UndoReservation, after which the request goes on as "then" says.
Undo(p, then) == /\ Goto(p, "undoUUID")
                 /\ req' = [req EXCEPT ![p].then = then]

\* A call fails; the number of failures is bounded.
Fault == /\ faults < scenario.faults
         /\ faults' = faults + 1
         /\ UNCHANGED <<crashes, scenario>>

\* Steps whose failure returns an error and leaves the rest to a retry.
PlainSteps == {"checkName", "getAttributes", "statImage", "repairID", "repairMeta",
               "reserveUUID", "reserveName", "undoUUID", "undoName"} \cup DeleteSteps

\* In a rollback the error of the undo is only logged, and the request returns
\* its first error.
CallFails(p) == /\ pc[p] \in PlainSteps
                /\ Fault
                /\ Return(p)
                /\ UNCHANGED <<journal, store, history>>

-----------------------------------------------------------------------------
(* CreateVolume *)

\* The bound on requests at the same time.
SlotFree == Cardinality({q \in Requests : ~ At(q, "idle")}) < scenario.requests

\* The CO waits for its requests of kind op for the name n, unless it may
\* overlap them (it may after a restart, or when a request timed out).
MayOverlap(op, n) ==
    scenario.overlap \/ \A q \in Requests : req[q].op = op =>
        IF op = "create" THEN req[q].name # n ELSE servedFor[req[q].uuid] # n

\* Mutant: the lock is taken on the volume id, which is not known yet.
CreateVolumeLocksID(p, n) ==
    /\ At(p, "idle") /\ SlotFree
    /\ MayOverlap("delete", n)
    /\ NoUUID \notin volumeLocks
    /\ volumeLocks' = volumeLocks \cup {NoUUID}
    /\ pc' = [pc EXCEPT ![p] = "checkName"]
    /\ req' = [req EXCEPT ![p] = [Idle EXCEPT !.op = "create", !.name = n, !.held = {NoUUID}]]
    /\ UNCHANGED <<journal, store, history, bounds>>

\* TryAcquire on the request name; a request that does not get the lock is
\* answered Aborted and changes nothing.
CreateVolume(p, n) ==
    /\ At(p, "idle") /\ SlotFree
    /\ MayOverlap("delete", n)
    /\ n \notin volumeLocks
    /\ volumeLocks' = volumeLocks \cup {n}
    /\ pc' = [pc EXCEPT ![p] = "checkName"]
    /\ req' = [req EXCEPT ![p] = [Idle EXCEPT !.op = "create", !.name = n, !.held = {n}]]
    /\ UNCHANGED <<journal, store, history, bounds>>

\* Mutant: every request is treated as a new one.
CheckNameBlind(p) == /\ At(p, "checkName")
                     /\ Goto(p, "reserveUUID")
                     /\ UNCHANGED <<journal, req, store, history, bounds>>

\* CheckReservation, first read: the key of the name.
CheckName(p) ==
    /\ At(p, "checkName")
    /\ LET u == csiDirectory[req[p].name] IN
         IF u = NoUUID
         THEN Goto(p, "reserveUUID") /\ UNCHANGED req
         ELSE /\ Goto(p, "getAttributes")
              /\ req' = [req EXCEPT ![p].uuid = u]
    /\ UNCHANGED <<journal, store, history, bounds>>

\* Mutant: a missing object is an error like any other.
GetAttributesNoCleanup(p) ==
    /\ At(p, "getAttributes")
    /\ LET r == req[p] IN
         IF ObjectMissing(r.uuid) \/ NamesMismatch(r.uuid, r.name)
         THEN Return(p)
         ELSE /\ Goto(p, "statImage")
              /\ req' = [req EXCEPT ![p].imageID = uuidDirectory[r.uuid].imageID]
    /\ UNCHANGED <<journal, store, history, bounds>>

\* CheckReservation, second read: the attributes.  A missing object is garbage
\* collected; then Exists() returns no reservation and a new UUID is generated.
GetAttributes(p) ==
    /\ At(p, "getAttributes")
    /\ LET r == req[p] IN
         \/ /\ ObjectMissing(r.uuid)
            /\ Undo(p, "reserveFresh")
         \/ /\ NamesMismatch(r.uuid, r.name)
            /\ Return(p)
         \/ /\ ~ ObjectMissing(r.uuid) /\ ~ NamesMismatch(r.uuid, r.name)
            /\ Goto(p, "statImage")
            /\ req' = [req EXCEPT ![p].imageID = uuidDirectory[r.uuid].imageID]
    /\ UNCHANGED <<journal, store, history, bounds>>

\* Exists: getImageInfo.  When the image is missing the reservation is undone,
\* but rv.ReservedID keeps the UUID, which reserveVol asks for again, and
\* rv.ImageID keeps the id that the journal had.
StatImage(p) ==
    /\ At(p, "statImage")
    /\ IF images[req[p].uuid] = NoID
       THEN Undo(p, "reserveSame") /\ recycled' = recycled \cup {req[p].uuid}
       ELSE Goto(p, "repairID") /\ UNCHANGED <<req, recycled>>
    /\ UNCHANGED <<journal, store, servedFor, granted, used, abandoned, bounds>>

\* Exists: repairImageID stores the id if the journal has none.
RepairImageID(p) ==
    /\ At(p, "repairID")
    /\ LET r == req[p] IN
         \/ /\ r.imageID # NoID
            /\ Goto(p, "repairMeta")
            /\ UNCHANGED <<journal, req>>
         \/ /\ r.imageID = NoID /\ images[r.uuid] # NoID
            /\ StoreImageID(r.uuid, images[r.uuid])
            /\ Goto(p, "repairMeta")
            /\ req' = [req EXCEPT ![p].imageID = images[r.uuid]]
         \/ /\ r.imageID = NoID /\ images[r.uuid] = NoID
            /\ Return(p)
            /\ UNCHANGED journal
    /\ UNCHANGED <<store, history, bounds>>

\* The CO is given the volume; it holds it unless it is also deleting it.
Grant(n, u) ==
    /\ servedFor' = [servedFor EXCEPT ![u] = n]
    /\ granted' = IF \E q \in Requests : req[q].op = "delete" /\ req[q].uuid = u
                  THEN granted ELSE [granted EXCEPT ![n] = u]
    /\ UNCHANGED <<used, recycled, abandoned>>

\* repairExistingVolume: setAllMetadata opens the image; then the response.
RepairMetadata(p) ==
    /\ At(p, "repairMeta")
    /\ \/ /\ images[req[p].uuid] # NoID
          /\ Return(p)
          /\ Grant(req[p].name, req[p].uuid)
       \/ /\ images[req[p].uuid] = NoID
          /\ Return(p)
          /\ UNCHANGED history
    /\ UNCHANGED <<journal, store, bounds>>

\* What uuid.New() may return; it does not return a UUID twice.
FreshUUIDs == IF Cardinality(used) < scenario.uuids THEN UUIDs \ used ELSE {}

\* ReserveName: the UUID object, with the UUID of a stale reservation or with
\* a new one.  When the model's UUIDs are used up the call fails as it does
\* after maxAttempts conflicts.
ReserveUUID(p) ==
    /\ At(p, "reserveUUID")
    /\ LET given == req[p].uuid IN
         \/ /\ given # NoUUID /\ ObjectMissing(given)
            /\ CreateUUIDObject(given)
            /\ Goto(p, "reserveName")
            /\ UNCHANGED <<req, history>>
         \/ \E u \in FreshUUIDs :
              /\ given = NoUUID
              /\ CreateUUIDObject(u)
              /\ Goto(p, "reserveName")
              /\ req' = [req EXCEPT ![p].uuid = u]
              /\ used' = used \cup {u}
              /\ UNCHANGED <<servedFor, granted, recycled, abandoned>>
         \/ /\ IF given = NoUUID THEN FreshUUIDs = {} ELSE ~ ObjectMissing(given)
            /\ Return(p)
            /\ UNCHANGED <<journal, history>>
    /\ UNCHANGED <<store, bounds>>

\* ReserveName: the key of the name.
ReserveNameKey(p) ==
    /\ At(p, "reserveName")
    /\ SetNameKey(req[p].name, req[p].uuid)
    /\ Goto(p, "reserveAttrs")
    /\ UNCHANGED <<req, store, history, bounds>>

\* ReserveName: the attributes.  Their failure undoes the reservation; a
\* failing GenerateVolID after them leaves it for the next CreateVolume.
ReserveAttributes(p) ==
    /\ At(p, "reserveAttrs")
    /\ \/ /\ SetAttributes(req[p].uuid, req[p].name, NoUUID)
          /\ Goto(p, "createImage")
          /\ UNCHANGED <<req, bounds>>
       \/ /\ Fault
          /\ Undo(p, "return")
          /\ UNCHANGED journal
       \/ /\ Fault
          /\ SetAttributes(req[p].uuid, req[p].name, NoUUID)
          /\ Return(p)
    /\ UNCHANGED <<store, history>>

NewImage(u) == /\ nextID' = nextID + 1
               /\ images' = [images EXCEPT ![u] = nextID + 1]
               /\ UNCHANGED <<trash, secondary>>

\* createBackingImage: createImage.  When the image cannot be created, the
\* reservation is undone.  When it was created but its encryption could not
\* be set up, the reservation is undone and the image stays.
CreateImage(p) ==
    /\ At(p, "createImage")
    /\ LET u == req[p].uuid IN
         \/ /\ images[u] = NoID /\ nextID < MaxImages
            /\ NewImage(u)
            /\ Goto(p, "storeID")
            /\ UNCHANGED <<req, history, bounds>>
         \/ /\ \/ Fault
               \/ (images[u] # NoID \/ nextID = MaxImages) /\ UNCHANGED bounds
            /\ Undo(p, "return")
            /\ UNCHANGED <<store, history>>
         \/ /\ scenario.encrypted /\ images[u] = NoID /\ nextID < MaxImages
            /\ Fault
            /\ NewImage(u)
            /\ Undo(p, "return")
            /\ abandoned' = abandoned \cup {u}
            /\ UNCHANGED <<servedFor, granted, used, recycled>>
    /\ UNCHANGED journal

\* getImageID keeps an id that is already set.
CurrentImageID(p) ==
    IF req[p].imageID # NoID THEN req[p].imageID ELSE images[req[p].uuid]

\* createBackingImage: storeImageID and the QoS parameters, whose failure
\* removes the image again.
StoreID(p) ==
    /\ At(p, "storeID")
    /\ \/ /\ StoreImageID(req[p].uuid, CurrentImageID(p))
          /\ Goto(p, "setMeta")
          /\ UNCHANGED bounds
       \/ /\ Fault
          /\ Goto(p, "rollbackTrash")
          /\ UNCHANGED journal
       \/ /\ Fault
          /\ StoreImageID(req[p].uuid, CurrentImageID(p))
          /\ Goto(p, "rollbackTrash")
    /\ req' = [req EXCEPT ![p].imageID = CurrentImageID(p)]
    /\ UNCHANGED <<store, history>>

\* The call fails because the image is not there any more.
ImageGone(p) == images[req[p].uuid] = NoID /\ UNCHANGED bounds

\* Mutant: a failure undoes the reservation only.
SetMetadataNoRollback(p) ==
    /\ At(p, "setMeta")
    /\ \/ /\ images[req[p].uuid] # NoID
          /\ Return(p)
          /\ Grant(req[p].name, req[p].uuid)
          /\ UNCHANGED bounds
       \/ /\ Fault
          /\ Undo(p, "return")
          /\ UNCHANGED history
    /\ UNCHANGED <<journal, store>>

\* CreateVolume: setAllMetadata and the response.  A failure removes the image
\* and, in the deferred function, the reservation.
SetMetadata(p) ==
    /\ At(p, "setMeta")
    /\ \/ /\ images[req[p].uuid] # NoID
          /\ Return(p)
          /\ Grant(req[p].name, req[p].uuid)
          /\ UNCHANGED bounds
       \/ /\ Fault \/ ImageGone(p)
          /\ Goto(p, "rollbackTrash")
          /\ UNCHANGED <<req, history>>
    /\ UNCHANGED <<journal, store>>

Abandon(u) == /\ abandoned' = abandoned \cup {u}
              /\ UNCHANGED <<servedFor, granted, used, recycled>>

\* rbdImage.Delete, first half: the image moves to the trash.
TrashImage(u) == /\ images' = [images EXCEPT ![u] = NoID]
                 /\ trash' = trash \cup {<<u, images[u]>>}
                 /\ UNCHANGED <<nextID, secondary>>

\* trashRemoveImage: the image with this id leaves the trash; "not found in
\* trash" counts as removed.
TrashRemove(id) == /\ trash' = {t \in trash : t[2] # id}
                   /\ UNCHANGED <<images, nextID, secondary>>

\* The rollback of CreateVolume: rbdVol.Delete, whose error is only logged,
\* before the reservation is undone.
RollbackTrash(p) ==
    /\ At(p, "rollbackTrash")
    /\ \/ /\ images[req[p].uuid] # NoID
          /\ TrashImage(req[p].uuid)
          /\ Goto(p, "rollbackRemove")
          /\ req' = [req EXCEPT ![p].imageID = CurrentImageID(p)]
          /\ UNCHANGED <<history, bounds>>
       \/ /\ Fault \/ ImageGone(p)
          /\ Abandon(req[p].uuid)
          /\ Undo(p, "return")
          /\ UNCHANGED store
    /\ UNCHANGED journal

RollbackRemove(p) ==
    /\ At(p, "rollbackRemove")
    /\ \/ /\ TrashRemove(req[p].imageID)
          /\ UNCHANGED <<history, bounds>>
       \/ /\ Fault
          /\ Abandon(req[p].uuid)
          /\ UNCHANGED store
    /\ Undo(p, "return")
    /\ UNCHANGED journal

-----------------------------------------------------------------------------
(* UndoReservation *)

UndoUUID(p) == /\ At(p, "undoUUID")
               /\ RemoveUUIDObject(req[p].uuid)
               /\ Goto(p, "undoName")
               /\ UNCHANGED <<req, store, history, bounds>>

UndoName(p) ==
    /\ At(p, "undoName")
    /\ RemoveNameKey(req[p].name)
    /\ CASE req[p].then = "reserveFresh" ->
              /\ Goto(p, "reserveUUID")
              /\ req' = [req EXCEPT ![p].uuid = NoUUID]
         [] req[p].then = "reserveSame" -> Goto(p, "reserveUUID") /\ UNCHANGED req
         [] req[p].then = "return" -> Return(p)
    /\ UNCHANGED <<store, history, bounds>>

-----------------------------------------------------------------------------
(* DeleteVolume *)

\* TryAcquire on the volume id.  The delete lock of OperationLocks has no
\* holder to conflict with among these requests.
DeleteVolume(p, u) ==
    /\ At(p, "idle") /\ SlotFree
    /\ servedFor[u] # NoName
    /\ MayOverlap("create", servedFor[u])
    /\ u \notin volumeLocks
    /\ volumeLocks' = volumeLocks \cup {u}
    /\ pc' = [pc EXCEPT ![p] = "delAttributes"]
    /\ req' = [req EXCEPT ![p] = [Idle EXCEPT !.op = "delete", !.uuid = u, !.held = {u}]]
    /\ granted' = [n \in Names |-> IF granted[n] = u THEN NoUUID ELSE granted[n]]
    /\ UNCHANGED <<journal, store, servedFor, used, recycled, abandoned, bounds>>

\* GenVolFromVolID: GetImageAttributes.  ErrKeyNotFound means that an earlier
\* deletion was complete.
DelAttributes(p) ==
    /\ At(p, "delAttributes")
    /\ LET a == uuidDirectory[req[p].uuid] IN
         IF a = NoObject
         THEN Return(p)
         ELSE /\ Goto(p, IF a.imageID = NoID THEN "delStoreID" ELSE "delStat")
              /\ req' = [req EXCEPT ![p].name = a.reqName, ![p].imageID = a.imageID]
    /\ UNCHANGED <<journal, store, history, bounds>>

\* GenVolFromVolID: storeImageID for a journal without image id.
DelStoreID(p) ==
    /\ At(p, "delStoreID")
    /\ LET u == req[p].uuid IN
         IF images[u] = NoID
         THEN Goto(p, "delUndoLock") /\ UNCHANGED <<journal, req>>
         ELSE /\ StoreImageID(u, images[u])
              /\ req' = [req EXCEPT ![p].imageID = images[u]]
              /\ Goto(p, "delStat")
    /\ UNCHANGED <<store, history, bounds>>

\* Mutant: an image that is not in the pool is taken to be gone.
DelStatIgnoresTrash(p) ==
    /\ At(p, "delStat")
    /\ Goto(p, IF images[req[p].uuid] = NoID THEN "delUndoLock" ELSE "delLock")
    /\ UNCHANGED <<journal, req, store, history, bounds>>

\* GenVolFromVolID: getImageInfo.
DelStat(p) ==
    /\ At(p, "delStat")
    /\ Goto(p, IF images[req[p].uuid] = NoID THEN "delTrash" ELSE "delLock")
    /\ UNCHANGED <<journal, req, store, history, bounds>>

\* checkErrAndUndoReserve: the image is gone from the pool, remove it from the
\* trash by the id of the journal.
DelTrash(p) ==
    /\ At(p, "delTrash")
    /\ TrashRemove(req[p].imageID)
    /\ Goto(p, "delUndoLock")
    /\ UNCHANGED <<journal, req, history, bounds>>

\* TryAcquire on the request name found in the journal.
LockName(p, next) ==
    LET n == req[p].name IN
      IF n \in volumeLocks
      THEN Return(p)
      ELSE /\ volumeLocks' = volumeLocks \cup {n}
           /\ req' = [req EXCEPT ![p].held = @ \cup {n}, ![p].then = "return"]
           /\ pc' = [pc EXCEPT ![p] = next]

\* checkErrAndUndoReserve: garbage collect the reservation.
DelUndoLock(p) ==
    /\ At(p, "delUndoLock")
    /\ IF req[p].name = NoName THEN Return(p) ELSE LockName(p, "undoUUID")
    /\ UNCHANGED <<journal, store, history, bounds>>

\* Mutant: the image is cleaned up without the lock on the request name.
DelLockSkipped(p) == /\ At(p, "delLock")
                     /\ Goto(p, "delMirror")
                     /\ req' = [req EXCEPT ![p].then = "return"]
                     /\ UNCHANGED <<journal, store, history, bounds>>

DelLock(p) == /\ At(p, "delLock")
              /\ LockName(p, "delMirror")
              /\ UNCHANGED <<journal, store, history, bounds>>

\* cleanupRBDImage: only the journal of a healthy secondary is removed.
DelMirror(p) ==
    /\ At(p, "delMirror")
    /\ Goto(p, IF req[p].uuid \in secondary THEN "undoUUID" ELSE "delInUse")
    /\ UNCHANGED <<journal, req, store, history, bounds>>

\* cleanupRBDImage: isInUse opens the image and lists its watchers.
DelInUse(p) ==
    /\ At(p, "delInUse")
    /\ \/ images[req[p].uuid] # NoID /\ Goto(p, "delImage") /\ UNCHANGED req
       \/ Return(p)
    /\ UNCHANGED <<journal, store, history, bounds>>

\* cleanupRBDImage: rbdVol.Delete.
DelImage(p) ==
    /\ At(p, "delImage")
    /\ IF images[req[p].uuid] = NoID
       THEN Return(p) /\ UNCHANGED store
       ELSE TrashImage(req[p].uuid) /\ Goto(p, "delRemove") /\ UNCHANGED req
    /\ UNCHANGED <<journal, history, bounds>>

DelRemove(p) ==
    /\ At(p, "delRemove")
    /\ TrashRemove(req[p].imageID)
    /\ Goto(p, "undoUUID")
    /\ UNCHANGED <<journal, req, history, bounds>>

-----------------------------------------------------------------------------
(* The environment *)

\* The image becomes the healthy secondary of a mirrored pair.
Demote(u) == /\ scenario.mirroring
             /\ images[u] # NoID
             /\ secondary' = secondary \cup {u}
             /\ UNCHANGED <<journal, images, trash, nextID, volumeLocks, pc, req,
                            history, bounds>>

\* The provisioner restarts.
Crash == /\ crashes < scenario.crashes
         /\ crashes' = crashes + 1
         /\ \E p \in Requests : pc[p] # "idle"
         /\ volumeLocks' = {}
         /\ pc' = [p \in Requests |-> "idle"]
         /\ req' = [p \in Requests |-> Idle]
         /\ UNCHANGED <<journal, store, history, faults, scenario>>

Step(p) == \/ CheckName(p) \/ GetAttributes(p) \/ StatImage(p) \/ RepairImageID(p)
           \/ RepairMetadata(p) \/ ReserveUUID(p) \/ ReserveNameKey(p)
           \/ ReserveAttributes(p) \/ CreateImage(p) \/ StoreID(p) \/ SetMetadata(p)
           \/ RollbackTrash(p) \/ RollbackRemove(p)
           \/ UndoUUID(p) \/ UndoName(p)
           \/ DelAttributes(p) \/ DelStoreID(p) \/ DelStat(p) \/ DelTrash(p)
           \/ DelUndoLock(p) \/ DelLock(p) \/ DelMirror(p) \/ DelInUse(p)
           \/ DelImage(p) \/ DelRemove(p)
           \/ CallFails(p)

Next == \/ \E p \in Requests : \/ \E n \in Names : CreateVolume(p, n)
                               \/ \E u \in UUIDs : DeleteVolume(p, u)
                               \/ Step(p)
        \/ \E u \in UUIDs : Demote(u)
        \/ Crash

Spec == Init /\ [][Next]_vars

\* The CO repeats a CreateVolume until it has the volume.
Retry(n) == \E p \in Requests : granted[n] = NoUUID /\ CreateVolume(p, n)

\* The goroutines of the requests are scheduled, and the CO does not give up.
FairSpec == /\ Spec
            /\ \A p \in Requests : WF_vars(Step(p))
            /\ \A n \in Names : WF_vars(Retry(n))

-----------------------------------------------------------------------------
(* Properties *)

\* No call fails and the provisioner does not restart.
Quiet == scenario.faults = 0 /\ scenario.crashes = 0

\* A volume that CreateVolume handed out and that the CO has not asked to be
\* deleted keeps its image, its attributes and its name key, whatever other
\* requests, restarts and failing calls do.  (With overlapping requests it does
\* not: a DeleteVolume that read the journal before it had the lock of the name
\* removes the name key of a newer volume.)
GrantBacked == ~ scenario.overlap => \A n \in Names :
    granted[n] # NoUUID => images[granted[n]] # NoID /\ Reserved(n, granted[n])

\* CreateVolume is idempotent: as long as the CO holds a volume for a name, a
\* repeated CreateVolume with that name neither reserves another UUID nor hands
\* out another volume.
StableGrant == [][Quiet \/ ~ scenario.overlap => \A n \in Names : granted[n] # NoUUID =>
    /\ granted'[n] \in {granted[n], NoUUID}
    /\ \A p \in Requests : req[p].name = n /\ pc[p] = "reserveUUID"
                             => pc'[p] # "reserveName"]_vars

\* The omaps of a request name change only while its lock is held: the rule
\* that the comments of CheckReservation, UndoReservation and ReserveName give.
NameKeyUnderLock == [][\A n \in Names :
    csiDirectory'[n] # csiDirectory[n] => n \in volumeLocks]_vars

\* Every image has a journal entry that DeleteVolume can find it by, except
\* where a failing rollback gave up on the image, or where it is the secondary
\* of a mirror.
NoOrphanImage == ~ scenario.overlap => \A u \in UUIDs :
    images[u] # NoID /\ uuidDirectory[u] = NoObject => u \in abandoned \cup secondary

\* rbd_journal.go:726: "storeImageID retrieves the image ID and stores it in
\* OMAP": the stored id is that of the image, so that DeleteVolume finds it in
\* the trash.  (After a failure it need not be: Exists leaves the id of a
\* missing image in rv.ImageID, and getImageID keeps it for the new image.)
StoredImageIDIsCurrent == Quiet => \A u \in UUIDs :
    images[u] # NoID /\ uuidDirectory[u] # NoObject /\ uuidDirectory[u].imageID # NoID
        => uuidDirectory[u].imageID = images[u]

\* The image of a volume that the CO was given never stays behind in the trash:
\* the deletion that moved it there is about to remove it, or the journal has
\* its id for the next DeleteVolume.  (A stale reservation that CreateVolume
\* recycled is the exception: its journal, and the id in it, are gone.)
TrashReclaimable ==
    /\ StoredImageIDIsCurrent
    /\ ~ scenario.overlap => \A t \in trash :
          servedFor[t[1]] # NoName /\ t[1] \notin recycled =>
              \/ uuidDirectory[t[1]] # NoObject /\ uuidDirectory[t[1]].imageID = t[2]
              \/ \E p \in Requests : pc[p] = "delRemove" /\ req[p].imageID = t[2]

\* The driver never wedges a name: when the CO stops deleting and the cluster
\* has UUIDs and ids left, a CreateVolume that is repeated after failures ends
\* with a volume.
RetriedCreateSucceeds == \A n \in Names :
    /\ <>[](\A p \in Requests : req[p].op # "delete")
    /\ [](FreshUUIDs # {} /\ nextID < MaxImages)
    => <>[](granted[n] # NoUUID)

\* voljournal.go:378, where the request names disagree: "NOTE: This should
\* never be possible".  The code does not keep it: a restart between two writes
\* of ReserveName leaves a name that every later CreateVolume refuses.
NeverInconsistent == \A p \in Requests :
    At(p, "getAttributes") => ~ NamesMismatch(req[p].uuid, req[p].name)
=============================================================================
