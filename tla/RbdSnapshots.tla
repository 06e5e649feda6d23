---------------------------- MODULE RbdSnapshots ----------------------------
(***************************************************************************)
(* CreateSnapshot and DeleteSnapshot of the RBD controller server.         *)
(*                                                                         *)
(* A CSI snapshot is an image of its own: the source volume is snapshotted *)
(* (parentSnaps), that snapshot is cloned to an image named after the UUID *)
(* (images), the snapshot on the source is dropped, and the clone gets a   *)
(* snapshot itself (cloneSnaps), from which volumes are restored.  With    *)
(* encryption the clone has its own copy of the passphrase in the KMS,     *)
(* under the id of the snapshot (keys).                                    *)
(*                                                                         *)
(* As in RbdVolumes.tla, a step of a request is one call to the cluster,   *)
(* requests interleave between steps, calls fail and provisioners restart. *)
(* The source volumes exist throughout.                                    *)
(***************************************************************************)
EXTENDS VolJournal, FiniteSets

CONSTANTS Requests,      \* slots for concurrent requests
          MaxImages,     \* bound: clones ever created
          Scenarios      \* the environments to explore, one per behaviour

\* names, sources  what the CO asks for
\* uuids     bound: UUIDs ever generated
\* faults    bound: failing calls
\* crashes   bound: provisioner restarts
\* encrypted whether the sources are encrypted with a KMS that stores the
\*           passphrases itself
\* overlap   whether the CO may repeat a CreateSnapshot that was answered, also
\*           while or after deleting the snapshot
ASSUME ScenariosTyped ==
    /\ MaxImages \in Nat
    /\ Scenarios \subseteq [names : SUBSET Names, sources : SUBSET Sources,
                            uuids : Nat, faults : Nat, crashes : Nat,
                            encrypted : BOOLEAN, overlap : BOOLEAN]
ASSUME SourcesAreNotSnapshots == Sources \cap UUIDs = {}

VARIABLES
    parentSnaps,   \* snapshots on sources, as <<source, UUID>>
    images,        \* the id of the clone named after a UUID, NoID if none
    cloneSnaps,    \* UUIDs whose clone has its own snapshot
    trash,         \* clones in the RBD trash, as <<UUID, id>>
    nextID,
    keys,          \* sources and snapshots with a passphrase in the KMS
    snapshotLocks, \* cs.SnapshotLocks: request names and snapshot ids
    pc, req,
    servedFor,     \* the name for which the CO was given a snapshot id
    granted,       \* the snapshot that the CO holds for a name
    used, abandoned, faults, crashes, scenario

store == <<parentSnaps, images, cloneSnaps, trash, nextID, keys>>
history == <<servedFor, granted, used, abandoned>>
bounds == <<faults, crashes, scenario>>
vars == <<journal, store, snapshotLocks, pc, req, history, bounds>>

\* keyed: the rbdVolume of the clone has its encryption configured, so that its
\* Delete removes the passphrase.  cloned: the clone was created.  imageID is
\* the id in rbdSnap, trashID the one in the rbdVolume that is deleted.
Idle == [op |-> "none", name |-> NoName, source |-> NoUUID, uuid |-> NoUUID,
         imageID |-> NoID, trashID |-> NoID, then |-> "none",
         keyed |-> FALSE, cloned |-> FALSE, held |-> {}]

CreateSteps == {"checkName", "getAttributes", "statClone", "checkSnap", "repairID",
                "rollForward", "flatten", "reserveUUID", "reserveName", "reserveAttrs",
                "parentSnap", "clone", "dropParentSnap", "unclone", "uncloneTrash",
                "copyKey", "cloneSnap", "storeID", "setMeta", "sourceDelete"}
CleanupSteps == {"undoParentSnap", "dropCloneSnap", "trashClone", "removeTrash",
                 "undoUUID", "undoName"}
DeleteSteps == {"delAttributes", "delStat", "delTrash", "delLock"}
Steps == CreateSteps \cup CleanupSteps \cup DeleteSteps

TypeOK ==
    /\ JournalTypeOK
    /\ parentSnaps \subseteq Sources \X UUIDs
    /\ images \in [UUIDs -> Nat] /\ cloneSnaps \subseteq UUIDs
    /\ trash \subseteq UUIDs \X Nat /\ nextID \in Nat
    /\ keys \subseteq Sources \cup UUIDs
    /\ snapshotLocks \subseteq Names \cup UUIDs
    /\ pc \in [Requests -> Steps \cup {"idle"}]
    /\ req \in [Requests -> [op : {"none", "create", "delete"},
                             name : Names \cup {NoName}, source : Sources \cup {NoUUID},
                             uuid : UUIDs \cup {NoUUID}, imageID : Nat, trashID : Nat,
                             then : {"none", "fresh", "return", "rollback"},
                             keyed : BOOLEAN, cloned : BOOLEAN,
                             held : SUBSET (Names \cup UUIDs)]]
    /\ servedFor \in [UUIDs -> Names \cup {NoName}]
    /\ granted \in [Names -> UUIDs \cup {NoUUID}]
    /\ used \subseteq UUIDs /\ abandoned \subseteq UUIDs
    /\ faults \in 0 .. scenario.faults /\ crashes \in 0 .. scenario.crashes
    /\ scenario \in Scenarios

Init == /\ JournalInit
        /\ parentSnaps = {} /\ images = [u \in UUIDs |-> NoID] /\ cloneSnaps = {}
        /\ trash = {} /\ nextID = 0
        /\ scenario \in Scenarios
        /\ keys = IF scenario.encrypted THEN Sources ELSE {}
        /\ snapshotLocks = {}
        /\ pc = [p \in Requests |-> "idle"] /\ req = [p \in Requests |-> Idle]
        /\ servedFor = [u \in UUIDs |-> NoName] /\ granted = [n \in Names |-> NoUUID]
        /\ used = {} /\ abandoned = {} /\ faults = 0 /\ crashes = 0

-----------------------------------------------------------------------------
(* Control flow *)

At(p, step) == pc[p] = step

Goto(p, step) == /\ pc' = [pc EXCEPT ![p] = step]
                 /\ UNCHANGED snapshotLocks

Return(p) == /\ pc' = [pc EXCEPT ![p] = "idle"]
             /\ req' = [req EXCEPT ![p] = Idle]
             /\ snapshotLocks' = snapshotLocks \ req[p].held

\* A cleanup that starts at step and goes on as "then" says.
Cleanup(p, step, then) == /\ Goto(p, step)
                          /\ req' = [req EXCEPT ![p].then = then]

Fault == /\ faults < scenario.faults
         /\ faults' = faults + 1
         /\ UNCHANGED <<crashes, scenario>>

\* Steps whose failure returns an error and leaves the rest to a retry.
PlainSteps == {"checkName", "getAttributes", "statClone", "checkSnap", "rollForward",
               "flatten", "reserveUUID", "reserveName", "undoUUID", "undoName"} \cup DeleteSteps

CallFails(p) == /\ pc[p] \in PlainSteps
                /\ Fault
                /\ Return(p)
                /\ UNCHANGED <<journal, store, history>>

-----------------------------------------------------------------------------
(* The images, the snapshots on them and the KMS *)

ChangeParentSnaps(S) == /\ parentSnaps' = S
                        /\ UNCHANGED <<images, cloneSnaps, trash, nextID, keys>>

ChangeCloneSnaps(S) == /\ cloneSnaps' = S
                       /\ UNCHANGED <<parentSnaps, images, trash, nextID, keys>>

NewClone(u) == /\ nextID' = nextID + 1
               /\ images' = [images EXCEPT ![u] = nextID + 1]
               /\ UNCHANGED <<parentSnaps, cloneSnaps, trash, keys>>

\* rbdImage.Delete removes the passphrases K and moves the image to the trash.
TrashImage(u, K) == /\ images' = [images EXCEPT ![u] = NoID]
                    /\ cloneSnaps' = cloneSnaps \ {u}
                    /\ trash' = trash \cup {<<u, images[u]>>}
                    /\ keys' = keys \ K
                    /\ UNCHANGED <<parentSnaps, nextID>>

\* trashRemoveImage: "not found in trash" counts as removed.
TrashRemove(id) == /\ trash' = {t \in trash : t[2] # id}
                   /\ UNCHANGED <<parentSnaps, images, cloneSnaps, nextID, keys>>

\* getImageID keeps an id that is already set.
CurrentImageID(p) ==
    IF req[p].imageID # NoID THEN req[p].imageID ELSE images[req[p].uuid]

-----------------------------------------------------------------------------
(* CreateSnapshot: checkSnapCloneExists *)

\* An orderly CO asks again for a name until it has a snapshot, and never reuses
\* the name of a snapshot it has had.
MayCreate(n) == scenario.overlap \/ \A u \in UUIDs : servedFor[u] # n

\* Mutant: the lock is taken on the snapshot id, which is not known yet.
CreateSnapshotLocksID(p, n, s) ==
    /\ At(p, "idle")
    /\ MayCreate(n)
    /\ NoUUID \notin snapshotLocks
    /\ snapshotLocks' = snapshotLocks \cup {NoUUID}
    /\ pc' = [pc EXCEPT ![p] = "checkName"]
    /\ req' = [req EXCEPT ![p] = [Idle EXCEPT !.op = "create", !.name = n, !.source = s,
                                              !.held = {NoUUID}]]
    /\ UNCHANGED <<journal, store, history, bounds>>

\* TryAcquire on the request name.  GetSnapshotCreateLock on the source
\* conflicts with none of these requests.
CreateSnapshot(p, n, s) ==
    /\ At(p, "idle")
    /\ MayCreate(n)
    /\ n \notin snapshotLocks
    /\ snapshotLocks' = snapshotLocks \cup {n}
    /\ pc' = [pc EXCEPT ![p] = "checkName"]
    /\ req' = [req EXCEPT ![p] = [Idle EXCEPT !.op = "create", !.name = n, !.source = s,
                                              !.held = {n}]]
    /\ UNCHANGED <<journal, store, history, bounds>>

CheckName(p) ==
    /\ At(p, "checkName")
    /\ LET u == csiDirectory[req[p].name] IN
         IF u = NoUUID
         THEN Goto(p, "reserveUUID") /\ UNCHANGED req
         ELSE Goto(p, "getAttributes") /\ req' = [req EXCEPT ![p].uuid = u]
    /\ UNCHANGED <<journal, store, history, bounds>>

\* Mutant: the source is only compared as long as the reservation has no clone.
GetAttributesAnySource(p) ==
    /\ At(p, "getAttributes")
    /\ LET r == req[p]
           a == uuidDirectory[r.uuid] IN
         IF SnapshotMissing(r.uuid) THEN Cleanup(p, "undoUUID", "fresh")
         ELSE IF a.source # r.source /\ a.imageID = NoID THEN Return(p)
         ELSE /\ Goto(p, "statClone")
              /\ req' = [req EXCEPT ![p].imageID = a.imageID]
    /\ UNCHANGED <<journal, store, history, bounds>>

\* CheckReservation: a reservation without attributes is undone, one for another
\* source is a conflict.
GetAttributes(p) ==
    /\ At(p, "getAttributes")
    /\ LET r == req[p]
           a == uuidDirectory[r.uuid] IN
         IF SnapshotMissing(r.uuid) THEN Cleanup(p, "undoUUID", "fresh")
         ELSE IF NamesMismatch(r.uuid, r.name) THEN Return(p)
         ELSE IF a.source # r.source THEN Return(p)
         ELSE /\ Goto(p, "statClone")
              /\ req' = [req EXCEPT ![p].imageID = a.imageID]
    /\ UNCHANGED <<journal, store, history, bounds>>

\* Without the clone the creation is rolled back and starts anew.
StatClone(p) ==
    /\ At(p, "statClone")
    /\ IF images[req[p].uuid] = NoID
       THEN Cleanup(p, "undoParentSnap", "fresh")
       ELSE Goto(p, "checkSnap") /\ UNCHANGED req
    /\ UNCHANGED <<journal, store, history, bounds>>

\* Mutant: a missing snapshot of the clone is reported and not created.
CheckSnapOnly(p) ==
    /\ At(p, "checkSnap")
    /\ IF req[p].uuid \in cloneSnaps THEN Goto(p, "repairID") /\ UNCHANGED req
                                     ELSE Return(p)
    /\ UNCHANGED <<journal, store, history, bounds>>

\* A missing snapshot of the clone is created, and the request fails with
\* ErrSnapNotFound all the same; the next one finds it.  When the snapshot
\* cannot be created the clone is removed.
CheckSnap(p) ==
    /\ At(p, "checkSnap")
    /\ LET u == req[p].uuid IN
         \/ /\ u \in cloneSnaps
            /\ Goto(p, "repairID")
            /\ UNCHANGED <<req, store, bounds>>
         \/ /\ images[u] # NoID /\ u \notin cloneSnaps
            /\ ChangeCloneSnaps(cloneSnaps \cup {u})
            /\ Return(p)
            /\ UNCHANGED bounds
         \/ /\ u \notin cloneSnaps
            /\ Fault
            /\ Cleanup(p, "undoParentSnap", "fresh")
            /\ UNCHANGED store
    /\ UNCHANGED <<journal, history>>

RepairID(p) ==
    /\ At(p, "repairID")
    /\ LET r == req[p] IN
         \/ /\ r.imageID # NoID
            /\ Goto(p, "rollForward")
            /\ UNCHANGED <<journal, req, bounds>>
         \/ /\ r.imageID = NoID /\ images[r.uuid] # NoID
            /\ StoreImageID(r.uuid, images[r.uuid])
            /\ Goto(p, "rollForward")
            /\ UNCHANGED <<req, bounds>>
         \/ /\ r.imageID = NoID
            /\ Fault
            /\ Cleanup(p, "undoParentSnap", "fresh")
            /\ UNCHANGED journal
    /\ UNCHANGED <<store, history>>

KeyOf(x) == IF scenario.encrypted THEN {x} ELSE {}

StoreKey(u) == /\ keys' = keys \cup KeyOf(u)
               /\ UNCHANGED <<parentSnaps, images, cloneSnaps, trash, nextID>>

\* cloneFromSnapshot: the connection, whose failure removes the snapshot, and
\* the copy of the encryption configuration.
RollForward(p) ==
    /\ At(p, "rollForward")
    /\ \/ /\ StoreKey(req[p].uuid)
          /\ Goto(p, "flatten")
          /\ req' = [req EXCEPT ![p].keyed = scenario.encrypted]
          /\ UNCHANGED bounds
       \/ /\ Fault
          /\ Cleanup(p, "undoParentSnap", "return")
          /\ UNCHANGED store
    /\ UNCHANGED <<journal, history>>

Grant(n, u) ==
    /\ servedFor' = [servedFor EXCEPT ![u] = n]
    /\ granted' = IF \E q \in Requests : req[q].op = "delete" /\ req[q].uuid = u
                  THEN granted ELSE [granted EXCEPT ![n] = u]
    /\ UNCHANGED <<used, abandoned>>

\* cloneFromSnapshot: flattenRbdImage, the metadata and the response.  A
\* flatten in progress, or failing metadata, is a plain failure; another error
\* of the flatten removes the snapshot.
FlattenClone(p) ==
    /\ At(p, "flatten")
    /\ \/ /\ Return(p)
          /\ Grant(req[p].name, req[p].uuid)
          /\ UNCHANGED bounds
       \/ /\ Fault
          /\ Cleanup(p, "undoParentSnap", "return")
          /\ UNCHANGED history
    /\ UNCHANGED <<journal, store>>

-----------------------------------------------------------------------------
(* CreateSnapshot: reserveSnap and doSnapshotClone *)

FreshUUIDs == IF Cardinality(used) < scenario.uuids THEN UUIDs \ used ELSE {}

\* A snapshot always gets a new UUID, also after a stale reservation.
ReserveUUID(p) ==
    /\ At(p, "reserveUUID")
    /\ \/ \E u \in FreshUUIDs :
            /\ CreateUUIDObject(u)
            /\ Goto(p, "reserveName")
            /\ req' = [req EXCEPT ![p].uuid = u]
            /\ used' = used \cup {u}
            /\ UNCHANGED <<servedFor, granted, abandoned>>
       \/ /\ FreshUUIDs = {}
          /\ Return(p)
          /\ UNCHANGED <<journal, history>>
    /\ UNCHANGED <<store, bounds>>

ReserveNameKey(p) ==
    /\ At(p, "reserveName")
    /\ SetNameKey(req[p].name, req[p].uuid)
    /\ Goto(p, "reserveAttrs")
    /\ UNCHANGED <<req, store, history, bounds>>

\* Failing attributes, or a failing GenerateVolID after them, undo the
\* reservation.
ReserveAttributes(p) ==
    /\ At(p, "reserveAttrs")
    /\ \/ /\ SetAttributes(req[p].uuid, req[p].name, req[p].source)
          /\ Goto(p, "parentSnap")
          /\ UNCHANGED <<req, bounds>>
       \/ /\ Fault
          /\ Cleanup(p, "undoUUID", "return")
          /\ SetAttributes(req[p].uuid, req[p].name, req[p].source) \/ UNCHANGED journal
    /\ UNCHANGED <<store, history>>

\* createRBDClone: the snapshot on the source.
ParentSnapshot(p) ==
    /\ At(p, "parentSnap")
    /\ \/ /\ ChangeParentSnaps(parentSnaps \cup {<<req[p].source, req[p].uuid>>})
          /\ Goto(p, "clone")
          /\ UNCHANGED <<req, bounds>>
       \/ /\ Fault
          /\ Cleanup(p, "undoUUID", "return")
          /\ UNCHANGED store
    /\ UNCHANGED <<journal, history>>

\* createRBDClone: the clone.  Its failure is remembered.
Clone(p) ==
    /\ At(p, "clone")
    /\ LET ok == images[req[p].uuid] = NoID /\ nextID < MaxImages IN
         \/ /\ ok
            /\ NewClone(req[p].uuid)
            /\ req' = [req EXCEPT ![p].cloned = TRUE]
            /\ UNCHANGED bounds
         \/ /\ Fault \/ (~ ok /\ UNCHANGED bounds)
            /\ UNCHANGED <<req, store>>
    /\ Goto(p, "dropParentSnap")
    /\ UNCHANGED <<journal, history>>

\* createRBDClone: the snapshot on the source is dropped.  If that works the
\* error of the clone is forgotten; if not, the clone is deleted.
DropParentSnapshot(p) ==
    /\ At(p, "dropParentSnap")
    /\ \/ /\ ChangeParentSnaps(parentSnaps \ {<<req[p].source, req[p].uuid>>})
          /\ Goto(p, "copyKey")
          /\ UNCHANGED bounds
       \/ /\ Fault
          /\ Goto(p, "unclone")
          /\ UNCHANGED store
    /\ UNCHANGED <<journal, req, history>>

Abandon(u) == /\ abandoned' = abandoned \cup {u}
              /\ UNCHANGED <<servedFor, granted, used>>

\* createRBDClone: cloneRbdVol.Delete, whose error is logged.  What is returned
\* is the error of the clone, none if the clone was created.
Unclone(p) ==
    /\ At(p, "unclone")
    /\ \/ /\ images[req[p].uuid] # NoID
          /\ TrashImage(req[p].uuid, {})
          /\ Goto(p, "uncloneTrash")
          /\ req' = [req EXCEPT ![p].trashID = CurrentImageID(p)]
          /\ UNCHANGED bounds
       \/ /\ req[p].cloned
          /\ Fault
          /\ Goto(p, "copyKey")
          /\ UNCHANGED <<req, store>>
       \/ /\ ~ req[p].cloned
          /\ Cleanup(p, "undoUUID", "return")
          /\ UNCHANGED <<store, bounds>>
    /\ UNCHANGED <<journal, history>>

UncloneTrash(p) ==
    /\ At(p, "uncloneTrash")
    /\ \/ /\ TrashRemove(req[p].trashID)
          /\ UNCHANGED <<history, bounds>>
       \/ /\ Fault
          /\ Abandon(req[p].uuid)
          /\ UNCHANGED store
    /\ Goto(p, "copyKey")
    /\ UNCHANGED <<journal, req>>


\* Mutant: the clone gets no passphrase of its own.
CopyKeyShared(p) == /\ At(p, "copyKey")
                    /\ Goto(p, "cloneSnap")
                    /\ UNCHANGED <<journal, req, store, history, bounds>>

\* doSnapshotClone: copyEncryptionConfig stores the passphrase under the id of
\* the snapshot, then marks the clone.  From here on a failure cleans up.
CopyKey(p) ==
    /\ At(p, "copyKey")
    /\ LET u == req[p].uuid IN
         \/ /\ ~ scenario.encrypted \/ images[u] # NoID
            /\ StoreKey(u)
            /\ Goto(p, "cloneSnap")
            /\ req' = [req EXCEPT ![p].keyed = scenario.encrypted]
            /\ UNCHANGED bounds
         \/ /\ scenario.encrypted
            /\ Fault \/ (images[u] = NoID /\ UNCHANGED bounds)
            /\ StoreKey(u)
            /\ Goto(p, "dropCloneSnap")
            /\ req' = [req EXCEPT ![p].keyed = TRUE, ![p].then = "rollback"]
    /\ UNCHANGED <<journal, history>>

\* doSnapshotClone: the snapshot of the clone.
CloneSnapshot(p) ==
    /\ At(p, "cloneSnap")
    /\ LET u == req[p].uuid IN
         \/ /\ images[u] # NoID
            /\ ChangeCloneSnaps(cloneSnaps \cup {u})
            /\ Goto(p, "storeID")
            /\ UNCHANGED <<req, bounds>>
         \/ /\ Fault \/ (images[u] = NoID /\ UNCHANGED bounds)
            /\ Cleanup(p, "dropCloneSnap", "rollback")
            /\ UNCHANGED store
    /\ UNCHANGED <<journal, history>>

\* Mutant: a failure undoes the reservation only.
StoreIDNoCleanup(p) ==
    /\ At(p, "storeID")
    /\ \/ /\ CurrentImageID(p) # NoID
          /\ StoreImageID(req[p].uuid, CurrentImageID(p))
          /\ Goto(p, "setMeta")
          /\ UNCHANGED <<req, bounds>>
       \/ /\ Fault
          /\ Cleanup(p, "undoUUID", "return")
          /\ UNCHANGED journal
    /\ UNCHANGED <<store, history>>

\* doSnapshotClone: getImageID and StoreImageID.
StoreID(p) ==
    /\ At(p, "storeID")
    /\ \/ /\ CurrentImageID(p) # NoID
          /\ StoreImageID(req[p].uuid, CurrentImageID(p))
          /\ Goto(p, "setMeta")
          /\ UNCHANGED <<req, bounds>>
       \/ /\ Fault
          /\ Cleanup(p, "dropCloneSnap", "rollback")
          /\ UNCHANGED journal
    /\ UNCHANGED <<store, history>>

\* CreateSnapshot: the metadata of the clone, and the response.
SetMetadata(p) ==
    /\ At(p, "setMeta")
    /\ \/ /\ images[req[p].uuid] # NoID
          /\ Return(p)
          /\ Grant(req[p].name, req[p].uuid)
          /\ UNCHANGED bounds
       \/ /\ Fault
          /\ Goto(p, "sourceDelete")
          /\ UNCHANGED <<req, history>>
    /\ UNCHANGED <<journal, store>>

\* The rollback of the metadata: rbdVol is the source with the name of the
\* clone.  rbdVol.Delete therefore removes the passphrase of the source, moves
\* the clone to the trash by its name, and asks the trash for the id of the
\* source, which is not there.
SourceDelete(p) ==
    /\ At(p, "sourceDelete")
    /\ LET u == req[p].uuid IN
         IF images[u] # NoID
         THEN TrashImage(u, KeyOf(req[p].source))
         ELSE /\ keys' = keys \ KeyOf(req[p].source)
              /\ UNCHANGED <<parentSnaps, images, cloneSnaps, trash, nextID>>
    /\ Cleanup(p, "undoUUID", "return")
    /\ UNCHANGED <<journal, history, bounds>>

-----------------------------------------------------------------------------
(* cleanUpSnapshot and undoSnapReservation *)

\* With the source as parent, from undoSnapshotCloning.
UndoParentSnap(p) ==
    /\ At(p, "undoParentSnap")
    /\ ChangeParentSnaps(parentSnaps \ {<<req[p].source, req[p].uuid>>})
    /\ Goto(p, "trashClone")
    /\ UNCHANGED <<journal, req, history, bounds>>

\* With the clone as parent.
DropCloneSnap(p) ==
    /\ At(p, "dropCloneSnap")
    /\ ChangeCloneSnaps(cloneSnaps \ {req[p].uuid})
    /\ Goto(p, "trashClone")
    /\ UNCHANGED <<journal, req, history, bounds>>

RequestKeys(p) == IF req[p].keyed THEN {req[p].uuid} ELSE {}

\* Delete of the clone; that it is missing is not an error.
TrashClone(p) ==
    /\ At(p, "trashClone")
    /\ LET u == req[p].uuid IN
         IF images[u] # NoID
         THEN /\ TrashImage(u, RequestKeys(p))
              /\ Goto(p, "removeTrash")
              /\ req' = [req EXCEPT ![p].trashID = CurrentImageID(p)]
         ELSE /\ keys' = keys \ (IF req[p].imageID # NoID THEN RequestKeys(p) ELSE {})
              /\ UNCHANGED <<parentSnaps, images, cloneSnaps, trash, nextID, req>>
              /\ Goto(p, "undoUUID")
    /\ UNCHANGED <<journal, history, bounds>>

RemoveTrash(p) ==
    /\ At(p, "removeTrash")
    /\ TrashRemove(req[p].trashID)
    /\ Goto(p, "undoUUID")
    /\ UNCHANGED <<journal, req, history, bounds>>

\* A failing cleanup is returned, and the reservation stays; only the rollback
\* of doSnapshotClone logs it and removes the reservation.
CleanupFails(p) ==
    /\ pc[p] \in {"undoParentSnap", "dropCloneSnap", "trashClone", "removeTrash"}
    /\ Fault
    /\ IF req[p].then = "rollback"
       THEN Cleanup(p, "undoUUID", "return") /\ Abandon(req[p].uuid)
       ELSE Return(p) /\ UNCHANGED history
    /\ UNCHANGED <<journal, store>>

UndoUUID(p) == /\ At(p, "undoUUID")
               /\ RemoveUUIDObject(req[p].uuid)
               /\ Goto(p, "undoName")
               /\ UNCHANGED <<req, store, history, bounds>>

UndoName(p) ==
    /\ At(p, "undoName")
    /\ RemoveNameKey(req[p].name)
    /\ CASE req[p].then = "fresh" -> /\ Goto(p, "reserveUUID")
                                     /\ req' = [req EXCEPT ![p].uuid = NoUUID]
         [] OTHER -> Return(p)
    /\ UNCHANGED <<store, history, bounds>>

-----------------------------------------------------------------------------
(* DeleteSnapshot *)

DeleteSnapshot(p, u) ==
    /\ At(p, "idle")
    /\ servedFor[u] # NoName
    /\ u \notin snapshotLocks
    /\ snapshotLocks' = snapshotLocks \cup {u}
    /\ pc' = [pc EXCEPT ![p] = "delAttributes"]
    /\ req' = [req EXCEPT ![p] = [Idle EXCEPT !.op = "delete", !.uuid = u, !.held = {u},
                                              !.then = "return", !.keyed = scenario.encrypted]]
    /\ granted' = [n \in Names |-> IF granted[n] = u THEN NoUUID ELSE granted[n]]
    /\ UNCHANGED <<journal, store, servedFor, used, abandoned, bounds>>

\* genSnapFromSnapID: GetImageAttributes.
DelAttributes(p) ==
    /\ At(p, "delAttributes")
    /\ LET u == req[p].uuid IN
         IF SnapshotMissing(u)
         THEN Return(p)
         ELSE /\ Goto(p, "delStat")
              /\ req' = [req EXCEPT ![p].name = uuidDirectory[u].reqName,
                                    ![p].imageID = uuidDirectory[u].imageID]
    /\ UNCHANGED <<journal, store, history, bounds>>

\* genSnapFromSnapID: updateSnapshotDetails.
DelStat(p) ==
    /\ At(p, "delStat")
    /\ Goto(p, IF images[req[p].uuid] = NoID THEN "delTrash" ELSE "delLock")
    /\ UNCHANGED <<journal, req, store, history, bounds>>

\* cleanUpImageAndSnapReservation: it does not take the lock of the name.
DelTrash(p) ==
    /\ At(p, "delTrash")
    /\ IF req[p].imageID = NoID
       THEN Return(p) /\ UNCHANGED store
       ELSE TrashRemove(req[p].imageID) /\ Goto(p, "undoUUID") /\ UNCHANGED req
    /\ UNCHANGED <<journal, history, bounds>>

DelLock(p) ==
    /\ At(p, "delLock")
    /\ LET n == req[p].name IN
         IF n \in snapshotLocks
         THEN Return(p)
         ELSE /\ snapshotLocks' = snapshotLocks \cup {n}
              /\ req' = [req EXCEPT ![p].held = @ \cup {n}]
              /\ pc' = [pc EXCEPT ![p] = "dropCloneSnap"]
    /\ UNCHANGED <<journal, store, history, bounds>>

-----------------------------------------------------------------------------
Crash == /\ crashes < scenario.crashes
         /\ crashes' = crashes + 1
         /\ \E p \in Requests : pc[p] # "idle"
         /\ snapshotLocks' = {}
         /\ pc' = [p \in Requests |-> "idle"]
         /\ req' = [p \in Requests |-> Idle]
         /\ UNCHANGED <<journal, store, history, faults, scenario>>

Step(p) == \/ CheckName(p) \/ GetAttributes(p) \/ StatClone(p) \/ CheckSnap(p)
           \/ RepairID(p) \/ RollForward(p) \/ FlattenClone(p)
           \/ ReserveUUID(p) \/ ReserveNameKey(p) \/ ReserveAttributes(p)
           \/ ParentSnapshot(p) \/ Clone(p) \/ DropParentSnapshot(p)
           \/ Unclone(p) \/ UncloneTrash(p)
           \/ CopyKey(p) \/ CloneSnapshot(p) \/ StoreID(p) \/ SetMetadata(p) \/ SourceDelete(p)
           \/ UndoParentSnap(p) \/ DropCloneSnap(p) \/ TrashClone(p) \/ RemoveTrash(p)
           \/ UndoUUID(p) \/ UndoName(p)
           \/ DelAttributes(p) \/ DelStat(p) \/ DelTrash(p) \/ DelLock(p)
           \/ CallFails(p) \/ CleanupFails(p)

Next == \/ \E p \in Requests : \/ \E n \in scenario.names, s \in scenario.sources :
                                       CreateSnapshot(p, n, s)
                               \/ \E u \in UUIDs : DeleteSnapshot(p, u)
                               \/ Step(p)
        \/ Crash

Spec == Init /\ [][Next]_vars

\* The CO repeats a CreateSnapshot until it has the snapshot.
Retry(n) == \E p \in Requests, s \in scenario.sources :
    granted[n] = NoUUID /\ CreateSnapshot(p, n, s)

\* Requests run to their end, and the CO does not give up.
FairSpec == /\ Spec
            /\ \A p \in Requests : WF_vars(Step(p))
            /\ \A n \in Names : WF_vars(Retry(n))

-----------------------------------------------------------------------------
(* Properties *)

\* A snapshot in the hands of the CO is complete: the clone is there with its
\* own snapshot to restore from, its passphrase is in the KMS, and its name
\* leads to it.  (With overlapping requests it need not be: a repeated
\* CreateSnapshot whose flatten fails removes the snapshot it found.)
SnapshotUsable == ~ scenario.overlap => \A n \in Names : LET u == granted[n] IN
    u # NoUUID => /\ images[u] # NoID /\ u \in cloneSnaps
                  /\ Reserved(n, u)
                  /\ KeyOf(u) \subseteq keys

\* Every clone can be found from the journal, unless the driver gave up on it
\* in a failing rollback.
NoOrphanClone == ~ scenario.overlap => \A u \in UUIDs :
    images[u] # NoID /\ uuidDirectory[u] = NoObject => u \in abandoned

\* A clone that DeleteSnapshot moved to the trash is removed from there: by the
\* request that moved it, or by a later one that knows its id from the journal.
\* (A failure and a restart together can make the stored id stale.)
TrashReclaimable == faults <= 1 /\ crashes = 0 /\ ~ scenario.overlap => \A t \in trash :
    servedFor[t[1]] # NoName =>
        \/ uuidDirectory[t[1]] # NoObject /\ uuidDirectory[t[1]].imageID = t[2]
        \/ \E p \in Requests : pc[p] = "removeTrash" /\ req[p].trashID = t[2]

\* A snapshot that a restart left on a source is known to the journal, under
\* the source it is on, until the CO has its CSI snapshot: the next
\* CreateSnapshot of that name can still drop it.  (Once the CO has the CSI
\* snapshot nothing drops the one on the source.)
ParentSnapKnown == faults = 0 => \A t \in parentSnaps : servedFor[t[2]] = NoName =>
    uuidDirectory[t[2]] # NoObject /\ uuidDirectory[t[2]].source = t[1]

\* The journal knows all that CreateSnapshot and DeleteSnapshot left in the
\* cluster: clones, clones in the trash, and snapshots on the sources.
NothingForgotten == NoOrphanClone /\ TrashReclaimable /\ ParentSnapKnown

\* A name that was given for one source is never answered with a snapshot of
\* another one.
GrantOfSource == [][\A n \in Names, p \in Requests :
    granted'[n] # granted[n] /\ granted'[n] # NoUUID /\ pc'[p] # pc[p] =>
        uuidDirectory[granted'[n]].source = req[p].source]_vars

\* A CreateSnapshot that is repeated after a failing call and a restart ends
\* with a snapshot, unless UUIDs or ids run out.
RetriedCreateSucceeds == \A n \in Names :
    [](FreshUUIDs # {} /\ nextID < MaxImages) => <>(\E u \in UUIDs : servedFor[u] = n)

\* docs/design/proposals/encryption-with-azure-keyvault.md:55: "When the
\* corresponding volume is deleted, the stored secret [...] will be deleted",
\* and the sources here are never deleted.  Does not hold (README, Known disagreements).
SourceKeyKept == scenario.encrypted => Sources \subseteq keys
=============================================================================
