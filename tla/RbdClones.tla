----------------------------- MODULE RbdClones -----------------------------
(***************************************************************************)
(* RBD volumes with a content source: internal/rbd/clone.go, and the parts *)
(* of controllerserver.go, rbd_journal.go and rbd_util.go that clone,      *)
(* flatten, resize and delete such images.                                 *)
(*                                                                         *)
(* The clone of a volume has a temporary image of its own below it:        *)
(*                                                                         *)
(*    source@temp <- temp@vol <- vol       (the snapshot source@temp is    *)
(*                                          deleted when temp is there)    *)
(*                                                                         *)
(* A volume that is restored is a clone of the image of the snapshot.  An  *)
(* image is <<UUID, kind>>.  A snapshot that is deleted while it has       *)
(* children stays, without its name, until the last of them is flattened   *)
(* or removed (clone format 2).  The writes of a reservation are those of  *)
(* RbdVolumes and are one step here, CreateSnapshot is that of             *)
(* RbdSnapshots.  A call that is refused before it changes anything is no  *)
(* step.  The Ceph manager accepts the tasks to flatten and to remove.     *)
(***************************************************************************)
EXTENDS Integers, FiniteSets

CONSTANTS CloneNames,   \* request names
          Root,         \* a volume that exists from the start
          MaxIDs,       \* bound: UUIDs, the first is Root's
          CloneScenarios

VARIABLES scenario, faults, crashes,
          rbdImages,    \* image |-> [parent, data, size, full, trashed]
          rbdSnaps,     \* {[on, name, data, size, live]}
          flattening,   \* images with a task to flatten them
          purging,      \* images in the trash with a task to remove them
          reserved,     \* name |-> its reservation: UUID, and whether the image id is stored
          deks,         \* UUIDs of the volumes with a passphrase in the KMS
          nextID, pc, req,
          life,         \* name |-> what the CO knows: "new", "asked", "given", "deleting", "gone"
          granted,      \* name |-> the UUID of the volume that the CO was given
          since,        \* name |-> what its source had when the CO asked first
          abandoned     \* <<UUID, what>>: where an error is only logged, or is lost

requests == <<pc, req>>
cluster == <<rbdImages, rbdSnaps, flattening, purging>>
co == <<life, granted, since>>
kvars == <<scenario, faults, crashes, cluster, reserved, deks, nextID, requests, co, abandoned>>

IDs == 1..MaxIDs
NoID == 0
Kinds == {"vol", "temp", "snap"}
NoParent == <<>>
Vol(u) == <<u, "vol">>
Temp(u) == <<u, "temp">>
None == [u |-> NoID, id |-> FALSE]
Idle == [u |-> NoID, found |-> FALSE, fits |-> TRUE, clone |-> FALSE, then |-> ""]

Kind(n) == scenario.kind[n]
UUIDOf(s) == IF s = Root THEN 1 ELSE granted[s]
\* The image that n is made from.
Source(n) == <<UUIDOf(scenario.source[n]), IF Kind(n) = "restore" THEN "snap" ELSE "vol">>
\* The image of n itself.
Image(n) == <<req[n].u, IF Kind(n) = "snap" THEN "snap" ELSE "vol">>
Size(n) == IF n \in scenario.big THEN 2 ELSE 1

Exists(i) == i \in DOMAIN rbdImages
InPool(i) == Exists(i) /\ ~rbdImages[i].trashed
Live(on, name) == \E s \in rbdSnaps : s.on = on /\ s.name = name /\ s.live
Children(p) == {i \in DOMAIN rbdImages : rbdImages[i].parent = p}

ClonesTypeOK ==
    /\ \A i \in DOMAIN rbdImages :
         /\ i \in IDs \X Kinds
         /\ rbdImages[i].parent # NoParent =>
                \E s \in rbdSnaps : <<s.on, s.name>> = rbdImages[i].parent
    /\ \A s \in rbdSnaps : Exists(s.on) /\ (s.live \/ Children(<<s.on, s.name>>) # {})
    /\ \A i \in flattening : InPool(i)
    /\ \A i \in purging : Exists(i) /\ rbdImages[i].trashed
    /\ \A n \in CloneNames : reserved[n].u \in IDs \cup {NoID} /\ granted[n] \in IDs \cup {NoID}
    /\ deks \subseteq IDs
    /\ \A n \in CloneNames : pc[n] = "idle" => req[n] = Idle

RootImage == [parent |-> NoParent, data |-> 0, size |-> 1, full |-> 1, trashed |-> FALSE]

ClonesInit ==
    /\ scenario \in CloneScenarios
    /\ faults = scenario.faults /\ crashes = scenario.crashes
    /\ rbdImages = [i \in {Vol(1)} |-> RootImage]
    /\ rbdSnaps = {} /\ flattening = {} /\ purging = {}
    /\ reserved = [n \in CloneNames |-> None]
    /\ deks = IF scenario.encrypted THEN {1} ELSE {}
    /\ nextID = 2
    /\ pc = [n \in CloneNames |-> "idle"] /\ req = [n \in CloneNames |-> Idle]
    /\ life = [n \in CloneNames |-> "new"]
    /\ granted = [n \in CloneNames |-> NoID] /\ since = [n \in CloneNames |-> 0]
    /\ abandoned = {}

-----------------------------------------------------------------------------
(* Steps of a handler; what RBD does *)

Goto(n, label, r) == pc' = [pc EXCEPT ![n] = label] /\ req' = [req EXCEPT ![n] = r]
Turn(n, label) == Goto(n, label, req[n])
Return(n) == Goto(n, "idle", Idle)
NoFault == UNCHANGED faults
Fault == faults > 0 /\ faults' = faults - 1
others == <<scenario, crashes>>
Abandon(u) == abandoned' = abandoned \cup {<<u, "all">>}

\* createSnapshot
CreateSnap(on, name) ==
    rbdSnaps' = rbdSnaps \cup {[on |-> on, name |-> name, data |-> rbdImages[on].data,
                                size |-> rbdImages[on].size, live |-> TRUE]}

\* deleteSnapshot
DeleteSnap(on, name) ==
    LET s == CHOOSE t \in rbdSnaps : t.on = on /\ t.name = name /\ t.live
    IN  rbdSnaps' = (rbdSnaps \ {s}) \cup
                    (IF Children(<<on, name>>) = {} THEN {} ELSE {[s EXCEPT !.live = FALSE]})

\* cloneRbdImageFromSnapshot
CloneOf(on, name) ==
    LET s == CHOOSE t \in rbdSnaps : t.on = on /\ t.name = name /\ t.live
    IN  [parent |-> <<on, name>>, data |-> s.data, size |-> s.size, full |-> s.size,
         trashed |-> FALSE]
AddImage(i, image) == rbdImages' = [j \in DOMAIN rbdImages \cup {i} |->
                                    IF j = i THEN image ELSE rbdImages[j]]

\* The snapshots that are left when i is no longer a child.
Unlinked(i) == {s \in rbdSnaps : s.live \/ Children(<<s.on, s.name>>) # {i}}

\* Trash
TrashImage(i) == /\ rbdImages' = [rbdImages EXCEPT ![i].trashed = TRUE]
                 /\ flattening' = flattening \ {i}

\* getCloneDepth follows the parents, also in the trash.
GetCloneDepth(image) ==
    LET depth[i \in IDs \X Kinds] ==
            IF rbdImages[i].parent = NoParent THEN 0 ELSE 1 + depth[rbdImages[i].parent[1]]
    IN  depth[image]
-----------------------------------------------------------------------------
(* CreateVolume until the reservation *)

\* checkContentSource: the source has to be there.
SourceReady(n) == scenario.source[n] # Root => life[scenario.source[n]] = "given"

\* checkCloneImage: the step that goes on with a clone whose image is missing.  A clone
\* that stopped between the snapshot of the temporary image and its own image is refused:
\* the snapshot is to be cloned without the name of its image.  Without a temporary image
\* the snapshot of the source is looked for by the name of the volume, which it never has:
\* it is not found, and not deleted.
CheckCloneImage(n) ==
    LET u == reserved[n].u IN
    IF InPool(Temp(u)) THEN IF Live(Temp(u), Vol(u)) THEN "refused" ELSE "snap2"
    ELSE "unreserve"

\* Exists: where a request goes on, from what the journal and the image say.
ExistsNext(n) ==
    CASE reserved[n] = None          -> IF Kind(n) = "snap" THEN "limit" ELSE "flatten"
      [] InPool(Vol(reserved[n].u))  -> "repair"
      [] OTHER -> IF Kind(n) = "clone" THEN CheckCloneImage(n) ELSE "unreserve"

\* isCompabitableClone, of the size of the source that checkContentSource has read.
IsCompatibleClone(n) == Kind(n) = "snap" \/ rbdImages[Source(n)].size <= Size(n)

\* The snapshot of the source, if it is still there, is not looked at again.
Forgotten(n) == LET u == reserved[n].u IN
    IF Kind(n) = "clone" /\ Live(Source(n), Temp(u)) THEN abandoned \cup {<<u, "source">>} ELSE abandoned

\* CreateVolume, or CreateSnapshot for a snapshot.  A clone that goes on from its temporary
\* image forgets the snapshot of the source.
CreateVolume(n) ==
    /\ pc[n] = "idle" /\ life[n] \in {"new", "asked"} /\ SourceReady(n)
    /\ ExistsNext(n) # "refused"
    /\ Goto(n, ExistsNext(n),
            [Idle EXCEPT !.u = reserved[n].u, !.found = reserved[n] # None,
                         !.fits = IsCompatibleClone(n)])
    /\ life' = [life EXCEPT ![n] = "asked"]
    /\ since' = IF life[n] = "new" THEN [since EXCEPT ![n] = rbdImages[Source(n)].data] ELSE since
    /\ abandoned' = IF ExistsNext(n) = "snap2" THEN Forgotten(n) ELSE abandoned
    /\ NoFault /\ UNCHANGED <<cluster, reserved, deks, nextID, granted, others>>

\* Exists undoes a reservation without an image.  Its UUID is kept for the new one; the
\* snapshot of the source that the stopped attempt left is of no reservation any more.
UndoReservation(n) ==
    /\ pc[n] = "unreserve"
    /\ \/ /\ reserved' = [reserved EXCEPT ![n] = None] /\ NoFault
          /\ abandoned' = Forgotten(n)
          /\ Goto(n, "flatten", [req[n] EXCEPT !.found = FALSE])
       \/ Fault /\ Return(n) /\ UNCHANGED <<reserved, abandoned>>
    /\ UNCHANGED <<cluster, deks, nextID, co, others>>

\* checkValidCreateVolumeRequest: a volume that is smaller than its source is refused.
CheckValidCreateVolumeRequest(n) ==
    /\ pc[n] = "flatten" /\ ~req[n].fits /\ Return(n)
    /\ NoFault /\ UNCHANGED <<cluster, reserved, deks, nextID, co, abandoned, others>>

\* A limit is reduced by what a request may add to the depth, if it is larger.
Limit(max, avoid) == IF max > avoid THEN max - avoid ELSE max

\* The image that is flattened to make room: the parent of the source, if it is not in
\* the trash, or the image of a snapshot itself.
ToFlatten(n) ==
    LET p == rbdImages[Source(n)].parent IN
    CASE Kind(n) = "restore" -> {Source(n)}
      [] OTHER               -> IF p = NoParent THEN {} ELSE {i \in {p[1]} : InPool(i)}
\* Mutant: a clone adds its image alone to the chain.
DepthToAvoidFlattenOne(n) == 1
DepthToAvoidFlatten(n) == IF Kind(n) = "restore" THEN 1 ELSE 3

\* flattenRbdImage: an image without a parent is not flattened.
Exceeds(i, max, avoid) == rbdImages[i].parent # NoParent /\ GetCloneDepth(i) >= Limit(max, avoid)

\* flattenParentImage, before flattenTemporaryClonedImages for a clone and after it, in
\* PrepareVolumeForSnapshot, for a snapshot.
FlattenParentImage(n) ==
    LET hard == {i \in ToFlatten(n) : Exceeds(i, scenario.hard, DepthToAvoidFlatten(n))}
        soft == {i \in ToFlatten(n) : Exceeds(i, scenario.soft, DepthToAvoidFlatten(n))}
    IN  /\ pc[n] = "flatten"
        /\ req[n].fits
        /\ flattening' = flattening \cup hard \cup soft
        /\ IF hard # {} THEN Return(n)
           ELSE Turn(n, IF Kind(n) = "clone" THEN "limit" ELSE "reserve")
        /\ NoFault /\ UNCHANGED <<rbdImages, rbdSnaps, purging, reserved, deks, nextID, co, abandoned, others>>

\* The children that listSnapAndChildren returns.
ListedChildren(i) == {c \in DOMAIN rbdImages : InPool(c) /\ rbdImages[c].parent # NoParent
                                              /\ rbdImages[c].parent[1] = i}
SnapCount(i) == Cardinality({s \in rbdSnaps : s.on = i})

\* flattenTemporaryClonedImages: more than the soft limit, and the children that are too
\* many are flattened, temporary images first; more than the hard limit, and all of them
\* are, and the request is refused.
FlattenTemporaryClonedImages(n) ==
    LET count == SnapCount(Source(n))
        children == ListedChildren(Source(n))
        temps == {c \in children : c[2] = "temp"}
        next == IF Kind(n) = "clone" THEN "reserve" ELSE "flatten"
        extra == IF count - scenario.minSnaps < Cardinality(children)
                 THEN count - scenario.minSnaps ELSE Cardinality(children)
    IN  /\ pc[n] = "limit"
        /\ \/ /\ count > scenario.maxSnaps
              /\ flattening' = flattening \cup children /\ Return(n)
           \/ /\ count <= scenario.maxSnaps /\ count > scenario.minSnaps
              /\ \E some \in SUBSET children :
                   /\ Cardinality(some) = extra
                   /\ some \subseteq temps \/ temps \subseteq some
                   /\ flattening' = flattening \cup some
              /\ Turn(n, next)
           \/ count <= scenario.minSnaps /\ Turn(n, next) /\ UNCHANGED flattening
        /\ NoFault /\ UNCHANGED <<rbdImages, rbdSnaps, purging, reserved, deks, nextID, co, abandoned, others>>

\* reserveVol: a new UUID, or the one that Exists has kept; then the lock of the source.
\* Bound: an image has left the trash before there is another one of its name.
ReserveVol(n) ==
    LET u == IF req[n].u = NoID THEN nextID ELSE req[n].u IN
    /\ pc[n] = "reserve" /\ u \in IDs /\ \A i \in DOMAIN rbdImages : i[1] # u
    /\ \/ /\ reserved' = [reserved EXCEPT ![n] = [u |-> u, id |-> FALSE]]
          /\ nextID' = IF u = nextID THEN nextID + 1 ELSE nextID
          /\ Goto(n, CASE Kind(n) = "clone" -> "snap1" [] Kind(n) = "restore" -> "clone2"
                       [] OTHER -> "take", [req[n] EXCEPT !.u = u])
          /\ NoFault
       \/ Fault /\ Return(n) /\ UNCHANGED <<reserved, nextID>>
    /\ UNCHANGED <<cluster, deks, co, abandoned, others>>

\* CreateSnapshot: the image of the snapshot, with a snapshot of the same name.
TakeSnapshot(n) ==
    LET u == req[n].u
        i == <<u, "snap">>
        src == rbdImages[Source(n)]
        snap == [on |-> Source(n), name |-> i, data |-> src.data, size |-> src.size, live |-> FALSE]
    IN  /\ pc[n] = "take"
        /\ AddImage(i, [parent |-> <<Source(n), i>>, data |-> src.data, size |-> src.size,
                        full |-> src.size, trashed |-> FALSE])
        /\ rbdSnaps' = rbdSnaps \cup {snap, [snap EXCEPT !.on = i, !.live = TRUE]}
        /\ deks' = IF scenario.encrypted THEN deks \cup {u} ELSE deks
        /\ reserved' = [reserved EXCEPT ![n].id = TRUE]
        /\ life' = [life EXCEPT ![n] = "given"] /\ granted' = [granted EXCEPT ![n] = u]
        /\ Return(n)
        /\ NoFault /\ UNCHANGED <<flattening, purging, nextID, since, abandoned, others>>
-----------------------------------------------------------------------------
(* createBackingImage: doSnapClone *)

\* Where an error of doSnapClone leads to: the snapshot of the temporary image and the
\* image are removed, then the snapshot of the source and the temporary image.
RollBack(n) == Goto(n, "rollsnap", [req[n] EXCEPT !.then = "rollsource"])

\* Mutant: the temporary image is left to itself.
DeleteImageOnly(clone) == "trash"
\* Delete: the temporary image first, if the image is known to be a clone of it.
DeleteLabel(clone) == IF clone THEN "deltempsnap" ELSE "trash"
\* Where an error of the steps after the clone leads to.
Remove(n) == Goto(n, DeleteLabel(req[n].clone), [req[n] EXCEPT !.then = "undo"])

\* createRBDClone, from the source: the snapshot, which fails when there is one of that
\* name, ...
SnapSource(n) ==
    LET exists == Live(Source(n), Temp(req[n].u)) IN
    /\ pc[n] = "snap1"
    /\ \/ ~exists /\ CreateSnap(Source(n), Temp(req[n].u)) /\ Turn(n, "clone1") /\ NoFault
       \/ exists /\ Turn(n, "undo") /\ NoFault /\ UNCHANGED rbdSnaps
       \/ ~exists /\ Fault /\ Turn(n, "undo") /\ UNCHANGED rbdSnaps
    /\ UNCHANGED <<rbdImages, flattening, purging, reserved, deks, nextID, co, abandoned, others>>

\* ... the temporary image, ...
CloneTemp(n) ==
    LET u == req[n].u IN
    /\ pc[n] = "clone1"
    /\ \/ AddImage(Temp(u), CloneOf(Source(n), Temp(u))) /\ NoFault
       \/ Fault /\ UNCHANGED rbdImages
    /\ Turn(n, "unsnap1")
    /\ UNCHANGED <<rbdSnaps, flattening, purging, reserved, deks, nextID, co, abandoned, others>>

\* ... and the snapshot is deleted; the error of the clone is lost when that succeeds.
\* When it fails the temporary image is deleted, and the error that is returned is that of
\* the clone, if there was one.
UnsnapSource(n) ==
    LET u == req[n].u IN
    /\ pc[n] = "unsnap1"
    /\ \/ /\ DeleteSnap(Source(n), Temp(u)) /\ Turn(n, "unset") /\ NoFault
          /\ UNCHANGED <<rbdImages, flattening, purging, abandoned>>
       \/ /\ InPool(Temp(u)) /\ TrashImage(Temp(u)) /\ purging' = purging \cup {Temp(u)}
          /\ Turn(n, "unset") /\ Fault /\ UNCHANGED <<rbdSnaps, abandoned>>
       \/ /\ ~InPool(Temp(u)) /\ Turn(n, "undo") /\ Abandon(u)
          /\ Fault /\ UNCHANGED cluster
    /\ UNCHANGED <<reserved, deks, nextID, co, others>>

\* unsetAllMetadata needs the temporary image, or the restored one.
UnsetAllMetadata(n) ==
    /\ pc[n] = "unset"
    /\ IF Kind(n) = "clone"
       THEN \/ InPool(Temp(req[n].u)) /\ Turn(n, "snap2") /\ NoFault
            \/ ~InPool(Temp(req[n].u)) /\ RollBack(n) /\ NoFault
            \/ InPool(Temp(req[n].u)) /\ RollBack(n) /\ Fault
       ELSE \/ Turn(n, "key") /\ NoFault
            \/ Remove(n) /\ Fault
    /\ UNCHANGED <<cluster, reserved, deks, nextID, co, abandoned, others>>

\* createRBDClone, from the temporary image.  An error is errClone: the temporary image
\* stays for a later attempt, but the reservation is undone.
SnapTemp(n) ==
    LET u == req[n].u IN
    /\ pc[n] = "snap2"
    /\ \/ CreateSnap(Temp(u), Vol(u)) /\ Turn(n, "clone2") /\ NoFault /\ UNCHANGED abandoned
       \/ /\ Fault /\ UNCHANGED rbdSnaps
          /\ IF req[n].found THEN Return(n) /\ UNCHANGED abandoned
             ELSE Turn(n, "undo") /\ Abandon(u)
    /\ UNCHANGED <<rbdImages, flattening, purging, reserved, deks, nextID, co, others>>

\* The image, from the snapshot of the temporary image or from the image of the snapshot;
\* createRBDClone keeps the error of its clone for itself.
CloneImage(n) ==
    LET u == req[n].u
        parent == IF Kind(n) = "clone" THEN <<Temp(u), Vol(u)>> ELSE <<Source(n), Source(n)>>
    IN  /\ pc[n] = "clone2"
        /\ \/ /\ AddImage(Vol(u), CloneOf(parent[1], parent[2])) /\ NoFault /\ UNCHANGED abandoned
              /\ Goto(n, IF req[n].found THEN "repair" ELSE IF Kind(n) = "clone" THEN "key1" ELSE "unset",
                      [req[n] EXCEPT !.clone = Kind(n) = "clone"])
           \/ /\ Fault /\ UNCHANGED rbdImages
              /\ Turn(n, CASE req[n].found -> "repair" [] Kind(n) = "clone" -> "key1" [] OTHER -> "undo")
              /\ abandoned' = IF Kind(n) = "clone" /\ ~req[n].found THEN abandoned \cup {<<u, "all">>} ELSE abandoned
        /\ UNCHANGED <<rbdSnaps, flattening, purging, reserved, deks, nextID, co, others>>

\* doSnapClone copies the passphrase, for the first time.  The status that is set after
\* it needs the image.
CopyFirst(n) ==
    LET u == req[n].u IN
    /\ pc[n] = "key1"
    /\ \/ ~scenario.encrypted /\ Turn(n, "key") /\ NoFault /\ UNCHANGED deks
       \/ /\ scenario.encrypted /\ deks' = deks \cup {u} /\ NoFault
          /\ IF InPool(Vol(u)) THEN Turn(n, "key") ELSE RollBack(n)
       \/ scenario.encrypted /\ Fault /\ RollBack(n) /\ UNCHANGED deks
    /\ UNCHANGED <<cluster, reserved, nextID, co, abandoned, others>>
-----------------------------------------------------------------------------
(* The steps after the clone *)

\* What follows, in createCloneFromImage, in createVolumeFromSnapshot and
\* createBackingImage, and in Exists and repairExistingVolume.
After(n) ==
    CASE pc[n] = "repair" -> "key"
      [] pc[n] = "key"    -> IF Kind(n) = "clone" /\ ~req[n].found THEN "store" ELSE "expand"
      [] pc[n] = "store"  -> IF Kind(n) = "clone" THEN "expand" ELSE "metadata"
      [] pc[n] = "expand" -> IF Kind(n) = "clone" \/ req[n].found THEN "metadata" ELSE "store"

\* An error is returned, for a volume that was found, or the new image is removed.
StepFails(n) == IF req[n].found THEN Return(n) ELSE Remove(n)

\* repairImageID; then the size is compared: an image that was not expanded is taken for
\* that of another request.
RepairImageID(n) ==
    LET i == Vol(req[n].u) IN
    /\ pc[n] = "repair"
    /\ \/ /\ InPool(i) /\ NoFault
          /\ reserved' = [reserved EXCEPT ![n].id = TRUE]
          /\ IF rbdImages[i].size < Size(n) THEN Return(n)
             ELSE Turn(n, After(n))
       \/ ~InPool(i) /\ Return(n) /\ NoFault /\ UNCHANGED reserved
       \/ Fault /\ Return(n) /\ UNCHANGED reserved
    /\ UNCHANGED <<cluster, deks, nextID, co, abandoned, others>>

\* Mutant: the passphrase is copied by the first attempt only.
CopiesKeyOnce(n) == scenario.encrypted /\ ~req[n].found
\* repairEncryptionConfig copies the passphrase of a snapshot only to a volume that has no
\* encryption configured, which a request for an encrypted one never is.
CopiesKey(n) == scenario.encrypted /\ ~(req[n].found /\ Kind(n) = "restore")

\* copyEncryptionConfig.  createCloneFromImage asks for the id of its image before.
CopyEncryptionConfig(n) ==
    LET u == req[n].u IN
    /\ pc[n] = "key"
    /\ \/ /\ InPool(Vol(u)) /\ Turn(n, After(n)) /\ NoFault
          /\ deks' = IF CopiesKey(n) THEN deks \cup {u} ELSE deks
       \/ ~InPool(Vol(u)) /\ Remove(n) /\ NoFault /\ UNCHANGED deks
       \/ InPool(Vol(u)) /\ CopiesKey(n) /\ Fault /\ StepFails(n) /\ UNCHANGED deks
    /\ UNCHANGED <<cluster, reserved, nextID, co, abandoned, others>>

\* StoreImageID
StoreImageID(n) ==
    /\ pc[n] = "store"
    /\ \/ /\ reserved' = [reserved EXCEPT ![n].id = TRUE]
          /\ Turn(n, After(n)) /\ NoFault
       \/ Fault /\ Remove(n) /\ UNCHANGED reserved
    /\ UNCHANGED <<cluster, deks, nextID, co, abandoned, others>>

\* expand: the image gets the size of the request, whatever it was.
Expand(n) ==
    LET i == Vol(req[n].u) IN
    /\ pc[n] = "expand"
    /\ \/ /\ rbdImages' = [rbdImages EXCEPT ![i].size = Size(n)]
          /\ Turn(n, After(n)) /\ NoFault
       \/ rbdImages[i].size # Size(n) /\ Fault /\ StepFails(n) /\ UNCHANGED rbdImages
    /\ UNCHANGED <<rbdSnaps, flattening, purging, reserved, deks, nextID, co, abandoned, others>>

\* setAllMetadata, and the answer, which may be lost.
SetAllMetadata(n) ==
    /\ pc[n] = "metadata"
    /\ \/ /\ life' = [life EXCEPT ![n] = "given"] /\ granted' = [granted EXCEPT ![n] = req[n].u]
          /\ Return(n) /\ NoFault
       \/ Fault /\ Return(n) /\ UNCHANGED <<life, granted>>
       \/ Fault /\ StepFails(n) /\ UNCHANGED <<life, granted>>
    /\ UNCHANGED <<cluster, reserved, deks, nextID, since, abandoned, others>>

-----------------------------------------------------------------------------
(* Delete, in DeleteVolume and as a rollback *)

\* DeleteVolume returns the error, a rollback writes it to the log.
DeleteFails(n) ==
    IF life[n] = "deleting" THEN Return(n) /\ UNCHANGED abandoned
    ELSE Turn(n, req[n].then) /\ Abandon(req[n].u)

\* cleanUpSnapshot of doSnapClone
RollSnapshot(n) ==
    LET u == req[n].u IN
    /\ pc[n] = "rollsnap"
    /\ \/ /\ Live(Temp(u), Vol(u)) /\ DeleteSnap(Temp(u), Vol(u))
          /\ Turn(n, DeleteLabel(req[n].clone)) /\ NoFault /\ UNCHANGED abandoned
       \/ /\ ~Live(Temp(u), Vol(u)) /\ Turn(n, DeleteLabel(req[n].clone))
          /\ NoFault /\ UNCHANGED <<rbdSnaps, abandoned>>
       \/ /\ Live(Temp(u), Vol(u)) /\ Fault /\ Turn(n, req[n].then) /\ Abandon(u)
          /\ UNCHANGED rbdSnaps
    /\ UNCHANGED <<rbdImages, flattening, purging, reserved, deks, nextID, co, others>>

\* deleteTempImage: the snapshot that the image is a clone of, ...
DeleteTempSnapshot(n) ==
    LET u == req[n].u IN
    /\ pc[n] = "deltempsnap"
    /\ \/ /\ Live(Temp(u), Vol(u)) /\ DeleteSnap(Temp(u), Vol(u))
          /\ Turn(n, "trashtemp") /\ NoFault /\ UNCHANGED abandoned
       \/ /\ ~Live(Temp(u), Vol(u)) /\ Turn(n, "trashtemp")
          /\ NoFault /\ UNCHANGED <<rbdSnaps, abandoned>>
       \/ Live(Temp(u), Vol(u)) /\ Fault /\ DeleteFails(n) /\ UNCHANGED rbdSnaps
    /\ UNCHANGED <<rbdImages, flattening, purging, reserved, deks, nextID, co, others>>
\* ... then the temporary image; one that is in the trash is removed there.  A rollback
\* comes here for the temporary image alone.
AfterTemp(n) == IF req[n].clone THEN "trash" ELSE req[n].then
TrashTemp(n) ==
    LET t == Temp(req[n].u) IN
    /\ pc[n] = "trashtemp"
    /\ \/ /\ InPool(t) /\ TrashImage(t) /\ Turn(n, "purgetemp") /\ NoFault /\ UNCHANGED abandoned
       \/ /\ ~InPool(t) /\ Turn(n, IF Exists(t) THEN "purgetemp" ELSE AfterTemp(n))
          /\ NoFault /\ UNCHANGED <<rbdImages, flattening, abandoned>>
       \/ InPool(t) /\ Fault /\ DeleteFails(n) /\ UNCHANGED <<rbdImages, flattening>>
    /\ UNCHANGED <<rbdSnaps, purging, reserved, deks, nextID, co, others>>

\* trashRemoveImage adds a task; an image that is gone is not an error.
PurgeTemp(n) ==
    LET t == Temp(req[n].u) IN
    /\ pc[n] = "purgetemp"
    /\ \/ /\ purging' = IF Exists(t) THEN purging \cup {t} ELSE purging
          /\ Turn(n, AfterTemp(n)) /\ NoFault /\ UNCHANGED abandoned
       \/ Fault /\ DeleteFails(n) /\ UNCHANGED purging
    /\ UNCHANGED <<rbdImages, rbdSnaps, flattening, reserved, deks, nextID, co, others>>

\* The passphrase is removed, and the image moved to the trash.  Without an image there is
\* nothing to do.
Trash(n) ==
    LET i == Image(n) IN
    /\ pc[n] = "trash"
    /\ deks' = IF InPool(i) THEN deks \ {req[n].u} ELSE deks
    /\ \/ /\ InPool(i) /\ TrashImage(i) /\ Turn(n, "purge") /\ NoFault /\ UNCHANGED abandoned
       \/ /\ ~InPool(i) /\ Turn(n, req[n].then)
          /\ NoFault /\ UNCHANGED <<rbdImages, flattening, abandoned>>
       \/ InPool(i) /\ Fault /\ DeleteFails(n) /\ UNCHANGED <<rbdImages, flattening>>
    /\ UNCHANGED <<rbdSnaps, purging, reserved, nextID, co, others>>

Purge(n) ==
    /\ pc[n] = "purge"
    /\ \/ /\ purging' = IF Exists(Image(n)) THEN purging \cup {Image(n)} ELSE purging
          /\ Turn(n, req[n].then) /\ NoFault /\ UNCHANGED abandoned
       \/ Fault /\ DeleteFails(n) /\ UNCHANGED purging
    /\ UNCHANGED <<rbdImages, rbdSnaps, flattening, reserved, deks, nextID, co, others>>

\* The second cleanUpSnapshot of doSnapClone: the snapshot of the source, then the
\* temporary image.
RollSource(n) ==
    LET u == req[n].u
        r == [req[n] EXCEPT !.clone = FALSE, !.then = "undo"]
    IN  /\ pc[n] = "rollsource"
        /\ \/ /\ Live(Source(n), Temp(u)) /\ DeleteSnap(Source(n), Temp(u))
              /\ Goto(n, "trashtemp", r) /\ NoFault /\ UNCHANGED abandoned
           \/ /\ ~Live(Source(n), Temp(u)) /\ Goto(n, "trashtemp", r)
              /\ NoFault /\ UNCHANGED <<rbdSnaps, abandoned>>
           \/ /\ Live(Source(n), Temp(u)) /\ Fault /\ Goto(n, "undo", r)
              /\ Abandon(u) /\ UNCHANGED rbdSnaps
        /\ UNCHANGED <<rbdImages, flattening, purging, reserved, deks, nextID, co, others>>

\* undoVolReservation, the end of a rollback and of DeleteVolume, whose answer may be lost.
UndoVolReservation(n) ==
    /\ pc[n] = "undo"
    /\ \/ /\ reserved' = [reserved EXCEPT ![n] = None] /\ NoFault
          /\ life' = IF life[n] = "deleting" THEN [life EXCEPT ![n] = "gone"] ELSE life
       \/ Fault /\ reserved' = [reserved EXCEPT ![n] = None] /\ UNCHANGED life
       \/ Fault /\ UNCHANGED <<reserved, life>>
    /\ Return(n)
    /\ UNCHANGED <<cluster, deks, nextID, granted, since, abandoned, others>>

\* The CO does not delete the source of a volume that it waits for.
NoClonePending(n) == \A m \in CloneNames : scenario.source[m] = n => life[m] # "asked"

ToDelete(n) == pc[n] = "idle" /\ life[n] \in {"given", "deleting"} /\ NoClonePending(n)

\* DeleteVolume: an image that is gone is looked for in the trash; a reservation that is
\* gone has been deleted before.
DeleteVolume(n) ==
    LET u == granted[n] IN
    /\ Kind(n) # "snap" /\ ToDelete(n)
    /\ LET r == [Idle EXCEPT !.u = u, !.then = "undo",
                             !.clone = InPool(Vol(u)) /\ rbdImages[Vol(u)].parent = <<Temp(u), Vol(u)>>]
       IN  IF reserved[n] = None
           THEN life' = [life EXCEPT ![n] = "gone"] /\ UNCHANGED requests
           ELSE /\ life' = [life EXCEPT ![n] = "deleting"]
                /\ Goto(n, IF InPool(Vol(u)) THEN DeleteLabel(r.clone)
                           ELSE IF Exists(Vol(u)) THEN "purge" ELSE "undo", r)
    /\ NoFault /\ UNCHANGED <<cluster, reserved, deks, nextID, granted, since, abandoned, others>>

\* DeleteSnapshot, the same for the image of a snapshot: its own snapshot goes first.
DeleteSnapshot(n) ==
    LET i == <<granted[n], "snap">> IN
    /\ Kind(n) = "snap" /\ ToDelete(n)
    /\ IF reserved[n] = None
       THEN life' = [life EXCEPT ![n] = "gone"] /\ UNCHANGED requests
       ELSE /\ life' = [life EXCEPT ![n] = "deleting"]
            /\ Goto(n, IF InPool(i) THEN "ownsnap" ELSE "purge",
                    [Idle EXCEPT !.u = granted[n], !.then = "undo"])
    /\ NoFault /\ UNCHANGED <<cluster, reserved, deks, nextID, granted, since, abandoned, others>>

\* cleanUpSnapshot of Delete
DeleteOwnSnapshot(n) ==
    LET i == Image(n) IN
    /\ pc[n] = "ownsnap"
    /\ \/ Live(i, i) /\ DeleteSnap(i, i) /\ Turn(n, "trash") /\ NoFault
       \/ ~Live(i, i) /\ Turn(n, "trash") /\ NoFault /\ UNCHANGED rbdSnaps
       \/ Live(i, i) /\ Fault /\ Return(n) /\ UNCHANGED rbdSnaps
    /\ UNCHANGED <<rbdImages, flattening, purging, reserved, deks, nextID, co, abandoned, others>>

-----------------------------------------------------------------------------
(* The rest of the world *)

\* The handlers between GetCloneLock and its release.
HoldsCloneLock(n) == /\ Kind(n) = "clone" /\ ~req[n].found
                     /\ pc[n] \notin {"idle", "flatten", "limit", "reserve", "unreserve", "metadata", "undo"}

\* ControllerExpandVolume on the source.
ControllerExpandVolume ==
    /\ \/ scenario.expands = "any" /\ \A n \in CloneNames : ~HoldsCloneLock(n)
       \/ scenario.expands = "apart" /\ \A n \in CloneNames : life[n] # "asked"
    /\ rbdImages[Vol(1)].size = 1
    /\ rbdImages' = [rbdImages EXCEPT ![Vol(1)].size = 2]
    /\ UNCHANGED <<rbdSnaps, flattening, purging, reserved, deks, nextID, requests, co, abandoned, faults, others>>

\* A pod writes to the source.
Write == /\ rbdImages[Vol(1)].data = 0
         /\ rbdImages' = [rbdImages EXCEPT ![Vol(1)].data = 1]
         /\ UNCHANGED <<rbdSnaps, flattening, purging, reserved, deks, nextID, requests, co, abandoned, faults, others>>

\* The Ceph manager flattens an image.
FlattenTask(i) ==
    /\ i \in flattening
    /\ rbdImages' = [rbdImages EXCEPT ![i].parent = NoParent]
    /\ rbdSnaps' = Unlinked(i) /\ flattening' = flattening \ {i}
    /\ UNCHANGED <<purging, reserved, deks, nextID, requests, co, abandoned, faults, others>>

\* The Ceph manager removes an image without snapshots from the trash.
TrashTask(i) ==
    /\ i \in purging /\ SnapCount(i) = 0
    /\ rbdImages' = [j \in DOMAIN rbdImages \ {i} |-> rbdImages[j]]
    /\ rbdSnaps' = Unlinked(i) /\ purging' = purging \ {i}
    /\ UNCHANGED <<flattening, reserved, deks, nextID, requests, co, abandoned, faults, others>>

\* The provisioner restarts.
Crash == /\ crashes > 0 /\ crashes' = crashes - 1
         /\ \E n \in CloneNames : pc[n] # "idle"
         /\ pc' = [n \in CloneNames |-> "idle"] /\ req' = [n \in CloneNames |-> Idle]
         /\ UNCHANGED <<scenario, faults, cluster, reserved, deks, nextID, co, abandoned>>

Handler(n) ==
    \/ CreateVolume(n) \/ UndoReservation(n)
    \/ CheckValidCreateVolumeRequest(n) \/ FlattenParentImage(n)
    \/ FlattenTemporaryClonedImages(n) \/ ReserveVol(n) \/ TakeSnapshot(n) \/ SnapSource(n)
    \/ CloneTemp(n) \/ UnsnapSource(n) \/ UnsetAllMetadata(n) \/ SnapTemp(n) \/ CloneImage(n)
    \/ CopyFirst(n) \/ RepairImageID(n) \/ CopyEncryptionConfig(n) \/ StoreImageID(n)
    \/ Expand(n) \/ SetAllMetadata(n) \/ RollSnapshot(n) \/ DeleteTempSnapshot(n)
    \/ TrashTemp(n) \/ PurgeTemp(n) \/ Trash(n) \/ Purge(n) \/ RollSource(n)
    \/ UndoVolReservation(n) \/ DeleteVolume(n) \/ DeleteSnapshot(n) \/ DeleteOwnSnapshot(n)

ClonesNext == \/ \E n \in CloneNames : Handler(n)
              \/ \E i \in DOMAIN rbdImages : FlattenTask(i) \/ TrashTask(i)
              \/ ControllerExpandVolume \/ Write \/ Crash

ClonesSpec == ClonesInit /\ [][ClonesNext]_kvars

-----------------------------------------------------------------------------
\* A volume with a content source that the CO was given has its image, its reservation
\* with the id of the image and, if it is encrypted, its passphrase; it has the size of
\* the request, no less than what it was cloned from, and the data of its source, as it
\* was not before the CO asked.
CloneComplete == \A n \in CloneNames :
    life[n] = "given" /\ Kind(n) # "snap" =>
        LET u == granted[n] IN
        /\ InPool(Vol(u)) /\ reserved[n] = [u |-> u, id |-> TRUE]
        /\ rbdImages[Vol(u)].size >= Size(n)
        /\ rbdImages[Vol(u)].size >= rbdImages[Vol(u)].full
        /\ rbdImages[Vol(u)].data >= since[n]
        /\ scenario.encrypted => u \in deks

\* The images that i is a copy of, as far as they have not been copied themselves.
Ancestors(i) == LET chain[j \in IDs \X Kinds] ==
                        LET p == rbdImages[j].parent IN
                        IF p = NoParent THEN {} ELSE {p[1]} \cup chain[p[1]]
                IN  chain[i]

\* A volume whose parent is in the trash, where flattenParent does not see it: it was
\* restored, and the snapshot was deleted.
Unseen(i) == LET p == rbdImages[i].parent IN i[2] = "vol" /\ p # NoParent /\ ~InPool(p[1])

\* The chain of parents of an image stays below rbdHardMaxCloneDepth: flattenParentImage
\* and PrepareVolumeForSnapshot leave room for what a clone, a restored volume or a
\* snapshot adds.  They do not see the parent of a volume that was restored from a snapshot
\* which has been deleted since: what is made from such a volume may reach the limit, and
\* exceed it by one, but no more.
DepthBounded == \A i \in DOMAIN rbdImages :
    IF \E j \in Ancestors(i) : Unseen(j) THEN GetCloneDepth(i) <= scenario.hard + 1
                                         ELSE GetCloneDepth(i) < scenario.hard

\* Images, snapshots and passphrases that were made for a volume belong to a reservation,
\* or the Ceph manager removes them; except where an error was only logged or is lost.  The
\* snapshot of the source is left behind only by a restart.
ClonesAccounted ==
    LET Owned(u) == \/ <<u, "all">> \in abandoned
                    \/ \E n \in CloneNames : reserved[n].u = u \/ req[n].u = u
    IN  /\ \A i \in DOMAIN rbdImages : i # Vol(1) => Owned(i[1]) \/ i \in purging
        /\ \A s \in rbdSnaps : s.live =>
             Owned(s.name[1]) \/ (<<s.name[1], "source">> \in abandoned /\ crashes < scenario.crashes)
        /\ \A u \in deks \ {1} : Owned(u)
=============================================================================
