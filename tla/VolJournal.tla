----------------------------- MODULE VolJournal -----------------------------
(***************************************************************************)
(* internal/journal: the RADOS omaps that relate the name in a request of  *)
(* the container orchestrator (CO) to the UUID of the volume or snapshot   *)
(* that serves it.                                                         *)
(*                                                                         *)
(*   csiDirectory    the omap "csi.volumes.<instance>" (or csi.snaps):     *)
(*                   request name |-> UUID;                                *)
(*   uuidDirectory   the objects "csi.volume.<uuid>" with the attributes   *)
(*                   of the volume: its request name, the id of its image  *)
(*                   and, for a snapshot, its source.                      *)
(*                                                                         *)
(* An operator of this module is one RADOS operation, which is atomic; the *)
(* functions of voljournal.go are sequences of them, and the modules that  *)
(* use the journal put the other steps of the driver, and its crashes, in  *)
(* between.  The directory and the objects are in one pool and one         *)
(* namespace.  The image name is the UUID with a prefix, so the UUID       *)
(* stands for both.                                                        *)
(***************************************************************************)
EXTENDS Integers

CONSTANTS Names,     \* request names generated by the CO
          UUIDs,     \* what uuid.New() may return
          Sources,   \* volumes of which snapshots are taken
          NoName, NoUUID, NoObject

ASSUME NullsDistinct == NoName \notin Names /\ NoUUID \notin UUIDs \cup Sources

VARIABLES csiDirectory, uuidDirectory

journal == <<csiDirectory, uuidDirectory>>

\* Image ids are numbers, 0 when the key csi.imageid is absent.
NoID == 0

\* An object that CreateObject made and that has no omap keys yet.
EmptyObject == [reqName |-> NoName, imageID |-> NoID, source |-> NoUUID]

Attributes == [reqName : Names \cup {NoName}, imageID : Nat,
               source : Sources \cup {NoUUID}]

JournalTypeOK ==
    /\ csiDirectory \in [Names -> UUIDs \cup {NoUUID}]
    /\ uuidDirectory \in [UUIDs -> Attributes \cup {NoObject}]

JournalInit == /\ csiDirectory = [n \in Names |-> NoUUID]
               /\ uuidDirectory = [u \in UUIDs |-> NoObject]

-----------------------------------------------------------------------------
(* Steps of ReserveName *)

\* reserveOMapName: CreateObject is exclusive.
CreateUUIDObject(u) ==
    /\ uuidDirectory[u] = NoObject
    /\ uuidDirectory' = [uuidDirectory EXCEPT ![u] = EmptyObject]
    /\ UNCHANGED csiDirectory

\* The key of the request name in csiDirectory.
SetNameKey(n, u) == /\ csiDirectory' = [csiDirectory EXCEPT ![n] = u]
                    /\ UNCHANGED uuidDirectory

\* setOMapKeys creates the object if it is not there.
OrCreated(u) == IF uuidDirectory[u] = NoObject THEN EmptyObject ELSE uuidDirectory[u]

\* Mutant: the attributes do not say which request they belong to.
SetAttributesNoName(u, n, src) ==
    /\ uuidDirectory' = [uuidDirectory EXCEPT ![u] = [OrCreated(u) EXCEPT !.source = src]]
    /\ UNCHANGED csiDirectory

\* The attributes of the UUID object: the way back to the request name.
SetAttributes(u, n, src) ==
    /\ uuidDirectory' = [uuidDirectory EXCEPT ![u] =
                            [OrCreated(u) EXCEPT !.reqName = n, !.source = src]]
    /\ UNCHANGED csiDirectory

StoreImageID(u, id) ==
    /\ uuidDirectory' = [uuidDirectory EXCEPT ![u] = [OrCreated(u) EXCEPT !.imageID = id]]
    /\ UNCHANGED csiDirectory

-----------------------------------------------------------------------------
(* Steps of UndoReservation, the inverse order of ReserveName.  A missing  *)
(* object or key is not an error.                                          *)

RemoveUUIDObject(u) ==
    /\ uuidDirectory' = [uuidDirectory EXCEPT ![u] = NoObject]
    /\ UNCHANGED csiDirectory

RemoveNameKey(n) ==
    /\ csiDirectory' = [m \in Names |-> IF m = n THEN NoUUID ELSE csiDirectory[m]]
    /\ UNCHANGED uuidDirectory

-----------------------------------------------------------------------------
(* What CheckReservation and GetImageAttributes find *)

\* The UUID object is missing: ErrObjectNotFound, which is an ErrKeyNotFound.
ObjectMissing(u) == uuidDirectory[u] = NoObject

\* GetImageAttributes of a snapshot wants the source as well, so a UUID object
\* without attributes is as good as none.
SnapshotMissing(u) == ObjectMissing(u) \/ uuidDirectory[u].source = NoUUID

\* The UUID object does not name the request that led to it: "internal state
\* inconsistent", the check's only error that no retry can clear.
NamesMismatch(u, n) == uuidDirectory[u] # NoObject /\ uuidDirectory[u].reqName # n

\* The reservation of n is complete: a later request with this name finds it.
Reserved(n, u) == /\ csiDirectory[n] = u
                  /\ uuidDirectory[u] # NoObject
                  /\ uuidDirectory[u].reqName = n
=============================================================================
