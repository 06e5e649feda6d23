---------------------------- MODULE GroupJournal ----------------------------
(***************************************************************************)
(* internal/journal/volumegroupjournal.go: the omaps that relate the       *)
(* request name of a volume group, or of a group snapshot, to its UUID,    *)
(* and keep its members.                                                   *)
(*                                                                         *)
(*   csiDirectory   request name |-> UUID                                  *)
(*   groupObjects   UUID |-> request name, and a value for each member     *)
(*                                                                         *)
(* An operator is one RADOS operation, or the reads of one function.       *)
(***************************************************************************)
EXTENDS TLC

CONSTANTS Keys,      \* request names
          UUIDs,     \* what uuid.New() may return
          NoKey, NoUUID, NoObject

VARIABLES csiDirectory, groupObjects

\* An object without omap keys.
EmptyGroup == [reqName |-> NoKey, map |-> <<>>]

GroupJournalTypeOK(Members, Values) ==
    /\ csiDirectory \in [Keys -> UUIDs \cup {NoUUID}]
    /\ \A u \in UUIDs :
         groupObjects[u] # NoObject =>
             /\ groupObjects[u].reqName \in Keys \cup {NoKey}
             /\ DOMAIN groupObjects[u].map \subseteq Members
             /\ \A m \in DOMAIN groupObjects[u].map : groupObjects[u].map[m] \in Values

GroupJournalInit == /\ csiDirectory = [k \in Keys |-> NoUUID]
                    /\ groupObjects = [u \in UUIDs |-> NoObject]

-----------------------------------------------------------------------------
(* What is read *)

\* GetVolumeGroupAttributes: a missing object is not an error, it has no attributes.
Attributes(u) == IF groupObjects[u] = NoObject THEN EmptyGroup ELSE groupObjects[u]

\* Mutant: the name in the object is not compared with the one of the request.
CheckReservationTrusting(k) == IF csiDirectory[k] = NoUUID THEN "none" ELSE "found"

\* CheckReservation: the key of the name, then the attributes, which have to name
\* the request ("internal state inconsistent").  The branch that collects a stale
\* reservation waits for an error that GetVolumeGroupAttributes does not return.
CheckReservation(k) ==
    IF csiDirectory[k] = NoUUID THEN "none"
    ELSE IF Attributes(csiDirectory[k]).reqName = k THEN "found" ELSE "inconsistent"

-----------------------------------------------------------------------------
(* ReserveName: object, key, attributes *)

\* setOMapKeys creates the object if it is not there.
SetObject(u, value) == /\ groupObjects' = [groupObjects EXCEPT ![u] = value]
                       /\ UNCHANGED csiDirectory

ReserveObject(u) == groupObjects[u] = NoObject /\ SetObject(u, EmptyGroup)

ReserveKey(k, u) == /\ csiDirectory' = [csiDirectory EXCEPT ![k] = u]
                    /\ UNCHANGED groupObjects

ReserveAttributes(u, k) == SetObject(u, [Attributes(u) EXCEPT !.reqName = k])

-----------------------------------------------------------------------------
(* UndoReservation: object, key; what is missing is not an error *)

UndoObject(u) == SetObject(u, NoObject)

UndoKey(k) == ReserveKey(k, NoUUID)

-----------------------------------------------------------------------------
(* Members *)

Members(u) == DOMAIN Attributes(u).map

AddVolumesMapping(u, volumeMap) ==
    SetObject(u, [Attributes(u) EXCEPT !.map = volumeMap @@ @])

\* Removing keys from an object that is gone is not an error.
RemoveVolumesMapping(u, members) ==
    IF groupObjects[u] = NoObject THEN UNCHANGED <<csiDirectory, groupObjects>>
    ELSE SetObject(u, [Attributes(u) EXCEPT !.map = [m \in Members(u) \ members |-> @[m]]])
=============================================================================
