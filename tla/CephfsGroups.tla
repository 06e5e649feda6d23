---------------------------- MODULE CephfsGroups ----------------------------
(***************************************************************************)
(* Group snapshots of CephFS volumes (internal/cephfs/                     *)
(* groupcontrollerserver.go, over store/volumegroup.go and                 *)
(* core/quiesce.go): the subvolumes are quiesced as one set, named after   *)
(* the request, a snapshot is taken of each and recorded in the journal of *)
(* the groups, and the set is released.                                    *)
(*                                                                         *)
(* All volumes are in one file system.  CreateSnapshot and DeleteSnapshot  *)
(* of the same server, which CephfsSnapshots models, are one step each.    *)
(* A step is one operation that changes the cluster, with the reads before *)
(* it; a call that is refused before it changes anything is no step.       *)
(***************************************************************************)
EXTENDS Integers, FiniteSets

CONSTANTS Names,      \* request names of group snapshots
          Volumes,    \* the subvolumes, which exist all the time
          Requests,   \* handlers that may run at a time
          MaxUUIDs, MaxSnaps, MaxWindows,  \* bounds: reservations, snapshots, quiesces
          NoObject,
          Scenarios   \* [sources: a function of a name; expires, faults, crashes]

VARIABLES scenario, faults, crashes,
          csiDirectory, groupObjects,   \* the journal of the groups
          nextUUID, nextSnap, nextWindow,
          quiesce,     \* name |-> state of the quiesce set, and which quiesce it is
          snaps,       \* snapshot id |-> name, and the quiesce it was taken in
          volumeGroupLocks,
          pc, req,
          granted, waiting, deleting,  \* the CO: handle, awaited call, state, of a name
          given        \* history: the snapshots of a granted group snapshot

cgvars == <<scenario, faults, crashes, csiDirectory, groupObjects, nextUUID, nextSnap,
            nextWindow, quiesce, snaps, volumeGroupLocks, pc, req,
            granted, waiting, deleting, given>>

NoUUID == 0
Gone == -1
NoKey == "none"
NoRequest == "none"
NoWindow == 0
NoSnap == [u |-> NoUUID, vol |-> "none", window |-> NoWindow]
Keys == Names

J == INSTANCE GroupJournal WITH UUIDs <- 1..MaxUUIDs

Sources(n) == scenario.sources[n]

Idle == [kind |-> "none", n |-> "none", uuid |-> NoUUID, todo |-> {}, map |-> <<>>,
         cur |-> "none", snap |-> 0, quiet |-> TRUE, ok |-> FALSE]

QuiesceStates == {"none", "quiescing", "quiesced", "releasing", "released", "expired"}

CephfsGroupsTypeOK ==
    /\ J!GroupJournalTypeOK(Volumes, 1..MaxSnaps)
    /\ \A n \in Names : quiesce[n].state \in QuiesceStates /\ quiesce[n].window \in 0..MaxWindows
    /\ \A s \in 1..MaxSnaps : snaps[s] # NoSnap => snaps[s].vol \in Volumes
    \* CreateSnapshot is idempotent: one snapshot for a name
    /\ \A s, t \in 1..MaxSnaps :
         s # t /\ snaps[s] # NoSnap => <<snaps[s].u, snaps[s].vol>> # <<snaps[t].u, snaps[t].vol>>
    /\ volumeGroupLocks \subseteq Names \cup 1..MaxUUIDs
    /\ \A p \in Requests : pc[p] = "idle" <=> req[p] = Idle
    /\ granted \in [Names -> Gone..MaxUUIDs]
    /\ waiting \in [Names -> Requests \cup {NoRequest}]
    /\ deleting \in [Names -> BOOLEAN]
    /\ given \in [Names -> SUBSET (1..MaxSnaps)]

CephfsGroupsInit ==
    /\ scenario \in Scenarios
    /\ faults = scenario.faults
    /\ crashes = scenario.crashes
    /\ J!GroupJournalInit
    /\ nextUUID = 1 /\ nextSnap = 1 /\ nextWindow = 1
    /\ quiesce = [n \in Names |-> [state |-> "none", window |-> NoWindow]]
    /\ snaps = [s \in 1..MaxSnaps |-> NoSnap]
    /\ volumeGroupLocks = {}
    /\ pc = [p \in Requests |-> "idle"]
    /\ req = [p \in Requests |-> Idle]
    /\ granted = [n \in Names |-> NoUUID]
    /\ waiting = [n \in Names |-> NoRequest]
    /\ deleting = [n \in Names |-> FALSE]
    /\ given = [n \in Names |-> {}]

-----------------------------------------------------------------------------
(* Control of a handler *)

groupJournal == <<csiDirectory, groupObjects>>
co == <<granted, waiting, deleting, given>>
others == <<scenario, crashes, volumeGroupLocks, co>>

Goto(p, label, r) == /\ pc' = [pc EXCEPT ![p] = label]
                     /\ req' = [req EXCEPT ![p] = r]

Fault == faults > 0 /\ faults' = faults - 1
NoFault == UNCHANGED faults

\* A call to the cluster fails and changes nothing.
Fails(p, label) == /\ Fault
                   /\ Goto(p, label, req[p])
                   /\ UNCHANGED <<groupJournal, nextUUID, nextSnap, nextWindow, quiesce, snaps>>

\* Only the control changes.
Turns(p, label, r) == /\ NoFault
                      /\ Goto(p, label, r)
                      /\ UNCHANGED <<groupJournal, nextUUID, nextSnap, nextWindow, quiesce, snaps>>

\* NewVolumeGroupOptionsFromID finds the group.
GroupExists(u) == J!Attributes(u).reqName # NoKey

-----------------------------------------------------------------------------
(* The quiesce set of a name (external: the MDS) *)

SetQuiesce(n, state) == quiesce' = [quiesce EXCEPT ![n].state = state]

\* ResetFSQuiesce starts it again, whatever its state.
ResetFSQuiesce(n) ==
    /\ nextWindow <= MaxWindows
    /\ quiesce' = [quiesce EXCEPT ![n] = [state |-> "quiescing", window |-> nextWindow]]
    /\ nextWindow' = nextWindow + 1

\* FSQuiesce and FSQuiesceWithExpireTimeout start a new set and keep one that is
\* active; they do not change one that has ended.
FSQuiesce(n) ==
    IF quiesce[n].state = "none"
    THEN ResetFSQuiesce(n)
    ELSE UNCHANGED <<quiesce, nextWindow>>

\* ReleaseFSQuiesce does not wait; a set that is not quiesced is not changed.
ReleaseFSQuiesce(n) ==
    IF quiesce[n].state = "quiesced" THEN \E state \in {"releasing", "released"} : SetQuiesce(n, state)
                                     ELSE UNCHANGED quiesce

\* The set makes progress by itself.  It does not expire within the time a snapshot
\* takes: the timer is started again before each one.
QuiesceProgress(n) ==
    /\ \/ quiesce[n].state = "quiescing" /\ SetQuiesce(n, "quiesced")
       \/ quiesce[n].state = "quiescing" /\ scenario.expires /\ SetQuiesce(n, "expired")
       \/ quiesce[n].state = "releasing" /\ SetQuiesce(n, "released")
       \/ /\ quiesce[n].state = "quiesced" /\ scenario.expires
          /\ \A p \in Requests : ~(req[p].n = n /\ pc[p] = "snapshot" /\ req[p].quiet)
          /\ SetQuiesce(n, "expired")
    /\ UNCHANGED <<scenario, faults, crashes, groupJournal, nextUUID, nextSnap, nextWindow, snaps,
                   volumeGroupLocks, pc, req, co>>

-----------------------------------------------------------------------------
(* CreateVolumeGroupSnapshot *)

Start(p, n, r, label) ==
    /\ pc[p] = "idle"
    /\ waiting' = [waiting EXCEPT ![n] = p]
    /\ Turns(p, label, r)
    /\ UNCHANGED <<scenario, crashes, granted, given>>

Locks(x) == /\ x \notin volumeGroupLocks
            /\ volumeGroupLocks' = volumeGroupLocks \cup {x}

\* checkIfFSNeedQuiesceRelease: the journal has a snapshot for each volume.
NeedRelease(n) == Cardinality(J!Members(csiDirectory[n])) = Cardinality(Sources(n))

\* CheckVolumeGroupSnapExists looks the request up in the journal.
CheckVolumeGroupSnapExists(n) == J!CheckReservation(n)

\* No reservation, one is made; one with a snapshot for each volume, only the release is
\* missing; one without, the snapshots are.
CreateVolumeGroupSnapshot(p, n) ==
    LET r == [Idle EXCEPT !.kind = "create", !.n = n] IN
    /\ granted[n] = NoUUID
    /\ Locks(n)
    /\ CASE CheckVolumeGroupSnapExists(n) = "none"         -> Start(p, n, r, "obj")
         [] CheckVolumeGroupSnapExists(n) = "inconsistent" -> FALSE
         [] CheckVolumeGroupSnapExists(n) = "found"        ->
                Start(p, n, [r EXCEPT !.uuid = csiDirectory[n]],
                      IF NeedRelease(n) THEN "rerelease" ELSE "quiesce")
    /\ UNCHANGED deleting

\* ReserveVolumeGroup: ReserveName, a step for each omap operation.
ReserveObject(p) ==
    /\ pc[p] = "obj" /\ nextUUID <= MaxUUIDs
    /\ \/ /\ J!ReserveObject(nextUUID)
          /\ nextUUID' = nextUUID + 1
          /\ Goto(p, "key", [req[p] EXCEPT !.uuid = nextUUID])
          /\ NoFault /\ UNCHANGED <<nextSnap, nextWindow, quiesce, snaps>>
       \/ Fails(p, "finish")
    /\ UNCHANGED others

ReserveKey(p) ==
    /\ pc[p] = "key"
    /\ \/ /\ J!ReserveKey(req[p].n, req[p].uuid)
          /\ Goto(p, "attr", req[p])
          /\ NoFault /\ UNCHANGED <<nextUUID, nextSnap, nextWindow, quiesce, snaps>>
       \/ Fails(p, "finish")
    /\ UNCHANGED others

ReserveAttributes(p) ==
    /\ pc[p] = "attr"
    /\ \/ /\ J!ReserveAttributes(req[p].uuid, req[p].n)
          /\ Goto(p, "quiesce", req[p])
          /\ NoFault /\ UNCHANGED <<nextUUID, nextSnap, nextWindow, quiesce, snaps>>
       \/ Fails(p, "undo")
    /\ UNCHANGED others

\* queisceFileSystems: a set that is being quiesced has to be waited for, by the next
\* call; one that has ended is an error, as a failed call is.
QuiesceFileSystems(p) ==
    LET r == req[p] IN
    /\ pc[p] = "quiesce"
    /\ \/ /\ FSQuiesce(r.n)
          /\ CASE quiesce'[r.n].state = "quiescing" -> Goto(p, "finish", r)
               [] quiesce'[r.n].state = "quiesced"  -> Goto(p, "next", [r EXCEPT !.todo = Sources(r.n)])
               [] OTHER                             -> Goto(p, "delete", r)
          /\ NoFault /\ UNCHANGED <<groupJournal, nextUUID, nextSnap, snaps>>
       \/ Fails(p, "delete")
    /\ UNCHANGED others

\* fsQuiesceWithExpireTimeout starts the timer of the set again; where it leads to.
FsQuiesceWithExpireTimeout(n) == CASE quiesce[n].state = "quiesced"  -> "snapshot"
                                   [] quiesce[n].state = "quiescing" -> "finish"
                                   [] OTHER                          -> "delete"

\* The loop over the volumes: fsQuiesceWithExpireTimeout before each snapshot, the
\* release after the last one.  After a release the snapshots are only read again.
NextVolume(p) ==
    LET r == req[p] IN
    /\ pc[p] = "next"
    /\ IF r.todo = {}
       THEN Turns(p, IF r.quiet THEN "release" ELSE "finish", [r EXCEPT !.ok = ~r.quiet])
       ELSE \/ \E v \in r.todo :
                 Turns(p, IF r.quiet THEN FsQuiesceWithExpireTimeout(r.n) ELSE "snapshot",
                       [r EXCEPT !.cur = v])
            \/ r.quiet /\ Fails(p, "delete")
    /\ UNCHANGED others

\* createSnapshotAndAddMapping: CreateSnapshot, which finds the snapshot by its name, ...
CreateSnapshot(p) ==
    LET r == req[p]
        found == {s \in 1..MaxSnaps : snaps[s].u = r.uuid /\ snaps[s].vol = r.cur}
        window == IF quiesce[r.n].state = "quiesced" THEN quiesce[r.n].window ELSE NoWindow
    IN  /\ pc[p] = "snapshot"
        /\ \/ \E s \in found : Turns(p, "map", [r EXCEPT !.snap = s])
           \/ /\ found = {} /\ nextSnap <= MaxSnaps
              /\ snaps' = [snaps EXCEPT ![nextSnap] = [u |-> r.uuid, vol |-> r.cur, window |-> window]]
              /\ nextSnap' = nextSnap + 1
              /\ Goto(p, "map", [r EXCEPT !.snap = nextSnap])
              /\ NoFault /\ UNCHANGED <<groupJournal, nextUUID, nextWindow, quiesce>>
           \/ Fails(p, "delete")
        /\ UNCHANGED others

\* ... and the mapping; after an error the snapshot is deleted, if that works.
AddMapping(p) ==
    LET r == req[p] IN
    /\ pc[p] = "map"
    /\ \/ /\ J!AddVolumesMapping(r.uuid, [v \in {r.cur} |-> r.snap])
          /\ Goto(p, "next", [r EXCEPT !.todo = @ \ {r.cur}])
          /\ NoFault /\ UNCHANGED <<nextUUID, nextSnap, nextWindow, quiesce, snaps>>
       \/ /\ \/ Fault /\ snaps' = [snaps EXCEPT ![r.snap] = NoSnap]
             \/ faults > 1 /\ faults' = faults - 2 /\ UNCHANGED snaps
          /\ Goto(p, "delete", r)
          /\ UNCHANGED <<groupJournal, nextUUID, nextSnap, nextWindow, quiesce>>
    /\ UNCHANGED others

\* Mutant: a set that is still being released is good enough.
ReleaseUnchecked(p) ==
    LET r == req[p] IN
    /\ pc[p] = "release"
    /\ \/ /\ ReleaseFSQuiesce(r.n)
          /\ Goto(p, "finish", [r EXCEPT !.ok = quiesce'[r.n].state \in {"releasing", "released"}])
          /\ NoFault /\ UNCHANGED <<groupJournal, nextUUID, nextSnap, nextWindow, snaps>>
       \/ Fails(p, "delete")
    /\ UNCHANGED others

\* releaseFSQuiesce: not released yet is "in progress", for the next call.
Release(p) ==
    LET r == req[p] IN
    /\ pc[p] = "release"
    /\ \/ /\ ReleaseFSQuiesce(r.n)
          /\ Goto(p, "finish", [r EXCEPT !.ok = quiesce'[r.n].state = "released"])
          /\ NoFault /\ UNCHANGED <<groupJournal, nextUUID, nextSnap, nextWindow, snaps>>
       \/ Fails(p, "delete")
    /\ UNCHANGED others

\* releaseQuiesceAndGetVolumeGroupSnapshotResponse: the release, then the snapshots.
ReleaseAgain(p) ==
    LET r == req[p] IN
    /\ pc[p] = "rerelease"
    /\ \/ /\ ReleaseFSQuiesce(r.n)
          /\ IF quiesce'[r.n].state = "released"
             THEN Goto(p, "next", [r EXCEPT !.todo = Sources(r.n), !.quiet = FALSE])
             ELSE Goto(p, "finish", r)
          /\ NoFault /\ UNCHANGED <<groupJournal, nextUUID, nextSnap, nextWindow, snaps>>
       \/ Fails(p, "delete")
    /\ UNCHANGED others

-----------------------------------------------------------------------------
(* deleteSnapshotsAndUndoReservation *)

\* The mapping is read.
ReadMapping(p) ==
    LET r == req[p] IN
    /\ pc[p] = "delete"
    /\ \/ IF GroupExists(r.uuid)
          THEN Turns(p, "unsnap", [r EXCEPT !.map = J!Attributes(r.uuid).map, !.todo = J!Members(r.uuid)])
          ELSE Turns(p, "finish", r)
       \/ Fails(p, "finish")
    /\ UNCHANGED others

\* DeleteSnapshot; one that is not found is no error.
DeleteSnapshot(p) ==
    LET r == req[p] IN
    /\ pc[p] = "unsnap"
    /\ IF r.todo = {} THEN Turns(p, "reset", r)
       ELSE \E v \in r.todo :
              \/ /\ snaps' = [snaps EXCEPT ![r.map[v]] = NoSnap]
                 /\ Goto(p, "unmap", [r EXCEPT !.cur = v, !.todo = @ \ {v}])
                 /\ NoFault /\ UNCHANGED <<groupJournal, nextUUID, nextSnap, nextWindow, quiesce>>
              \/ Fails(p, "finish")
    /\ UNCHANGED others

RemoveMapping(p) ==
    /\ pc[p] = "unmap"
    /\ \/ /\ J!RemoveVolumesMapping(req[p].uuid, {req[p].cur})
          /\ Goto(p, "undo", req[p])
          /\ NoFault /\ UNCHANGED <<nextUUID, nextSnap, nextWindow, quiesce, snaps>>
       \/ Fails(p, "finish")
    /\ UNCHANGED others

\* UndoVolumeGroupReservation, within the loop, and ReserveName after an error.
UndoObject(p) ==
    /\ pc[p] = "undo"
    /\ \/ /\ J!UndoObject(req[p].uuid)
          /\ Goto(p, "unkey", req[p])
          /\ NoFault /\ UNCHANGED <<nextUUID, nextSnap, nextWindow, quiesce, snaps>>
       \/ Fails(p, "finish")
    /\ UNCHANGED others

UndoKey(p) ==
    /\ pc[p] = "unkey"
    /\ \/ /\ J!UndoKey(req[p].n)
          /\ Goto(p, IF req[p].map = <<>> THEN "finish" ELSE "unsnap", req[p])
          /\ NoFault /\ UNCHANGED <<nextUUID, nextSnap, nextWindow, quiesce, snaps>>
       \/ Fails(p, "finish")
    /\ UNCHANGED others

\* ResetFSQuiesce; there are no file systems in a deletion.
Reset(p) ==
    LET r == req[p] IN
    /\ pc[p] = "reset"
    /\ IF r.kind = "delete" THEN Turns(p, "finish", [r EXCEPT !.ok = TRUE])
       ELSE \/ /\ ResetFSQuiesce(r.n)
               /\ Goto(p, "finish", r)
               /\ NoFault /\ UNCHANGED <<groupJournal, nextUUID, nextSnap, snaps>>
            \/ Fails(p, "finish")
    /\ UNCHANGED others

-----------------------------------------------------------------------------
(* DeleteVolumeGroupSnapshot, the end of a call, and of the process *)

\* The id is locked; a group that is not found is deleted.
DeleteVolumeGroupSnapshot(p, n) ==
    LET u == granted[n]
        r == [Idle EXCEPT !.kind = "delete", !.n = n, !.uuid = u]
    IN  /\ u \in 1..MaxUUIDs
        /\ Locks(u)
        /\ IF GroupExists(u) THEN Start(p, n, r, "delete") ELSE Start(p, n, [r EXCEPT !.ok = TRUE], "finish")
        /\ deleting' = [deleting EXCEPT ![n] = TRUE]

Finish(p) ==
    LET r == req[p]
        taken == waiting[r.n] = p /\ r.ok
    IN  /\ pc[p] = "finish"
        /\ Goto(p, "idle", Idle)
        /\ volumeGroupLocks' = volumeGroupLocks \ {IF r.kind = "create" THEN r.n ELSE r.uuid}
        /\ waiting' = [waiting EXCEPT ![r.n] = IF @ = p THEN NoRequest ELSE @]
        /\ granted' = [granted EXCEPT ![r.n] = IF ~taken THEN @
                                               ELSE IF r.kind = "create" THEN r.uuid ELSE Gone]
        /\ given' = [given EXCEPT ![r.n] =
                       IF taken /\ r.kind = "create"
                       THEN {J!Attributes(r.uuid).map[v] : v \in J!Members(r.uuid)} ELSE @]
        /\ NoFault
        /\ UNCHANGED <<scenario, crashes, groupJournal, nextUUID, nextSnap, nextWindow, quiesce,
                       snaps, deleting>>

\* The provisioner restarts: calls and locks are gone.
Restart ==
    /\ crashes > 0 /\ crashes' = crashes - 1
    /\ \E p \in Requests : pc[p] # "idle"
    /\ pc' = [p \in Requests |-> "idle"]
    /\ req' = [p \in Requests |-> Idle]
    /\ volumeGroupLocks' = {}
    /\ waiting' = [n \in Names |-> NoRequest]
    /\ UNCHANGED <<scenario, faults, groupJournal, nextUUID, nextSnap, nextWindow, quiesce, snaps,
                   granted, deleting, given>>

Step(p) == \/ ReserveObject(p) \/ ReserveKey(p) \/ ReserveAttributes(p)
           \/ QuiesceFileSystems(p) \/ NextVolume(p) \/ CreateSnapshot(p) \/ AddMapping(p)
           \/ Release(p) \/ ReleaseAgain(p)
           \/ ReadMapping(p) \/ DeleteSnapshot(p) \/ RemoveMapping(p)
           \/ UndoObject(p) \/ UndoKey(p) \/ Reset(p)
           \/ Finish(p)

CephfsGroupsNext ==
    \/ Restart
    \/ \E n \in Names : QuiesceProgress(n)
    \/ \E p \in Requests : \/ Step(p)
                           \/ \E n \in Names : \/ CreateVolumeGroupSnapshot(p, n)
                                               \/ DeleteVolumeGroupSnapshot(p, n)

-----------------------------------------------------------------------------
(* Properties *)

Quiet == \A p \in Requests : pc[p] = "idle"
Undisturbed == faults = scenario.faults /\ crashes = scenario.crashes

Mapped(u) == {J!Attributes(u).map[v] : v \in J!Members(u)}

\* A group snapshot that was granted, and is not being deleted, has one snapshot of
\* each volume, all taken in one and the same quiesce of the volumes.
GroupSnapshotConsistent ==
    \A n \in Names : granted[n] \in 1..MaxUUIDs /\ ~deleting[n] =>
        LET u == granted[n] IN
        /\ csiDirectory[n] = u /\ J!Attributes(u).reqName = n
        /\ J!Members(u) = Sources(n) /\ Mapped(u) = given[n]
        /\ \A v \in Sources(n) : snaps[J!Attributes(u).map[v]].vol = v
        /\ \E w \in 1..MaxWindows : \A s \in given[n] : snaps[s].window = w

\* The volumes are not kept quiesced once the group snapshot is granted.
WritesResumed ==
    \A n \in Names : granted[n] \in 1..MaxUUIDs => quiesce[n].state = "released"

\* Once the deletion of a group snapshot succeeded none of its snapshots is left, if no
\* fault and no restart came between.
GroupSnapshotDeleted ==
    \A n \in Names : granted[n] = Gone /\ Undisturbed => \A s \in given[n] : snaps[s] = NoSnap

\* The same, whatever came between.
DeletedForGood ==
    \A n \in Names : granted[n] = Gone => \A s \in given[n] : snaps[s] = NoSnap

\* Calls that no fault and no restart disturbed leave no snapshot, and no object in
\* the journal, that the name of a request does not lead to, even when the quiesce
\* expired under them.
NoSnapshotLeftBehind ==
    Quiet /\ Undisturbed =>
        /\ \A u \in 1..MaxUUIDs : groupObjects[u] # NoObject => csiDirectory[groupObjects[u].reqName] = u
        /\ \A s \in 1..MaxSnaps : snaps[s] # NoSnap => \E n \in Names :
               csiDirectory[n] # NoUUID /\ s \in Mapped(csiDirectory[n])
=============================================================================
