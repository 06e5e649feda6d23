------------------------------ MODULE RbdGroups ------------------------------
(***************************************************************************)
(* Groups of RBD volumes: the CSI group snapshots (internal/rbd/           *)
(* group_controllerserver.go) and the CSI-Addons volume groups             *)
(* (internal/csi-addons/rbd/volumegroup.go), over rbd/manager.go,          *)
(* rbd/group.go and rbd/group.                                             *)
(*                                                                         *)
(* An image can be in one RBD group only.  A group snapshot therefore      *)
(* makes a temporary group, adds the images, takes the snapshot of the     *)
(* group, clones it into one snapshot image per volume and removes the     *)
(* group again; images that are in a group already are taken there.        *)
(*                                                                         *)
(* A step is one operation on the cluster that changes it, with the reads  *)
(* before it.  A call that is refused before it changes anything is no     *)
(* step.  UUIDs and snapshot ids are numbers, given out once.              *)
(***************************************************************************)
EXTENDS Integers, FiniteSets

CONSTANTS Names,      \* request names of group snapshots and volume groups
          Volumes,    \* the RBD volumes, which exist all the time
          Requests,   \* handlers that may run at a time
          MaxUUIDs, MaxSnaps, MaxTakes,   \* bounds: reservations, snapshots, group snapshots
          NoObject,
          Scenarios   \* [kind, sources: functions of a name; serial, faults, crashes]

VARIABLES scenario, faults, crashes,
          csiDirectory, groupObjects,   \* the journal of the groups
          nextUUID, nextSnap, clock,
          groups,        \* UUIDs that have an RBD group
          inGroup,       \* volume |-> the UUID of the group its image is in
          groupSnaps,    \* RBD group snapshots
          snaps,         \* snapshot id |-> its reservation and image
          volumeGroupLocks,
          pc, req,
          granted, waiting, wanted,  \* the CO: handle, awaited call, members, of a name
          given          \* history: the snapshots of a granted group snapshot

gvars == <<scenario, faults, crashes, csiDirectory, groupObjects, nextUUID, nextSnap, clock,
           groups, inGroup, groupSnaps, snaps, volumeGroupLocks, pc, req,
           granted, waiting, wanted, given>>

NoUUID == 0
NoKey == <<"none", "none">>
NoSnap == [vol |-> "none", at |-> 0, image |-> FALSE, group |-> 0]
NoRequest == "none"

\* The name of the request, and the name of its temporary group ("-vg").
Keys == Names \X {"own", "vg"}
Own(n) == <<n, "own">>
Temporary(n) == <<n, "vg">>

J == INSTANCE GroupJournal
         WITH UUIDs <- 1..MaxUUIDs

Sources(n) == scenario.sources[n]

Idle == [kind |-> "none", n |-> "none", vg |-> NoUUID, temp |-> FALSE, members |-> {},
         todo |-> {}, later |-> {}, cur |-> 0, key |-> NoKey, uuid |-> NoUUID,
         ret |-> "idle", fail |-> "idle", fresh |-> FALSE, new |-> {}, at |-> 0,
         hole |-> FALSE, lost |-> FALSE, handle |-> NoUUID, ok |-> FALSE]

Gone == -1
Handles == Gone..MaxUUIDs

GroupsTypeOK ==
    /\ J!GroupJournalTypeOK(Volumes \cup 1..MaxSnaps, {""})
    /\ groups \subseteq 1..MaxUUIDs
    /\ inGroup \in [Volumes -> {NoUUID} \cup groups]
    /\ \A g \in groupSnaps : g.vg \in groups /\ g.uuid \in 1..MaxUUIDs /\ g.vols \subseteq Volumes
    /\ \A s \in 1..MaxSnaps : snaps[s] # NoSnap => snaps[s].vol \in Volumes
    /\ volumeGroupLocks \subseteq Names \cup 1..MaxUUIDs
    /\ \A p \in Requests : pc[p] = "idle" <=> req[p] = Idle
    /\ granted \in [Names -> Handles]
    /\ waiting \in [Names -> Requests \cup {NoRequest}]
    /\ wanted \in [Names -> SUBSET Volumes]
    /\ given \in [Names -> SUBSET (1..MaxSnaps)]

GroupsInit ==
    /\ scenario \in Scenarios
    /\ faults = scenario.faults
    /\ crashes = scenario.crashes
    /\ J!GroupJournalInit
    /\ nextUUID = 1 /\ nextSnap = 1 /\ clock = 1
    /\ groups = {}
    /\ inGroup = [v \in Volumes |-> NoUUID]
    /\ groupSnaps = {}
    /\ snaps = [s \in 1..MaxSnaps |-> NoSnap]
    /\ volumeGroupLocks = {}
    /\ pc = [p \in Requests |-> "idle"]
    /\ req = [p \in Requests |-> Idle]
    /\ granted = [n \in Names |-> NoUUID]
    /\ waiting = [n \in Names |-> NoRequest]
    /\ wanted = [n \in Names |-> Sources(n)]
    /\ given = [n \in Names |-> {}]

-----------------------------------------------------------------------------
(* Control of a handler *)

groupJournal == <<csiDirectory, groupObjects>>
ids == <<nextUUID, nextSnap, clock>>
rbd == <<groups, inGroup, groupSnaps>>
co == <<granted, waiting, wanted, given>>
others == <<scenario, crashes, volumeGroupLocks, co>>

Goto(p, label, r) == /\ pc' = [pc EXCEPT ![p] = label]
                     /\ req' = [req EXCEPT ![p] = r]

\* A call to the cluster fails.
Fault == faults > 0 /\ faults' = faults - 1
NoFault == UNCHANGED faults

\* The step failed, as it must or by a fault, and changed nothing but the control.
FailsIf(must, p, label, r) == /\ IF must THEN NoFault ELSE Fault
                              /\ Goto(p, label, r)
                              /\ UNCHANGED <<groupJournal, ids, rbd, snaps>>

Fails(p, label, r) == FailsIf(FALSE, p, label, r)

\* ReserveName for key k, then label ret; label fail after an error.
Reserving(r, k, ret, fail) ==
    [r EXCEPT !.key = k, !.ret = ret, !.fail = fail, !.fresh = TRUE]

\* UndoReservation of key k and UUID u, then label fail.
Undoing(r, k, u, fail) == [r EXCEPT !.key = k, !.uuid = u, !.fail = fail]

\* genSnapFromSnapID finds the reservation and the image of the snapshot.
Resolvable(u) == \A s \in J!Members(u) : snaps[s].image

\* VolumesInSameGroup: all in one group, or all in none.
VolumesInSameGroup(vols) == \A v, w \in vols : inGroup[v] = inGroup[w]

\* GetVolumeGroupID of the first volume.
GroupOf(vols) == IF vols = {} THEN NoUUID ELSE inGroup[CHOOSE v \in vols : TRUE]

\* GetVolumeGroup: an object without a group name is no group.
GroupExists(u) == J!Attributes(u).reqName # NoKey

-----------------------------------------------------------------------------
(* ReserveName and UndoReservation, a step for each omap operation *)

ReserveObject(p) ==
    LET r == req[p] IN
    /\ pc[p] = "obj" /\ nextUUID <= MaxUUIDs
    /\ \/ /\ J!ReserveObject(nextUUID)
          /\ nextUUID' = nextUUID + 1
          /\ Goto(p, "key", [r EXCEPT !.uuid = nextUUID])
          /\ NoFault /\ UNCHANGED <<nextSnap, clock, rbd, snaps>>
       \/ Fails(p, r.fail, r)
    /\ UNCHANGED others

ReserveKey(p) ==
    LET r == req[p] IN
    /\ pc[p] = "key"
    /\ \/ /\ J!ReserveKey(r.key, r.uuid)
          /\ Goto(p, "attr", r)
          /\ NoFault /\ UNCHANGED <<ids, rbd, snaps>>
       \/ Fails(p, r.fail, r)
    /\ UNCHANGED others

ReserveAttributes(p) ==
    LET r == req[p] IN
    /\ pc[p] = "attr"
    /\ \/ /\ J!ReserveAttributes(r.uuid, r.key)
          /\ Goto(p, r.ret, r)
          /\ NoFault /\ UNCHANGED <<ids, rbd, snaps>>
       \/ Fails(p, "undo", r)
    /\ UNCHANGED others

UndoObject(p) ==
    LET r == req[p] IN
    /\ pc[p] = "undo"
    /\ \/ /\ J!UndoObject(r.uuid)
          /\ Goto(p, "unkey", r)
          /\ NoFault /\ UNCHANGED <<ids, rbd, snaps>>
       \/ Fails(p, r.fail, r)
    /\ UNCHANGED others

UndoKey(p) ==
    LET r == req[p] IN
    /\ pc[p] = "unkey"
    /\ \/ /\ J!UndoKey(r.key)
          /\ Goto(p, r.fail, [r EXCEPT !.ok = @ \/ r.kind \in {"unsnap", "ungroup"}])
          /\ NoFault /\ UNCHANGED <<ids, rbd, snaps>>
       \/ Fails(p, r.fail, r)
    /\ UNCHANGED others

-----------------------------------------------------------------------------
(* CreateVolumeGroupSnapshot *)

Start(p, n, r, label) ==
    /\ pc[p] = "idle"
    /\ waiting' = [waiting EXCEPT ![n] = p]
    /\ Goto(p, label, r)
    /\ NoFault
    /\ UNCHANGED <<scenario, crashes, groupJournal, ids, rbd, snaps, granted, given>>

\* The CO, as far as the scenario says so, makes no two calls at a time that are about
\* the same volumes, but for a call it gave up waiting for.
Alone(n) ==
    scenario.serial =>
        \A p \in {q \in Requests : pc[q] # "idle"} :
            IF req[p].n = n THEN scenario.kind[n] = "snap"
                            ELSE Sources(req[p].n) \cap Sources(n) = {}

Locks(x) == /\ x \notin volumeGroupLocks
            /\ volumeGroupLocks' = volumeGroupLocks \cup {x}

\* Mutant: the lock on the name is not tried.
CreateVolumeGroupSnapshotUnlocked(p, n) ==
    /\ scenario.kind[n] = "snap" /\ granted[n] = NoUUID /\ Alone(n)
    /\ VolumesInSameGroup(Sources(n))
    /\ LET vg == GroupOf(Sources(n)) IN
         /\ vg # NoUUID => GroupExists(vg)
         /\ Start(p, n, [Idle EXCEPT !.kind = "snap", !.n = n, !.vg = vg, !.temp = vg = NoUUID,
                                     !.members = IF vg = NoUUID THEN {} ELSE J!Members(vg)],
                  "lookup")
    /\ volumeGroupLocks' = volumeGroupLocks \cup {n}
    /\ UNCHANGED wanted

\* The name is locked, the volumes are resolved; the group they are in is used and
\* kept, with the members the journal has for it.
CreateVolumeGroupSnapshot(p, n) ==
    /\ scenario.kind[n] = "snap" /\ granted[n] = NoUUID /\ Alone(n)
    /\ Locks(n)
    /\ VolumesInSameGroup(Sources(n))
    /\ LET vg == GroupOf(Sources(n)) IN
         /\ vg # NoUUID => GroupExists(vg)
         /\ Start(p, n, [Idle EXCEPT !.kind = "snap", !.n = n, !.vg = vg, !.temp = vg = NoUUID,
                                     !.members = IF vg = NoUUID THEN {} ELSE J!Members(vg)],
                  "lookup")
    /\ UNCHANGED wanted

\* Mutant: a group snapshot without snapshots is returned too.
GetVolumeGroupSnapshotByNameIncomplete(p) ==
    LET r == req[p]
        k == Own(r.n)
        u == csiDirectory[k]
        check == J!CheckReservation(k)
    IN  /\ pc[p] = "lookup"
        /\ \/ /\ CASE check = "none"         -> Goto(p, "obj", Reserving(r, k, "prepare", "prepare"))
                   [] check = "inconsistent" -> Goto(p, "prepare", r)
                   [] check = "found" /\ ~Resolvable(u) ->
                          Goto(p, "undo", Undoing(r, k, u, "prepare"))
                   [] check = "found" /\ Resolvable(u) ->
                          Goto(p, "cleanup", [r EXCEPT !.ok = TRUE, !.handle = u])
              /\ NoFault /\ UNCHANGED <<groupJournal, ids, rbd, snaps>>
           \/ IF check = "found" THEN Fails(p, "undo", Undoing(r, k, u, "prepare"))
                                 ELSE Fails(p, "prepare", r)
        /\ UNCHANGED others

\* getGroupUUID, then the snapshots of the group: all found, the call is done; none,
\* the snapshot is incomplete; an error, the reservation is undone, found or new.
\* An error is only logged.
GetVolumeGroupSnapshotByName(p) ==
    LET r == req[p]
        k == Own(r.n)
        u == csiDirectory[k]
        check == J!CheckReservation(k)
    IN  /\ pc[p] = "lookup"
        /\ \/ /\ CASE check = "none"         -> Goto(p, "obj", Reserving(r, k, "prepare", "prepare"))
                   [] check = "inconsistent" -> Goto(p, "prepare", r)
                   [] check = "found" /\ ~Resolvable(u) ->
                          Goto(p, "undo", Undoing(r, k, u, "prepare"))
                   [] check = "found" /\ Resolvable(u) ->
                          IF J!Members(u) = {} THEN Goto(p, "prepare", r)
                          ELSE Goto(p, "cleanup", [r EXCEPT !.ok = TRUE, !.handle = u])
              /\ NoFault /\ UNCHANGED <<groupJournal, ids, rbd, snaps>>
           \/ IF check = "found" THEN Fails(p, "undo", Undoing(r, k, u, "prepare"))
                                 ELSE Fails(p, "prepare", r)
        /\ UNCHANGED others

\* ListVolumes: an empty group gets the volumes of the request.
Listed(r, ret, fail) ==
    IF r.members = {}
    THEN [label |-> "add", r |-> [r EXCEPT !.todo = Sources(r.n), !.ret = ret, !.fail = fail]]
    ELSE [label |-> ret, r |-> r]

\* Where a handler goes with its group, and after an error with it.
AfterGroup(r) == IF r.kind = "snap" THEN Listed(r, "take", "cleanup")
                                    ELSE Listed([r EXCEPT !.ok = TRUE, !.handle = r.vg], "finish", "finish")

\* PrepareVolumeForSnapshot, and CheckReservation of the group to create.
CreateVolumeGroup(p) ==
    LET r == req[p]
        k == IF r.kind = "snap" THEN Temporary(r.n) ELSE Own(r.n)
        u == csiDirectory[k]
        check == J!CheckReservation(k)
    IN  /\ pc[p] = "prepare"
        /\ \/ /\ IF r.vg # NoUUID THEN Goto(p, AfterGroup(r).label, AfterGroup(r).r)
                 ELSE CASE check = "none"         -> Goto(p, "obj", Reserving(r, k, "create", "finish"))
                        [] check = "inconsistent" -> Goto(p, "finish", r)
                        [] check = "found"        ->
                               Goto(p, "create", [r EXCEPT !.uuid = u, !.key = k, !.fresh = FALSE,
                                                           !.members = J!Members(u)])
              /\ NoFault /\ UNCHANGED <<groupJournal, ids, rbd, snaps>>
           \/ Fails(p, "finish", r)
        /\ UNCHANGED others

\* vg.Create: an existing RBD group is no error; after an error a new reservation
\* is undone.
GroupCreate(p) ==
    LET r == [req[p] EXCEPT !.vg = req[p].uuid] IN
    /\ pc[p] = "create"
    /\ \/ /\ groups' = groups \cup {r.vg}
          /\ Goto(p, AfterGroup(r).label, AfterGroup(r).r)
          /\ NoFault /\ UNCHANGED <<groupJournal, ids, inGroup, groupSnaps, snaps>>
       \/ IF r.fresh THEN Fails(p, "undo", Undoing(req[p], r.key, r.uuid, "finish"))
                     ELSE Fails(p, "finish", req[p])
    /\ UNCHANGED others

\* AddVolume: AddToGroup, which an image in a group refuses, ...
AddToGroup(p) ==
    LET r == req[p] IN
    /\ pc[p] = "add"
    /\ \E v \in r.todo :
         \/ /\ inGroup[v] = NoUUID /\ r.vg \in groups
            /\ inGroup' = [inGroup EXCEPT ![v] = r.vg]
            /\ Goto(p, "map", [r EXCEPT !.members = @ \cup {v}, !.cur = v])
            /\ NoFault /\ UNCHANGED <<groupJournal, ids, groups, groupSnaps, snaps>>
         \/ FailsIf(inGroup[v] # NoUUID \/ r.vg \notin groups, p, r.fail, [r EXCEPT !.ok = FALSE])
    /\ UNCHANGED others

\* ... and the mapping in the journal.
AddMapping(p) ==
    LET r == req[p]
        left == r.todo \ {r.cur}
    IN  /\ pc[p] = "map"
        /\ \/ /\ J!AddVolumesMapping(r.vg, [v \in {r.cur} |-> ""])
              /\ Goto(p, IF left = {} THEN r.ret ELSE "add", [r EXCEPT !.todo = left])
              /\ NoFault /\ UNCHANGED <<ids, rbd, snaps>>
           \/ Fails(p, r.fail, [r EXCEPT !.ok = FALSE])
        /\ UNCHANGED others

\* mgr.CreateVolumeGroupSnapshot: getGroupUUID again; as many snapshots as the
\* group has volumes, and the existing group snapshot is returned.
CheckExistingSnapshots(p) ==
    LET r == req[p]
        k == Own(r.n)
        u == csiDirectory[k]
        check == J!CheckReservation(k)
    IN  /\ pc[p] = "take"
        /\ \/ /\ CASE check = "none"         -> Goto(p, "obj", Reserving(r, k, "gsnap", "cleanup"))
                   [] check = "inconsistent" -> Goto(p, "cleanup", r)
                   [] check = "found"        ->
                          IF Resolvable(u) /\ Cardinality(J!Members(u)) = Cardinality(r.members)
                          THEN Goto(p, "cleanup", [r EXCEPT !.ok = TRUE, !.handle = u])
                          ELSE Goto(p, "gsnap", [r EXCEPT !.key = k, !.uuid = u, !.lost = ~Resolvable(u)])
              /\ NoFault /\ UNCHANGED <<groupJournal, ids, rbd, snaps>>
           \/ IF check = "found" THEN Fails(p, "undo", Undoing(r, k, u, "cleanup"))
                                 ELSE Fails(p, "cleanup", r)
        /\ UNCHANGED others

-----------------------------------------------------------------------------
(* CreateSnapshots *)

\* GroupSnapCreate takes all images of the group at one time; the group snapshot of
\* an earlier attempt is used as it is.
GroupSnapCreate(p) ==
    LET r == req[p]
        old == {g \in groupSnaps : g.vg = r.vg /\ g.uuid = r.uuid}
        taken == [vg |-> r.vg, uuid |-> r.uuid, at |-> clock,
                  vols |-> {v \in Volumes : inGroup[v] = r.vg}]
        Cloning(g) == [r EXCEPT !.at = g.at, !.todo = g.vols]
    IN  /\ pc[p] = "gsnap" /\ clock <= MaxTakes
        /\ \/ /\ r.vg \in groups /\ old = {}
              /\ groupSnaps' = groupSnaps \cup {taken}
              /\ clock' = clock + 1
              /\ Goto(p, "clone", Cloning(taken))
              /\ NoFault /\ UNCHANGED <<groupJournal, nextUUID, nextSnap, groups, inGroup, snaps>>
           \/ \E g \in old : /\ r.vg \in groups
                             /\ Goto(p, "clone", Cloning(g))
                             /\ NoFault /\ UNCHANGED <<groupJournal, ids, rbd, snaps>>
           \/ FailsIf(r.vg \notin groups, p, "undo", Undoing(r, Own(r.n), r.uuid, "cleanup"))
        /\ UNCHANGED others

\* NewSnapshotByID: a new reservation ...  An image that is not a member of the
\* group in memory leaves a hole in the list.  An error ends in a panic, in the
\* deferred Destroy of the snapshots that are not there; the panic is recovered
\* by the gRPC server, the deferred functions run.
ReserveSnap(p) ==
    LET r == req[p] IN
    /\ pc[p] = "clone"
    /\ \/ /\ r.todo = {}
          /\ Goto(p, "ungsnap", [r EXCEPT !.lost = FALSE])
          /\ NoFault /\ UNCHANGED <<groupJournal, ids, rbd, snaps>>
       \/ \E v \in r.todo :
            \/ /\ v \notin r.members
               /\ Goto(p, "clone", [r EXCEPT !.todo = @ \ {v}, !.hole = TRUE])
               /\ NoFault /\ UNCHANGED <<groupJournal, ids, rbd, snaps>>
            \/ /\ v \in r.members /\ nextSnap <= MaxSnaps
               /\ snaps' = [snaps EXCEPT ![nextSnap] = [NoSnap EXCEPT !.vol = v, !.at = r.at]]
               /\ nextSnap' = nextSnap + 1
               /\ Goto(p, "image", [r EXCEPT !.todo = @ \ {v}, !.cur = nextSnap])
               /\ NoFault /\ UNCHANGED <<groupJournal, nextUUID, clock, rbd>>
            \/ /\ v \in r.members
               /\ Fails(p, "ungsnap", [r EXCEPT !.hole = TRUE])
    /\ UNCHANGED others

\* ... the clone, a snapshot on it and its id.  After an error in the clone the
\* reservation is undone; later, the removal of the clone hides the error and the
\* reservation stays.
CloneImage(p) ==
    LET r == req[p] IN
    /\ pc[p] = "image"
    /\ \/ /\ snaps' = [snaps EXCEPT ![r.cur].image = TRUE]
          /\ Goto(p, "clone", [r EXCEPT !.new = @ \cup {r.cur}])
          /\ NoFault /\ UNCHANGED <<groupJournal, ids, rbd>>
       \/ /\ Fault
          /\ Goto(p, "ungsnap", [r EXCEPT !.hole = TRUE])
          /\ snaps' \in {snaps, [snaps EXCEPT ![r.cur] = NoSnap]}
          /\ UNCHANGED <<groupJournal, ids, rbd>>
    /\ UNCHANGED others

\* The group snapshot is always removed, an error is logged.  With a hole in the list
\* there was, or will be, a panic; the caller still has the error of its lookup then, if
\* there was one, and undoes the reservation.
GroupSnapRemove(p) ==
    LET r == req[p] IN
    /\ pc[p] = "ungsnap"
    /\ \/ /\ groupSnaps' = {g \in groupSnaps : ~(g.vg = r.vg /\ g.uuid = r.uuid)}
          /\ NoFault
       \/ Fault /\ UNCHANGED groupSnaps
    /\ Goto(p, CASE r.hole /\ r.lost  -> "undo"
                 [] r.hole /\ ~r.lost -> "cleanup"
                 [] OTHER             -> "own",
            [r EXCEPT !.todo = r.new, !.key = Own(r.n), !.fail = "cleanup"])
    /\ UNCHANGED <<groupJournal, ids, groups, inGroup, snaps>>
    /\ UNCHANGED others

\* NewVolumeGroupSnapshot: the id of the group goes to the journal of each snapshot ...
\* After an error the deferred removal of the snapshots panics, they have no connection
\* any more, and the reservation is undone.
SetVolumeGroup(p) ==
    LET r == req[p]
        missing == r.todo = r.new /\ ~GroupExists(r.uuid)
    IN  /\ pc[p] = "own" /\ r.todo # {}
        /\ \/ /\ ~missing
              /\ \E s \in r.todo : /\ snaps' = [snaps EXCEPT ![s].group = r.uuid]
                                  /\ Goto(p, "own", [r EXCEPT !.todo = @ \ {s}])
              /\ NoFault /\ UNCHANGED <<groupJournal, ids, rbd>>
           \/ FailsIf(missing, p, "undo", r)
        /\ UNCHANGED others

\* ... and the snapshots to the journal of the group.
NewVolumeGroupSnapshot(p) ==
    LET r == req[p] IN
    /\ pc[p] = "own" /\ r.todo = {}
    /\ \/ /\ J!AddVolumesMapping(r.uuid, [s \in r.new |-> ""])
          /\ Goto(p, "cleanup", [r EXCEPT !.ok = TRUE, !.handle = r.uuid])
          /\ NoFault /\ UNCHANGED <<ids, rbd, snaps>>
       \/ Fails(p, "undo", r)
    /\ UNCHANGED others

-----------------------------------------------------------------------------
(* The deferred removal of the temporary group; errors are logged *)

\* Mutant: a group the volumes were in before is removed too.
CleanupAny(p) ==
    LET r == req[p] IN
    /\ pc[p] = "cleanup"
    /\ IF r.vg # NoUUID THEN Goto(p, "rm", [r EXCEPT !.todo = Sources(r.n)])
                        ELSE Goto(p, "finish", r)
    /\ NoFault /\ UNCHANGED <<groupJournal, ids, rbd, snaps, others>>

Cleanup(p) ==
    LET r == req[p] IN
    /\ pc[p] = "cleanup"
    /\ IF r.temp /\ r.vg # NoUUID THEN Goto(p, "rm", [r EXCEPT !.todo = Sources(r.n)])
                                  ELSE Goto(p, "finish", r)
    /\ NoFault /\ UNCHANGED <<groupJournal, ids, rbd, snaps, others>>

\* Where RemoveVolume returns to: the next volume, or what follows the last one.
Removed(r) ==
    CASE r.todo # {} /\ r.members # {} -> [label |-> "rm", r |-> r]
      [] r.kind = "snap" /\ ~(r.todo # {} /\ r.members # {}) -> [label |-> "ungroup", r |-> r]
      [] r.kind = "modify" /\ ~(r.todo # {} /\ r.members # {}) ->
             IF r.later = {} THEN [label |-> "finish", r |-> [r EXCEPT !.ok = TRUE]]
             ELSE [label |-> "add", r |-> [r EXCEPT !.todo = r.later, !.ok = TRUE,
                                                    !.ret = "finish", !.fail = "finish"]]

\* An error of RemoveVolume ends ModifyVolumeGroupMembership, and nothing else.
RemoveFails(p, r) ==
    IF r.kind = "modify" THEN Fails(p, "finish", r) ELSE Fails(p, Removed(r).label, Removed(r).r)

\* RemoveVolume: GroupImageRemove, an image that is not there is no error; nothing to
\* do once the list in memory is empty ...
RemoveFromGroup(p) ==
    LET r == req[p] IN
    /\ pc[p] = "rm"
    /\ IF r.members = {} \/ r.todo = {}
       THEN /\ Goto(p, Removed(r).label, Removed(r).r)
            /\ NoFault /\ UNCHANGED <<groupJournal, ids, rbd, snaps>>
       ELSE \E v \in r.todo :
              \/ /\ inGroup' = [inGroup EXCEPT ![v] = IF @ = r.vg THEN NoUUID ELSE @]
                 /\ Goto(p, "unmap", [r EXCEPT !.members = @ \ {v}, !.todo = @ \ {v}, !.cur = v])
                 /\ NoFault /\ UNCHANGED <<groupJournal, ids, groups, groupSnaps, snaps>>
              \/ RemoveFails(p, [r EXCEPT !.todo = @ \ {v}])
    /\ UNCHANGED others

\* ... and the mapping in the journal.
RemoveMapping(p) ==
    LET r == req[p] IN
    /\ pc[p] = "unmap"
    /\ \/ /\ J!RemoveVolumesMapping(r.vg, {r.cur})
          /\ Goto(p, Removed(r).label, Removed(r).r)
          /\ NoFault /\ UNCHANGED <<ids, rbd, snaps>>
       \/ RemoveFails(p, r)
    /\ UNCHANGED others

\* vg.Delete: GroupRemove, with the images and snapshots of the group, then the
\* reservation under the name in the journal.
GroupRemove(p) ==
    LET r == req[p] IN
    /\ pc[p] = "ungroup"
    /\ \/ /\ groups' = groups \ {r.vg}
          /\ inGroup' = [v \in Volumes |-> IF inGroup[v] = r.vg THEN NoUUID ELSE inGroup[v]]
          /\ groupSnaps' = {g \in groupSnaps : g.vg # r.vg}
          /\ Goto(p, "undo", Undoing(r, IF r.kind = "snap" THEN Temporary(r.n) ELSE Own(r.n),
                                     r.vg, "finish"))
          /\ NoFault /\ UNCHANGED <<groupJournal, ids, snaps>>
       \/ Fails(p, "finish", r)
    /\ UNCHANGED others

-----------------------------------------------------------------------------
(* DeleteVolumeGroupSnapshot *)

\* The id is locked, the snapshots are resolved; no group, nothing to do.
DeleteVolumeGroupSnapshot(p, n) ==
    LET u == granted[n] IN
    /\ scenario.kind[n] = "snap" /\ u \in 1..MaxUUIDs /\ Alone(n)
    /\ Locks(u)
    /\ Resolvable(u)
    /\ LET r == [Idle EXCEPT !.kind = "unsnap", !.n = n, !.uuid = u, !.todo = J!Members(u)] IN
       IF GroupExists(u) THEN Start(p, n, r, "delete")
                         ELSE Start(p, n, [r EXCEPT !.ok = TRUE], "finish")
    /\ wanted' = [wanted EXCEPT ![n] = {}]

\* Mutant: the reservation is removed first.
UndoFirst(p) ==
    LET r == req[p] IN
    /\ pc[p] = "delete"
    /\ Goto(p, "undo", Undoing(r, Own(r.n), r.uuid, "finish"))
    /\ NoFault /\ UNCHANGED <<groupJournal, ids, rbd, snaps>>
    /\ UNCHANGED others

\* snapshot.Delete: the image of the snapshot ...
DeleteImage(p) ==
    LET r == req[p] IN
    /\ pc[p] = "delete"
    /\ IF r.todo = {}
       THEN /\ Goto(p, "undo", Undoing(r, Own(r.n), r.uuid, "finish"))
            /\ NoFault /\ UNCHANGED <<groupJournal, ids, rbd, snaps>>
       ELSE \E s \in r.todo :
              \/ /\ snaps' = [snaps EXCEPT ![s].image = FALSE]
                 /\ Goto(p, "unsnap", [r EXCEPT !.cur = s])
                 /\ NoFault /\ UNCHANGED <<groupJournal, ids, rbd>>
              \/ Fails(p, "finish", r)
    /\ UNCHANGED others

\* ... and its reservation.
UndoSnapReservation(p) ==
    LET r == req[p] IN
    /\ pc[p] = "unsnap"
    /\ \/ /\ snaps' = [snaps EXCEPT ![r.cur] = NoSnap]
          /\ Goto(p, "delete", [r EXCEPT !.todo = @ \ {r.cur}])
          /\ NoFault /\ UNCHANGED <<groupJournal, ids, rbd>>
       \/ Fails(p, "finish", r)
    /\ UNCHANGED others

-----------------------------------------------------------------------------
(* CSI-Addons: CreateVolumeGroup, ModifyVolumeGroupMembership, DeleteVolumeGroup, *)
(* without a lock                                                                 *)

\* CompareVolumesInGroup: the group that the volumes are in is empty, or has as many.
CompareVolumesInGroup(vols, u) ==
    J!Members(u) = {} \/ Cardinality(J!Members(u)) = Cardinality(vols)

AddonsCreateVolumeGroup(p, n) ==
    LET vg == GroupOf(Sources(n))
        r == [Idle EXCEPT !.kind = "group", !.n = n, !.vg = vg,
                          !.members = IF vg = NoUUID THEN {} ELSE J!Members(vg)]
    IN  /\ scenario.kind[n] = "group" /\ granted[n] = NoUUID
        /\ Alone(n)
        /\ VolumesInSameGroup(Sources(n))
        /\ vg # NoUUID => GroupExists(vg) /\ CompareVolumesInGroup(Sources(n), vg)
        /\ Start(p, n, r, "prepare")
        /\ UNCHANGED <<wanted, volumeGroupLocks>>

ModifyVolumeGroupMembership(p, n) ==
    LET u == granted[n] IN
    \E after \in SUBSET Sources(n) :
        LET r == [Idle EXCEPT !.kind = "modify", !.n = n, !.vg = u, !.members = J!Members(u),
                              !.todo = J!Members(u) \ after, !.later = after \ J!Members(u)]
        IN  /\ scenario.kind[n] = "group" /\ u \in 1..MaxUUIDs
            /\ Alone(n) /\ GroupExists(u)
            /\ after # J!Members(u) \/ after # wanted[n]
            /\ Start(p, n, r, "rm")
            /\ wanted' = [wanted EXCEPT ![n] = after]
            /\ UNCHANGED volumeGroupLocks

\* A group with volumes is not deleted, one that is not found is.
DeleteVolumeGroup(p, n) ==
    LET u == granted[n]
        r == [Idle EXCEPT !.kind = "ungroup", !.n = n, !.vg = u]
    IN  /\ scenario.kind[n] = "group" /\ u \in 1..MaxUUIDs
        /\ Alone(n) /\ wanted[n] = {}
        /\ IF GroupExists(u) THEN J!Members(u) = {} /\ Start(p, n, r, "ungroup")
                             ELSE Start(p, n, [r EXCEPT !.ok = TRUE], "finish")
        /\ UNCHANGED <<wanted, volumeGroupLocks>>

-----------------------------------------------------------------------------
(* The end of a call, and of the process *)

\* The CO takes the answer to the call it waits for; the lock is released.
Finish(p) ==
    LET r == req[p]
        answers == waiting[r.n] = p
    IN  /\ pc[p] = "finish"
        /\ Goto(p, "idle", Idle)
        /\ volumeGroupLocks' = volumeGroupLocks \ (CASE r.kind = "snap"   -> {r.n}
                                                     [] r.kind = "unsnap" -> {granted[r.n]}
                                                     [] OTHER             -> {})
        /\ waiting' = [waiting EXCEPT ![r.n] = IF answers THEN NoRequest ELSE @]
        /\ granted' = [granted EXCEPT ![r.n] =
                         CASE answers /\ r.ok /\ r.kind \in {"snap", "group"}     -> r.handle
                           [] answers /\ r.ok /\ r.kind \in {"unsnap", "ungroup"} -> Gone
                           [] OTHER                                               -> @]
        /\ given' = [given EXCEPT ![r.n] =
                       IF answers /\ r.ok /\ r.kind = "snap" THEN J!Members(r.handle) ELSE @]
        /\ NoFault
        /\ UNCHANGED <<scenario, crashes, groupJournal, ids, rbd, snaps, wanted>>

\* The provisioner restarts: calls and locks are gone.
Restart ==
    /\ crashes > 0 /\ crashes' = crashes - 1
    /\ \E p \in Requests : pc[p] # "idle"
    /\ pc' = [p \in Requests |-> "idle"]
    /\ req' = [p \in Requests |-> Idle]
    /\ volumeGroupLocks' = {}
    /\ waiting' = [n \in Names |-> NoRequest]
    /\ UNCHANGED <<scenario, faults, groupJournal, ids, rbd, snaps, granted, wanted, given>>

Call(p) == \E n \in Names : \/ CreateVolumeGroupSnapshot(p, n)
                            \/ DeleteVolumeGroupSnapshot(p, n)
                            \/ AddonsCreateVolumeGroup(p, n)
                            \/ ModifyVolumeGroupMembership(p, n)
                            \/ DeleteVolumeGroup(p, n)

Step(p) == \/ ReserveObject(p) \/ ReserveKey(p) \/ ReserveAttributes(p)
           \/ UndoObject(p) \/ UndoKey(p)
           \/ GetVolumeGroupSnapshotByName(p) \/ CreateVolumeGroup(p) \/ GroupCreate(p)
           \/ AddToGroup(p) \/ AddMapping(p) \/ CheckExistingSnapshots(p)
           \/ GroupSnapCreate(p) \/ ReserveSnap(p) \/ CloneImage(p) \/ GroupSnapRemove(p)
           \/ SetVolumeGroup(p) \/ NewVolumeGroupSnapshot(p)
           \/ Cleanup(p) \/ RemoveFromGroup(p) \/ RemoveMapping(p) \/ GroupRemove(p)
           \/ DeleteImage(p) \/ UndoSnapReservation(p)
           \/ Finish(p)

GroupsNext == Restart \/ \E p \in Requests : Call(p) \/ Step(p)

-----------------------------------------------------------------------------
(* Properties *)

Quiet == \A p \in Requests : pc[p] = "idle"
Undisturbed == faults = scenario.faults /\ crashes = scenario.crashes

Held(n) == scenario.kind[n] = "snap" /\ granted[n] \in 1..MaxUUIDs /\ wanted[n] # {}

\* A group snapshot that was granted, and is not being deleted, has one snapshot of
\* each source volume, all taken at one time, under the name of its request; the
\* journal of each has the id of the group snapshot.
GroupSnapshotWhole ==
    \A n \in Names : Held(n) =>
        LET u == granted[n]
            members == J!Members(u)
        IN  /\ csiDirectory[Own(n)] = u /\ J!Attributes(u).reqName = Own(n)
            /\ members = given[n] /\ Resolvable(u)
            /\ {snaps[s].vol : s \in members} = Sources(n)
            /\ Cardinality(members) = Cardinality(Sources(n))
            /\ \A s, t \in members : snaps[s].at = snaps[t].at
            /\ \A s \in members : snaps[s].group = u

\* Once its deletion succeeded, no snapshot of a group snapshot is left.
GroupSnapshotDeleted ==
    \A n \in Names : granted[n] = Gone => \A s \in given[n] : snaps[s] = NoSnap

\* The members of a volume group are those that the last call asked for, in the
\* journal and in RBD, when no call runs and none was disturbed.
VolumeGroupAgrees ==
    \A n \in Names :
        scenario.kind[n] = "group" /\ granted[n] \in 1..MaxUUIDs /\ Quiet /\ Undisturbed =>
            /\ J!Members(granted[n]) = wanted[n]
            /\ {v \in Volumes : inGroup[v] = granted[n]} = wanted[n]

\* Undisturbed calls leave nothing behind: no temporary group, no group snapshot,
\* no snapshot and no reservation that does not belong to a request name.
NoGroupLeftBehind ==
    Quiet /\ Undisturbed =>
        /\ groupSnaps = {}
        /\ \A u \in 1..MaxUUIDs : groupObjects[u] # NoObject => csiDirectory[groupObjects[u].reqName] = u
        /\ \A n \in Names : csiDirectory[Temporary(n)] = NoUUID
        /\ \A u \in groups : \E n \in Names : scenario.kind[n] = "group" /\ csiDirectory[Own(n)] = u
        /\ \A s \in 1..MaxSnaps : snaps[s] # NoSnap => \E u \in 1..MaxUUIDs : s \in J!Members(u)

=============================================================================
