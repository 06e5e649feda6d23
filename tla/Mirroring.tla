----------------------------- MODULE Mirroring -----------------------------
(***************************************************************************)
(* Replication of an RBD volume between two clusters: the csi-addons       *)
(* replication server (internal/csi-addons/rbd/replication.go, over        *)
(* internal/rbd/mirror.go and internal/rbd/replication.go), one on each    *)
(* site, and the rbd-mirror daemons between the sites, which are external. *)
(*                                                                         *)
(* The volume has an image on each site.  Every call holds the lock of the *)
(* volume, so that one call runs on a site at a time.  The orchestrator    *)
(* wants the volume to be primary on one site: it promotes there, demotes  *)
(* and resyncs on the other one, and changes its mind between calls.       *)
(***************************************************************************)
EXTENDS Integers, FiniteSets

CONSTANTS Sites,
          Nodes, Controller,      \* of a site, and the one the controller runs on
          MaxWrites, MaxImages,   \* bounds: writes, images
          NoImage,
          Scenarios   \* [parent, flatten, force, hasty, faults, crashes, moves, nodes]

VARIABLES scenario, faults, crashes, moves,
          desired,    \* the site that the orchestrator wants to be primary
          writes,     \* history: how many writes were made
          forced,     \* history: a promotion was forced
          nextImage,
          image,      \* site |-> the image, or NoImage
          parent,     \* the parent of the image on the first site
          imageID,    \* site |-> the image's id in the journal
          clients,    \* site |-> nodes with a key in the image's metadata
          schedule,   \* site |-> snapshots are scheduled
          pc, req,    \* the call that runs on a site
          fresh,      \* history: the image is of a resync, and was not demoted since
          restarted,  \* history: how often a resync was requested for such an image
          early       \* history: a volume was called ready before it was synced

mvars == <<scenario, faults, crashes, moves, desired, writes, forced, nextImage, image, parent,
           imageID, clients, schedule, pc, req, fresh, restarted, early>>

Peer(s) == CHOOSE t \in Sites : t # s

\* An image of generation id, which stands for its creation time as well.  Its data are
\* the writes it has.  orphan: its last mirror snapshot says that the primary was demoted.
\* linked: it can follow the peer; saved: the creation time kept in its metadata, or 0;
\* resync: a resync was requested.
NewImage(id) == [id |-> id, enabled |-> TRUE, primary |-> FALSE, data |-> {}, orphan |-> FALSE,
                 linked |-> TRUE, saved |-> 0, resync |-> FALSE, syncing |-> FALSE]

Idle == [kind |-> "none", force |-> FALSE, ready |-> FALSE, syncing |-> FALSE, created |-> 0,
         data |-> {}]

MirroringTypeOK ==
    /\ faults \in 0..scenario.faults /\ crashes \in 0..scenario.crashes
    /\ moves \in 0..scenario.moves /\ desired \in Sites /\ writes \in 0..MaxWrites
    /\ \A s \in Sites : image[s] # NoImage =>
         /\ image[s].id \in 1..(nextImage - 1) /\ image[s].data \subseteq 1..writes
         /\ image[s].primary \/ image[s].syncing \/ image[s].resync => image[s].enabled
    /\ imageID \in [Sites -> 0..MaxImages]
    /\ clients \in [Sites -> SUBSET Nodes]
    /\ restarted \in [Sites -> 0..2]
    /\ \A s \in Sites : pc[s] = "idle" <=> req[s] = Idle

MirroringInit ==
    /\ scenario \in Scenarios
    /\ faults = scenario.faults /\ crashes = scenario.crashes /\ moves = scenario.moves
    /\ desired = CHOOSE s \in Sites : TRUE   \* the sites are alike
    /\ writes = 0 /\ forced = FALSE
    /\ nextImage = 2
    /\ image = [s \in Sites |-> IF s = desired THEN [NewImage(1) EXCEPT !.enabled = FALSE] ELSE NoImage]
    /\ parent = scenario.parent
    /\ imageID = [s \in Sites |-> IF s = desired THEN 1 ELSE 0]
    /\ clients = [s \in Sites |-> {}]
    /\ schedule = [s \in Sites |-> FALSE]
    /\ pc = [s \in Sites |-> "idle"] /\ req = [s \in Sites |-> Idle]
    /\ fresh = [s \in Sites |-> FALSE] /\ restarted = [s \in Sites |-> 0] /\ early = FALSE

-----------------------------------------------------------------------------
(* What the daemons and the status of an image say (external) *)

Exists(s) == image[s] # NoImage
Enabled(s) == Exists(s) /\ image[s].enabled
Primary(s) == Enabled(s) /\ image[s].primary

\* GetLocalSiteStatus of a site; the daemon is up.
State(s) ==
    CASE Primary(s)                                  -> "stopped"
      [] ~Primary(s) /\ ~image[s].linked             -> "error"
      [] ~Primary(s) /\ image[s].linked /\ image[s].syncing -> "syncing"
      [] OTHER -> IF image[s].orphan /\ ~Primary(Peer(s)) THEN "unknown" ELSE "replaying"

\* GetLastSyncInfo: the description of the status has the bytes that are left to sync; a
\* status without one is not syncing.
IsSyncing(s) == State(s) = "syncing"

\* checkRemoteSiteStatus: the remote site is up and unknown.
RemoteReady(s) == Enabled(Peer(s)) /\ State(Peer(s)) = "unknown"

Set(s, i) == image' = [image EXCEPT ![s] = i]

daemon == <<scenario, faults, crashes, moves, desired, writes, forced, parent, imageID, schedule,
            pc, req, restarted, early>>

\* A secondary image that can follow its peer gets the peer's data, also the last ones
\* of a primary that was demoted; the image is created when it is missing.
Replay(s) ==
    LET t == Peer(s) IN
    /\ Enabled(t) /\ (Primary(t) \/ image[t].orphan) /\ ~image[t].syncing
    /\ \/ /\ Enabled(s) /\ ~Primary(s) /\ image[s].linked /\ ~image[s].syncing
          /\ image[t].linked
          /\ Set(s, [image[s] EXCEPT !.data = image[t].data, !.orphan = image[t].orphan])
          /\ image[s].data \subseteq image[t].data
          /\ UNCHANGED <<nextImage, clients, fresh>>
       \/ /\ ~Exists(s) /\ Primary(t) /\ nextImage <= MaxImages
          /\ Set(s, [NewImage(nextImage) EXCEPT !.syncing = TRUE])
          /\ nextImage' = nextImage + 1
          /\ clients' = [clients EXCEPT ![s] = {}]
          /\ UNCHANGED fresh
    /\ UNCHANGED daemon

\* The image is deleted for a resync, once there is a primary to get the data from.
DeleteForResync(s) ==
    /\ Enabled(s) /\ image[s].resync /\ Primary(Peer(s))
    /\ Set(s, NoImage)
    /\ fresh' = [fresh EXCEPT ![s] = TRUE]
    /\ UNCHANGED <<daemon, nextImage, clients>>

\* The first copy of an image is complete; both sites can follow each other again.
SyncDone(s) ==
    LET t == Peer(s) IN
    /\ Enabled(s) /\ image[s].syncing /\ Primary(t)
    /\ image' = [image EXCEPT ![s] = [@ EXCEPT !.data = image[t].data, !.syncing = FALSE],
                              ![t].linked = TRUE]
    /\ UNCHANGED <<daemon, nextImage, clients, fresh>>

-----------------------------------------------------------------------------
(* Workload and orchestrator *)

\* NodeStageVolume leaves the node's keys in the metadata of a primary image;
\* ControllerUnpublishVolume removes them, which an image that is not primary refuses.
NodeStage(s, n) ==
    /\ s = desired /\ pc[s] = "idle" /\ Exists(s) /\ (Enabled(s) => Primary(s))
    /\ n \in scenario.nodes /\ clients[s] = {}
    /\ clients' = [clients EXCEPT ![s] = {n}]
    /\ UNCHANGED <<daemon, nextImage, image, fresh>>

ControllerUnpublish(s, n) ==
    /\ n \in clients[s] /\ pc[s] = "idle" /\ Exists(s) /\ (Enabled(s) => Primary(s))
    /\ clients' = [clients EXCEPT ![s] = @ \ {n}]
    /\ UNCHANGED <<daemon, nextImage, image, fresh>>

Write(s) ==
    /\ clients[s] # {} /\ Exists(s) /\ (Enabled(s) => Primary(s)) /\ writes < MaxWrites
    /\ writes' = writes + 1
    /\ Set(s, [image[s] EXCEPT !.data = @ \cup {writes + 1}])
    /\ UNCHANGED <<scenario, faults, crashes, moves, desired, forced, nextImage, parent, imageID,
                   clients, schedule, pc, req, fresh, restarted, early>>

\* The orchestrator wants the other site, which follows this one, and stops the workload.
Move ==
    /\ moves > 0 /\ moves' = moves - 1
    /\ \A s \in Sites : pc[s] = "idle" /\ Enabled(s)
    /\ Primary(desired) /\ State(Peer(desired)) = "replaying" /\ ~image[Peer(desired)].orphan
    /\ desired' = Peer(desired)
    /\ UNCHANGED <<scenario, faults, crashes, writes, forced, nextImage, image, parent, imageID,
                   clients, schedule, pc, req, fresh, restarted, early>>

-----------------------------------------------------------------------------
(* The replication server *)

Goto(s, label, r) == /\ pc' = [pc EXCEPT ![s] = label]
                     /\ req' = [req EXCEPT ![s] = r]
Return(s) == Goto(s, "idle", Idle)

Fault == faults > 0 /\ faults' = faults - 1
NoFault == UNCHANGED faults
unmoved == <<scenario, crashes, moves, desired, writes, nextImage>>

\* A call to the cluster fails, and the handler returns the error.
Fails(s) == /\ Fault /\ Return(s)
            /\ UNCHANGED <<forced, image, parent, imageID, clients, schedule, fresh, restarted, early>>

Turns(s, label, r) == /\ NoFault /\ Goto(s, label, r)
                      /\ UNCHANGED <<forced, image, parent, imageID, clients, schedule, fresh, restarted, early>>

Call(s, kind, force) == [Idle EXCEPT !.kind = kind, !.force = force]

\* flattenRbdImage, forced: a task for the manager of the cluster.  ErrFlattenInProgress
\* ends the call whether the task is done already or not.
FlattenRbdImage == parent' = "none"

\* Mutant: the parent of an image is not looked at.
HandleParentUnchecked(s) == Turns(s, "enable", req[s])

\* HandleParentImageExistence: an image with a parent is flattened on request, which is
\* a task in the cluster, so that the call is refused; a parent in the trash, or one that
\* is not mirrored, refuses it too.
HandleParent(s) ==
    IF parent = "none" \/ (~scenario.flatten /\ parent = "mirrored") THEN Turns(s, "enable", req[s])
    ELSE IF scenario.flatten
         THEN \/ /\ FlattenRbdImage
                 /\ Return(s)
                 /\ NoFault /\ UNCHANGED <<forced, image, imageID, clients, schedule, fresh, restarted, early>>
              \/ Fails(s)
         ELSE Turns(s, "idle", Idle)

\* EnableVolumeReplication
EnableVolumeReplication(s) ==
    /\ pc[s] = "idle" /\ s = desired /\ Exists(s) /\ ~Enabled(s)
    /\ Turns(s, "parent", Call(s, "enable", FALSE))
    /\ UNCHANGED unmoved

CheckParent(s) == pc[s] = "parent" /\ HandleParent(s) /\ UNCHANGED unmoved

EnableMirroring(s) ==
    /\ pc[s] = "enable"
    /\ \/ /\ Set(s, [image[s] EXCEPT !.enabled = TRUE, !.primary = TRUE])
          /\ Return(s)
          /\ NoFault /\ UNCHANGED <<forced, parent, imageID, clients, schedule, fresh, restarted, early>>
       \/ Fails(s)
    /\ UNCHANGED unmoved

\* Mutant: the image is no longer mirrored, but keeps its role.
DisabledAsPrimary(s) == [image EXCEPT ![s] = [@ EXCEPT !.enabled = FALSE],
                                      ![Peer(s)] = NoImage]

\* What the daemons make of DisableMirroring on the primary.
Disabled(s) == [image EXCEPT ![s] = [@ EXCEPT !.enabled = FALSE, !.primary = FALSE],
                             ![Peer(s)] = NoImage]

\* DisableVolumeReplication: on the primary, and the images of the other sites go; a call
\* on a secondary changes nothing.  The orchestrator asks for it on the site where it wants
\* the volume, when the other one is at rest.
DisableVolumeReplication(s) ==
    /\ pc[s] = "idle" /\ s = desired /\ Primary(s) /\ pc[Peer(s)] = "idle"
    /\ Exists(Peer(s)) => ~Primary(Peer(s)) /\ ~image[Peer(s)].syncing /\ image[Peer(s)].linked
    /\ \/ /\ image' = Disabled(s)
          /\ NoFault /\ UNCHANGED <<pc, req>>
          /\ UNCHANGED <<forced, parent, imageID, clients, schedule, fresh, restarted, early>>
       \/ Fails(s)
    /\ UNCHANGED unmoved

\* PromoteVolume: a secondary is promoted.  Without force librbd does it only when the
\* last primary was demoted; with force the two sites cannot follow each other any more.
PromoteVolume(s) ==
    /\ pc[s] = "idle" /\ s = desired /\ Enabled(s)
    /\ \E force \in {FALSE, scenario.force} :
         Turns(s, IF Primary(s) THEN "schedule" ELSE "promote", Call(s, "promote", force))
    /\ UNCHANGED unmoved

\* Mutant: every promotion is forced.
PromoteForced(s) == Enabled(s) /\ ~image[s].syncing

\* Promote, as librbd does it.
Promotable(s) == Enabled(s) /\ ~image[s].syncing /\ (image[s].orphan \/ req[s].force)

Promote(s) ==
    LET t == Peer(s)
        split == ~image[s].orphan
    IN  /\ pc[s] = "promote"
        /\ \/ /\ Promotable(s)
              /\ image' = [image EXCEPT ![s] = [@ EXCEPT !.primary = TRUE, !.orphan = FALSE,
                                                         !.resync = FALSE, !.linked = @ /\ ~split],
                                        ![t] = IF split /\ Exists(t) THEN [@ EXCEPT !.linked = FALSE] ELSE @]
              /\ forced' = (forced \/ (split /\ req[s].force))
              /\ Goto(s, "schedule", req[s])
              /\ NoFault /\ UNCHANGED <<parent, imageID, clients, schedule, fresh, restarted, early>>
           \/ ~Promotable(s) /\ Turns(s, "idle", Idle)
           \/ Fails(s)
        /\ UNCHANGED unmoved

\* AddSnapshotScheduling
AddSnapshotScheduling(s) ==
    /\ pc[s] = "schedule"
    /\ \/ /\ schedule' = [schedule EXCEPT ![s] = TRUE]
          /\ Return(s)
          /\ NoFault /\ UNCHANGED <<forced, image, parent, imageID, clients, fresh, restarted, early>>
       \/ Fails(s)
    /\ UNCHANGED unmoved

\* checkVolumeUnpublished looks for the keys of the node that the controller runs on.
CheckVolumeUnpublished(s) == Controller \notin clients[s]

\* DemoteVolume: the creation time of the image is kept in its metadata, if none is ...
DemoteVolume(s) ==
    /\ pc[s] = "idle" /\ s # desired /\ Primary(s)
    /\ CheckVolumeUnpublished(s)
    /\ \/ /\ Set(s, [image[s] EXCEPT !.saved = IF @ = 0 THEN image[s].id ELSE @])
          /\ Goto(s, "demote", Call(s, "demote", FALSE))
          /\ NoFault /\ UNCHANGED <<forced, parent, imageID, clients, schedule, fresh, restarted, early>>
       \/ Fails(s)
    /\ UNCHANGED unmoved

\* ... and the image is demoted.
Demote(s) ==
    /\ pc[s] = "demote"
    /\ \/ /\ Set(s, [image[s] EXCEPT !.primary = FALSE, !.orphan = TRUE])
          /\ fresh' = [fresh EXCEPT ![s] = FALSE]
          /\ restarted' = [restarted EXCEPT ![s] = 0]
          /\ Return(s)
          /\ NoFault /\ UNCHANGED <<forced, parent, imageID, clients, schedule, early>>
       \/ Fails(s)
    /\ UNCHANGED unmoved

\* ResyncVolume, on a secondary: GetVolumeByID has read the creation time of the image, and
\* the status is read.  Both sites being up and unknown is "ready".  The orchestrator
\* forces a resync of an image that cannot follow; a hasty one, any time.
ResyncVolume(s) ==
    /\ pc[s] = "idle" /\ s # desired /\ Enabled(s) /\ ~Primary(s)
    /\ \E force \in {FALSE, scenario.hasty \/ State(s) = "error"} :
         Turns(s, "resync", [Call(s, "resync", force) EXCEPT
                               !.ready = State(s) = "unknown" /\ RemoteReady(s),
                               !.syncing = IsSyncing(s), !.created = image[s].id,
                               !.data = image[s].data \cup (IF Exists(Peer(s)) THEN image[Peer(s)].data ELSE {})])
    /\ UNCHANGED unmoved

\* Mutant: the creation time is not compared.
NeedsResyncAlways(s) == req[s].force /\ ~req[s].syncing

\* Only the image that was demoted here is thrown away, and not while it is synced; the
\* time in its metadata is read now.
NeedsResync(s) == req[s].force /\ image[s].saved = req[s].created /\ ~req[s].syncing

\* The second part of ResyncVolume, until the times are compared.
CompareCreationTime(s) ==
    /\ pc[s] = "resync"
    /\ \/ Exists(s) /\ Turns(s, IF NeedsResync(s) THEN "issue" ELSE "status", req[s])
       \/ ~Exists(s) /\ Turns(s, "idle", Idle)
       \/ Fails(s)
    /\ UNCHANGED unmoved

\* Resync opens the image of that name again, which may be another one by now; one that
\* does not exist any more, or is primary, is an error.
Resync(s) ==
    /\ pc[s] = "issue"
    /\ \/ /\ Enabled(s) /\ ~Primary(s)
          /\ Set(s, [image[s] EXCEPT !.resync = TRUE])
          /\ restarted' = [restarted EXCEPT ![s] = IF fresh[s] /\ @ < 2 THEN @ + 1 ELSE @]
          /\ Goto(s, "wait", req[s])
          /\ NoFault /\ UNCHANGED <<forced, parent, imageID, clients, schedule, fresh, early>>
       \/ (~Enabled(s) \/ Primary(s)) /\ Turns(s, "idle", Idle)
       \/ Fails(s)
    /\ UNCHANGED unmoved

\* Resync waits until the image is syncing; it is "unavailable" when it is not.
ResyncWait(s) ==
    /\ pc[s] = "wait" /\ Exists(s)
    /\ IF IsSyncing(s) THEN Turns(s, "status", req[s]) ELSE Turns(s, "idle", Idle)
    /\ UNCHANGED unmoved

\* checkVolumeResyncStatus: a volume that is not ready has to be on its way.
CheckVolumeResyncStatus(s) ==
    /\ pc[s] = "status"
    /\ IF req[s].ready THEN Turns(s, "repair", req[s]) ELSE Turns(s, "idle", Idle)
    /\ UNCHANGED unmoved

\* Mutant: the id that the journal has is good enough.
RepairSkipped(s) == imageID

\* RepairResyncedImageID: the id of the new image goes into the journal.
Repaired(s) == [imageID EXCEPT ![s] = image[s].id]

\* The volume is called ready.
RepairResyncedImageID(s) ==
    /\ pc[s] = "repair"
    /\ \/ /\ Exists(s)
          /\ imageID' = Repaired(s)
          /\ early' = IF req[s].data \subseteq image[s].data /\ imageID'[s] = image[s].id
                      THEN early ELSE TRUE
          /\ Return(s)
          /\ NoFault /\ UNCHANGED <<forced, image, parent, clients, schedule, fresh, restarted>>
       \/ ~Exists(s) /\ Turns(s, "idle", Idle)
       \/ Fails(s)
    /\ UNCHANGED unmoved

\* The controller of a site restarts.
Restart(s) ==
    /\ crashes > 0 /\ crashes' = crashes - 1
    /\ pc[s] # "idle" /\ Return(s)
    /\ UNCHANGED <<scenario, faults, moves, desired, writes, forced, nextImage, image, parent,
                   imageID, clients, schedule, fresh, restarted, early>>

Server(s) ==
    \/ EnableVolumeReplication(s) \/ CheckParent(s) \/ EnableMirroring(s)
    \/ DisableVolumeReplication(s)
    \/ PromoteVolume(s) \/ Promote(s) \/ AddSnapshotScheduling(s)
    \/ DemoteVolume(s) \/ Demote(s)
    \/ ResyncVolume(s) \/ CompareCreationTime(s) \/ Resync(s) \/ ResyncWait(s)
    \/ CheckVolumeResyncStatus(s) \/ RepairResyncedImageID(s)
    \/ Restart(s)

MirroringNext ==
    \/ Move
    \/ \E s \in Sites : \/ Server(s) \/ Write(s)
                        \/ Replay(s) \/ DeleteForResync(s) \/ SyncDone(s)
                        \/ \E n \in Nodes : NodeStage(s, n) \/ ControllerUnpublish(s, n)

-----------------------------------------------------------------------------
(* Properties *)

\* As long as no promotion had to be forced, the primary has every write that was ever
\* made, whichever site it is on: to move the volume loses nothing.
WritesKept ==
    ~forced => \A s \in Sites : Primary(s) => image[s].data = 1..writes

\* The calls of an orchestrator that asks for a resync again and again come to an end: an
\* image that a resync made is thrown away by another one at most once, before it is
\* promoted and demoted again.  It can happen once, when the daemon replaces the image
\* between the comparison of its creation time and the request.
ResyncEnds == \A s \in Sites : restarted[s] <= 1

\* A volume that ResyncVolume calls ready has the data that the two sites had when the
\* call began, and the journal has the id of its image.  Not so when a resync is forced of
\* an image that is in order (README, Known disagreements).
ReadyIsSynced == scenario.hasty \/ ~early

\* An image is mirrored only when it has no parent, or one that is mirrored too.
ParentMirrored == \A s \in Sites : Enabled(s) => parent \in {"none", "mirrored"}

\* No node's keys are left in the metadata of an image that was demoted: the image is
\* read-only and they could not be removed any more.  Does not hold when another node
\* than the controller's has the volume (README, Known disagreements).
UnpublishedWhenDemoted ==
    \A s \in Sites : Enabled(s) /\ ~Primary(s) /\ image[s].orphan => clients[s] = {}
=============================================================================
