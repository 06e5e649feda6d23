# A TLA+ verification of Ceph-CSI

Ceph-CSI is the driver through which a container orchestrator (the CO) creates,
snapshots, attaches, mounts and deletes storage on a Ceph cluster: RBD images,
CephFS subvolumes, NFS exports and NVMe-oF namespaces. The CO repeats a request
until it is answered, requests overlap, calls to the cluster fail half way, and
provisioners and node plugins restart at any time. The driver keeps no database of
its own. What it knows between requests is in RADOS omaps, in image metadata, in
small files on the nodes and in the state of mounts. This directory models the
parts of the driver whose correctness depends on the order of such steps.

* Model-checked with TLC: `tlc -config X.cfg M`, where the table *Runs* gives `X`
  and `M`.
* Proved with TLAPS: `tlapm M.tla` for `RbdVolumesInvariant` and each module `M` whose name
  ends in `Proofs`.
* `PROJECT.json` maps every definition to the source lines it stands for.

Contents: [the system](#the-system-and-its-parts), [the models](#the-models),
[runs](#runs), [bounds](#bounds), [fairness](#fairness), [proofs](#proofs),
[known disagreements](#known-disagreements), [what is not
modelled](#what-is-not-modelled).

## The system and its parts

| Part | Source | Modelled in |
| --- | --- | --- |
| Journal of volumes and snapshots: name → UUID → attributes | `internal/journal` | `VolJournal` |
| RBD controller: CreateVolume, DeleteVolume | `internal/rbd/controllerserver.go`, `rbd_journal.go`, `rbd_util.go` | `RbdVolumes` |
| RBD controller: CreateSnapshot, DeleteSnapshot | the same, `snapshot.go`, `encryption.go` | `RbdSnapshots` |
| RBD volumes with a content source: clones, restores, flattening | the same, `clone.go`, `rbd_util.go` | `RbdClones` |
| RBD node server, rbd-nbd healer | `internal/rbd/nodeserver.go`, `rbd_attach.go`, `rbd_healer.go` | `RbdNode`, `NodeCalls` |
| CephFS controller: volumes and clones | `internal/cephfs/controllerserver.go`, `store`, `core` | `CephfsVolumes` |
| CephFS controller: snapshots, shallow volumes | the same, `store/backingsnapshot.go` | `CephfsSnapshots`, `References` |
| CephFS node server, FUSE recovery | `internal/cephfs/nodeserver.go`, `fuserecovery.go`, `mounter` | `CephfsNode`, `NodeCalls` |
| Journal of groups | `internal/journal/volumegroupjournal.go` | `GroupJournal` |
| RBD group snapshots, csi-addons volume groups | `internal/rbd/group_controllerserver.go`, `manager.go`, `group`, `internal/csi-addons/rbd/volumegroup.go` | `RbdGroups` |
| CephFS group snapshots | `internal/cephfs/groupcontrollerserver.go`, `core/quiesce.go` | `CephfsGroups` |
| Replication of RBD volumes | `internal/csi-addons/rbd/replication.go`, `internal/rbd/mirror.go` | `Mirroring` |
| Fencing of nodes and networks | `internal/csi-addons/networkfence`, Controller(Un)PublishVolume of both drivers | `Fencing` |
| NVMe-oF controller and gateway | `internal/nvmeof/controller`, `nvmeof.go` | `NvmeofController` |
| NVMe-oF node server and initiator | `internal/nvmeof/nodeserver` | `NvmeofNode`, `GroupLock` |
| NFS controller and node server | `internal/nfs` | `NfsVolumes` |
| Locks of the controllers | `internal/util/idlocker.go` | `OperationLocks` |
| Group lock of the NVMe-oF node server | `internal/util/lock/group_lock.go` | `GroupLock` |
| Pool of RADOS connections | `internal/util/conn_pool.go`, `connection.go` | `ConnPool` |
| Reference tracker | `internal/util/reftracker` | `References`, `RefSet`, `RefTracker` |
| Volume health checkers | `internal/health-checker` | `HealthChecker` |
| Rotation of encryption keys | `internal/rbd/encryption.go`, `internal/csi-addons/rbd/encryptionkeyrotation.go`, `internal/util/lock/lock.go` | `KeyRotation` |
| KMS clients, configuration, gRPC wiring, deployment | see [What is not modelled](#what-is-not-modelled) | no |

How the parts meet. A controller request takes the lock of its request name
(`idlocker.go`), looks the name up in the journal, reserves a UUID, makes the image
or subvolume that is named after the UUID and stores what a later request needs.
Deletion goes the other way, from the id that the CO holds. All requests of a
process share the connection pool. A shallow CephFS volume is not a subvolume: it
holds a reference on a snapshot in the reference tracker. On a node, staging makes
the one mount of the volume and publishing binds it for each pod.
NodeGetVolumeStats starts the health checkers, and unstaging stops them.

The other drivers build on these two. The NVMe-oF controller calls the RBD controller
and exposes the image as a namespace of a gateway; its node server connects, mounts and
disconnects under the group lock. The NFS controller calls the CephFS controller and
exports the subvolume. The csi-addons servers work on images that the controllers made:
they replicate, group, fence and rotate keys next to them, and share only some of their
locks.

## The models

General conventions:

* **One step is one call** to the cluster, the KMS or the operating system, or one
  section under a mutex. Requests interleave between steps. A request is a slot
  (`Requests`, `Calls`, `Callers`) with a program counter `pc` and a record `req` of
  the variables of its handler.
* **A failing call** has no effect, and takes the handler's error path. Exceptions:
  the write of a file may leave it torn.
* **A restart** (`Crash`, `Restart`) drops the requests and the locks in memory and
  leaves what is in the cluster or on the host. A RADOS operation is atomic.
* **A scenario** is the environment of a behaviour: how many calls may fail, how many
  restarts there are, what kind of volume it is. It is chosen in `Init` and never
  changes. A run explores a set of scenarios, which its MC module lists.
* **The CO** is part of the model (`granted`, `staged`, `published`). It repeats
  requests, and it does not publish what it has not staged. `overlap` says whether it
  may repeat a CreateVolume while it deletes the volume.
* Exceptions in properties are history variables (`abandoned`, `leaked`, `cut`,
  `exposed`). The code is known to lose something there, mostly with a log line, and
  the property says that nothing else is lost. Each is named below.
* Definitions whose comment starts with "Mutant:" are the mutated forms that show
  that a property depends on the code. Nothing uses them. A property that joins
  several claims (`ConnsAccounted`, `NothingForgotten`, `VolumeServed`...) has a mutated
  form that breaks one of them; the other claims are checked, not shown to be breakable.

**Journal** (`VolJournal`). Operators for the single RADOS operations of
`voljournal.go`: `CreateUUIDObject`, `SetNameKey`, `SetAttributes`, `StoreImageID`,
`RemoveUUIDObject`, `RemoveNameKey`, and what a check finds. `RbdVolumes` and
`RbdSnapshots` extend it and put their own steps in between. The image name is a
prefix and the UUID, so the UUID stands for both. One pool, one namespace.

**RBD volumes** (`RbdVolumes`). CreateVolume from the lock of the name through
CheckReservation, the repair of stale reservations, ReserveName, the image, its id
and its metadata, with the rollback of each step. DeleteVolume from the attributes
through the trash to UndoReservation. A mirror may demote an image (`Demote`).

**RBD snapshots** (`RbdSnapshots`). A CSI snapshot is a clone with a snapshot of its
own; the snapshot on the source is temporary. Every call of CreateSnapshot,
doSnapshotClone, createRBDClone, undoSnapshotCloning and DeleteSnapshot is a step,
with the passphrases in the KMS.

**CephFS snapshots** (`CephfsSnapshots`). CreateSnapshot, DeleteSnapshot, and
CreateVolume and DeleteVolume of shallow volumes. The reference tracker is the
atomic one (`References`), which `RefTracker` is shown to implement. Reservations are
made and undone in one step; `RbdVolumes` covers what happens inside.

**CephFS volumes** (`CephfsVolumes`). Empty volumes and clones. `CloneEnds` is the
cluster that completes or fails a clone in the background.

**RBD clones** (`RbdClones`). CreateVolume from a volume and from a snapshot: the
temporary image and its snapshots, flattening of parents and of children by depth and
by the number of snapshots, the expansion of the result, the copy of the passphrase,
the retries (checkCloneImage, checkSnapExists) and rollbacks, DeleteVolume and
DeleteSnapshot with their trash tasks, and the expansion of a source. Images form a graph of parents; a snapshot
that has children outlives its name, as in clone format 2.

**Groups** (`GroupJournal`, `RbdGroups`, `CephfsGroups`). `GroupJournal` has the omap
operations. An RBD image is in one group at most, so a CSI group snapshot makes a
temporary group, and meets the csi-addons volume groups that hold the same images.
CephFS quiesces the subvolumes as one set and takes a snapshot of each; a quiesce may
expire at any time.

**Replication** (`Mirroring`). One volume on two sites: enable with the parent of the
image, promote, demote, resync and disable on each site. The rbd-mirror daemons, the
workload and the orchestrator, which changes its mind where the primary should be, are
external. The data of an image is the set of writes that it has. ResyncVolume is four steps:
the status and the creation time, the comparison with the time in the metadata, the resync,
and what follows it; the image may be replaced between any two of them.

**Fencing** (`Fencing`). The addresses in the metadata of volumes, the blocklist, nodes
that go out of service and come back, ControllerUnpublishVolume of both drivers, network
fences and the automatic unfencing, in two steps. An entry of the blocklist is the time
that is left of it, and comes down: from more than three years (a network), through the
cool-down below three years (where that of a node begins), to less, and to none.

**NVMe-oF** (`NvmeofController`, `NvmeofNode`). The controller's calls to the gateway one
by one, with the rollback of CreateVolume, host admission and DH-CHAP keys; answers of the
gateway may be lost. The node server is composed with `GroupLock`: staging is group A,
unstaging group B, and the cache of mounted devices decides who disconnects.

**NFS** (`NfsVolumes`). The attributes in the journal, the exports, and the mounts on a
node. The driver takes no locks, so that a call the CO gave up may still run next to
its repetition. Reading the cluster and the name from the journal is one step.

**Node servers** (`NodeCalls`, `CephfsNode`, `RbdNode`). One volume on one node with
two target paths. `NodeCalls` has the CO, the calls and the volume locks that both
servers take. `CephfsNode` has what every path shows, the record that FUSE recovery
needs and daemons that die. `RbdNode` has the mapping, LUKS, mkfs, the mount, the
stash file, the stage transaction with its undo, expansion, reboots and the healer.
What a pod writes to a raw block device is assumed to be nothing that GetDiskFormat
recognises, the worst case for a driver that formats what looks empty (`NpBind`).

**Locks** (`OperationLocks`, `GroupLock`). Every method runs under its mutex and is a
step. `OperationLocks` takes IDLocker and OperationLock in the order in which the
controllers do. `GroupLock` has the condition variables.

**Connection pool** (`ConnPool`). Get, Copy, Put, the garbage collector and
CleanupConnections. The race on `users++` under the read lock is a step of its own,
which loses one increment; `races` counts how often it happened and a run bounds it.

**Reference tracker** (`References`, `RefSet`, `RefTracker`). `RefSet` is the promise:
a set of references that is changed atomically. `RefTracker` is the code: read the
version, read the object, write with a version assertion. `RefTracker!Atomic` is
the specification of `RefSet` under the refinement mapping, and it is proved. The width of the counter is a parameter.

**Health checkers** (`HealthChecker`). The registry, the goroutine of each checker
and the unbuffered stop channel. Time is abstracted to "the last update is overdue".

**Key rotation** (`KeyRotation`). Two LUKS slots, the KMS and the RADOS lock with its
expiry. The lock expires only when the holder's context has ended.

## Runs

The parts of a run do not interact: a behaviour belongs to the part that `Init`
chooses (`part`), and the others stand still.

| Run | Module, cfg | Shows |
| --- | --- | --- |
| `util` | `MCUtil`, `Util.cfg` | operation locks, connection pool, reference tracker (with the refinement), health checkers, key rotation |
| `liveness` | `MCLiveness`, `Liveness.cfg` | group lock; admission, StopChecker, and repeated CreateVolume and CreateSnapshot |
| `rbd_volumes` | `MCRbdVolumes`, `RbdVolumes.cfg` | CreateVolume and DeleteVolume |
| `rbd` | `MCRbd`, `Rbd.cfg` | RBD snapshots, RBD node server |
| `cephfs` | `MCCephfs`, `Cephfs.cfg` | CephFS snapshots, volumes, node server |
| `attach` | `MCAttach`, `Attach.cfg` | fencing, NVMe-oF controller, NVMe-oF node server, NFS |
| `groups` | `MCGroups`, `Groups.cfg` | RBD groups, CephFS groups, replication, RBD clones |
| `conn_pool_race` | `ConnPool`, `ConnPool_race.cfg` | violation of `HeldIsOpen` |
| `rbd_volumes_wedged` | `MCRbdVolumes`, `RbdVolumes_wedged.cfg` | violation of `NeverInconsistent` |
| `cephfs_shallow` | `MCCephfs`, `Cephfs_shallow.cfg` | violation of `BackingNeverLost` |
| `cephfs_fencing` | `MCAttach`, `Attach_cephfs.cfg` | violation of `SingleWriter` |
| `nvmeof_cut` | `MCAttach`, `Attach_cut.cfg` | violation of `StagedNeverCut` |

What the passing runs show:

* **Locks.** `NoConflict`: operations that exclude each other never run on one id.
  `LocksAreHolders`: the counters and flags are the running operations; for the flags
  this rests on the IDLocker.
* **Pool.** `ConnsAccounted`: as long as no increment is lost, the count of users is
  exact, nobody's connection is shut down and none leaks, although two Get calls may
  both connect.
* **Reference tracker.** `Atomic`: it implements `RefSet`. `CountExact`: also when the
  counter is at its limit.
* **Health checkers.** `CheckersAccounted` joins `NoCheckerLeak` and `StopHasReceiver` (a
  checker that runs can be found and stopped) and `UnhealthyHasCause` (no false alarm for
  a volume of which no check failed or was overdue). `StopReturns`: stopping does not hang.
* **Key rotation.** `RotationSafe` joins `KmsKeyOpens` (whatever step fails or restarts, the
  passphrase in the KMS opens the device) and `RevokedStaysOut` (a replaced one never does
  again).
* **Group lock.** `GroupExclusion`, `NoLostWakeup`, `EventuallyAdmitted`.
* **RBD volumes.** `GrantBacked`: what the CO holds keeps image and journal.
  `StableGrant`: CreateVolume is idempotent. `NameKeyUnderLock`: the key of a name changes
  only under its lock. `NothingLeaked` joins `NoOrphanImage` and `TrashReclaimable`: images
  stay known to the journal. `CreateSucceeds`: a failing call never wedges a name (a
  restart does, see `rbd_volumes_wedged`).
* **RBD snapshots.** `SnapshotUsable`: what the CO holds has clone, snapshot, passphrase
  and journal. `NothingForgotten`: clones, clones in the trash and snapshots on the
  sources stay known. `GrantOfSource`: a name is never answered with the snapshot of
  another source. `CreateSucceeds`: a repeated request succeeds, also after a
  restart.
* **RBD node.** `DataKept`: an image with data is never formatted. `NodeServes` joins
  `VolumeServed` (what is staged is complete and ready, what is published shows the
  volume) and `NodeReleased` (what is unstaged is gone, and no mapping is forgotten).
* **CephFS snapshots.** `GrantKept`: snapshots and shallow volumes keep their data in
  whatever order they are deleted. `NothingForgotten` (`NothingOrphaned`): no snapshot and
  no reference without an owner.
* **CephFS volumes.** `VolumeUsable`: complete, of the size that was asked for, without a
  temporary snapshot. `NothingForgotten` (`NothingLost`): what was made can be found by its
  name.
* **CephFS node.** `NodeServes`: targets show the volume, the record for the recovery is
  there, and what is unstaged is gone.
* **NVMe-oF.** `VolumeReachable`: a volume that the CO holds is a namespace with an image
  behind it (`VolumeExposed`, `NamespaceBacked`), a host that it is published to is admitted
  with its key (`HostAdmitted`), a staged volume is connected and the cache agrees with
  the mounts (`StagedReachable`, `CacheIsMounts`). `VolumeReleased`: nothing is left in the
  gateway or on the node of a volume that is gone, and the source of a clone stays.
* **NFS.** `VolumeReachable` (`NfsExported`): a volume is exported at the path that the CO
  knows, to the clients that were asked for, and a mount shows it. `VolumeReleased`
  (`NfsReleased`): no export, no attributes and no mount of a volume that is gone.
* **Fencing.** `SingleWriter`: a volume is not given to a node while another can write to
  it. `NodeDetached` (`NodeReleased`): nothing of a node stays in the metadata of a volume
  unpublished from it, and no mapping once it is back in service.
* **Groups.** `GroupConsistent`: a group snapshot that the CO holds has one snapshot of each
  volume, all of one point in time or of one quiesce, and writes go on. `NothingForgotten`:
  deleted group snapshots leave no snapshot, volume groups have the members asked for, and
  calls that nothing disturbed leave nothing behind.
* **Replication.** `ReplicationHonest`: a move of the primary keeps all writes unless it was
  forced (`WritesKept`), an image is mirrored only if its parent is or it has none
  (`ParentMirrored`), a resync is started over for its own result once at most (`ResyncEnds`), and
  what is called ready has the data (`ReadyIsSynced`, unless resyncs are forced for no reason).
* **RBD clones.** `CloneUsable`: a volume made from a source has the data and the size that
  were asked for, and its passphrase, and the chain of images below it stays shorter than
  the hard limit, or one longer than it where a parent is in the trash (`DepthBounded`).
  `NothingForgotten` (`ClonesAccounted`): every image, snapshot and passphrase
  made for a clone belongs to its reservation or is being removed.

Deadlock is checked in every run. The CO can always ask again, so a state without a
step would be a handler that hangs.

## Bounds

| Bound | Where | Why it is enough |
| --- | --- | --- |
| 3 callers, 2 ids | `OperationLocks` | a conflict has two parties, a third can take over what they leave |
| 4 goroutines | `GroupLock` | two of each group: the counter passes 1 and a waiter meets another |
| 3 users, 2 keys, 3 connections, 1 race | `ConnPool` | two that connect at once, a copy, and a connection made after a collection |
| 2 writers, 3 references, counter of 3, version 3 | `RefTracker` | a writer that loses to another, the limit of the counter, a tracker that is made again |
| 2 RPCs, 2 checkers (1 for liveness) | `HealthChecker` | a checker that is replaced while another RPC works on it |
| 2 nodes, 4 passphrases | `KeyRotation` | a rotation that is taken over, and two after each other |
| 2 names, up to 3 requests, 3 UUIDs, 3 images, 1 failure, 1 restart, 1 mirror | `RbdVolumes` | a reservation that fails, is repaired and made again next to another name |
| 2 names or 2 sources, 2 requests, 3 UUIDs, 2 failures and 1 restart, or 2 restarts | `RbdSnapshots` | a failing rollback takes two failures; what a restart leaves meets the next request and a restart in it |
| 1 snapshot, 2 shallow volumes, 2 requests, 3 UUIDs, 2 failures and 1 restart, or 2 restarts | `CephfsSnapshots` | the last of two references, the snapshot deleted first or last |
| 2 volumes of every kind, 2 requests, 3 UUIDs, 2 failures, 1 restart | `CephfsVolumes` | a failing purge takes two failures |
| 1 volume, 2 targets, 2 calls, up to 2 failures, 1 restart or dying daemon | `CephfsNode` | two publishes, or one against a stage or a recovery |
| 1 volume of every kind, 2 targets, 2 calls, up to 2 failures, 2 restarts or reboots, 1 expansion | `RbdNode` | the undo takes two failures; a retry meets what a restart left |

| 2 volumes, 2 nodes, 2 requests; 1 failure and 1 outage, 1 restart and 2 outages, or networks with 1 failure or 1 outage | `Fencing` | two outages let the first node come back while the second fails; a node may be fenced by both |
| 2 names, 3 ids, 1 host, 2 namespaces, up to 2 requests, 2 failures, 1 restart | `NvmeofController` | two volumes in one subsystem or in one each; a name made again with another id |
| 2 disks, 2 requests, 1 failure, 1 restart | `NvmeofNode` | one disk is staged or unstaged while the other decides to disconnect |
| 1 volume with 2 failures, 1 restart and 1 call given up, or 2 volumes of one friendly name | `NfsVolumes` | a call that runs late against the deletion of its volume |
| 2 names, 3 volumes, 2 requests, 1 failure or 1 restart | `RbdGroups` | a group snapshot next to another or to a volume group of the same images |
| 1 name, 2 volumes, 2 requests, expiry and 1 failure, or 1 restart | `CephfsGroups` | the quiesce expires between two snapshots |
| 2 sites, 2 writes, 4 images, 2 moves with 1 failure or 1 restart, or 1 move with resyncs forced at any time, every kind of parent | `Mirroring` | over and back, with a resync in between, and one that starts over |
| 3 or 4 names, 5 UUIDs, depth limit 4 or 5, up to 2 failures or 2 restarts | `RbdClones` | a chain of three, or two clones of one source side by side; a fourth link on top of parents in the trash |

Requests, UUIDs, targets, goroutines and names are symmetric: no handler compares
them, and the scenarios name no member of a symmetric set. The liveness run uses no
symmetry. In `RbdClones` a UUID is used again once nothing of its name is left, also not
in the trash, so that ids stay few.

`RbdGroups` is checked with a CO that makes no two calls at a time for the same volumes
(`serial`), unless it gave up waiting for the first: two group snapshots of the same volumes
at the same time violate `GroupSnapshotWhole` (see [below](#known-disagreements)).

The `RbdVolumes` properties marked `~ scenario.overlap` hold for a CO that waits for a
deletion before it asks for the name again. The others hold for every CO.

## Fairness

* `GroupLock`: weak fairness of entering and of releasing. The Go scheduler runs every
  runnable goroutine, and `sync.Mutex` does not starve one (starvation mode). Nobody
  has to call Acquire. The lock does not promise that one group gets in while the other
  keeps arriving, so `EventuallyAdmitted` assumes that the other group stops.
* `HealthChecker`: weak fairness of starting and of a system call that returns; strong
  fairness of the stop command, because the receiver is ready again and again in the
  `select` of the checker, and Go's `select` chooses among ready cases at random.
* `RbdVolumes`, `RbdSnapshots`: weak fairness of the steps of a running request, and of
  the repeated request: the external-provisioner repeats until it is answered. Failing
  calls are bounded and need not happen.

No fairness is assumed of the garbage collector, of timers, of restarts or of the CO's
deletions.

## Proofs

A module with proofs extends the module of its component, and the runs check the very
definitions that the theorems state. The theorems hold for every value of the constants
that the assumptions allow: `CallersFinite` in `LockCallers` for the two locks,
`NullsDistinct` and `ScenariosTyped` for the volumes, and the definition `Constants` in the
modules that have one (finite sets of users or of keys, bounds that are numbers, null values
that differ from the others).

**`GroupLockProofs`** proves `Spec => []GroupExclusion` (`Exclusion`) and
`Spec => []NoLostWakeup` (`WakeupKept`). Exclusion is not inductive: the code tests
counters, not goroutines. The inductive invariant `IInv` adds that the counter of a
group is the number of its active operations (`CountIsHolders`) and that at most one
counter is positive (`OneGroupCounted`). A goroutine parks only while the other
counter is positive, and the release that takes it to zero wakes all that are parked,
which gives `NoLostWakeup`.

**`LocksProofs`** proves of `OperationLocks` `Spec => []NoConflict` (`ConflictsExcluded`) and
`Spec => []LocksAreHolders` (`CountsExact`). Two ideas carry it. `MatrixComplete`: the
conflict matrix lists an exclusion in the rows of both operations, so that the later one
sees the earlier one whichever comes first. And a flag is exact because `IDOwned`
keeps a second operation of the same kind away from the id. The inductive invariant
`IInv` is `TypeOK`, `LocksAreHolders`, `IDOwned` and `NoConflict`.

Of `KeyRotation` it proves `RotationSpec => []RotationSafe` (`RotationAlwaysSafe`). The
inductive invariant `RotationIInv` adds what each step of a rotation has established about
the two slots and the KMS (`RotationInv`), with the owner of the lock as the only one that
is active, and that a generated passphrase is neither the current nor a revoked one
(`NewIsFresh`). The order of the steps carries the argument: slot 1 has the current
passphrase before slot 0 is touched, and slot 0 has the new one before the KMS gets it. A
restart is then harmless, because whatever it leaves in the slots, the passphrase of the
KMS is among it.

**`ConnPoolProofs`** proves `PoolSpec => []ConnsAccounted` (`PoolAgrees`). The counts alone are
not inductive: a connection must be that of one key only (`PooledOnce`), one that is about
to be inserted must be nobody else's (`InsertingOwn`), and connections must be numbered as
they are made (`NumbersMade`). Then two Get calls that both connect for one key leave one
connection, because the second to insert shuts its own down.

**`HealthCheckerProofs`** proves `HealthSpec => []CheckersAccounted` (`CheckersKept`). The
invariant `HealthIInv` adds that a checker in the registry is alive, has one key and
nobody who stops it (`RegistryAlive`), that only the RPC that made a checker starts it
(`StartOnce`), and that an overdue or unhealthy checker has seen a failure (`FailedSeen`).
LoadAndDelete then hands a checker to one RPC only, which is why its send has a receiver.

**`RefTrackerProofs`** proves `TrackerSpec => []CountExact` (`CounterExact`) and the refinement
`TrackerSpec => Atomic` (`TrackerAtomic`). The invariant `TrackerIInv` says where a call can be
and with which arguments (`CallsWellFormed`), what the read has checked for the write that
follows (`WriteChecked`), and that a version is not given out again (`VersionsKnown`). The last
makes the assertion of the version one of the contents: a write that passes it meets the
object that was read, so that the check before the read of the counter still holds. Each
step is then a step of `RefSet` or leaves its state alone.

**`RbdVolumesInvariant`** and **`RbdVolumesProofs`** prove of CreateVolume and DeleteVolume
`Spec => []TypeOK` (`Typed`), `Spec => []GrantBacked` (`GrantsBacked`) and
`Spec => NameKeyUnderLock` (`NameKeyChangesLocked`). The inductive invariant `IInv` has two
layers. `RequestInv` holds in every environment: what a request knows at each of its steps
(`Control`), and that the locks it has are taken and are nobody else's (`Locked`). It gives
the last theorem. `CleanInv` is for a CO that does not create what it deletes. It says that
there is an owner `f` of every UUID, the name that the UUID was generated for, and that
everything agrees with it: the keys and the attributes of the journal, what the CO was given,
and the variables of the requests (`OwnerInJournal`, `OwnerOf`). The owner is no variable of
the program, hence the quantifier. It is what makes a UUID that one request removes different
from that of any other request and from all that the CO holds. `PhaseOf` says what the
journal has at each step of a creation and of a deletion. Most steps change nothing that
another request relies on (`Frame`), and `FrameStep` does these once and for all. The first
module has the invariant and the steps of CreateVolume, the second the other steps and the
theorems.

**`RbdOrphansProofs`** proves from it `Spec => []NoOrphanImage` (`ImagesInJournal`), the
first conjunct of `NothingLeaked`. The invariant `Orphans` says at
which steps of a request its image is known to be gone, or given up. The image is made only by
the owner of the UUID when the reservation is complete, so it stays gone until the attributes
are removed.

The inductive invariants of `ConnPoolProofs`, `HealthCheckerProofs`, `RefTrackerProofs`,
`LocksProofs` (that of `KeyRotation`) and of the modules on volumes are not invariants of a run;
their consequences are.

Only model-checked, for the bounds above: that CreateVolume is idempotent (`StableGrant`) and
that the images in the trash can be found (`TrashReclaimable`), the properties of the other
controllers and drivers, and all of liveness, which is out of the prover's reach.

## Known disagreements

Five have a run that shows them (`findings` in `PROJECT.json`): a lost increment of the
pool, the name that a restart wedges, the shallow volume without a reference, the CephFS
node that cannot be fenced, and the NVMe-oF volume that is disconnected while it is
staged. The others are exceptions of properties, outside of the scenarios of the runs, or
outside of the models. A definition whose comment says "Does not hold" states the claim;
checked as an invariant with the scenario that is named here, it is violated.

Journal, locks and reference tracker:

* A writer of the reference tracker that finds the object gone, after it has read its
  version, dereferences a nil pointer; `reftracker.go:39` calls the tracker safe for
  concurrent writers (`RefTracker!NoPanic`).
* `conflictMatrix` (`idlocker.go:125`) lets a deletion and a clone of one id run
  together; the comment at 142 says that GetDeleteLock excludes it
  (`OperationLocks!DeleteExcludesClone` is that claim).
* `voljournal.go:679` writes the attributes to the journal pool, where the comment at
  640 has the image pool, and the deferred undo at 630 swaps the two pools. It matters
  only if they differ.
* Connect (`voljournal.go:263`) sets the namespace in a configuration that all requests
  share, and RegenerateJournal (`rbd_journal.go:638`) replaces the global one.

RBD controller:

* DeleteVolume reads the journal before it holds the lock of the name. With an
  overlapping CreateVolume it removes the name key of a newer volume.
* Exists and checkSnapCloneExists keep the image id of a reservation that they remove;
  after a failure the stored id is stale and the trash cannot be emptied by it.
* A repeated CreateSnapshot whose flatten fails removes the snapshot it found.
* createRBDClone forgets the error of the clone if the snapshot on the source can be
  removed. Later steps notice.
* The rollback of CreateSnapshot removes the passphrase of the source
  (`RbdSnapshots!SourceKeyKept`, with `FaultScenarios`).

RBD node:

* After a restart between the mount and the unlock or the resize, the repeated
  NodeStageVolume finds the path mounted and succeeds without them (`cut`).
* The undo removes the stash although the detach failed; a comment says that this is
  deliberate. It also does so when an earlier attempt mapped the image or opened LUKS
  and this one failed before it knew. The mapping leaks (`leaked`).
* The stash is not written atomically. A torn one makes NodeUnstageVolume fail until
  another stage writes it again.
* StopSharedChecker runs before the lock in NodeUnstageVolume of both drivers, so that
  the shared checker may be left after the unstage succeeded.

CephFS controller:

* AddSnapshotBackedVolumeRef removes the snapshot's own reference too when its recheck
  fails. Its Add and recheck race with the deletion of another volume if the snapshot
  is masked.
* DeleteVolume of a shallow volume, restarted after it deleted the snapshot, takes the
  missing key for a volume that is gone and leaves its reservation; a missing snapshot
  is Internal for ever.
* CreateSnapshot undoes the reservation of an existing snapshot when GetSubVolumeInfo
  fails, and leaves the new snapshot when the encryption config cannot be copied.
* CreateVolume undoes the reservation when setting metadata and the purge both fail. A
  transient failure of GetCloneState after the clone has started does the same, because
  a pending clone cannot be purged (`abandoned`).
* ReserveSnap passes the owner as the backing snapshot. The error codes of
  checkContentSource are those of the other source. ConfigureEncryption overwrites an
  earlier error in NewVolumeOptionsFromVolID. ToError of a clone state is nil for
  unknown states.
* A stale clone is not collected before its name is reserved again, if a restart came
  while it was made (`CephfsVolumes!StaleCollected`, with `CloneScenarios`).

CephFS node:

* The recovery of a FUSE mount in NodePublishVolume holds the lock of its target only.
  Another publish may bind the bare directory or the root of the subvolume (`exposed`).
* A restart or a failing write between the mount and WriteNodeStageMountinfo leaves a
  mount without the record, and the repeated stage succeeds (`cut`). A missing
  directory is not an error of the write.
* A shallow volume whose bind mount fails shows the root of the subvolume when it is
  staged again and published (`CephfsNode!ShallowShowsSnapshot`, with `BindScenarios`).

RBD clones:

* checkCloneImage without a temporary image (`clone.go:76`) sets RbdImageName where
  RbdSnapName is meant, and looks on the source for a snapshot with the name of the volume,
  which is never there. `source@temp` is not deleted, which the comment at `clone.go:43`
  promises: the reservation is undone, and the snapshot is left. Exists keeps the UUID for
  the new reservation, so that the next createRBDClone fails because the snapshot exists;
  its reservation is undone too, and only a request after that gets a new UUID.
* checkCloneImage, where the snapshot exists, passes it on without RbdImageName. A clone
  that stopped between `temp@vol` and its image is refused for ever; the comment at
  `clone.go:34` promises its completion.
* The size check of `rbd_journal.go` answers ErrVolNameConflict for ever to a clone or a
  restore that was interrupted before it was expanded, so that the expansion which the
  comment at `controllerserver.go:628` describes is out of reach. expand() compares with `==`
  and would shrink an image that is larger.
* repairEncryptionConfig never copies the passphrase: a restored encrypted volume has none
  after a restart (`CloneUsable` with `RestoreScenarios`; comment at `encryption.go:266`).
* createRBDClone drops the error of the clone, and leaves the temporary image while the
  reservation is undone. A restart between `source@temp` and its deletion leaves that
  snapshot, whether the temporary image is there or not (`abandoned`).
* flattenParent does not see a parent in the trash (`rbd_util.go:2000`) and flattens nothing.
  The depth of a chain on such a parent reaches `rbdhardmaxclonedepth` + 1: the comment at
  `controllerserver.go:562` keeps the room below the limit for what a request adds.
  `DepthBounded` has this exception and no other.
* A source that is expanded between the size check and the lock of the clone makes
  expand() shrink the clone; the runs expand a source only apart from it (`expands`).
* flattenRbdImage without the manager tests the wrong error.

RBD groups:

* Two group snapshots of the same volumes at the same time share temporary groups and
  both succeed, one without its snapshots (`GroupSnapshotWhole` with `Concurrent`);
  `volume_group.go:328`: "CreateSnapshots makes consistent snapshots of all the volumes in
  the volume group."
* Snapshots leak when NewVolumeGroupSnapshot or NewSnapshotByID fails (`manager.go:389`).
  An interrupted DeleteVolumeGroupSnapshot can never complete (`group_snapshot.go:236`).
* The garbage collection of CheckReservation never runs, because the error that it waits
  for is not returned. getGroupUUID's undo reverts a reservation that it found.
* The csi-addons calls take no lock, which the NOTE of the journal asks for, and
  CreateVolumeGroup may adopt the temporary group of a group snapshot.

CephFS groups:

* A restart lets a quiesce expire between two snapshots of a group, and the repeated
  request completes it (`GroupSnapshotConsistent`).
* deleteSnapshotsAndUndoReservation undoes the reservation of the group in the loop over
  its snapshots, after the first one, and never for an empty group. After one failure or
  restart the rest of the snapshots cannot be found (`DeletedForGood`).

Replication:

* DemoteVolume wants the volume to be unpublished, but looks for the keys of the
  controller's own node only (`replication.go:550`; `UnpublishedWhenDemoted` with another
  node).
* ResyncVolume compares the creation times (`replication.go:750`) and then opens the image
  again by its name (`mirror.go:235`). When rbd-mirror replaces the image in between, the
  resync of the old image is applied to the new one, and its copy starts over. The new one
  has no saved time, so that this happens once (`ResyncEnds`).
* ResyncVolume compares a duration in nanoseconds with 30, and may call a volume ready that
  is not (`early`, when `hasty`). Its loop continues on ErrImageNotFound under the
  lock.

Fencing:

* The fence of a network is to last until UnfenceClusterNetwork (`cephcmds.go:324`: five
  years "to represent infinity"). The automatic unfencing goes by the time that is left alone,
  and takes it away in three cases, all of them in the model: ControllerUnpublishVolume
  replaced the entry by its own of three years; two of the five years are over; or the fence
  was renewed after the list was read. No property states that a network stays fenced.

NVMe-oF and NFS:

* cleanupNVMeoFResources deletes the namespace by the NSID of the metadata, which may be that
  of another volume by then (`NamespaceIsOwn`, exception `misdeleted`).
  ControllerUnpublishVolume counts the other namespaces of the subsystem and not those with
  the host, so that a host stays admitted to which nothing is published
  (`HostOfPublished`).
* A repeated DeleteVolume of the NFS driver removes an export by its friendly name, without
  a look at its owner: that of a newer volume of the same name (`NfsExported` with
  `FriendlyNfs`; the comment at `volume.go:220` has the check for CreateVolume).
* A CreateVolume or ControllerModifyVolume that the CO gave up writes the attributes and the
  export of a volume that is being deleted (`overtaken`).
* `nodeserver.go:101` of the NFS driver swaps the arguments of errors.Is.

Health checkers:

* isHealthy may overwrite a fresh healthy result with the verdict of an older update
  (`checker.go:108`), against the comment at `manager.go:66`.

## What is not modelled

* In the modelled parts: topology, migration volumes, several pools and namespaces, mount
  options, static and read-only volumes, the in-use check between nodes and cgroup QoS.
  The sources of snapshots and CephFS clones exist throughout. The cluster refuses to purge
  a pending clone and its snapshot, which is taken from how the code treats the errors.
* Details of the modelled handlers that no property depends on. Repairing a volume runs
  setupBlockEncryption again (`RbdVolumes!RepairMetadata`). A failing connect of the NVMe-oF
  node removes its mount point from the cache, where it is not yet (`NvmeofNode!FindDevice`),
  and the cache is copied under one lock instead of two (`TakeCopy`). The SetVolumeGroup calls
  before a snapshot that is nil are left out (`RbdGroups!GroupSnapRemove`), and every snapshot
  of a group that cannot be resolved counts as one without an image
  (`CheckExistingSnapshots`). The orchestrator disables replication only on the primary, when
  the other site is at rest (`Mirroring!DisableVolumeReplication`).
* The composition of whole drivers. A module of one component treats the calls into
  another as single steps (NVMe-oF into RBD, NFS into CephFS, clones and groups into
  reservations); the module of the other component shows what the step stands for. Their
  product is out of TLC's reach.
* Regeneration of journals: what it writes is decided by the Kubernetes objects that it
  is given. ControllerExpandVolume and ControllerModifyVolume of RBD: one call on one image
  under the locks that `OperationLocks` has.
* KMS clients, cryptsetup and fscrypt wrappers, Ceph command wrappers: their effect is
  part of the steps that call them; the wire formats are not.
* gRPC servers, capabilities, identity, metrics, logging, configuration files and
  deployment: no protocol state.
* Streams and single calls: space reclamation, snapshot metadata, disk usage.
