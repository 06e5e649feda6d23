----------------------------- MODULE CephfsNode -----------------------------
(***************************************************************************)
(* The CephFS node server, for one volume on one node: NodeStageVolume,    *)
(* NodePublishVolume, NodeUnpublishVolume, NodeUnstageVolume and the       *)
(* health checks of NodeGetVolumeStats, with the recovery of FUSE mounts.  *)
(*                                                                         *)
(* A path shows "none" (nothing is mounted), "volume" (what the pod is to  *)
(* see), "root" (of a volume backed by a snapshot: the subvolume whose     *)
(* snapshot has not been bound over it), "locked" (an encrypted volume     *)
(* without its key) or "corrupted" (its ceph-fuse daemon has died).  A     *)
(* target path may also be "absent", and "host" is the bare staging        *)
(* directory of the host, bound when nothing was mounted on it.            *)
(*                                                                         *)
(* ceph-fuse runs next to the node plugin and dies with it; mounts of the  *)
(* kernel survive.  A failing call has no effect.                          *)
(***************************************************************************)
EXTENDS NodeCalls

CONSTANTS Scenarios    \* the environments to explore

\* fuse, shallow, encrypted   what the volume is
\* faults     bound: failing calls
\* crashes    bound: restarts of the node plugin
\* deaths     bound: ceph-fuse daemons that die
ScenarioType == [fuse : BOOLEAN, shallow : BOOLEAN, encrypted : BOOLEAN,
                 faults : Nat, crashes : Nat, deaths : Nat]

VARIABLES
    staging,      \* what the staging path shows
    target,       \* what each target path shows
    mountinfo,    \* the NodeStageMountinfo record: none, torn, written
    checkers,     \* paths with a health checker; Volume stands for the shared one
    found,        \* per call of NodeStageVolume: what the staging path showed
    cut,          \* mounts that were not completed: "bind", "record"
    exposed,      \* targets whose publish overlapped with the recovery of the staging
                  \* path, its unmount or its new mount, by another call
    faults, crashes, deaths, scenario

mounts == <<staging, target, mountinfo>>
history == <<cut, exposed>>
bounds == <<faults, crashes, deaths, scenario>>
vars == <<co, calls, mounts, checkers, found, history, bounds>>

Shows == {"none", "root", "locked", "volume", "corrupted"}
NodeSteps == {"nsRestore", "nsIsMnt", "nsMount", "nsBind", "nsUnlock", "nsInfo", "nsClean",
              "npDir", "npState", "npRestore", "npMount", "npMountBind", "npTarget", "npStaged",
              "npBind", "nuIsMnt", "nuUnmount", "nuRemove",
              "nxStop", "nxLock", "nxInfo", "nxIsMnt", "nxUnmount"}

TypeOK ==
    /\ CallsTypeOK /\ pc \in [Calls -> NodeSteps \cup {"idle"}]
    /\ staging \in Shows /\ target \in [Targets -> Shows \cup {"absent", "host"}]
    /\ mountinfo \in {"none", "torn", "written"}
    /\ checkers \subseteq Keys /\ found \in [Calls -> Shows]
    /\ cut \subseteq {"bind", "record"} /\ exposed \subseteq Targets
    /\ faults \in 0 .. scenario.faults /\ crashes \in 0 .. scenario.crashes
    /\ deaths \in 0 .. scenario.deaths
    /\ scenario \in Scenarios \cap ScenarioType

Init == /\ CallsInit
        /\ staging = "none" /\ target = [t \in Targets |-> "absent"] /\ mountinfo = "none"
        /\ checkers = {} /\ found = [c \in Calls |-> "none"] /\ cut = {} /\ exposed = {}
        /\ faults = 0 /\ crashes = 0 /\ deaths = 0 /\ scenario \in Scenarios

-----------------------------------------------------------------------------
(* Failing calls and what a mount shows *)

Fault == /\ faults < scenario.faults
         /\ faults' = faults + 1
         /\ UNCHANGED <<crashes, deaths, scenario>>

\* Steps whose failure returns an error and leaves the rest to a retry.
CallFails(c) == /\ pc[c] \in NodeSteps \ {"nsBind", "nsInfo", "nsClean", "npMountBind", "nxStop", "nxLock"}
                /\ Fault
                /\ Return(c)
                /\ cut' = cut \cup (IF At(c, "nsUnlock") /\ found[c] = "none"
                                  THEN {"record"} ELSE {})
                /\ found' = [found EXCEPT ![c] = "none"]
                /\ UNCHANGED <<co, mounts, checkers, exposed>>

Mounted == CASE scenario.shallow -> "root"
             [] scenario.encrypted -> "locked"
             [] OTHER -> "volume"

\* IsMountPoint, which fails with an error for a corrupted mount.
IsMountPoint(what) == what \notin {"none", "corrupted", "absent"}

\* The publish calls that the recovery by c takes the staging path away from.
Overlapped(c) == {req[d].target : d \in {e \in Calls \ {c} : req[e].op = "publish"}}

MoveOn(c, step) == Goto(c, step) /\ UNCHANGED req
Stays == UNCHANGED <<co, mounts, checkers, found, history, bounds>>

-----------------------------------------------------------------------------
(* NodeStageVolume *)

NodeStageVolume(c) ==
    /\ CallStage(c, "nsRestore")
    /\ UNCHANGED <<mounts, checkers, found, history, bounds>>

\* tryRestoreFuseMountInNodeStage only unmounts.
NsRestore(c) ==
    /\ At(c, "nsRestore")
    /\ IF scenario.fuse /\ staging = "corrupted"
       THEN staging' = "none" /\ exposed' = exposed \cup Overlapped(c)
       ELSE UNCHANGED <<staging, exposed>>
    /\ MoveOn(c, "nsIsMnt")
    /\ UNCHANGED <<co, target, mountinfo, checkers, found, cut, bounds>>

\* A daemon that dies now makes the check fail.  The metadata of the subvolume,
\* which is set before the mount, matters to fencing only.
NsIsMnt(c) ==
    /\ At(c, "nsIsMnt")
    /\ IF staging = "corrupted" THEN Return(c) /\ UNCHANGED found
       ELSE /\ MoveOn(c, IF staging = "none" THEN "nsMount" ELSE "nsUnlock")
            /\ found' = [found EXCEPT ![c] = staging]
    /\ UNCHANGED <<co, mounts, checkers, history, bounds>>

NsMount(c) ==
    /\ At(c, "nsMount")
    /\ staging' = Mounted
    /\ exposed' = exposed \cup Overlapped(c)
    /\ MoveOn(c, IF scenario.shallow THEN "nsBind" ELSE "nsUnlock")
    /\ UNCHANGED <<co, target, mountinfo, checkers, found, cut, bounds>>

\* Mutant: a bind that fails is logged.
NsBindLogged(c) ==
    /\ At(c, "nsBind")
    /\ MoveOn(c, "nsUnlock")
    /\ \/ staging' = (IF staging = "root" THEN "volume" ELSE staging) /\ UNCHANGED bounds
       \/ Fault /\ UNCHANGED staging
    /\ UNCHANGED <<co, target, mountinfo, checkers, found, history>>

\* When the bind fails, the deferred clean-up of mount() does not unmount: it
\* looks at an err that the inner one shadows.
NsBind(c) ==
    /\ At(c, "nsBind")
    /\ \/ /\ staging = "root"
          /\ staging' = "volume"
          /\ MoveOn(c, "nsUnlock")
          /\ UNCHANGED <<cut, bounds>>
       \/ /\ (staging # "root" /\ UNCHANGED bounds) \/ Fault
          /\ cut' = cut \cup {"bind", "record"}
          /\ Return(c)
          /\ UNCHANGED staging
    /\ UNCHANGED <<co, target, mountinfo, checkers, found, exposed>>

\* maybeUnlockFileEncryption.  The mount was there already, or the record is to
\* be written for FUSE.
Unlocked(what) == IF what = "locked" THEN "volume" ELSE what
NsUnlock(c) ==
    /\ At(c, "nsUnlock")
    /\ staging' = Unlocked(staging)
    /\ IF scenario.fuse /\ found[c] = "none"
       THEN MoveOn(c, "nsInfo") /\ UNCHANGED <<co, checkers>>
       ELSE Succeed(c) /\ checkers' = checkers \cup {Volume}
    /\ found' = [found EXCEPT ![c] = "none"]
    /\ UNCHANGED <<target, mountinfo, history, bounds>>

NsInfo(c) ==
    /\ At(c, "nsInfo")
    /\ \/ /\ mountinfo' = "written"
          /\ Succeed(c)
          /\ checkers' = checkers \cup {Volume}
          /\ UNCHANGED bounds
       \/ /\ Fault
          /\ MoveOn(c, "nsClean")
          /\ UNCHANGED <<co, mountinfo, checkers>>
    /\ UNCHANGED <<staging, target, found, history>>

\* A failing unmount is logged.
NsClean(c) ==
    /\ At(c, "nsClean")
    /\ \/ staging' = "none" /\ UNCHANGED <<cut, bounds>>
       \/ Fault /\ cut' = cut \cup {"record"} /\ UNCHANGED staging
    /\ exposed' = exposed \cup Overlapped(c)
    /\ Return(c)
    /\ UNCHANGED <<co, target, mountinfo, checkers, found>>

-----------------------------------------------------------------------------
(* NodePublishVolume *)

NodePublishVolume(c, t) ==
    /\ CallPublish(c, t, "npDir")
    /\ exposed' = exposed \cup
          (IF \E d \in Calls : pc[d] \in {"nsIsMnt", "nsMount", "nsBind", "npMount", "npMountBind"}
           THEN {t} ELSE {})
    /\ UNCHANGED <<mounts, checkers, found, cut, bounds>>

\* CreateMountPoint, which may fail on a corrupted mount.
NpDir(c) ==
    /\ At(c, "npDir")
    /\ LET t == req[c].target IN
       /\ target' = [target EXCEPT ![t] = IF @ = "absent" THEN "none" ELSE @]
       /\ \/ MoveOn(c, IF scenario.fuse THEN "npState" ELSE "npStaged")
          \/ target[t] = "corrupted" /\ Return(c)
    /\ UNCHANGED <<co, staging, mountinfo, checkers, found, history, bounds>>

\* Both mounts are fine; or the record that recovery needs is missing or torn.
NpState(c) ==
    /\ At(c, "npState")
    /\ CASE IsMountPoint(staging) /\ target[req[c].target] # "corrupted" -> MoveOn(c, "npStaged")
         [] mountinfo = "torn" -> Return(c)
         [] mountinfo = "none" -> MoveOn(c, "npStaged")
         [] OTHER -> MoveOn(c, IF IsMountPoint(staging) THEN "npTarget" ELSE "npRestore")
    /\ UNCHANGED <<co, mounts, checkers, found, history, bounds>>

\* Recovery of the staging path, under the lock of the target path only.
NpRestore(c) ==
    /\ At(c, "npRestore")
    /\ staging' = "none"
    /\ exposed' = exposed \cup Overlapped(c)
    /\ MoveOn(c, "npMount")
    /\ UNCHANGED <<co, target, mountinfo, checkers, found, cut, bounds>>

NpMount(c) ==
    /\ At(c, "npMount")
    /\ staging' = Mounted
    /\ MoveOn(c, IF scenario.shallow THEN "npMountBind" ELSE "npTarget")
    /\ UNCHANGED <<co, target, mountinfo, checkers, found, history, bounds>>

NpMountBind(c) ==
    /\ At(c, "npMountBind")
    /\ \/ /\ staging = "root"
          /\ staging' = "volume"
          /\ MoveOn(c, "npTarget")
          /\ UNCHANGED <<cut, bounds>>
       \/ /\ (staging # "root" /\ UNCHANGED bounds) \/ Fault
          /\ cut' = cut \cup {"bind"}
          /\ Return(c)
          /\ UNCHANGED staging
    /\ UNCHANGED <<co, target, mountinfo, checkers, found, exposed>>

\* The target path is only unmounted.
NpTarget(c) ==
    /\ At(c, "npTarget")
    /\ target' = [target EXCEPT ![req[c].target] = "none"]
    /\ MoveOn(c, "npStaged")
    /\ UNCHANGED <<co, staging, mountinfo, checkers, found, history, bounds>>

\* The staging path must be a mount point.  A target that is one is published.
NpStaged(c) ==
    /\ At(c, "npStaged")
    /\ LET t == req[c].target IN
       CASE ~IsMountPoint(staging) \/ target[t] = "corrupted" -> Return(c) /\ UNCHANGED co
         [] IsMountPoint(staging) /\ IsMountPoint(target[t]) -> Succeed(c)
         [] OTHER -> IF staging = "locked" THEN Return(c) /\ UNCHANGED co
                     ELSE MoveOn(c, "npBind") /\ UNCHANGED co
    /\ UNCHANGED <<mounts, checkers, found, history, bounds>>

NpBind(c) ==
    /\ At(c, "npBind")
    /\ IF staging = "corrupted" THEN Return(c) /\ UNCHANGED <<co, target>>
       ELSE /\ target' = [target EXCEPT ![req[c].target] =
                             IF staging = "none" THEN "host" ELSE staging]
            /\ Succeed(c)
    /\ UNCHANGED <<staging, mountinfo, checkers, found, history, bounds>>

-----------------------------------------------------------------------------
(* NodeUnpublishVolume, NodeUnstageVolume and NodeGetVolumeStats *)

NodeUnpublishVolume(c, t) ==
    /\ CallUnpublish(c, t, "nuIsMnt")
    /\ checkers' = checkers \ {t}
    /\ UNCHANGED <<mounts, found, history, bounds>>

\* A corrupted mount is unmounted like any other.
NuIsMnt(c) ==
    /\ At(c, "nuIsMnt")
    /\ LET t == req[c].target IN
       CASE target[t] = "absent" -> Succeed(c)
         [] target[t] = "none" -> MoveOn(c, "nuRemove") /\ UNCHANGED co
         [] OTHER -> MoveOn(c, "nuUnmount") /\ UNCHANGED co
    /\ UNCHANGED <<mounts, checkers, found, history, bounds>>

NuUnmount(c) ==
    /\ At(c, "nuUnmount")
    /\ target' = [target EXCEPT ![req[c].target] = "none"]
    /\ MoveOn(c, "nuRemove")
    /\ UNCHANGED <<co, staging, mountinfo, checkers, found, history, bounds>>

NuRemove(c) ==
    /\ At(c, "nuRemove")
    /\ target' = [target EXCEPT ![req[c].target] = "absent"]
    /\ exposed' = exposed \ {req[c].target}
    /\ Succeed(c)
    /\ UNCHANGED <<staging, mountinfo, checkers, found, cut, bounds>>

NodeUnstageVolume(c) ==
    /\ CallUnstage(c, "nxStop")
    /\ UNCHANGED <<mounts, checkers, found, history, bounds>>

\* The shared checker is stopped before the lock is taken.
NxStop(c) == /\ At(c, "nxStop")
             /\ checkers' = checkers \ {Volume}
             /\ MoveOn(c, "nxLock")
             /\ UNCHANGED <<co, mounts, found, history, bounds>>

\* Mutant: the volume is not locked.
NxLockNot(c) == At(c, "nxLock") /\ MoveOn(c, "nxInfo") /\ Stays

NxLock(c) == At(c, "nxLock") /\ LockUnstage(c, "nxInfo") /\ Stays

NxInfo(c) == /\ At(c, "nxInfo")
             /\ mountinfo' = "none"
             /\ MoveOn(c, "nxIsMnt")
             /\ UNCHANGED <<co, staging, target, checkers, found, history, bounds>>

NxIsMnt(c) ==
    /\ At(c, "nxIsMnt")
    /\ IF staging = "none" THEN Succeed(c) ELSE MoveOn(c, "nxUnmount") /\ UNCHANGED co
    /\ UNCHANGED <<mounts, checkers, found, history, bounds>>

NxUnmount(c) ==
    /\ At(c, "nxUnmount")
    /\ staging' = "none" /\ cut' = {}
    /\ Succeed(c)
    /\ UNCHANGED <<target, mountinfo, checkers, found, exposed, bounds>>

\* Without a checker, or before the first result of the shared one, one is started
\* for the target path.
NodeGetVolumeStats(t) ==
    /\ published[t] = "yes" /\ ~Locked(t)
    /\ t \notin checkers
    /\ checkers' = checkers \cup {t}
    /\ UNCHANGED <<co, calls, mounts, found, history, bounds>>

-----------------------------------------------------------------------------
(* Daemons that die, restarts *)

Broken(what) == IF what \in {"root", "volume"} THEN "corrupted" ELSE what

FuseDies ==
    /\ scenario.fuse /\ deaths < scenario.deaths
    /\ staging # "none"
    /\ deaths' = deaths + 1
    /\ staging' = Broken(staging) /\ target' = [t \in Targets |-> Broken(target[t])]
    /\ UNCHANGED <<co, calls, mountinfo, checkers, found, history, faults, crashes, scenario>>

\* What a restart cuts short: the bind of the snapshot, the record of a mount, the
\* write of a record.
Crash ==
    /\ crashes < scenario.crashes
    /\ crashes' = crashes + 1
    /\ DropCalls
    /\ LET cutAt(steps) == \E c \in Calls : pc[c] \in steps IN
       /\ mountinfo' \in {mountinfo} \cup (IF cutAt({"nsInfo"}) THEN {"torn"} ELSE {})
       /\ cut' = cut \cup (IF cutAt({"nsBind", "npMountBind"}) THEN {"bind"} ELSE {})
                     \cup (IF cutAt({"nsBind", "nsUnlock", "nsInfo", "nsClean"})
                           THEN {"record"} ELSE {})
    /\ IF scenario.fuse
       THEN staging' = Broken(staging) /\ target' = [t \in Targets |-> Broken(target[t])]
       ELSE UNCHANGED <<staging, target>>
    /\ checkers' = {} /\ found' = [c \in Calls |-> "none"]
    /\ UNCHANGED <<co, exposed, faults, deaths, scenario>>

Next ==
    \/ \E c \in Calls :
          \/ NodeStageVolume(c) \/ NsRestore(c) \/ NsIsMnt(c) \/ NsMount(c) \/ NsBind(c)
          \/ NsUnlock(c) \/ NsInfo(c) \/ NsClean(c)
          \/ \E t \in Targets : NodePublishVolume(c, t) \/ NodeUnpublishVolume(c, t)
          \/ NpDir(c) \/ NpState(c) \/ NpRestore(c) \/ NpMount(c) \/ NpMountBind(c)
          \/ NpTarget(c) \/ NpStaged(c) \/ NpBind(c)
          \/ NuIsMnt(c) \/ NuUnmount(c) \/ NuRemove(c)
          \/ NodeUnstageVolume(c) \/ NxStop(c) \/ NxLock(c) \/ NxInfo(c) \/ NxIsMnt(c)
          \/ NxUnmount(c) \/ CallFails(c)
    \/ \E t \in Targets : NodeGetVolumeStats(t)
    \/ FuseDies \/ Crash

Spec == Init /\ [][Next]_vars

-----------------------------------------------------------------------------
(* Properties *)

\* A published target shows the volume, for as long as its ceph-fuse lives: the CO
\* was told so and has not asked for anything else.  Unstage and publish take
\* different locks, so this rests on the order of the CO's calls as well.  Two
\* exceptions: a snapshot that was not bound (see ShallowShowsSnapshot), and the
\* recovery of the staging path by another call at the same time.
PublishedShowsVolume ==
    \A t \in Targets : published[t] = "yes" =>
        \/ target[t] \in {"volume", "corrupted"}
        \/ target[t] = "root" /\ "bind" \in cut
        \/ target[t] \in {"host", "root"} /\ t \in exposed

\* What the CO has unpublished or unstaged is gone, with the record of the mount and
\* the checkers of the targets: neither a call that was given up nor a restart
\* brings it back.
NodeReleased ==
    /\ staged = "no" => staging = "none" /\ mountinfo = "none"
    /\ \A t \in Targets : published[t] = "no" => target[t] = "absent" /\ t \notin checkers

\* A FUSE mount that the CO relies on has the record that its recovery needs,
\* unless the stage was cut short between the mount and the record.
RecordWritten ==
    scenario.fuse /\ staged = "yes" => mountinfo = "written" \/ "record" \in cut

\* The CO has what it was told: targets that show the volume, now and, by means of
\* the record, after ceph-fuse has died.
VolumeServed == PublishedShowsVolume /\ RecordWritten

\* A volume backed by a snapshot shows the snapshot, never the live subvolume.  Does not
\* hold when its bind mount fails (README, Known disagreements).
ShallowShowsSnapshot ==
    \A t \in Targets : published[t] = "yes" => target[t] # "root"
=============================================================================
