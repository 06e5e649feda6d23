------------------------------ MODULE RbdNode ------------------------------
(***************************************************************************)
(* The RBD node server, for one volume on one node: NodeStageVolume with   *)
(* its rollback, NodePublishVolume, NodeUnpublishVolume,                   *)
(* NodeUnstageVolume, NodeExpandVolume, the health checks of               *)
(* NodeGetVolumeStats and the healer of rbd-nbd devices.                   *)
(*                                                                         *)
(* Staging maps the image to a device, opens it with LUKS if the image is  *)
(* encrypted, makes a file system on a blank one and mounts it.  The file  *)
(* image-meta.json (stash) tells NodeUnstageVolume what to undo.           *)
(*                                                                         *)
(* The process behind an rbd-nbd device dies with the node plugin; devices *)
(* of the kernel and mounts survive it, and are gone after a reboot.  A    *)
(* failing call has no effect, except that a file may be half written.     *)
(* Read-only and static volumes are not modelled.                          *)
(***************************************************************************)
EXTENDS NodeCalls

CONSTANTS Scenarios    \* the environments to explore

\* kind       fs, luks, file (encryption), block, luksBlock
\* nbd        mapped with rbd-nbd
\* restored   the image has the data of a snapshot, and is larger than that
\* faults     bound: failing calls
\* restarts   bound: restarts of the node plugin, and reboots
\* growths    bound: expansions of the image
ScenarioType == [kind : {"fs", "luks", "file", "block", "luksBlock"}, nbd : BOOLEAN,
                 restored : BOOLEAN, faults : Nat, restarts : Nat, growths : Nat]

VARIABLES
    disk,        \* what is on the image: blank, luks, luksfs, fs
    meta,        \* the encryption state in the image's metadata
    grown,       \* LUKS device and file system have the size of the image
    data,        \* none, written, lost
    stash,       \* image-meta.json: none, torn, image, device (with the device path)
    mapped,      \* no, yes, dead (rbd-nbd without its process)
    luks,        \* the LUKS device is open
    path,        \* the staging path exists
    staging,     \* and is mounted
    unlocked,    \* its encrypted directory has its key
    target,      \* what each target path shows: absent, none, volume, host
    volInfo,     \* the volume-info file exists
    checkers,    \* paths with a health checker; Volume stands for the shared one
    txn,         \* stageTransaction: what the running NodeStageVolume has done
    wasMounted,  \* isMnt of the running NodeUnstageVolume
    expanding,   \* the CO is to call NodeExpandVolume
    healing,     \* the healer is to run
    leaked,      \* the rollback removed the stash of a mapped image
    cut,         \* what a mounted volume lacks after a restart or a rollback that failed
    faults, restarts, growths, scenario

image == <<disk, meta, grown, data>>
device == <<stash, mapped, luks, leaked>>
mount == <<path, staging, unlocked, cut>>
plugin == <<volInfo, checkers, txn, wasMounted, expanding, healing>>
bounds == <<faults, restarts, growths, scenario>>
vars == <<co, calls, image, device, mount, target, plugin, bounds>>

StageSteps == {"nsCheck", "nsStash", "nsMap", "nsDevice", "nsFormat", "nsMeta", "nsOpen",
               "nsPath", "nsMkfs", "nsMount", "nsUnlock", "nsResize",
               "undoMount", "undoPath", "undoMap", "undoStash"}
OtherSteps == {"npPath", "npBind", "nuIsMnt", "nuUnmount", "nuRemove", "nxStop", "nxLock",
               "nxIsMnt", "nxUnmount", "nxRemove", "nxLookup", "nxClose", "nxUnmap", "nxStash",
               "neFind", "neResize", "nhLookup", "nhAttach"}

NoTxn == [device |-> FALSE, luks |-> FALSE, path |-> FALSE, mount |-> FALSE]
IsLuks == scenario.kind \in {"luks", "luksBlock"}
IsBlock == scenario.kind \in {"block", "luksBlock"}

TypeOK ==
    /\ CallsTypeOK /\ pc \in [Calls -> StageSteps \cup OtherSteps \cup {"idle"}]
    /\ disk \in {"blank", "luks", "luksfs", "fs"} /\ meta \in {"none", "prepared", "encrypted"}
    /\ data \in {"none", "written", "lost"}
    /\ stash \in {"none", "torn", "image", "device"} /\ mapped \in {"no", "yes", "dead"}
    /\ target \in [Targets -> {"absent", "none", "volume", "host"}]
    /\ txn \in [device : BOOLEAN, luks : BOOLEAN, path : BOOLEAN, mount : BOOLEAN]
    /\ {grown, luks, path, staging, unlocked, volInfo, wasMounted, expanding, healing, leaked}
          \subseteq BOOLEAN
    /\ checkers \subseteq Keys /\ cut \subseteq {"unlock", "resize"}
    /\ faults \in 0 .. scenario.faults /\ restarts \in 0 .. scenario.restarts
    /\ growths \in 0 .. scenario.growths
    /\ scenario \in Scenarios \cap ScenarioType

Init ==
    /\ CallsInit
    /\ scenario \in Scenarios
    /\ disk = CASE ~scenario.restored \/ scenario.kind = "block" -> "blank"
                [] scenario.kind = "luksBlock" -> "luks"
                [] scenario.kind = "luks" -> "luksfs"
                [] OTHER -> "fs"
    /\ meta = CASE ~IsLuks -> "none"
                [] scenario.restored -> "encrypted"
                [] OTHER -> "prepared"
    /\ grown = ~scenario.restored /\ data = IF scenario.restored THEN "written" ELSE "none"
    /\ stash = "none" /\ mapped = "no" /\ luks = FALSE /\ leaked = FALSE
    /\ path = FALSE /\ staging = FALSE /\ unlocked = FALSE /\ cut = {}
    /\ target = [t \in Targets |-> "absent"]
    /\ volInfo = FALSE /\ checkers = {} /\ txn = NoTxn /\ wasMounted = FALSE
    /\ expanding = FALSE /\ healing = FALSE
    /\ faults = 0 /\ restarts = 0 /\ growths = 0

-----------------------------------------------------------------------------
(* Failing calls *)

Fault == /\ faults < scenario.faults
         /\ faults' = faults + 1
         /\ UNCHANGED <<restarts, growths, scenario>>

MoveOn(c, step) == Goto(c, step) /\ UNCHANGED req

\* stageTransaction returns an error: undoStagingTransaction.
StageFails(c) == /\ pc[c] \in {"nsMap", "nsDevice", "nsFormat", "nsMeta", "nsOpen", "nsPath",
                               "nsMkfs", "nsMount", "nsUnlock", "nsResize"}
                 /\ Fault
                 /\ MoveOn(c, "undoMount")
                 /\ UNCHANGED <<co, image, device, mount, target, plugin>>

\* Steps whose failure only returns an error.
CallFails(c) == /\ pc[c] \in {"nsCheck", "npPath", "npBind", "nuIsMnt", "nuUnmount", "nuRemove",
                              "nxIsMnt", "nxUnmount", "nxRemove", "nxLookup", "nxClose", "nxUnmap",
                              "nxStash", "neFind", "neResize", "nhLookup", "nhAttach"}
                /\ Fault
                /\ Return(c)
                /\ UNCHANGED <<co, image, device, mount, target, plugin>>

\* stashVolumeInfo and removeVolumeInfo: a failure is logged.
WriteVolInfo(to) == \/ volInfo' = to /\ UNCHANGED bounds
                    \/ Fault /\ UNCHANGED volInfo

-----------------------------------------------------------------------------
(* NodeStageVolume *)

NodeStageVolume(c) ==
    /\ CallStage(c, "nsCheck")
    /\ txn' = NoTxn
    /\ UNCHANGED <<image, device, mount, target, volInfo, checkers, wasMounted, expanding,
                   healing, bounds>>

Staged(c) == /\ WriteVolInfo(TRUE)
             /\ checkers' = checkers \cup {Volume}
             /\ Succeed(c)
             /\ UNCHANGED <<txn, wasMounted, expanding>>

\* Mutant: what has a stash with a device is taken for staged.
NsCheckStash(c) ==
    /\ At(c, "nsCheck")
    /\ \/ stash = "device" /\ Staged(c) /\ UNCHANGED healing
       \/ stash # "device" /\ MoveOn(c, "nsStash") /\ UNCHANGED <<co, plugin, bounds>>
    /\ UNCHANGED <<image, device, mount, target>>

\* What is mounted is taken for staged.  Else the volume is looked up, and the
\* metadata for fencing is set on the image.
NsCheck(c) ==
    /\ At(c, "nsCheck")
    /\ \/ staging /\ Staged(c) /\ UNCHANGED healing
       \/ ~staging /\ MoveOn(c, "nsStash") /\ UNCHANGED <<co, plugin, bounds>>
    /\ UNCHANGED <<image, device, mount, target>>

\* This write comes before the transaction: no rollback.
NsStash(c) ==
    /\ At(c, "nsStash")
    /\ \/ stash' = "image" /\ MoveOn(c, "nsMap") /\ UNCHANGED bounds
       \/ stash' \in {stash, "torn"} /\ Fault /\ Return(c)
    /\ UNCHANGED <<co, image, mapped, luks, leaked, mount, target, plugin>>

\* attachRBDImage: a device that maps the image already is used.
NsMap(c) ==
    /\ At(c, "nsMap")
    /\ mapped' = "yes" /\ leaked' = FALSE
    /\ txn' = [txn EXCEPT !.device = TRUE]
    /\ MoveOn(c, IF IsLuks /\ ~scenario.nbd THEN "nsFormat" ELSE "nsDevice")
    /\ UNCHANGED <<co, image, stash, luks, mount, target, volInfo, checkers, wasMounted,
                   expanding, healing, bounds>>

\* updateRBDImageMetadataStash, before LUKS with rbd-nbd and after it with krbd.
NsDevice(c) ==
    /\ At(c, "nsDevice")
    /\ stash' = "device"
    /\ MoveOn(c, IF IsLuks /\ scenario.nbd THEN "nsFormat" ELSE "nsPath")
    /\ UNCHANGED <<co, image, mapped, luks, leaked, mount, target, plugin, bounds>>

Overwritten == IF data = "written" THEN "lost" ELSE data

\* processEncryptedDevice formats a blank image that was prepared for encryption.
NsFormat(c) ==
    /\ At(c, "nsFormat")
    /\ IF meta = "prepared" /\ disk = "blank"
       THEN disk' = "luks" /\ data' = Overwritten
       ELSE UNCHANGED <<disk, data>>
    /\ MoveOn(c, IF meta = "prepared" THEN "nsMeta" ELSE "nsOpen")
    /\ UNCHANGED <<co, meta, grown, device, mount, target, plugin, bounds>>

NsMeta(c) ==
    /\ At(c, "nsMeta")
    /\ meta' = "encrypted"
    /\ MoveOn(c, "nsOpen")
    /\ UNCHANGED <<co, disk, grown, data, device, mount, target, plugin, bounds>>

NsOpen(c) ==
    /\ At(c, "nsOpen")
    /\ luks' = TRUE
    /\ txn' = [txn EXCEPT !.luks = TRUE]
    /\ MoveOn(c, IF scenario.nbd THEN "nsPath" ELSE "nsDevice")
    /\ UNCHANGED <<co, image, stash, mapped, leaked, mount, target, volInfo, checkers,
                   wasMounted, expanding, healing, bounds>>

NsPath(c) ==
    /\ At(c, "nsPath")
    /\ path' = TRUE
    /\ txn' = [txn EXCEPT !.path = TRUE]
    /\ MoveOn(c, "nsMkfs")
    /\ UNCHANGED <<co, image, device, staging, unlocked, cut, target, volInfo, checkers,
                   wasMounted, expanding, healing, bounds>>

\* Mutant: block volumes get a file system as well.
NsMkfsAlways(c) ==
    /\ At(c, "nsMkfs")
    /\ IF disk \in {"blank", "luks"}
       THEN disk' = (IF IsLuks THEN "luksfs" ELSE "fs") /\ data' = Overwritten
       ELSE UNCHANGED <<disk, data>>
    /\ MoveOn(c, "nsMount")
    /\ UNCHANGED <<co, meta, grown, device, mount, target, plugin, bounds>>

\* A blank device gets a file system.
NsMkfs(c) ==
    /\ At(c, "nsMkfs")
    /\ IF disk \in {"blank", "luks"} /\ ~IsBlock
       THEN disk' = (IF IsLuks THEN "luksfs" ELSE "fs") /\ data' = Overwritten
       ELSE UNCHANGED <<disk, data>>
    /\ MoveOn(c, "nsMount")
    /\ UNCHANGED <<co, meta, grown, device, mount, target, plugin, bounds>>

NsMount(c) ==
    /\ At(c, "nsMount")
    /\ staging' = TRUE
    /\ txn' = [txn EXCEPT !.mount = TRUE]
    /\ MoveOn(c, IF scenario.kind = "file" THEN "nsUnlock" ELSE "nsResize")
    /\ UNCHANGED <<co, image, device, path, unlocked, cut, target, volInfo, checkers,
                   wasMounted, expanding, healing, bounds>>

NsUnlock(c) ==
    /\ At(c, "nsUnlock")
    /\ unlocked' = TRUE
    /\ MoveOn(c, "nsResize")
    /\ UNCHANGED <<co, image, device, path, staging, cut, target, plugin, bounds>>

\* resizeNodeStagePath is the last step of the transaction.
NsResize(c) ==
    /\ At(c, "nsResize")
    /\ grown' = TRUE
    /\ Staged(c)
    /\ UNCHANGED <<disk, meta, data, device, mount, target, healing>>

-----------------------------------------------------------------------------
(* undoStagingTransaction *)

Lacks == (IF scenario.kind = "file" /\ ~unlocked THEN {"unlock"} ELSE {})
            \cup (IF grown THEN {} ELSE {"resize"})

\* When the unmount fails, nothing else is undone.
UndoMount(c) ==
    /\ At(c, "undoMount")
    /\ \/ /\ staging' = (staging /\ ~txn.mount) /\ unlocked' = (unlocked /\ ~txn.mount)
          /\ MoveOn(c, "undoPath")
          /\ UNCHANGED <<cut, bounds>>
       \/ /\ txn.mount /\ Fault
          /\ cut' = cut \cup Lacks
          /\ Return(c)
          /\ UNCHANGED <<staging, unlocked>>
    /\ UNCHANGED <<co, image, device, path, target, plugin>>

UndoPath(c) ==
    /\ At(c, "undoPath")
    /\ \/ path' = (path /\ ~txn.path) /\ UNCHANGED bounds
       \/ txn.path /\ Fault /\ UNCHANGED path
    /\ MoveOn(c, "undoMap")
    /\ UNCHANGED <<co, image, device, staging, unlocked, cut, target, plugin>>

\* detachRBDDevice, whose error is logged.  The LUKS device is closed if this call
\* opened it; while it is open, the image cannot be unmapped.
UndoMap(c) ==
    /\ At(c, "undoMap")
    /\ \/ /\ txn.device
          /\ luks' = (luks /\ ~txn.luks)
          /\ mapped' = IF luks' THEN mapped ELSE "no"
          /\ UNCHANGED bounds
       \/ txn.device /\ Fault /\ luks' \in {luks, luks /\ ~txn.luks} /\ UNCHANGED mapped
       \/ ~txn.device /\ UNCHANGED <<luks, mapped, bounds>>
    /\ MoveOn(c, "undoStash")
    /\ UNCHANGED <<co, image, stash, leaked, mount, target, plugin>>

UndoStash(c) ==
    /\ At(c, "undoStash")
    /\ \/ stash' = "none" /\ leaked' = (mapped # "no") /\ UNCHANGED bounds
       \/ Fault /\ UNCHANGED <<stash, leaked>>
    /\ Return(c)
    /\ UNCHANGED <<co, image, mapped, luks, mount, target, plugin>>

-----------------------------------------------------------------------------
(* NodePublishVolume and NodeUnpublishVolume *)

NodePublishVolume(c, t) ==
    /\ CallPublish(c, t, "npPath")
    /\ UNCHANGED <<image, device, mount, target, plugin, bounds>>

NpPath(c) ==
    /\ At(c, "npPath")
    /\ LET t == req[c].target IN
       IF target[t] \in {"volume", "host"} THEN Succeed(c) /\ UNCHANGED target
       ELSE /\ target' = [target EXCEPT ![t] = "none"]
            /\ MoveOn(c, "npBind")
            /\ UNCHANGED co
    /\ UNCHANGED <<image, device, mount, plugin, bounds>>

\* Whether the staging path is mounted is not checked.  The pod writes from now on;
\* in what it writes to a block device GetDiskFormat finds no format.
NpBind(c) ==
    /\ At(c, "npBind")
    /\ IF ~path \/ (scenario.kind = "file" /\ ~unlocked)
       THEN Return(c) /\ UNCHANGED <<co, target, disk, data>>
       ELSE /\ target' = [target EXCEPT ![req[c].target] = IF staging THEN "volume" ELSE "host"]
            /\ data' = IF staging /\ data = "none" THEN "written" ELSE data
            /\ disk' = CASE staging /\ scenario.kind = "block" -> "blank"
                         [] staging /\ scenario.kind = "luksBlock" -> "luks"
                         [] OTHER -> disk
            /\ Succeed(c)
    /\ UNCHANGED <<meta, grown, device, mount, plugin, bounds>>

NodeUnpublishVolume(c, t) ==
    /\ CallUnpublish(c, t, "nuIsMnt")
    /\ checkers' = checkers \ {t}
    /\ UNCHANGED <<image, device, mount, target, volInfo, txn, wasMounted, expanding, healing,
                   bounds>>

NuIsMnt(c) ==
    /\ At(c, "nuIsMnt")
    /\ LET t == req[c].target IN
       CASE target[t] = "absent" -> Succeed(c)
         [] target[t] = "none" -> MoveOn(c, "nuRemove") /\ UNCHANGED co
         [] OTHER -> MoveOn(c, "nuUnmount") /\ UNCHANGED co
    /\ UNCHANGED <<image, device, mount, target, plugin, bounds>>

NuUnmount(c) ==
    /\ At(c, "nuUnmount")
    /\ target' = [target EXCEPT ![req[c].target] = "none"]
    /\ MoveOn(c, "nuRemove")
    /\ UNCHANGED <<co, image, device, mount, plugin, bounds>>

NuRemove(c) ==
    /\ At(c, "nuRemove")
    /\ target' = [target EXCEPT ![req[c].target] = "absent"]
    /\ Succeed(c)
    /\ UNCHANGED <<image, device, mount, plugin, bounds>>

-----------------------------------------------------------------------------
(* NodeUnstageVolume *)

NodeUnstageVolume(c) ==
    /\ CallUnstage(c, "nxStop")
    /\ UNCHANGED <<image, device, mount, target, plugin, bounds>>

\* The shared checker is stopped before the lock is taken.
NxStop(c) ==
    /\ At(c, "nxStop")
    /\ checkers' = checkers \ {Volume}
    /\ MoveOn(c, "nxLock")
    /\ UNCHANGED <<co, image, device, mount, target, volInfo, txn, wasMounted, expanding, healing,
                   bounds>>

\* Mutant: the volume is not locked.
NxLockNot(c) == /\ At(c, "nxLock") /\ MoveOn(c, "nxIsMnt")
                /\ UNCHANGED <<co, image, device, mount, target, plugin, bounds>>

NxLock(c) == /\ At(c, "nxLock") /\ LockUnstage(c, "nxIsMnt")
             /\ UNCHANGED <<co, image, device, mount, target, plugin, bounds>>

NxIsMnt(c) ==
    /\ At(c, "nxIsMnt")
    /\ wasMounted' = staging
    /\ MoveOn(c, IF staging THEN "nxUnmount" ELSE "nxRemove")
    /\ UNCHANGED <<co, image, device, mount, target, volInfo, checkers, txn, expanding, healing,
                   bounds>>

NxUnmount(c) ==
    /\ At(c, "nxUnmount")
    /\ staging' = FALSE /\ unlocked' = FALSE /\ cut' = {}
    /\ MoveOn(c, "nxRemove")
    /\ UNCHANGED <<co, image, device, path, target, plugin, bounds>>

NxRemove(c) ==
    /\ At(c, "nxRemove")
    /\ path' = FALSE
    /\ MoveOn(c, "nxLookup")
    /\ UNCHANGED <<co, image, device, staging, unlocked, cut, target, plugin, bounds>>

\* Without the stash there is nothing left to undo, unless the volume was mounted.
NxLookup(c) ==
    /\ At(c, "nxLookup")
    /\ CASE stash \in {"image", "device"} ->
              MoveOn(c, "nxClose") /\ UNCHANGED <<co, volInfo, bounds>>
         [] stash = "torn" \/ (stash = "none" /\ wasMounted) ->
              Return(c) /\ UNCHANGED <<co, volInfo, bounds>>
         [] OTHER -> Succeed(c) /\ WriteVolInfo(FALSE)
    /\ UNCHANGED <<image, device, mount, target, checkers, txn, wasMounted, expanding, healing>>

NxClose(c) ==
    /\ At(c, "nxClose")
    /\ luks' = FALSE
    /\ MoveOn(c, "nxUnmap")
    /\ UNCHANGED <<co, image, stash, mapped, leaked, mount, target, plugin, bounds>>

\* An image that is not mapped is fine.
NxUnmap(c) ==
    /\ At(c, "nxUnmap")
    /\ mapped' = "no" /\ leaked' = FALSE
    /\ MoveOn(c, "nxStash")
    /\ UNCHANGED <<co, image, stash, luks, mount, target, plugin, bounds>>

NxStash(c) ==
    /\ At(c, "nxStash")
    /\ stash' = "none"
    /\ WriteVolInfo(FALSE)
    /\ Succeed(c)
    /\ UNCHANGED <<image, mapped, luks, leaked, mount, target, checkers, txn, wasMounted,
                   expanding, healing>>

-----------------------------------------------------------------------------
(* NodeExpandVolume, NodeGetVolumeStats and the healer *)

\* ControllerExpandVolume has made the image larger.
ImageGrows ==
    /\ growths < scenario.growths
    /\ growths' = growths + 1
    /\ grown' = FALSE /\ expanding' = TRUE
    /\ UNCHANGED <<co, calls, disk, meta, data, device, mount, target, volInfo, checkers, txn,
                   wasMounted, healing, faults, restarts, scenario>>

NodeExpandVolume(c) ==
    /\ expanding /\ \E t \in Targets : published[t] = "yes"
    /\ Begin(c, "expand", NoTarget, Volume, "neFind")
    /\ UNCHANGED <<co, image, device, mount, target, plugin, bounds>>

\* The stash names the image, a device must map it.
NeFind(c) ==
    /\ At(c, "neFind")
    /\ IF stash \in {"image", "device"} /\ mapped = "yes" THEN MoveOn(c, "neResize")
       ELSE Return(c)
    /\ UNCHANGED <<co, image, device, mount, target, plugin, bounds>>

NeResize(c) ==
    /\ At(c, "neResize")
    /\ grown' = TRUE /\ expanding' = FALSE
    /\ Succeed(c)
    /\ UNCHANGED <<disk, meta, data, device, mount, target, volInfo, checkers, txn, wasMounted,
                   healing, bounds>>

\* Without a checker, or before the first result of the shared one, one is started
\* for the target path.
NodeGetVolumeStats(t) ==
    /\ published[t] = "yes" /\ ~Locked(t)
    /\ t \notin checkers
    /\ checkers' = checkers \cup {t}
    /\ UNCHANGED <<co, calls, image, device, mount, target, volInfo, txn, wasMounted, expanding,
                   healing, bounds>>

\* RunVolumeHealer calls NodeStageVolume once for a volume that is attached.
RunVolumeHealer(c) ==
    /\ healing /\ staged # "no"
    /\ Begin(c, "heal", NoTarget, Volume, "nhLookup")
    /\ healing' = FALSE
    /\ UNCHANGED <<co, image, device, mount, target, volInfo, checkers, txn, wasMounted,
                   expanding, bounds>>

NhLookup(c) ==
    /\ At(c, "nhLookup")
    /\ IF stash = "device" THEN MoveOn(c, "nhAttach") ELSE Return(c)
    /\ UNCHANGED <<co, image, device, mount, target, plugin, bounds>>

\* rbd-nbd attaches to a device that is still there.
NhAttach(c) ==
    /\ At(c, "nhAttach")
    /\ \/ mapped # "no" /\ mapped' = "yes" /\ Staged(c)
       \/ mapped = "no" /\ Return(c)
          /\ UNCHANGED <<co, mapped, volInfo, checkers, txn, wasMounted, expanding, bounds>>
    /\ UNCHANGED <<image, stash, luks, leaked, mount, target, healing>>

-----------------------------------------------------------------------------
(* Restarts *)

Stopped == /\ restarts < scenario.restarts
           /\ restarts' = restarts + 1
           /\ LET writing == \E c \in Calls : pc[c] \in {"nsStash", "nsDevice"} IN
              stash' \in {stash} \cup (IF writing THEN {"torn"} ELSE {})
           /\ checkers' = {} /\ txn' = NoTxn /\ wasMounted' = FALSE
           /\ UNCHANGED <<image, leaked, volInfo, expanding, faults, growths, scenario>>

Restart ==
    /\ Stopped
    /\ DropCalls \/ (\A c \in Calls : At(c, "idle") /\ UNCHANGED calls)
    /\ mapped' = IF scenario.nbd /\ mapped = "yes" THEN "dead" ELSE mapped
    /\ healing' = scenario.nbd
    /\ cut' = cut \cup (IF \E c \in Calls : pc[c] \in {"nsUnlock", "nsResize", "undoMount"}
                        THEN Lacks ELSE {})
    /\ UNCHANGED <<co, luks, path, staging, unlocked, target>>

\* The CO stages and publishes again what it had.
Reboot ==
    /\ Stopped
    /\ DropCalls \/ (\A c \in Calls : At(c, "idle") /\ UNCHANGED calls)
    /\ LET again(knows) == IF knows = "yes" THEN "asked" ELSE knows IN
       staged' = again(staged) /\ published' = [t \in Targets |-> again(published[t])]
    /\ mapped' = "no" /\ luks' = FALSE /\ healing' = scenario.nbd
    /\ staging' = FALSE /\ unlocked' = FALSE /\ cut' = {}
    /\ target' = [t \in Targets |-> IF target[t] = "absent" THEN "absent" ELSE "none"]
    /\ UNCHANGED path

Next ==
    \/ \E c \in Calls :
          \/ NodeStageVolume(c) \/ NsCheck(c) \/ NsStash(c) \/ NsMap(c) \/ NsDevice(c)
          \/ NsFormat(c) \/ NsMeta(c) \/ NsOpen(c) \/ NsPath(c) \/ NsMkfs(c) \/ NsMount(c)
          \/ NsUnlock(c) \/ NsResize(c) \/ StageFails(c) \/ CallFails(c)
          \/ UndoMount(c) \/ UndoPath(c) \/ UndoMap(c) \/ UndoStash(c)
          \/ \E t \in Targets : NodePublishVolume(c, t) \/ NodeUnpublishVolume(c, t)
          \/ NpPath(c) \/ NpBind(c) \/ NuIsMnt(c) \/ NuUnmount(c) \/ NuRemove(c)
          \/ NodeUnstageVolume(c) \/ NxStop(c) \/ NxLock(c) \/ NxIsMnt(c) \/ NxUnmount(c)
          \/ NxRemove(c) \/ NxLookup(c) \/ NxClose(c) \/ NxUnmap(c) \/ NxStash(c)
          \/ NodeExpandVolume(c) \/ NeFind(c) \/ NeResize(c)
          \/ RunVolumeHealer(c) \/ NhLookup(c) \/ NhAttach(c)
    \/ \E t \in Targets : NodeGetVolumeStats(t)
    \/ ImageGrows \/ Restart \/ Reboot

Spec == Init /\ [][Next]_vars

-----------------------------------------------------------------------------
(* Properties *)

\* An image that a pod has written to, or that was restored, is never formatted
\* again: neither by LUKS, nor by mkfs, whatever was cut short before.
DataKept == data # "lost"

\* What is staged for the CO is all there: mounted, mapped and open, and the stash
\* has what NodeUnstageVolume and the healer need.
StagedComplete ==
    staged = "yes" => /\ path /\ staging /\ stash = "device" /\ mapped # "no"
                      /\ IsLuks => luks /\ meta = "encrypted"

\* It is ready for the pod: unlocked and of the size of the image, unless a restart
\* or a rollback that failed left it mounted; the next call takes that for staged.
StagedReady ==
    staged = "yes" => /\ scenario.kind = "file" => unlocked \/ "unlock" \in cut
                      /\ grown \/ expanding \/ "resize" \in cut

\* The CO has what it was told: a volume that is staged is complete and ready, and a
\* published target shows it.  NodePublishVolume does not check that the staging path
\* is mounted; this rests on the locks and the order of the CO's calls.
VolumeServed ==
    /\ StagedComplete /\ StagedReady
    /\ \A t \in Targets : published[t] = "yes" => target[t] = "volume"

\* What was unpublished or unstaged is gone, and a mapped image always has a stash
\* from which it can be unmapped, except for an image that the rollback of an
\* earlier call could not unmap: its stash is removed all the same.
NodeReleased ==
    /\ staged = "no" => ~path /\ ~staging /\ stash = "none" /\ (mapped = "no" \/ leaked)
    /\ mapped # "no" /\ stash = "none" => leaked
    /\ \A t \in Targets : published[t] = "no" => target[t] = "absent" /\ t \notin checkers
=============================================================================
