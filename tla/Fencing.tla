------------------------------ MODULE Fencing ------------------------------
(***************************************************************************)
(* Fencing of a node that is out of service, and of networks.  A node      *)
(* plugin leaves the address of its node in the metadata of a volume that  *)
(* it stages (setClientAddress of internal/rbd/nodeserver.go and           *)
(* internal/cephfs/nodeserver.go); ControllerUnpublishVolume of the two    *)
(* drivers puts that address on the blocklist of the cluster when the node *)
(* is out of service; the csi-addons servers put networks on it, take them *)
(* off, and take off a node that is back (internal/csi-addons/             *)
(* networkfence).  The CO gives a volume to one node at a time: to the     *)
(* next one when ControllerUnpublishVolume succeeded for the last one,     *)
(* which it calls once the volume is unstaged or the node out of service.  *)
(***************************************************************************)
EXTENDS Integers, FiniteSets

CONSTANTS Volumes, Nodes, NoNode,
          Scenarios   \* [driver, networks, faults, crashes, outages]

VARIABLES fscenario, ffaults, fcrashes, outages,
          metadata,    \* volume |-> nodes with an address in its metadata
          users,       \* volume |-> nodes with a user id in its metadata
          blocklist,   \* node |-> how its address is on the blocklist
          mapped,      \* volume |-> node |-> what the node's client can do with it
          outOfService,\* the nodes with the taint
          attached,    \* volume |-> the node that it is published to, or NoNode
          stage,       \* volume |-> step of NodeStageVolume on that node
          unpublish,   \* volume |-> step of ControllerUnpublishVolume
          unfencing    \* nodes with a call of GetFenceClients that found their entry

fvars == <<fscenario, ffaults, fcrashes, outages, metadata, users, blocklist, mapped,
           outOfService, attached, stage, unpublish, unfencing>>

\* The time that is left of an entry of the blocklist: more than the three years of
\* AutoBlocklistTime; within the five minutes of the cool-down period below them; or less.
Entries == {"none", "less", "cooling", "more"}

FencingTypeOK ==
    /\ ffaults \in 0..fscenario.faults /\ fcrashes \in 0..fscenario.crashes
    /\ outages \in 0..fscenario.outages
    /\ metadata \in [Volumes -> SUBSET Nodes]
    /\ users \in [Volumes -> SUBSET Nodes]
    /\ blocklist \in [Nodes -> Entries]
    /\ mapped \in [Volumes -> [Nodes -> {"no", "yes", "cut"}]]
    /\ outOfService \subseteq Nodes
    /\ attached \in [Volumes -> Nodes \cup {NoNode}]
    /\ stage \in [Volumes -> {"no", "user", "address", "map", "done"}]
    /\ unpublish \in [Volumes -> {"no", "user", "taint", "remove", "read", "block", "unset"}]
    /\ unfencing \subseteq Nodes

FencingInit ==
    /\ fscenario \in Scenarios
    /\ ffaults = fscenario.faults /\ fcrashes = fscenario.crashes
    /\ outages = fscenario.outages
    /\ metadata = [v \in Volumes |-> {}]
    /\ users = [v \in Volumes |-> {}]
    /\ blocklist = [n \in Nodes |-> "none"]
    /\ mapped = [v \in Volumes |-> [n \in Nodes |-> "no"]]
    /\ outOfService = {}
    /\ attached = [v \in Volumes |-> NoNode]
    /\ stage = [v \in Volumes |-> "no"]
    /\ unpublish = [v \in Volumes |-> "no"]
    /\ unfencing = {}

Fault == ffaults > 0 /\ ffaults' = ffaults - 1
NoFault == UNCHANGED ffaults

bounds == <<fscenario, fcrashes, outages>>
cluster == <<metadata, users, blocklist, mapped, unfencing>>

Staging(v, step) == stage' = [stage EXCEPT ![v] = step]
Unpublishing(v, step) == unpublish' = [unpublish EXCEPT ![v] = step]

-----------------------------------------------------------------------------
(* The node plugin *)

\* ControllerPublishVolume changes nothing; the CO calls it for a node in service.
ControllerPublishVolume(v, n) ==
    /\ attached[v] = NoNode /\ n \notin outOfService
    /\ attached' = [attached EXCEPT ![v] = n]
    /\ UNCHANGED <<bounds, ffaults, cluster, outOfService, stage, unpublish>>

\* A node that lost its network, or its power, does not call the cluster.
InService(v) == attached[v] # NoNode /\ attached[v] \notin outOfService

\* NodeStageVolume of RBD is done when the volume is mounted; CephFS looks later.
NodeStageVolume(v) ==
    /\ InService(v) /\ unpublish[v] = "no"
    /\ stage[v] = "no" \/ (stage[v] = "done" /\ fscenario.driver = "cephfs")
    /\ IF fscenario.driver = "rbd" /\ mapped[v][attached[v]] # "no" THEN Staging(v, "done")
                                                                   ELSE Staging(v, "user")
    /\ UNCHANGED <<bounds, ffaults, cluster, outOfService, attached, unpublish>>

SetUserIdMapping(v) ==
    /\ stage[v] = "user" /\ InService(v)
    /\ \/ /\ users' = [users EXCEPT ![v] = @ \cup {attached[v]}]
          /\ Staging(v, "address") /\ NoFault
          /\ UNCHANGED <<metadata, blocklist, mapped, unfencing>>
       \/ Fault /\ Staging(v, "no") /\ UNCHANGED cluster
    /\ UNCHANGED <<bounds, outOfService, attached, unpublish>>

\* Mutant: RBD goes on after an error, too.
AfterAddressErrorIgnored == "map"

\* setClientAddress of CephFS writes an error to the log and goes on, for a subvolume;
\* RBD returns it.
AfterAddressError == IF fscenario.driver = "cephfs" THEN "map" ELSE "no"

SetClientAddress(v) ==
    /\ stage[v] = "address" /\ InService(v)
    /\ \/ /\ metadata' = [metadata EXCEPT ![v] = @ \cup {attached[v]}]
          /\ Staging(v, "map") /\ NoFault
          /\ UNCHANGED <<users, blocklist, mapped, unfencing>>
       \/ Fault /\ Staging(v, AfterAddressError) /\ UNCHANGED cluster
    /\ UNCHANGED <<bounds, outOfService, attached, unpublish>>

\* The volume is mapped, or mounted, unless the cluster refuses the client.
Map(v) ==
    LET n == attached[v] IN
    /\ stage[v] = "map" /\ InService(v)
    /\ \/ /\ blocklist[n] = "none"
          /\ mapped' = [mapped EXCEPT ![v][n] = IF @ = "no" THEN "yes" ELSE @]
          /\ Staging(v, "done") /\ NoFault
       \/ blocklist[n] # "none" /\ Staging(v, "no") /\ UNCHANGED mapped /\ NoFault
       \/ Fault /\ Staging(v, "no") /\ UNCHANGED mapped
    /\ UNCHANGED <<bounds, metadata, users, blocklist, unfencing, outOfService, attached, unpublish>>

NodeUnstageVolume(v) ==
    /\ InService(v) /\ stage[v] \in {"no", "done"} /\ unpublish[v] = "no"
    /\ mapped[v][attached[v]] # "no"
    /\ mapped' = [mapped EXCEPT ![v][attached[v]] = "no"]
    /\ Staging(v, "no")
    /\ UNCHANGED <<bounds, ffaults, metadata, users, blocklist, unfencing, outOfService, attached, unpublish>>

\* The node plugin restarts: the call that it served is gone.
NodeRestart(v) ==
    /\ fcrashes > 0 /\ fcrashes' = fcrashes - 1
    /\ stage[v] \notin {"no", "done"}
    /\ Staging(v, "no")
    /\ UNCHANGED <<fscenario, ffaults, outages, cluster, outOfService, attached, unpublish>>

-----------------------------------------------------------------------------
(* Nodes that go out of service, and come back (external) *)

\* The administrator taints a node that does not answer; what it mapped may still be
\* written to.
Taint(n) ==
    /\ outages > 0 /\ outages' = outages - 1
    /\ n \notin outOfService
    /\ outOfService' = outOfService \cup {n}
    /\ UNCHANGED <<fscenario, ffaults, fcrashes, cluster, attached, stage, unpublish>>

\* The node was rebooted, and the taint removed.
Reboot(n) ==
    /\ n \in outOfService
    /\ \A v \in Volumes : attached[v] # n
    /\ outOfService' = outOfService \ {n}
    /\ mapped' = [v \in Volumes |-> [mapped[v] EXCEPT ![n] = "no"]]
    /\ UNCHANGED <<bounds, ffaults, metadata, users, blocklist, unfencing, attached, stage, unpublish>>

-----------------------------------------------------------------------------
(* ControllerUnpublishVolume: removeUserIdMapping and fenceNode *)

\* The CO calls it when the volume is unstaged, or its node is out of service; a call
\* that failed is made again.
ControllerUnpublishVolume(v) ==
    LET n == attached[v] IN
    /\ n # NoNode /\ unpublish[v] = "no"
    /\ n \in outOfService \/ (mapped[v][n] = "no" /\ stage[v] = "no")
    /\ Unpublishing(v, "user")
    /\ UNCHANGED <<bounds, ffaults, cluster, outOfService, attached, stage>>

RemoveUserIdMapping(v) ==
    /\ unpublish[v] = "user"
    /\ \/ /\ users' = [users EXCEPT ![v] = @ \ {attached[v]}]
          /\ Unpublishing(v, "taint") /\ NoFault
          /\ UNCHANGED <<metadata, blocklist, mapped, unfencing>>
       \/ Fault /\ Unpublishing(v, "no") /\ UNCHANGED cluster
    /\ UNCHANGED <<bounds, outOfService, attached, stage>>

\* IsNodeOutOfService
CheckTaint(v) ==
    /\ unpublish[v] = "taint"
    /\ \/ /\ Unpublishing(v, IF attached[v] \in outOfService THEN "read" ELSE "remove")
          /\ NoFault
       \/ Fault /\ Unpublishing(v, "no")
    /\ UNCHANGED <<bounds, cluster, outOfService, attached, stage>>

\* The call succeeds: the CO gives the volume to another node.
Detached(v) == /\ attached' = [attached EXCEPT ![v] = NoNode]
               /\ Staging(v, "no")
               /\ Unpublishing(v, "no")

\* Mutant: an error is only logged.
RemoveMetadataLogged(v) ==
    /\ unpublish[v] \in {"remove", "unset"}
    /\ \/ metadata' = [metadata EXCEPT ![v] = @ \ {attached[v]}] /\ NoFault
       \/ Fault /\ UNCHANGED metadata
    /\ Detached(v)
    /\ UNCHANGED <<bounds, users, blocklist, mapped, unfencing, outOfService>>

\* The address is removed from the metadata, at the end of both branches.
RemoveMetadata(v) ==
    /\ unpublish[v] \in {"remove", "unset"}
    /\ \/ /\ metadata' = [metadata EXCEPT ![v] = @ \ {attached[v]}]
          /\ Detached(v) /\ NoFault
          /\ UNCHANGED <<users, blocklist, mapped, unfencing>>
       \/ Fault /\ Unpublishing(v, "no") /\ UNCHANGED <<attached, stage, cluster>>
    /\ UNCHANGED <<bounds, outOfService>>

\* A node without an address is not fenced.
GetMetadata(v) ==
    /\ unpublish[v] = "read"
    /\ \/ /\ attached[v] \in metadata[v]
          /\ Unpublishing(v, "block") /\ NoFault /\ UNCHANGED <<attached, stage>>
       \/ attached[v] \notin metadata[v] /\ Detached(v) /\ NoFault
       \/ Fault /\ Unpublishing(v, "no") /\ UNCHANGED <<attached, stage>>
    /\ UNCHANGED <<bounds, cluster, outOfService>>

\* The clients of a node that is on the blocklist are refused for good: what it has
\* mapped has to be mapped again.
Cut(ns) == mapped' = [v \in Volumes |-> [n \in Nodes |->
                        IF n \in ns /\ mapped[v][n] = "yes" THEN "cut" ELSE mapped[v][n]]]

\* OSDBlocklistAdd gives an entry a new time to expire.
OSDBlocklistAdd(v) == /\ blocklist' = [blocklist EXCEPT ![attached[v]] = "cooling"]
                      /\ Cut({attached[v]})

\* Mutant: an error is only logged.
BlocklistLogged(v) ==
    /\ unpublish[v] = "block"
    /\ \/ OSDBlocklistAdd(v) /\ NoFault
       \/ Fault /\ UNCHANGED <<blocklist, mapped>>
    /\ Unpublishing(v, "unset")
    /\ UNCHANGED <<bounds, metadata, users, unfencing, outOfService, attached, stage>>

Blocklist(v) ==
    /\ unpublish[v] = "block"
    /\ \/ OSDBlocklistAdd(v) /\ Unpublishing(v, "unset") /\ NoFault
       \/ Fault /\ Unpublishing(v, "no") /\ UNCHANGED <<blocklist, mapped>>
    /\ UNCHANGED <<bounds, metadata, users, unfencing, outOfService, attached, stage>>

\* The provisioner restarts: its calls and locks are gone.
ControllerRestart ==
    /\ fcrashes > 0 /\ fcrashes' = fcrashes - 1
    /\ \E v \in Volumes : unpublish[v] # "no"
    /\ unpublish' = [v \in Volumes |-> "no"]
    /\ UNCHANGED <<fscenario, ffaults, outages, cluster, outOfService, attached, stage>>

-----------------------------------------------------------------------------
(* The csi-addons servers *)

\* AddNetworkFence and RemoveNetworkFence go through the addresses of a request, one by
\* one, and stop at the first error; one address is one step, and a request that stopped
\* is made again.
AddCephBlocklist(n) == /\ blocklist' = [blocklist EXCEPT ![n] = "more"]
                       /\ Cut({n})

AddNetworkFence(n) ==
    /\ fscenario.networks
    /\ AddCephBlocklist(n)
    /\ UNCHANGED <<bounds, ffaults, metadata, users, unfencing, outOfService, attached, stage, unpublish>>

\* The client of a node that comes off the list stays cut from what it had mapped.
RemoveCephBlocklist(n) == /\ blocklist' = [blocklist EXCEPT ![n] = "none"]
                          /\ UNCHANGED mapped

\* The entry of a network, or one of an unpublished node.
RemoveNetworkFence(n) ==
    /\ fscenario.networks /\ blocklist[n] # "none"
    /\ RemoveCephBlocklist(n)
    /\ UNCHANGED <<bounds, ffaults, metadata, users, unfencing, outOfService, attached, stage, unpublish>>

\* containsMatchingBlockListEntry goes by the time that is left, which a network's entry
\* of five years comes down to as well.
MatchingEntry(n) == blocklist[n] = "less"

\* GetFenceClients, called by a node plugin that runs: autoUnfenceClientOnMatch reads the
\* list, ...
GetFenceClients(n) ==
    /\ n \notin outOfService /\ MatchingEntry(n)
    /\ unfencing' = unfencing \cup {n}
    /\ UNCHANGED <<bounds, ffaults, metadata, users, blocklist, mapped, outOfService, attached, stage, unpublish>>

\* ... and removes the address, whatever its entry is by now.  No lock is held: another
\* call may have read the same list.
AutoUnfence(n) ==
    /\ n \in unfencing
    /\ \/ RemoveCephBlocklist(n) /\ unfencing' \in {unfencing, unfencing \ {n}} /\ NoFault
       \/ Fault /\ unfencing' = unfencing \ {n} /\ UNCHANGED <<blocklist, mapped>>
    /\ UNCHANGED <<bounds, metadata, users, outOfService, attached, stage, unpublish>>

\* Time passes.
Age(n) ==
    /\ blocklist[n] # "none"
    /\ blocklist' = [blocklist EXCEPT ![n] = CASE @ = "more" -> "cooling" [] @ = "cooling" -> "less"
                                               [] OTHER -> "none"]
    /\ UNCHANGED <<bounds, ffaults, metadata, users, mapped, unfencing, outOfService, attached, stage, unpublish>>

FencingNext ==
    \/ ControllerRestart
    \/ \E v \in Volumes :
         \/ \E n \in Nodes : ControllerPublishVolume(v, n)
         \/ NodeStageVolume(v) \/ SetUserIdMapping(v) \/ SetClientAddress(v) \/ Map(v)
         \/ NodeUnstageVolume(v) \/ NodeRestart(v)
         \/ ControllerUnpublishVolume(v) \/ RemoveUserIdMapping(v) \/ CheckTaint(v)
         \/ RemoveMetadata(v) \/ GetMetadata(v) \/ Blocklist(v)
    \/ \E n \in Nodes :
         \/ Taint(n) \/ Reboot(n) \/ Age(n)
         \/ AddNetworkFence(n) \/ RemoveNetworkFence(n) \/ GetFenceClients(n) \/ AutoUnfence(n)

FencingSpec == FencingInit /\ [][FencingNext]_fvars

-----------------------------------------------------------------------------
(* Properties *)

\* A volume can be written to from one node only: when it is given to the next node, the
\* last one has unmapped it or was fenced.
SingleWriter ==
    \A v \in Volumes : \A m, n \in Nodes : mapped[v][m] = "yes" /\ mapped[v][n] = "yes" => m = n

\* Nothing of a node is left of a volume that was unpublished from it: no keys in the
\* metadata of the volume, and a mapping, which was cut, only until the node is rebooted.
NodeReleased ==
    \A v \in Volumes : \A n \in Nodes \ {attached[v]} :
        /\ n \notin metadata[v] /\ n \notin users[v]
        /\ mapped[v][n] = "no" \/ n \in outOfService
=============================================================================
