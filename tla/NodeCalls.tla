----------------------------- MODULE NodeCalls -----------------------------
(***************************************************************************)
(* How the container orchestrator (CO) calls the node service for one      *)
(* volume on one node, and the locks that the node servers take.           *)
(*                                                                         *)
(* The CO stages the volume, publishes it at target paths, unpublishes it  *)
(* and unstages it in this order, and repeats a call that was not          *)
(* answered with success.  It may give up waiting: the next call then      *)
(* finds the one before still running, and VolumeLocks refuses it.  Stage, *)
(* unstage and expand lock the volume id; publish and unpublish lock only  *)
(* the target path.                                                        *)
(*                                                                         *)
(* staged and published say what the CO knows: "no" (never asked, or       *)
(* undone with success), "asked", "yes" or "undone" (the reverse call was  *)
(* made, and has not succeeded yet).                                       *)
(***************************************************************************)
EXTENDS Integers, FiniteSets

CONSTANTS Targets,          \* target paths
          Volume, NoTarget, \* the volume id, and no path
          Calls             \* slots for concurrent calls

VARIABLES staged, published, pc, req

co == <<staged, published>>
calls == <<pc, req>>

Knows == {"no", "asked", "yes", "undone"}
Keys == Targets \cup {Volume}
CallRecords == [op : {"none", "stage", "unstage", "publish", "unpublish", "expand", "heal"},
                target : Targets \cup {NoTarget}, locks : SUBSET Keys]
Idle == [op |-> "none", target |-> NoTarget, locks |-> {}]

CallsTypeOK == /\ staged \in Knows /\ published \in [Targets -> Knows]
               /\ req \in [Calls -> CallRecords]

CallsInit == /\ staged = "no" /\ published = [t \in Targets |-> "no"]
             /\ pc = [c \in Calls |-> "idle"] /\ req = [c \in Calls |-> Idle]

-----------------------------------------------------------------------------
(* Control flow of a handler *)

At(c, step) == pc[c] = step
Goto(c, step) == pc' = [pc EXCEPT ![c] = step]
Return(c) == /\ pc' = [pc EXCEPT ![c] = "idle"]
             /\ req' = [req EXCEPT ![c] = Idle]

Locked(key) == \E c \in Calls : key \in req[c].locks

\* A call arrives and TryAcquire succeeds.
Begin(c, operation, path, key, step) ==
    /\ At(c, "idle") /\ ~Locked(key)
    /\ Goto(c, step)
    /\ req' = [req EXCEPT ![c] = [op |-> operation, target |-> path, locks |-> {key}]]

\* A handler answers with success.  The CO has moved on if it asked for the
\* reverse in the meantime.
Succeed(c) ==
    /\ Return(c)
    /\ CASE req[c].op = "stage" ->
              /\ staged' = IF staged = "asked" THEN "yes" ELSE staged
              /\ UNCHANGED published
         [] req[c].op = "unstage" -> staged' = "no" /\ UNCHANGED published
         [] req[c].op = "publish" ->
              /\ published' = [published EXCEPT ![req[c].target] = IF @ = "asked" THEN "yes" ELSE @]
              /\ UNCHANGED staged
         [] req[c].op = "unpublish" ->
              published' = [published EXCEPT ![req[c].target] = "no"] /\ UNCHANGED staged
         [] OTHER -> UNCHANGED co

-----------------------------------------------------------------------------
(* The calls *)

CallStage(c, step) ==
    /\ staged \in {"no", "asked", "yes"}
    /\ Begin(c, "stage", NoTarget, Volume, step)
    /\ staged' = "asked"
    /\ UNCHANGED published

\* All that was published has been unpublished.  NodeUnstageVolume does something
\* before it takes its lock.
CallUnstage(c, step) ==
    /\ staged # "no" /\ \A t \in Targets : published[t] = "no"
    /\ At(c, "idle") /\ ~\E d \in Calls : req[d].op = "unstage"
    /\ staged' = "undone"
    /\ Goto(c, step)
    /\ req' = [req EXCEPT ![c] = [Idle EXCEPT !.op = "unstage"]]
    /\ UNCHANGED published

\* The lock of NodeUnstageVolume.
LockUnstage(c, step) ==
    IF Locked(Volume) THEN Return(c)
    ELSE /\ Goto(c, step)
         /\ req' = [req EXCEPT ![c].locks = {Volume}]

CallPublish(c, t, step) ==
    /\ staged = "yes" /\ published[t] \in {"no", "asked", "yes"}
    /\ Begin(c, "publish", t, t, step)
    /\ published' = [published EXCEPT ![t] = "asked"]
    /\ UNCHANGED staged

CallUnpublish(c, t, step) ==
    /\ published[t] # "no"
    /\ Begin(c, "unpublish", t, t, step)
    /\ published' = [published EXCEPT ![t] = "undone"]
    /\ UNCHANGED staged

\* A restart of the node plugin loses the calls.
DropCalls == /\ \E c \in Calls : pc[c] # "idle"
             /\ pc' = [c \in Calls |-> "idle"] /\ req' = [c \in Calls |-> Idle]
=============================================================================
