----------------------------- MODULE GroupLock -----------------------------
(***************************************************************************)
(* internal/util/lock/group_lock.go: mutual exclusion between two groups   *)
(* of operations.  Operations of one group run together, operations of     *)
(* different groups never do.  The NVMe-oF node server stages volumes in   *)
(* group A and unstages them in group B.                                   *)
(*                                                                         *)
(* Every section of the code between taking gl.mutex and releasing it (by  *)
(* the deferred Unlock or inside Cond.Wait) is one atomic step.            *)
(***************************************************************************)
EXTENDS Integers, LockCallers

VARIABLES
    count,     \* groupACount and groupBCount
    group,     \* the group the caller's current operation belongs to
    pc         \* where the caller is

vars == <<count, group, pc>>

Groups == {"A", "B"}

Other(g) == IF g = "A" THEN "B" ELSE "A"

\* "entering": before the loop test, the mutex not yet taken;
\* "waiting": parked in Cond.Wait; "woken": broadcast seen, mutex not yet
\* re-acquired; "holding": Acquire has returned and Release was not called.
Places == {"idle", "entering", "waiting", "woken", "holding"}

TypeOK == /\ count \in [Groups -> Int]
          /\ group \in [Callers -> Groups]
          /\ pc \in [Callers -> Places]

\* Mutant: a zero value that was never initialised.
NewGroupLockUnset == count = [g \in {"A"} |-> 0]

NewGroupLock == count = [g \in Groups |-> 0]

Init == /\ NewGroupLock
        /\ group \in [Callers -> {"A"}]
        /\ pc = [c \in Callers |-> "idle"]

-----------------------------------------------------------------------------

\* A goroutine calls AcquireGroupA or AcquireGroupB.
Call(c, g) == /\ pc[c] = "idle"
              /\ pc' = [pc EXCEPT ![c] = "entering"]
              /\ group' = [group EXCEPT ![c] = g]
              /\ UNCHANGED count

\* Mutant: AcquireGroupB tests its own counter, as a copy of AcquireGroupA
\* with the counter left unchanged would.
MustWaitOwnCount(c) == IF group[c] = "A" THEN count["B"] > 0 ELSE count["B"] > 2

\* The loop test of AcquireGroupA / AcquireGroupB, with the mutex held.
MustWait(c) == count[Other(group[c])] > 0

\* Mutant: an operation spins until those of its own group are done as well.
AcquireAlone(c) == /\ pc[c] \in {"entering", "woken"}
                   /\ ~ MustWait(c) /\ count[group[c]] = 0
                   /\ count' = [count EXCEPT ![group[c]] = @ + 1]
                   /\ pc' = [pc EXCEPT ![c] = "holding"]
                   /\ UNCHANGED group

\* The loop test fails: count the operation and return.
Acquire(c) == /\ pc[c] \in {"entering", "woken"}
              /\ ~ MustWait(c)
              /\ count' = [count EXCEPT ![group[c]] = @ + 1]
              /\ pc' = [pc EXCEPT ![c] = "holding"]
              /\ UNCHANGED group

\* The loop test succeeds: Cond.Wait releases the mutex and parks.
Wait(c) == /\ pc[c] \in {"entering", "woken"}
           /\ MustWait(c)
           /\ pc' = [pc EXCEPT ![c] = "waiting"]
           /\ UNCHANGED <<count, group>>

\* The callers parked on the condition that ReleaseGroup<g> broadcasts.
Parked(g) == {c \in Callers : pc[c] = "waiting" /\ group[c] = Other(g)}

\* Mutant: broadcast when one operation of the group is still active, and not
\* when the last one leaves.
WokenByOffByOne(c) == IF count[group[c]] - 1 = 1 THEN Parked(group[c]) ELSE {}

\* Broadcast only when the last operation of the group leaves.
WokenBy(c) == IF count[group[c]] - 1 = 0 THEN Parked(group[c]) ELSE {}

\* ReleaseGroupA / ReleaseGroupB.
Release(c) == /\ pc[c] = "holding"
              /\ count' = [count EXCEPT ![group[c]] = @ - 1]
              /\ pc' = [d \in Callers |->
                          IF d = c THEN "idle"
                          ELSE IF d \in WokenBy(c) THEN "woken" ELSE pc[d]]
              /\ UNCHANGED group

Next == \E c \in Callers :
           \/ \E g \in Groups : Call(c, g)
           \/ Acquire(c)
           \/ Wait(c)
           \/ Release(c)

Spec == Init /\ [][Next]_vars

\* The Go scheduler runs every runnable goroutine, sync.Mutex does not starve
\* one that waits for it, and every operation ends and releases.  Nobody has
\* to call Acquire, so Call is not fair.
Fairness == \A c \in Callers : /\ WF_vars(Acquire(c) \/ Wait(c))
                               /\ WF_vars(Release(c))

FairSpec == Spec /\ Fairness

-----------------------------------------------------------------------------

Holders(g) == {c \in Callers : pc[c] = "holding" /\ group[c] = g}

\* Operations of different groups are never active together (the type's
\* comment: "operations from different groups cannot run simultaneously").
GroupExclusion == \A c, d \in Callers :
    pc[c] = "holding" /\ pc[d] = "holding" => group[c] = group[d]

\* The counter of a group is the number of its active operations: no Release
\* is lost and none is counted twice.
CountIsHolders == \A g \in Groups : count[g] = Cardinality(Holders(g))

\* No wakeup is lost: a goroutine is parked in Cond.Wait only while the other
\* group is active, so that somebody is left who will broadcast.
NoLostWakeup == \A c \in Callers : pc[c] = "waiting" => MustWait(c)

\* The lock does not promise fairness between the groups.  What it promises
\* is that once the other group stops calling Acquire, every operation of
\* this group gets in.
EventuallyAdmitted == \A c \in Callers : \A g \in Groups :
    (<>[](\A d \in Callers : pc[d] = "idle" \/ group[d] = g))
        => [](pc[c] = "entering" => <>(pc[c] = "holding"))

\* The counts that a proof of the above carries along: both groups are never
\* counted at once.
OneGroupCounted == count["A"] = 0 \/ count["B"] = 0

IInv == TypeOK /\ CountIsHolders /\ OneGroupCounted /\ NoLostWakeup
=============================================================================
