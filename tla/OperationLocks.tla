--------------------------- MODULE OperationLocks ---------------------------
(***************************************************************************)
(* internal/util/idlocker.go: the IDLocker, one set of ids in use, and the *)
(* OperationLock, a count per operation and id with a matrix of conflicts, *)
(* as the RBD and CephFS controller servers use them together:             *)
(*                                                                         *)
(*   delete, expand, modify   lock the volume (or snapshot) id in the      *)
(*                            IDLocker first, the operation second;        *)
(*   create, clone, restore   lock their own request name in the IDLocker, *)
(*                            which never meets the id, and the operation  *)
(*                            on the id of their source.                   *)
(*                                                                         *)
(* Both locks only try: a request that does not get one is answered        *)
(* Aborted.  Every method runs under its mutex and is one step.            *)
(***************************************************************************)
EXTENDS Integers, LockCallers

CONSTANT IDs    \* volume and snapshot ids

VARIABLES
    ids,      \* IDLocker.locks
    locks,    \* OperationLock.locks, 0 for an absent key
    op, id,   \* what the caller's request does
    pc        \* where the caller is

vars == <<ids, locks, op, id, pc>>

Counted == {"create", "clone", "restore"}
Flagged == {"delete", "expand", "modify"}
Operations == Counted \cup Flagged

\* "idLocked": the IDLocker is passed; "holding": the operation lock too.
Places == {"idle", "idLocked", "holding", "released"}

TypeOK == /\ ids \subseteq IDs
          /\ locks \in [Operations -> [IDs -> Int]]
          /\ op \in [Callers -> Operations] /\ id \in [Callers -> IDs]
          /\ pc \in [Callers -> Places]

\* Mutant: the map of modifyOp is not made.
NewOperationLockNoModify == locks = [o \in Operations \ {"modify"} |-> [i \in IDs |-> 0]]

NewOperationLock == locks = [o \in Operations |-> [i \in IDs |-> 0]]

Init == /\ ids = {}
        /\ NewOperationLock
        /\ op \in [Callers -> {"create"}]
        /\ id \in [Callers -> IDs]
        /\ pc = [c \in Callers |-> "idle"]

-----------------------------------------------------------------------------

\* IDLocker.TryAcquire.
TryAcquireID(c, o, i) ==
    /\ pc[c] = "idle"
    /\ o \in Flagged => i \notin ids
    /\ ids' = IF o \in Flagged THEN ids \cup {i} ELSE ids
    /\ op' = [op EXCEPT ![c] = o]
    /\ id' = [id EXCEPT ![c] = i]
    /\ pc' = [pc EXCEPT ![c] = "idLocked"]
    /\ UNCHANGED locks

\* Mutant: expand does not look for clones.
ConflictsNoClone(o) ==
    CASE o = "clone"   -> {"expand", "modify"}
      [] o = "delete"  -> {"expand", "restore", "modify"}
      [] o = "restore" -> {"delete"}
      [] o = "expand"  -> {"delete", "create", "modify"}
      [] o = "modify"  -> {"delete", "clone", "create", "expand"}
      [] o = "create"  -> {}

\* conflictMatrix
Conflicts(o) ==
    CASE o = "clone"   -> {"expand", "modify"}
      [] o = "delete"  -> {"expand", "restore", "modify"}
      [] o = "restore" -> {"delete"}
      [] o = "expand"  -> {"delete", "clone", "create", "modify"}
      [] o = "modify"  -> {"delete", "clone", "create", "expand"}
      [] o = "create"  -> {}

Blocked(o, i) == \E d \in Conflicts(o) : locks[d][i] # 0

\* Mutant: clones and restores are flags too.
TakenFlag(o, n) == IF o = "create" THEN n + 1 ELSE 1

\* The counter of an operation, or the flag.
Taken(o, n) == IF o \in Counted THEN n + 1 ELSE 1

\* OperationLock.tryAcquire succeeds.
TryAcquire(c) ==
    /\ pc[c] = "idLocked"
    /\ ~ Blocked(op[c], id[c])
    /\ locks' = [locks EXCEPT ![op[c]][id[c]] = Taken(op[c], @)]
    /\ pc' = [pc EXCEPT ![c] = "holding"]
    /\ UNCHANGED <<ids, op, id>>

\* OperationLock.tryAcquire fails: the request goes on to its deferred Release.
TryAcquireFails(c) ==
    /\ pc[c] = "idLocked"
    /\ Blocked(op[c], id[c])
    /\ pc' = [pc EXCEPT ![c] = "released"]
    /\ UNCHANGED <<ids, locks, op, id>>

\* OperationLock.release.  A key that reaches zero is deleted.
Release(c) ==
    /\ pc[c] = "holding"
    /\ locks' = [locks EXCEPT ![op[c]][id[c]] = IF @ # 0 THEN @ - 1 ELSE @]
    /\ pc' = [pc EXCEPT ![c] = "released"]
    /\ UNCHANGED <<ids, op, id>>

\* IDLocker.Release.
ReleaseID(c) ==
    /\ pc[c] = "released"
    /\ ids' = IF op[c] \in Flagged THEN ids \ {id[c]} ELSE ids
    /\ pc' = [pc EXCEPT ![c] = "idle"]
    /\ UNCHANGED <<locks, op, id>>

Next == \E c \in Callers :
           \/ \E o \in Operations, i \in IDs : TryAcquireID(c, o, i)
           \/ TryAcquire(c)
           \/ TryAcquireFails(c)
           \/ Release(c)
           \/ ReleaseID(c)

Spec == Init /\ [][Next]_vars

-----------------------------------------------------------------------------
(* Properties *)

Holders(o, i) == {c \in Callers : pc[c] = "holding" /\ op[c] = o /\ id[c] = i}

\* What must not happen to a volume or snapshot at the same time.  (The
\* creation of a snapshot is refused by nothing, and may start while its
\* source is being expanded or modified.)
MutuallyExclusive(o, p) ==
    \/ o = "delete" /\ p \in {"expand", "modify", "restore"}
    \/ o \in {"expand", "modify", "restore"} /\ p = "delete"
    \/ o = "clone" /\ p \in {"expand", "modify"}
    \/ o \in {"expand", "modify"} /\ p = "clone"
    \/ {o, p} = {"expand", "modify"}

\* Two operations on one id that exclude each other never run
\* together, although each of them was admitted at a different time.
NoConflict == \A c, d \in Callers :
    pc[c] = "holding" /\ pc[d] = "holding" /\ id[c] = id[d]
        => ~ MutuallyExclusive(op[c], op[d])

\* A key is in the map exactly as long as, and as often as, its operation is
\* running.  For the operations that are flags this rests on the IDLocker,
\* which keeps a second one away: the first release would drop the flag of
\* both.
LocksAreHolders == \A o \in Operations, i \in IDs : locks[o][i] = Cardinality(Holders(o, i))

\* The requests that hold an id of the IDLocker.
Busy(c) == pc[c] # "idle" /\ op[c] \in Flagged

\* An id has one owner, and an id without owner is free again.
IDOwned == /\ \A c \in Callers : Busy(c) => id[c] \in ids
           /\ \A i \in ids : \E c \in Callers : Busy(c) /\ id[c] = i
           /\ \A c, d \in Callers : Busy(c) /\ Busy(d) /\ id[c] = id[d] => c = d

IInv == TypeOK /\ LocksAreHolders /\ IDOwned /\ NoConflict

-----------------------------------------------------------------------------
(* Claims of the repository that the code does not keep *)

\* idlocker.go:142: GetDeleteLock "ensures that there is no clone,restore and
\* expand operation on given volumeID".
DeleteExcludesClone == \A c, d \in Callers :
    pc[c] = "holding" /\ op[c] = "delete" /\ pc[d] = "holding" /\ id[c] = id[d]
        => op[d] \notin {"clone", "restore", "expand"}
=============================================================================
