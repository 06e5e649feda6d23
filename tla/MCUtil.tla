------------------------------- MODULE MCUtil -------------------------------
(***************************************************************************)
(* Mechanisms that the servers share, side by side: a behaviour belongs to *)
(* one part, and the variables of the other parts keep their initial       *)
(* values.  The parts do not interact.                                     *)
(***************************************************************************)
EXTENDS OperationLocks, ConnPool, RefTracker, HealthChecker, KeyRotation, TLC

VARIABLE part

utilVars == <<part, vars, poolVars, trackerVars, healthVars, rotationVars>>

\* What a goroutine locked or asked for before its first call is never read: one
\* value is enough.
UtilInit == /\ part \in {"locks", "pool", "refs", "health", "rotation"}
            /\ id = [c \in Callers |-> CHOOSE i \in IDs : TRUE]
            /\ key = [u \in Users |-> CHOOSE k \in ConnKeys : TRUE]
            /\ Init /\ PoolInit /\ TrackerInit /\ HealthInit /\ RotationInit

UtilNext ==
    /\ UNCHANGED part
    /\ \/ /\ part = "locks" /\ Next
          /\ UNCHANGED <<poolVars, trackerVars, healthVars, rotationVars>>
       \/ /\ part = "pool" /\ PoolNext
          /\ UNCHANGED <<vars, trackerVars, healthVars, rotationVars>>
       \/ /\ part = "refs" /\ TrackerNext
          /\ UNCHANGED <<vars, poolVars, healthVars, rotationVars>>
       \/ /\ part = "health" /\ HealthNext
          /\ UNCHANGED <<vars, poolVars, trackerVars, rotationVars>>
       \/ /\ part = "rotation" /\ RotationNext
          /\ UNCHANGED <<vars, poolVars, trackerVars, healthVars>>

UtilSpec == UtilInit /\ [][UtilNext]_utilVars

\* The goroutines, nodes and keys of a part are alike.  The parts never meet, so
\* they use the same model values, which keeps the number of permutations small:
\* three callers, users and references, two writers, RPCs and rotators.
Symmetry == Permutations(Callers) \cup Permutations(Writers)

-----------------------------------------------------------------------------
\* The types of all parts: locks, counters, objects and registries.  The modules of the
\* parts state the other properties.
UtilTypeOK == TypeOK /\ PoolTypeOK /\ TrackerTypeOK /\ HealthTypeOK /\ RotationTypeOK
=============================================================================
