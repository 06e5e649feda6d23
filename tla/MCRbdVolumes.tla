---------------------------- MODULE MCRbdVolumes ----------------------------
(* Scenarios for the runs of RbdVolumes.                                    *)
EXTENDS RbdVolumes, TLC

Symmetry == Permutations(Requests) \cup Permutations(UUIDs) \cup Permutations(Names)

Scenario(slots, uuids, failing, restarts, mirroring, encrypted, overlap) ==
    [requests |-> slots, uuids |-> uuids, faults |-> failing, crashes |-> restarts,
     mirroring |-> mirroring, encrypted |-> encrypted, overlap |-> overlap]

\* Three overlapping requests and nothing fails; two that do not overlap, with
\* a failing call, a restart and a mirror; two that overlap, with a failing
\* call or a restart.
AllScenarios == {Scenario(3, 3, 0, 0, FALSE, FALSE, TRUE),
                 Scenario(2, 2, 1, 1, TRUE, TRUE, FALSE),
                 Scenario(2, 2, 1, 0, FALSE, TRUE, TRUE),
                 Scenario(2, 2, 0, 1, FALSE, TRUE, TRUE)}

\* A restart.
RestartScenarios == {Scenario(2, 2, 0, 1, FALSE, FALSE, FALSE)}
-----------------------------------------------------------------------------
\* Every image can be found by its name, and every image in the trash by its id.
NothingLeaked == NoOrphanImage /\ TrashReclaimable
=============================================================================
