------------------------------- MODULE MCRbd -------------------------------
(***************************************************************************)
(* Runs of RbdSnapshots and RbdNode.  They share no state: a behaviour     *)
(* belongs to one part.                                                    *)
(***************************************************************************)
EXTENDS RbdSnapshots, TLC

CONSTANTS n1, n2, s1, s2, Parts, NodeScenarios, Targets, Volume, NoTarget

VARIABLES part,
          nDisk, nMeta, nGrown, nData, nStash, nMapped, nLuks, nPath, nStaging, nUnlocked,
          nTarget, nVolInfo, nCheckers, nTxn, nWasMounted, nExpanding, nHealing, nLeaked,
          nCut, nFaults, nRestarts, nGrowths, nScenario, nStaged, nPublished, nPC, nReq

nVars == <<nDisk, nMeta, nGrown, nData, nStash, nMapped, nLuks, nPath, nStaging, nUnlocked,
           nTarget, nVolInfo, nCheckers, nTxn, nWasMounted, nExpanding, nHealing, nLeaked,
           nCut, nFaults, nRestarts, nGrowths, nScenario, nStaged, nPublished, nPC, nReq>>

N == INSTANCE RbdNode WITH
    Calls <- Requests, Scenarios <- NodeScenarios, disk <- nDisk, meta <- nMeta,
    grown <- nGrown, data <- nData, stash <- nStash, mapped <- nMapped, luks <- nLuks,
    path <- nPath, staging <- nStaging, unlocked <- nUnlocked, target <- nTarget,
    volInfo <- nVolInfo, checkers <- nCheckers, txn <- nTxn, wasMounted <- nWasMounted,
    expanding <- nExpanding, healing <- nHealing, leaked <- nLeaked, cut <- nCut,
    faults <- nFaults, restarts <- nRestarts, growths <- nGrowths, scenario <- nScenario,
    staged <- nStaged, published <- nPublished, pc <- nPC, req <- nReq

\* The scenario of the part that is not looked at does not matter.
RbdInit == /\ part \in Parts
           /\ Init /\ N!Init
           /\ part # "snapshots" => scenario = CHOOSE s \in Scenarios : TRUE
           /\ part # "node" => nScenario = CHOOSE s \in NodeScenarios : TRUE

RbdNext == /\ UNCHANGED part
           /\ \/ part = "snapshots" /\ Next /\ UNCHANGED nVars
              \/ part = "node" /\ N!Next /\ UNCHANGED vars

RbdSpec == RbdInit /\ [][RbdNext]_<<part, vars, nVars>>

Symmetry == Permutations(Requests) \cup Permutations(UUIDs) \cup Permutations(Targets)

Scenario(names, sources, uuids, failing, restarting, encrypted, overlap) ==
    [names |-> names, sources |-> sources, uuids |-> uuids, faults |-> failing,
     crashes |-> restarting, encrypted |-> encrypted, overlap |-> overlap]

\* Encrypted snapshots of one source under two names, with failing calls and a
\* restart; and requests for two sources under one name, with two restarts.
AllScenarios == {Scenario({n1, n2}, {s1}, 2, 2, 1, TRUE, FALSE),
                 Scenario({n1}, {s1, s2}, 3, 0, 2, FALSE, TRUE)}

\* A failing call.
FaultScenarios == {Scenario({n1}, {s1}, 2, 1, 0, TRUE, FALSE)}

NodeScenario(kind, nbd, restored, failing, restarting, growing) ==
    [kind |-> kind, nbd |-> nbd, restored |-> restored, faults |-> failing,
     restarts |-> restarting, growths |-> growing]
\* Every kind of volume; a restored one that is expanded, one whose rollback fails,
\* rbd-nbd with one and with two restarts.
AllNodeScenarios == {NodeScenario("fs", FALSE, TRUE, 1, 1, 1),
                     NodeScenario("luks", FALSE, FALSE, 2, 1, 0),
                     NodeScenario("file", FALSE, FALSE, 1, 1, 0),
                     NodeScenario("luksBlock", TRUE, FALSE, 1, 1, 0),
                     NodeScenario("block", TRUE, FALSE, 0, 2, 0)}

-----------------------------------------------------------------------------
\* The types of both parts.
RbdTypeOK == TypeOK /\ N!TypeOK
\* An image with data is never formatted.
DataKept == N!DataKept
\* What the CO was told is staged or published is complete, ready and shown; what was
\* unpublished or unstaged is gone, and no mapping is forgotten.
NodeServes == N!VolumeServed /\ N!NodeReleased
=============================================================================
