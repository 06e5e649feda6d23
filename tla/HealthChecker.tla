--------------------------- MODULE HealthChecker ---------------------------
(***************************************************************************)
(* internal/health-checker: the goroutines that check the mounts of a      *)
(* volume on a node, and the manager that the RPCs of the node servers use *)
(* to start, stop and ask them.                                            *)
(*                                                                         *)
(* The registry is a sync.Map; one of its methods, one section under the   *)
(* mutex of a checker, and one exchange over its channel is one step.      *)
(* Time is abstracted to whether lastUpdate of a checker is overdue, that  *)
(* is, longer ago than interval + timeout.                                 *)
(***************************************************************************)
EXTENDS Integers, FiniteSets

CONSTANTS RPCs,            \* goroutines of node RPCs
          MaxCheckers      \* bound: checkers ever created

VARIABLES
    checkers,   \* the registry: key |-> checker, 0 if none
    checker,    \* the checkers created so far
    rpcPC, mine \* where the RPC is, and the checker it deals with

healthVars == <<checkers, checker, rpcPC, mine>>

\* The key of the shared checker of a volume, at the staging path, and that of
\* the checker of one publish path.
CheckerKeys == {"volumeID", "volumeID:path"}

RpcPlaces == {"idle", "starting", "stopping", "fallback", "asking", "overdue", "answering"}

\* goroutine: "made" (not started), "waiting" (in select), "checking" (in
\* os.Stat, or writing and reading the file) or "ended".
Checkers == [goroutine : {"made", "waiting", "checking", "ended"},
             healthy : BOOLEAN, checked : BOOLEAN, overdue : BOOLEAN, failed : BOOLEAN]

\* initDefaults.  "failed" is history: a check failed or was overdue.
NewChecker == [goroutine |-> "made", healthy |-> TRUE, checked |-> FALSE,
               overdue |-> FALSE, failed |-> FALSE]

Made == DOMAIN checker

HealthTypeOK == /\ checkers \in [CheckerKeys -> 0 .. MaxCheckers]
                /\ Made \subseteq 1 .. MaxCheckers /\ checker \in [Made -> Checkers]
                /\ rpcPC \in [RPCs -> RpcPlaces] /\ mine \in [RPCs -> 0 .. MaxCheckers]

HealthInit == /\ checkers = [k \in CheckerKeys |-> 0]
              /\ checker = <<>>
              /\ rpcPC = [r \in RPCs |-> "idle"] /\ mine = [r \in RPCs |-> 0]

-----------------------------------------------------------------------------

RpcGoto(r, place, n) == /\ rpcPC' = [rpcPC EXCEPT ![r] = place]
                        /\ mine' = [mine EXCEPT ![r] = n]

HealthReturn(r) == RpcGoto(r, "idle", 0)

\* Mutant: Store instead of LoadOrStore.
StartCheckerReplaces(r, k) ==
    LET n == Cardinality(Made) + 1 IN
    /\ rpcPC[r] = "idle" /\ n <= MaxCheckers
    /\ checkers' = [checkers EXCEPT ![k] = n]
    /\ checker' = [i \in Made \cup {n} |-> IF i = n THEN NewChecker ELSE checker[i]]
    /\ RpcGoto(r, "starting", n)

\* StartChecker, StartSharedChecker: LoadOrStore keeps a checker that exists.
StartChecker(r, k) ==
    LET n == Cardinality(Made) + 1 IN
    /\ rpcPC[r] = "idle" /\ n <= MaxCheckers
    /\ checkers[k] = 0
    /\ checkers' = [checkers EXCEPT ![k] = n]
    /\ checker' = [i \in Made \cup {n} |-> IF i = n THEN NewChecker ELSE checker[i]]
    /\ RpcGoto(r, "starting", n)

\* start: "go c.runChecker()".
Start(r) == /\ rpcPC[r] = "starting"
            /\ checker' = [checker EXCEPT ![mine[r]].goroutine = "waiting"]
            /\ HealthReturn(r)
            /\ UNCHANGED checkers

\* Mutant: Load instead of LoadAndDelete.
StopCheckerLoads(r, k) == /\ rpcPC[r] = "idle" /\ checkers[k] # 0
                          /\ RpcGoto(r, "stopping", checkers[k])
                          /\ UNCHANGED <<checkers, checker>>

\* StopChecker, StopSharedChecker: LoadAndDelete, then the command is sent
\* through a channel that has no buffer.
StopChecker(r, k) == /\ rpcPC[r] = "idle" /\ checkers[k] # 0
                     /\ checkers' = [checkers EXCEPT ![k] = 0]
                     /\ RpcGoto(r, "stopping", checkers[k])
                     /\ UNCHANGED checker

\* The goroutine receives the command and ends.
Stop(r) == /\ rpcPC[r] = "stopping"
           /\ checker[mine[r]].goroutine = "waiting"
           /\ checker' = [checker EXCEPT ![mine[r]].goroutine = "ended"]
           /\ HealthReturn(r)
           /\ UNCHANGED checkers

\* The ticker fires and the check begins.
Tick(n) == /\ checker[n].goroutine = "waiting"
           /\ checker' = [checker EXCEPT ![n].goroutine = "checking"]
           /\ UNCHANGED <<checkers, rpcPC, mine>>

\* Mutant: return instead of continue when the check fails.
CheckedEnds(n, ok, late) ==
    /\ checker[n].goroutine = "checking"
    /\ late = checker[n].overdue
    /\ checker' = [checker EXCEPT ![n].goroutine = IF ok THEN "waiting" ELSE "ended",
                                  ![n].checked = TRUE, ![n].healthy = ok,
                                  ![n].failed = @ \/ ~ ok]
    /\ UNCHANGED <<checkers, rpcPC, mine>>

\* The check ends and its result is stored.  Only a success updates lastUpdate,
\* to the time at which the check began, which can be overdue by now.
Checked(n, ok, late) ==
    /\ checker[n].goroutine = "checking"
    /\ IF ok THEN late => checker[n].overdue ELSE late = checker[n].overdue
    /\ checker' = [checker EXCEPT ![n] =
                      [goroutine |-> "waiting", healthy |-> ok, checked |-> TRUE,
                       overdue |-> late, failed |-> @.failed \/ ~ ok]]
    /\ UNCHANGED <<checkers, rpcPC, mine>>

\* Time passes.  A checker whose checks return and succeed is never overdue,
\* because the timeout is added to the interval.
Overdue(n) ==
    /\ checker[n].goroutine = "checking" \/ (checker[n].checked /\ ~ checker[n].healthy)
    /\ ~ checker[n].overdue
    /\ checker' = [checker EXCEPT ![n].overdue = TRUE, ![n].failed = TRUE]
    /\ UNCHANGED <<checkers, rpcPC, mine>>

\* IsHealthy: the shared checker first.
IsHealthy(r) ==
    LET n == checkers["volumeID"] IN
    /\ rpcPC[r] = "idle"
    /\ RpcGoto(r, IF n # 0 THEN "asking" ELSE "fallback", n)
    /\ UNCHANGED <<checkers, checker>>

\* IsHealthy: the checker of the path, or none, which is healthy with an error.
Fallback(r) ==
    LET n == checkers["volumeID:path"] IN
    /\ rpcPC[r] = "fallback"
    /\ IF n # 0 THEN RpcGoto(r, "asking", n) ELSE HealthReturn(r)
    /\ UNCHANGED <<checkers, checker>>

\* Mutant: a checker that has not checked yet counts as overdue.
ReadStateUnchecked(r) ==
    LET c == checker[mine[r]] IN
    /\ rpcPC[r] = "asking"
    /\ \/ /\ c.overdue \/ ~ c.checked
          /\ RpcGoto(r, "overdue", mine[r])
       \/ /\ ~ c.overdue /\ c.checked
          /\ RpcGoto(r, "answering", mine[r])
    /\ UNCHANGED <<checkers, checker>>

\* isHealthy, the first section under RLock.
ReadState(r) ==
    LET c == checker[mine[r]] IN
    /\ rpcPC[r] = "asking"
    /\ \/ /\ c.overdue
          /\ RpcGoto(r, "overdue", mine[r])
       \/ /\ ~ c.overdue /\ ~ c.checked
          /\ HealthReturn(r)
       \/ /\ ~ c.overdue /\ c.checked
          /\ RpcGoto(r, "answering", mine[r])
    /\ UNCHANGED <<checkers, checker>>

\* isHealthy, the section under Lock: the result is overwritten, without another
\* look at lastUpdate.
SetUnhealthy(r) == /\ rpcPC[r] = "overdue"
                   /\ checker' = [checker EXCEPT ![mine[r]].healthy = FALSE]
                   /\ RpcGoto(r, "answering", mine[r])
                   /\ UNCHANGED checkers

\* isHealthy, the last section under RLock.
Answer(r) == /\ rpcPC[r] = "answering"
             /\ HealthReturn(r)
             /\ UNCHANGED <<checkers, checker>>

HealthNext == \/ \E r \in RPCs : \/ \E k \in CheckerKeys : StartChecker(r, k) \/ StopChecker(r, k)
                                 \/ Start(r) \/ Stop(r)
                                 \/ IsHealthy(r) \/ Fallback(r) \/ ReadState(r)
                                 \/ SetUnhealthy(r) \/ Answer(r)
              \/ \E n \in Made : \/ Tick(n) \/ Overdue(n)
                                 \/ \E ok, late \in BOOLEAN : Checked(n, ok, late)

HealthSpec == HealthInit /\ [][HealthNext]_healthVars

\* RPCs and checkers are scheduled, and system calls on the mount return.
HealthFairness == /\ \A r \in RPCs : WF_healthVars(Start(r)) /\ SF_healthVars(Stop(r))
                  /\ \A n \in 1 .. MaxCheckers :
                        WF_healthVars(n \in Made /\ \E ok, late \in BOOLEAN : Checked(n, ok, late))

HealthFairSpec == HealthSpec /\ HealthFairness

-----------------------------------------------------------------------------
(* Properties *)

Alive(n) == checker[n].goroutine # "ended"

\* No goroutine is left behind: one that has not ended is in the registry, where
\* the RPC that unstages the volume finds it, or is being stopped.
NoCheckerLeak == \A n \in Made : Alive(n) =>
    (\E k \in CheckerKeys : checkers[k] = n) \/ \E r \in RPCs : rpcPC[r] = "stopping" /\ mine[r] = n

\* An RPC that sends the stop command has a receiver: the goroutine is alive and
\* no other RPC stops it as well.  Nothing else keeps it from blocking for ever.
StopHasReceiver == \A r \in RPCs : rpcPC[r] = "stopping" =>
    /\ Alive(mine[r])
    /\ \A s \in RPCs : rpcPC[s] = "stopping" /\ mine[s] = mine[r] => s = r

\* manager.go:66: a volume is assumed to be healthy unless it is confirmed that
\* it is not: an RPC is never told of an unhealthy volume if no check of it ever
\* failed or was overdue.
UnhealthyHasCause == \A r \in RPCs : rpcPC[r] \in {"overdue", "answering"} =>
    checker[mine[r]].healthy \/ checker[mine[r]].failed

\* The three together: a checker goroutine that runs can be found by those who stop it, the
\* command to stop it has a receiver, and it calls a volume unhealthy only after a check
\* failed or was overdue.
CheckersAccounted == NoCheckerLeak /\ StopHasReceiver /\ UnhealthyHasCause

\* The inductive form.  A checker has one key in the registry, or one RPC that stops it, and
\* only the RPC that made it starts it.
NumberedMade == \E m \in 0 .. MaxCheckers : Made = 1 .. m
RegistryAlive == \A k \in CheckerKeys : checkers[k] # 0 =>
    /\ checkers[k] \in Made /\ Alive(checkers[k])
    /\ \A j \in CheckerKeys : checkers[j] = checkers[k] => j = k
    /\ \A r \in RPCs : rpcPC[r] = "stopping" => mine[r] # checkers[k]
MineMade == \A r \in RPCs : rpcPC[r] \notin {"idle", "fallback"} => mine[r] \in Made
StartOnce == \A r \in RPCs : rpcPC[r] = "starting" =>
    /\ checker[mine[r]].goroutine = "made"
    /\ \A s \in RPCs : rpcPC[s] = "starting" /\ mine[s] = mine[r] => s = r
FailedSeen == /\ \A n \in Made : /\ checker[n].healthy \/ checker[n].failed
                                 /\ checker[n].overdue => checker[n].failed
              /\ \A r \in RPCs : rpcPC[r] = "overdue" => checker[mine[r]].failed
HealthIInv == /\ HealthTypeOK /\ NumberedMade /\ RegistryAlive /\ MineMade /\ StartOnce
              /\ FailedSeen /\ CheckersAccounted

\* NodeUnstageVolume does not hang in StopChecker, as long as calls on the mount
\* return.
StopReturns == \A r \in RPCs : rpcPC[r] = "stopping" ~> rpcPC[r] = "idle"

=============================================================================
