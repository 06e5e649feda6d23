------------------------ MODULE HealthCheckerProofs ------------------------
(***************************************************************************)
(* Proofs about HealthChecker: no goroutine of a checker is left behind,   *)
(* the command that stops one has a receiver, and a volume is not called   *)
(* unhealthy without a cause, for any RPCs and any number of checkers.     *)
(***************************************************************************)
EXTENDS HealthChecker, FiniteSetTheorems, TLAPS

Constants == MaxCheckers \in Nat

-----------------------------------------------------------------------------
\* NewHealthCheckManager establishes the inductive invariant.
LEMMA InitIInv == ASSUME Constants, HealthInit PROVE HealthIInv
<1>1. Made = {} /\ Made = 1 .. 0
  BY DEF HealthInit, Made
<1>2. \A r \in RPCs : rpcPC[r] = "idle"
  BY DEF HealthInit
<1>3. \A k \in CheckerKeys : checkers[k] = 0
  BY DEF HealthInit
<1>4. HealthTypeOK
  <2>1. checker \in [Made -> Checkers]
    BY <1>1 DEF HealthInit, Made
  <2>2. checkers \in [CheckerKeys -> 0 .. MaxCheckers] /\ mine \in [RPCs -> 0 .. MaxCheckers]
    BY DEF HealthInit, Constants
  <2>3. rpcPC \in [RPCs -> RpcPlaces]
    BY DEF HealthInit, RpcPlaces
  <2> QED BY <1>1, <2>1, <2>2, <2>3 DEF HealthTypeOK
<1>5. NumberedMade
  BY <1>1 DEF NumberedMade, Constants
<1>6. RegistryAlive /\ MineMade /\ StartOnce /\ FailedSeen
  BY <1>1, <1>2, <1>3 DEF RegistryAlive, MineMade, StartOnce, FailedSeen
<1>7. CheckersAccounted
  BY <1>1, <1>2 DEF CheckersAccounted, NoCheckerLeak, StopHasReceiver, UnhealthyHasCause
<1> QED BY <1>4, <1>5, <1>6, <1>7 DEF HealthIInv

\* An RPC that asks for the state of a volume changes no checker.
LEMMA AskStep ==
  ASSUME Constants, HealthIInv, NEW r \in RPCs, NEW place \in RpcPlaces, NEW n \in 0 .. MaxCheckers,
         RpcGoto(r, place, n), UNCHANGED <<checkers, checker>>,
         rpcPC[r] \notin {"starting", "stopping"}, place \notin {"starting", "stopping"},
         place \notin {"idle", "fallback"} => n \in Made,
         place = "overdue" => checker[n].failed
  PROVE  HealthIInv'
<1>1. /\ rpcPC' \in [RPCs -> RpcPlaces] /\ mine' \in [RPCs -> 0 .. MaxCheckers] /\ Made' = Made
      /\ \A s \in RPCs : rpcPC'[s] = IF s = r THEN place ELSE rpcPC[s]
      /\ \A s \in RPCs : mine'[s] = IF s = r THEN n ELSE mine[s]
  BY DEF RpcGoto, HealthIInv, HealthTypeOK, Made
<1>2. HealthTypeOK' /\ NumberedMade'
  BY <1>1 DEF HealthIInv, HealthTypeOK, NumberedMade
<1>3. RegistryAlive'
  BY <1>1 DEF HealthIInv, RegistryAlive, Alive
<1>4. MineMade' /\ StartOnce'
  BY <1>1 DEF HealthIInv, MineMade, StartOnce
<1>5. FailedSeen'
  BY <1>1 DEF HealthIInv, FailedSeen
<1>6. CheckersAccounted'
  <2>1. NoCheckerLeak'
    BY <1>1 DEF HealthIInv, CheckersAccounted, NoCheckerLeak, Alive
  <2>2. StopHasReceiver'
    BY <1>1 DEF HealthIInv, CheckersAccounted, StopHasReceiver, Alive
  <2>3. UnhealthyHasCause'
    BY <1>1 DEF HealthIInv, CheckersAccounted, UnhealthyHasCause, FailedSeen
  <2> QED BY <2>1, <2>2, <2>3 DEF CheckersAccounted
<1> QED BY <1>2, <1>3, <1>4, <1>5, <1>6 DEF HealthIInv

\* The record of a checker changes, and its goroutine neither begins nor ends.
LEMMA CheckStep ==
  ASSUME Constants, HealthIInv, NEW n \in Made, NEW c \in Checkers,
         checker' = [checker EXCEPT ![n] = c], UNCHANGED <<checkers, mine>>,
         c.goroutine = "made" <=> checker[n].goroutine = "made",
         c.goroutine = "ended" <=> checker[n].goroutine = "ended",
         c.healthy \/ c.failed, c.overdue => c.failed, checker[n].failed => c.failed,
         rpcPC' \in [RPCs -> RpcPlaces],
         \A r \in RPCs : \/ rpcPC'[r] = rpcPC[r]
                         \/ rpcPC[r] = "overdue" /\ rpcPC'[r] = "answering"
  PROVE  HealthIInv'
<1>1. /\ Made' = Made /\ checker' \in [Made -> Checkers]
      /\ \A i \in Made : checker'[i] = IF i = n THEN c ELSE checker[i]
  BY DEF HealthIInv, HealthTypeOK, Made
<1>2. HealthTypeOK' /\ NumberedMade'
  BY <1>1 DEF HealthIInv, HealthTypeOK, NumberedMade
<1>3. \A i \in Made : Alive(i)' <=> Alive(i)
  BY <1>1 DEF Alive
<1>4. RegistryAlive'
  BY <1>1, <1>3 DEF HealthIInv, RegistryAlive
<1>5. MineMade'
  BY <1>1 DEF HealthIInv, MineMade
<1>6. StartOnce'
  BY <1>1 DEF HealthIInv, StartOnce, MineMade
<1>7. FailedSeen'
  BY <1>1 DEF HealthIInv, FailedSeen, MineMade
<1>8. CheckersAccounted'
  <2>1. NoCheckerLeak'
    BY <1>1, <1>3 DEF HealthIInv, CheckersAccounted, NoCheckerLeak
  <2>2. StopHasReceiver'
    BY <1>1, <1>3 DEF HealthIInv, CheckersAccounted, StopHasReceiver, MineMade
  <2>3. UnhealthyHasCause'
    BY <1>1, <1>5, <1>7 DEF UnhealthyHasCause, FailedSeen, MineMade
  <2> QED BY <2>1, <2>2, <2>3 DEF CheckersAccounted
<1> QED BY <1>2, <1>4, <1>5, <1>6, <1>7, <1>8 DEF HealthIInv

-----------------------------------------------------------------------------
LEMMA StartCheckerStep ==
  ASSUME Constants, HealthIInv, NEW r \in RPCs, NEW k \in CheckerKeys, StartChecker(r, k)
  PROVE  HealthIInv'
<1> PICK m \in 0 .. MaxCheckers : Made = 1 .. m
  BY DEF HealthIInv, NumberedMade
<1>1. Cardinality(Made) = m
  BY FS_Interval DEF Constants
<1> DEFINE n == m + 1
<1>2. /\ rpcPC[r] = "idle" /\ n \in 1 .. MaxCheckers /\ n \notin Made /\ checkers[k] = 0
      /\ checkers' = [checkers EXCEPT ![k] = n]
      /\ checker' = [i \in Made \cup {n} |-> IF i = n THEN NewChecker ELSE checker[i]]
      /\ RpcGoto(r, "starting", n)
  <2>1. n = Cardinality(Made) + 1
    BY <1>1
  <2> HIDE DEF n
  <2>2. /\ rpcPC[r] = "idle" /\ n <= MaxCheckers /\ checkers[k] = 0
        /\ checkers' = [checkers EXCEPT ![k] = n]
        /\ checker' = [i \in Made \cup {n} |-> IF i = n THEN NewChecker ELSE checker[i]]
        /\ RpcGoto(r, "starting", n)
    BY <2>1 DEF StartChecker
  <2>3. n \in 1 .. MaxCheckers /\ n \notin Made
    BY <2>2 DEF n, Constants
  <2> QED BY <2>2, <2>3
<1>3. /\ Made' = Made \cup {n} /\ Made' = 1 .. n /\ NewChecker \in Checkers
  BY <1>2 DEF Made, NewChecker, Checkers
<1> HIDE DEF n
<1>4. /\ checker' \in [Made' -> Checkers] /\ checker'[n] = NewChecker
      /\ \A i \in Made : checker'[i] = checker[i]
  BY <1>2, <1>3 DEF HealthIInv, HealthTypeOK
<1>5. /\ rpcPC' \in [RPCs -> RpcPlaces] /\ mine' \in [RPCs -> 0 .. MaxCheckers]
      /\ \A s \in RPCs : rpcPC'[s] = IF s = r THEN "starting" ELSE rpcPC[s]
      /\ \A s \in RPCs : mine'[s] = IF s = r THEN n ELSE mine[s]
  BY <1>2 DEF RpcGoto, HealthIInv, HealthTypeOK, RpcPlaces
<1>6. /\ checkers' \in [CheckerKeys -> 0 .. MaxCheckers]
      /\ \A j \in CheckerKeys : checkers'[j] = IF j = k THEN n ELSE checkers[j]
  BY <1>2 DEF HealthIInv, HealthTypeOK
<1>7. /\ NewChecker.goroutine = "made" /\ NewChecker.healthy /\ ~ NewChecker.overdue
      /\ Alive(n)' /\ \A i \in Made : Alive(i)' <=> Alive(i)
  BY <1>4 DEF NewChecker, Alive
<1>8. HealthTypeOK' /\ NumberedMade'
  <2>1. Made' \subseteq 1 .. MaxCheckers
    BY <1>2, <1>3 DEF Constants
  <2>2. HealthTypeOK'
    BY <1>4, <1>5, <1>6, <2>1 DEF HealthTypeOK
  <2>3. NumberedMade'
    BY <1>2, <1>3 DEF NumberedMade, Constants
  <2> QED BY <2>2, <2>3
<1>9. \A s \in RPCs : rpcPC[s] \notin {"idle", "fallback"} => mine[s] \in Made /\ mine[s] # n
  BY <1>2 DEF HealthIInv, MineMade
<1>10. RegistryAlive'
  BY <1>2, <1>3, <1>5, <1>6, <1>7, <1>9 DEF HealthIInv, RegistryAlive
<1>11. MineMade'
  BY <1>3, <1>5 DEF HealthIInv, MineMade
<1>12. StartOnce'
  BY <1>3, <1>4, <1>5, <1>7, <1>9 DEF HealthIInv, StartOnce
<1>13. FailedSeen'
  BY <1>3, <1>4, <1>5, <1>7, <1>9 DEF HealthIInv, FailedSeen
<1>14. CheckersAccounted'
  <2>1. NoCheckerLeak'
    <3> SUFFICES ASSUME NEW i \in Made', Alive(i)'
                 PROVE  \/ \E j \in CheckerKeys : checkers'[j] = i
                        \/ \E s \in RPCs : rpcPC'[s] = "stopping" /\ mine'[s] = i
      BY DEF NoCheckerLeak
    <3>1. CASE i = n
      BY <1>6, <3>1
    <3>2. CASE i \in Made
      <4>1. \/ \E j \in CheckerKeys : checkers[j] = i
            \/ \E s \in RPCs : rpcPC[s] = "stopping" /\ mine[s] = i
        BY <1>7, <3>2 DEF HealthIInv, CheckersAccounted, NoCheckerLeak
      <4>2. i # 0 /\ checkers[k] = 0
        BY <1>2, <3>2
      <4> QED BY <1>2, <1>5, <1>6, <4>1, <4>2
    <3> QED BY <1>3, <3>1, <3>2
  <2>2. StopHasReceiver'
    BY <1>5, <1>7, <1>9 DEF HealthIInv, CheckersAccounted, StopHasReceiver
  <2>3. UnhealthyHasCause'
    BY <1>11, <1>13 DEF UnhealthyHasCause, FailedSeen, MineMade
  <2> QED BY <2>1, <2>2, <2>3 DEF CheckersAccounted
<1> QED BY <1>8, <1>10, <1>11, <1>12, <1>13, <1>14 DEF HealthIInv

LEMMA StartStep ==
  ASSUME Constants, HealthIInv, NEW r \in RPCs, Start(r)
  PROVE  HealthIInv'
<1> PICK n \in Made : n = mine[r]
  BY DEF Start, HealthIInv, MineMade
<1>1. /\ checker[n].goroutine = "made" /\ checker[n] \in Checkers
      /\ \A s \in RPCs \ {r} : rpcPC[s] = "starting" => mine[s] # n
  BY DEF Start, HealthIInv, StartOnce, HealthTypeOK
<1>2. /\ Made' = Made /\ checker' \in [Made -> Checkers]
      /\ checker'[n] = [checker[n] EXCEPT !.goroutine = "waiting"]
      /\ \A i \in Made \ {n} : checker'[i] = checker[i]
  BY <1>1 DEF Start, HealthIInv, HealthTypeOK, Made, Checkers
<1>3. /\ checker'[n].goroutine = "waiting" /\ checker'[n].healthy = checker[n].healthy
      /\ checker'[n].failed = checker[n].failed /\ checker'[n].overdue = checker[n].overdue
  BY <1>1, <1>2 DEF Checkers
<1>4. /\ rpcPC' \in [RPCs -> RpcPlaces] /\ mine' \in [RPCs -> 0 .. MaxCheckers]
      /\ \A s \in RPCs : rpcPC'[s] = IF s = r THEN "idle" ELSE rpcPC[s]
      /\ \A s \in RPCs : mine'[s] = IF s = r THEN 0 ELSE mine[s]
      /\ rpcPC[r] = "starting" /\ checkers' = checkers
  BY DEF Start, HealthReturn, RpcGoto, HealthIInv, HealthTypeOK, RpcPlaces, Constants
<1>5. \A i \in Made : Alive(i)' <=> Alive(i)
  BY <1>1, <1>2, <1>3 DEF Alive
<1>6. HealthTypeOK' /\ NumberedMade'
  BY <1>2, <1>4 DEF HealthIInv, HealthTypeOK, NumberedMade
<1>7. RegistryAlive'
  BY <1>2, <1>4, <1>5 DEF HealthIInv, RegistryAlive
<1>8. MineMade'
  BY <1>2, <1>4 DEF HealthIInv, MineMade
<1>9. StartOnce'
  BY <1>1, <1>2, <1>4 DEF HealthIInv, StartOnce, MineMade
<1>10. FailedSeen'
  <2>1. \A i \in Made : /\ checker'[i].healthy = checker[i].healthy
                        /\ checker'[i].failed = checker[i].failed
                        /\ checker'[i].overdue = checker[i].overdue
    BY <1>2, <1>3
  <2>2. \A i \in Made' : /\ checker'[i].healthy \/ checker'[i].failed
                         /\ checker'[i].overdue => checker'[i].failed
    BY <1>2, <2>1 DEF HealthIInv, FailedSeen
  <2>3. \A s \in RPCs : rpcPC'[s] = "overdue" => checker'[mine'[s]].failed
    BY <1>4, <2>1 DEF HealthIInv, FailedSeen, MineMade
  <2> QED BY <2>2, <2>3 DEF FailedSeen
<1>11. CheckersAccounted'
  <2>1. NoCheckerLeak'
    BY <1>2, <1>4, <1>5 DEF HealthIInv, CheckersAccounted, NoCheckerLeak
  <2>2. StopHasReceiver'
    BY <1>4, <1>5 DEF HealthIInv, CheckersAccounted, StopHasReceiver, MineMade
  <2>3. UnhealthyHasCause'
    BY <1>8, <1>10 DEF UnhealthyHasCause, FailedSeen, MineMade
  <2> QED BY <2>1, <2>2, <2>3 DEF CheckersAccounted
<1> QED BY <1>6, <1>7, <1>8, <1>9, <1>10, <1>11 DEF HealthIInv

\* LoadAndDelete: the checker leaves the registry, and has one RPC that stops it.
LEMMA StopCheckerStep ==
  ASSUME Constants, HealthIInv, NEW r \in RPCs, NEW k \in CheckerKeys, StopChecker(r, k)
  PROVE  HealthIInv'
<1> PICK n \in Made : n = checkers[k]
  BY DEF StopChecker, HealthIInv, RegistryAlive
<1>1. /\ Alive(n) /\ rpcPC[r] = "idle" /\ n \in 1 .. MaxCheckers
      /\ \A j \in CheckerKeys \ {k} : checkers[j] # n
      /\ \A s \in RPCs : rpcPC[s] = "stopping" => mine[s] # n
  BY DEF StopChecker, HealthIInv, RegistryAlive, HealthTypeOK
<1>2. /\ checker' = checker /\ Made' = Made /\ \A i \in Made : Alive(i)' <=> Alive(i)
      /\ checkers' \in [CheckerKeys -> 0 .. MaxCheckers]
      /\ \A j \in CheckerKeys : checkers'[j] = IF j = k THEN 0 ELSE checkers[j]
  BY DEF StopChecker, HealthIInv, HealthTypeOK, Constants, Made, Alive
<1>3. /\ rpcPC' \in [RPCs -> RpcPlaces] /\ mine' \in [RPCs -> 0 .. MaxCheckers]
      /\ \A s \in RPCs : rpcPC'[s] = IF s = r THEN "stopping" ELSE rpcPC[s]
      /\ \A s \in RPCs : mine'[s] = IF s = r THEN n ELSE mine[s]
  BY <1>1 DEF StopChecker, RpcGoto, HealthIInv, HealthTypeOK, RpcPlaces
<1>4. HealthTypeOK' /\ NumberedMade'
  BY <1>2, <1>3 DEF HealthIInv, HealthTypeOK, NumberedMade
<1>5. RegistryAlive'
  BY <1>1, <1>2, <1>3 DEF HealthIInv, RegistryAlive
<1>6. MineMade'
  BY <1>2, <1>3 DEF HealthIInv, MineMade
<1>7. StartOnce'
  BY <1>1, <1>2, <1>3 DEF HealthIInv, StartOnce
<1>8. FailedSeen'
  BY <1>1, <1>2, <1>3 DEF HealthIInv, FailedSeen
<1>9. CheckersAccounted'
  <2>1. NoCheckerLeak'
    BY <1>1, <1>2, <1>3 DEF HealthIInv, CheckersAccounted, NoCheckerLeak
  <2>2. StopHasReceiver'
    BY <1>1, <1>2, <1>3 DEF HealthIInv, CheckersAccounted, StopHasReceiver, MineMade
  <2>3. UnhealthyHasCause'
    BY <1>6, <1>8 DEF UnhealthyHasCause, FailedSeen, MineMade
  <2> QED BY <2>1, <2>2, <2>3 DEF CheckersAccounted
<1> QED BY <1>4, <1>5, <1>6, <1>7, <1>8, <1>9 DEF HealthIInv

\* The goroutine ends; nobody else knows it, but those who ask for its state.
LEMMA StopStep ==
  ASSUME Constants, HealthIInv, NEW r \in RPCs, Stop(r)
  PROVE  HealthIInv'
<1> PICK n \in Made : n = mine[r]
  BY DEF Stop, HealthIInv, MineMade
<1>1. /\ checker[n].goroutine = "waiting" /\ checker[n] \in Checkers
      /\ \A s \in RPCs \ {r} : rpcPC[s] = "stopping" => mine[s] # n
      /\ \A s \in RPCs : rpcPC[s] = "starting" => mine[s] # n
      /\ \A j \in CheckerKeys : checkers[j] # n
  <2>1. checker[n].goroutine = "waiting" /\ checker[n] \in Checkers /\ n # 0
    BY DEF Stop, HealthIInv, HealthTypeOK
  <2>2. \A s \in RPCs \ {r} : rpcPC[s] = "stopping" => mine[s] # n
    BY DEF Stop, HealthIInv, CheckersAccounted, StopHasReceiver
  <2>3. \A s \in RPCs : rpcPC[s] = "starting" => mine[s] # n
    BY <2>1 DEF HealthIInv, StartOnce
  <2>4. \A j \in CheckerKeys : checkers[j] # n
    BY <2>1 DEF Stop, HealthIInv, RegistryAlive
  <2> QED BY <2>1, <2>2, <2>3, <2>4
<1>2. /\ Made' = Made /\ checker' \in [Made -> Checkers]
      /\ checker'[n] = [checker[n] EXCEPT !.goroutine = "ended"]
      /\ \A i \in Made \ {n} : checker'[i] = checker[i]
  BY <1>1 DEF Stop, HealthIInv, HealthTypeOK, Made, Checkers
<1>3. /\ checker'[n].goroutine = "ended" /\ checker'[n].healthy = checker[n].healthy
      /\ checker'[n].failed = checker[n].failed /\ checker'[n].overdue = checker[n].overdue
  BY <1>1, <1>2 DEF Checkers
<1>4. /\ rpcPC' \in [RPCs -> RpcPlaces] /\ mine' \in [RPCs -> 0 .. MaxCheckers]
      /\ \A s \in RPCs : rpcPC'[s] = IF s = r THEN "idle" ELSE rpcPC[s]
      /\ \A s \in RPCs : mine'[s] = IF s = r THEN 0 ELSE mine[s]
      /\ rpcPC[r] = "stopping" /\ checkers' = checkers
  BY DEF Stop, HealthReturn, RpcGoto, HealthIInv, HealthTypeOK, RpcPlaces, Constants
<1>5. ~ Alive(n)' /\ \A i \in Made \ {n} : Alive(i)' <=> Alive(i)
  BY <1>2, <1>3 DEF Alive
<1>6. HealthTypeOK' /\ NumberedMade'
  BY <1>2, <1>4 DEF HealthIInv, HealthTypeOK, NumberedMade
<1>7. RegistryAlive'
  BY <1>1, <1>2, <1>4, <1>5 DEF HealthIInv, RegistryAlive
<1>8. MineMade'
  BY <1>2, <1>4 DEF HealthIInv, MineMade
<1>9. StartOnce'
  BY <1>1, <1>2, <1>4 DEF HealthIInv, StartOnce, MineMade
<1>10. FailedSeen'
  <2>1. \A i \in Made : /\ checker'[i].healthy = checker[i].healthy
                        /\ checker'[i].failed = checker[i].failed
                        /\ checker'[i].overdue = checker[i].overdue
    BY <1>2, <1>3
  <2>2. \A i \in Made' : /\ checker'[i].healthy \/ checker'[i].failed
                         /\ checker'[i].overdue => checker'[i].failed
    BY <1>2, <2>1 DEF HealthIInv, FailedSeen
  <2>3. \A s \in RPCs : rpcPC'[s] = "overdue" => checker'[mine'[s]].failed
    BY <1>4, <2>1 DEF HealthIInv, FailedSeen, MineMade
  <2> QED BY <2>2, <2>3 DEF FailedSeen
<1>11. CheckersAccounted'
  <2>1. NoCheckerLeak'
    BY <1>2, <1>4, <1>5 DEF HealthIInv, CheckersAccounted, NoCheckerLeak
  <2>2. StopHasReceiver'
    BY <1>1, <1>4, <1>5 DEF HealthIInv, CheckersAccounted, StopHasReceiver, MineMade
  <2>3. UnhealthyHasCause'
    BY <1>8, <1>10 DEF UnhealthyHasCause, FailedSeen, MineMade
  <2> QED BY <2>1, <2>2, <2>3 DEF CheckersAccounted
<1> QED BY <1>6, <1>7, <1>8, <1>9, <1>10, <1>11 DEF HealthIInv

-----------------------------------------------------------------------------
\* The actions that are steps of AskStep and CheckStep.
LEMMA AskSteps ==
  ASSUME Constants, HealthIInv, NEW r \in RPCs,
         IsHealthy(r) \/ Fallback(r) \/ ReadState(r) \/ Answer(r)
  PROVE  HealthIInv'
<1>1. \A k \in CheckerKeys : checkers[k] \in 0 .. MaxCheckers /\ (checkers[k] # 0 => checkers[k] \in Made)
  BY DEF HealthIInv, HealthTypeOK, RegistryAlive
<1>2. "volumeID" \in CheckerKeys /\ "volumeID:path" \in CheckerKeys /\ 0 \in 0 .. MaxCheckers
  BY DEF CheckerKeys, Constants
<1>3. {"idle", "asking", "fallback", "overdue", "answering"} \subseteq RpcPlaces
  BY DEF RpcPlaces
<1>4. CASE IsHealthy(r)
  BY <1>1, <1>2, <1>3, <1>4, AskStep DEF IsHealthy
<1>5. CASE Fallback(r)
  BY <1>1, <1>2, <1>3, <1>5, AskStep DEF Fallback, HealthReturn
<1>6. CASE ReadState(r)
  <2>1. mine[r] \in Made /\ mine[r] \in 0 .. MaxCheckers
    BY <1>6 DEF ReadState, HealthIInv, MineMade, HealthTypeOK
  <2>2. checker[mine[r]].overdue => checker[mine[r]].failed
    BY <2>1 DEF HealthIInv, FailedSeen
  <2> QED BY <1>2, <1>3, <1>6, <2>1, <2>2, AskStep DEF ReadState, HealthReturn
<1>7. CASE Answer(r)
  BY <1>2, <1>3, <1>7, AskStep DEF Answer, HealthReturn
<1> QED BY <1>4, <1>5, <1>6, <1>7

LEMMA TickStep == ASSUME Constants, HealthIInv, NEW n \in Made, Tick(n) PROVE HealthIInv'
<1> DEFINE c == [checker[n] EXCEPT !.goroutine = "checking"]
<1>1. checker[n] \in Checkers /\ checker[n].goroutine = "waiting" /\ rpcPC \in [RPCs -> RpcPlaces]
  BY DEF Tick, HealthIInv, HealthTypeOK
<1>2. /\ c \in Checkers /\ c.goroutine = "checking" /\ c.healthy = checker[n].healthy
      /\ c.overdue = checker[n].overdue /\ c.failed = checker[n].failed
  BY <1>1 DEF Checkers
<1>3. checker' = [checker EXCEPT ![n] = c] /\ UNCHANGED <<checkers, rpcPC, mine>>
  BY DEF Tick
<1>4. /\ checker[n].healthy \/ checker[n].failed
      /\ checker[n].overdue => checker[n].failed
  BY DEF HealthIInv, FailedSeen
<1> HIDE DEF c
<1> QED BY <1>1, <1>2, <1>3, <1>4, CheckStep

LEMMA OverdueStep == ASSUME Constants, HealthIInv, NEW n \in Made, Overdue(n) PROVE HealthIInv'
<1> DEFINE d == [checker[n] EXCEPT !.overdue = TRUE]
           c == [d EXCEPT !.failed = TRUE]
<1>1. checker[n] \in Checkers /\ rpcPC \in [RPCs -> RpcPlaces]
  BY DEF HealthIInv, HealthTypeOK
<1>2. d \in Checkers /\ d.goroutine = checker[n].goroutine
  BY <1>1 DEF Checkers
<1>3. checker' = [checker EXCEPT ![n] = c] /\ UNCHANGED <<checkers, rpcPC, mine>>
  BY DEF Overdue
<1> HIDE DEF d
<1>4. c \in Checkers /\ c.goroutine = checker[n].goroutine /\ c.failed = TRUE
  BY <1>2 DEF Checkers
<1> HIDE DEF c
<1> QED BY <1>1, <1>3, <1>4, CheckStep

LEMMA CheckedStep ==
  ASSUME Constants, HealthIInv, NEW n \in Made, NEW ok \in BOOLEAN, NEW late \in BOOLEAN,
         Checked(n, ok, late)
  PROVE  HealthIInv'
<1> DEFINE c == [goroutine |-> "waiting", healthy |-> ok, checked |-> TRUE,
                 overdue |-> late, failed |-> checker[n].failed \/ ~ ok]
<1>1. checker[n] \in Checkers /\ rpcPC \in [RPCs -> RpcPlaces] /\ checker[n].failed \in BOOLEAN
  BY DEF HealthIInv, HealthTypeOK, Checkers
<1>2. checker[n].goroutine = "checking" /\ (late => checker[n].overdue)
  BY DEF Checked
<1>3. checker[n].overdue => checker[n].failed
  BY DEF HealthIInv, FailedSeen
<1>4. c \in Checkers /\ c.goroutine = "waiting"
  BY <1>1 DEF Checkers
<1>5. (c.healthy \/ c.failed) /\ (c.overdue => c.failed) /\ (checker[n].failed => c.failed)
  BY <1>2, <1>3
<1>6. checker' = [checker EXCEPT ![n] = c] /\ UNCHANGED <<checkers, rpcPC, mine>>
  BY DEF Checked
<1> HIDE DEF c
<1> QED BY <1>1, <1>2, <1>4, <1>5, <1>6, CheckStep

\* The RPC that found the checker overdue writes its verdict.
LEMMA SetUnhealthyStep ==
  ASSUME Constants, HealthIInv, NEW r \in RPCs, SetUnhealthy(r)
  PROVE  HealthIInv'
<1> PICK n \in Made : n = mine[r]
  BY DEF SetUnhealthy, HealthIInv, MineMade
<1> DEFINE c == [checker[n] EXCEPT !.healthy = FALSE]
<1>1. checker[n] \in Checkers /\ rpcPC[r] = "overdue" /\ mine \in [RPCs -> 0 .. MaxCheckers]
  BY DEF SetUnhealthy, HealthIInv, HealthTypeOK
<1>2. /\ c \in Checkers /\ c.goroutine = checker[n].goroutine /\ c.failed = checker[n].failed
      /\ c.overdue = checker[n].overdue
  BY <1>1 DEF Checkers
<1>3. checker[n].failed
  BY <1>1 DEF HealthIInv, FailedSeen
<1>4. /\ checker' = [checker EXCEPT ![n] = c] /\ UNCHANGED <<checkers, mine>>
      /\ rpcPC' = [rpcPC EXCEPT ![r] = "answering"]
  BY <1>1 DEF SetUnhealthy, RpcGoto
<1>5. /\ rpcPC' \in [RPCs -> RpcPlaces]
      /\ \A s \in RPCs : rpcPC'[s] = rpcPC[s] \/ (rpcPC[s] = "overdue" /\ rpcPC'[s] = "answering")
  BY <1>1, <1>4 DEF HealthIInv, HealthTypeOK, RpcPlaces
<1> HIDE DEF c
<1> QED BY <1>2, <1>3, <1>4, <1>5, CheckStep

\* Every step keeps the inductive invariant.
LEMMA NextIInv == ASSUME Constants, HealthIInv, [HealthNext]_healthVars PROVE HealthIInv'
<1>1. CASE UNCHANGED healthVars
  BY <1>1 DEF healthVars, HealthIInv, HealthTypeOK, Made, NumberedMade, RegistryAlive, MineMade,
     StartOnce, FailedSeen, CheckersAccounted, NoCheckerLeak, StopHasReceiver,
     UnhealthyHasCause, Alive
<1> QED BY <1>1, StartCheckerStep, StopCheckerStep, StartStep, StopStep, AskSteps,
           SetUnhealthyStep, TickStep, OverdueStep, CheckedStep DEF HealthNext

\* Whatever RPCs start, stop and ask for the checkers of a volume at the same time: a goroutine
\* that runs can be found by those who stop it, the command to stop it has a receiver, and a
\* volume is called unhealthy only after a check failed or was overdue (manager.go, checker.go).
THEOREM CheckersKept == ASSUME Constants PROVE HealthSpec => []CheckersAccounted
<1>1. HealthInit => HealthIInv
  BY InitIInv
<1>2. HealthIInv /\ [HealthNext]_healthVars => HealthIInv'
  BY NextIInv
<1>3. HealthIInv => CheckersAccounted
  BY DEF HealthIInv
<1> QED BY <1>1, <1>2, <1>3, PTL DEF HealthSpec
=============================================================================
