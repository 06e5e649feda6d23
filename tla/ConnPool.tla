------------------------------ MODULE ConnPool ------------------------------
(***************************************************************************)
(* internal/util/conn_pool.go: the pool of RADOS connections that all      *)
(* requests of a process share, with reference counts and a garbage        *)
(* collector, and CleanupConnections of connection.go, which a stuck       *)
(* process runs before it exits.                                           *)
(*                                                                         *)
(* Sections under cp.lock.Lock() are one step.  The section of Get under   *)
(* cp.lock.RLock() increments a counter, and two of them can run at the    *)
(* same time: the data race on users++ can lose one of the increments.     *)
(***************************************************************************)
EXTENDS Integers, FiniteSets

CONSTANTS Users,       \* goroutines that use connections
          ConnKeys,    \* monitors|user|key, the unique keys of the pool
          MaxConns,    \* bound: connections ever made
          MaxRaces     \* bound: increments of users that are lost

VARIABLES
    entries,    \* cp.conns: conn, users, and whether lastUsed is recent
    open,       \* connections that are not shut down
    made,       \* connections ever made
    userPC,     \* where the user is
    key,        \* the unique key the user asked for
    conn,       \* the connection the user made or was given
    races,      \* increments of users lost so far
    exiting     \* CleanupConnections ran

poolVars == <<entries, open, made, userPC, key, conn, races, exiting>>

NoConn == 0
NoEntry == [conn |-> NoConn, users |-> 0, recent |-> FALSE]

UserPlaces == {"idle", "connecting", "inserting", "holding"}

PoolTypeOK == /\ entries \in [ConnKeys -> [conn : 0 .. MaxConns, users : Int, recent : BOOLEAN]]
              /\ open \subseteq 1 .. MaxConns /\ made \in 0 .. MaxConns
              /\ userPC \in [Users -> UserPlaces] /\ key \in [Users -> ConnKeys]
              /\ conn \in [Users -> 0 .. MaxConns]
              /\ races \in 0 .. MaxRaces /\ exiting \in BOOLEAN

\* NewConnPool
PoolInit == /\ entries = [k \in ConnKeys |-> NoEntry]
            /\ open = {} /\ made = 0
            /\ userPC = [u \in Users |-> "idle"] /\ key \in [Users -> ConnKeys]
            /\ conn = [u \in Users |-> NoConn]
            /\ races = 0 /\ exiting = FALSE

Pooled(k) == entries[k].conn # NoConn

Hold(u, c) == /\ userPC' = [userPC EXCEPT ![u] = "holding"]
              /\ conn' = [conn EXCEPT ![u] = c]

\* connEntry.get, in one step.
GetEntry(k) ==
    entries' = [entries EXCEPT ![k] = [conn |-> @.conn, users |-> @.users + 1, recent |-> TRUE]]

-----------------------------------------------------------------------------
(* Get *)

\* The section under RLock.
Get(u, k) ==
    /\ userPC[u] = "idle"
    /\ key' = [key EXCEPT ![u] = k]
    /\ \/ /\ ~ Pooled(k)
          /\ userPC' = [userPC EXCEPT ![u] = "connecting"]
          /\ UNCHANGED <<entries, conn>>
       \/ /\ Pooled(k)
          /\ GetEntry(k)
          /\ Hold(u, entries[k].conn)
    /\ UNCHANGED <<open, made, races, exiting>>

\* Two sections under RLock at the same time: one of the increments is lost.
GetRaces(u, v, k) ==
    /\ u # v /\ userPC[u] = "idle" /\ userPC[v] = "idle"
    /\ Pooled(k) /\ races < MaxRaces
    /\ races' = races + 1
    /\ GetEntry(k)
    /\ key' = [key EXCEPT ![u] = k, ![v] = k]
    /\ userPC' = [userPC EXCEPT ![u] = "holding", ![v] = "holding"]
    /\ conn' = [conn EXCEPT ![u] = entries[k].conn, ![v] = entries[k].conn]
    /\ UNCHANGED <<open, made, exiting>>

\* NewConnWithUser ... Connect, without a lock.
Connect(u) ==
    /\ userPC[u] = "connecting"
    /\ made < MaxConns
    /\ made' = made + 1
    /\ open' = open \cup {made + 1}
    /\ conn' = [conn EXCEPT ![u] = made + 1]
    /\ userPC' = [userPC EXCEPT ![u] = "inserting"]
    /\ UNCHANGED <<entries, key, races, exiting>>

ConnectFails(u) ==
    /\ userPC[u] = "connecting"
    /\ userPC' = [userPC EXCEPT ![u] = "idle"]
    /\ UNCHANGED <<entries, open, made, key, conn, races, exiting>>

\* Mutant: the connection that lost the race is not shut down.
InsertLeaks(u) ==
    LET k == key[u] IN
    /\ userPC[u] = "inserting"
    /\ IF Pooled(k)
       THEN GetEntry(k) /\ Hold(u, entries[k].conn)
       ELSE /\ entries' = [entries EXCEPT ![k] =
                              [conn |-> conn[u], users |-> 1, recent |-> TRUE]]
            /\ Hold(u, conn[u])
    /\ UNCHANGED <<open, made, key, races, exiting>>

\* The section under Lock: of two connections for one key the first stays.
Insert(u) ==
    LET k == key[u] IN
    /\ userPC[u] = "inserting"
    /\ IF Pooled(k)
       THEN /\ GetEntry(k)
            /\ open' = open \ {conn[u]}
            /\ Hold(u, entries[k].conn)
       ELSE /\ entries' = [entries EXCEPT ![k] =
                              [conn |-> conn[u], users |-> 1, recent |-> TRUE]]
            /\ Hold(u, conn[u])
            /\ UNCHANGED open
    /\ UNCHANGED <<made, key, races, exiting>>

-----------------------------------------------------------------------------
(* Copy and Put *)

EntryOf(c) == {k \in ConnKeys : entries[k].conn = c}

\* ClusterConnection.Copy: v gets the connection of u.  A connection that is
\* not in the pool any more is not copied.
Copy(u, v) ==
    /\ userPC[u] = "holding" /\ userPC[v] = "idle"
    /\ \E k \in EntryOf(conn[u]) :
         /\ GetEntry(k)
         /\ Hold(v, conn[u])
         /\ key' = [key EXCEPT ![v] = k]
    /\ UNCHANGED <<open, made, races, exiting>>

\* ClusterConnection.Destroy.
Put(u) ==
    /\ userPC[u] = "holding"
    /\ entries' = [k \in ConnKeys |-> IF k \in EntryOf(conn[u])
                                      THEN [entries[k] EXCEPT !.users = @ - 1]
                                      ELSE entries[k]]
    /\ userPC' = [userPC EXCEPT ![u] = "idle"]
    /\ conn' = [conn EXCEPT ![u] = NoConn]
    /\ UNCHANGED <<open, made, key, races, exiting>>

-----------------------------------------------------------------------------
(* The garbage collector and the end of the process *)

\* destroy and delete for the entries of K.
Destroy(K) == /\ open' = open \ {entries[k].conn : k \in K}
              /\ entries' = [k \in ConnKeys |-> IF k \in K THEN NoEntry ELSE entries[k]]

Gc == /\ ~ exiting
      /\ Destroy({k \in ConnKeys : entries[k].users = 0 /\ ~ entries[k].recent})
      /\ UNCHANGED <<made, userPC, key, conn, races, exiting>>

\* cp.expiry passes without a get().
Expire(k) == /\ entries[k].recent
             /\ entries' = [entries EXCEPT ![k].recent = FALSE]
             /\ UNCHANGED <<open, made, userPC, key, conn, races, exiting>>

\* The connections go whether they have users or not.
CleanupConnections ==
    /\ ~ exiting
    /\ Destroy(ConnKeys)
    /\ exiting' = TRUE
    /\ UNCHANGED <<made, userPC, key, conn, races>>

PoolNext == \/ \E u \in Users : \/ \E k \in ConnKeys : Get(u, k)
                                \/ Connect(u) \/ ConnectFails(u) \/ Insert(u)
                                \/ \E v \in Users : \/ Copy(u, v)
                                                    \/ \E k \in ConnKeys : GetRaces(u, v, k)
                                \/ Put(u)
            \/ \E k \in ConnKeys : Expire(k)
            \/ Gc
            \/ CleanupConnections

PoolSpec == PoolInit /\ [][PoolNext]_poolVars

-----------------------------------------------------------------------------
(* Properties *)

HoldersOf(c) == {u \in Users : userPC[u] = "holding" /\ conn[u] = c}

\* The reference count of a connection is the number of those who hold it.
UsersCountHolders == races = 0 => \A k \in ConnKeys :
    Pooled(k) => entries[k].users = Cardinality(HoldersOf(entries[k].conn))

\* A connection is not shut down under the hands of a user, although the
\* garbage collector looks at the pool only, and not at the users.
InUseOpen == races = 0 /\ ~ exiting => \A u \in Users : userPC[u] = "holding" => conn[u] \in open

\* No connection leaks: one that is open is in the pool, or about to be put
\* there by the Get that made it.
NoConnLeak == \A c \in open :
    \/ \E k \in ConnKeys : entries[k].conn = c
    \/ \E u \in Users : userPC[u] = "inserting" /\ conn[u] = c

\* The three together: the pool and its users agree on every connection.
ConnsAccounted == UsersCountHolders /\ InUseOpen /\ NoConnLeak

\* The inductive form.  The number of a connection tells whose it is: one that is about to
\* be inserted is nobody else's, one in the pool is that of one key.
PooledOnce == \A k \in ConnKeys : Pooled(k) =>
    /\ entries[k].conn \in open
    /\ \A j \in ConnKeys : entries[j].conn = entries[k].conn => j = k
InsertingOwn == \A u \in Users : userPC[u] = "inserting" =>
    /\ conn[u] \in open
    /\ \A k \in ConnKeys : entries[k].conn # conn[u]
    /\ \A v \in Users \ {u} : userPC[v] \in {"inserting", "holding"} => conn[v] # conn[u]
NumbersMade == /\ open \subseteq 1 .. made
               /\ \A u \in Users : userPC[u] = "holding" => conn[u] \in 1 .. made
PoolIInv == PoolTypeOK /\ PooledOnce /\ InsertingOwn /\ NumbersMade /\ ConnsAccounted

-----------------------------------------------------------------------------
(* Claims of the repository that the code does not keep *)

\* conn_pool.go:197: "Requires: locked cp.lock because of ce.get()", and 210:
\* "Only call this while holding the ConnPool.lock": the counter that gc relies
\* on is exact.  Get calls getConn under the read lock only, two increments can
\* be lost in one, and gc then shuts down a connection that is in use.
HeldIsOpen == ~ exiting => \A u \in Users : userPC[u] = "holding" => conn[u] \in open
=============================================================================
