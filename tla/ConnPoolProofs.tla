--------------------------- MODULE ConnPoolProofs ---------------------------
(***************************************************************************)
(* Proofs about ConnPool: as long as no increment is lost, the pool and    *)
(* its users agree on every connection, for any finite set of goroutines   *)
(* and any number of keys and connections.                                 *)
(***************************************************************************)
EXTENDS ConnPool, FiniteSetTheorems, TLAPS

Constants == IsFiniteSet(Users) /\ MaxConns \in Nat /\ MaxRaces \in Nat

-----------------------------------------------------------------------------
\* The counts of one more and of one less holder.
LEMMA HoldersFinite == ASSUME Constants, NEW c PROVE IsFiniteSet(HoldersOf(c))
<1>1. HoldersOf(c) \subseteq Users
  BY DEF HoldersOf
<1> QED BY <1>1, FS_Subset DEF Constants

LEMMA OneMore ==
  ASSUME NEW S, IsFiniteSet(S), NEW x, x \notin S
  PROVE  Cardinality(S \cup {x}) = Cardinality(S) + 1 /\ Cardinality(S) \in Nat
BY FS_AddElement, FS_CardinalityType

LEMMA OneLess ==
  ASSUME NEW S, IsFiniteSet(S), NEW x \in S
  PROVE  Cardinality(S \ {x}) = Cardinality(S) - 1 /\ Cardinality(S) \in Nat
BY FS_RemoveElement, FS_CardinalityType

\* A user that did not hold a connection and now does is one more holder of it, and
\* of no other.
LEMMA HoldCounts ==
  ASSUME Constants, PoolTypeOK, NEW u \in Users, NEW c \in 1 .. MaxConns, userPC[u] # "holding",
         Hold(u, c)
  PROVE  /\ Cardinality(HoldersOf(c))' = Cardinality(HoldersOf(c)) + 1
         /\ \A d : d # c => HoldersOf(d)' = HoldersOf(d)
<1>1. HoldersOf(c)' = HoldersOf(c) \cup {u} /\ u \notin HoldersOf(c)
  BY DEF HoldersOf, Hold, PoolTypeOK
<1>2. \A d : d # c => HoldersOf(d)' = HoldersOf(d)
  BY DEF HoldersOf, Hold, PoolTypeOK
<1> QED BY <1>1, <1>2, OneMore, HoldersFinite

-----------------------------------------------------------------------------
\* NewConnPool establishes the inductive invariant.
LEMMA InitIInv == ASSUME Constants, PoolInit PROVE PoolIInv
<1>1. \A k \in ConnKeys : entries[k] = NoEntry /\ ~ Pooled(k)
  BY DEF PoolInit, Pooled, NoEntry
<1>2. \A u \in Users : userPC[u] = "idle" /\ open = {}
  BY DEF PoolInit
<1>3. PoolTypeOK
  <2>1. NoEntry \in [conn : 0 .. MaxConns, users : Int, recent : BOOLEAN]
    BY DEF Constants, NoEntry, NoConn
  <2>2. entries \in [ConnKeys -> [conn : 0 .. MaxConns, users : Int, recent : BOOLEAN]]
    BY <2>1 DEF PoolInit
  <2>3. conn \in [Users -> 0 .. MaxConns] /\ made \in 0 .. MaxConns /\ races \in 0 .. MaxRaces
    BY DEF Constants, PoolInit, NoConn
  <2>4. userPC \in [Users -> UserPlaces] /\ key \in [Users -> ConnKeys] /\ exiting \in BOOLEAN
    BY DEF PoolInit, UserPlaces
  <2> QED BY <2>2, <2>3, <2>4 DEF PoolInit, PoolTypeOK
<1>4. PooledOnce /\ InsertingOwn /\ NumbersMade
  BY <1>1, <1>2 DEF PoolInit, PooledOnce, InsertingOwn, NumbersMade
<1>5. ConnsAccounted
  BY <1>1, <1>2 DEF PoolInit, ConnsAccounted, UsersCountHolders, InUseOpen, NoConnLeak
<1> QED BY <1>3, <1>4, <1>5 DEF PoolIInv

\* connEntry.get changes the count of one entry.
LEMMA GetEntryDoes ==
  ASSUME PoolTypeOK, NEW k \in ConnKeys, GetEntry(k)
  PROVE  /\ \A j \in ConnKeys : entries'[j].conn = entries[j].conn
         /\ \A j \in ConnKeys : entries'[j].users =
               IF j = k THEN entries[j].users + 1 ELSE entries[j].users
         /\ entries' \in [ConnKeys -> [conn : 0 .. MaxConns, users : Int, recent : BOOLEAN]]
<1> DEFINE e == [conn |-> entries[k].conn, users |-> entries[k].users + 1, recent |-> TRUE]
<1>1. entries \in [ConnKeys -> [conn : 0 .. MaxConns, users : Int, recent : BOOLEAN]]
  BY DEF PoolTypeOK
<1>2. e \in [conn : 0 .. MaxConns, users : Int, recent : BOOLEAN]
  BY <1>1
<1>3. entries' = [entries EXCEPT ![k] = e]
  BY <1>1 DEF GetEntry
<1>4. e.conn = entries[k].conn /\ e.users = entries[k].users + 1
  OBVIOUS
<1> HIDE DEF e
<1> QED BY <1>1, <1>2, <1>3, <1>4

\* A user gets the connection of an entry: the part of the invariant about counts.
LEMMA GetEntryStep ==
  ASSUME Constants, PoolIInv, NEW u \in Users, NEW k \in ConnKeys, Pooled(k), userPC[u] # "holding",
         GetEntry(k), Hold(u, entries[k].conn), races' = races,
         open' = IF userPC[u] = "inserting" THEN open \ {conn[u]} ELSE open,
         key' \in [Users -> ConnKeys], made' = made, exiting' = exiting
  PROVE  PoolIInv'
<1> PICK c : c = entries[k].conn
  OBVIOUS
<1>1. c \in 1 .. MaxConns /\ c \in open /\ c \in 1 .. made
  BY DEF PoolIInv, PoolTypeOK, PooledOnce, NumbersMade, Pooled, NoConn
<1>2. /\ \A j \in ConnKeys : entries'[j].conn = entries[j].conn
      /\ \A j \in ConnKeys : entries'[j].users = IF j = k THEN entries[j].users + 1 ELSE entries[j].users
      /\ entries' \in [ConnKeys -> [conn : 0 .. MaxConns, users : Int, recent : BOOLEAN]]
  BY GetEntryDoes DEF PoolIInv
<1>3. /\ Cardinality(HoldersOf(c))' = Cardinality(HoldersOf(c)) + 1
      /\ \A d : d # c => HoldersOf(d)' = HoldersOf(d)
  BY <1>1, HoldCounts DEF PoolIInv
<1>4. /\ userPC' = [userPC EXCEPT ![u] = "holding"] /\ conn' = [conn EXCEPT ![u] = c]
      /\ userPC \in [Users -> UserPlaces] /\ conn \in [Users -> 0 .. MaxConns]
  BY DEF Hold, PoolIInv, PoolTypeOK
<1>5. PoolTypeOK'
  BY <1>1, <1>2, <1>4 DEF PoolIInv, PoolTypeOK, UserPlaces
<1>6. userPC[u] = "inserting" => conn[u] # c /\ \A j \in ConnKeys : entries[j].conn # conn[u]
  BY DEF PoolIInv, InsertingOwn
<1>7. PooledOnce'
  BY <1>1, <1>2, <1>6 DEF PoolIInv, PooledOnce, Pooled
<1>8. InsertingOwn'
  BY <1>1, <1>2, <1>4 DEF PoolIInv, InsertingOwn, PooledOnce
<1>9. NumbersMade'
  BY <1>1, <1>4 DEF PoolIInv, NumbersMade
<1>10. UsersCountHolders'
  <2> SUFFICES ASSUME races = 0, NEW j \in ConnKeys, Pooled(j)
               PROVE  entries'[j].users = Cardinality(HoldersOf(entries[j].conn))'
    BY <1>2 DEF UsersCountHolders, Pooled
  <2>1. entries[j].users = Cardinality(HoldersOf(entries[j].conn))
    BY DEF PoolIInv, ConnsAccounted, UsersCountHolders
  <2>2. CASE j = k
    BY <1>2, <1>3, <2>1, <2>2
  <2>3. CASE j # k
    <3>1. entries[j].conn # c
      BY <2>3 DEF PoolIInv, PooledOnce
    <3> QED BY <1>2, <1>3, <2>1, <2>3, <3>1
  <2> QED BY <2>2, <2>3
<1>11. InUseOpen'
  <2> SUFFICES ASSUME races = 0, ~ exiting, NEW v \in Users, userPC'[v] = "holding"
               PROVE  conn'[v] \in open'
    BY DEF InUseOpen
  <2>1. CASE v = u
    BY <1>1, <1>4, <1>6, <2>1
  <2>2. CASE v # u
    BY <1>4, <2>2 DEF PoolIInv, ConnsAccounted, InUseOpen, InsertingOwn
  <2> QED BY <2>1, <2>2
<1>12. NoConnLeak'
  <2> SUFFICES ASSUME NEW d \in open'
               PROVE  \/ \E j \in ConnKeys : entries'[j].conn = d
                      \/ \E v \in Users : userPC'[v] = "inserting" /\ conn'[v] = d
    BY DEF NoConnLeak
  <2>1. \/ \E j \in ConnKeys : entries[j].conn = d
        \/ \E v \in Users : userPC[v] = "inserting" /\ conn[v] = d
    BY DEF PoolIInv, ConnsAccounted, NoConnLeak
  <2>2. userPC[u] = "inserting" => d # conn[u]
    OBVIOUS
  <2> QED BY <1>2, <1>4, <2>1, <2>2
<1> QED BY <1>5, <1>7, <1>8, <1>9, <1>10, <1>11, <1>12 DEF PoolIInv, ConnsAccounted

\* A user that has no connection starts to connect, or gives up.
LEMMA WaitStep ==
  ASSUME Constants, PoolIInv, NEW u \in Users, userPC[u] \in {"idle", "connecting"},
         NEW place \in {"idle", "connecting"}, userPC' = [userPC EXCEPT ![u] = place],
         key' \in [Users -> ConnKeys], UNCHANGED <<entries, open, made, conn, races, exiting>>
  PROVE  PoolIInv'
<1>1. \A c : HoldersOf(c)' = HoldersOf(c)
  BY DEF HoldersOf, PoolIInv, PoolTypeOK
<1>2. PoolTypeOK'
  BY DEF PoolIInv, PoolTypeOK, UserPlaces
<1>3. PooledOnce' /\ NumbersMade' /\ InsertingOwn'
  BY DEF PoolIInv, PoolTypeOK, PooledOnce, NumbersMade, InsertingOwn, Pooled
<1>4. UsersCountHolders'
  BY <1>1 DEF PoolIInv, ConnsAccounted, UsersCountHolders, Pooled
<1>5. InUseOpen' /\ NoConnLeak'
  BY DEF PoolIInv, PoolTypeOK, ConnsAccounted, InUseOpen, NoConnLeak
<1> QED BY <1>2, <1>3, <1>4, <1>5 DEF PoolIInv, ConnsAccounted

LEMMA GetStep ==
  ASSUME Constants, PoolIInv, NEW u \in Users, NEW k \in ConnKeys, Get(u, k)
  PROVE  PoolIInv'
<1>1. userPC[u] = "idle" /\ key' \in [Users -> ConnKeys]
  BY DEF Get, PoolIInv, PoolTypeOK
<1>2. CASE ~ Pooled(k) /\ userPC' = [userPC EXCEPT ![u] = "connecting"] /\ UNCHANGED <<entries, conn>>
  BY <1>1, <1>2, WaitStep DEF Get
<1>3. CASE Pooled(k) /\ GetEntry(k) /\ Hold(u, entries[k].conn)
  BY <1>1, <1>3, GetEntryStep DEF Get
<1> QED BY <1>2, <1>3 DEF Get

\* A race loses an increment: the counts are not claimed any more.
LEMMA GetRacesStep ==
  ASSUME Constants, PoolIInv, NEW u \in Users, NEW v \in Users, NEW k \in ConnKeys,
         GetRaces(u, v, k)
  PROVE  PoolIInv'
<1>1. /\ \A j \in ConnKeys : entries'[j].conn = entries[j].conn
      /\ entries' \in [ConnKeys -> [conn : 0 .. MaxConns, users : Int, recent : BOOLEAN]]
  BY GetEntryDoes DEF PoolIInv, GetRaces
<1>2. entries[k].conn \in open /\ entries[k].conn \in 1 .. made /\ entries[k].conn \in 0 .. MaxConns
  BY DEF PoolIInv, PoolTypeOK, PooledOnce, NumbersMade, GetRaces
<1>3. /\ races' \in 0 .. MaxRaces /\ races' # 0
      /\ key' \in [Users -> ConnKeys]
      /\ userPC' \in [Users -> UserPlaces] /\ conn' \in [Users -> 0 .. MaxConns]
      /\ \A w \in Users : userPC'[w] = IF w \in {u, v} THEN "holding" ELSE userPC[w]
      /\ \A w \in Users : conn'[w] = IF w \in {u, v} THEN entries[k].conn ELSE conn[w]
      /\ userPC[u] = "idle" /\ userPC[v] = "idle"
  <2>1. races' \in 0 .. MaxRaces /\ races' # 0 /\ key' \in [Users -> ConnKeys]
    BY DEF PoolIInv, PoolTypeOK, GetRaces, Constants
  <2>2. /\ userPC' \in [Users -> UserPlaces]
        /\ \A w \in Users : userPC'[w] = IF w \in {u, v} THEN "holding" ELSE userPC[w]
        /\ userPC[u] = "idle" /\ userPC[v] = "idle"
    BY DEF PoolIInv, PoolTypeOK, GetRaces, UserPlaces
  <2>3. /\ conn' \in [Users -> 0 .. MaxConns]
        /\ \A w \in Users : conn'[w] = IF w \in {u, v} THEN entries[k].conn ELSE conn[w]
    BY <1>2 DEF PoolIInv, PoolTypeOK, GetRaces
  <2> QED BY <2>1, <2>2, <2>3
<1>4. PoolTypeOK'
  BY <1>1, <1>3 DEF PoolIInv, PoolTypeOK, GetRaces
<1>5. PooledOnce' /\ NumbersMade'
  <2>1. PooledOnce'
    BY <1>1 DEF PoolIInv, PooledOnce, Pooled, GetRaces
  <2>2. NumbersMade'
    BY <1>2, <1>3 DEF PoolIInv, NumbersMade, GetRaces
  <2> QED BY <2>1, <2>2
<1>6. InsertingOwn'
  BY <1>1, <1>2, <1>3 DEF PoolIInv, InsertingOwn, GetRaces
<1>7. ConnsAccounted'
  <2>1. UsersCountHolders' /\ InUseOpen'
    BY <1>3 DEF UsersCountHolders, InUseOpen
  <2>2. NoConnLeak'
    BY <1>1, <1>3 DEF PoolIInv, ConnsAccounted, NoConnLeak, GetRaces
  <2> QED BY <2>1, <2>2 DEF ConnsAccounted
<1> QED BY <1>4, <1>5, <1>6, <1>7 DEF PoolIInv

LEMMA ConnectStep ==
  ASSUME Constants, PoolIInv, NEW u \in Users, Connect(u)
  PROVE  PoolIInv'
<1> USE DEF Connect
<1>1. made + 1 \in 1 .. MaxConns /\ made + 1 \notin open /\ made \in Nat
  BY DEF PoolIInv, PoolTypeOK, NumbersMade, Constants
<1>2. \A k \in ConnKeys : entries[k].conn # made + 1
  BY <1>1 DEF PoolIInv, PoolTypeOK, PooledOnce, NumbersMade, Pooled, NoConn
<1>3. \A v \in Users : userPC[v] \in {"inserting", "holding"} => conn[v] # made + 1
  BY <1>1 DEF PoolIInv, PoolTypeOK, InsertingOwn, NumbersMade
<1>4. \A c : HoldersOf(c)' = HoldersOf(c)
  BY DEF HoldersOf, PoolIInv, PoolTypeOK
<1>5. PoolTypeOK'
  BY <1>1 DEF PoolIInv, PoolTypeOK, UserPlaces
<1>6. PooledOnce' /\ NumbersMade'
  BY <1>1 DEF PoolIInv, PoolTypeOK, PooledOnce, NumbersMade, Pooled
<1>7. InsertingOwn'
  BY <1>2, <1>3 DEF PoolIInv, PoolTypeOK, InsertingOwn
<1>8. UsersCountHolders'
  BY <1>4 DEF PoolIInv, ConnsAccounted, UsersCountHolders, Pooled
<1>9. InUseOpen' /\ NoConnLeak'
  BY DEF PoolIInv, PoolTypeOK, ConnsAccounted, InUseOpen, NoConnLeak
<1> QED BY <1>5, <1>6, <1>7, <1>8, <1>9 DEF PoolIInv, ConnsAccounted

\* Of two connections for one key the first stays, and the other is shut down.
LEMMA InsertStep ==
  ASSUME Constants, PoolIInv, NEW u \in Users, Insert(u)
  PROVE  PoolIInv'
<1> PICK k \in ConnKeys : k = key[u]
  BY DEF PoolIInv, PoolTypeOK
<1> PICK c \in 1 .. MaxConns : c = conn[u]
  BY DEF Insert, PoolIInv, PoolTypeOK, InsertingOwn
<1>0. userPC[u] = "inserting" /\ key' \in [Users -> ConnKeys]
  BY DEF Insert, PoolIInv, PoolTypeOK
<1>1. CASE Pooled(k)
  BY <1>0, <1>1, GetEntryStep DEF Insert
<1>2. CASE ~ Pooled(k)
  <2> DEFINE e == [conn |-> c, users |-> 1, recent |-> TRUE]
  <2>1. /\ entries' = [entries EXCEPT ![k] = e] /\ Hold(u, c)
        /\ UNCHANGED <<open, made, key, races, exiting>>
    BY <1>2 DEF Insert
  <2>2. e.conn = c /\ e.users = 1 /\ e \in [conn : 0 .. MaxConns, users : Int, recent : BOOLEAN]
    OBVIOUS
  <2> HIDE DEF e
  <2>3. /\ \A j \in ConnKeys : entries'[j].conn = IF j = k THEN c ELSE entries[j].conn
        /\ \A j \in ConnKeys : entries'[j].users = IF j = k THEN 1 ELSE entries[j].users
        /\ entries' \in [ConnKeys -> [conn : 0 .. MaxConns, users : Int, recent : BOOLEAN]]
    BY <2>1, <2>2 DEF PoolIInv, PoolTypeOK
  <2>4. /\ c \in open /\ c \in 1 .. made /\ \A j \in ConnKeys : entries[j].conn # c
        /\ \A v \in Users \ {u} : userPC[v] \in {"inserting", "holding"} => conn[v] # c
    BY <1>0 DEF PoolIInv, InsertingOwn, NumbersMade
  <2>5. /\ userPC' \in [Users -> UserPlaces] /\ conn' = conn
        /\ \A v \in Users : userPC'[v] = IF v = u THEN "holding" ELSE userPC[v]
    BY <2>1 DEF Hold, PoolIInv, PoolTypeOK, UserPlaces
  <2>6. HoldersOf(c)' = {u} /\ \A d : d # c => HoldersOf(d)' = HoldersOf(d)
    BY <2>4, <2>5 DEF HoldersOf
  <2>7. PoolTypeOK'
    BY <2>1, <2>3, <2>5 DEF PoolIInv, PoolTypeOK
  <2>8. PooledOnce' /\ NumbersMade'
    BY <2>1, <2>3, <2>4, <2>5 DEF PoolIInv, PooledOnce, NumbersMade, Pooled
  <2>9. InsertingOwn'
    BY <2>1, <2>3, <2>4, <2>5 DEF PoolIInv, InsertingOwn
  <2>10. UsersCountHolders'
    <3> SUFFICES ASSUME races = 0, NEW j \in ConnKeys, entries'[j].conn # NoConn
                 PROVE  entries'[j].users = Cardinality(HoldersOf(entries[j].conn)')
      BY <2>1 DEF UsersCountHolders, Pooled
    <3>1. CASE j = k
      BY <2>3, <2>6, <3>1, FS_Singleton
    <3>2. CASE j # k
      BY <2>3, <2>4, <2>6, <3>2 DEF PoolIInv, ConnsAccounted, UsersCountHolders, Pooled
    <3> QED BY <3>1, <3>2
  <2>11. InUseOpen'
    BY <2>1, <2>4, <2>5 DEF PoolIInv, ConnsAccounted, InUseOpen
  <2>12. NoConnLeak'
    <3> SUFFICES ASSUME NEW d \in open
                 PROVE  \/ \E j \in ConnKeys : entries'[j].conn = d
                        \/ \E v \in Users : userPC'[v] = "inserting" /\ conn'[v] = d
      BY <2>1 DEF NoConnLeak
    <3>1. d # NoConn /\ entries[k].conn = NoConn
      BY <1>2 DEF PoolIInv, NumbersMade, NoConn, Pooled
    <3>2. \/ \E j \in ConnKeys : entries[j].conn = d
          \/ \E v \in Users : userPC[v] = "inserting" /\ conn[v] = d
      BY DEF PoolIInv, ConnsAccounted, NoConnLeak
    <3> QED BY <2>3, <2>5, <3>1, <3>2
  <2> QED BY <2>7, <2>8, <2>9, <2>10, <2>11, <2>12 DEF PoolIInv, ConnsAccounted
<1> QED BY <1>1, <1>2

LEMMA CopyStep ==
  ASSUME Constants, PoolIInv, NEW u \in Users, NEW v \in Users, Copy(u, v)
  PROVE  PoolIInv'
<1>1. PICK k \in EntryOf(conn[u]) : /\ GetEntry(k) /\ Hold(v, conn[u])
                                    /\ key' = [key EXCEPT ![v] = k]
  BY DEF Copy
<1>2. k \in ConnKeys /\ entries[k].conn = conn[u] /\ Pooled(k) /\ userPC[v] = "idle"
  BY <1>1 DEF Copy, EntryOf, Pooled, NoConn, PoolIInv, NumbersMade
<1> QED BY <1>1, <1>2, GetEntryStep DEF Copy, PoolIInv, PoolTypeOK

LEMMA PutStep ==
  ASSUME Constants, PoolIInv, NEW u \in Users, Put(u)
  PROVE  PoolIInv'
<1> PICK c \in 1 .. made : c = conn[u]
  BY DEF Put, PoolIInv, NumbersMade
<1>1. /\ \A j \in ConnKeys : entries'[j].conn = entries[j].conn
      /\ \A j \in ConnKeys : entries'[j].users =
            IF entries[j].conn = c THEN entries[j].users - 1 ELSE entries[j].users
      /\ entries' \in [ConnKeys -> [conn : 0 .. MaxConns, users : Int, recent : BOOLEAN]]
  <2>1. entries \in [ConnKeys -> [conn : 0 .. MaxConns, users : Int, recent : BOOLEAN]]
    BY DEF PoolIInv, PoolTypeOK
  <2>2. entries' = [j \in ConnKeys |-> IF entries[j].conn = c
                                       THEN [entries[j] EXCEPT !.users = @ - 1] ELSE entries[j]]
    BY DEF Put, EntryOf
  <2>3. ASSUME NEW j \in ConnKeys
        PROVE  /\ entries'[j] \in [conn : 0 .. MaxConns, users : Int, recent : BOOLEAN]
               /\ entries'[j].conn = entries[j].conn
               /\ entries'[j].users =
                    IF entries[j].conn = c THEN entries[j].users - 1 ELSE entries[j].users
    BY <2>1, <2>2
  <2> QED BY <2>2, <2>3
<1>2. /\ userPC[u] = "holding" /\ userPC' \in [Users -> UserPlaces] /\ conn' \in [Users -> 0 .. MaxConns]
      /\ \A v \in Users : userPC'[v] = IF v = u THEN "idle" ELSE userPC[v]
      /\ \A v \in Users \ {u} : conn'[v] = conn[v]
      /\ UNCHANGED <<open, made, key, races, exiting>>
  BY DEF Put, PoolIInv, PoolTypeOK, UserPlaces, NoConn, Constants
<1>3. /\ HoldersOf(c)' = HoldersOf(c) \ {u} /\ u \in HoldersOf(c)
      /\ \A d : d # c => HoldersOf(d)' = HoldersOf(d)
  BY <1>2 DEF HoldersOf
<1>4. Cardinality(HoldersOf(c)') = Cardinality(HoldersOf(c)) - 1
  BY <1>3, OneLess, HoldersFinite
<1>5. PoolTypeOK'
  BY <1>1, <1>2 DEF PoolIInv, PoolTypeOK
<1>6. PooledOnce' /\ NumbersMade'
  BY <1>1, <1>2 DEF PoolIInv, PooledOnce, NumbersMade, Pooled
<1>7. InsertingOwn'
  BY <1>1, <1>2 DEF PoolIInv, InsertingOwn
<1>8. UsersCountHolders'
  <2> SUFFICES ASSUME races = 0, NEW j \in ConnKeys, Pooled(j)
               PROVE  entries'[j].users = Cardinality(HoldersOf(entries[j].conn)')
    BY <1>1, <1>2 DEF UsersCountHolders, Pooled
  <2>1. entries[j].users = Cardinality(HoldersOf(entries[j].conn))
    BY DEF PoolIInv, ConnsAccounted, UsersCountHolders
  <2> PICK d : d = entries[j].conn /\ d = entries'[j].conn
    BY <1>1
  <2>2. entries'[j].users = Cardinality(HoldersOf(d)')
    BY <1>1, <1>3, <1>4, <2>1
  <2> QED BY <2>2
<1>9. InUseOpen'
  BY <1>2 DEF PoolIInv, ConnsAccounted, InUseOpen
<1>10. NoConnLeak'
  BY <1>1, <1>2 DEF PoolIInv, ConnsAccounted, NoConnLeak
<1> QED BY <1>5, <1>6, <1>7, <1>8, <1>9, <1>10 DEF PoolIInv, ConnsAccounted

\* Connections of which no user is left, or all of them when the process ends.
LEMMA DestroyStep ==
  ASSUME Constants, PoolIInv, NEW K \in SUBSET ConnKeys, Destroy(K),
         exiting' \in BOOLEAN, exiting => exiting', UNCHANGED <<made, userPC, key, conn, races>>,
         ~ exiting' /\ races = 0 => \A k \in K : Pooled(k) => HoldersOf(entries[k].conn) = {}
  PROVE  PoolIInv'
<1>1. /\ \A j \in ConnKeys : entries'[j] = IF j \in K THEN NoEntry ELSE entries[j]
      /\ entries' \in [ConnKeys -> [conn : 0 .. MaxConns, users : Int, recent : BOOLEAN]]
  <2>1. NoEntry \in [conn : 0 .. MaxConns, users : Int, recent : BOOLEAN]
    BY DEF Constants, NoEntry, NoConn
  <2> QED BY <2>1 DEF Destroy, PoolIInv, PoolTypeOK
<1>2. NoEntry.conn = NoConn
  BY DEF NoEntry
<1>3. \A j \in ConnKeys : entries'[j].conn # NoConn => j \notin K /\ entries'[j] = entries[j]
  BY <1>1, <1>2
<1>4. \A c : c \in open' <=> c \in open /\ \A k \in K : entries[k].conn # c
  BY DEF Destroy
<1>5. \A c : HoldersOf(c)' = HoldersOf(c)
  BY DEF HoldersOf
<1>6. PoolTypeOK'
  BY <1>1, <1>4 DEF PoolIInv, PoolTypeOK
<1>7. PooledOnce'
  BY <1>1, <1>3, <1>4 DEF PoolIInv, PooledOnce, Pooled
<1>8. NumbersMade' /\ NoConn \notin open
  <2>1. NumbersMade'
    BY <1>4 DEF PoolIInv, NumbersMade
  <2>2. NoConn \notin open
    BY DEF PoolIInv, NumbersMade, NoConn
  <2> QED BY <2>1, <2>2
<1>9. InsertingOwn'
  BY <1>1, <1>2, <1>4, <1>8 DEF PoolIInv, InsertingOwn
<1>10. UsersCountHolders'
  BY <1>3, <1>5 DEF PoolIInv, ConnsAccounted, UsersCountHolders, Pooled
<1>11. InUseOpen'
  <2> SUFFICES ASSUME ~ exiting', races = 0, NEW u \in Users, userPC[u] = "holding"
               PROVE  conn[u] \in open'
    BY DEF InUseOpen
  <2>1. conn[u] \in open /\ conn[u] # NoConn
    BY <1>8 DEF PoolIInv, ConnsAccounted, InUseOpen
  <2>2. u \in HoldersOf(conn[u])
    BY DEF HoldersOf
  <2> QED BY <1>4, <2>1, <2>2 DEF Pooled
<1>12. NoConnLeak'
  BY <1>1, <1>4 DEF PoolIInv, ConnsAccounted, NoConnLeak
<1> QED BY <1>6, <1>7, <1>8, <1>9, <1>10, <1>11, <1>12 DEF PoolIInv, ConnsAccounted

LEMMA GcStep == ASSUME Constants, PoolIInv, Gc PROVE PoolIInv'
<1> DEFINE K == {k \in ConnKeys : entries[k].users = 0 /\ ~ entries[k].recent}
<1>1. ASSUME races = 0, NEW k \in K, Pooled(k) PROVE HoldersOf(entries[k].conn) = {}
  BY <1>1, HoldersFinite, FS_EmptySet DEF PoolIInv, ConnsAccounted, UsersCountHolders
<1>2. Destroy(K) /\ exiting' = exiting /\ UNCHANGED <<made, userPC, key, conn, races>>
  BY DEF Gc
<1>3. exiting \in BOOLEAN
  BY DEF PoolIInv, PoolTypeOK
<1> HIDE DEF K
<1>4. K \in SUBSET ConnKeys
  BY DEF K
<1> QED BY <1>1, <1>2, <1>3, <1>4, DestroyStep

LEMMA ExpireStep ==
  ASSUME Constants, PoolIInv, NEW k \in ConnKeys, Expire(k)
  PROVE  PoolIInv'
<1>1. /\ \A j \in ConnKeys : entries'[j].conn = entries[j].conn /\ entries'[j].users = entries[j].users
      /\ entries' \in [ConnKeys -> [conn : 0 .. MaxConns, users : Int, recent : BOOLEAN]]
  BY DEF Expire, PoolIInv, PoolTypeOK
<1>2. UNCHANGED <<open, made, userPC, key, conn, races, exiting>> /\ \A c : HoldersOf(c)' = HoldersOf(c)
  BY DEF Expire, HoldersOf
<1>3. PoolTypeOK' /\ NumbersMade'
  BY <1>1, <1>2 DEF PoolIInv, PoolTypeOK, NumbersMade
<1>4. PooledOnce' /\ InsertingOwn'
  BY <1>1, <1>2 DEF PoolIInv, PooledOnce, InsertingOwn, Pooled
<1>5. UsersCountHolders'
  BY <1>1, <1>2 DEF PoolIInv, ConnsAccounted, UsersCountHolders, Pooled
<1>6. InUseOpen' /\ NoConnLeak'
  BY <1>1, <1>2 DEF PoolIInv, ConnsAccounted, InUseOpen, NoConnLeak
<1> QED BY <1>3, <1>4, <1>5, <1>6 DEF PoolIInv, ConnsAccounted

\* Every step of the pool keeps the inductive invariant.
LEMMA NextIInv == ASSUME Constants, PoolIInv, [PoolNext]_poolVars PROVE PoolIInv'
<1>1. CASE UNCHANGED poolVars
  BY <1>1 DEF poolVars, PoolIInv, PoolTypeOK, PooledOnce, InsertingOwn, NumbersMade,
     ConnsAccounted, UsersCountHolders, InUseOpen, NoConnLeak, Pooled, HoldersOf
<1>2. ASSUME NEW u \in Users, ConnectFails(u) PROVE PoolIInv'
  BY <1>2, WaitStep DEF ConnectFails, PoolIInv, PoolTypeOK
<1>3. CASE CleanupConnections
  BY <1>3, DestroyStep DEF CleanupConnections
<1> QED BY <1>1, <1>2, <1>3, GetStep, GetRacesStep, ConnectStep, InsertStep, CopyStep, PutStep,
           GcStep, ExpireStep DEF PoolNext

\* As long as no increment is lost, the count of users of every connection is exact and no
\* connection is shut down in the hands of a user; and none leaks, whatever is lost, although
\* two Get calls may both connect, and the collector sees the pool only (conn_pool.go).
THEOREM PoolAgrees == ASSUME Constants PROVE PoolSpec => []ConnsAccounted
<1>1. PoolInit => PoolIInv
  BY InitIInv
<1>2. PoolIInv /\ [PoolNext]_poolVars => PoolIInv'
  BY NextIInv
<1>3. PoolIInv => ConnsAccounted
  BY DEF PoolIInv
<1> QED BY <1>1, <1>2, <1>3, PTL DEF PoolSpec
=============================================================================
