------------------------ MODULE RbdVolumesInvariant -------------------------
(***************************************************************************)
(* CreateVolume and DeleteVolume of the RBD controller, for any names,     *)
(* UUIDs, requests, failing calls and restarts: the key of a name changes  *)
(* only under its lock, and what the CO holds keeps its image and its      *)
(* journal, as long as the CO does not create what it deletes.             *)
(*                                                                         *)
(* The invariant has two layers.  Control and Locked say what a request    *)
(* knows at each step and which locks it has; they hold in every           *)
(* environment.  Clean says what the journal has at each step of a         *)
(* request that has the lock, and needs the CO to wait.  It is stated for  *)
(* an owner of every UUID, the name that it was generated for.             *)
(*                                                                         *)
(* This module defines the invariant and shows that the steps of           *)
(* CreateVolume keep it; RbdVolumesProofs.tla has the other steps and the  *)
(* theorems.                                                               *)
(***************************************************************************)
EXTENDS RbdVolumes, TLAPS

\* An object that is not there differs from every object that is.
Constants == NoObject \notin Attributes

\* The steps of a deletion that has the lock of the name.
NamedDelete == {"delMirror", "delInUse", "delImage", "delRemove"}

\* What a request knows at step s: r is the record of its variables.
ControlOf(s, r) ==
    /\ s = "idle" => r = Idle
    /\ s \in CreateSteps => r.op = "create"
    /\ s \in DeleteSteps => r.op = "delete"
    /\ s \in UndoSteps => /\ r.op \in {"create", "delete"} /\ r.then # "none"
                          /\ r.op = "delete" => r.then = "return"
    /\ r.op = "create" => r.name \in Names /\ r.name \in r.held
    /\ r.op = "delete" => r.uuid \in UUIDs /\ r.uuid \in r.held
    /\ s = "checkName" => r.uuid = NoUUID
    /\ s \in (CreateSteps \ {"checkName", "reserveUUID"}) \cup UndoSteps => r.uuid \in UUIDs
    /\ s \in NamedDelete => r.then = "return"
    /\ s \in NamedDelete \cup UndoSteps => r.name \in r.held

RequestTypes == /\ volumeLocks \subseteq Names \cup UUIDs \cup {NoName}
                /\ pc \in [Requests -> Steps \cup {"idle"}]
                /\ req \in [Requests -> Reqs]

Control == \A p \in Requests : ControlOf(pc[p], req[p])

\* A lock that a request has is taken, and is nobody else's.
Locked == \A p \in Requests :
    /\ req[p].held \subseteq volumeLocks
    /\ \A q \in Requests : q # p => req[p].held \cap req[q].held = {}

RequestInv == RequestTypes /\ Control /\ Locked

StoreTypes == /\ images \in [UUIDs -> Nat] /\ trash \subseteq UUIDs \X Nat /\ nextID \in Nat
              /\ secondary \subseteq UUIDs
HistoryTypes == /\ servedFor \in [UUIDs -> Names \cup {NoName}] /\ used \subseteq UUIDs
                /\ granted \in [Names -> UUIDs \cup {NoUUID}]
                /\ recycled \subseteq UUIDs /\ abandoned \subseteq UUIDs
BoundTypes == /\ faults \in 0 .. scenario.faults /\ crashes \in 0 .. scenario.crashes
              /\ scenario \in Scenarios
ClusterTypes == JournalTypeOK /\ StoreTypes /\ HistoryTypes /\ BoundTypes

-----------------------------------------------------------------------------
(* What the journal has, when the CO waits *)

\* Steps at which the key of the name leads to the request's UUID, at which the
\* reservation is complete, and those of a volume that the CO does not have yet.
ReservedSteps == {"statImage", "repairID", "repairMeta", "createImage", "storeID", "setMeta"}
KeyedSteps == ReservedSteps \cup {"getAttributes", "reserveAttrs", "rollbackTrash", "rollbackRemove"}
NewSteps == {"reserveUUID", "reserveName", "reserveAttrs", "createImage", "storeID", "setMeta",
             "rollbackTrash", "rollbackRemove"}

CreatePhase(s, r) == r.op = "create" =>
    /\ s \in KeyedSteps => csiDirectory[r.name] = r.uuid
    /\ s \in {"reserveUUID", "reserveName"} => csiDirectory[r.name] = NoUUID
    /\ s \in UndoSteps => csiDirectory[r.name] \in {NoUUID, r.uuid}
    /\ s \in ReservedSteps => Reserved(r.name, r.uuid)
    /\ s \in NewSteps \cup UndoSteps => granted[r.name] = NoUUID

\* The CO does not hold what it deletes, and does not create it at the same time.
DeletePhase(r) == r.op = "delete" =>
    /\ servedFor[r.uuid] # NoName
    /\ \A n \in Names : granted[n] # r.uuid
    /\ \A q \in Requests : req[q].op = "create" => req[q].name # servedFor[r.uuid]
    /\ r.name \in Names => csiDirectory[r.name] \in {NoUUID, r.uuid}

UndonePhase(s, r) == s = "undoName" =>
    uuidDirectory[r.uuid] = NoObject \/ uuidDirectory[r.uuid].reqName = NoName

PhaseOf(s, r) == CreatePhase(s, r) /\ DeletePhase(r) /\ UndonePhase(s, r)

\* f is the name that a UUID was generated for.
OwnerOf(f, r) == /\ r.op = "create" /\ r.uuid # NoUUID => f[r.uuid] = r.name
                 /\ r.op = "delete" /\ r.name \in Names => f[r.uuid] = r.name
OwnerInJournal(f) ==
    /\ f \in [UUIDs -> Names \cup {NoName}]
    /\ \A u \in UUIDs : u \notin used => f[u] = NoName
    /\ \A n \in Names : csiDirectory[n] # NoUUID => f[csiDirectory[n]] = n
    /\ \A u \in UUIDs : uuidDirectory[u] # NoObject /\ uuidDirectory[u].reqName \in Names =>
           f[u] = uuidDirectory[u].reqName
    /\ \A u \in UUIDs : servedFor[u] # NoName => f[u] = servedFor[u]

\* The attributes lead back to the key that leads to them.
KeyOfObject == \A u \in UUIDs :
    uuidDirectory[u] # NoObject /\ uuidDirectory[u].reqName \in Names =>
        csiDirectory[uuidDirectory[u].reqName] = u

Backed == \A n \in Names :
    granted[n] # NoUUID => images[granted[n]] # NoID /\ Reserved(n, granted[n])

Clean(f) == /\ OwnerInJournal(f) /\ KeyOfObject /\ Backed
            /\ \A p \in Requests : OwnerOf(f, req[p]) /\ PhaseOf(pc[p], req[p])

CleanInv == ~ scenario.overlap => \E f \in [UUIDs -> Names \cup {NoName}] : Clean(f)

IInv == ClusterTypes /\ RequestInv /\ CleanInv

-----------------------------------------------------------------------------
(* Steps of one request *)

\* One request goes to step s with the variables r.  It keeps its locks, returns
\* them all, or takes one that is free.
Moves(p, s, r) ==
    /\ pc' = [pc EXCEPT ![p] = s] /\ req' = [req EXCEPT ![p] = r]
    /\ \/ r.held = req[p].held /\ volumeLocks' = volumeLocks
       \/ r.held = {} /\ volumeLocks' = volumeLocks \ req[p].held
       \/ \E x \in (Names \cup UUIDs \cup {NoName}) \ volumeLocks :
             /\ volumeLocks' = volumeLocks \cup {x}
             /\ r.held \in {req[p].held \cup {x}, {x}}

\* A request that moves changes nothing of the others.
LEMMA MoveStep ==
  ASSUME RequestInv, NEW p \in Requests, NEW s \in Steps \cup {"idle"}, NEW r \in Reqs,
         Moves(p, s, r), ControlOf(s, r)
  PROVE  /\ RequestInv'
         /\ pc'[p] = s /\ req'[p] = r
         /\ \A q \in Requests : q # p => pc'[q] = pc[q] /\ req'[q] = req[q]
<1>1. /\ pc' \in [Requests -> Steps \cup {"idle"}] /\ req' \in [Requests -> Reqs]
      /\ pc'[p] = s /\ req'[p] = r
      /\ \A q \in Requests : q # p => pc'[q] = pc[q] /\ req'[q] = req[q]
  BY DEF Moves, RequestInv, RequestTypes
<1>2. Control'
  <2> SUFFICES ASSUME NEW q \in Requests PROVE ControlOf(pc'[q], req'[q])
    BY DEF Control, ControlOf
  <2>1. CASE q = p BY <1>1, <2>1
  <2>2. CASE q # p
    <3>1. ControlOf(pc[q], req[q])
      BY DEF RequestInv, Control
    <3> QED BY <1>1, <2>2, <3>1
  <2> QED BY <2>1, <2>2
<1>3. /\ volumeLocks' \subseteq Names \cup UUIDs \cup {NoName}
      /\ \A q \in Requests : q # p => req[q].held \subseteq volumeLocks /\ req[p].held \cap req[q].held = {}
      /\ req[p].held \subseteq volumeLocks
  BY DEF Moves, RequestInv, RequestTypes, Locked
<1>4. /\ r.held \subseteq volumeLocks'
      /\ \A q \in Requests : q # p => req[q].held \subseteq volumeLocks' /\ r.held \cap req[q].held = {}
  <2>1. CASE r.held = req[p].held /\ volumeLocks' = volumeLocks
    BY <1>3, <2>1
  <2>2. CASE r.held = {} /\ volumeLocks' = volumeLocks \ req[p].held
    BY <1>3, <2>2
  <2>3. CASE \E x \in (Names \cup UUIDs \cup {NoName}) \ volumeLocks :
                /\ volumeLocks' = volumeLocks \cup {x}
                /\ r.held \in {req[p].held \cup {x}, {x}}
    BY <1>3, <2>3
  <2> QED BY <2>1, <2>2, <2>3 DEF Moves
<1>5. \A a, b \in Requests : a # b => req'[a].held \cap req'[b].held = {}
  BY <1>1, <1>4 DEF RequestInv, Locked
<1>6. \A q \in Requests : req'[q].held \subseteq volumeLocks'
  BY <1>1, <1>4
<1>7. Locked'
  BY <1>5, <1>6 DEF Locked
<1> QED BY <1>1, <1>2, <1>3, <1>7 DEF RequestInv, RequestTypes

\* Two requests that create one name, or delete one volume, are the same.
LEMMA OneRequest ==
  ASSUME RequestInv, NEW p \in Requests, NEW q \in Requests, p # q
  PROVE  /\ req[p].op = "create" /\ req[q].op = "create" => req[p].name # req[q].name
         /\ req[p].op = "delete" /\ req[q].op = "delete" => req[p].uuid # req[q].uuid
         /\ req[p].op = "create" /\ pc[q] \in UndoSteps => req[p].name # req[q].name
<1>1. ControlOf(pc[p], req[p]) /\ ControlOf(pc[q], req[q])
  BY DEF RequestInv, Control
<1>2. req[p].held \cap req[q].held = {}
  BY DEF RequestInv, Locked
<1> QED BY <1>1, <1>2 DEF ControlOf

\* Objects of the journal keep the name of their request; a new one has none.
NamesKept == \A u \in UUIDs :
    /\ uuidDirectory[u] # NoObject => /\ uuidDirectory'[u] # NoObject
                                      /\ uuidDirectory'[u].reqName = uuidDirectory[u].reqName
    /\ uuidDirectory[u] = NoObject => \/ uuidDirectory'[u] = NoObject
                                      \/ uuidDirectory'[u].reqName = NoName

\* A step that leaves alone what the other requests rely on.
Frame(p, r) ==
    /\ UNCHANGED <<csiDirectory, granted, servedFor, used, scenario>> /\ NamesKept
    /\ ~ scenario.overlap => \A n \in Names : granted[n] # NoUUID => images'[granted[n]] # NoID
    /\ r.op = "create" => req[p].op = "create" /\ r.name = req[p].name

\* Such a step keeps what the journal has for every request, if it does so for the
\* one that makes it.
LEMMA FramePhases ==
  ASSUME IInv, RequestInv', NEW f, ~ scenario.overlap, Clean(f),
         UNCHANGED <<csiDirectory, granted, servedFor>>, NamesKept,
         \A n \in Names : granted[n] # NoUUID => images'[granted[n]] # NoID,
         \A q \in Requests : /\ PhaseOf(pc'[q], req'[q])
                             /\ req'[q].op = "create" => \E z \in Requests :
                                   req[z].op = "create" /\ req'[q].name = req[z].name
  PROVE  KeyOfObject' /\ Backed' /\ \A q \in Requests : PhaseOf(pc[q], req[q])'
<1>1. KeyOfObject'
  BY NullsDistinct DEF Clean, NamesKept, KeyOfObject
<1>2. Backed'
  BY DEF Clean, NamesKept, Backed, Reserved, IInv, ClusterTypes, HistoryTypes
<1>3. ASSUME NEW q \in Requests PROVE PhaseOf(pc[q], req[q])'
  <2>1. CreatePhase(pc'[q], req'[q]) /\ DeletePhase(req'[q]) /\ UndonePhase(pc'[q], req'[q])
    BY DEF PhaseOf
  <2>2. req'[q] \in Reqs /\ ControlOf(pc'[q], req'[q])
    BY DEF RequestInv, RequestTypes, Control
  <2>3. CreatePhase(pc[q], req[q])'
    <3>1. pc'[q] \in ReservedSteps => req'[q].uuid \in UUIDs
      BY <2>2 DEF ControlOf, ReservedSteps, CreateSteps
    <3> QED BY <2>1, <3>1 DEF CreatePhase, Reserved, NamesKept
  <2>4. DeletePhase(req[q])'
    BY <2>1 DEF DeletePhase
  <2>5. UndonePhase(pc[q], req[q])'
    <3>1. pc'[q] = "undoName" => req'[q].uuid \in UUIDs
      BY <2>2 DEF ControlOf, UndoSteps
    <3> QED BY <2>1, <3>1 DEF UndonePhase, NamesKept
  <2> QED BY <2>3, <2>4, <2>5 DEF PhaseOf
<1> QED BY <1>1, <1>2, <1>3

\* Such a step keeps the invariant, if its request is where it should be.
LEMMA FrameStep ==
  ASSUME IInv, NEW p \in Requests, NEW s \in Steps \cup {"idle"}, NEW r \in Reqs,
         Moves(p, s, r), ControlOf(s, r), Frame(p, r), ClusterTypes',
         \A f \in [UUIDs -> Names \cup {NoName}] :
             ~ scenario.overlap /\ Clean(f) => OwnerOf(f, r) /\ PhaseOf(s, r)
  PROVE  IInv'
<1>1. /\ RequestInv' /\ pc'[p] = s /\ req'[p] = r
      /\ \A q \in Requests : q # p => pc'[q] = pc[q] /\ req'[q] = req[q]
  BY MoveStep DEF IInv
<1>2. ASSUME NEW f \in [UUIDs -> Names \cup {NoName}], ~ scenario.overlap, Clean(f)
      PROVE  Clean(f)'
  <2>1. \A q \in Requests : OwnerOf(f, req'[q]) /\ PhaseOf(pc'[q], req'[q])
    BY <1>1, <1>2 DEF Clean
  <2>2. OwnerInJournal(f)'
    BY <1>2, NullsDistinct DEF Clean, Frame, NamesKept, OwnerInJournal
  <2>3. \A q \in Requests : req'[q].op = "create" => \E z \in Requests :
            req[z].op = "create" /\ req'[q].name = req[z].name
    BY <1>1 DEF Frame
  <2>4. KeyOfObject' /\ Backed' /\ \A q \in Requests : PhaseOf(pc[q], req[q])'
    BY <1>1, <1>2, <2>1, <2>3, FramePhases DEF Frame
  <2> QED BY <2>1, <2>2, <2>4 DEF Clean, OwnerOf
<1>3. CleanInv'
  BY <1>2 DEF CleanInv, IInv, Frame
<1> QED BY <1>1, <1>3 DEF IInv

-----------------------------------------------------------------------------
(* Facts for the steps *)

\* What is known of a request, and of the journal if the CO waits.
LEMMA Known ==
  ASSUME IInv, NEW p \in Requests
  PROVE  /\ req[p] \in Reqs /\ pc[p] \in Steps \cup {"idle"} /\ ControlOf(pc[p], req[p])
         /\ pc \in [Requests -> Steps \cup {"idle"}] /\ req \in [Requests -> Reqs]
         /\ \A f : Clean(f) => OwnerOf(f, req[p]) /\ PhaseOf(pc[p], req[p])
  BY DEF IInv, RequestInv, RequestTypes, Control, Clean

\* A failing call counts, and changes no type.
LEMMA BoundsStep ==
  ASSUME BoundTypes, UNCHANGED bounds \/ Fault
  PROVE  BoundTypes' /\ scenario' = scenario
<1>1. scenario.faults \in Nat
  BY ScenariosTyped DEF BoundTypes
<1> QED BY <1>1 DEF BoundTypes, bounds, Fault

\* Nothing of the cluster changes.
LEMMA QuietTypes ==
  ASSUME ClusterTypes, UNCHANGED <<journal, store, history>>, UNCHANGED bounds \/ Fault
  PROVE  ClusterTypes' /\ scenario' = scenario
  BY BoundsStep DEF ClusterTypes, JournalTypeOK, StoreTypes, HistoryTypes, journal, store, history

\* A request that returns with nothing but its locks changed.
LEMMA ReturnStep ==
  ASSUME IInv, NEW p \in Requests, Return(p), ClusterTypes', Frame(p, Idle)
  PROVE  IInv'
<1>1. Idle \in Reqs /\ Idle.held = {} /\ Idle.op = "none"
  BY DEF Idle, Reqs, NoID
<1>2. Moves(p, "idle", Idle)
  BY <1>1 DEF Return, Moves
<1>3. ControlOf("idle", Idle)
  BY <1>1 DEF ControlOf, CreateSteps, DeleteSteps, UndoSteps, NamedDelete
<1>4. ASSUME NEW f PROVE OwnerOf(f, Idle) /\ PhaseOf("idle", Idle)
  BY <1>1 DEF OwnerOf, PhaseOf, CreatePhase, DeletePhase, UndonePhase
<1> HIDE DEF Idle
<1> QED BY <1>1, <1>2, <1>3, <1>4, FrameStep

\* Nothing changes that anyone relies on.
LEMMA QuietFrame ==
  ASSUME IInv, NEW p \in Requests, NEW r, UNCHANGED <<journal, store, history>>,
         UNCHANGED bounds \/ Fault,
         r.op = "create" => req[p].op = "create" /\ r.name = req[p].name
  PROVE  ClusterTypes' /\ Frame(p, r)
  BY QuietTypes DEF IInv, Frame, NamesKept, journal, store, history, CleanInv, Clean, Backed

\* A request that returns without a change to the cluster.
LEMMA QuietReturn ==
  ASSUME IInv, NEW p \in Requests, Return(p), UNCHANGED <<journal, store, history>>,
         UNCHANGED bounds \/ Fault
  PROVE  IInv'
<1>1. ClusterTypes' /\ Frame(p, Idle)
  BY QuietFrame DEF Idle
<1> QED BY <1>1, ReturnStep

\* A request that goes on without a change to the cluster.
LEMMA QuietStep ==
  ASSUME IInv, NEW p \in Requests, NEW s \in Steps, NEW r \in Reqs, Moves(p, s, r),
         ControlOf(s, r), UNCHANGED <<journal, store, history>>, UNCHANGED bounds \/ Fault,
         r.op = req[p].op, r.op = "create" => r.name = req[p].name,
         \A f \in [UUIDs -> Names \cup {NoName}] :
             ~ scenario.overlap /\ Clean(f) => OwnerOf(f, r) /\ PhaseOf(s, r)
  PROVE  IInv'
<1>1. ClusterTypes' /\ Frame(p, r)
  BY QuietFrame
<1> QED BY <1>1, FrameStep

\* A step that changes no variable of the request.
LEMMA QuietGoto ==
  ASSUME IInv, NEW p \in Requests, NEW s \in Steps, Goto(p, s),
         ControlOf(s, req[p]), UNCHANGED <<journal, req, store, history>>, UNCHANGED bounds \/ Fault,
         \A f \in [UUIDs -> Names \cup {NoName}] :
             ~ scenario.overlap /\ Clean(f) => PhaseOf(s, req[p])
  PROVE  IInv'
<1>1. req[p] \in Reqs /\ req \in [Requests -> Reqs] /\ \A f : Clean(f) => OwnerOf(f, req[p])
  BY Known
<1>2. Moves(p, s, req[p])
  BY <1>1 DEF Moves, Goto
<1> QED BY <1>1, <1>2, QuietStep

\* UndoReservation begins.
LEMMA UndoStep ==
  ASSUME IInv, NEW p \in Requests, NEW t \in {"reserveFresh", "reserveSame", "return"}, Undo(p, t),
         pc[p] \in CreateSteps, req[p].uuid \in UUIDs, ClusterTypes', Frame(p, req[p]),
         ~ scenario.overlap => /\ csiDirectory[req[p].name] \in {NoUUID, req[p].uuid}
                               /\ granted[req[p].name] = NoUUID
  PROVE  IInv'
<1> DEFINE r == [req[p] EXCEPT !.then = t]
<1>1. /\ req[p] \in Reqs /\ req \in [Requests -> Reqs] /\ ControlOf(pc[p], req[p])
      /\ \A f : Clean(f) => OwnerOf(f, req[p])
  BY Known
<1>2. /\ r \in Reqs /\ r.op = req[p].op /\ r.name = req[p].name /\ r.uuid = req[p].uuid
      /\ r.held = req[p].held /\ r.then = t
  BY <1>1 DEF Reqs
<1>3. Moves(p, "undoUUID", r)
  BY <1>2 DEF Undo, Goto, Moves
<1> HIDE DEF r
<1>4. ControlOf("undoUUID", r)
  BY <1>1, <1>2 DEF ControlOf, CreateSteps, DeleteSteps, UndoSteps, NamedDelete
<1>5. r.op = "create"
  BY <1>1, <1>2 DEF ControlOf
<1>6. ASSUME NEW f, ~ scenario.overlap, Clean(f) PROVE OwnerOf(f, r) /\ PhaseOf("undoUUID", r)
  BY <1>1, <1>2, <1>5, <1>6
     DEF OwnerOf, PhaseOf, CreatePhase, DeletePhase, UndonePhase, KeyedSteps, ReservedSteps, UndoSteps
<1>7. Frame(p, r)
  BY <1>2 DEF Frame
<1> QED BY <1>2, <1>3, <1>4, <1>6, <1>7, FrameStep DEF Steps, UndoSteps

\* What a request knows goes with it to the next steps of the same handler.
LEMMA CreateControl ==
  ASSUME NEW s0 \in CreateSteps, NEW s \in CreateSteps \ {"checkName"}, NEW r0, NEW r,
         ControlOf(s0, r0), r.op = r0.op, r.name = r0.name, r.held = r0.held,
         r.uuid \in UUIDs \/ s = "reserveUUID"
  PROVE  ControlOf(s, r)
  BY DEF ControlOf, CreateSteps, DeleteSteps, UndoSteps, NamedDelete

\* A deletion goes on with the same volume and its locks.
LEMMA DeleteControl ==
  ASSUME NEW s0 \in DeleteSteps, NEW s \in DeleteSteps, NEW r0, NEW r,
         ControlOf(s0, r0), r.op = r0.op, r.uuid = r0.uuid, r0.held \subseteq r.held,
         s \in NamedDelete => r.then = "return" /\ r.name \in r.held
  PROVE  ControlOf(s, r)
  BY DEF ControlOf, CreateSteps, DeleteSteps, UndoSteps, NamedDelete

-----------------------------------------------------------------------------
(* CreateVolume, up to the reservation *)

\* The key of the name is read under its lock, so nobody changes it until the end.
LEMMA CheckNameStep == ASSUME IInv, NEW p \in Requests, CheckName(p) PROVE IInv'
<1> DEFINE u == csiDirectory[req[p].name]
           r == [req[p] EXCEPT !.uuid = u]
<1>1. /\ req[p] \in Reqs /\ req \in [Requests -> Reqs] /\ ControlOf("checkName", req[p])
      /\ \A f : Clean(f) => OwnerOf(f, req[p]) /\ PhaseOf("checkName", req[p])
  BY Known DEF CheckName, At
<1>2. req[p].op = "create" /\ req[p].name \in Names /\ req[p].uuid = NoUUID /\ u \in UUIDs \cup {NoUUID}
  BY <1>1 DEF ControlOf, CreateSteps, IInv, ClusterTypes, JournalTypeOK
<1>3. UNCHANGED <<journal, store, history>> /\ UNCHANGED bounds
  BY DEF CheckName
<1>4. ASSUME NEW f, Clean(f) PROVE Backed /\ (u # NoUUID => f[u] = req[p].name)
  BY <1>2, <1>4 DEF Clean, OwnerInJournal
<1>5. CASE u = NoUUID
  <2>1. Goto(p, "reserveUUID") /\ UNCHANGED req
    BY <1>5 DEF CheckName
  <2>2. ControlOf("reserveUUID", req[p])
    BY <1>1, <1>2 DEF ControlOf, CreateSteps, DeleteSteps, UndoSteps, NamedDelete
  <2>3. ASSUME NEW f, Clean(f) PROVE PhaseOf("reserveUUID", req[p])
    BY <1>2, <1>4, <1>5, <2>3
       DEF PhaseOf, CreatePhase, DeletePhase, UndonePhase, KeyedSteps, ReservedSteps, NewSteps,
           UndoSteps, Backed, Reserved
  <2>4. "reserveUUID" \in Steps
    BY DEF Steps, CreateSteps
  <2> QED BY <1>3, <2>1, <2>2, <2>3, <2>4, QuietGoto
<1>6. CASE u # NoUUID
  <2>1. /\ r \in Reqs /\ r.op = req[p].op /\ r.name = req[p].name /\ r.uuid = u /\ r.held = req[p].held
    BY <1>1, <1>2 DEF Reqs
  <2>2. Moves(p, "getAttributes", r)
    BY <1>6, <2>1 DEF CheckName, Goto, Moves
  <2> HIDE DEF r
  <2>3. ControlOf("getAttributes", r)
    BY <1>1, <1>2, <1>6, <2>1 DEF ControlOf, CreateSteps, DeleteSteps, UndoSteps, NamedDelete
  <2>4. ASSUME NEW f, Clean(f) PROVE OwnerOf(f, r) /\ PhaseOf("getAttributes", r)
    BY <1>2, <1>4, <1>6, <2>1, <2>4
       DEF OwnerOf, PhaseOf, CreatePhase, DeletePhase, UndonePhase, KeyedSteps, ReservedSteps, NewSteps,
           UndoSteps
  <2>5. "getAttributes" \in Steps
    BY DEF Steps, CreateSteps
  <2> QED BY <1>3, <2>1, <2>2, <2>3, <2>4, <2>5, QuietStep
<1> QED BY <1>5, <1>6

\* The attributes that are found are those of the name.
LEMMA GetAttributesStep == ASSUME IInv, NEW p \in Requests, GetAttributes(p) PROVE IInv'
<1> DEFINE u == req[p].uuid
           n == req[p].name
           r == [req[p] EXCEPT !.imageID = uuidDirectory[u].imageID]
<1>1. /\ req[p] \in Reqs /\ req \in [Requests -> Reqs] /\ ControlOf("getAttributes", req[p])
      /\ \A f : Clean(f) => OwnerOf(f, req[p]) /\ PhaseOf("getAttributes", req[p])
  BY Known DEF GetAttributes, At
<1>2. /\ req[p].op = "create" /\ n \in Names /\ u \in UUIDs /\ pc[p] = "getAttributes"
      /\ uuidDirectory[u] \in Attributes \cup {NoObject}
  BY <1>1 DEF ControlOf, CreateSteps, IInv, ClusterTypes, JournalTypeOK, GetAttributes, At
<1>3. UNCHANGED <<journal, store, history>> /\ UNCHANGED bounds
  BY DEF GetAttributes
<1>4. ASSUME NEW f, Clean(f) PROVE Backed /\ csiDirectory[n] = u
  BY <1>1, <1>2, <1>4 DEF Clean, PhaseOf, CreatePhase, KeyedSteps
<1>5. CASE ObjectMissing(u) /\ Undo(p, "reserveFresh")
  <2>1. ClusterTypes' /\ Frame(p, req[p])
    BY <1>3, QuietFrame
  <2>2. ~ scenario.overlap => csiDirectory[n] = u /\ granted[n] = NoUUID
    <3> SUFFICES ASSUME ~ scenario.overlap PROVE csiDirectory[n] = u /\ granted[n] = NoUUID
      OBVIOUS
    <3> PICK f : Clean(f)
      BY DEF IInv, CleanInv
    <3> QED BY <1>2, <1>4, <1>5 DEF Backed, Reserved, ObjectMissing
  <2> QED BY <1>2, <1>5, <2>1, <2>2, UndoStep DEF CreateSteps
<1>6. CASE Return(p)
  BY <1>3, <1>6, QuietReturn
<1>7. CASE /\ ~ ObjectMissing(u) /\ ~ NamesMismatch(u, n) /\ Goto(p, "statImage")
           /\ req' = [req EXCEPT ![p].imageID = uuidDirectory[u].imageID]
  <2>1. uuidDirectory[u].imageID \in Nat /\ uuidDirectory[u] # NoObject /\ uuidDirectory[u].reqName = n
    BY <1>2, <1>7 DEF ObjectMissing, NamesMismatch, Attributes
  <2>2. /\ r \in Reqs /\ r.op = req[p].op /\ r.name = n /\ r.uuid = u /\ r.held = req[p].held
    BY <1>1, <2>1 DEF Reqs
  <2>3. Moves(p, "statImage", r)
    BY <1>7, <2>2 DEF Goto, Moves
  <2> HIDE DEF r
  <2>4. ControlOf("statImage", r)
    BY <1>1, <1>2, <2>2 DEF ControlOf, CreateSteps, DeleteSteps, UndoSteps, NamedDelete
  <2>5. ASSUME NEW f, Clean(f) PROVE OwnerOf(f, r) /\ PhaseOf("statImage", r)
    BY <1>1, <1>2, <1>4, <2>1, <2>2, <2>5
       DEF OwnerOf, PhaseOf, CreatePhase, DeletePhase, UndonePhase, KeyedSteps, ReservedSteps, NewSteps,
           UndoSteps, Reserved
  <2>6. "statImage" \in Steps
    BY DEF Steps, CreateSteps
  <2> QED BY <1>3, <2>2, <2>3, <2>4, <2>5, <2>6, QuietStep
<1> QED BY <1>5, <1>6, <1>7 DEF GetAttributes

\* What the journal has for a request, too.
LEMMA CreatePhaseKept ==
  ASSUME NEW s0, NEW s, NEW r0, NEW r, PhaseOf(s0, r0), r0.op = "create",
         r.op = r0.op, r.name = r0.name, r.uuid = r0.uuid, s \notin UndoSteps,
         s \in KeyedSteps => s0 \in KeyedSteps, s \in ReservedSteps => s0 \in ReservedSteps,
         s \in {"reserveUUID", "reserveName"} => s0 \in {"reserveUUID", "reserveName"},
         s \in NewSteps => s0 \in NewSteps
  PROVE  PhaseOf(s, r)
  BY DEF PhaseOf, CreatePhase, DeletePhase, UndonePhase, UndoSteps, Reserved

\* A creation that is past its first read.
LEMMA CreateKnown ==
  ASSUME IInv, NEW p \in Requests, pc[p] \in CreateSteps
  PROVE  /\ req[p] \in Reqs /\ req \in [Requests -> Reqs] /\ ControlOf(pc[p], req[p])
         /\ req[p].op = "create" /\ req[p].name \in Names /\ req[p].imageID \in Nat
         /\ pc[p] \notin {"checkName", "reserveUUID"} => req[p].uuid \in UUIDs
         /\ \A f : Clean(f) => OwnerOf(f, req[p]) /\ PhaseOf(pc[p], req[p])
<1>1. /\ req[p] \in Reqs /\ req \in [Requests -> Reqs] /\ ControlOf(pc[p], req[p])
      /\ \A f : Clean(f) => OwnerOf(f, req[p]) /\ PhaseOf(pc[p], req[p])
  BY Known
<1>2. /\ req[p].op = "create" /\ req[p].name \in Names /\ req[p].imageID \in Nat
      /\ pc[p] \notin {"checkName", "reserveUUID"} => req[p].uuid \in UUIDs
  BY <1>1 DEF ControlOf, Reqs
<1> QED BY <1>1, <1>2

\* A missing image is that of a volume the CO does not hold.
LEMMA StatImageStep == ASSUME IInv, NEW p \in Requests, StatImage(p) PROVE IInv'
<1>1. pc[p] = "statImage" /\ pc[p] \in CreateSteps
  BY DEF StatImage, At, CreateSteps
<1>2. /\ req[p] \in Reqs /\ req \in [Requests -> Reqs] /\ ControlOf("statImage", req[p])
      /\ req[p].op = "create" /\ req[p].name \in Names /\ req[p].uuid \in UUIDs
      /\ \A f : Clean(f) => OwnerOf(f, req[p]) /\ PhaseOf("statImage", req[p])
  BY <1>1, CreateKnown
<1>3. CASE images[req[p].uuid] = NoID
  <2>1. /\ Undo(p, "reserveSame") /\ recycled' = recycled \cup {req[p].uuid}
        /\ UNCHANGED <<journal, store, servedFor, granted, used, abandoned, bounds>>
    BY <1>3 DEF StatImage
  <2>2. ClusterTypes'
    BY <1>2, <2>1 DEF IInv, ClusterTypes, JournalTypeOK, StoreTypes, HistoryTypes, BoundTypes, journal,
       store, bounds
  <2>3. Frame(p, req[p])
    BY <1>2, <2>1 DEF Frame, NamesKept, journal, store, bounds, IInv, CleanInv, Clean, Backed
  <2>4. ~ scenario.overlap => csiDirectory[req[p].name] = req[p].uuid /\ granted[req[p].name] = NoUUID
    <3> SUFFICES ASSUME ~ scenario.overlap
                 PROVE  csiDirectory[req[p].name] = req[p].uuid /\ granted[req[p].name] = NoUUID
      OBVIOUS
    <3> PICK f : Clean(f)
      BY DEF IInv, CleanInv
    <3>1. csiDirectory[req[p].name] = req[p].uuid
      BY <1>2 DEF PhaseOf, CreatePhase, KeyedSteps, ReservedSteps
    <3> QED BY <1>2, <1>3, <3>1 DEF Clean, Backed, Reserved
  <2> QED BY <1>1, <1>2, <2>1, <2>2, <2>3, <2>4, UndoStep
<1>4. CASE images[req[p].uuid] # NoID
  <2>1. /\ Goto(p, "repairID") /\ UNCHANGED req /\ UNCHANGED <<journal, store, history>>
        /\ UNCHANGED bounds
    BY <1>4 DEF StatImage, history
  <2>2. ControlOf("repairID", req[p])
    BY <1>1, <1>2, CreateControl DEF CreateSteps
  <2>3. ASSUME NEW f, Clean(f) PROVE PhaseOf("repairID", req[p])
    BY <1>2, <2>3, CreatePhaseKept DEF KeyedSteps, ReservedSteps, NewSteps, UndoSteps
  <2> QED BY <2>1, <2>2, <2>3, QuietGoto DEF Steps, CreateSteps
<1> QED BY <1>3, <1>4

\* An id is stored with the attributes; a missing object comes into being, without a name.
LEMMA StoreTyped ==
  ASSUME Constants, ClusterTypes, NEW u \in UUIDs, NEW id \in Nat, StoreImageID(u, id)
  PROVE  JournalTypeOK' /\ NamesKept /\ csiDirectory' = csiDirectory
<1> DEFINE a == [OrCreated(u) EXCEPT !.imageID = id]
<1>1. OrCreated(u) \in Attributes
  BY DEF ClusterTypes, JournalTypeOK, OrCreated, EmptyObject, Attributes, NoID
<1>2. a \in Attributes /\ a.reqName = OrCreated(u).reqName
  BY <1>1 DEF Attributes
<1>3. uuidDirectory' = [uuidDirectory EXCEPT ![u] = a] /\ csiDirectory' = csiDirectory
  BY DEF StoreImageID
<1> HIDE DEF a
<1>4. JournalTypeOK'
  BY <1>2, <1>3 DEF ClusterTypes, JournalTypeOK
<1>5. NamesKept
  BY <1>2, <1>3 DEF ClusterTypes, JournalTypeOK, NamesKept, OrCreated, EmptyObject, Constants
<1> QED BY <1>3, <1>4, <1>5

\* A step that stores the id and changes nothing else.
LEMMA StoreStep ==
  ASSUME Constants, IInv, NEW p \in Requests, NEW s \in Steps, NEW r \in Reqs, NEW id \in Nat,
         req[p].uuid \in UUIDs, Moves(p, s, r), ControlOf(s, r), StoreImageID(req[p].uuid, id),
         UNCHANGED <<store, history>>, UNCHANGED bounds \/ Fault,
         r.op = req[p].op, r.op = "create" => r.name = req[p].name,
         \A f \in [UUIDs -> Names \cup {NoName}] :
             ~ scenario.overlap /\ Clean(f) => OwnerOf(f, r) /\ PhaseOf(s, r)
  PROVE  IInv'
<1>1. JournalTypeOK' /\ NamesKept /\ csiDirectory' = csiDirectory
  BY StoreTyped DEF IInv
<1>2. BoundTypes' /\ scenario' = scenario
  BY BoundsStep DEF IInv, ClusterTypes
<1>3. ClusterTypes'
  BY <1>1, <1>2 DEF IInv, ClusterTypes, StoreTypes, HistoryTypes, store, history
<1>4. Frame(p, r)
  BY <1>1, <1>2 DEF Frame, store, history, IInv, CleanInv, Clean, Backed
<1> QED BY <1>3, <1>4, FrameStep

\* The id is stored in attributes that are there.
LEMMA RepairImageIDStep == ASSUME Constants, IInv, NEW p \in Requests, RepairImageID(p) PROVE IInv'
<1> DEFINE u == req[p].uuid
           r == [req[p] EXCEPT !.imageID = images[u]]
<1>1. pc[p] = "repairID" /\ pc[p] \in CreateSteps
  BY DEF RepairImageID, At, CreateSteps
<1>2. /\ req[p] \in Reqs /\ req \in [Requests -> Reqs] /\ ControlOf("repairID", req[p])
      /\ req[p].op = "create" /\ req[p].name \in Names /\ u \in UUIDs
      /\ \A f : Clean(f) => OwnerOf(f, req[p]) /\ PhaseOf("repairID", req[p])
  BY <1>1, CreateKnown
<1>3. UNCHANGED <<store, history>> /\ UNCHANGED bounds
  BY DEF RepairImageID
<1>4. "repairMeta" \in Steps /\ "repairMeta" \in CreateSteps
  BY DEF Steps, CreateSteps
<1>5. CASE Goto(p, "repairMeta") /\ UNCHANGED <<journal, req>>
  <2>1. ControlOf("repairMeta", req[p])
    BY <1>1, <1>2, <1>4, CreateControl
  <2>2. ASSUME NEW f, Clean(f) PROVE PhaseOf("repairMeta", req[p])
    BY <1>2, <2>2, CreatePhaseKept DEF KeyedSteps, ReservedSteps, NewSteps, UndoSteps
  <2> QED BY <1>3, <1>4, <1>5, <2>1, <2>2, QuietGoto
<1>6. CASE /\ StoreImageID(u, images[u]) /\ Goto(p, "repairMeta")
           /\ req' = [req EXCEPT ![p].imageID = images[u]]
  <2>1. images[u] \in Nat
    BY <1>2 DEF IInv, ClusterTypes, StoreTypes
  <2>2. /\ r \in Reqs /\ r.op = req[p].op /\ r.name = req[p].name /\ r.uuid = u /\ r.held = req[p].held
    BY <1>2, <2>1 DEF Reqs
  <2>3. Moves(p, "repairMeta", r)
    BY <1>6, <2>2 DEF Goto, Moves
  <2> HIDE DEF r
  <2>4. ControlOf("repairMeta", r)
    BY <1>1, <1>2, <1>4, <2>2, CreateControl
  <2>5. ASSUME NEW f, Clean(f) PROVE OwnerOf(f, r) /\ PhaseOf("repairMeta", r)
    <3>1. PhaseOf("repairMeta", r)
      BY <1>2, <2>2, <2>5, CreatePhaseKept DEF KeyedSteps, ReservedSteps, NewSteps, UndoSteps
    <3> QED BY <1>2, <2>2, <2>5, <3>1 DEF OwnerOf
  <2> QED BY <1>2, <1>3, <1>4, <1>6, <2>1, <2>2, <2>3, <2>4, <2>5, StoreStep
<1>7. CASE Return(p) /\ UNCHANGED journal
  BY <1>3, <1>7, QuietReturn
<1> QED BY <1>5, <1>6, <1>7 DEF RepairImageID

-----------------------------------------------------------------------------
(* CreateVolume, from the image on *)

\* The CO is given the volume.
LEMMA GrantStep ==
  ASSUME IInv, NEW p \in Requests, pc[p] \in {"repairMeta", "setMeta"}, images[req[p].uuid] # NoID,
         Return(p), Grant(req[p].name, req[p].uuid), UNCHANGED <<journal, store, bounds>>
  PROVE  IInv'
<1> DEFINE n == req[p].name
           u == req[p].uuid
<1>1. pc[p] \in CreateSteps
  BY DEF CreateSteps
<1>2. /\ req[p] \in Reqs /\ req \in [Requests -> Reqs] /\ ControlOf(pc[p], req[p])
      /\ req[p].op = "create" /\ n \in Names /\ u \in UUIDs
      /\ \A f : Clean(f) => OwnerOf(f, req[p]) /\ PhaseOf(pc[p], req[p])
  BY <1>1, CreateKnown
<1>3. Idle \in Reqs /\ Idle.held = {} /\ Idle.op = "none"
  BY DEF Idle, Reqs, NoID
<1>4. Moves(p, "idle", Idle)
  BY <1>3 DEF Return, Moves
<1>5. ControlOf("idle", Idle)
  BY <1>3 DEF ControlOf, CreateSteps, DeleteSteps, UndoSteps, NamedDelete
<1> HIDE DEF Idle
<1>6. /\ RequestInv' /\ pc'[p] = "idle" /\ req'[p] = Idle
      /\ \A q \in Requests : q # p => pc'[q] = pc[q] /\ req'[q] = req[q]
  BY <1>3, <1>4, <1>5, MoveStep DEF IInv
<1>7. /\ servedFor' = [servedFor EXCEPT ![u] = n]
      /\ granted' \in {granted, [granted EXCEPT ![n] = u]}
      /\ granted' = granted \/ \A q \in Requests : req[q].op = "delete" => req[q].uuid # u
      /\ UNCHANGED <<used, recycled, abandoned>>
  BY DEF Grant
<1>8. /\ UNCHANGED <<csiDirectory, uuidDirectory, images, trash, nextID, secondary, faults, crashes, scenario>>
  BY DEF journal, store, bounds
<1>9. /\ servedFor \in [UUIDs -> Names \cup {NoName}] /\ granted \in [Names -> UUIDs \cup {NoUUID}]
  BY DEF IInv, ClusterTypes, HistoryTypes
<1>10. ClusterTypes'
  BY <1>2, <1>7, <1>8 DEF IInv, ClusterTypes, JournalTypeOK, StoreTypes, HistoryTypes, BoundTypes
<1>11. ASSUME NEW f \in [UUIDs -> Names \cup {NoName}], ~ scenario.overlap, Clean(f)
       PROVE  Clean(f)'
  <2>1. f[u] = n /\ Reserved(n, u)
    BY <1>2, <1>11, NullsDistinct DEF OwnerOf, PhaseOf, CreatePhase, ReservedSteps
  <2>2. OwnerInJournal(f)' /\ KeyOfObject'
    BY <1>7, <1>8, <1>9, <1>11, <2>1 DEF Clean, OwnerInJournal, KeyOfObject
  <2>3. Backed'
    <3> SUFFICES ASSUME NEW m \in Names, granted'[m] # NoUUID
                 PROVE  images'[granted'[m]] # NoID /\ Reserved(m, granted[m])'
      BY DEF Backed
    <3>1. CASE m = n /\ granted'[m] = u
      BY <1>8, <2>1, <3>1 DEF Reserved
    <3>2. CASE granted'[m] = granted[m]
      <4>1. images[granted[m]] # NoID /\ Reserved(m, granted[m])
        BY <1>11, <3>2 DEF Clean, Backed
      <4> QED BY <1>8, <3>2, <4>1 DEF Reserved
    <3> QED BY <1>2, <1>7, <1>9, <3>1, <3>2
  <2>4. ASSUME NEW q \in Requests PROVE OwnerOf(f, req'[q]) /\ PhaseOf(pc[q], req[q])'
    <3>1. CASE q = p
      <4>1. pc'[q] = "idle" /\ req'[q].op = "none"
        BY <1>3, <1>6, <3>1
      <4> QED BY <4>1 DEF OwnerOf, PhaseOf, CreatePhase, DeletePhase, UndonePhase
    <3>2. CASE q # p
      <4>1. /\ pc'[q] = pc[q] /\ req'[q] = req[q] /\ OwnerOf(f, req[q]) /\ PhaseOf(pc[q], req[q])
            /\ ControlOf(pc[q], req[q])
        BY <1>6, <1>11, <3>2, Known DEF Clean
      <4>2. CreatePhase(pc[q], req[q])'
        <5>1. req[q].op = "create" => req[q].name \in Names /\ req[q].name # n
          BY <1>2, <3>2, <4>1, OneRequest DEF IInv, ControlOf
        <5>2. req[q].op = "create" => granted'[req[q].name] = granted[req[q].name]
          BY <1>7, <1>9, <5>1
        <5> QED BY <1>8, <4>1, <5>2 DEF PhaseOf, CreatePhase, Reserved
      <4>3. DeletePhase(req[q])'
        <5> SUFFICES ASSUME req[q].op = "delete" PROVE DeletePhase(req[q])'
          BY <4>1 DEF DeletePhase
        <5>1. /\ req[q].uuid \in UUIDs /\ servedFor[req[q].uuid] # NoName
              /\ \A m \in Names : granted[m] # req[q].uuid
              /\ \A z \in Requests : req[z].op = "create" => req[z].name # servedFor[req[q].uuid]
              /\ req[q].name \in Names => csiDirectory[req[q].name] \in {NoUUID, req[q].uuid}
          BY <4>1 DEF PhaseOf, DeletePhase, ControlOf
        <5>2. req[q].uuid # u
          BY <1>2, <1>11, <2>1, <5>1 DEF Clean, OwnerInJournal
        <5>3. servedFor'[req[q].uuid] = servedFor[req[q].uuid]
          BY <1>7, <1>9, <5>1, <5>2
        <5>4. \A m \in Names : granted'[m] # req[q].uuid
          BY <1>7, <1>9, <5>1, <5>2
        <5>5. \A z \in Requests : req'[z].op = "create" => req'[z].name # servedFor'[req[q].uuid]
          BY <1>3, <1>6, <5>1, <5>3
        <5> QED BY <1>8, <4>1, <5>1, <5>3, <5>4, <5>5 DEF DeletePhase
      <4>4. UndonePhase(pc[q], req[q])'
        BY <1>8, <4>1 DEF PhaseOf, UndonePhase
      <4> QED BY <4>1, <4>2, <4>3, <4>4 DEF PhaseOf
    <3> QED BY <3>1, <3>2
  <2> QED BY <2>2, <2>3, <2>4 DEF Clean, OwnerOf
<1> QED BY <1>6, <1>8, <1>10, <1>11 DEF IInv, CleanInv

\* An existing volume is handed out.
LEMMA RepairMetadataStep == ASSUME IInv, NEW p \in Requests, RepairMetadata(p) PROVE IInv'
<1>1. pc[p] = "repairMeta" /\ UNCHANGED <<journal, store, bounds>>
  BY DEF RepairMetadata, At
<1>2. CASE images[req[p].uuid] # NoID /\ Return(p) /\ Grant(req[p].name, req[p].uuid)
  BY <1>1, <1>2, GrantStep
<1>3. CASE Return(p) /\ UNCHANGED history
  <2>1. UNCHANGED <<journal, store, history>> /\ UNCHANGED bounds
    BY <1>1, <1>3
  <2> QED BY <1>3, <2>1, QuietReturn
<1> QED BY <1>2, <1>3 DEF RepairMetadata

\* What a creation knows from the reservation of its name on.
LEMMA NewVolume ==
  ASSUME IInv, NEW p \in Requests, pc[p] \in (NewSteps \ {"reserveUUID", "reserveName"})
  PROVE  /\ pc[p] \in CreateSteps /\ req[p] \in Reqs /\ req \in [Requests -> Reqs]
         /\ ControlOf(pc[p], req[p])
         /\ req[p].op = "create" /\ req[p].name \in Names /\ req[p].uuid \in UUIDs /\ req[p].imageID \in Nat
         /\ \A f : Clean(f) => OwnerOf(f, req[p]) /\ PhaseOf(pc[p], req[p]) /\ f[req[p].uuid] = req[p].name
         /\ ~ scenario.overlap => /\ csiDirectory[req[p].name] = req[p].uuid
                                  /\ granted[req[p].name] = NoUUID
                                  /\ \A n \in Names : granted[n] # req[p].uuid
<1>1. pc[p] \in CreateSteps
  BY DEF NewSteps, CreateSteps
<1>2. /\ req[p] \in Reqs /\ req \in [Requests -> Reqs] /\ ControlOf(pc[p], req[p])
      /\ req[p].op = "create" /\ req[p].name \in Names /\ req[p].uuid \in UUIDs /\ req[p].imageID \in Nat
      /\ \A f : Clean(f) => OwnerOf(f, req[p]) /\ PhaseOf(pc[p], req[p])
  BY <1>1, CreateKnown DEF NewSteps
<1>3. ASSUME NEW f, Clean(f)
      PROVE  /\ f[req[p].uuid] = req[p].name /\ csiDirectory[req[p].name] = req[p].uuid
             /\ granted[req[p].name] = NoUUID
  BY <1>2, <1>3, NullsDistinct DEF OwnerOf, PhaseOf, CreatePhase, NewSteps, KeyedSteps, ReservedSteps
<1>4. ASSUME NEW f, Clean(f), NEW n \in Names PROVE granted[n] # req[p].uuid
  <2> SUFFICES ASSUME granted[n] = req[p].uuid PROVE FALSE
    OBVIOUS
  <2>1. req[p].uuid # NoUUID
    BY <1>2, NullsDistinct
  <2>2. csiDirectory[n] = req[p].uuid
    BY <1>4, <2>1 DEF Clean, Backed, Reserved
  <2>3. f[req[p].uuid] = n
    BY <1>4, <2>1, <2>2 DEF Clean, OwnerInJournal
  <2>4. n = req[p].name /\ granted[n] = NoUUID
    BY <1>3, <1>4, <2>3
  <2> QED BY <2>1, <2>4
<1>5. ~ scenario.overlap => \E f : Clean(f)
  BY DEF IInv, CleanInv
<1> QED BY <1>1, <1>2, <1>3, <1>4, <1>5

\* A step that changes the images of nobody but the request.
LEMMA ImagesStep ==
  ASSUME IInv, NEW p \in Requests, NEW r, UNCHANGED <<journal, servedFor, granted, used, recycled>>,
         abandoned' \subseteq UUIDs, UNCHANGED bounds \/ Fault, StoreTypes',
         ~ scenario.overlap => \A n \in Names : granted[n] # NoUUID => images'[granted[n]] # NoID,
         r.op = "create" => req[p].op = "create" /\ r.name = req[p].name
  PROVE  ClusterTypes' /\ Frame(p, r)
<1>1. BoundTypes' /\ scenario' = scenario
  BY BoundsStep DEF IInv, ClusterTypes
<1> QED BY <1>1 DEF IInv, ClusterTypes, JournalTypeOK, HistoryTypes, Frame, NamesKept, journal

\* What the images are after each change of them.
LEMMA NewImageTyped ==
  ASSUME IInv, NEW u \in UUIDs, NewImage(u)
  PROVE  StoreTypes' /\ \A v \in UUIDs : images[v] # NoID => images'[v] # NoID
  BY DEF IInv, ClusterTypes, StoreTypes, NewImage, NoID

\* An image moves to the trash.
LEMMA TrashImageTyped ==
  ASSUME IInv, NEW u \in UUIDs, TrashImage(u)
  PROVE  StoreTypes' /\ \A v \in UUIDs : v # u => images'[v] = images[v]
<1>1. /\ images \in [UUIDs -> Nat] /\ trash \subseteq UUIDs \X Nat /\ nextID \in Nat
      /\ secondary \subseteq UUIDs
  BY DEF IInv, ClusterTypes, StoreTypes
<1>2. images' \in [UUIDs -> Nat] /\ \A v \in UUIDs : v # u => images'[v] = images[v]
  BY <1>1 DEF TrashImage, NoID
<1>3. trash' \subseteq UUIDs \X Nat
  BY <1>1 DEF TrashImage
<1> QED BY <1>1, <1>2, <1>3 DEF StoreTypes, TrashImage

\* An image leaves the trash.
LEMMA TrashRemoveTyped ==
  ASSUME IInv, NEW id, TrashRemove(id)
  PROVE  StoreTypes' /\ images' = images
  BY DEF IInv, ClusterTypes, StoreTypes, TrashRemove

\* What the CO holds has its image.
LEMMA HeldImages ==
  ASSUME IInv, ~ scenario.overlap, NEW n \in Names, granted[n] # NoUUID
  PROVE  granted[n] \in UUIDs /\ images[granted[n]] # NoID
  BY DEF IInv, CleanInv, Clean, Backed, ClusterTypes, HistoryTypes

\* The new image is that of nobody else.
LEMMA CreateImageStep == ASSUME IInv, NEW p \in Requests, CreateImage(p) PROVE IInv'
<1> DEFINE u == req[p].uuid
<1>1. pc[p] = "createImage" /\ pc[p] \in NewSteps \ {"reserveUUID", "reserveName"} /\ UNCHANGED journal
  BY DEF CreateImage, At, NewSteps
<1>2. /\ pc[p] \in CreateSteps /\ req[p] \in Reqs /\ req \in [Requests -> Reqs]
      /\ ControlOf("createImage", req[p]) /\ req[p].op = "create" /\ u \in UUIDs
      /\ \A f : Clean(f) => OwnerOf(f, req[p]) /\ PhaseOf("createImage", req[p])
      /\ ~ scenario.overlap => csiDirectory[req[p].name] = u /\ granted[req[p].name] = NoUUID
  BY <1>1, NewVolume
<1>3. abandoned \subseteq UUIDs /\ recycled \subseteq UUIDs
  BY DEF IInv, ClusterTypes, HistoryTypes
<1>4. CASE NewImage(u) /\ Goto(p, "storeID") /\ UNCHANGED <<req, history, bounds>>
  <2>1. ClusterTypes' /\ Frame(p, req[p])
    BY <1>1, <1>2, <1>3, <1>4, NewImageTyped, HeldImages, ImagesStep DEF history
  <2>2. Moves(p, "storeID", req[p])
    BY <1>2, <1>4 DEF Moves, Goto
  <2>3. ControlOf("storeID", req[p])
    BY <1>1, <1>2, CreateControl DEF CreateSteps
  <2>4. ASSUME NEW f, Clean(f) PROVE PhaseOf("storeID", req[p])
    BY <1>2, <2>4, CreatePhaseKept DEF KeyedSteps, ReservedSteps, NewSteps, UndoSteps
  <2> QED BY <1>2, <2>1, <2>2, <2>3, <2>4, FrameStep DEF Steps, CreateSteps
<1>5. CASE (Fault \/ UNCHANGED bounds) /\ Undo(p, "return") /\ UNCHANGED <<store, history>>
  <2>1. ClusterTypes' /\ Frame(p, req[p])
    BY <1>1, <1>5, QuietFrame
  <2> QED BY <1>2, <1>5, <2>1, UndoStep
<1>6. CASE /\ Fault /\ NewImage(u) /\ Undo(p, "return") /\ abandoned' = abandoned \cup {u}
           /\ UNCHANGED <<servedFor, granted, used, recycled>>
  <2>1. ClusterTypes' /\ Frame(p, req[p])
    BY <1>1, <1>2, <1>3, <1>6, NewImageTyped, HeldImages, ImagesStep
  <2> QED BY <1>2, <1>6, <2>1, UndoStep
<1> QED BY <1>4, <1>5, <1>6 DEF CreateImage

\* The id of the new image is stored, or the rollback begins.
LEMMA StoreIDStep == ASSUME Constants, IInv, NEW p \in Requests, StoreID(p) PROVE IInv'
<1> DEFINE id == CurrentImageID(p)
           r == [req[p] EXCEPT !.imageID = id]
<1>1. pc[p] = "storeID" /\ pc[p] \in NewSteps \ {"reserveUUID", "reserveName"}
  BY DEF StoreID, At, NewSteps
<1>2. /\ pc[p] \in CreateSteps /\ req[p] \in Reqs /\ req \in [Requests -> Reqs]
      /\ ControlOf("storeID", req[p]) /\ req[p].op = "create" /\ req[p].uuid \in UUIDs
      /\ \A f : Clean(f) => OwnerOf(f, req[p]) /\ PhaseOf("storeID", req[p])
  BY <1>1, NewVolume
<1>3. id \in Nat
  BY <1>2 DEF CurrentImageID, Reqs, IInv, ClusterTypes, StoreTypes
<1> HIDE DEF id
<1>4. /\ r \in Reqs /\ r.op = req[p].op /\ r.name = req[p].name /\ r.uuid = req[p].uuid
      /\ r.held = req[p].held
  BY <1>2, <1>3 DEF Reqs
<1>5. req' = [req EXCEPT ![p] = r] /\ UNCHANGED <<store, history>>
  BY <1>2 DEF StoreID, id
<1> HIDE DEF r
<1>6. ASSUME NEW s \in {"setMeta", "rollbackTrash"}, Goto(p, s)
      PROVE  /\ s \in Steps /\ Moves(p, s, r) /\ ControlOf(s, r)
             /\ \A f : Clean(f) => OwnerOf(f, r) /\ PhaseOf(s, r)
  <2>1. s \in Steps /\ s \in CreateSteps \ {"checkName"}
    BY DEF Steps, CreateSteps
  <2>2. Moves(p, s, r) /\ ControlOf(s, r)
    BY <1>1, <1>2, <1>4, <1>5, <1>6, <2>1, CreateControl DEF Goto, Moves
  <2>3. ASSUME NEW f, Clean(f) PROVE OwnerOf(f, r) /\ PhaseOf(s, r)
    <3>1. PhaseOf(s, r)
      BY <1>2, <1>4, <2>3, CreatePhaseKept DEF KeyedSteps, ReservedSteps, NewSteps, UndoSteps
    <3> QED BY <1>2, <1>4, <2>3, <3>1 DEF OwnerOf
  <2> QED BY <2>1, <2>2, <2>3
<1>7. CASE \E s \in {"setMeta", "rollbackTrash"} :
              /\ StoreImageID(req[p].uuid, id) /\ Goto(p, s) /\ (UNCHANGED bounds \/ Fault)
  BY <1>2, <1>3, <1>4, <1>5, <1>6, <1>7, StoreStep
<1>8. CASE Fault /\ Goto(p, "rollbackTrash") /\ UNCHANGED journal
  BY <1>4, <1>5, <1>6, <1>8, QuietStep
<1> QED BY <1>7, <1>8 DEF StoreID, id

\* The new volume is handed out, or the rollback begins.
LEMMA SetMetadataStep == ASSUME IInv, NEW p \in Requests, SetMetadata(p) PROVE IInv'
<1>1. /\ pc[p] = "setMeta" /\ pc[p] \in NewSteps \ {"reserveUUID", "reserveName"}
      /\ UNCHANGED <<journal, store>>
  BY DEF SetMetadata, At, NewSteps
<1>2. CASE /\ images[req[p].uuid] # NoID /\ Return(p) /\ Grant(req[p].name, req[p].uuid)
           /\ UNCHANGED bounds
  BY <1>1, <1>2, GrantStep
<1>3. CASE (Fault \/ UNCHANGED bounds) /\ Goto(p, "rollbackTrash") /\ UNCHANGED <<req, history>>
  <2>1. /\ pc[p] \in CreateSteps /\ ControlOf("setMeta", req[p]) /\ req[p].op = "create"
        /\ req[p].uuid \in UUIDs /\ \A f : Clean(f) => PhaseOf("setMeta", req[p])
    BY <1>1, NewVolume
  <2>2. ControlOf("rollbackTrash", req[p])
    BY <1>1, <2>1, CreateControl DEF CreateSteps
  <2>3. ASSUME NEW f, Clean(f) PROVE PhaseOf("rollbackTrash", req[p])
    BY <2>1, <2>3, CreatePhaseKept DEF KeyedSteps, ReservedSteps, NewSteps, UndoSteps
  <2> QED BY <1>1, <1>3, <2>2, <2>3, QuietGoto DEF Steps, CreateSteps
<1> QED BY <1>2, <1>3 DEF SetMetadata, ImageGone

\* The rollback removes an image that the CO does not hold.
LEMMA RollbackTrashStep == ASSUME IInv, NEW p \in Requests, RollbackTrash(p) PROVE IInv'
<1> DEFINE u == req[p].uuid
           r == [req[p] EXCEPT !.imageID = CurrentImageID(p)]
<1>1. pc[p] = "rollbackTrash" /\ pc[p] \in NewSteps \ {"reserveUUID", "reserveName"} /\ UNCHANGED journal
  BY DEF RollbackTrash, At, NewSteps
<1>2. /\ pc[p] \in CreateSteps /\ req[p] \in Reqs /\ req \in [Requests -> Reqs]
      /\ ControlOf("rollbackTrash", req[p]) /\ req[p].op = "create" /\ u \in UUIDs
      /\ \A f : Clean(f) => OwnerOf(f, req[p]) /\ PhaseOf("rollbackTrash", req[p])
      /\ ~ scenario.overlap => /\ csiDirectory[req[p].name] = u /\ granted[req[p].name] = NoUUID
                               /\ \A n \in Names : granted[n] # u
  BY <1>1, NewVolume
<1>3. CurrentImageID(p) \in Nat /\ abandoned \subseteq UUIDs
  BY <1>2 DEF CurrentImageID, Reqs, IInv, ClusterTypes, StoreTypes, HistoryTypes
<1>4. CASE /\ TrashImage(u) /\ Goto(p, "rollbackRemove")
           /\ req' = [req EXCEPT ![p].imageID = CurrentImageID(p)] /\ UNCHANGED <<history, bounds>>
  <2>1. /\ r \in Reqs /\ r.op = req[p].op /\ r.name = req[p].name /\ r.uuid = u /\ r.held = req[p].held
    BY <1>2, <1>3 DEF Reqs
  <2>2. Moves(p, "rollbackRemove", r)
    BY <1>4, <2>1 DEF Moves, Goto
  <2> HIDE DEF r
  <2>3. ~ scenario.overlap => \A n \in Names : granted[n] # NoUUID => images'[granted[n]] # NoID
    BY <1>2, <1>4, HeldImages, TrashImageTyped
  <2>4. ClusterTypes' /\ Frame(p, r)
    BY <1>1, <1>2, <1>3, <1>4, <2>1, <2>3, TrashImageTyped, ImagesStep DEF history
  <2>5. ControlOf("rollbackRemove", r)
    <3>1. "rollbackTrash" \in CreateSteps /\ "rollbackRemove" \in CreateSteps \ {"checkName"}
      BY DEF CreateSteps
    <3> QED BY <1>2, <2>1, <3>1, CreateControl
  <2>6. ASSUME NEW f, Clean(f) PROVE OwnerOf(f, r) /\ PhaseOf("rollbackRemove", r)
    <3>1. PhaseOf("rollbackRemove", r)
      <4>1. /\ {"rollbackTrash", "rollbackRemove"} \subseteq KeyedSteps \cap NewSteps
            /\ "rollbackRemove" \notin ReservedSteps \cup UndoSteps
        BY DEF KeyedSteps, ReservedSteps, NewSteps, UndoSteps
      <4> QED BY <1>2, <2>1, <2>6, <4>1, CreatePhaseKept
    <3> QED BY <1>2, <2>1, <2>6, <3>1 DEF OwnerOf
  <2> QED BY <2>1, <2>2, <2>4, <2>5, <2>6, FrameStep DEF Steps, CreateSteps
<1>5. CASE (Fault \/ UNCHANGED bounds) /\ Abandon(u) /\ Undo(p, "return") /\ UNCHANGED store
  <2>1. StoreTypes' /\ images' = images
    BY <1>5 DEF IInv, ClusterTypes, StoreTypes, store
  <2>2. ClusterTypes' /\ Frame(p, req[p])
    BY <1>1, <1>2, <1>3, <1>5, <2>1, HeldImages, ImagesStep DEF Abandon
  <2> QED BY <1>2, <1>5, <2>2, UndoStep
<1> QED BY <1>4, <1>5 DEF RollbackTrash, ImageGone

\* The rollback goes on to the reservation.
LEMMA RollbackRemoveStep == ASSUME IInv, NEW p \in Requests, RollbackRemove(p) PROVE IInv'
<1> DEFINE u == req[p].uuid
<1>1. /\ pc[p] = "rollbackRemove" /\ pc[p] \in NewSteps \ {"reserveUUID", "reserveName"}
      /\ UNCHANGED journal /\ Undo(p, "return")
  BY DEF RollbackRemove, At, NewSteps
<1>2. /\ pc[p] \in CreateSteps /\ req[p].op = "create" /\ u \in UUIDs
      /\ ~ scenario.overlap => csiDirectory[req[p].name] = u /\ granted[req[p].name] = NoUUID
  BY <1>1, NewVolume
<1>3. abandoned' \subseteq UUIDs /\ (UNCHANGED bounds \/ Fault)
      /\ UNCHANGED <<servedFor, granted, used, recycled>>
  BY <1>2 DEF RollbackRemove, Abandon, history, IInv, ClusterTypes, HistoryTypes
<1>4. StoreTypes' /\ images' = images
  BY TrashRemoveTyped DEF RollbackRemove, IInv, ClusterTypes, StoreTypes, store
<1>5. ClusterTypes' /\ Frame(p, req[p])
  BY <1>1, <1>3, <1>4, HeldImages, ImagesStep
<1> QED BY <1>1, <1>2, <1>5, UndoStep

-----------------------------------------------------------------------------
(* ReserveName *)

\* CreateObject makes one object and leaves the others alone.
LEMMA CreateObjectTyped ==
  ASSUME ClusterTypes, NEW u \in UUIDs, CreateUUIDObject(u)
  PROVE  JournalTypeOK' /\ NamesKept /\ csiDirectory' = csiDirectory
<1>1. EmptyObject \in Attributes /\ EmptyObject.reqName = NoName
  BY DEF EmptyObject, Attributes, NoID
<1> HIDE DEF EmptyObject
<1> QED BY <1>1 DEF ClusterTypes, JournalTypeOK, NamesKept, CreateUUIDObject

\* A new UUID has no owner yet.
LEMMA FreshUUIDStep ==
  ASSUME IInv, NEW p \in Requests, pc[p] = "reserveUUID", NEW u \in UUIDs \ used,
         req[p].uuid = NoUUID, CreateUUIDObject(u), Goto(p, "reserveName"),
         req' = [req EXCEPT ![p].uuid = u], used' = used \cup {u},
         UNCHANGED <<servedFor, granted, recycled, abandoned>>, UNCHANGED <<store, bounds>>
  PROVE  IInv'
<1> DEFINE n == req[p].name
           r == [req[p] EXCEPT !.uuid = u]
<1>1. /\ req[p] \in Reqs /\ req \in [Requests -> Reqs] /\ ControlOf("reserveUUID", req[p])
      /\ req[p].op = "create" /\ n \in Names
      /\ \A f : Clean(f) => PhaseOf("reserveUUID", req[p])
  BY CreateKnown DEF CreateSteps
<1>2. /\ r \in Reqs /\ r.op = "create" /\ r.name = n /\ r.uuid = u /\ r.held = req[p].held
  BY <1>1 DEF Reqs
<1>3. Moves(p, "reserveName", r)
  BY <1>2 DEF Moves, Goto
<1> HIDE DEF r
<1>4. ControlOf("reserveName", r)
  BY <1>1, <1>2, CreateControl DEF CreateSteps
<1>5. /\ RequestInv' /\ pc'[p] = "reserveName" /\ req'[p] = r
      /\ \A q \in Requests : q # p => pc'[q] = pc[q] /\ req'[q] = req[q]
  BY <1>2, <1>3, <1>4, MoveStep DEF IInv, Steps, CreateSteps
<1>6. /\ JournalTypeOK' /\ NamesKept
      /\ UNCHANGED <<csiDirectory, images, trash, nextID, secondary, faults, crashes, scenario>>
  BY CreateObjectTyped DEF IInv, store, bounds
<1>7. ClusterTypes'
  BY <1>6 DEF IInv, ClusterTypes, StoreTypes, HistoryTypes, BoundTypes
<1>8. ASSUME NEW f \in [UUIDs -> Names \cup {NoName}], ~ scenario.overlap, Clean(f)
      PROVE  \E g \in [UUIDs -> Names \cup {NoName}] : Clean(g)'
  <2>0. PICK g \in [UUIDs -> Names \cup {NoName}] : g = [f EXCEPT ![u] = n]
    BY <1>1
  <2>1. g[u] = n /\ f[u] = NoName /\ \A v \in UUIDs : v # u => g[v] = f[v]
    BY <1>1, <1>8, <2>0 DEF Clean, OwnerInJournal
  <2>2. csiDirectory \in [Names -> UUIDs \cup {NoUUID}]
    BY DEF IInv, ClusterTypes, JournalTypeOK
  <2>3. OwnerInJournal(g)'
    <3>1. \A v \in UUIDs : v \notin used' => g[v] = NoName
      BY <1>8, <2>1 DEF Clean, OwnerInJournal
    <3>2. \A m \in Names : csiDirectory[m] # NoUUID => g[csiDirectory[m]] = m
      BY <1>8, <2>1, <2>2, NullsDistinct DEF Clean, OwnerInJournal
    <3>3. \A v \in UUIDs : uuidDirectory'[v] # NoObject /\ uuidDirectory'[v].reqName \in Names =>
              g[v] = uuidDirectory'[v].reqName
      BY <1>6, <1>8, <2>1, NullsDistinct DEF Clean, OwnerInJournal, NamesKept
    <3>4. \A v \in UUIDs : servedFor[v] # NoName => g[v] = servedFor[v]
      BY <1>8, <2>1 DEF Clean, OwnerInJournal
    <3> QED BY <1>6, <2>1, <3>1, <3>2, <3>3, <3>4 DEF OwnerInJournal
  <2>4. ASSUME NEW q \in Requests PROVE OwnerOf(g, req'[q]) /\ PhaseOf(pc'[q], req'[q])
    <3>1. CASE q = p
      <4>1. OwnerOf(g, r)
        BY <1>2, <2>1 DEF OwnerOf
      <4>2. PhaseOf("reserveName", r)
        BY <1>1, <1>2, <1>8 DEF PhaseOf, CreatePhase, DeletePhase, UndonePhase, KeyedSteps, ReservedSteps,
           NewSteps, UndoSteps
      <4> QED BY <1>5, <3>1, <4>1, <4>2
    <3>2. CASE q # p
      <4>1. OwnerOf(f, req[q]) /\ PhaseOf(pc[q], req[q]) /\ ControlOf(pc[q], req[q]) /\ req[q] \in Reqs
        BY <1>8, Known
      <4>2. OwnerOf(g, req[q])
        BY <2>1, <4>1, NullsDistinct DEF OwnerOf, ControlOf, Reqs
      <4> QED BY <1>5, <3>2, <4>1, <4>2
    <3> QED BY <3>1, <3>2
  <2>5. \A q \in Requests : req'[q].op = "create" => \E z \in Requests :
            req[z].op = "create" /\ req'[q].name = req[z].name
    BY <1>1, <1>2, <1>5
  <2>6. \A m \in Names : granted[m] # NoUUID => images'[granted[m]] # NoID
    BY <1>6, <1>8, HeldImages
  <2>7. KeyOfObject' /\ Backed' /\ \A q \in Requests : PhaseOf(pc[q], req[q])'
    BY <1>5, <1>6, <1>8, <2>4, <2>5, <2>6, FramePhases
  <2>8. Clean(g)'
    BY <2>3, <2>4, <2>7 DEF Clean, OwnerOf
  <2> QED BY <2>8
<1>9. CleanInv'
  BY <1>6, <1>8 DEF CleanInv, IInv
<1> QED BY <1>5, <1>7, <1>9 DEF IInv

\* The UUID object is created, or there is no UUID left.
LEMMA ReserveUUIDStep == ASSUME IInv, NEW p \in Requests, ReserveUUID(p) PROVE IInv'
<1> DEFINE given == req[p].uuid
<1>1. pc[p] = "reserveUUID" /\ pc[p] \in CreateSteps /\ UNCHANGED <<store, bounds>>
  BY DEF ReserveUUID, At, CreateSteps
<1>2. /\ req[p] \in Reqs /\ req \in [Requests -> Reqs] /\ ControlOf("reserveUUID", req[p])
      /\ req[p].op = "create" /\ given \in UUIDs \cup {NoUUID}
      /\ \A f : Clean(f) => OwnerOf(f, req[p]) /\ PhaseOf("reserveUUID", req[p])
  BY <1>1, CreateKnown DEF Reqs
<1>3. CASE /\ given # NoUUID /\ CreateUUIDObject(given) /\ Goto(p, "reserveName")
           /\ UNCHANGED <<req, history>>
  <2>1. /\ JournalTypeOK' /\ NamesKept
        /\ UNCHANGED <<csiDirectory, images, trash, nextID, secondary, faults, crashes, scenario>>
        /\ UNCHANGED <<servedFor, granted, used, recycled, abandoned>>
    BY <1>1, <1>2, <1>3, CreateObjectTyped DEF IInv, store, bounds, history
  <2>2. ClusterTypes'
    BY <2>1 DEF IInv, ClusterTypes, StoreTypes, HistoryTypes, BoundTypes
  <2>3. Frame(p, req[p])
    BY <1>2, <2>1, HeldImages DEF Frame
  <2>4. Moves(p, "reserveName", req[p])
    BY <1>2, <1>3 DEF Moves, Goto
  <2>5. ControlOf("reserveName", req[p])
    BY <1>1, <1>2, <1>3, CreateControl DEF CreateSteps
  <2>6. ASSUME NEW f, Clean(f) PROVE PhaseOf("reserveName", req[p])
    BY <1>2, <2>6, CreatePhaseKept DEF KeyedSteps, ReservedSteps, NewSteps, UndoSteps
  <2> QED BY <1>2, <2>2, <2>3, <2>4, <2>5, <2>6, FrameStep DEF Steps, CreateSteps
<1>4. CASE \E u \in FreshUUIDs :
              /\ given = NoUUID /\ CreateUUIDObject(u) /\ Goto(p, "reserveName")
              /\ req' = [req EXCEPT ![p].uuid = u] /\ used' = used \cup {u}
              /\ UNCHANGED <<servedFor, granted, recycled, abandoned>>
  <2>1. FreshUUIDs \subseteq UUIDs \ used
    BY DEF FreshUUIDs
  <2> QED BY <1>1, <1>4, <2>1, FreshUUIDStep
<1>5. CASE Return(p) /\ UNCHANGED <<journal, history>>
  BY <1>1, <1>5, QuietReturn
<1> QED BY <1>3, <1>4, <1>5 DEF ReserveUUID

\* The key is set for a name that has none.
LEMMA ReserveNameKeyStep == ASSUME IInv, NEW p \in Requests, ReserveNameKey(p) PROVE IInv'
<1> DEFINE n == req[p].name
           u == req[p].uuid
<1>1. /\ pc[p] = "reserveName" /\ Goto(p, "reserveAttrs") /\ SetNameKey(n, u)
      /\ UNCHANGED <<req, store, history, bounds>>
  BY DEF ReserveNameKey, At
<1>2. /\ req[p] \in Reqs /\ req \in [Requests -> Reqs] /\ ControlOf("reserveName", req[p])
      /\ req[p].op = "create" /\ n \in Names /\ u \in UUIDs
      /\ \A f : Clean(f) => OwnerOf(f, req[p]) /\ PhaseOf("reserveName", req[p])
  BY <1>1, CreateKnown DEF CreateSteps
<1>3. Moves(p, "reserveAttrs", req[p])
  BY <1>1, <1>2 DEF Moves, Goto
<1>4. ControlOf("reserveAttrs", req[p])
  BY <1>1, <1>2, CreateControl DEF CreateSteps
<1>5. /\ RequestInv' /\ pc'[p] = "reserveAttrs" /\ req' = req
      /\ \A q \in Requests : q # p => pc'[q] = pc[q]
  BY <1>1, <1>2, <1>3, <1>4, MoveStep DEF IInv, Steps, CreateSteps
<1>6. /\ UNCHANGED <<uuidDirectory, images, trash, nextID, secondary, faults, crashes, scenario>>
      /\ UNCHANGED <<servedFor, granted, used, recycled, abandoned>>
      /\ csiDirectory \in [Names -> UUIDs \cup {NoUUID}]
      /\ csiDirectory' \in [Names -> UUIDs \cup {NoUUID}]
      /\ csiDirectory'[n] = u /\ \A m \in Names : m # n => csiDirectory'[m] = csiDirectory[m]
  BY <1>1, <1>2 DEF IInv, ClusterTypes, JournalTypeOK, SetNameKey, store, bounds, history
<1>7. ClusterTypes'
  BY <1>6 DEF IInv, ClusterTypes, JournalTypeOK, StoreTypes, HistoryTypes, BoundTypes
<1>8. ASSUME NEW f \in [UUIDs -> Names \cup {NoName}], ~ scenario.overlap, Clean(f)
      PROVE  Clean(f)'
  <2>1. f[u] = n /\ csiDirectory[n] = NoUUID /\ granted[n] = NoUUID
    BY <1>2, <1>8, NullsDistinct DEF OwnerOf, PhaseOf, CreatePhase, NewSteps
  <2>2. OwnerInJournal(f)'
    BY <1>6, <1>8, <2>1 DEF Clean, OwnerInJournal
  <2>3. KeyOfObject'
    BY <1>6, <1>8, <2>1, NullsDistinct DEF Clean, KeyOfObject
  <2>4. Backed'
    BY <1>6, <1>8, <2>1 DEF Clean, Backed, Reserved
  <2>5. ASSUME NEW q \in Requests PROVE PhaseOf(pc[q], req[q])'
    <3>1. CASE q = p
      BY <1>2, <1>5, <1>6, <2>1, <3>1
         DEF PhaseOf, CreatePhase, DeletePhase, UndonePhase, KeyedSteps, ReservedSteps, NewSteps, UndoSteps
    <3>2. CASE q # p
      <4>1. PhaseOf(pc[q], req[q]) /\ OwnerOf(f, req[q]) /\ ControlOf(pc[q], req[q])
        BY <1>8, Known
      <4>2. CreatePhase(pc[q], req[q])'
        <5>1. req[q].op = "create" => req[q].name \in Names /\ req[q].name # n
          BY <1>2, <3>2, <4>1, OneRequest DEF IInv, ControlOf
        <5> QED BY <1>5, <1>6, <3>2, <4>1, <5>1 DEF PhaseOf, CreatePhase, Reserved
      <4>3. DeletePhase(req[q])'
        <5>1. req[q].op = "delete" /\ req[q].name \in Names => req[q].name # n
          BY <1>2, <1>8, <4>1 DEF PhaseOf, DeletePhase, OwnerOf, Clean, OwnerInJournal, ControlOf
        <5> QED BY <1>5, <1>6, <4>1, <5>1 DEF PhaseOf, DeletePhase
      <4>4. UndonePhase(pc[q], req[q])'
        BY <1>5, <1>6, <3>2, <4>1 DEF PhaseOf, UndonePhase
      <4> QED BY <4>2, <4>3, <4>4 DEF PhaseOf
    <3> QED BY <3>1, <3>2
  <2> QED BY <1>5, <1>8, <2>2, <2>3, <2>4, <2>5 DEF Clean, OwnerOf
<1>9. CleanInv'
  BY <1>6, <1>8 DEF CleanInv, IInv
<1> QED BY <1>5, <1>7, <1>9 DEF IInv
=============================================================================
