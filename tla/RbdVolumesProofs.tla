-------------------------- MODULE RbdVolumesProofs --------------------------
(***************************************************************************)
(* The invariant of RbdVolumesInvariant.tla is kept by the last write of a *)
(* reservation, by UndoReservation, by DeleteVolume, the CO and the        *)
(* environment, so it holds in every behaviour; and what follows from it.  *)
(***************************************************************************)
EXTENDS RbdVolumesInvariant


\* The attributes of one UUID change.
LEMMA SetAttributesTyped ==
  ASSUME Constants, ClusterTypes, NEW u \in UUIDs, NEW n \in Names, SetAttributes(u, n, NoUUID)
  PROVE  /\ JournalTypeOK' /\ csiDirectory' = csiDirectory
         /\ uuidDirectory'[u] # NoObject /\ uuidDirectory'[u].reqName = n
         /\ \A v \in UUIDs : v # u => uuidDirectory'[v] = uuidDirectory[v]
<1> DEFINE d == [OrCreated(u) EXCEPT !.reqName = n]
           a == [d EXCEPT !.source = NoUUID]
<1>1. OrCreated(u) \in Attributes
  BY DEF ClusterTypes, JournalTypeOK, OrCreated, EmptyObject, Attributes, NoID
<1>2. d \in Attributes /\ d.reqName = n
  BY <1>1 DEF Attributes
<1>3. uuidDirectory' = [uuidDirectory EXCEPT ![u] = a] /\ csiDirectory' = csiDirectory
  BY DEF SetAttributes
<1> HIDE DEF d
<1>4. a \in Attributes /\ a.reqName = n
  BY <1>2 DEF Attributes
<1> HIDE DEF a
<1> QED BY <1>3, <1>4 DEF ClusterTypes, JournalTypeOK, Constants

\* The attributes lead back to the name; then the reservation is complete.
LEMMA AttributesStep ==
  ASSUME Constants, IInv, NEW p \in Requests, pc[p] = "reserveAttrs",
         SetAttributes(req[p].uuid, req[p].name, NoUUID),
         NEW s \in {"createImage", "idle"}, NEW r \in Reqs, Moves(p, s, r), ControlOf(s, r),
         IF s = "createImage" THEN r = req[p] ELSE r.op = "none",
         UNCHANGED <<store, history>>, UNCHANGED bounds \/ Fault
  PROVE  IInv'
<1> DEFINE n == req[p].name
           u == req[p].uuid
<1>1. /\ req[p].op = "create" /\ n \in Names /\ u \in UUIDs
      /\ \A f : Clean(f) => f[u] = n
      /\ ~ scenario.overlap => /\ csiDirectory[n] = u /\ granted[n] = NoUUID
                               /\ \A m \in Names : granted[m] # u
  BY NewVolume DEF NewSteps
<1>2. /\ RequestInv' /\ pc'[p] = s /\ req'[p] = r
      /\ \A q \in Requests : q # p => pc'[q] = pc[q] /\ req'[q] = req[q]
  BY MoveStep DEF IInv, Steps, CreateSteps
<1>3. /\ JournalTypeOK' /\ csiDirectory' = csiDirectory
      /\ uuidDirectory'[u] # NoObject /\ uuidDirectory'[u].reqName = n
      /\ \A v \in UUIDs : v # u => uuidDirectory'[v] = uuidDirectory[v]
  BY <1>1, SetAttributesTyped DEF IInv
<1>4. BoundTypes' /\ scenario' = scenario
  BY BoundsStep DEF IInv, ClusterTypes
<1>5. /\ UNCHANGED <<images, trash, nextID, secondary, servedFor, granted, used, recycled, abandoned>>
  BY DEF store, history
<1>6. ClusterTypes'
  BY <1>3, <1>4, <1>5 DEF IInv, ClusterTypes, StoreTypes, HistoryTypes
<1>7. ASSUME NEW f \in [UUIDs -> Names \cup {NoName}], ~ scenario.overlap, Clean(f)
      PROVE  Clean(f)'
  <2>1. f[u] = n
    BY <1>1, <1>7
  <2>2. OwnerInJournal(f)'
    BY <1>3, <1>5, <1>7, <2>1 DEF Clean, OwnerInJournal
  <2>3. KeyOfObject'
    BY <1>1, <1>3, <1>7 DEF Clean, KeyOfObject
  <2>4. Backed'
    BY <1>1, <1>3, <1>5, <1>7 DEF Clean, Backed, Reserved, IInv, ClusterTypes, HistoryTypes
  <2>5. ASSUME NEW q \in Requests PROVE OwnerOf(f, req'[q]) /\ PhaseOf(pc[q], req[q])'
    <3>1. CASE q = p /\ s = "idle"
      <4>1. pc'[q] = "idle" /\ req'[q].op = "none"
        BY <1>2, <3>1
      <4> QED BY <4>1 DEF OwnerOf, PhaseOf, CreatePhase, DeletePhase, UndonePhase
    <3>2. CASE q = p /\ s = "createImage"
      <4>1. pc'[q] = "createImage" /\ req'[q] = req[p]
        BY <1>2, <3>2
      <4> QED BY <1>1, <1>3, <1>5, <1>7, <2>1, <4>1
              DEF OwnerOf, PhaseOf, CreatePhase, DeletePhase, UndonePhase, KeyedSteps, ReservedSteps,
                  NewSteps, UndoSteps, Reserved
    <3>3. CASE q # p
      <4>1. /\ PhaseOf(pc[q], req[q]) /\ OwnerOf(f, req[q]) /\ ControlOf(pc[q], req[q])
            /\ pc'[q] = pc[q] /\ req'[q] = req[q]
        BY <1>2, <1>7, <3>3, Known
      <4>2. req[q].op = "create" => req[q].name \in Names /\ req[q].name # n /\ req[q].uuid # u
        BY <1>1, <2>1, <3>3, <4>1, OneRequest, NullsDistinct DEF IInv, ControlOf, OwnerOf
      <4>3. req[q].op = "delete" => req[q].uuid \in UUIDs /\ req[q].uuid # u
        BY <1>1, <1>7, <2>1, <4>1 DEF PhaseOf, DeletePhase, ControlOf, Clean, OwnerInJournal
      <4>4. CreatePhase(pc[q], req[q])'
        <5>1. pc[q] \in ReservedSteps => req[q].uuid \in UUIDs
          BY <4>1 DEF ControlOf, ReservedSteps, CreateSteps
        <5> QED BY <1>3, <1>5, <4>1, <4>2, <5>1 DEF PhaseOf, CreatePhase, Reserved
      <4>5. DeletePhase(req[q])'
        <5>1. \A z \in Requests : req'[z].op = "create" => req[z].op = "create" /\ req'[z].name = req[z].name
          BY <1>2
        <5> QED BY <1>3, <1>5, <4>1, <5>1 DEF PhaseOf, DeletePhase
      <4>6. UndonePhase(pc[q], req[q])'
        <5>1. pc[q] = "undoName" => req[q].uuid \in UUIDs /\ req[q].uuid # u
          BY <4>1, <4>2, <4>3 DEF ControlOf, UndoSteps
        <5> QED BY <1>3, <4>1, <5>1 DEF PhaseOf, UndonePhase
      <4> QED BY <4>1, <4>4, <4>5, <4>6 DEF PhaseOf
    <3> QED BY <3>1, <3>2, <3>3
  <2> QED BY <2>2, <2>3, <2>4, <2>5 DEF Clean, OwnerOf
<1>8. CleanInv'
  BY <1>4, <1>7 DEF CleanInv, IInv
<1> QED BY <1>2, <1>6, <1>8 DEF IInv

\* The reservation is complete, or it is undone.
LEMMA ReserveAttributesStep == ASSUME Constants, IInv, NEW p \in Requests, ReserveAttributes(p) PROVE IInv'
<1>1. /\ pc[p] = "reserveAttrs" /\ pc[p] \in NewSteps \ {"reserveUUID", "reserveName"}
      /\ UNCHANGED <<store, history>>
  BY DEF ReserveAttributes, At, NewSteps
<1>2. /\ pc[p] \in CreateSteps /\ req[p] \in Reqs /\ req \in [Requests -> Reqs]
      /\ ControlOf("reserveAttrs", req[p]) /\ req[p].uuid \in UUIDs
      /\ ~ scenario.overlap => csiDirectory[req[p].name] = req[p].uuid /\ granted[req[p].name] = NoUUID
  BY <1>1, NewVolume
<1>3. CASE /\ SetAttributes(req[p].uuid, req[p].name, NoUUID) /\ Goto(p, "createImage")
           /\ UNCHANGED <<req, bounds>>
  <2>1. Moves(p, "createImage", req[p])
    BY <1>2, <1>3 DEF Moves, Goto
  <2>2. ControlOf("createImage", req[p])
    BY <1>1, <1>2, CreateControl DEF CreateSteps
  <2> QED BY <1>1, <1>2, <1>3, <2>1, <2>2, AttributesStep
<1>4. CASE Fault /\ Undo(p, "return") /\ UNCHANGED journal
  <2>1. ClusterTypes' /\ Frame(p, req[p])
    BY <1>1, <1>4, QuietFrame
  <2> QED BY <1>2, <1>4, <2>1, UndoStep
<1>5. CASE Fault /\ SetAttributes(req[p].uuid, req[p].name, NoUUID) /\ Return(p)
  <2>1. Idle \in Reqs /\ Idle.held = {} /\ Idle.op = "none"
    BY DEF Idle, Reqs, NoID
  <2>2. Moves(p, "idle", Idle)
    BY <1>5, <2>1 DEF Return, Moves
  <2>3. ControlOf("idle", Idle)
    BY <2>1 DEF ControlOf, CreateSteps, DeleteSteps, UndoSteps, NamedDelete
  <2> HIDE DEF Idle
  <2> QED BY <1>1, <1>5, <2>1, <2>2, <2>3, AttributesStep
<1> QED BY <1>3, <1>4, <1>5 DEF ReserveAttributes

-----------------------------------------------------------------------------
(* UndoReservation *)

\* Nobody else uses a UUID that a reservation is undone for, and the CO does
\* not hold it.
LEMMA UndoneAlone ==
  ASSUME IInv, NEW p \in Requests, pc[p] \in UndoSteps, NEW f, Clean(f)
  PROVE  /\ \A m \in Names : granted[m] # req[p].uuid
         /\ \A q \in Requests : q # p /\ req[q].op = "create" =>
               req[q].name # req[p].name /\ req[q].uuid # req[p].uuid
<1>1. /\ ControlOf(pc[p], req[p]) /\ OwnerOf(f, req[p]) /\ PhaseOf(pc[p], req[p])
  BY Known
<1>2. req[p].op \in {"create", "delete"} /\ req[p].uuid \in UUIDs
  BY <1>1 DEF ControlOf
<1>3. CASE req[p].op = "create"
  <2>1. f[req[p].uuid] = req[p].name /\ req[p].name \in Names /\ granted[req[p].name] = NoUUID
    BY <1>1, <1>2, <1>3, NullsDistinct DEF OwnerOf, PhaseOf, CreatePhase, ControlOf
  <2>2. \A m \in Names : granted[m] # req[p].uuid
    BY <1>2, <2>1, NullsDistinct DEF Clean, OwnerInJournal, Backed, Reserved
  <2>3. ASSUME NEW q \in Requests, q # p, req[q].op = "create"
        PROVE  req[q].name # req[p].name /\ req[q].uuid # req[p].uuid
    <3>1. OwnerOf(f, req[q]) /\ req[q].name # req[p].name
      BY <2>3, OneRequest, Known DEF IInv
    <3> QED BY <1>2, <2>1, <2>3, <3>1, NullsDistinct DEF OwnerOf
  <2> QED BY <2>2, <2>3
<1>4. CASE req[p].op = "delete"
  <2>1. /\ servedFor[req[p].uuid] # NoName /\ f[req[p].uuid] = servedFor[req[p].uuid]
        /\ \A m \in Names : granted[m] # req[p].uuid
        /\ \A q \in Requests : req[q].op = "create" => req[q].name # servedFor[req[p].uuid]
    BY <1>1, <1>2, <1>4 DEF PhaseOf, DeletePhase, Clean, OwnerInJournal
  <2>2. ASSUME NEW q \in Requests, q # p, req[q].op = "create"
        PROVE  req[q].name # req[p].name /\ req[q].uuid # req[p].uuid
    <3>1. OwnerOf(f, req[q]) /\ req[q].name # req[p].name
      BY <2>2, OneRequest, Known DEF IInv
    <3> QED BY <1>2, <2>1, <2>2, <3>1, NullsDistinct DEF OwnerOf
  <2> QED BY <2>1, <2>2
<1> QED BY <1>2, <1>3, <1>4

\* The UUID object that is removed is that of a volume the CO does not hold.
LEMMA UndoUUIDStep == ASSUME IInv, NEW p \in Requests, UndoUUID(p) PROVE IInv'
<1> DEFINE u == req[p].uuid
<1>1. /\ pc[p] = "undoUUID" /\ pc[p] \in UndoSteps /\ RemoveUUIDObject(u) /\ Goto(p, "undoName")
      /\ UNCHANGED <<req, store, history, bounds>>
  BY DEF UndoUUID, At, UndoSteps
<1>2. /\ req[p] \in Reqs /\ req \in [Requests -> Reqs] /\ ControlOf("undoUUID", req[p])
      /\ \A f : Clean(f) => OwnerOf(f, req[p]) /\ PhaseOf("undoUUID", req[p])
  BY <1>1, Known
<1>3. u \in UUIDs /\ ControlOf("undoName", req[p]) /\ Moves(p, "undoName", req[p])
  BY <1>1, <1>2 DEF ControlOf, CreateSteps, DeleteSteps, UndoSteps, NamedDelete, Moves, Goto
<1>4. /\ RequestInv' /\ pc'[p] = "undoName" /\ req' = req
      /\ \A q \in Requests : q # p => pc'[q] = pc[q]
  BY <1>1, <1>2, <1>3, MoveStep DEF IInv, Steps, UndoSteps
<1>5. /\ UNCHANGED <<csiDirectory, images, trash, nextID, secondary, faults, crashes, scenario>>
      /\ UNCHANGED <<servedFor, granted, used, recycled, abandoned>>
      /\ uuidDirectory' \in [UUIDs -> Attributes \cup {NoObject}]
      /\ uuidDirectory'[u] = NoObject /\ \A v \in UUIDs : v # u => uuidDirectory'[v] = uuidDirectory[v]
  BY <1>1, <1>3 DEF IInv, ClusterTypes, JournalTypeOK, RemoveUUIDObject, store, bounds, history
<1>6. ClusterTypes'
  BY <1>5 DEF IInv, ClusterTypes, JournalTypeOK, StoreTypes, HistoryTypes, BoundTypes
<1>7. ASSUME NEW f \in [UUIDs -> Names \cup {NoName}], ~ scenario.overlap, Clean(f)
      PROVE  Clean(f)'
  <2>1. /\ \A m \in Names : granted[m] # u
        /\ \A q \in Requests : q # p /\ req[q].op = "create" => req[q].uuid # u
    BY <1>1, <1>7, UndoneAlone
  <2>2. OwnerInJournal(f)' /\ KeyOfObject'
    BY <1>5, <1>7 DEF Clean, OwnerInJournal, KeyOfObject
  <2>3. Backed'
    <3> SUFFICES ASSUME NEW m \in Names, granted[m] # NoUUID
                 PROVE  images[granted[m]] # NoID /\ Reserved(m, granted[m])'
      BY <1>5 DEF Backed
    <3>1. images[granted[m]] # NoID /\ Reserved(m, granted[m])
      BY <1>7 DEF Clean, Backed
    <3>2. granted[m] \in UUIDs /\ granted[m] # u
      BY <2>1 DEF IInv, ClusterTypes, HistoryTypes
    <3> QED BY <1>5, <3>1, <3>2 DEF Reserved
  <2>4. ASSUME NEW q \in Requests PROVE PhaseOf(pc[q], req[q])'
    <3>1. PhaseOf(pc[q], req[q]) /\ ControlOf(pc[q], req[q])
      BY <1>7, Known
    <3>2. CreatePhase(pc[q], req[q])'
      <4>1. CASE q = p
        BY <1>1, <1>4, <1>5, <3>1, <4>1 DEF PhaseOf, CreatePhase, KeyedSteps, ReservedSteps, NewSteps, UndoSteps
      <4>2. CASE q # p
        <5>1. pc[q] \in ReservedSteps => req[q].uuid \in UUIDs
          BY <3>1 DEF ControlOf, ReservedSteps, CreateSteps
        <5> QED BY <1>4, <1>5, <2>1, <3>1, <4>2, <5>1 DEF PhaseOf, CreatePhase, Reserved
      <4> QED BY <4>1, <4>2
    <3>3. DeletePhase(req[q])'
      BY <1>4, <1>5, <3>1 DEF PhaseOf, DeletePhase
    <3>4. UndonePhase(pc[q], req[q])'
      <4>1. CASE q = p
        BY <1>4, <1>5, <4>1 DEF UndonePhase
      <4>2. CASE q # p
        <5>1. pc[q] = "undoName" => req[q].uuid \in UUIDs
          BY <3>1 DEF ControlOf, UndoSteps
        <5> QED BY <1>4, <1>5, <3>1, <4>2, <5>1 DEF PhaseOf, UndonePhase
      <4> QED BY <4>1, <4>2
    <3> QED BY <3>2, <3>3, <3>4 DEF PhaseOf
  <2> QED BY <1>4, <1>7, <2>2, <2>3, <2>4 DEF Clean, OwnerOf
<1>8. CleanInv'
  BY <1>5, <1>7 DEF CleanInv, IInv
<1> QED BY <1>4, <1>6, <1>8 DEF IInv

\* The key of the name goes; the request reserves again, or returns.
LEMMA RemoveKeyStep ==
  ASSUME IInv, NEW p \in Requests, pc[p] = "undoName", RemoveNameKey(req[p].name),
         NEW s \in {"reserveUUID", "idle"}, NEW r \in Reqs, Moves(p, s, r), ControlOf(s, r),
         IF s = "idle" THEN r.op = "none"
         ELSE /\ req[p].op = "create" /\ r.op = "create" /\ r.name = req[p].name
              /\ r.uuid \in {req[p].uuid, NoUUID},
         UNCHANGED <<store, history, bounds>>
  PROVE  IInv'
<1> DEFINE n == req[p].name
           u == req[p].uuid
<1>1. /\ req[p] \in Reqs /\ ControlOf("undoName", req[p]) /\ pc[p] \in UndoSteps
      /\ \A f : Clean(f) => OwnerOf(f, req[p]) /\ PhaseOf("undoName", req[p])
  BY Known DEF UndoSteps
<1>2. u \in UUIDs /\ req[p].op \in {"create", "delete"} /\ n \in Names \cup {NoName}
  BY <1>1 DEF ControlOf, UndoSteps, Reqs
<1>3. /\ RequestInv' /\ pc'[p] = s /\ req'[p] = r
      /\ \A q \in Requests : q # p => pc'[q] = pc[q] /\ req'[q] = req[q]
  BY MoveStep DEF IInv, Steps, CreateSteps
<1>4. /\ UNCHANGED <<uuidDirectory, images, trash, nextID, secondary, faults, crashes, scenario>>
      /\ UNCHANGED <<servedFor, granted, used, recycled, abandoned>>
      /\ csiDirectory \in [Names -> UUIDs \cup {NoUUID}]
      /\ csiDirectory' \in [Names -> UUIDs \cup {NoUUID}]
      /\ \A m \in Names : csiDirectory'[m] = IF m = n THEN NoUUID ELSE csiDirectory[m]
  BY DEF IInv, ClusterTypes, JournalTypeOK, RemoveNameKey, store, bounds, history
<1>5. ClusterTypes'
  BY <1>4 DEF IInv, ClusterTypes, JournalTypeOK, StoreTypes, HistoryTypes, BoundTypes
<1>6. ASSUME NEW f \in [UUIDs -> Names \cup {NoName}], ~ scenario.overlap, Clean(f)
      PROVE  Clean(f)'
  <2>1. /\ n \in Names => csiDirectory[n] \in {NoUUID, u}
        /\ uuidDirectory[u] = NoObject \/ uuidDirectory[u].reqName = NoName
        /\ req[p].op = "create" => granted[n] = NoUUID
    BY <1>1, <1>2, <1>6 DEF PhaseOf, CreatePhase, DeletePhase, UndonePhase, UndoSteps
  <2>2. /\ \A m \in Names : granted[m] # u
        /\ \A q \in Requests : q # p /\ req[q].op = "create" => req[q].name # n
    BY <1>1, <1>6, UndoneAlone
  <2>3. OwnerInJournal(f)'
    BY <1>4, <1>6 DEF Clean, OwnerInJournal
  <2>4. KeyOfObject'
    <3> SUFFICES ASSUME NEW v \in UUIDs, uuidDirectory[v] # NoObject, uuidDirectory[v].reqName \in Names
                 PROVE  csiDirectory'[uuidDirectory[v].reqName] = v
      BY <1>4 DEF KeyOfObject
    <3>1. csiDirectory[uuidDirectory[v].reqName] = v
      BY <1>6 DEF Clean, KeyOfObject
    <3>2. uuidDirectory[v].reqName # n
      BY <2>1, <3>1, NullsDistinct
    <3> QED BY <1>4, <3>1, <3>2
  <2>5. Backed'
    <3> SUFFICES ASSUME NEW m \in Names, granted[m] # NoUUID
                 PROVE  images[granted[m]] # NoID /\ Reserved(m, granted[m])'
      BY <1>4 DEF Backed
    <3>1. images[granted[m]] # NoID /\ Reserved(m, granted[m])
      BY <1>6 DEF Clean, Backed
    <3>2. m # n
      BY <2>1, <2>2, <3>1 DEF Reserved
    <3> QED BY <1>4, <3>1, <3>2 DEF Reserved
  <2>6. ASSUME NEW q \in Requests PROVE OwnerOf(f, req'[q]) /\ PhaseOf(pc[q], req[q])'
    <3>1. CASE q = p /\ s = "idle"
      <4>1. pc'[q] = "idle" /\ req'[q].op = "none"
        BY <1>3, <3>1
      <4> QED BY <4>1 DEF OwnerOf, PhaseOf, CreatePhase, DeletePhase, UndonePhase
    <3>2. CASE q = p /\ s = "reserveUUID"
      <4>1. /\ pc'[q] = "reserveUUID" /\ req'[q].op = "create" /\ req'[q].name = n
            /\ req'[q].uuid \in {u, NoUUID} /\ req[p].op = "create" /\ n \in Names
        BY <1>1, <1>3, <3>2 DEF ControlOf
      <4>2. OwnerOf(f, req'[q])
        BY <1>1, <1>6, <4>1 DEF OwnerOf
      <4>3. PhaseOf(pc[q], req[q])'
        BY <1>4, <2>1, <4>1
           DEF PhaseOf, CreatePhase, DeletePhase, UndonePhase, KeyedSteps, ReservedSteps, NewSteps, UndoSteps
      <4> QED BY <4>2, <4>3
    <3>3. CASE q # p
      <4>1. /\ PhaseOf(pc[q], req[q]) /\ OwnerOf(f, req[q]) /\ ControlOf(pc[q], req[q])
            /\ pc'[q] = pc[q] /\ req'[q] = req[q]
        BY <1>3, <1>6, <3>3, Known
      <4>2. CreatePhase(pc[q], req[q])'
        <5>1. req[q].op = "create" => req[q].name \in Names
          BY <4>1 DEF ControlOf
        <5> QED BY <1>4, <2>2, <3>3, <4>1, <5>1 DEF PhaseOf, CreatePhase, Reserved
      <4>3. DeletePhase(req[q])'
        <5>1. \A z \in Requests : req'[z].op = "create" => req[z].op = "create" /\ req'[z].name = req[z].name
          BY <1>3
        <5> QED BY <1>4, <4>1, <5>1 DEF PhaseOf, DeletePhase
      <4>4. UndonePhase(pc[q], req[q])'
        BY <1>4, <4>1 DEF PhaseOf, UndonePhase
      <4> QED BY <4>1, <4>2, <4>3, <4>4 DEF PhaseOf
    <3> QED BY <3>1, <3>2, <3>3
  <2> QED BY <2>3, <2>4, <2>5, <2>6 DEF Clean, OwnerOf
<1>7. CleanInv'
  BY <1>4, <1>6 DEF CleanInv, IInv
<1> QED BY <1>3, <1>5, <1>7 DEF IInv

\* The key is removed, and the request goes on as it was told.
LEMMA UndoNameStep == ASSUME IInv, NEW p \in Requests, UndoName(p) PROVE IInv'
<1> DEFINE r == [req[p] EXCEPT !.uuid = NoUUID]
<1>1. pc[p] = "undoName" /\ RemoveNameKey(req[p].name) /\ UNCHANGED <<store, history, bounds>>
  BY DEF UndoName, At
<1>2. req[p] \in Reqs /\ req \in [Requests -> Reqs] /\ ControlOf("undoName", req[p])
  BY <1>1, Known
<1>3. /\ req[p].then \in {"reserveFresh", "reserveSame", "return"}
      /\ req[p].then # "return" => req[p].op = "create"
  BY <1>2 DEF ControlOf, UndoSteps, Reqs
<1>4. CASE req[p].then = "reserveFresh"
  <2>1. Goto(p, "reserveUUID") /\ req' = [req EXCEPT ![p].uuid = NoUUID]
    BY <1>4 DEF UndoName
  <2>2. /\ r \in Reqs /\ r.op = "create" /\ r.name = req[p].name /\ r.uuid = NoUUID /\ r.held = req[p].held
    BY <1>2, <1>3, <1>4 DEF Reqs
  <2>3. Moves(p, "reserveUUID", r)
    BY <2>1, <2>2 DEF Moves, Goto
  <2> HIDE DEF r
  <2>4. ControlOf("reserveUUID", r)
    BY <1>2, <1>3, <1>4, <2>2 DEF ControlOf, CreateSteps, DeleteSteps, UndoSteps, NamedDelete
  <2> QED BY <1>1, <1>3, <1>4, <2>2, <2>3, <2>4, RemoveKeyStep
<1>5. CASE req[p].then = "reserveSame"
  <2>1. Goto(p, "reserveUUID") /\ req' = req
    BY <1>5 DEF UndoName
  <2>2. Moves(p, "reserveUUID", req[p])
    BY <1>2, <2>1 DEF Moves, Goto
  <2>3. ControlOf("reserveUUID", req[p])
    BY <1>2, <1>3, <1>5 DEF ControlOf, CreateSteps, DeleteSteps, UndoSteps, NamedDelete
  <2> QED BY <1>1, <1>2, <1>3, <1>5, <2>2, <2>3, RemoveKeyStep
<1>6. CASE req[p].then = "return"
  <2>1. Return(p)
    BY <1>6 DEF UndoName
  <2>2. Idle \in Reqs /\ Idle.held = {} /\ Idle.op = "none"
    BY DEF Idle, Reqs, NoID
  <2>3. Moves(p, "idle", Idle)
    BY <2>1, <2>2 DEF Return, Moves
  <2>4. ControlOf("idle", Idle)
    BY <2>2 DEF ControlOf, CreateSteps, DeleteSteps, UndoSteps, NamedDelete
  <2> HIDE DEF Idle
  <2> QED BY <1>1, <2>2, <2>3, <2>4, RemoveKeyStep
<1> QED BY <1>3, <1>4, <1>5, <1>6

-----------------------------------------------------------------------------
(* DeleteVolume *)

\* A deletion that goes on relies on the same of the journal.
LEMMA DeletePhaseKept ==
  ASSUME NEW s0, NEW s, NEW r0, NEW r, PhaseOf(s0, r0), r0.op = "delete",
         r.op = r0.op, r.name = r0.name, r.uuid = r0.uuid, s # "undoName"
  PROVE  PhaseOf(s, r)
  BY DEF PhaseOf, CreatePhase, DeletePhase, UndonePhase

\* What a deletion knows.
LEMMA DeleteKnown ==
  ASSUME IInv, NEW p \in Requests, pc[p] \in DeleteSteps
  PROVE  /\ req[p] \in Reqs /\ req \in [Requests -> Reqs] /\ ControlOf(pc[p], req[p])
         /\ req[p].op = "delete" /\ req[p].uuid \in UUIDs
         /\ \A f : Clean(f) => OwnerOf(f, req[p]) /\ PhaseOf(pc[p], req[p])
         /\ ~ scenario.overlap => \A n \in Names : granted[n] # req[p].uuid
<1>1. /\ req[p] \in Reqs /\ req \in [Requests -> Reqs] /\ ControlOf(pc[p], req[p])
      /\ \A f : Clean(f) => OwnerOf(f, req[p]) /\ PhaseOf(pc[p], req[p])
  BY Known
<1>2. req[p].op = "delete" /\ req[p].uuid \in UUIDs
  BY <1>1 DEF ControlOf
<1>3. ~ scenario.overlap => \E f : Clean(f)
  BY DEF IInv, CleanInv
<1> QED BY <1>1, <1>2, <1>3 DEF PhaseOf, DeletePhase

\* A step from one call of the deletion to the next, that changes images at most.
LEMMA DeleteGoto ==
  ASSUME IInv, NEW p \in Requests, pc[p] \in DeleteSteps, NEW s \in DeleteSteps \cup {"undoUUID"},
         Goto(p, s), UNCHANGED <<req, journal, history, bounds>>,
         s \in NamedDelete \cup {"undoUUID"} => pc[p] \in NamedDelete,
         StoreTypes', \A v \in UUIDs : v # req[p].uuid => images'[v] = images[v]
  PROVE  IInv'
<1>1. /\ req[p] \in Reqs /\ req \in [Requests -> Reqs] /\ ControlOf(pc[p], req[p])
      /\ req[p].op = "delete" /\ req[p].uuid \in UUIDs
      /\ \A f : Clean(f) => OwnerOf(f, req[p]) /\ PhaseOf(pc[p], req[p])
      /\ ~ scenario.overlap => \A n \in Names : granted[n] # req[p].uuid
  BY DeleteKnown
<1>2. ControlOf(s, req[p])
  BY <1>1 DEF ControlOf, CreateSteps, DeleteSteps, UndoSteps, NamedDelete
<1>3. Moves(p, s, req[p])
  BY <1>1 DEF Moves, Goto
<1>4. ~ scenario.overlap => \A n \in Names : granted[n] # NoUUID => images'[granted[n]] # NoID
  BY <1>1, HeldImages
<1>5. UNCHANGED <<journal, servedFor, granted, used, recycled>> /\ abandoned' \subseteq UUIDs
  BY DEF history, IInv, ClusterTypes, HistoryTypes
<1>6. ClusterTypes' /\ Frame(p, req[p])
  BY <1>4, <1>5, ImagesStep
<1>7. ASSUME NEW f, Clean(f) PROVE PhaseOf(s, req[p])
  BY <1>1, <1>7, DeletePhaseKept DEF DeleteSteps
<1> QED BY <1>1, <1>2, <1>3, <1>6, <1>7, FrameStep DEF Steps, UndoSteps

\* The attributes give the name of the request, unless there are none.
LEMMA DelAttributesStep == ASSUME IInv, NEW p \in Requests, DelAttributes(p) PROVE IInv'
<1> DEFINE u == req[p].uuid
           a == uuidDirectory[u]
           s == IF a.imageID = NoID THEN "delStoreID" ELSE "delStat"
           d == [req[p] EXCEPT !.name = a.reqName]
           r == [d EXCEPT !.imageID = a.imageID]
<1>1. /\ pc[p] = "delAttributes" /\ pc[p] \in DeleteSteps
      /\ UNCHANGED <<journal, store, history>> /\ UNCHANGED bounds
  BY DEF DelAttributes, At, DeleteSteps
<1>2. /\ req[p] \in Reqs /\ req \in [Requests -> Reqs] /\ ControlOf("delAttributes", req[p])
      /\ req[p].op = "delete" /\ u \in UUIDs
      /\ \A f : Clean(f) => OwnerOf(f, req[p]) /\ PhaseOf("delAttributes", req[p])
  BY <1>1, DeleteKnown
<1>3. CASE a = NoObject
  BY <1>1, <1>3, QuietReturn DEF DelAttributes
<1>4. CASE a # NoObject
  <2>1. Goto(p, s) /\ req' = [req EXCEPT ![p].name = a.reqName, ![p].imageID = a.imageID]
    BY <1>4 DEF DelAttributes
  <2>2. a.reqName \in Names \cup {NoName} /\ a.imageID \in Nat
    BY <1>2, <1>4 DEF IInv, ClusterTypes, JournalTypeOK, Attributes
  <2>3. d \in Reqs /\ d.op = "delete" /\ d.name = a.reqName /\ d.uuid = u /\ d.held = req[p].held
    BY <1>2, <2>2 DEF Reqs
  <2>4. req' = [req EXCEPT ![p] = r]
    BY <1>2, <2>1
  <2> HIDE DEF d
  <2>5. r \in Reqs /\ r.op = "delete" /\ r.name = a.reqName /\ r.uuid = u /\ r.held = req[p].held
    BY <2>2, <2>3 DEF Reqs
  <2> HIDE DEF r
  <2>6. s \in DeleteSteps /\ s \in Steps /\ s \notin NamedDelete /\ s # "undoName"
    BY DEF Steps, DeleteSteps, NamedDelete
  <2>7. Moves(p, s, r)
    BY <2>1, <2>4, <2>5 DEF Moves, Goto
  <2>8. ControlOf(s, r)
    BY <1>1, <1>2, <2>5, <2>6, DeleteControl
  <2>9. ASSUME NEW f, Clean(f) PROVE OwnerOf(f, r) /\ PhaseOf(s, r)
    <3>1. a.reqName \in Names => f[u] = a.reqName /\ csiDirectory[a.reqName] = u
      BY <1>2, <1>4, <2>9 DEF Clean, OwnerInJournal, KeyOfObject
    <3>2. OwnerOf(f, r)
      BY <2>5, <3>1 DEF OwnerOf
    <3>3. DeletePhase(r)
      BY <1>2, <2>5, <2>9, <3>1 DEF PhaseOf, DeletePhase
    <3> QED BY <2>5, <2>6, <3>2, <3>3 DEF PhaseOf, CreatePhase, UndonePhase
  <2> HIDE DEF s
  <2> QED BY <1>1, <1>2, <2>5, <2>6, <2>7, <2>8, <2>9, QuietStep
<1> QED BY <1>3, <1>4

\* A deletion stores the id of the image as well.
LEMMA DelStoreIDStep == ASSUME Constants, IInv, NEW p \in Requests, DelStoreID(p) PROVE IInv'
<1> DEFINE u == req[p].uuid
           r == [req[p] EXCEPT !.imageID = images[u]]
<1>1. /\ pc[p] = "delStoreID" /\ pc[p] \in DeleteSteps /\ UNCHANGED <<store, history>>
      /\ UNCHANGED bounds
  BY DEF DelStoreID, At, DeleteSteps
<1>2. /\ req[p] \in Reqs /\ req \in [Requests -> Reqs] /\ ControlOf("delStoreID", req[p])
      /\ req[p].op = "delete" /\ u \in UUIDs
      /\ \A f : Clean(f) => OwnerOf(f, req[p]) /\ PhaseOf("delStoreID", req[p])
  BY <1>1, DeleteKnown
<1>3. CASE images[u] = NoID
  <2>1. Goto(p, "delUndoLock") /\ UNCHANGED <<req, journal, history, bounds>>
    BY <1>1, <1>3 DEF DelStoreID
  <2>2. StoreTypes' /\ images' = images
    BY <1>1 DEF IInv, ClusterTypes, StoreTypes, store
  <2> QED BY <1>1, <2>1, <2>2, DeleteGoto DEF DeleteSteps, NamedDelete
<1>4. CASE images[u] # NoID
  <2>1. /\ StoreImageID(u, images[u]) /\ Goto(p, "delStat")
        /\ req' = [req EXCEPT ![p].imageID = images[u]] /\ images[u] \in Nat
    BY <1>2, <1>4 DEF DelStoreID, IInv, ClusterTypes, StoreTypes
  <2>2. r \in Reqs /\ r.op = req[p].op /\ r.name = req[p].name /\ r.uuid = u /\ r.held = req[p].held
    BY <1>2, <2>1 DEF Reqs
  <2>3. Moves(p, "delStat", r)
    BY <2>1, <2>2 DEF Moves, Goto
  <2> HIDE DEF r
  <2>4. ControlOf("delStat", r) /\ "delStat" \in Steps
    <3>1. {"delStoreID", "delStat"} \subseteq DeleteSteps /\ "delStat" \notin NamedDelete /\ "delStat" \in Steps
      BY DEF DeleteSteps, NamedDelete, Steps
    <3> QED BY <1>1, <1>2, <2>2, <3>1, DeleteControl
  <2>5. ASSUME NEW f, Clean(f) PROVE OwnerOf(f, r) /\ PhaseOf("delStat", r)
    <3>1. PhaseOf("delStat", r)
      BY <1>2, <2>2, <2>5, DeletePhaseKept
    <3> QED BY <1>2, <2>2, <2>5, <3>1 DEF OwnerOf
  <2> QED BY <1>1, <1>2, <2>1, <2>2, <2>3, <2>4, <2>5, StoreStep
<1> QED BY <1>3, <1>4

\* The steps that take no lock and read or change images only.
LEMMA DelImagesStep ==
  ASSUME IInv, NEW p \in Requests,
         DelStat(p) \/ DelTrash(p) \/ DelMirror(p) \/ DelInUse(p) \/ DelImage(p) \/ DelRemove(p)
  PROVE  IInv'
<1>1. ASSUME UNCHANGED store PROVE StoreTypes' /\ images' = images
  BY <1>1 DEF IInv, ClusterTypes, StoreTypes, store
<1>2. CASE DelStat(p)
  <2>1. \E s \in {"delTrash", "delLock"} : Goto(p, s)
    BY <1>2 DEF DelStat
  <2>2. pc[p] = "delStat" /\ UNCHANGED <<req, journal, history, bounds>> /\ UNCHANGED store
    BY <1>2 DEF DelStat, At
  <2> QED BY <1>1, <2>1, <2>2, DeleteGoto DEF DeleteSteps, NamedDelete
<1>3. CASE DelTrash(p)
  <2>1. /\ pc[p] = "delTrash" /\ Goto(p, "delUndoLock") /\ UNCHANGED <<req, journal, history, bounds>>
        /\ TrashRemove(req[p].imageID)
    BY <1>3 DEF DelTrash, At
  <2> QED BY <2>1, TrashRemoveTyped, DeleteGoto DEF DeleteSteps, NamedDelete
<1>4. CASE DelMirror(p)
  <2>1. \E s \in {"undoUUID", "delInUse"} : Goto(p, s)
    BY <1>4 DEF DelMirror
  <2>2. pc[p] = "delMirror" /\ UNCHANGED <<req, journal, history, bounds>> /\ UNCHANGED store
    BY <1>4 DEF DelMirror, At
  <2> QED BY <1>1, <2>1, <2>2, DeleteGoto DEF DeleteSteps, NamedDelete
<1>5. CASE DelInUse(p)
  <2>1. pc[p] = "delInUse" /\ UNCHANGED <<journal, store, history, bounds>>
    BY <1>5 DEF DelInUse, At
  <2>2. CASE Goto(p, "delImage") /\ UNCHANGED req
    BY <1>1, <2>1, <2>2, DeleteGoto DEF DeleteSteps, NamedDelete
  <2>3. CASE Return(p)
    BY <2>1, <2>3, QuietReturn
  <2> QED BY <1>5, <2>2, <2>3 DEF DelInUse
<1>6. CASE DelImage(p)
  <2>1. pc[p] = "delImage" /\ UNCHANGED <<journal, history, bounds>>
    BY <1>6 DEF DelImage, At
  <2>2. CASE Return(p) /\ UNCHANGED store
    BY <2>1, <2>2, QuietReturn
  <2>3. CASE TrashImage(req[p].uuid) /\ Goto(p, "delRemove") /\ UNCHANGED req
    <3>1. req[p].uuid \in UUIDs
      BY <2>1, DeleteKnown DEF DeleteSteps
    <3> QED BY <2>1, <2>3, <3>1, TrashImageTyped, DeleteGoto DEF DeleteSteps, NamedDelete
  <2> QED BY <1>6, <2>2, <2>3 DEF DelImage
<1>7. CASE DelRemove(p)
  <2>1. /\ pc[p] = "delRemove" /\ Goto(p, "undoUUID") /\ UNCHANGED <<req, journal, history, bounds>>
        /\ TrashRemove(req[p].imageID)
    BY <1>7 DEF DelRemove, At
  <2> QED BY <2>1, TrashRemoveTyped, DeleteGoto DEF DeleteSteps, NamedDelete
<1> QED BY <1>2, <1>3, <1>4, <1>5, <1>6, <1>7

\* The lock of the request name, with the name that the journal had.
LEMMA LockNameStep ==
  ASSUME IInv, NEW p \in Requests, pc[p] \in DeleteSteps, NEW s \in {"undoUUID", "delMirror"},
         LockName(p, s), UNCHANGED <<journal, store, history, bounds>>
  PROVE  IInv'
<1> DEFINE n == req[p].name
           d == [req[p] EXCEPT !.held = @ \cup {n}]
           r == [d EXCEPT !.then = "return"]
<1>1. /\ req[p] \in Reqs /\ req \in [Requests -> Reqs] /\ ControlOf(pc[p], req[p])
      /\ req[p].op = "delete" /\ req[p].uuid \in UUIDs
      /\ \A f : Clean(f) => OwnerOf(f, req[p]) /\ PhaseOf(pc[p], req[p])
  BY DeleteKnown
<1>2. CASE n \in volumeLocks
  BY <1>2, QuietReturn DEF LockName
<1>3. CASE n \notin volumeLocks
  <2>1. /\ volumeLocks' = volumeLocks \cup {n} /\ pc' = [pc EXCEPT ![p] = s]
        /\ req' = [req EXCEPT ![p].held = @ \cup {n}, ![p].then = "return"]
    BY <1>3 DEF LockName
  <2>2. n \in Names \cup {NoName}
    BY <1>1 DEF Reqs
  <2>3. d \in Reqs /\ d.op = "delete" /\ d.name = n /\ d.uuid = req[p].uuid /\ d.held = req[p].held \cup {n}
    BY <1>1, <2>2 DEF Reqs
  <2>4. req' = [req EXCEPT ![p] = r]
    BY <1>1, <2>1
  <2> HIDE DEF d
  <2>5. /\ r \in Reqs /\ r.op = "delete" /\ r.name = n /\ r.uuid = req[p].uuid
        /\ r.held = req[p].held \cup {n} /\ r.then = "return"
    BY <2>3 DEF Reqs
  <2> HIDE DEF r
  <2>6. Moves(p, s, r)
    BY <1>3, <2>1, <2>2, <2>4, <2>5 DEF Moves
  <2>7. ControlOf(s, r)
    BY <1>1, <2>5 DEF ControlOf, CreateSteps, DeleteSteps, UndoSteps, NamedDelete
  <2>8. ASSUME NEW f, Clean(f) PROVE OwnerOf(f, r) /\ PhaseOf(s, r)
    <3>1. PhaseOf(s, r)
      BY <1>1, <2>5, <2>8, DeletePhaseKept
    <3> QED BY <1>1, <2>5, <2>8, <3>1 DEF OwnerOf
  <2> QED BY <1>1, <2>5, <2>6, <2>7, <2>8, QuietStep DEF Steps, UndoSteps, DeleteSteps
<1> QED BY <1>2, <1>3

\* A deletion takes the lock of the name, or returns.
LEMMA DelLockStep == ASSUME IInv, NEW p \in Requests, DelUndoLock(p) \/ DelLock(p) PROVE IInv'
<1>1. pc[p] \in DeleteSteps /\ UNCHANGED <<journal, store, history, bounds>>
  BY DEF DelUndoLock, DelLock, At, DeleteSteps
<1>2. CASE Return(p)
  BY <1>1, <1>2, QuietReturn
<1>3. CASE \E s \in {"undoUUID", "delMirror"} : LockName(p, s)
  BY <1>1, <1>3, LockNameStep
<1> QED BY <1>2, <1>3 DEF DelUndoLock, DelLock

-----------------------------------------------------------------------------
(* The CO, the cluster and restarts *)

\* A failing call returns and leaves the cluster as it is.
LEMMA CallFailsStep == ASSUME IInv, NEW p \in Requests, CallFails(p) PROVE IInv'
  BY QuietReturn DEF CallFails

\* A creation begins with the lock of its name, and nothing else.
LEMMA CreateVolumeStep ==
  ASSUME IInv, NEW p \in Requests, NEW n \in Names, CreateVolume(p, n)
  PROVE  IInv'
<1> DEFINE c == [Idle EXCEPT !.op = "create"]
           d == [c EXCEPT !.name = n]
           r == [d EXCEPT !.held = {n}]
<1>1. /\ pc[p] = "idle" /\ n \notin volumeLocks /\ volumeLocks' = volumeLocks \cup {n}
      /\ pc' = [pc EXCEPT ![p] = "checkName"] /\ req' = [req EXCEPT ![p] = r]
      /\ UNCHANGED <<journal, store, history>> /\ UNCHANGED bounds
  BY DEF CreateVolume, At
<1>2. c \in Reqs /\ c.op = "create" /\ c.uuid = NoUUID
  BY DEF Idle, Reqs, NoID
<1> HIDE DEF c
<1>3. d \in Reqs /\ d.op = "create" /\ d.name = n /\ d.uuid = NoUUID
  BY <1>2 DEF Reqs
<1> HIDE DEF d
<1>4. /\ r \in Reqs /\ r.op = "create" /\ r.name = n /\ r.uuid = NoUUID /\ r.held = {n}
  BY <1>3 DEF Reqs
<1> HIDE DEF r
<1>5. Moves(p, "checkName", r)
  BY <1>1, <1>4 DEF Moves
<1>6. ControlOf("checkName", r)
  BY <1>4 DEF ControlOf, CreateSteps, DeleteSteps, UndoSteps, NamedDelete
<1>7. /\ RequestInv' /\ pc'[p] = "checkName" /\ req'[p] = r
      /\ \A q \in Requests : q # p => pc'[q] = pc[q] /\ req'[q] = req[q]
  BY <1>4, <1>5, <1>6, MoveStep DEF IInv, Steps, CreateSteps
<1>8. ClusterTypes' /\ scenario' = scenario
  BY <1>1, QuietTypes DEF IInv
<1>9. ASSUME NEW f \in [UUIDs -> Names \cup {NoName}], ~ scenario.overlap, Clean(f)
      PROVE  Clean(f)'
  <2>1. OwnerInJournal(f)' /\ KeyOfObject' /\ Backed'
    BY <1>1, <1>9 DEF Clean, OwnerInJournal, KeyOfObject, Backed, Reserved, journal, store, history
  <2>2. \A q \in Requests : req[q].op = "delete" => servedFor[req[q].uuid] # n
    BY <1>9 DEF CreateVolume, MayOverlap
  <2>3. ASSUME NEW q \in Requests PROVE OwnerOf(f, req'[q]) /\ PhaseOf(pc[q], req[q])'
    <3>1. CASE q = p
      BY <1>4, <1>7, <3>1
         DEF OwnerOf, PhaseOf, CreatePhase, DeletePhase, UndonePhase, KeyedSteps, ReservedSteps, NewSteps,
             UndoSteps
    <3>2. CASE q # p
      <4>1. /\ PhaseOf(pc[q], req[q]) /\ OwnerOf(f, req[q]) /\ pc'[q] = pc[q] /\ req'[q] = req[q]
        BY <1>7, <1>9, <3>2, Known
      <4>2. CreatePhase(pc[q], req[q])' /\ UndonePhase(pc[q], req[q])'
        BY <1>1, <4>1 DEF PhaseOf, CreatePhase, UndonePhase, Reserved, journal, history
      <4>3. DeletePhase(req[q])'
        <5> SUFFICES ASSUME req[q].op = "delete" PROVE DeletePhase(req[q])'
          BY <4>1 DEF DeletePhase
        <5>1. /\ servedFor[req[q].uuid] # NoName
              /\ \A m \in Names : granted[m] # req[q].uuid
              /\ \A z \in Requests : req[z].op = "create" => req[z].name # servedFor[req[q].uuid]
              /\ req[q].name \in Names => csiDirectory[req[q].name] \in {NoUUID, req[q].uuid}
          BY <4>1 DEF PhaseOf, DeletePhase
        <5>2. \A z \in Requests : req'[z].op = "create" => req'[z].name # servedFor[req[q].uuid]
          BY <1>4, <1>7, <2>2, <5>1
        <5> QED BY <1>1, <4>1, <5>1, <5>2 DEF DeletePhase, journal, history
      <4> QED BY <4>1, <4>2, <4>3 DEF PhaseOf
    <3> QED BY <3>1, <3>2
  <2> QED BY <2>1, <2>3 DEF Clean, OwnerOf
<1>10. CleanInv'
  BY <1>8, <1>9 DEF CleanInv, IInv
<1> QED BY <1>7, <1>8, <1>10 DEF IInv

\* From the call on the CO does not hold the volume any more.
LEMMA DeleteVolumeStep ==
  ASSUME IInv, NEW p \in Requests, NEW u \in UUIDs, DeleteVolume(p, u)
  PROVE  IInv'
<1> DEFINE c == [Idle EXCEPT !.op = "delete"]
           d == [c EXCEPT !.uuid = u]
           r == [d EXCEPT !.held = {u}]
<1>1. /\ pc[p] = "idle" /\ u \notin volumeLocks /\ volumeLocks' = volumeLocks \cup {u}
      /\ pc' = [pc EXCEPT ![p] = "delAttributes"] /\ req' = [req EXCEPT ![p] = r]
      /\ servedFor[u] # NoName
      /\ granted' = [n \in Names |-> IF granted[n] = u THEN NoUUID ELSE granted[n]]
      /\ UNCHANGED <<csiDirectory, uuidDirectory, images, trash, nextID, secondary>>
      /\ UNCHANGED <<servedFor, used, recycled, abandoned, faults, crashes, scenario>>
  BY DEF DeleteVolume, At, journal, store, bounds
<1>2. c \in Reqs /\ c.op = "delete" /\ c.name = NoName
  BY DEF Idle, Reqs, NoID
<1> HIDE DEF c
<1>3. d \in Reqs /\ d.op = "delete" /\ d.name = NoName /\ d.uuid = u
  BY <1>2 DEF Reqs
<1> HIDE DEF d
<1>4. /\ r \in Reqs /\ r.op = "delete" /\ r.name = NoName /\ r.uuid = u /\ r.held = {u}
  BY <1>3 DEF Reqs
<1> HIDE DEF r
<1>5. Moves(p, "delAttributes", r)
  BY <1>1, <1>4 DEF Moves
<1>6. ControlOf("delAttributes", r)
  BY <1>4 DEF ControlOf, CreateSteps, DeleteSteps, UndoSteps, NamedDelete
<1>7. /\ RequestInv' /\ pc'[p] = "delAttributes" /\ req'[p] = r
      /\ \A q \in Requests : q # p => pc'[q] = pc[q] /\ req'[q] = req[q]
  BY <1>4, <1>5, <1>6, MoveStep DEF IInv, Steps, DeleteSteps
<1>8. ClusterTypes'
  BY <1>1 DEF IInv, ClusterTypes, JournalTypeOK, StoreTypes, HistoryTypes, BoundTypes
<1>9. ASSUME NEW f \in [UUIDs -> Names \cup {NoName}], ~ scenario.overlap, Clean(f)
      PROVE  Clean(f)'
  <2>1. OwnerInJournal(f)' /\ KeyOfObject' /\ Backed'
    BY <1>1, <1>9 DEF Clean, OwnerInJournal, KeyOfObject, Backed, Reserved
  <2>2. \A q \in Requests : req[q].op = "create" => req[q].name # servedFor[u]
    BY <1>9 DEF DeleteVolume, MayOverlap
  <2>3. \A q \in Requests : req'[q].op = "create" => req[q].op = "create" /\ req'[q].name = req[q].name
    BY <1>4, <1>7
  <2>4. ASSUME NEW q \in Requests PROVE OwnerOf(f, req'[q]) /\ PhaseOf(pc[q], req[q])'
    <3>1. CASE q = p
      <4>1. pc'[q] = "delAttributes" /\ req'[q] = r
        BY <1>7, <3>1
      <4>2. DeletePhase(req[q])'
        BY <1>1, <1>4, <2>2, <2>3, <4>1, NullsDistinct DEF DeletePhase
      <4> QED BY <1>4, <4>1, <4>2, NullsDistinct DEF OwnerOf, PhaseOf, CreatePhase, UndonePhase
    <3>2. CASE q # p
      <4>1. /\ PhaseOf(pc[q], req[q]) /\ OwnerOf(f, req[q]) /\ pc'[q] = pc[q] /\ req'[q] = req[q]
            /\ ControlOf(pc[q], req[q])
        BY <1>7, <1>9, <3>2, Known
      <4>2. CreatePhase(pc[q], req[q])' /\ UndonePhase(pc[q], req[q])'
        BY <1>1, <4>1 DEF PhaseOf, CreatePhase, UndonePhase, Reserved, ControlOf
      <4>3. DeletePhase(req[q])'
        <5> SUFFICES ASSUME req[q].op = "delete" PROVE DeletePhase(req[q])'
          BY <4>1 DEF DeletePhase
        <5>1. /\ servedFor[req[q].uuid] # NoName
              /\ \A m \in Names : granted[m] # req[q].uuid
              /\ \A z \in Requests : req[z].op = "create" => req[z].name # servedFor[req[q].uuid]
              /\ req[q].name \in Names => csiDirectory[req[q].name] \in {NoUUID, req[q].uuid}
          BY <4>1 DEF PhaseOf, DeletePhase
        <5>2. \A z \in Requests : req'[z].op = "create" => req'[z].name # servedFor[req[q].uuid]
          BY <2>3, <5>1
        <5>3. \A m \in Names : granted'[m] # req[q].uuid
          BY <1>1, <4>1, <5>1, NullsDistinct DEF ControlOf
        <5> QED BY <1>1, <4>1, <5>1, <5>2, <5>3 DEF DeletePhase
      <4> QED BY <4>1, <4>2, <4>3 DEF PhaseOf
    <3> QED BY <3>1, <3>2
  <2> QED BY <2>1, <2>4 DEF Clean, OwnerOf
<1>10. CleanInv'
  BY <1>1, <1>9 DEF CleanInv, IInv
<1> QED BY <1>7, <1>8, <1>10 DEF IInv

\* An image becomes a secondary, which no request relies on.
LEMMA DemoteStep == ASSUME IInv, NEW u \in UUIDs, Demote(u) PROVE IInv'
<1>1. /\ secondary' = secondary \cup {u}
      /\ UNCHANGED <<csiDirectory, uuidDirectory, images, trash, nextID, volumeLocks, pc, req>>
      /\ UNCHANGED <<servedFor, granted, used, recycled, abandoned, faults, crashes, scenario>>
  BY DEF Demote, journal, history, bounds
<1>2. ClusterTypes'
  BY <1>1 DEF IInv, ClusterTypes, JournalTypeOK, StoreTypes, HistoryTypes, BoundTypes
<1>3. RequestInv'
  BY <1>1 DEF IInv, RequestInv, RequestTypes, Control, ControlOf, Locked
<1>4. ASSUME NEW f, Clean(f) PROVE Clean(f)'
  BY <1>1, <1>4 DEF Clean, OwnerInJournal, KeyOfObject, Backed, Reserved, OwnerOf, PhaseOf, CreatePhase,
     DeletePhase, UndonePhase
<1>5. CleanInv'
  BY <1>1, <1>4 DEF IInv, CleanInv
<1> QED BY <1>2, <1>3, <1>5 DEF IInv

\* A request that does not run needs nothing.
LEMMA AllIdle ==
  ASSUME volumeLocks = {}, pc = [p \in Requests |-> "idle"], req = [p \in Requests |-> Idle]
  PROVE  RequestInv /\ \A f : \A p \in Requests : OwnerOf(f, req[p]) /\ PhaseOf(pc[p], req[p])
<1>1. Idle \in Reqs /\ Idle.held = {} /\ Idle.op = "none"
  BY DEF Idle, Reqs, NoID
<1>2. ControlOf("idle", Idle)
  BY <1>1 DEF ControlOf, CreateSteps, DeleteSteps, UndoSteps, NamedDelete
<1>3. \A f : OwnerOf(f, Idle) /\ PhaseOf("idle", Idle)
  BY <1>1 DEF OwnerOf, PhaseOf, CreatePhase, DeletePhase, UndonePhase
<1> HIDE DEF Idle
<1>4. RequestTypes /\ Control /\ Locked
  BY <1>1, <1>2 DEF RequestTypes, Control, Locked
<1> QED BY <1>3, <1>4 DEF RequestInv

\* A restart forgets the requests, which takes assumptions away and adds none.
LEMMA CrashStep == ASSUME IInv, Crash PROVE IInv'
<1>1. /\ crashes < scenario.crashes /\ crashes' = crashes + 1 /\ volumeLocks' = {}
      /\ pc' = [p \in Requests |-> "idle"] /\ req' = [p \in Requests |-> Idle]
      /\ UNCHANGED <<csiDirectory, uuidDirectory, images, trash, nextID, secondary>>
      /\ UNCHANGED <<servedFor, granted, used, recycled, abandoned, faults, scenario>>
  BY DEF Crash, journal, store, history
<1>2. Idle \in Reqs /\ Idle.held = {} /\ Idle.op = "none"
  BY DEF Idle, Reqs, NoID
<1>3. scenario.crashes \in Nat
  BY ScenariosTyped DEF IInv, ClusterTypes, BoundTypes
<1>4. ClusterTypes'
  BY <1>1, <1>3 DEF IInv, ClusterTypes, JournalTypeOK, StoreTypes, HistoryTypes, BoundTypes
<1>5. ControlOf("idle", Idle)
  BY <1>2 DEF ControlOf, CreateSteps, DeleteSteps, UndoSteps, NamedDelete
<1>6. \A p \in Requests : pc'[p] = "idle" /\ req'[p] = Idle
  BY <1>1
<1> HIDE DEF Idle
<1>7. RequestTypes' /\ Locked'
  BY <1>1, <1>2 DEF RequestTypes, Locked
<1>8. Control'
  BY <1>5, <1>6 DEF Control, ControlOf
<1>9. ASSUME NEW f, Clean(f) PROVE Clean(f)'
  <2>1. OwnerInJournal(f)' /\ KeyOfObject' /\ Backed'
    BY <1>1, <1>9 DEF Clean, OwnerInJournal, KeyOfObject, Backed, Reserved
  <2>2. ASSUME NEW p \in Requests PROVE OwnerOf(f, req'[p]) /\ PhaseOf(pc[p], req[p])'
    BY <1>2, <1>6 DEF OwnerOf, PhaseOf, CreatePhase, DeletePhase, UndonePhase
  <2> QED BY <2>1, <2>2 DEF Clean, OwnerOf
<1>10. CleanInv'
  BY <1>1, <1>9 DEF IInv, CleanInv
<1> QED BY <1>4, <1>7, <1>8, <1>10 DEF IInv, RequestInv

\* An empty cluster.
LEMMA InitIInv == Init => IInv
<1> SUFFICES ASSUME Init PROVE IInv
  OBVIOUS
<1>1. scenario.faults \in Nat /\ scenario.crashes \in Nat
  BY ScenariosTyped DEF Init
<1>2. ClusterTypes
  BY <1>1 DEF Init, JournalInit, ClusterTypes, JournalTypeOK, StoreTypes, HistoryTypes, BoundTypes, NoID
<1>3. RequestInv /\ \A f : \A p \in Requests : OwnerOf(f, req[p]) /\ PhaseOf(pc[p], req[p])
  BY AllIdle DEF Init
<1>4. PICK f \in [UUIDs -> Names \cup {NoName}] : f = [u \in UUIDs |-> NoName]
  OBVIOUS
<1>5. OwnerInJournal(f) /\ KeyOfObject /\ Backed
  BY <1>4 DEF Init, JournalInit, OwnerInJournal, KeyOfObject, Backed
<1> QED BY <1>2, <1>3, <1>4, <1>5 DEF IInv, CleanInv, Clean

\* Nothing happens.
LEMMA StutterStep == ASSUME IInv, UNCHANGED vars PROVE IInv'
<1>1. /\ UNCHANGED <<csiDirectory, uuidDirectory, images, trash, nextID, secondary, volumeLocks, pc, req>>
      /\ UNCHANGED <<servedFor, granted, used, recycled, abandoned, faults, crashes, scenario>>
  BY DEF vars, journal, store, history, bounds
<1>2. ClusterTypes'
  BY <1>1 DEF IInv, ClusterTypes, JournalTypeOK, StoreTypes, HistoryTypes, BoundTypes
<1>3. RequestInv'
  BY <1>1 DEF IInv, RequestInv, RequestTypes, Control, ControlOf, Locked
<1>4. ASSUME NEW f, Clean(f) PROVE Clean(f)'
  BY <1>1, <1>4 DEF Clean, OwnerInJournal, KeyOfObject, Backed, Reserved, OwnerOf, PhaseOf, CreatePhase,
     DeletePhase, UndonePhase
<1>5. CleanInv'
  BY <1>1, <1>4 DEF IInv, CleanInv
<1> QED BY <1>2, <1>3, <1>5 DEF IInv

\* Every step keeps the inductive invariant.
LEMMA NextIInv == ASSUME Constants, IInv, [Next]_vars PROVE IInv'
<1>1. ASSUME NEW p \in Requests, Step(p) PROVE IInv'
  BY <1>1, CheckNameStep, GetAttributesStep, StatImageStep, RepairImageIDStep, RepairMetadataStep,
     ReserveUUIDStep, ReserveNameKeyStep, ReserveAttributesStep, CreateImageStep, StoreIDStep,
     SetMetadataStep, RollbackTrashStep, RollbackRemoveStep, UndoUUIDStep, UndoNameStep,
     DelAttributesStep, DelStoreIDStep, DelImagesStep, DelLockStep, CallFailsStep DEF Step
<1> QED BY <1>1, CreateVolumeStep, DeleteVolumeStep, DemoteStep, CrashStep, StutterStep DEF Next

-----------------------------------------------------------------------------
(* The theorems *)

\* The invariant, in every behaviour.
LEMMA Invariant == ASSUME Constants PROVE Spec => []IInv
<1>1. Init => IInv
  BY InitIInv
<1>2. IInv /\ [Next]_vars => IInv'
  BY NextIInv
<1> QED BY <1>1, <1>2, PTL DEF Spec

\* Every variable of the provisioner and of the cluster keeps its type.
THEOREM Typed == ASSUME Constants PROVE Spec => []TypeOK
<1>1. IInv => TypeOK
  BY DEF IInv, ClusterTypes, StoreTypes, HistoryTypes, BoundTypes, RequestInv, RequestTypes, TypeOK
<1> QED BY <1>1, Invariant, PTL

\* Whatever the CO, failing calls and restarts do, as long as the CO does not
\* ask for the creation of a volume that it deletes: what CreateVolume handed
\* out and the CO did not ask to be deleted keeps its image, its attributes and
\* its name key.
THEOREM GrantsBacked == ASSUME Constants PROVE Spec => []GrantBacked
<1>1. IInv => GrantBacked
  BY DEF IInv, CleanInv, Clean, Backed, GrantBacked
<1> QED BY <1>1, Invariant, PTL

\* Only two steps change the key of a name.
LEMMA KeyChanges ==
  ASSUME Next, csiDirectory' # csiDirectory
  PROVE  \E p \in Requests : ReserveNameKey(p) \/ UndoName(p)
<1>1. ASSUME NEW p \in Requests, Step(p), ~ ReserveNameKey(p), ~ UndoName(p)
      PROVE  csiDirectory' = csiDirectory
  BY <1>1 DEF Step, CheckName, GetAttributes, StatImage, RepairImageID, RepairMetadata, ReserveUUID,
     ReserveAttributes, CreateImage, StoreID, SetMetadata, RollbackTrash, RollbackRemove, UndoUUID,
     DelAttributes, DelStoreID, DelStat, DelTrash, DelUndoLock, DelLock, DelMirror, DelInUse, DelImage,
     DelRemove, CallFails, journal, CreateUUIDObject, SetAttributes, StoreImageID, RemoveUUIDObject
<1>2. ASSUME NEW p \in Requests, NEW n \in Names, CreateVolume(p, n) PROVE csiDirectory' = csiDirectory
  BY <1>2 DEF CreateVolume, journal
<1>3. ASSUME NEW p \in Requests, NEW u \in UUIDs, DeleteVolume(p, u) PROVE csiDirectory' = csiDirectory
  BY <1>3 DEF DeleteVolume, journal
<1>4. ASSUME NEW u \in UUIDs, Demote(u) PROVE csiDirectory' = csiDirectory
  BY <1>4 DEF Demote, journal
<1>5. ASSUME Crash PROVE csiDirectory' = csiDirectory
  BY <1>5 DEF Crash, journal
<1> QED BY <1>1, <1>2, <1>3, <1>4, <1>5 DEF Next

\* In every environment, with overlapping requests too: the key of a request
\* name changes only while the lock of the name is taken.
THEOREM NameKeyChangesLocked == ASSUME Constants PROVE Spec => NameKeyUnderLock
<1> DEFINE Change == \A n \in Names : csiDirectory'[n] # csiDirectory[n] => n \in volumeLocks
<1>1. IInv /\ [Next]_vars => [Change]_vars
  <2> SUFFICES ASSUME IInv, Next, NEW n \in Names, csiDirectory'[n] # csiDirectory[n]
               PROVE  n \in volumeLocks
    OBVIOUS
  <2>1. PICK p \in Requests : ReserveNameKey(p) \/ UndoName(p)
    BY KeyChanges
  <2>2. /\ csiDirectory \in [Names -> UUIDs \cup {NoUUID}] /\ ControlOf(pc[p], req[p])
        /\ req[p].held \subseteq volumeLocks
    BY Known DEF IInv, ClusterTypes, JournalTypeOK, RequestInv, Locked
  <2>3. req[p].name \in volumeLocks
    BY <2>1, <2>2 DEF ControlOf, ReserveNameKey, UndoName, At, CreateSteps, UndoSteps
  <2>4. n = req[p].name
    BY <2>1, <2>2 DEF ReserveNameKey, UndoName, SetNameKey, RemoveNameKey
  <2> QED BY <2>3, <2>4
<1>2. Spec => [][Change]_vars
  BY <1>1, Invariant, PTL DEF Spec
<1> QED BY <1>2 DEF NameKeyUnderLock
=============================================================================
