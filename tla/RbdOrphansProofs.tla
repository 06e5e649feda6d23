-------------------------- MODULE RbdOrphansProofs --------------------------
(***************************************************************************)
(* No image of the RBD driver is without a journal, for any names, UUIDs,  *)
(* requests, failing calls and restarts.  The invariant says at which      *)
(* steps of a request the image is known to be gone; that it stays so      *)
(* until the attributes are removed needs the owner of the UUID, from      *)
(* RbdVolumesInvariant.tla: nobody else creates the image meanwhile.       *)
(***************************************************************************)
EXTENDS RbdVolumesProofs

-----------------------------------------------------------------------------
(* Images without a journal *)

\* The image is not there, or the driver or the mirror let it go.
Gone(u) == images[u] = NoID \/ u \in abandoned \cup secondary

\* Steps that follow the removal of the image, or come before its creation.
GoneSteps == {"reserveUUID", "reserveName", "reserveAttrs", "createImage", "rollbackRemove",
              "delTrash", "delUndoLock", "delRemove"} \cup UndoSteps

Orphans == ~ scenario.overlap =>
    /\ \A u \in UUIDs : uuidDirectory[u] = NoObject \/ u \notin used => Gone(u)
    /\ \A p \in Requests : pc[p] \in GoneSteps /\ req[p].uuid \in UUIDs => Gone(req[p].uuid)

\* A step that makes no image and removes no attributes.
GoneKept == /\ \A u \in UUIDs : Gone(u) => Gone(u)'
            /\ \A u \in UUIDs : uuidDirectory'[u] = NoObject => uuidDirectory[u] = NoObject
            /\ used \subseteq used'
GoneNow(u) == Gone(u) \/ images'[u] = NoID \/ u \in abandoned'

\* A step of one request that makes no image and removes no attributes.
LEMMA OrphansStep ==
  ASSUME IInv, Orphans, NEW p \in Requests, NEW s, NEW r, GoneKept, scenario' = scenario,
         pc' = [pc EXCEPT ![p] = s], req' = [req EXCEPT ![p] = r],
         ~ scenario.overlap /\ s \in GoneSteps /\ r.uuid \in UUIDs => GoneNow(r.uuid)
  PROVE  Orphans'
<1> SUFFICES ASSUME ~ scenario.overlap PROVE Orphans'
  BY DEF Orphans
<1>1. pc'[p] = s /\ req'[p] = r /\ \A q \in Requests : q # p => pc'[q] = pc[q] /\ req'[q] = req[q]
  BY Known
<1>2. \A u \in UUIDs : uuidDirectory'[u] = NoObject \/ u \notin used' => Gone(u)'
  BY DEF Orphans, GoneKept
<1>3. ASSUME NEW q \in Requests, pc'[q] \in GoneSteps, req'[q].uuid \in UUIDs PROVE GoneNow(req'[q].uuid)
  BY <1>1, <1>3 DEF Orphans, GoneNow
<1>4. ASSUME NEW q \in Requests, pc'[q] \in GoneSteps, req'[q].uuid \in UUIDs PROVE Gone(req[q].uuid)'
  <2>1. PICK u \in UUIDs : u = req'[q].uuid
    BY <1>4
  <2>2. Gone(u)'
    BY <1>3, <1>4, <2>1 DEF GoneKept, GoneNow, Gone
  <2> QED BY <2>1, <2>2 DEF Gone
<1> QED BY <1>2, <1>4 DEF Orphans

\* Nothing of the cluster changes.
LEMMA QuietGone ==
  ASSUME UNCHANGED <<journal, store, history>>
  PROVE  GoneKept
  BY DEF GoneKept, Gone, journal, store, history

\* The driver gives up on an image, or the image goes to the trash.
LEMMA LessImages ==
  ASSUME IInv, uuidDirectory' = uuidDirectory, used \subseteq used', abandoned \subseteq abandoned',
         secondary \subseteq secondary', \A u \in UUIDs : images'[u] \in {images[u], NoID}
  PROVE  GoneKept
  BY DEF GoneKept, Gone

\* A request that returns expects nothing any more.
LEMMA ReturnGone ==
  ASSUME IInv, Orphans, NEW p \in Requests, Return(p), GoneKept, scenario' = scenario
  PROVE  Orphans'
<1>1. "idle" \notin GoneSteps
  BY DEF GoneSteps, UndoSteps
<1> QED BY <1>1, OrphansStep DEF Return

\* UndoReservation begins for an image that is gone.
LEMMA UndoGone ==
  ASSUME IInv, Orphans, NEW p \in Requests, NEW t, Undo(p, t), GoneKept, scenario' = scenario,
         ~ scenario.overlap /\ req[p].uuid \in UUIDs => GoneNow(req[p].uuid)
  PROVE  Orphans'
<1> DEFINE r == [req[p] EXCEPT !.then = t]
<1>1. req[p] \in Reqs
  BY Known
<1>2. r.uuid = req[p].uuid
  BY <1>1 DEF Reqs
<1>3. pc' = [pc EXCEPT ![p] = "undoUUID"] /\ req' = [req EXCEPT ![p] = r]
  BY DEF Undo, Goto
<1> HIDE DEF r
<1> QED BY <1>2, <1>3, OrphansStep

\* A request goes on; what it expects to be gone is gone, or was before.
LEMMA GotoGone ==
  ASSUME IInv, Orphans, NEW p \in Requests, NEW s, Goto(p, s), UNCHANGED req, GoneKept, scenario' = scenario,
         ~ scenario.overlap /\ s \in GoneSteps /\ req[p].uuid \in UUIDs =>
             GoneNow(req[p].uuid) \/ pc[p] \in GoneSteps
  PROVE  Orphans'
<1>1. pc' = [pc EXCEPT ![p] = s] /\ req' = [req EXCEPT ![p] = req[p]]
  BY Known DEF Goto
<1>2. ~ scenario.overlap /\ s \in GoneSteps /\ req[p].uuid \in UUIDs => GoneNow(req[p].uuid)
  BY DEF Orphans, GoneNow
<1> QED BY <1>1, <1>2, OrphansStep

\* CreateVolume.  Only CreateImage makes an image, of a UUID that nobody else
\* has and whose reservation is complete.
LEMMA NewImageGone ==
  ASSUME IInv, Orphans, NEW p \in Requests, pc[p] = "createImage", NewImage(req[p].uuid),
         NEW s \in {"storeID", "undoUUID"}, NEW r, UNCHANGED <<journal, used>>, scenario' = scenario,
         pc' = [pc EXCEPT ![p] = s], req' = [req EXCEPT ![p] = r], r.uuid = req[p].uuid,
         abandoned \subseteq abandoned', s = "undoUUID" => req[p].uuid \in abandoned'
  PROVE  Orphans'
<1> DEFINE u == req[p].uuid
<1> SUFFICES ASSUME ~ scenario.overlap PROVE Orphans'
  BY DEF Orphans
<1> PICK f : Clean(f)
  BY DEF IInv, CleanInv
<1>1. /\ req[p].op = "create" /\ req[p].name \in Names /\ u \in UUIDs /\ f[u] = req[p].name
      /\ PhaseOf("createImage", req[p])
  BY NewVolume DEF NewSteps
<1>2. /\ uuidDirectory[u] # NoObject /\ u \in used
  BY <1>1, NullsDistinct DEF PhaseOf, CreatePhase, ReservedSteps, Reserved, Clean, OwnerInJournal
<1>3. \A v \in UUIDs : v # u /\ Gone(v) => Gone(v)'
  BY DEF NewImage, Gone, IInv, ClusterTypes, StoreTypes
<1>4. pc'[p] = s /\ req'[p] = r /\ \A q \in Requests : q # p => pc'[q] = pc[q] /\ req'[q] = req[q]
  BY Known
<1>5. \A v \in UUIDs : uuidDirectory'[v] = NoObject \/ v \notin used' => Gone(v)'
  BY <1>2, <1>3 DEF Orphans, journal
<1>6. ASSUME NEW q \in Requests, pc'[q] \in GoneSteps, req'[q].uuid \in UUIDs PROVE Gone(req[q].uuid)'
  <2>1. CASE q = p
    <3>1. s = "undoUUID"
      BY <1>4, <1>6, <2>1 DEF GoneSteps, UndoSteps
    <3> QED BY <1>4, <2>1, <3>1 DEF Gone
  <2>2. CASE q # p
    <3>1. /\ pc[q] \in GoneSteps /\ req[q].uuid \in UUIDs /\ req'[q] = req[q]
          /\ ControlOf(pc[q], req[q]) /\ OwnerOf(f, req[q]) /\ PhaseOf(pc[q], req[q])
      BY <1>4, <1>6, <2>2, Known
    <3>2. req[q].op \in {"create", "delete"}
      BY <3>1 DEF ControlOf, GoneSteps, CreateSteps, DeleteSteps, UndoSteps
    <3>3. req[q].uuid # u
      <4>1. CASE req[q].op = "create"
        BY <1>1, <2>2, <3>1, <4>1, OneRequest, NullsDistinct DEF IInv, OwnerOf
      <4>2. CASE req[q].op = "delete"
        BY <1>1, <3>1, <4>2 DEF PhaseOf, DeletePhase, Clean, OwnerInJournal
      <4> QED BY <3>2, <4>1, <4>2
    <3>4. PICK v \in UUIDs : v = req[q].uuid
      BY <3>1
    <3>5. Gone(v)'
      BY <1>3, <3>1, <3>3, <3>4 DEF Orphans
    <3> QED BY <3>1, <3>4, <3>5 DEF Gone
  <2> QED BY <2>1, <2>2
<1> QED BY <1>5, <1>6 DEF Orphans

\* The image is made when its journal is complete, and given up before it is undone.
LEMMA CreateImageGone == ASSUME IInv, Orphans, NEW p \in Requests, CreateImage(p) PROVE Orphans'
<1> DEFINE u == req[p].uuid
           r == [req[p] EXCEPT !.then = "return"]
<1>1. pc[p] = "createImage" /\ pc[p] \in GoneSteps /\ UNCHANGED journal
  BY DEF CreateImage, At, GoneSteps
<1>2. req[p] \in Reqs /\ req \in [Requests -> Reqs]
  BY Known
<1>3. CASE NewImage(u) /\ Goto(p, "storeID") /\ UNCHANGED <<req, history, bounds>>
  <2>1. /\ pc' = [pc EXCEPT ![p] = "storeID"] /\ req' = [req EXCEPT ![p] = req[p]] /\ abandoned' = abandoned
        /\ used' = used /\ scenario' = scenario
    BY <1>2, <1>3 DEF Goto, history, bounds
  <2> QED BY <1>1, <1>3, <2>1, NewImageGone
<1>4. CASE (Fault \/ UNCHANGED bounds) /\ Undo(p, "return") /\ UNCHANGED <<store, history>>
  <2>1. GoneKept /\ scenario' = scenario
    BY <1>1, <1>4, QuietGone DEF Fault, bounds
  <2> QED BY <1>1, <1>4, <2>1, UndoGone DEF Orphans, GoneNow
<1>5. CASE /\ Fault /\ NewImage(u) /\ Undo(p, "return") /\ abandoned' = abandoned \cup {u}
           /\ UNCHANGED <<servedFor, granted, used, recycled>>
  <2>1. pc' = [pc EXCEPT ![p] = "undoUUID"] /\ req' = [req EXCEPT ![p] = r] /\ scenario' = scenario
    BY <1>5 DEF Undo, Goto, Fault
  <2>2. r.uuid = u
    BY <1>2 DEF Reqs
  <2> HIDE DEF r
  <2> QED BY <1>1, <1>5, <2>1, <2>2, NewImageGone
<1> QED BY <1>3, <1>4, <1>5 DEF CreateImage

\* Storing an id removes no attributes.
LEMMA StoreGone ==
  ASSUME Constants, IInv, NEW u \in UUIDs, NEW id \in Nat, StoreImageID(u, id), UNCHANGED <<store, history>>
  PROVE  GoneKept
<1>1. NamesKept
  BY StoreTyped DEF IInv
<1>2. \A v \in UUIDs : uuidDirectory'[v] = NoObject => uuidDirectory[v] = NoObject
  BY <1>1 DEF NamesKept
<1> QED BY <1>2 DEF GoneKept, Gone, store, history

\* A step that changes the image id of the request, and goes where no image is
\* expected to be gone.
LEMMA ImageIDGone ==
  ASSUME IInv, Orphans, NEW p \in Requests, NEW s, NEW id \in Nat, Goto(p, s), s \notin GoneSteps,
         req' = [req EXCEPT ![p].imageID = id], GoneKept, scenario' = scenario
  PROVE  Orphans'
<1>1. pc' = [pc EXCEPT ![p] = s] /\ req' = [req EXCEPT ![p] = [req[p] EXCEPT !.imageID = id]]
  BY DEF Goto
<1> QED BY <1>1, OrphansStep

\* The first reads of CreateVolume.
LEMMA ReadGone ==
  ASSUME Constants, IInv, Orphans, NEW p \in Requests,
         CheckName(p) \/ GetAttributes(p) \/ StatImage(p) \/ RepairImageID(p)
  PROVE  Orphans'
<1> DEFINE u == req[p].uuid
<1>0. /\ req[p] \in Reqs /\ req \in [Requests -> Reqs] /\ ControlOf(pc[p], req[p])
      /\ pc[p] \in CreateSteps
  BY Known DEF CheckName, GetAttributes, StatImage, RepairImageID, At, CreateSteps
<1>1. CASE CheckName(p)
  <2>1. pc[p] = "checkName" /\ u = NoUUID /\ GoneKept /\ scenario' = scenario
    BY <1>0, <1>1, QuietGone DEF CheckName, At, ControlOf, bounds
  <2>2. CASE Goto(p, "reserveUUID") /\ UNCHANGED req
    BY <2>1, <2>2, GotoGone, NullsDistinct
  <2>3. CASE Goto(p, "getAttributes") /\ req' = [req EXCEPT ![p].uuid = csiDirectory[req[p].name]]
    <3>1. /\ pc' = [pc EXCEPT ![p] = "getAttributes"] /\ "getAttributes" \notin GoneSteps
          /\ req' = [req EXCEPT ![p] = [req[p] EXCEPT !.uuid = csiDirectory[req[p].name]]]
      BY <2>3 DEF Goto, GoneSteps, UndoSteps
    <3> QED BY <2>1, <3>1, OrphansStep
  <2> QED BY <1>1, <2>2, <2>3 DEF CheckName
<1>2. CASE GetAttributes(p)
  <2>1. pc[p] = "getAttributes" /\ u \in UUIDs /\ GoneKept /\ scenario' = scenario
    BY <1>0, <1>2, QuietGone DEF GetAttributes, At, ControlOf, CreateSteps, bounds
  <2>2. CASE ObjectMissing(u) /\ Undo(p, "reserveFresh")
    BY <2>1, <2>2, UndoGone DEF Orphans, GoneNow, ObjectMissing
  <2>3. CASE Return(p)
    BY <2>1, <2>3, ReturnGone
  <2>4. CASE /\ ~ ObjectMissing(u) /\ Goto(p, "statImage")
             /\ req' = [req EXCEPT ![p].imageID = uuidDirectory[u].imageID]
    <3>1. uuidDirectory[u].imageID \in Nat
      BY <2>1, <2>4 DEF IInv, ClusterTypes, JournalTypeOK, Attributes, ObjectMissing
    <3> QED BY <2>1, <2>4, <3>1, ImageIDGone DEF GoneSteps, UndoSteps
  <2> QED BY <1>2, <2>2, <2>3, <2>4 DEF GetAttributes
<1>3. CASE StatImage(p)
  <2>1. GoneKept /\ scenario' = scenario
    BY <1>3, LessImages DEF StatImage, journal, store, bounds
  <2>2. CASE images[u] = NoID
    BY <1>3, <2>1, <2>2, UndoGone DEF StatImage, Gone, GoneNow
  <2>3. CASE images[u] # NoID
    <3>1. Goto(p, "repairID") /\ UNCHANGED req /\ "repairID" \notin GoneSteps
      BY <1>3, <2>3 DEF StatImage, GoneSteps, UndoSteps
    <3> QED BY <2>1, <3>1, GotoGone
  <2> QED BY <2>2, <2>3
<1>4. CASE RepairImageID(p)
  <2>1. /\ pc[p] = "repairID" /\ u \in UUIDs /\ images[u] \in Nat /\ scenario' = scenario
        /\ UNCHANGED <<store, history>> /\ "repairMeta" \notin GoneSteps
    BY <1>0, <1>4 DEF RepairImageID, At, ControlOf, CreateSteps, bounds, IInv, ClusterTypes, StoreTypes,
       GoneSteps, UndoSteps
  <2>2. CASE Goto(p, "repairMeta") /\ UNCHANGED <<journal, req>>
    BY <2>1, <2>2, QuietGone, GotoGone
  <2>3. CASE /\ StoreImageID(u, images[u]) /\ Goto(p, "repairMeta")
             /\ req' = [req EXCEPT ![p].imageID = images[u]]
    BY <2>1, <2>3, StoreGone, ImageIDGone
  <2>4. CASE Return(p) /\ UNCHANGED journal
    BY <2>1, <2>4, QuietGone, ReturnGone
  <2> QED BY <1>4, <2>2, <2>3, <2>4 DEF RepairImageID
<1> QED BY <1>1, <1>2, <1>3, <1>4

\* The rest of CreateVolume.
LEMMA ReserveGone ==
  ASSUME Constants, IInv, Orphans, NEW p \in Requests,
         RepairMetadata(p) \/ ReserveUUID(p) \/ ReserveNameKey(p) \/ ReserveAttributes(p)
  PROVE  Orphans'
<1> DEFINE u == req[p].uuid
<1>0. /\ req[p] \in Reqs /\ req \in [Requests -> Reqs] /\ ControlOf(pc[p], req[p])
      /\ pc[p] \in CreateSteps
  BY Known DEF RepairMetadata, ReserveUUID, ReserveNameKey, ReserveAttributes, At, CreateSteps
<1>1. CASE RepairMetadata(p)
  <2>1. UNCHANGED <<journal, store, used, abandoned, bounds>> /\ Return(p)
    BY <1>1 DEF RepairMetadata, Grant, history
  <2>2. GoneKept /\ scenario' = scenario
    BY <2>1, LessImages DEF journal, store, bounds
  <2> QED BY <2>1, <2>2, ReturnGone
<1>2. CASE ReserveUUID(p)
  <2>1. pc[p] = "reserveUUID" /\ pc[p] \in GoneSteps /\ UNCHANGED <<store, bounds>> /\ scenario' = scenario
    BY <1>2 DEF ReserveUUID, At, GoneSteps, bounds
  <2>2. ASSUME NEW v \in UUIDs, CreateUUIDObject(v), used \subseteq used', abandoned' = abandoned
        PROVE  GoneKept
    <3>1. NamesKept
      BY <2>2, CreateObjectTyped DEF IInv
    <3> QED BY <2>1, <2>2, <3>1 DEF GoneKept, Gone, NamesKept, store
  <2>3. CASE u # NoUUID /\ CreateUUIDObject(u) /\ Goto(p, "reserveName") /\ UNCHANGED <<req, history>>
    <3>1. u \in UUIDs
      BY <1>0, <2>3 DEF Reqs
    <3>2. GoneKept
      BY <2>2, <2>3, <3>1 DEF history
    <3> QED BY <2>1, <2>3, <3>2, GotoGone
  <2>4. CASE \E v \in FreshUUIDs :
               /\ u = NoUUID /\ CreateUUIDObject(v) /\ Goto(p, "reserveName")
               /\ req' = [req EXCEPT ![p].uuid = v] /\ used' = used \cup {v}
               /\ UNCHANGED <<servedFor, granted, recycled, abandoned>>
    <3> PICK v \in FreshUUIDs :
               /\ CreateUUIDObject(v) /\ Goto(p, "reserveName")
               /\ req' = [req EXCEPT ![p].uuid = v] /\ used' = used \cup {v} /\ abandoned' = abandoned
      BY <2>4
    <3> DEFINE r == [req[p] EXCEPT !.uuid = v]
    <3>1. v \in UUIDs /\ v \notin used
      BY DEF FreshUUIDs
    <3>2. r.uuid = v
      BY <1>0 DEF Reqs
    <3>3. pc' = [pc EXCEPT ![p] = "reserveName"] /\ req' = [req EXCEPT ![p] = r]
      BY DEF Goto
    <3> HIDE DEF r
    <3>4. ~ scenario.overlap => GoneNow(v)
      BY <3>1 DEF Orphans, GoneNow
    <3>5. GoneKept
      BY <2>2, <3>1
    <3> QED BY <2>1, <3>2, <3>3, <3>4, <3>5, OrphansStep
  <2>5. CASE Return(p) /\ UNCHANGED <<journal, history>>
    BY <2>1, <2>5, QuietGone, ReturnGone
  <2> QED BY <1>2, <2>3, <2>4, <2>5 DEF ReserveUUID
<1>3. CASE ReserveNameKey(p)
  <2>1. /\ pc[p] = "reserveName" /\ pc[p] \in GoneSteps /\ Goto(p, "reserveAttrs") /\ UNCHANGED req
        /\ UNCHANGED <<uuidDirectory, store, history>> /\ scenario' = scenario
    BY <1>3 DEF ReserveNameKey, SetNameKey, At, GoneSteps, bounds
  <2>2. GoneKept
    BY <2>1, LessImages DEF store, history
  <2> QED BY <2>1, <2>2, GotoGone
<1>4. CASE ReserveAttributes(p)
  <2>1. /\ pc[p] = "reserveAttrs" /\ pc[p] \in GoneSteps /\ u \in UUIDs /\ req[p].name \in Names
        /\ UNCHANGED <<store, history>> /\ scenario' = scenario
    BY <1>0, <1>4 DEF ReserveAttributes, At, GoneSteps, ControlOf, CreateSteps, bounds, Fault
  <2>2. ASSUME SetAttributes(u, req[p].name, NoUUID) PROVE GoneKept
    BY <2>1, <2>2, SetAttributesTyped DEF IInv, GoneKept, Gone, store, history
  <2>3. CASE SetAttributes(u, req[p].name, NoUUID) /\ Goto(p, "createImage") /\ UNCHANGED req
    BY <2>1, <2>2, <2>3, GotoGone
  <2>4. CASE Undo(p, "return") /\ UNCHANGED journal
    BY <2>1, <2>4, QuietGone, UndoGone DEF Orphans, GoneNow
  <2>5. CASE SetAttributes(u, req[p].name, NoUUID) /\ Return(p)
    BY <2>1, <2>2, <2>5, ReturnGone
  <2> QED BY <1>4, <2>3, <2>4, <2>5 DEF ReserveAttributes
<1> QED BY <1>1, <1>2, <1>3, <1>4

\* The rollback removes the image, or gives it up, before the reservation.
LEMMA RollbackGone ==
  ASSUME Constants, IInv, Orphans, NEW p \in Requests,
         StoreID(p) \/ SetMetadata(p) \/ RollbackTrash(p) \/ RollbackRemove(p)
  PROVE  Orphans'
<1> DEFINE u == req[p].uuid
           id == CurrentImageID(p)
<1>0. /\ req[p] \in Reqs /\ req \in [Requests -> Reqs] /\ pc[p] \in CreateSteps /\ u \in UUIDs
      /\ images \in [UUIDs -> Nat] /\ scenario' = scenario
  BY NewVolume DEF StoreID, SetMetadata, RollbackTrash, RollbackRemove, At, NewSteps, IInv, ClusterTypes,
     StoreTypes, bounds, Fault, ImageGone
<1>1. id \in Nat
  BY <1>0 DEF CurrentImageID, Reqs
<1>2. CASE StoreID(p)
  <2>1. UNCHANGED <<store, history>> /\ req' = [req EXCEPT ![p].imageID = id]
    BY <1>2 DEF StoreID
  <2>2. \E s \in {"setMeta", "rollbackTrash"} : Goto(p, s)
    BY <1>2 DEF StoreID
  <2>3. StoreImageID(u, id) \/ UNCHANGED journal
    BY <1>2 DEF StoreID
  <2>4. GoneKept
    BY <1>0, <1>1, <2>1, <2>3, StoreGone, QuietGone
  <2> QED BY <1>0, <1>1, <2>1, <2>2, <2>4, ImageIDGone DEF GoneSteps, UndoSteps
<1>3. CASE SetMetadata(p)
  <2>1. UNCHANGED <<journal, store, used, abandoned>>
    BY <1>3 DEF SetMetadata, Grant, history
  <2>2. GoneKept
    BY <2>1, LessImages DEF journal, store
  <2>3. CASE Return(p)
    BY <1>0, <2>2, <2>3, ReturnGone
  <2>4. CASE Goto(p, "rollbackTrash") /\ UNCHANGED req
    BY <1>0, <2>2, <2>4, GotoGone DEF GoneSteps, UndoSteps
  <2> QED BY <1>3, <2>3, <2>4 DEF SetMetadata
<1>4. CASE RollbackTrash(p)
  <2>1. CASE /\ TrashImage(u) /\ Goto(p, "rollbackRemove") /\ UNCHANGED <<journal, history>>
             /\ req' = [req EXCEPT ![p].imageID = id]
    <3> DEFINE r == [req[p] EXCEPT !.imageID = id]
    <3>1. GoneKept /\ GoneNow(u)
      BY <1>0, <2>1, LessImages DEF TrashImage, journal, history, GoneNow
    <3>2. r.uuid = u
      BY <1>0 DEF Reqs
    <3>3. pc' = [pc EXCEPT ![p] = "rollbackRemove"] /\ req' = [req EXCEPT ![p] = r]
      BY <2>1 DEF Goto
    <3> HIDE DEF r
    <3> QED BY <1>0, <3>1, <3>2, <3>3, OrphansStep
  <2>2. CASE Abandon(u) /\ Undo(p, "return") /\ UNCHANGED store /\ UNCHANGED journal
    <3>1. GoneKept /\ GoneNow(u)
      BY <2>2, LessImages DEF Abandon, journal, store, GoneNow
    <3> QED BY <1>0, <2>2, <3>1, UndoGone
  <2> QED BY <1>4, <2>1, <2>2 DEF RollbackTrash
<1>5. CASE RollbackRemove(p)
  <2>1. /\ pc[p] = "rollbackRemove" /\ pc[p] \in GoneSteps /\ Undo(p, "return") /\ UNCHANGED journal
        /\ images' = images /\ secondary' = secondary /\ used' = used /\ abandoned \subseteq abandoned'
    BY <1>5 DEF RollbackRemove, At, GoneSteps, TrashRemove, Abandon, store, history
  <2>2. GoneKept
    BY <2>1, LessImages DEF journal
  <2> QED BY <1>0, <2>1, <2>2, UndoGone DEF Orphans, GoneNow
<1> QED BY <1>2, <1>3, <1>4, <1>5

\* UndoReservation: the attributes go after the image.
LEMMA UndoneGone == ASSUME IInv, Orphans, NEW p \in Requests, UndoUUID(p) \/ UndoName(p) PROVE Orphans'
<1> DEFINE u == req[p].uuid
<1>0. /\ req[p] \in Reqs /\ req \in [Requests -> Reqs] /\ ControlOf(pc[p], req[p])
      /\ pc[p] \in UndoSteps /\ UNCHANGED <<store, history>> /\ scenario' = scenario
  BY Known DEF UndoUUID, UndoName, At, UndoSteps, bounds
<1>1. u \in UUIDs /\ pc[p] \in GoneSteps /\ (~ scenario.overlap => Gone(u))
  BY <1>0 DEF ControlOf, GoneSteps, Orphans
<1>2. CASE UndoUUID(p)
  <2> SUFFICES ASSUME ~ scenario.overlap PROVE Orphans'
    BY <1>0 DEF Orphans
  <2>1. \A v \in UUIDs : Gone(v)' <=> Gone(v)
    BY <1>0 DEF Gone, store, history
  <2>2. used' = used /\ req' = req /\ \A v \in UUIDs : v # u => uuidDirectory'[v] = uuidDirectory[v]
    BY <1>0, <1>1, <1>2 DEF UndoUUID, RemoveUUIDObject, IInv, ClusterTypes, JournalTypeOK, history
  <2>3. \A v \in UUIDs : uuidDirectory'[v] = NoObject \/ v \notin used' => Gone(v)'
    BY <1>1, <2>1, <2>2 DEF Orphans
  <2>4. \A q \in Requests : pc'[q] \in GoneSteps => pc[q] \in GoneSteps
    BY <1>1, <1>2, Known DEF UndoUUID, Goto
  <2>5. ASSUME NEW q \in Requests, pc'[q] \in GoneSteps, req'[q].uuid \in UUIDs PROVE Gone(req[q].uuid)'
    <3>1. Gone(req[q].uuid)
      BY <2>2, <2>4, <2>5 DEF Orphans
    <3> QED BY <1>0, <2>2, <3>1 DEF Gone, store, history
  <2> QED BY <2>3, <2>5 DEF Orphans
<1>3. CASE UndoName(p)
  <2>1. GoneKept
    BY <1>0, <1>3, LessImages DEF UndoName, RemoveNameKey, store, history
  <2>2. req[p].then \in {"reserveFresh", "reserveSame", "return"}
    BY <1>0 DEF ControlOf, Reqs
  <2>3. CASE req[p].then = "reserveFresh"
    <3> DEFINE r == [req[p] EXCEPT !.uuid = NoUUID]
    <3>1. pc' = [pc EXCEPT ![p] = "reserveUUID"] /\ req' = [req EXCEPT ![p] = r]
      BY <1>3, <2>3 DEF UndoName, Goto
    <3>2. r.uuid \notin UUIDs
      BY <1>0, NullsDistinct DEF Reqs
    <3> HIDE DEF r
    <3> QED BY <1>0, <2>1, <3>1, <3>2, OrphansStep
  <2>4. CASE req[p].then = "reserveSame"
    BY <1>0, <1>1, <1>3, <2>1, <2>4, GotoGone DEF UndoName
  <2>5. CASE req[p].then = "return"
    BY <1>0, <1>3, <2>1, <2>5, ReturnGone DEF UndoName
  <2> QED BY <2>2, <2>3, <2>4, <2>5
<1> QED BY <1>2, <1>3

\* DeleteVolume: the attributes are undone for an image that is not in the pool,
\* that went to the trash, or that is a secondary.
LEMMA DeleteGone ==
  ASSUME Constants, IInv, Orphans, NEW p \in Requests,
         \/ DelAttributes(p) \/ DelStoreID(p) \/ DelStat(p) \/ DelTrash(p) \/ DelUndoLock(p)
         \/ DelLock(p) \/ DelMirror(p) \/ DelInUse(p) \/ DelImage(p) \/ DelRemove(p)
  PROVE  Orphans'
<1> DEFINE u == req[p].uuid
<1>0. pc[p] \in DeleteSteps /\ UNCHANGED history /\ scenario' = scenario
  BY DEF DelAttributes, DelStoreID, DelStat, DelTrash, DelUndoLock, DelLock, DelMirror, DelInUse, DelImage,
     DelRemove, At, DeleteSteps, bounds
<1>1. req[p] \in Reqs /\ req \in [Requests -> Reqs] /\ u \in UUIDs /\ images \in [UUIDs -> Nat]
  BY <1>0, DeleteKnown DEF IInv, ClusterTypes, StoreTypes
<1>2. CASE DelAttributes(p)
  <2> DEFINE a == uuidDirectory[u]
             r == [req[p] EXCEPT !.name = a.reqName, !.imageID = a.imageID]
  <2>1. GoneKept
    BY <1>2, QuietGone DEF DelAttributes
  <2>2. CASE Return(p)
    BY <1>0, <2>1, <2>2, ReturnGone
  <2>3. CASE /\ Goto(p, IF a.imageID = NoID THEN "delStoreID" ELSE "delStat")
             /\ req' = [req EXCEPT ![p].name = a.reqName, ![p].imageID = a.imageID]
    <3> DEFINE s == IF a.imageID = NoID THEN "delStoreID" ELSE "delStat"
    <3>1. s \notin GoneSteps
      BY DEF GoneSteps, UndoSteps
    <3>2. pc' = [pc EXCEPT ![p] = s] /\ req' = [req EXCEPT ![p] = r]
      BY <2>3 DEF Goto
    <3> HIDE DEF s, r
    <3> QED BY <1>0, <2>1, <3>1, <3>2, OrphansStep
  <2> QED BY <1>2, <2>2, <2>3 DEF DelAttributes
<1>3. CASE DelStoreID(p)
  <2>1. UNCHANGED <<store, history>>
    BY <1>3 DEF DelStoreID
  <2>2. CASE images[u] = NoID
    <3>1. Goto(p, "delUndoLock") /\ UNCHANGED <<journal, req>> /\ GoneNow(u)
      BY <1>3, <2>2 DEF DelStoreID, GoneNow, Gone
    <3> QED BY <1>0, <2>1, <3>1, QuietGone, GotoGone
  <2>3. CASE images[u] # NoID
    <3>1. /\ StoreImageID(u, images[u]) /\ Goto(p, "delStat") /\ images[u] \in Nat
          /\ req' = [req EXCEPT ![p].imageID = images[u]] /\ "delStat" \notin GoneSteps
      BY <1>1, <1>3, <2>3 DEF DelStoreID, GoneSteps, UndoSteps
    <3> QED BY <1>0, <1>1, <2>1, <3>1, StoreGone, ImageIDGone
  <2> QED BY <2>2, <2>3
<1>4. CASE DelStat(p)
  <2>1. GoneKept /\ UNCHANGED req
    BY <1>4, QuietGone DEF DelStat
  <2>2. CASE images[u] = NoID
    <3>1. Goto(p, "delTrash") /\ GoneNow(u)
      BY <1>4, <2>2 DEF DelStat, GoneNow, Gone
    <3> QED BY <1>0, <2>1, <3>1, GotoGone
  <2>3. CASE images[u] # NoID
    <3>1. Goto(p, "delLock") /\ "delLock" \notin GoneSteps
      BY <1>4, <2>3 DEF DelStat, GoneSteps, UndoSteps
    <3> QED BY <1>0, <2>1, <3>1, GotoGone
  <2> QED BY <2>2, <2>3
<1>5. CASE DelTrash(p)
  <2>1. /\ pc[p] \in GoneSteps /\ Goto(p, "delUndoLock") /\ UNCHANGED <<journal, req>>
        /\ images' = images /\ secondary' = secondary
    BY <1>5 DEF DelTrash, At, GoneSteps, TrashRemove
  <2>2. GoneKept
    BY <1>0, <2>1, LessImages DEF journal, history
  <2> QED BY <1>0, <2>1, <2>2, GotoGone
<1>6. CASE DelUndoLock(p) \/ DelLock(p)
  <2>1. GoneKept
    BY <1>6, QuietGone DEF DelUndoLock, DelLock
  <2>2. CASE Return(p)
    BY <1>0, <2>1, <2>2, ReturnGone
  <2>3. ASSUME NEW s, LockName(p, s), s \in GoneSteps => pc[p] \in GoneSteps PROVE Orphans'
    <3> DEFINE c == [req[p] EXCEPT !.held = @ \cup {req[p].name}]
               r == [c EXCEPT !.then = "return"]
    <3>1. CASE Return(p)
      BY <2>2, <3>1
    <3>2. CASE /\ pc' = [pc EXCEPT ![p] = s]
               /\ req' = [req EXCEPT ![p].held = @ \cup {req[p].name}, ![p].then = "return"]
      <4>1. c.uuid = u /\ c \in Reqs
        BY <1>1 DEF Reqs
      <4>2. req' = [req EXCEPT ![p] = r]
        BY <1>1, <3>2
      <4> HIDE DEF c
      <4>3. r.uuid = u
        BY <4>1 DEF Reqs
      <4> HIDE DEF r
      <4>4. ~ scenario.overlap /\ s \in GoneSteps => GoneNow(u)
        BY <1>1, <2>3 DEF Orphans, GoneNow
      <4> QED BY <1>0, <2>1, <3>2, <4>2, <4>3, <4>4, OrphansStep
    <3> QED BY <2>3, <3>1, <3>2 DEF LockName
  <2>4. "delUndoLock" \in GoneSteps /\ "delMirror" \notin GoneSteps
    BY DEF GoneSteps, UndoSteps
  <2> QED BY <1>6, <2>2, <2>3, <2>4 DEF DelUndoLock, DelLock, At
<1>7. CASE DelMirror(p)
  <2>1. GoneKept /\ UNCHANGED req
    BY <1>7, QuietGone DEF DelMirror
  <2>2. CASE u \in secondary
    <3>1. Goto(p, "undoUUID") /\ GoneNow(u)
      BY <1>7, <2>2 DEF DelMirror, GoneNow, Gone
    <3> QED BY <1>0, <2>1, <3>1, GotoGone
  <2>3. CASE u \notin secondary
    <3>1. Goto(p, "delInUse") /\ "delInUse" \notin GoneSteps
      BY <1>7, <2>3 DEF DelMirror, GoneSteps, UndoSteps
    <3> QED BY <1>0, <2>1, <3>1, GotoGone
  <2> QED BY <2>2, <2>3
<1>8. CASE DelInUse(p)
  <2>1. GoneKept /\ "delImage" \notin GoneSteps
    BY <1>8, QuietGone DEF DelInUse, GoneSteps, UndoSteps
  <2> QED BY <1>0, <1>8, <2>1, GotoGone, ReturnGone DEF DelInUse
<1>9. CASE DelImage(p)
  <2>1. CASE Return(p) /\ UNCHANGED store
    BY <1>0, <1>9, <2>1, QuietGone, ReturnGone DEF DelImage
  <2>2. CASE TrashImage(u) /\ Goto(p, "delRemove") /\ UNCHANGED req
    <3>1. GoneKept /\ GoneNow(u)
      BY <1>0, <1>1, <1>9, <2>2, LessImages DEF DelImage, TrashImage, journal, history, GoneNow
    <3> QED BY <1>0, <2>2, <3>1, GotoGone
  <2> QED BY <1>9, <2>1, <2>2 DEF DelImage
<1>10. CASE DelRemove(p)
  <2>1. /\ pc[p] \in GoneSteps /\ Goto(p, "undoUUID") /\ UNCHANGED <<journal, req>>
        /\ images' = images /\ secondary' = secondary
    BY <1>10 DEF DelRemove, At, GoneSteps, TrashRemove
  <2>2. GoneKept
    BY <1>0, <2>1, LessImages DEF journal, history
  <2> QED BY <1>0, <2>1, <2>2, GotoGone
<1> QED BY <1>2, <1>3, <1>4, <1>5, <1>6, <1>7, <1>8, <1>9, <1>10

\* The CO, the cluster and restarts.
LEMMA OtherGone ==
  ASSUME IInv, Orphans,
         \/ \E p \in Requests : \/ \E n \in Names : CreateVolume(p, n)
                                \/ \E u \in UUIDs : DeleteVolume(p, u)
                                \/ CallFails(p)
         \/ \E u \in UUIDs : Demote(u)
         \/ Crash
         \/ UNCHANGED vars
  PROVE  Orphans'
<1>0. "checkName" \notin GoneSteps /\ "delAttributes" \notin GoneSteps /\ "idle" \notin GoneSteps
  BY DEF GoneSteps, UndoSteps
<1>1. ASSUME NEW p \in Requests, NEW n \in Names, CreateVolume(p, n) PROVE Orphans'
  <2> DEFINE r == [Idle EXCEPT !.op = "create", !.name = n, !.held = {n}]
  <2>1. GoneKept /\ scenario' = scenario
    BY <1>1, QuietGone DEF CreateVolume, bounds
  <2>2. pc' = [pc EXCEPT ![p] = "checkName"] /\ req' = [req EXCEPT ![p] = r]
    BY <1>1 DEF CreateVolume
  <2> HIDE DEF r
  <2> QED BY <1>0, <2>1, <2>2, OrphansStep
<1>2. ASSUME NEW p \in Requests, NEW u \in UUIDs, DeleteVolume(p, u) PROVE Orphans'
  <2> DEFINE r == [Idle EXCEPT !.op = "delete", !.uuid = u, !.held = {u}]
  <2>1. GoneKept /\ scenario' = scenario
    BY <1>2, LessImages DEF DeleteVolume, journal, store, bounds
  <2>2. pc' = [pc EXCEPT ![p] = "delAttributes"] /\ req' = [req EXCEPT ![p] = r]
    BY <1>2 DEF DeleteVolume
  <2> HIDE DEF r
  <2> QED BY <1>0, <2>1, <2>2, OrphansStep
<1>3. ASSUME NEW p \in Requests, CallFails(p) PROVE Orphans'
  <2>1. GoneKept /\ scenario' = scenario /\ Return(p)
    BY <1>3, QuietGone DEF CallFails, Fault
  <2> QED BY <2>1, ReturnGone
<1>4. ASSUME GoneKept, scenario' = scenario,
             \A q \in Requests : pc'[q] \in GoneSteps => pc'[q] = pc[q] /\ req'[q] = req[q]
      PROVE  Orphans'
  <2> SUFFICES ASSUME ~ scenario.overlap PROVE Orphans'
    BY <1>4 DEF Orphans
  <2>1. \A v \in UUIDs : uuidDirectory'[v] = NoObject \/ v \notin used' => Gone(v)'
    BY <1>4 DEF Orphans, GoneKept
  <2>2. ASSUME NEW q \in Requests, pc'[q] \in GoneSteps, req'[q].uuid \in UUIDs PROVE Gone(req[q].uuid)'
    <3>1. PICK v \in UUIDs : v = req[q].uuid /\ v = req'[q].uuid
      BY <1>4, <2>2
    <3>2. Gone(v)'
      BY <1>4, <2>2, <3>1 DEF Orphans, GoneKept
    <3> QED BY <3>1, <3>2 DEF Gone
  <2> QED BY <2>1, <2>2 DEF Orphans
<1>5. ASSUME NEW u \in UUIDs, Demote(u) PROVE Orphans'
  <2>1. GoneKept /\ scenario' = scenario /\ pc' = pc /\ req' = req
    BY <1>5, LessImages DEF Demote, journal, history, bounds
  <2> QED BY <1>4, <2>1
<1>6. ASSUME Crash PROVE Orphans'
  <2>1. GoneKept /\ scenario' = scenario /\ \A q \in Requests : pc'[q] = "idle"
    BY <1>6, QuietGone DEF Crash
  <2> QED BY <1>0, <1>4, <2>1
<1>7. ASSUME UNCHANGED vars PROVE Orphans'
  <2>1. GoneKept /\ scenario' = scenario /\ pc' = pc /\ req' = req
    BY <1>7, QuietGone DEF vars, bounds
  <2> QED BY <1>4, <2>1
<1> QED BY <1>1, <1>2, <1>3, <1>5, <1>6, <1>7

\* Every step keeps the invariant.
LEMMA NextOrphans == ASSUME Constants, IInv, Orphans, [Next]_vars PROVE Orphans'
<1>1. ASSUME NEW p \in Requests, Step(p) PROVE Orphans'
  BY <1>1, ReadGone, ReserveGone, CreateImageGone, RollbackGone, UndoneGone, DeleteGone, OtherGone DEF Step
<1> QED BY <1>1, OtherGone DEF Next

\* As long as the CO does not ask for the creation of a volume that it deletes:
\* every image has attributes in the journal that a DeleteVolume can find it by,
\* except where a failing rollback of CreateVolume gave up on it, or where it is
\* the secondary of a mirror.
THEOREM ImagesInJournal == ASSUME Constants PROVE Spec => []NoOrphanImage
<1>1. Init => Orphans
  BY DEF Init, Orphans, Gone, GoneSteps, UndoSteps
<1>2. IInv /\ Orphans /\ [Next]_vars => Orphans'
  BY NextOrphans
<1>3. Orphans => NoOrphanImage
  BY DEF Orphans, Gone, NoOrphanImage
<1> QED BY <1>1, <1>2, <1>3, Invariant, PTL DEF Spec
=============================================================================
