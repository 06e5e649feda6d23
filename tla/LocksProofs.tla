----------------------------- MODULE LocksProofs -----------------------------
(***************************************************************************)
(* What the locks of internal/util guarantee: those of one process, which  *)
(* keep the operations of a provisioner apart (OperationLocks), and the    *)
(* exclusive lock of RADOS, which keeps the nodes apart that rotate the    *)
(* passphrase of a volume (KeyRotation).                                   *)
(***************************************************************************)
EXTENDS OperationLocks, KeyRotation, FiniteSetTheorems, TLAPS

-----------------------------------------------------------------------------
(* The safety properties of OperationLocks for any number of requests and  *)
(* ids.  That conflicting operations exclude each other rests on the       *)
(* counters being exact, and for the operations that are flags the         *)
(* exactness rests on the ids of the IDLocker having one owner.            *)

\* The requests that run an operation on an id form a finite set.
LEMMA HoldersFinite == \A o, i : IsFiniteSet(Holders(o, i))
  BY CallersFinite, FS_Subset DEF Holders

\* A key is absent exactly if its operation does not run.
LEMMA CountZero ==
  ASSUME LocksAreHolders
  PROVE  \A o \in Operations, i \in IDs :
            /\ locks[o][i] \in Nat
            /\ locks[o][i] = 0 <=> Holders(o, i) = {}
  BY HoldersFinite, FS_EmptySet, FS_CardinalityType DEF LocksAreHolders

\* The matrix lists every exclusion in the row of either operation.
LEMMA MatrixComplete ==
  ASSUME NEW o \in Operations, NEW p \in Operations, MutuallyExclusive(o, p)
  PROVE  p \in Conflicts(o) /\ o \in Conflicts(p)
<1>1. CASE {o, p} = {"expand", "modify"}
  <2>1. \/ o = "expand" /\ p = "modify"
        \/ o = "modify" /\ p = "expand"
        \/ o = p
    BY <1>1
  <2>2. o # p
    BY <1>1
  <2> QED
    BY <2>1, <2>2 DEF Conflicts
<1> QED
  BY <1>1 DEF MutuallyExclusive, Conflicts, Operations, Counted, Flagged

\* All maps are empty and no request runs (NewOperationLock, NewIDLocker).
LEMMA InitIInv == Init => IInv
<1> SUFFICES ASSUME Init PROVE IInv
  OBVIOUS
<1>1. TypeOK
  BY DEF Init, NewOperationLock, TypeOK, Operations, Counted, Flagged, Places
<1>2. LocksAreHolders
  <2>1. \A o \in Operations, i \in IDs : Holders(o, i) = {}
    BY DEF Init, Holders
  <2> QED
    BY <2>1, FS_EmptySet DEF Init, NewOperationLock, LocksAreHolders
<1>3. IDOwned /\ NoConflict
  BY DEF Init, IDOwned, NoConflict, Busy
<1> QED
  BY <1>1, <1>2, <1>3 DEF IInv

\* A step that changes neither the counters nor who holds what.
LEMMA SameHolders ==
  ASSUME LocksAreHolders, locks' = locks,
         \A o \in Operations, i \in IDs : Holders(o, i)' = Holders(o, i)
  PROVE  LocksAreHolders'
  BY DEF LocksAreHolders

\* IDLocker.TryAcquire keeps the inductive invariant.
LEMMA TryAcquireIDStep ==
  ASSUME IInv, NEW c \in Callers, NEW o \in Operations, NEW i \in IDs, TryAcquireID(c, o, i)
  PROVE  IInv'
<1> USE DEF IInv
<1>1. TypeOK'
  BY DEF TryAcquireID, TypeOK, Places
<1>2. LocksAreHolders'
  <2>1. \A q \in Operations, j \in IDs : Holders(q, j)' = Holders(q, j)
    BY DEF TryAcquireID, Holders, TypeOK
  <2> QED
    BY <2>1, SameHolders DEF TryAcquireID
<1>3. IDOwned'
  BY DEF TryAcquireID, TypeOK, IDOwned, Busy
<1>4. NoConflict'
  BY DEF TryAcquireID, TypeOK, NoConflict
<1> QED
  BY <1>1, <1>2, <1>3, <1>4

\* OperationLock.tryAcquire keeps the inductive invariant.
LEMMA TryAcquireStep ==
  ASSUME IInv, NEW c \in Callers, TryAcquire(c)
  PROVE  IInv'
<1> USE DEF IInv
<1>0. PICK o \in Operations, i \in IDs : o = op[c] /\ i = id[c]
  BY DEF TypeOK
<1>a. locks[o] \in [IDs -> Int] /\ Taken(o, locks[o][i]) \in Int
  BY DEF TypeOK, Taken
<1>1. TypeOK'
  BY <1>0, <1>a DEF TryAcquire, TypeOK, Places
<1>2. Holders(o, i)' = Holders(o, i) \cup {c} /\ c \notin Holders(o, i)
  BY <1>0 DEF TryAcquire, Holders, TypeOK
<1>3. ASSUME NEW q \in Operations, NEW j \in IDs, q # o \/ j # i
      PROVE  Holders(q, j)' = Holders(q, j) /\ locks'[q][j] = locks[q][j]
  BY <1>0, <1>3 DEF TryAcquire, Holders, TypeOK
<1>4. locks'[o][i] = Cardinality(Holders(o, i)')
  <2>1. locks'[o][i] = Taken(o, locks[o][i])
    BY <1>0, <1>a DEF TryAcquire, TypeOK
  <2>2. Cardinality(Holders(o, i)') = locks[o][i] + 1
    BY <1>2, HoldersFinite, FS_AddElement DEF LocksAreHolders
  <2>3. CASE o \in Counted
    BY <2>1, <2>2, <2>3 DEF Taken
  <2>4. CASE o \in Flagged
    <3>1. Holders(o, i) = {}
      BY <1>0, <2>4 DEF Holders, IDOwned, Busy, TryAcquire
    <3>2. locks[o][i] = 0
      BY <3>1, CountZero
    <3> QED
      BY <2>1, <2>2, <2>4, <3>2 DEF Taken, Flagged, Counted
  <2> QED
    BY <2>3, <2>4 DEF Operations
<1>5. LocksAreHolders'
  BY <1>3, <1>4 DEF LocksAreHolders
<1>6. IDOwned'
  BY DEF TryAcquire, TypeOK, IDOwned, Busy
<1>7. ASSUME NEW d \in Callers, pc[d] = "holding", id[d] = i
      PROVE  ~ MutuallyExclusive(o, op[d]) /\ ~ MutuallyExclusive(op[d], o)
  <2>1. PICK q \in Operations : q = op[d]
    BY DEF TypeOK
  <2>2. locks[q][i] # 0
    BY <1>7, <2>1, CountZero DEF Holders
  <2>3. q \notin Conflicts(o)
    BY <1>0, <2>2 DEF TryAcquire, Blocked
  <2> QED
    BY <2>1, <2>3, MatrixComplete
<1>8. ~ MutuallyExclusive(o, o)
  BY DEF MutuallyExclusive
<1>9. NoConflict'
  BY <1>0, <1>7, <1>8 DEF TryAcquire, TypeOK, NoConflict
<1> QED
  BY <1>1, <1>5, <1>6, <1>9

\* OperationLock.release keeps the inductive invariant.
LEMMA ReleaseStep ==
  ASSUME IInv, NEW c \in Callers, Release(c)
  PROVE  IInv'
<1> USE DEF IInv
<1>0. PICK o \in Operations, i \in IDs : o = op[c] /\ i = id[c]
  BY DEF TypeOK
<1>a. locks[o] \in [IDs -> Int] /\ locks[o][i] \in Int
  BY DEF TypeOK
<1>1. TypeOK'
  BY <1>0, <1>a DEF Release, TypeOK, Places
<1>2. Holders(o, i)' = Holders(o, i) \ {c} /\ c \in Holders(o, i)
  BY <1>0 DEF Release, Holders, TypeOK
<1>3. ASSUME NEW q \in Operations, NEW j \in IDs, q # o \/ j # i
      PROVE  Holders(q, j)' = Holders(q, j) /\ locks'[q][j] = locks[q][j]
  BY <1>0, <1>3 DEF Release, Holders, TypeOK
<1>4. locks'[o][i] = Cardinality(Holders(o, i)')
  <2>1. locks[o][i] # 0
    BY <1>2, CountZero
  <2>2. locks'[o][i] = locks[o][i] - 1
    BY <1>0, <1>a, <2>1 DEF Release, TypeOK
  <2>3. locks[o][i] = Cardinality(Holders(o, i))
    BY DEF LocksAreHolders
  <2>4. Cardinality(Holders(o, i) \ {c}) = Cardinality(Holders(o, i)) - 1
    BY <1>2, HoldersFinite, FS_RemoveElement
  <2> QED
    BY <1>2, <2>2, <2>3, <2>4
<1>5. LocksAreHolders'
  BY <1>3, <1>4 DEF LocksAreHolders
<1>6. IDOwned'
  BY DEF Release, TypeOK, IDOwned, Busy
<1>7. NoConflict'
  BY DEF Release, TypeOK, NoConflict
<1> QED
  BY <1>1, <1>5, <1>6, <1>7

\* Every step of a request keeps the inductive invariant.
LEMMA StepIInv == IInv /\ [Next]_vars => IInv'
<1> SUFFICES ASSUME IInv, [Next]_vars PROVE IInv'
  OBVIOUS
<1> USE DEF IInv
<1>1. ASSUME NEW c \in Callers, TryAcquireFails(c)
      PROVE  IInv'
  <2>1. \A q \in Operations, j \in IDs : Holders(q, j)' = Holders(q, j)
    BY <1>1 DEF TryAcquireFails, Holders, TypeOK
  <2>2. LocksAreHolders'
    BY <1>1, <2>1, SameHolders DEF TryAcquireFails
  <2>3. TypeOK' /\ IDOwned' /\ NoConflict'
    BY <1>1 DEF TryAcquireFails, TypeOK, Places, IDOwned, Busy, NoConflict
  <2> QED
    BY <2>2, <2>3
<1>2. ASSUME NEW c \in Callers, ReleaseID(c)
      PROVE  IInv'
  <2>1. \A q \in Operations, j \in IDs : Holders(q, j)' = Holders(q, j)
    BY <1>2 DEF ReleaseID, Holders, TypeOK
  <2>2. LocksAreHolders'
    BY <1>2, <2>1, SameHolders DEF ReleaseID
  <2>3. TypeOK' /\ NoConflict'
    BY <1>2 DEF ReleaseID, TypeOK, Places, NoConflict
  <2>4. IDOwned'
    BY <1>2 DEF ReleaseID, TypeOK, IDOwned, Busy
  <2> QED
    BY <2>2, <2>3, <2>4
<1>3. CASE UNCHANGED vars
  BY <1>3 DEF vars, TypeOK, LocksAreHolders, Holders, IDOwned, Busy, NoConflict
<1> QED
  BY <1>1, <1>2, <1>3, TryAcquireIDStep, TryAcquireStep, ReleaseStep DEF Next

\* The inductive invariant holds in every reachable state.
THEOREM IInvHolds == Spec => []IInv
  BY InitIInv, StepIInv, PTL DEF Spec

\* Two operations that exclude each other never run on one volume, for any
\* number of requests (conflictMatrix, tryAcquire).
THEOREM ConflictsExcluded == Spec => []NoConflict
<1>1. IInv => NoConflict
  BY DEF IInv
<1> QED
  BY <1>1, IInvHolds, PTL

\* The counters and flags of the OperationLock are the operations that run.
THEOREM CountsExact == Spec => []LocksAreHolders
<1>1. IInv => LocksAreHolders
  BY DEF IInv
<1> QED
  BY <1>1, IInvHolds, PTL

-----------------------------------------------------------------------------
(* The rotation of a passphrase never locks a volume and never brings an   *)
(* old passphrase back, for any set of nodes and any number of rotations.  *)
(*                                                                         *)
(* Neither property is inductive.  RotationInv says what is in the slots   *)
(* and in the KMS at each step of the one rotation that has the lock, and  *)
(* NewIsFresh that a generated passphrase differs from all before it.      *)

\* A passphrase exists, and the null owner is not a node.
Constants == MaxKeys \in Nat \ {0} /\ NoOne \notin Rotators

\* A volume that was encrypted and never rotated.
LEMMA RotationInitIInv == ASSUME Constants, RotationInit PROVE RotationIInv
  BY DEF Constants, RotationInit, RotationIInv, RotationTypeOK, KmsKeyOpens, RevokedStaysOut, RotationInv,
         NewIsFresh, Active, OpensAny, Opens, NoKey, Passphrases, RotatorPlaces

\* Only the owner of the lock is active: a rotation works undisturbed.
LEMMA OneActive ==
  ASSUME RotationInv, NEW r \in Rotators, NEW s \in Rotators, Active(r), Active(s)
  PROVE  r = s
  BY DEF RotationInv

\* LockExclusive succeeds when nobody is active, and changes neither slots nor KMS.
LEMMA LockStep ==
  ASSUME Constants, RotationIInv, NEW r \in Rotators, LockExclusive(r)
  PROVE  RotationIInv'
  BY DEF Constants, RotationIInv, RotationTypeOK, KmsKeyOpens, RevokedStaysOut, RotationInv, NewIsFresh,
         Active, OpensAny, Opens, LockExclusive, RotatorGoto, RotatorPlaces, NoKey

\* Fetch reads the current passphrase from the KMS.
LEMMA FetchStep ==
  ASSUME Constants, RotationIInv, NEW r \in Rotators, Fetch(r)
  PROVE  RotationIInv'
  BY DEF Constants, RotationIInv, RotationTypeOK, KmsKeyOpens, RevokedStaysOut, RotationInv, NewIsFresh,
         Active, OpensAny, Opens, Fetch, RotatorGoto, RotatorPlaces, NoKey, Passphrases

\* The generated passphrase is larger than all before it.
LEMMA GenerateStep ==
  ASSUME Constants, RotationIInv, NEW r \in Rotators, GenerateKey(r)
  PROVE  RotationIInv'
  BY DEF Constants, RotationIInv, RotationTypeOK, KmsKeyOpens, RevokedStaysOut, RotationInv, NewIsFresh,
         Active, OpensAny, Opens, GenerateKey, RotatorPlaces, NoKey, Passphrases

\* The new passphrase is in slot 0 when the KMS gets it.
LEMMA StoreStep ==
  ASSUME Constants, RotationIInv, NEW r \in Rotators, StoreKey(r)
  PROVE  RotationIInv'
  BY DEF Constants, RotationIInv, RotationTypeOK, KmsKeyOpens, RevokedStaysOut, RotationInv, NewIsFresh,
         Active, OpensAny, Opens, StoreKey, RotatorGoto, RotatorPlaces, NoKey, Passphrases

\* A step that fails leaves slots and KMS alone.
LEMMA FailStep ==
  ASSUME Constants, RotationIInv, NEW r \in Rotators, StepFails(r)
  PROVE  RotationIInv'
  BY DEF Constants, RotationIInv, RotationTypeOK, KmsKeyOpens, RevokedStaysOut, RotationInv, NewIsFresh,
         Active, OpensAny, Opens, StepFails, RotatorGoto, RotatorPlaces, NoKey

\* Unlock ends a rotation that is not active any more.
LEMMA UnlockStep ==
  ASSUME Constants, RotationIInv, NEW r \in Rotators, Unlock(r)
  PROVE  RotationIInv'
  BY DEF Constants, RotationIInv, RotationTypeOK, KmsKeyOpens, RevokedStaysOut, RotationInv, NewIsFresh,
         Active, OpensAny, Opens, Unlock, Forget, RotatorPlaces, NoKey, Passphrases

\* A restart forgets the rotation, at whatever step it was.
LEMMA CrashStep ==
  ASSUME Constants, RotationIInv, NEW r \in Rotators, Crash(r)
  PROVE  RotationIInv'
  BY DEF Constants, RotationIInv, RotationTypeOK, KmsKeyOpens, RevokedStaysOut, RotationInv, NewIsFresh,
         Active, OpensAny, Opens, Crash, Forget, RotatorPlaces, NoKey, Passphrases

\* The old passphrase leaves slot 1; the one in the KMS is in slot 0.
LEMMA RemoveStep ==
  ASSUME Constants, RotationIInv, NEW r \in Rotators, RemoveOld(r)
  PROVE  RotationIInv'
<1> USE DEF RotationIInv, Constants
<1>1. /\ rotatorPC[r] = "remove" /\ Active(r) /\ slots[0] = new[r] /\ kms = new[r]
      /\ new[r] # NoKey /\ new[r] # old[r]
  BY DEF RemoveOld, RotationInv, NewIsFresh, Active, RotatorPlaces
<1>2. /\ slots' = [slots EXCEPT ![1] = NoKey] /\ revoked' = revoked \cup {old[r]}
      /\ rotatorPC' = [rotatorPC EXCEPT ![r] = "unlock"]
      /\ UNCHANGED <<kms, owner, generated, old, new>>
  BY <1>1 DEF RemoveOld, MayKill, RotatorGoto, RotationTypeOK, NoKey
<1>3. slots'[0] = kms' /\ slots'[1] = NoKey
  BY <1>1, <1>2 DEF RotationTypeOK
<1>4. RotationTypeOK'
  <2>1. old[r] \in Passphrases /\ NoKey \in Passphrases
    BY DEF RotationTypeOK, Passphrases, NoKey
  <2>2. revoked' \subseteq Passphrases
    BY <1>2, <2>1 DEF RotationTypeOK
  <2>3. slots' \in [{0, 1} -> Passphrases]
    BY <1>2, <2>1 DEF RotationTypeOK
  <2>4. rotatorPC' \in [Rotators -> RotatorPlaces]
    BY <1>2 DEF RotationTypeOK, RotatorPlaces
  <2> QED
    BY <1>2, <2>2, <2>3, <2>4 DEF RotationTypeOK
<1>5. KmsKeyOpens'
  BY <1>1, <1>2, <1>3 DEF KmsKeyOpens, OpensAny, Opens
<1>6. RevokedStaysOut'
  BY <1>1, <1>2, <1>3 DEF RevokedStaysOut, OpensAny, Opens
<1>7. RotationInv'
  BY <1>1, <1>2, OneActive DEF RotationInv, Active, RotationTypeOK
<1>8. NewIsFresh'
  <2>1. \A s \in Rotators : s # r /\ rotatorPC[s] # "unlock" => new[s] = NoKey
    BY <1>1, OneActive DEF NewIsFresh, Active, RotationTypeOK
  <2> QED
    BY <1>2, <2>1 DEF NewIsFresh, RotationTypeOK, Passphrases
<1> QED
  BY <1>4, <1>5, <1>6, <1>7, <1>8

\* Slot 1 gets the passphrase of the KMS.  It is killed only if slot 0 opens.
LEMMA AddOldStep ==
  ASSUME Constants, RotationIInv, NEW r \in Rotators, AddOld(r)
  PROVE  RotationIInv'
<1> USE DEF RotationIInv, Constants
<1>1. Active(r) /\ old[r] = kms /\ owner = r /\ new[r] = NoKey /\ kms # NoKey
  BY DEF AddOld, RotationInv, NewIsFresh, Active, RotatorPlaces, KmsKeyOpens, OpensAny, Opens
<1>2. UNCHANGED <<kms, owner, generated, old, new, revoked>>
  BY DEF AddOld, AddKey, SetSlot
<1>3. PICK next \in {"add0", "readd1", "unlock"} : rotatorPC' = [rotatorPC EXCEPT ![r] = next]
  BY DEF AddOld, AddKey, RotatorGoto
<1>4. \/ slots' = [slots EXCEPT ![1] = kms] /\ next = "add0"
      \/ slots' = [slots EXCEPT ![1] = NoKey] /\ next = "readd1" /\ slots[0] = kms
      \/ slots' = slots /\ next = "unlock"
  BY <1>1, <1>3 DEF AddOld, AddKey, SetSlot, MayKill, RotatorGoto, Opens, RotationTypeOK, RotatorPlaces
<1>5. RotationTypeOK'
  BY <1>2, <1>3, <1>4 DEF RotationTypeOK, RotatorPlaces, Passphrases, NoKey
<1>6. KmsKeyOpens'
  BY <1>1, <1>2, <1>4 DEF KmsKeyOpens, OpensAny, Opens, RotationTypeOK, NoKey
<1>7. RevokedStaysOut'
  BY <1>1, <1>2, <1>4 DEF RevokedStaysOut, OpensAny, Opens, RotationTypeOK, NoKey
<1>8. \A s \in Rotators : s # r => ~ Active(s) /\ rotatorPC'[s] = rotatorPC[s]
  BY <1>1, <1>3, OneActive DEF RotationTypeOK
<1>9. RotationInv'
  BY <1>1, <1>2, <1>3, <1>4, <1>8 DEF RotationInv, Active, RotationTypeOK, NoKey
<1>10. NewIsFresh'
  BY <1>1, <1>2, <1>3, <1>8 DEF NewIsFresh, Active, RotationTypeOK
<1> QED
  BY <1>5, <1>6, <1>7, <1>9, <1>10

\* Slot 0 gets the new passphrase while slot 1 has that of the KMS.
LEMMA AddNewStep ==
  ASSUME Constants, RotationIInv, NEW r \in Rotators, AddNew(r)
  PROVE  RotationIInv'
<1> USE DEF RotationIInv, Constants
<1>1. /\ Active(r) /\ old[r] = kms /\ owner = r /\ slots[1] = kms /\ kms # NoKey
      /\ new[r] # NoKey /\ new[r] # kms /\ new[r] \notin revoked
  BY DEF AddNew, RotationInv, NewIsFresh, Active, RotatorPlaces, KmsKeyOpens, OpensAny, Opens
<1>2. UNCHANGED <<kms, owner, generated, old, new, revoked>>
  BY DEF AddNew, AddKey, SetSlot
<1>3. PICK next \in {"store", "readd0", "unlock"} : rotatorPC' = [rotatorPC EXCEPT ![r] = next]
  BY DEF AddNew, AddKey, RotatorGoto
<1>4. \/ slots' = [slots EXCEPT ![0] = new[r]] /\ next = "store"
      \/ slots' = [slots EXCEPT ![0] = NoKey] /\ next = "readd0"
      \/ slots' = slots /\ next = "unlock"
  BY <1>1, <1>3 DEF AddNew, AddKey, SetSlot, RotatorGoto, Opens, RotationTypeOK, RotatorPlaces
<1>5. RotationTypeOK'
  BY <1>2, <1>3, <1>4 DEF RotationTypeOK, RotatorPlaces, Passphrases, NoKey
<1>6. slots'[1] = kms'
  BY <1>1, <1>2, <1>4 DEF RotationTypeOK
<1>7. KmsKeyOpens'
  BY <1>1, <1>2, <1>6 DEF KmsKeyOpens, OpensAny, Opens
<1>8. RevokedStaysOut'
  BY <1>1, <1>2, <1>4 DEF RevokedStaysOut, OpensAny, Opens, RotationTypeOK, NoKey
<1>9. \A s \in Rotators : s # r => ~ Active(s) /\ rotatorPC'[s] = rotatorPC[s]
  BY <1>1, <1>3, OneActive DEF RotationTypeOK
<1>10. RotationInv'
  BY <1>1, <1>2, <1>3, <1>4, <1>6, <1>9 DEF RotationInv, Active, RotationTypeOK, NoKey
<1>11. NewIsFresh'
  BY <1>1, <1>2, <1>3, <1>9 DEF NewIsFresh, Active, RotationTypeOK
<1> QED
  BY <1>5, <1>7, <1>8, <1>10, <1>11

\* The lock expires only when its owner is not active.
LEMMA ExpireStep ==
  ASSUME Constants, RotationIInv, ExpireLock
  PROVE  RotationIInv'
  BY DEF Constants, RotationIInv, RotationTypeOK, KmsKeyOpens, RevokedStaysOut, RotationInv, NewIsFresh,
         Active, OpensAny, Opens, ExpireLock, RotatorPlaces, NoKey

\* Every step keeps the inductive invariant.
LEMMA RotationStepIInv == ASSUME Constants, RotationIInv, [RotationNext]_rotationVars PROVE RotationIInv'
<1>1. CASE UNCHANGED rotationVars
  BY <1>1 DEF rotationVars, RotationIInv, RotationTypeOK, KmsKeyOpens, RevokedStaysOut, RotationInv, NewIsFresh,
              Active, OpensAny, Opens
<1>2. CASE RotationNext
  BY <1>2, LockStep, FetchStep, AddOldStep, GenerateStep, AddNewStep, StoreStep, RemoveStep,
     FailStep, UnlockStep, CrashStep, ExpireStep DEF RotationNext
<1> QED
  BY <1>1, <1>2

\* The inductive invariant holds in every reachable state.
THEOREM RotationIInvHolds == ASSUME Constants PROVE RotationSpec => []RotationIInv
  BY RotationInitIInv, RotationStepIInv, PTL DEF RotationSpec

\* At every step of every rotation, whatever fails and whoever restarts, the
\* passphrase in the KMS opens the device, and a passphrase that a rotation
\* replaced never opens the device again and is never in the KMS again
\* (RotateEncryptionKey).
THEOREM RotationAlwaysSafe == ASSUME Constants PROVE RotationSpec => []RotationSafe
<1>1. RotationIInv => RotationSafe
  BY DEF RotationIInv, RotationSafe
<1> QED
  BY <1>1, RotationIInvHolds, PTL
=============================================================================
