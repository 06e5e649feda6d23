---------------------------- MODULE KeyRotation ----------------------------
(***************************************************************************)
(* The rotation of the passphrase of a block encrypted volume:             *)
(* EncryptionKeyRotate of internal/csi-addons/rbd/encryptionkeyrotation.go,*)
(* RotateEncryptionKey of internal/rbd/encryption.go, the RADOS lock of    *)
(* internal/util/lock/lock.go and AddKey, RemoveKey and VerifyKey of       *)
(* internal/util/cryptsetup/cryptsetup.go.                                 *)
(*                                                                         *)
(* A step is one cryptsetup command, one call to the KMS or one RADOS      *)
(* operation.  It may fail, and the node plugin may restart before it.     *)
(***************************************************************************)
EXTENDS Integers, FiniteSets

CONSTANTS Rotators,    \* node plugins that are asked to rotate
          MaxKeys      \* bound: passphrases ever generated

VARIABLES
    slots,     \* the passphrases in LUKS key slots 0 and 1
    kms,       \* the passphrase stored for the volume in the KMS
    owner,     \* the holder of the exclusive RADOS lock
    generated, \* passphrases generated so far
    rotatorPC, old, new,
    revoked    \* passphrases replaced by a rotation that succeeded

rotationVars == <<slots, kms, owner, generated, rotatorPC, old, new, revoked>>

NoKey == 0
NoOne == "no one"

\* "add" and "readd": luksAddKey, before and after a full slot was killed.
RotatorPlaces == {"idle", "fetch", "add1", "readd1", "add0", "readd0", "store", "remove", "unlock"}

Passphrases == 0 .. MaxKeys

RotationTypeOK == /\ slots \in [{0, 1} -> Passphrases] /\ kms \in Passphrases
                  /\ owner \in Rotators \cup {NoOne} /\ generated \in Passphrases
                  /\ rotatorPC \in [Rotators -> RotatorPlaces]
                  /\ old \in [Rotators -> Passphrases] /\ new \in [Rotators -> Passphrases]
                  /\ revoked \subseteq Passphrases

\* A volume that was encrypted when it was staged first.
RotationInit == /\ slots = [i \in {0, 1} |-> IF i = 0 THEN 1 ELSE NoKey] /\ kms = 1
                /\ owner = NoOne /\ generated = 1
                /\ rotatorPC = [r \in Rotators |-> "idle"]
                /\ old = [r \in Rotators |-> NoKey] /\ new = [r \in Rotators |-> NoKey]
                /\ revoked = {}

-----------------------------------------------------------------------------

RotatorGoto(r, place) == rotatorPC' = [rotatorPC EXCEPT ![r] = place]

\* LockExclusive; a lock that is held is an error (EBUSY, EEXIST).
LockExclusive(r) == /\ rotatorPC[r] = "idle"
                    /\ owner = NoOne
                    /\ owner' = r
                    /\ RotatorGoto(r, "fetch")
                    /\ UNCHANGED <<slots, kms, generated, old, new, revoked>>

\* Step 1: the current passphrase.
Fetch(r) == /\ rotatorPC[r] = "fetch"
            /\ old' = [old EXCEPT ![r] = kms]
            /\ RotatorGoto(r, "add1")
            /\ UNCHANGED <<slots, kms, owner, generated, new, revoked>>

Opens(key, i) == key # NoKey /\ slots[i] = key

OpensAny(key) == \E i \in {0, 1} : Opens(key, i)

\* luksKillSlot wants the passphrase of another slot, or that of the last one.
MayKill(key, i) ==
    LET other == slots[1 - i] IN
    IF other # NoKey THEN other = key ELSE slots[i] = key

SetSlot(i, key) == /\ slots' = [slots EXCEPT ![i] = key]
                   /\ UNCHANGED <<kms, owner, generated, old, revoked>>

\* AddKey(passphrase, key, slot i): luksAddKey into a free slot; a slot that has
\* the key already is left alone; another key is killed, and readd follows.
AddKey(r, key, i, readd, next) ==
    \/ /\ slots[i] = NoKey /\ OpensAny(old[r])
       /\ SetSlot(i, key)
       /\ RotatorGoto(r, next)
    \/ /\ Opens(key, i)
       /\ RotatorGoto(r, next)
       /\ UNCHANGED <<slots, kms, owner, generated, old, revoked>>
    \/ /\ slots[i] \notin {NoKey, key} /\ MayKill(old[r], i)
       /\ SetSlot(i, NoKey)
       /\ RotatorGoto(r, readd)
    \/ /\ IF slots[i] = NoKey THEN ~ OpensAny(old[r])
          ELSE slots[i] # key /\ ~ MayKill(old[r], i)
       /\ RotatorGoto(r, "unlock")
       /\ UNCHANGED <<slots, kms, owner, generated, old, revoked>>

\* Step 2: the current passphrase goes to slot 1 as well.
AddOld(r) == /\ rotatorPC[r] \in {"add1", "readd1"}
             /\ AddKey(r, old[r], 1, "readd1", "add0")
             /\ UNCHANGED new

\* Step 3: a new passphrase for slot 0.
GenerateKey(r) == /\ rotatorPC[r] = "add0" /\ new[r] = NoKey
                  /\ generated < MaxKeys
                  /\ generated' = generated + 1
                  /\ new' = [new EXCEPT ![r] = generated + 1]
                  /\ UNCHANGED <<slots, kms, owner, rotatorPC, old, revoked>>

AddNew(r) == /\ rotatorPC[r] \in {"add0", "readd0"} /\ new[r] # NoKey
             /\ AddKey(r, new[r], 0, "readd0", "store")
             /\ UNCHANGED new

\* Step 4: the KMS.
StoreKey(r) == /\ rotatorPC[r] = "store"
               /\ kms' = new[r]
               /\ RotatorGoto(r, "remove")
               /\ UNCHANGED <<slots, owner, generated, old, new, revoked>>

\* Mutant: the slot of the new passphrase is killed.
RemoveOldWrongSlot(r) == /\ rotatorPC[r] = "remove"
                         /\ slots' = [slots EXCEPT ![0] = NoKey]
                         /\ revoked' = revoked \cup {old[r]}
                         /\ RotatorGoto(r, "unlock")
                         /\ UNCHANGED <<kms, owner, generated, old, new>>

\* Mutant: the old passphrase stays in its slot.
RemoveOldSkipped(r) == /\ rotatorPC[r] = "remove"
                       /\ revoked' = revoked \cup {old[r]}
                       /\ RotatorGoto(r, "unlock")
                       /\ UNCHANGED <<slots, kms, owner, generated, old, new>>

\* Step 5: slot 1 is killed with the new passphrase, and the rotation succeeds.
\* A slot that is not active is not an error.
RemoveOld(r) ==
    /\ rotatorPC[r] = "remove"
    /\ IF slots[1] = NoKey \/ MayKill(new[r], 1)
       THEN /\ slots' = [slots EXCEPT ![1] = NoKey]
            /\ revoked' = revoked \cup {old[r]}
       ELSE UNCHANGED <<slots, revoked>>
    /\ RotatorGoto(r, "unlock")
    /\ UNCHANGED <<kms, owner, generated, old, new>>

\* A step fails, or timedCtx ends: the deferred Unlock follows.
StepFails(r) == /\ rotatorPC[r] \notin {"idle", "unlock"}
                /\ RotatorGoto(r, "unlock")
                /\ UNCHANGED <<slots, kms, owner, generated, old, new, revoked>>

Forget(r) == /\ rotatorPC' = [rotatorPC EXCEPT ![r] = "idle"]
             /\ old' = [old EXCEPT ![r] = NoKey] /\ new' = [new EXCEPT ![r] = NoKey]

\* Unlock; "not held by the pair" is not an error.
Unlock(r) == /\ rotatorPC[r] = "unlock"
             /\ owner' = IF owner = r THEN NoOne ELSE owner
             /\ Forget(r)
             /\ UNCHANGED <<slots, kms, generated, revoked>>

\* The node plugin restarts, and leaves its lock to expire.
Crash(r) == /\ rotatorPC[r] # "idle"
            /\ Forget(r)
            /\ UNCHANGED <<slots, kms, owner, generated, revoked>>

\* The lock expires lockDuration after it was taken.  timedCtx, in which the
\* cryptsetup commands and the store to the KMS run, ends 30 seconds before:
\* the holder is gone or has only its Unlock left.
ExpireLock == /\ owner # NoOne
              /\ rotatorPC[owner] \in {"idle", "unlock"}
              /\ owner' = NoOne
              /\ UNCHANGED <<slots, kms, generated, rotatorPC, old, new, revoked>>

RotationNext == \/ \E r \in Rotators :
                      \/ LockExclusive(r) \/ Fetch(r) \/ AddOld(r) \/ GenerateKey(r) \/ AddNew(r)
                      \/ StoreKey(r) \/ RemoveOld(r) \/ StepFails(r) \/ Unlock(r) \/ Crash(r)
                \/ ExpireLock

RotationSpec == RotationInit /\ [][RotationNext]_rotationVars

-----------------------------------------------------------------------------
(* Properties *)

\* docs/design/proposals/rbd-pv-key-rotation.md: "the key in the KMS can always
\* be used to unlock the volume".  Whatever step fails, whoever restarts and
\* whoever takes over an expired lock, the passphrase in the KMS opens the
\* device.
KmsKeyOpens == OpensAny(kms)

\* A passphrase that a successful rotation replaced never opens the device
\* again, and is never used by the KMS again.
RevokedStaysOut == \A k \in revoked : ~ OpensAny(k) /\ kms # k

\* Both: the volume can always be opened, and only with what the KMS has or is
\* about to have.
RotationSafe == KmsKeyOpens /\ RevokedStaysOut

\* The rotators that work on the volume: their calls are not answered, and have
\* more to do than to unlock.
Active(r) == rotatorPC[r] \notin {"idle", "unlock"}

\* What the steps of a rotation have established, for the two above.
RotationInv == \A r \in Rotators : Active(r) =>
    /\ owner = r
    /\ rotatorPC[r] \in {"add1", "readd1", "add0", "readd0", "store"} => old[r] = kms
    /\ rotatorPC[r] \in {"add0", "readd0", "store", "remove"} => slots[1] = old[r]
    /\ rotatorPC[r] = "readd1" => slots[1] = NoKey
    /\ rotatorPC[r] = "readd0" => slots[0] = NoKey
    /\ rotatorPC[r] \in {"store", "remove"} => slots[0] = new[r]
    /\ rotatorPC[r] = "remove" => kms = new[r]
    /\ rotatorPC[r] \in {"readd0", "store", "remove"} => new[r] # NoKey

\* A generated passphrase is new: it is neither the current nor a revoked one.
NewIsFresh ==
    /\ kms <= generated /\ \A k \in revoked : k <= generated
    /\ \A r \in Rotators : old[r] <= generated /\ new[r] <= generated
    /\ \A r \in Rotators : rotatorPC[r] # "unlock" /\ new[r] # NoKey =>
          /\ rotatorPC[r] \in {"add0", "readd0", "store", "remove"}
          /\ new[r] # old[r] /\ new[r] \notin revoked

RotationIInv == RotationTypeOK /\ KmsKeyOpens /\ RevokedStaysOut /\ RotationInv /\ NewIsFresh
=============================================================================
