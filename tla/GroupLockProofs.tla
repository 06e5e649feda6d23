-------------------------- MODULE GroupLockProofs --------------------------
(***************************************************************************)
(* The safety properties of GroupLock for any finite set of goroutines.    *)
(* GroupExclusion is not inductive: it follows from the counters, which    *)
(* the code tests, being the numbers of active operations.                 *)
(***************************************************************************)
EXTENDS GroupLock, FiniteSetTheorems, TLAPS

\* The active operations of a group form a finite set.
LEMMA HoldersFinite == \A g \in Groups : IsFiniteSet(Holders(g))
  BY CallersFinite, FS_Subset DEF Holders

\* A group has a positive counter exactly if it has an active operation.
LEMMA CountZero ==
  ASSUME CountIsHolders
  PROVE  \A g \in Groups : count[g] = 0 <=> Holders(g) = {}
  BY HoldersFinite, FS_EmptySet DEF CountIsHolders

\* The counter of an active operation's group is at least one.
LEMMA CountPositive ==
  ASSUME CountIsHolders
  PROVE  \A g \in Groups : count[g] \in Nat
  BY HoldersFinite, FS_CardinalityType DEF CountIsHolders

\* The counters start at zero and nobody holds or waits (NewGroupLock).
LEMMA InitIInv == Init => IInv
<1> SUFFICES ASSUME Init PROVE IInv
  OBVIOUS
<1>1. TypeOK
  BY DEF Init, NewGroupLock, TypeOK, Groups, Places
<1>2. CountIsHolders
  <2>1. \A g \in Groups : Holders(g) = {}
    BY DEF Init, Holders
  <2> QED
    BY <2>1, FS_EmptySet DEF Init, NewGroupLock, CountIsHolders
<1>3. OneGroupCounted /\ NoLostWakeup
  BY DEF Init, NewGroupLock, OneGroupCounted, NoLostWakeup, Groups
<1> QED
  BY <1>1, <1>2, <1>3 DEF IInv

\* A step that changes neither the counters nor who holds keeps the counters
\* equal to the numbers of active operations.
LEMMA SameHolders ==
  ASSUME CountIsHolders, count' = count,
         \A g \in Groups : Holders(g)' = Holders(g)
  PROVE  CountIsHolders'
  BY DEF CountIsHolders

\* Every step of a goroutine keeps the inductive invariant.
LEMMA StepIInv == IInv /\ [Next]_vars => IInv'
<1> SUFFICES ASSUME IInv, [Next]_vars PROVE IInv'
  OBVIOUS
<1> USE DEF IInv
<1>1. ASSUME NEW c \in Callers, NEW g \in Groups, Call(c, g)
      PROVE  IInv'
  <2>1. \A h \in Groups : Holders(h)' = Holders(h)
    BY <1>1 DEF Call, Holders, TypeOK, Places
  <2>2. TypeOK'
    BY <1>1 DEF Call, TypeOK, Places
  <2>3. CountIsHolders'
    BY <2>1, <1>1, SameHolders DEF Call
  <2>4. OneGroupCounted' /\ NoLostWakeup'
    BY <1>1 DEF Call, OneGroupCounted, NoLostWakeup, MustWait, TypeOK, Other, Groups
  <2> QED
    BY <2>2, <2>3, <2>4
<1>2. ASSUME NEW c \in Callers, Acquire(c)
      PROVE  IInv'
  <2>0. PICK g \in Groups : g = group[c]
    BY DEF TypeOK
  <2>1. count \in [Groups -> Int] /\ Other(g) \in Groups /\ Other(g) # g
    BY DEF TypeOK, Other, Groups
  <2>2. TypeOK'
    BY <1>2, <2>0, <2>1 DEF Acquire, TypeOK, Places
  <2>3. Holders(g)' = Holders(g) \cup {c} /\ c \notin Holders(g)
    BY <1>2, <2>0 DEF Acquire, Holders, TypeOK, Places
  <2>4. Holders(Other(g))' = Holders(Other(g))
    BY <1>2, <2>0, <2>1 DEF Acquire, Holders, TypeOK, Places
  <2>5. Cardinality(Holders(g)') = count[g] + 1
    BY <2>1, <2>3, HoldersFinite, FS_AddElement DEF CountIsHolders
  <2>6. count'[g] = count[g] + 1 /\ count'[Other(g)] = count[Other(g)]
    BY <1>2, <2>0, <2>1 DEF Acquire
  <2>7. \A h \in Groups : h = g \/ h = Other(g)
    BY <2>1 DEF Groups, Other
  <2>8. CountIsHolders'
    BY <2>4, <2>5, <2>6, <2>7 DEF CountIsHolders
  <2>9. count[Other(g)] = 0
    BY <1>2, <2>0, <2>1, CountPositive DEF Acquire, MustWait
  <2>10. OneGroupCounted'
    BY <2>1, <2>6, <2>9 DEF OneGroupCounted, Groups, Other
  <2>11. NoLostWakeup'
    BY <1>2, <2>0, <2>1, <2>6, CountPositive DEF Acquire, NoLostWakeup, MustWait, TypeOK, Other, Groups
  <2> QED
    BY <2>2, <2>8, <2>10, <2>11
<1>3. ASSUME NEW c \in Callers, Wait(c)
      PROVE  IInv'
  <2>1. \A h \in Groups : Holders(h)' = Holders(h)
    BY <1>3 DEF Wait, Holders, TypeOK, Places
  <2>2. TypeOK'
    BY <1>3 DEF Wait, TypeOK, Places
  <2>3. CountIsHolders'
    BY <2>1, <1>3, SameHolders DEF Wait
  <2>4. OneGroupCounted' /\ NoLostWakeup'
    BY <1>3 DEF Wait, OneGroupCounted, NoLostWakeup, MustWait, TypeOK
  <2> QED
    BY <2>2, <2>3, <2>4
<1>4. ASSUME NEW c \in Callers, Release(c)
      PROVE  IInv'
  <2>0. PICK g \in Groups : g = group[c]
    BY DEF TypeOK
  <2>1. count \in [Groups -> Int] /\ Other(g) \in Groups /\ Other(g) # g
    BY DEF TypeOK, Other, Groups
  <2>2. TypeOK'
    BY <1>4, <2>0, <2>1 DEF Release, TypeOK, Places
  <2>3. Holders(g)' = Holders(g) \ {c} /\ c \in Holders(g)
    BY <1>4, <2>0 DEF Release, Holders, TypeOK, Places, WokenBy, Parked
  <2>4. Holders(Other(g))' = Holders(Other(g))
    BY <1>4, <2>0, <2>1 DEF Release, Holders, TypeOK, Places, WokenBy, Parked
  <2>5. Cardinality(Holders(g)') = count[g] - 1
    BY <2>1, <2>3, HoldersFinite, FS_RemoveElement DEF CountIsHolders
  <2>6. count'[g] = count[g] - 1 /\ count'[Other(g)] = count[Other(g)]
    BY <1>4, <2>0, <2>1 DEF Release
  <2>7. \A h \in Groups : h = g \/ h = Other(g)
    BY <2>1 DEF Groups, Other
  <2>8. CountIsHolders'
    BY <2>4, <2>5, <2>6, <2>7 DEF CountIsHolders
  <2>9. count[g] > 0
    BY <2>1, <2>3, CountZero, CountPositive
  <2>10. OneGroupCounted'
    BY <2>1, <2>6, <2>9, CountPositive DEF OneGroupCounted, Groups, Other
  <2>11. NoLostWakeup'
    <3> SUFFICES ASSUME NEW d \in Callers, pc'[d] = "waiting"
                 PROVE  MustWait(d)'
      BY DEF NoLostWakeup
    <3>1. pc[d] = "waiting" /\ group' = group /\ d \notin WokenBy(c)
      BY <1>4, <2>0 DEF Release, TypeOK
    <3>2. MustWait(d)
      BY <3>1 DEF NoLostWakeup
    <3>3. CASE group[d] = Other(g)
      BY <2>0, <2>1, <2>6, <2>9, <3>1, <3>2, <3>3, CountPositive
         DEF MustWait, WokenBy, Parked, Other, Groups
    <3>4. CASE group[d] = g
      BY <2>0, <2>1, <2>6, <3>1, <3>2, <3>4 DEF MustWait, Other, Groups
    <3> QED
      BY <2>7, <3>3, <3>4 DEF TypeOK
  <2> QED
    BY <2>2, <2>8, <2>10, <2>11
<1>5. CASE UNCHANGED vars
  BY <1>5 DEF vars, TypeOK, CountIsHolders, OneGroupCounted, NoLostWakeup, Holders, MustWait
<1> QED
  BY <1>1, <1>2, <1>3, <1>4, <1>5 DEF Next

\* The inductive invariant holds in every reachable state.
THEOREM IInvHolds == Spec => []IInv
  BY InitIInv, StepIInv, PTL DEF Spec

\* Two operations that are active together belong to the same group, for any
\* number of goroutines that stage and unstage.
THEOREM Exclusion == Spec => []GroupExclusion
<1>1. IInv => GroupExclusion
  <2> SUFFICES ASSUME IInv, NEW c \in Callers, NEW d \in Callers,
                      pc[c] = "holding", pc[d] = "holding", group[c] # group[d]
               PROVE  FALSE
    BY DEF GroupExclusion
  <2>1. group[c] \in Groups /\ group[d] \in Groups
    BY DEF IInv, TypeOK
  <2>2. c \in Holders(group[c]) /\ d \in Holders(group[d])
    BY DEF Holders
  <2>3. count[group[c]] # 0 /\ count[group[d]] # 0
    BY <2>1, <2>2, CountZero DEF IInv
  <2> QED
    BY <2>1, <2>3 DEF IInv, OneGroupCounted, Groups
<1> QED
  BY <1>1, IInvHolds, PTL

\* A parked goroutine always has somebody who will wake it.
THEOREM WakeupKept == Spec => []NoLostWakeup
<1>1. IInv => NoLostWakeup
  BY DEF IInv
<1> QED
  BY <1>1, IInvHolds, PTL
=============================================================================
