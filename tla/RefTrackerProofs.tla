-------------------------- MODULE RefTrackerProofs --------------------------
(***************************************************************************)
(* The reference tracker counts exactly and implements the atomic set of   *)
(* references (RefSet), for any set of writers, any finite set of keys and *)
(* any width of the counter.                                               *)
(*                                                                         *)
(* CountExact is not inductive.  CallsWellFormed says where a call can be  *)
(* and with which arguments, WriteChecked what Read has checked for the    *)
(* write that follows, and VersionsKnown that a version is not given out   *)
(* again, which makes the assertion of the version one of the contents.    *)
(***************************************************************************)
EXTENDS RefTracker, FiniteSetTheorems, TLAPS

\* References are finite sets, and the counter has at least one value.
Constants == IsFiniteSet(RefKeys) /\ RefCountMod \in Nat \ {0} /\ MaxVersion \in Nat

Results == {"none", "created", "added", "deleted", "kept", "failed", "panic", "crashed"}

\* The types, with the results that RefSet does not know.
Types ==
    /\ obj \in [gen : Nat, count : Nat, refs : Set!Refs]
    /\ version \in Nat
    /\ call \in [Writers -> [op : {"none", "Add", "Remove"}, arg : Set!Refs, result : Results]]
    /\ writerPC \in [Writers -> WriterPlaces]
    /\ local \in [Writers -> [gen : Nat, total : Nat, found : Set!Refs]]

\* A call that goes on has its arguments and no result yet; one that ended has a result.
CallsWellFormed == \A w \in Writers :
    /\ writerPC[w] = "idle" => call[w] = Set!NoCall
    /\ writerPC[w] = "done" => call[w].result # "none"
    /\ writerPC[w] \in {"version", "init", "read", "write"} =>
         /\ call[w].op \in {"Add", "Remove"} /\ call[w].result = "none"
         /\ Set!Requested(call[w].arg) # {}
         /\ Cardinality(Set!Requested(call[w].arg)) < RefCountMod
    /\ writerPC[w] = "init" => call[w].op = "Add"

\* A write comes after a read that found something to do and room in the counter.
Checked(op, arg, found, total) ==
    /\ \A k \in RefKeys : arg[k] = "none" => found[k] = "none"
    /\ ~NothingToDo(op, arg, found) /\ ~Overflow(op, arg, found, total)
WriteChecked == \A w \in Writers : writerPC[w] = "write" =>
    Checked(call[w].op, call[w].arg, local[w].found, local[w].total)

\* What was read has a version that was given out.
VersionsKnown == /\ obj.gen <= version
                 /\ \A w \in Writers : local[w].gen <= version

TrackerIInv == /\ Types /\ CallsWellFormed /\ WriteChecked /\ VersionsKnown
               /\ obj.count < RefCountMod /\ CountExact

-----------------------------------------------------------------------------
(* Sets of keys, and the arithmetic of the counter *)

\* A set of keys can be counted.
LEMMA KeySets ==
  ASSUME Constants, NEW S \in SUBSET RefKeys
  PROVE  IsFiniteSet(S) /\ Cardinality(S) \in Nat /\ (Cardinality(S) = 0 <=> S = {})
  BY FS_Subset, FS_CardinalityType, FS_EmptySet DEF Constants

\* Keys that are counted for the first time add up.
LEMMA CountUnion ==
  ASSUME Constants, NEW S \in SUBSET RefKeys, NEW T \in SUBSET RefKeys, S \cap T = {}
  PROVE  Cardinality(S \cup T) = Cardinality(S) + Cardinality(T)
<1>1. /\ IsFiniteSet(S) /\ IsFiniteSet(T) /\ Cardinality({}) = 0
      /\ Cardinality(S) \in Nat /\ Cardinality(T) \in Nat
  BY KeySets, FS_EmptySet
<1>2. Cardinality(S \cup T) = Cardinality(S) + Cardinality(T) - Cardinality(S \cap T)
  BY <1>1, FS_Union
<1>3. Cardinality(S \cap T) = 0
  BY <1>1
<1> QED BY <1>1, <1>2, <1>3

\* A set of keys is at least as large as its part.
LEMMA CountSubset ==
  ASSUME Constants, NEW T \in SUBSET RefKeys, NEW S \in SUBSET T
  PROVE  Cardinality(S) <= Cardinality(T)
  BY KeySets, FS_Subset

\* The check of v1.Add is exact: the sum wraps below the old total or not at all.
LEMMA SumFits ==
  ASSUME NEW m \in Nat \ {0}, NEW t \in Nat, NEW n \in Nat, t < m, n < m, ~((t + n) % m < t)
  PROVE  t + n < m /\ (t + n) % m = t + n
<1>1. CASE t + n < m
  BY <1>1
<1>2. CASE t + n >= m
  <2>1. t + n - m \in 0 .. m - 1 /\ t + n = 1 * m + (t + n - m)
    BY <1>2
  <2>2. (t + n) % m = t + n - m
    BY <2>1
  <2> QED BY <2>2
<1> QED BY <1>1, <1>2

-----------------------------------------------------------------------------
(* What the calls make of the references *)

\* A first Add counts what was asked for.
LEMMA FirstAdded ==
  ASSUME NEW arg \in Set!Refs
  PROVE  /\ Set!Added(NoRefs, arg) \in Set!Refs
         /\ Set!Counted(Set!Added(NoRefs, arg)) = Set!Requested(arg)
         /\ Set!Requested(arg) \in SUBSET RefKeys
  BY DEF Set!Added, Set!Counted, Set!Requested, Set!Refs, Set!RefTypes, NoRefs

\* What AddRefs makes of the references.
AddedTo(r, arg, found) == [k \in RefKeys |-> IF k \in ToAdd(arg, found) THEN "Normal" ELSE r[k]]

\* The write of AddRefs: the keys that were not found are counted.
LEMMA WriteAdds ==
  ASSUME NEW r \in Set!Refs, NEW arg \in Set!Refs, NEW found \in Set!Refs,
         \A k \in RefKeys : arg[k] # "none" => found[k] = r[k],
         \A k \in RefKeys : arg[k] = "none" => found[k] = "none"
  PROVE  /\ AddedTo(r, arg, found) = Set!Added(r, arg) /\ AddedTo(r, arg, found) \in Set!Refs
         /\ Set!Counted(AddedTo(r, arg, found)) = Set!Counted(r) \cup ToAdd(arg, found)
         /\ Set!Counted(r) \cap ToAdd(arg, found) = {}
         /\ ToAdd(arg, found) \in SUBSET Set!Requested(arg) /\ Set!Requested(arg) \in SUBSET RefKeys
         /\ Set!Counted(r) \in SUBSET RefKeys
  BY DEF AddedTo, ToAdd, Set!Added, Set!Counted, Set!Requested, Set!Refs, Set!RefTypes

\* The counted references that RemoveRefs subtracts.
Dropped(arg, found) == {k \in ToRemove(arg, found) \cup ToMask(arg, found) : found[k] = "Normal"}

\* What RemoveRefs makes of the references.
RemovedFrom(r, arg, found) == [k \in RefKeys |-> CASE k \in ToRemove(arg, found) -> "none"
                                                [] k \in ToMask(arg, found) -> "Mask"
                                                [] OTHER -> r[k]]

\* The write of RemoveRefs leaves what Remove leaves, and as many counted references fewer
\* as it subtracts.
LEMMA WriteRemoves ==
  ASSUME NEW r \in Set!Refs, NEW arg \in Set!Refs, NEW found \in Set!Refs,
         \A k \in RefKeys : arg[k] # "none" => found[k] = r[k],
         \A k \in RefKeys : arg[k] = "none" => found[k] = "none"
  PROVE  /\ RemovedFrom(r, arg, found) = Set!Left(r, arg) /\ RemovedFrom(r, arg, found) \in Set!Refs
         /\ Set!Counted(r) = Set!Counted(RemovedFrom(r, arg, found)) \cup Dropped(arg, found)
         /\ Set!Counted(RemovedFrom(r, arg, found)) \cap Dropped(arg, found) = {}
         /\ Dropped(arg, found) \in SUBSET RefKeys
         /\ Set!Counted(RemovedFrom(r, arg, found)) \in SUBSET RefKeys
<1> DEFINE written == RemovedFrom(r, arg, found)
<1>1. ASSUME NEW k \in RefKeys
      PROVE  /\ written[k] = CASE arg[k] = "Normal" -> "none"
                               [] arg[k] = "Mask" -> "Mask"
                               [] OTHER -> r[k]
             /\ written[k] \in {"none", "Normal", "Mask"}
             /\ r[k] = "Normal" <=> written[k] = "Normal" \/ k \in Dropped(arg, found)
             /\ ~(written[k] = "Normal" /\ k \in Dropped(arg, found))
  <2>1. arg[k] \in {"none", "Normal", "Mask"} /\ r[k] \in {"none", "Normal", "Mask"}
    BY DEF Set!Refs, Set!RefTypes
  <2>2. CASE arg[k] = "none"
    BY <2>1, <2>2 DEF ToRemove, ToMask, Dropped, RemovedFrom
  <2>3. CASE arg[k] = "Normal"
    BY <2>1, <2>3 DEF ToRemove, ToMask, Dropped, RemovedFrom
  <2>4. CASE arg[k] = "Mask"
    BY <2>1, <2>4 DEF ToRemove, ToMask, Dropped, RemovedFrom
  <2> QED BY <2>1, <2>2, <2>3, <2>4
<1>2. written = Set!Left(r, arg)
  BY <1>1 DEF Set!Left, RemovedFrom
<1>3. written \in Set!Refs
  BY <1>1 DEF Set!Refs, Set!RefTypes, RemovedFrom
<1>4. Dropped(arg, found) \in SUBSET RefKeys
  BY DEF Dropped, ToRemove, ToMask
<1> HIDE DEF written
<1>5. /\ Set!Counted(r) = Set!Counted(written) \cup Dropped(arg, found)
      /\ Set!Counted(written) \cap Dropped(arg, found) = {}
      /\ Set!Counted(written) \in SUBSET RefKeys
  BY <1>1, <1>4 DEF Set!Counted
<1> QED BY <1>2, <1>3, <1>4, <1>5 DEF written

-----------------------------------------------------------------------------
(* The invariant *)

\* There is no object at first.
LEMMA InitIInv == ASSUME Constants, TrackerInit PROVE TrackerIInv
<1>1. Set!Counted(NoRefs) = {}
  BY DEF Set!Counted, NoRefs
<1>2. Cardinality(Set!Counted(NoRefs)) = 0
  BY <1>1, FS_EmptySet
<1> QED BY <1>2 DEF Constants, TrackerInit, TrackerIInv, Types, CallsWellFormed, WriteChecked, VersionsKnown,
            CountExact, NoObj, NoRefs, Nothing, WriterPlaces, Results, Set!Refs, Set!RefTypes,
            Set!NoCall, Set!NoRefs

\* A step that leaves the object alone keeps the counter exact, if its writer does not
\* come to a write.
LEMMA QuietStep ==
  ASSUME Constants, TrackerIInv, NEW w \in Writers, UNCHANGED <<obj, version>>,
         Types', CallsWellFormed', writerPC'[w] # "write", local'[w].gen <= version,
         \A v \in Writers \ {w} : writerPC'[v] = writerPC[v] /\ call'[v] = call[v] /\ local'[v] = local[v]
  PROVE  TrackerIInv'
<1>1. WriteChecked'
  BY DEF TrackerIInv, WriteChecked
<1>2. VersionsKnown'
  BY DEF TrackerIInv, VersionsKnown
<1>3. CountExact' /\ obj'.count < RefCountMod
  BY DEF TrackerIInv, CountExact, Asserted, NoObj, NoRefs, Set!Counted
<1> QED BY <1>1, <1>2, <1>3 DEF TrackerIInv

\* An end with a result, without a write.
LEMMA DoneStep ==
  ASSUME Constants, TrackerIInv, NEW w \in Writers, NEW result \in Results \ {"none"},
         Done(w, result), UNCHANGED <<obj, version>>
  PROVE  TrackerIInv'
<1>0. Nothing \in [gen : Nat, total : Nat, found : Set!Refs]
  BY DEF Nothing, NoRefs, Set!Refs, Set!RefTypes
<1>1. Types'
  <2>1. local' \in [Writers -> [gen : Nat, total : Nat, found : Set!Refs]]
    BY <1>0 DEF TrackerIInv, Types, Done
  <2>2. writerPC' \in [Writers -> WriterPlaces]
    BY DEF TrackerIInv, Types, Done, WriterPlaces
  <2>3. call' \in [Writers -> [op : {"none", "Add", "Remove"}, arg : Set!Refs, result : Results]]
    BY DEF TrackerIInv, Types, Done
  <2> QED BY <2>1, <2>2, <2>3 DEF TrackerIInv, Types
<1>2. CallsWellFormed'
  BY DEF TrackerIInv, Types, CallsWellFormed, Done, Results
<1>3. local'[w].gen <= version /\ writerPC'[w] # "write"
  BY DEF TrackerIInv, Types, Done, Nothing
<1>4. \A v \in Writers \ {w} : writerPC'[v] = writerPC[v] /\ call'[v] = call[v] /\ local'[v] = local[v]
  BY DEF TrackerIInv, Types, Done
<1> QED BY <1>1, <1>2, <1>3, <1>4, QuietStep

LEMMA CallStep ==
  ASSUME Constants, TrackerIInv, NEW w \in Writers, NEW op \in {"Add", "Remove"}, NEW arg \in Set!Refs,
         Call(w, op, arg)
  PROVE  TrackerIInv'
<1>1. Types'
  BY DEF TrackerIInv, Types, Call, WriterPlaces, Results
<1>2. CallsWellFormed'
  BY DEF TrackerIInv, Types, CallsWellFormed, Call
<1>3. local'[w].gen <= version /\ writerPC'[w] # "write"
  BY DEF TrackerIInv, Types, Call, VersionsKnown
<1>4. \A v \in Writers \ {w} : writerPC'[v] = writerPC[v] /\ call'[v] = call[v] /\ local'[v] = local[v]
  BY DEF TrackerIInv, Types, Call
<1> QED BY <1>1, <1>2, <1>3, <1>4, QuietStep DEF Call

LEMMA ReturnStep ==
  ASSUME Constants, TrackerIInv, NEW w \in Writers, Return(w)
  PROVE  TrackerIInv'
<1>1. Types'
  BY DEF TrackerIInv, Types, Return, WriterPlaces, Results, Set!NoCall, Set!NoRefs, Set!Refs, Set!RefTypes
<1>2. CallsWellFormed'
  BY DEF TrackerIInv, Types, CallsWellFormed, Return
<1>3. local'[w].gen <= version /\ writerPC'[w] # "write"
  BY DEF TrackerIInv, Types, Return, VersionsKnown
<1>4. \A v \in Writers \ {w} : writerPC'[v] = writerPC[v] /\ call'[v] = call[v] /\ local'[v] = local[v]
  BY DEF TrackerIInv, Types, Return
<1> QED BY <1>1, <1>2, <1>3, <1>4, QuietStep DEF Return

\* ReadVersion ends, or goes on to make the object or to read it.
LEMMA ReadVersionStep ==
  ASSUME Constants, TrackerIInv, NEW w \in Writers, ReadVersion(w)
  PROVE  TrackerIInv'
<1>1. CASE Done(w, "deleted")
  BY <1>1, DoneStep DEF ReadVersion, Results
<1>2. ASSUME NEW place \in {"init", "read"}, NEW l, WriterGoto(w, place, l), l \in {Nothing, [Nothing EXCEPT !.gen = obj.gen]},
             place = "init" => call[w].op = "Add"
      PROVE  TrackerIInv'
  <2>1. Types'
    BY <1>2 DEF TrackerIInv, Types, ReadVersion, WriterGoto, WriterPlaces, Nothing, NoRefs, Set!Refs, Set!RefTypes
  <2>2. CallsWellFormed'
    BY <1>2 DEF TrackerIInv, Types, CallsWellFormed, ReadVersion, WriterGoto
  <2>3. local'[w].gen <= version /\ writerPC'[w] # "write"
    BY <1>2 DEF TrackerIInv, Types, WriterGoto, Nothing, VersionsKnown
  <2>4. \A v \in Writers \ {w} : writerPC'[v] = writerPC[v] /\ call'[v] = call[v] /\ local'[v] = local[v]
    BY <1>2 DEF TrackerIInv, Types, WriterGoto
  <2> QED BY <2>1, <2>2, <2>3, <2>4, QuietStep DEF ReadVersion
<1> QED BY <1>1, <1>2 DEF ReadVersion

\* Read ends, or goes on to a write that it has checked.
LEMMA ReadStep ==
  ASSUME Constants, TrackerIInv, NEW w \in Writers, Read(w)
  PROVE  TrackerIInv'
<1> DEFINE op == call[w].op
           arg == call[w].arg
           found == [k \in RefKeys |-> IF arg[k] # "none" THEN obj.refs[k] ELSE "none"]
<1>1. CASE \E result \in Results \ {"none"} : Done(w, result)
  BY <1>1, DoneStep DEF Read
<1>2. CASE /\ obj # NoObj /\ obj.gen = local[w].gen
           /\ ~NothingToDo(op, arg, found) /\ ~Overflow(op, arg, found, obj.count)
           /\ WriterGoto(w, "write", [gen |-> obj.gen, total |-> obj.count, found |-> found])
  <2>1. found \in Set!Refs /\ UNCHANGED <<obj, version>>
    BY DEF Read, TrackerIInv, Types, Set!Refs, Set!RefTypes
  <2>2. Checked(op, arg, found, obj.count)
    BY <1>2 DEF Checked
  <2> HIDE DEF found
  <2>3. /\ writerPC' = [writerPC EXCEPT ![w] = "write"] /\ call' = call
        /\ local' = [local EXCEPT ![w] = [gen |-> obj.gen, total |-> obj.count, found |-> found]]
    BY <1>2 DEF WriterGoto
  <2>4. Types'
    BY <2>1, <2>3 DEF TrackerIInv, Types, WriterPlaces
  <2>5. CallsWellFormed'
    BY <2>3 DEF TrackerIInv, Types, CallsWellFormed, Read
  <2>6. WriteChecked'
    BY <2>2, <2>3 DEF TrackerIInv, Types, WriteChecked
  <2>7. VersionsKnown'
    BY <2>1, <2>3 DEF TrackerIInv, Types, VersionsKnown
  <2>8. \A k \in RefKeys : arg[k] # "none" => found[k] = obj.refs[k]
    BY DEF found
  <2>9. CountExact' /\ obj'.count < RefCountMod
    BY <2>1, <2>3, <2>8 DEF TrackerIInv, Types, CountExact, Asserted, NoObj, NoRefs, Set!Counted
  <2> QED BY <2>4, <2>5, <2>6, <2>7, <2>9 DEF TrackerIInv
<1> QED BY <1>1, <1>2 DEF Read, Results

\* A step that writes an object with the right counter: the version is new, so that no
\* other writer has read it.
LEMMA WriteStep ==
  ASSUME Constants, TrackerIInv, NEW w \in Writers, NEW result \in Results \ {"none"}, Done(w, result),
         NEW o \in [gen : Nat, count : Nat, refs : Set!Refs], Write(o),
         o.count = Cardinality(Set!Counted(o.refs)), o.count < RefCountMod,
         o # NoObj => o.count > 0
  PROVE  TrackerIInv'
<1>0. Nothing \in [gen : Nat, total : Nat, found : Set!Refs]
  BY DEF Nothing, NoRefs, Set!Refs, Set!RefTypes
<1>1. /\ obj' \in [gen : Nat, count : Nat, refs : Set!Refs] /\ version' = version + 1
      /\ obj'.count = o.count /\ obj'.refs = o.refs
      /\ obj' # NoObj => obj'.gen = version + 1 /\ o # NoObj
      /\ obj'.gen <= version'
  BY DEF Write, TrackerIInv, Types, NoObj
<1>2. Types'
  <2>1. local' \in [Writers -> [gen : Nat, total : Nat, found : Set!Refs]]
    BY <1>0 DEF TrackerIInv, Types, Done
  <2>2. writerPC' \in [Writers -> WriterPlaces]
    BY DEF TrackerIInv, Types, Done, WriterPlaces
  <2>3. call' \in [Writers -> [op : {"none", "Add", "Remove"}, arg : Set!Refs, result : Results]]
    BY DEF TrackerIInv, Types, Done
  <2> QED BY <1>1, <2>1, <2>2, <2>3 DEF TrackerIInv, Types
<1>3. CallsWellFormed'
  BY DEF TrackerIInv, Types, CallsWellFormed, Done, Results
<1>4. /\ \A v \in Writers \ {w} : writerPC'[v] = writerPC[v] /\ call'[v] = call[v] /\ local'[v] = local[v]
      /\ writerPC'[w] = "done" /\ local'[w].gen = 0
  BY DEF TrackerIInv, Types, Done, Nothing
<1>5. WriteChecked'
  BY <1>4 DEF TrackerIInv, WriteChecked
<1>6. VersionsKnown'
  BY <1>1, <1>4 DEF TrackerIInv, Types, VersionsKnown
<1>7. \A v \in Writers : ~(writerPC'[v] = "write" /\ Asserted(v)')
  BY <1>1, <1>4 DEF TrackerIInv, Types, VersionsKnown, Asserted
<1>8. CountExact' /\ obj'.count < RefCountMod
  BY <1>1, <1>7 DEF TrackerIInv, Types, CountExact
<1> QED BY <1>2, <1>3, <1>5, <1>6, <1>8 DEF TrackerIInv

LEMMA InitObjectStep ==
  ASSUME Constants, TrackerIInv, NEW w \in Writers, InitObject(w)
  PROVE  TrackerIInv'
<1>1. CASE Done(w, "failed") /\ UNCHANGED <<obj, version>>
  BY <1>1, DoneStep DEF Results
<1>2. CASE /\ Done(w, "created")
           /\ Write([gen |-> 0, count |-> Cardinality(Set!Requested(call[w].arg)),
                     refs |-> Set!Added(NoRefs, call[w].arg)])
  <2> DEFINE o == [gen |-> 0, count |-> Cardinality(Set!Requested(call[w].arg)),
                   refs |-> Set!Added(NoRefs, call[w].arg)]
  <2>1. /\ call[w].arg \in Set!Refs /\ Set!Requested(call[w].arg) # {}
        /\ Cardinality(Set!Requested(call[w].arg)) < RefCountMod
    BY DEF InitObject, TrackerIInv, Types, CallsWellFormed
  <2>2. /\ Set!Added(NoRefs, call[w].arg) \in Set!Refs
        /\ Set!Counted(Set!Added(NoRefs, call[w].arg)) = Set!Requested(call[w].arg)
        /\ Set!Requested(call[w].arg) \in SUBSET RefKeys
    BY <2>1, FirstAdded
  <2>3. Cardinality(Set!Requested(call[w].arg)) \in Nat \ {0}
    BY <2>1, <2>2, KeySets
  <2>4. /\ o \in [gen : Nat, count : Nat, refs : Set!Refs]
        /\ o.count = Cardinality(Set!Counted(o.refs)) /\ o.count < RefCountMod /\ o.count > 0
    BY <2>1, <2>2, <2>3
  <2>5. "created" \in Results \ {"none"} /\ Write(o) /\ Done(w, "created")
    BY <1>2 DEF Results
  <2> HIDE DEF o
  <2> QED BY <2>4, <2>5, WriteStep
<1> QED BY <1>1, <1>2 DEF InitObject

\* What a writer that passes the assertion has read is what is there.
LEMMA ReadIsCurrent ==
  ASSUME TrackerIInv, NEW w \in Writers, writerPC[w] = "write", Asserted(w)
  PROVE  /\ obj # NoObj /\ obj.count = Cardinality(Set!Counted(obj.refs)) /\ obj.count \in Nat
         /\ obj.count > 0 /\ obj.count < RefCountMod /\ obj.gen # 0
         /\ obj \in [gen : Nat, count : Nat, refs : Set!Refs] /\ obj.refs \in Set!Refs
         /\ call[w].arg \in Set!Refs /\ local[w].found \in Set!Refs
         /\ local[w].total = obj.count
         /\ \A k \in RefKeys : call[w].arg[k] # "none" => local[w].found[k] = obj.refs[k]
         /\ Checked(call[w].op, call[w].arg, local[w].found, obj.count)
         /\ Cardinality(Set!Requested(call[w].arg)) < RefCountMod
  BY DEF TrackerIInv, Types, CountExact, WriteChecked, CallsWellFormed, Asserted

\* An object with another counter and other references.
LEMMA ObjectWith ==
  ASSUME NEW x \in [gen : Nat, count : Nat, refs : Set!Refs], NEW n \in Nat, NEW r \in Set!Refs
  PROVE  /\ [x EXCEPT !.count = n, !.refs = r] \in [gen : Nat, count : Nat, refs : Set!Refs]
         /\ [x EXCEPT !.count = n, !.refs = r].gen = x.gen
         /\ [x EXCEPT !.count = n, !.refs = r].count = n
         /\ [x EXCEPT !.count = n, !.refs = r].refs = r
  OBVIOUS

\* AddRefs writes an object with the sum, which did not wrap.
LEMMA AddRefsStep ==
  ASSUME Constants, TrackerIInv, NEW w \in Writers, AddRefs(w)
  PROVE  /\ TrackerIInv'
         /\ obj'.refs = Set!Added(obj.refs, call[w].arg)
         /\ Cardinality(Set!Counted(Set!Added(obj.refs, call[w].arg))) < RefCountMod
         /\ obj.refs # NoRefs
<1> DEFINE arg == call[w].arg
           found == local[w].found
           new == ToAdd(arg, found)
           written == AddedTo(obj.refs, arg, found)
           o == [obj EXCEPT !.count = Wrap(local[w].total + Cardinality(new)), !.refs = written]
<1>1. writerPC[w] = "write" /\ call[w].op = "Add" /\ Asserted(w) /\ Write(o) /\ Done(w, "added")
  BY DEF AddRefs, AddedTo
<1>2. /\ obj.count = Cardinality(Set!Counted(obj.refs)) /\ obj.count \in Nat /\ obj.count > 0
      /\ obj.count < RefCountMod /\ obj.gen # 0
      /\ obj \in [gen : Nat, count : Nat, refs : Set!Refs] /\ obj.refs \in Set!Refs
      /\ arg \in Set!Refs /\ found \in Set!Refs /\ local[w].total = obj.count
      /\ \A k \in RefKeys : arg[k] # "none" => found[k] = obj.refs[k]
      /\ Checked("Add", arg, found, obj.count)
      /\ Cardinality(Set!Requested(arg)) < RefCountMod
  BY <1>1, ReadIsCurrent
<1>3. /\ \A k \in RefKeys : arg[k] = "none" => found[k] = "none"
      /\ ~(Wrap(obj.count + Cardinality(new)) < obj.count)
  BY <1>2 DEF Checked, Overflow
<1>4. /\ written = Set!Added(obj.refs, arg) /\ written \in Set!Refs
      /\ Set!Counted(written) = Set!Counted(obj.refs) \cup new
      /\ Set!Counted(obj.refs) \cap new = {}
      /\ new \in SUBSET Set!Requested(arg) /\ Set!Requested(arg) \in SUBSET RefKeys
      /\ Set!Counted(obj.refs) \in SUBSET RefKeys
  BY <1>2, <1>3, WriteAdds
<1> HIDE DEF new, written, arg, found
<1>5. Cardinality(new) \in Nat /\ Cardinality(new) < RefCountMod
  <2>1. new \in SUBSET RefKeys
    BY <1>4
  <2>2. Cardinality(new) \in Nat /\ Cardinality(Set!Requested(arg)) \in Nat
    BY <2>1, <1>4, KeySets
  <2>3. Cardinality(new) <= Cardinality(Set!Requested(arg))
    BY <1>4, CountSubset
  <2> QED BY <2>2, <2>3, <1>2 DEF Constants
<1>6. Cardinality(Set!Counted(written)) = obj.count + Cardinality(new)
  <2>1. new \in SUBSET RefKeys
    BY <1>4
  <2> QED BY <2>1, <1>2, <1>4, CountUnion
<1>7. /\ obj.count + Cardinality(new) < RefCountMod
      /\ Wrap(obj.count + Cardinality(new)) = obj.count + Cardinality(new)
  BY <1>2, <1>3, <1>5, SumFits DEF Constants, Wrap
<1>8. /\ o \in [gen : Nat, count : Nat, refs : Set!Refs] /\ o.refs = written
      /\ o.count = obj.count + Cardinality(new) /\ o.gen = obj.gen
  <2>1. Wrap(local[w].total + Cardinality(new)) = obj.count + Cardinality(new)
    BY <1>2, <1>7
  <2>2. obj.count + Cardinality(new) \in Nat
    BY <1>2, <1>5
  <2>3. o = [obj EXCEPT !.count = obj.count + Cardinality(new), !.refs = written]
    BY <2>1
  <2> HIDE DEF o
  <2> QED BY <1>2, <1>4, <2>2, <2>3, ObjectWith
<1> HIDE DEF o
<1>9. o # NoObj /\ o.count > 0
  BY <1>2, <1>5, <1>8 DEF NoObj
<1>10. TrackerIInv'
  <2>1. "added" \in Results \ {"none"}
    BY DEF Results
  <2> QED BY <1>1, <1>6, <1>7, <1>8, <1>9, <2>1, WriteStep
<1>11. obj'.refs = written
  BY <1>1, <1>8, <1>9 DEF Write
<1>12. obj.refs # NoRefs
  <2>1. Set!Counted(NoRefs) = {}
    BY DEF Set!Counted, NoRefs
  <2>2. Cardinality({}) = 0
    BY FS_EmptySet
  <2> QED BY <1>2, <2>1, <2>2
<1> QED BY <1>4, <1>6, <1>7, <1>10, <1>11, <1>12 DEF arg

\* RemoveRefs writes an object with the difference, or removes the one without counted
\* references.
LEMMA RemoveRefsStep ==
  ASSUME Constants, TrackerIInv, NEW w \in Writers, RemoveRefs(w)
  PROVE  /\ TrackerIInv'
         /\ obj'.refs = Set!Removed(obj.refs, call[w].arg)
         /\ call' = [call EXCEPT ![w].result = IF obj'.refs = NoRefs THEN "deleted" ELSE "kept"]
<1> DEFINE arg == call[w].arg
           found == local[w].found
           rc == local[w].total - Subtracted(arg, found)
           written == RemovedFrom(obj.refs, arg, found)
           o == IF rc = 0 THEN NoObj ELSE [obj EXCEPT !.count = rc, !.refs = written]
           result == IF rc = 0 THEN "deleted" ELSE "kept"
<1>1. writerPC[w] = "write" /\ call[w].op = "Remove" /\ Asserted(w) /\ Write(o) /\ Done(w, result)
  BY DEF RemoveRefs, RemovedFrom
<1>2. /\ obj.count = Cardinality(Set!Counted(obj.refs)) /\ obj.count \in Nat /\ obj.count > 0
      /\ obj.count < RefCountMod /\ obj.gen # 0
      /\ obj \in [gen : Nat, count : Nat, refs : Set!Refs] /\ obj.refs \in Set!Refs
      /\ arg \in Set!Refs /\ found \in Set!Refs /\ local[w].total = obj.count
      /\ \A k \in RefKeys : arg[k] # "none" => found[k] = obj.refs[k]
      /\ Checked("Remove", arg, found, obj.count)
  BY <1>1, ReadIsCurrent
<1>3. \A k \in RefKeys : arg[k] = "none" => found[k] = "none"
  BY <1>2 DEF Checked
<1>4. /\ written = Set!Left(obj.refs, arg) /\ written \in Set!Refs
      /\ Set!Counted(obj.refs) = Set!Counted(written) \cup Dropped(arg, found)
      /\ Set!Counted(written) \cap Dropped(arg, found) = {}
      /\ Dropped(arg, found) \in SUBSET RefKeys
      /\ Set!Counted(written) \in SUBSET RefKeys
  BY <1>2, <1>3, WriteRemoves
<1>5. Subtracted(arg, found) = Cardinality(Dropped(arg, found))
  BY DEF Subtracted, Dropped
<1> HIDE DEF written, arg, found
<1>6. /\ Cardinality(Set!Counted(written)) \in Nat /\ Cardinality(Dropped(arg, found)) \in Nat
      /\ Cardinality(Set!Counted(written)) = 0 <=> Set!Counted(written) = {}
  BY <1>4, KeySets
<1>7. obj.count = Cardinality(Set!Counted(written)) + Cardinality(Dropped(arg, found))
  BY <1>2, <1>4, CountUnion
<1>8. rc = Cardinality(Set!Counted(written)) /\ rc \in Nat /\ rc <= obj.count
  BY <1>2, <1>5, <1>6, <1>7
<1> HIDE DEF rc
<1>9. Set!Counted(NoRefs) = {} /\ Cardinality({}) = 0 /\ NoRefs \in Set!Refs
  BY FS_EmptySet DEF Set!Counted, NoRefs, Set!Refs, Set!RefTypes
<1>10. /\ o \in [gen : Nat, count : Nat, refs : Set!Refs]
       /\ rc = 0 => o = NoObj /\ o.refs = NoRefs /\ o.count = 0
       /\ rc # 0 => o.refs = written /\ o.count = rc /\ o.gen = obj.gen
  BY <1>2, <1>4, <1>8, <1>9 DEF NoObj
<1>11. rc # 0 => o # NoObj
  BY <1>2, <1>10 DEF NoObj
<1> HIDE DEF o
<1>12. TrackerIInv'
  <2>1. result \in Results \ {"none"}
    BY DEF Results
  <2>2. /\ o.count = Cardinality(Set!Counted(o.refs)) /\ o.count < RefCountMod
        /\ o # NoObj => o.count > 0
    BY <1>2, <1>8, <1>9, <1>10 DEF Constants
  <2> HIDE DEF result
  <2> QED BY <1>1, <1>10, <2>1, <2>2, WriteStep
<1>13. obj'.refs = IF rc = 0 THEN NoRefs ELSE written
  BY <1>1, <1>10, <1>11 DEF Write, NoObj
<1>14. obj.refs # NoRefs /\ (rc # 0 => written # NoRefs)
  BY <1>2, <1>6, <1>8, <1>9
<1>15. obj'.refs = Set!Removed(obj.refs, arg)
  BY <1>4, <1>6, <1>8, <1>13, <1>14 DEF Set!Removed, Set!NoRefs, NoRefs
<1>16. call' = [call EXCEPT ![w].result = IF obj'.refs = NoRefs THEN "deleted" ELSE "kept"]
  BY <1>1, <1>13, <1>14 DEF Done
<1> QED BY <1>12, <1>15, <1>16 DEF arg

\* The invariant is inductive.
LEMMA NextIInv == ASSUME Constants, TrackerIInv, [TrackerNext]_trackerVars PROVE TrackerIInv'
<1>1. ASSUME NEW w \in Writers, NEW op \in {"Add", "Remove"}, NEW arg \in Set!Refs, Call(w, op, arg)
      PROVE  TrackerIInv'
  BY <1>1, CallStep
<1>2. ASSUME NEW w \in Writers, ReadVersion(w)
      PROVE  TrackerIInv'
  BY <1>2, ReadVersionStep
<1>3. ASSUME NEW w \in Writers, InitObject(w)
      PROVE  TrackerIInv'
  BY <1>3, InitObjectStep
<1>4. ASSUME NEW w \in Writers, Read(w)
      PROVE  TrackerIInv'
  BY <1>4, ReadStep
<1>5. ASSUME NEW w \in Writers, AddRefs(w)
      PROVE  TrackerIInv'
  BY <1>5, AddRefsStep
<1>6. ASSUME NEW w \in Writers, RemoveRefs(w)
      PROVE  TrackerIInv'
  BY <1>6, RemoveRefsStep
<1>7. ASSUME NEW w \in Writers, WriteAborted(w)
      PROVE  TrackerIInv'
  BY <1>7, DoneStep DEF WriteAborted, Results
<1>8. ASSUME NEW w \in Writers, Fault(w)
      PROVE  TrackerIInv'
  BY <1>8, DoneStep DEF Fault, Results
<1>9. ASSUME NEW w \in Writers, Return(w)
      PROVE  TrackerIInv'
  BY <1>9, ReturnStep
<1>10. CASE UNCHANGED trackerVars
  BY <1>10 DEF trackerVars, TrackerIInv, Types, CallsWellFormed, WriteChecked, VersionsKnown, CountExact,
               Asserted
<1> QED BY <1>1, <1>2, <1>3, <1>4, <1>5, <1>6, <1>7, <1>8, <1>9, <1>10 DEF TrackerNext

\* The counter of the tracker is the number of its counted references, whatever the writers
\* race for and however close it is to its limit (v1.Add, v1.Remove).
THEOREM CounterExact == ASSUME Constants PROVE TrackerSpec => []CountExact
<1>1. TrackerInit => TrackerIInv
  BY InitIInv
<1>2. TrackerIInv /\ [TrackerNext]_trackerVars => TrackerIInv'
  BY NextIInv
<1>3. TrackerIInv => CountExact
  BY DEF TrackerIInv
<1> QED BY <1>1, <1>2, <1>3, PTL DEF TrackerSpec

-----------------------------------------------------------------------------
(* The refinement of RefSet *)

\* A step of the set of references, or none.
AbstractStep == Set!Next \/ UNCHANGED <<obj.refs, Answers>>

\* The abstract result.
Told(result) == IF result \in {"panic", "crashed"} THEN "failed" ELSE result

\* The end of a call is the abstract answer.
LEMMA DoneAnswers ==
  ASSUME TrackerIInv, NEW w \in Writers, NEW result \in Results \ {"none"}, Done(w, result),
         writerPC[w] \in {"version", "init", "read", "write"}
  PROVE  /\ Set!Answer(w, Told(result)) /\ Answers[w] = call[w]
         /\ call[w].op \in {"Add", "Remove"} /\ call[w].result = "none" /\ call[w].arg \in Set!Refs
         /\ Set!Pending(w, call[w].op)
<1>1. /\ call \in [Writers -> [op : {"none", "Add", "Remove"}, arg : Set!Refs, result : Results]]
      /\ call[w].op \in {"Add", "Remove"} /\ call[w].result = "none" /\ call[w].arg \in Set!Refs
      /\ call' = [call EXCEPT ![w].result = result]
  BY DEF TrackerIInv, Types, CallsWellFormed, Done
<1>2. Answers[w] = call[w]
  BY <1>1 DEF Answers
<1>3. Answers' = [Answers EXCEPT ![w].result = Told(result)]
  BY <1>1 DEF Answers, Told, Results
<1> QED BY <1>1, <1>2, <1>3 DEF Set!Answer, Set!Pending

\* A failing call is a failing call of the set.
LEMMA FailStep ==
  ASSUME TrackerIInv, NEW w \in Writers, NEW result \in {"failed", "panic", "crashed"}, Done(w, result),
         writerPC[w] \in {"version", "init", "read", "write"}, UNCHANGED obj
  PROVE  AbstractStep
<1>1. result \in Results \ {"none"} /\ Told(result) = "failed"
  BY DEF Results, Told
<1>2. /\ Set!Answer(w, "failed") /\ Answers[w] = call[w]
      /\ call[w].op \in {"Add", "Remove"} /\ Set!Pending(w, call[w].op)
  BY <1>1, DoneAnswers
<1>3. Set!Fail(w)
  BY <1>2 DEF Set!Fail
<1> QED BY <1>3 DEF AbstractStep, Set!Next

\* A step that ends no call is no step of the set.
LEMMA GotoStutters ==
  ASSUME NEW w \in Writers, NEW place, NEW l, WriterGoto(w, place, l), UNCHANGED obj
  PROVE  AbstractStep
  BY DEF AbstractStep, WriterGoto, Answers

LEMMA CallRefines ==
  ASSUME TrackerIInv, NEW w \in Writers, NEW op \in {"Add", "Remove"}, NEW arg \in Set!Refs,
         Call(w, op, arg)
  PROVE  AbstractStep
<1>1. /\ call \in [Writers -> [op : {"none", "Add", "Remove"}, arg : Set!Refs, result : Results]]
      /\ call[w] = Set!NoCall /\ obj' = obj
      /\ call' = [call EXCEPT ![w] = [op |-> op, arg |-> arg, result |-> "none"]]
  BY DEF TrackerIInv, Types, CallsWellFormed, Call
<1>2. Answers[w] = Set!NoCall
  BY <1>1 DEF Answers, Set!NoCall
<1>3. /\ Answers'[w] = [op |-> op, arg |-> arg, result |-> "none"]
      /\ Answers' = [Answers EXCEPT ![w] = Answers'[w]]
  BY <1>1 DEF Answers
<1>4. Answers'[w] \in [op : {"Add", "Remove"}, arg : Set!Refs, result : {"none"}]
  BY <1>3
<1>5. Set!Call(w)
  BY <1>1, <1>2, <1>3, <1>4 DEF Set!Call
<1> QED BY <1>5 DEF AbstractStep, Set!Next

LEMMA ReturnRefines ==
  ASSUME TrackerIInv, NEW w \in Writers, Return(w)
  PROVE  AbstractStep
<1>1. /\ call \in [Writers -> [op : {"none", "Add", "Remove"}, arg : Set!Refs, result : Results]]
      /\ call[w].result # "none" /\ obj' = obj
      /\ call' = [call EXCEPT ![w] = Set!NoCall]
  BY DEF TrackerIInv, Types, CallsWellFormed, Return
<1>2. Answers[w].result # "none"
  BY <1>1 DEF Answers
<1>3. Answers' = [Answers EXCEPT ![w] = Set!NoCall]
  BY <1>1 DEF Answers, Set!NoCall
<1>4. Set!Return(w)
  BY <1>1, <1>2, <1>3 DEF Set!Return
<1> QED BY <1>4 DEF AbstractStep, Set!Next

\* Without an object there are no references, and only then.
LEMMA ObjectHasRefs ==
  ASSUME Constants, TrackerIInv
  PROVE  /\ obj = NoObj <=> obj.refs = NoRefs
         /\ obj.refs \in Set!Refs /\ Cardinality(Set!Counted(obj.refs)) < RefCountMod
         /\ obj # NoObj => Set!Counted(obj.refs) # {}
<1>1. Set!Counted(NoRefs) = {} /\ Cardinality({}) = 0
  BY FS_EmptySet DEF Set!Counted, NoRefs
<1>2. /\ obj \in [gen : Nat, count : Nat, refs : Set!Refs] /\ obj.count < RefCountMod
      /\ obj.count = Cardinality(Set!Counted(obj.refs)) /\ (obj # NoObj => obj.count > 0)
  BY DEF TrackerIInv, Types, CountExact
<1>3. obj = NoObj => obj.refs = NoRefs
  BY DEF NoObj
<1> QED BY <1>1, <1>2, <1>3

\* A Remove that finds no object has nothing to do.
LEMMA ReadVersionRefines ==
  ASSUME Constants, TrackerIInv, NEW w \in Writers, ReadVersion(w)
  PROVE  AbstractStep
<1>1. CASE \E place, l : WriterGoto(w, place, l)
  BY <1>1, GotoStutters DEF ReadVersion
<1>2. CASE obj = NoObj /\ call[w].op = "Remove" /\ Done(w, "deleted")
  <2>1. writerPC[w] \in {"version", "init", "read", "write"} /\ obj' = obj
    BY DEF ReadVersion
  <2>2. "deleted" \in Results \ {"none"} /\ Told("deleted") = "deleted"
    BY DEF Results, Told
  <2>3. Set!Answer(w, "deleted") /\ Answers[w] = call[w] /\ Set!Pending(w, "Remove")
    BY <1>2, <2>1, <2>2, DoneAnswers
  <2>4. obj.refs = Set!NoRefs
    BY <1>2 DEF NoObj, NoRefs, Set!NoRefs
  <2>5. obj'.refs = Set!Removed(obj.refs, Answers[w].arg) /\ obj'.refs = Set!NoRefs
    BY <2>1, <2>4 DEF Set!Removed
  <2>6. Set!Remove(w)
    BY <2>3, <2>5 DEF Set!Remove
  <2> QED BY <2>6 DEF AbstractStep, Set!Next
<1> QED BY <1>1, <1>2 DEF ReadVersion

\* The instance of the set counts as the tracker does.
LEMMA FitsMeans ==
  ASSUME NEW r, Cardinality(Set!Counted(r)) < RefCountMod
  PROVE  Set!Fits(r)
<1>1. Set!Cardinality(Set!Counted(r)) = Cardinality(Set!Counted(r))
  BY DEF Set!Cardinality, Cardinality
<1> QED BY <1>1 DEF Set!Fits

\* The creation of the object is the first Add.
LEMMA InitObjectRefines ==
  ASSUME Constants, TrackerIInv, NEW w \in Writers, InitObject(w)
  PROVE  AbstractStep
<1> DEFINE o == [gen |-> 0, count |-> Cardinality(Set!Requested(call[w].arg)),
                 refs |-> Set!Added(NoRefs, call[w].arg)]
<1>0. writerPC[w] \in {"version", "init", "read", "write"} /\ call[w].op = "Add"
  BY DEF InitObject, TrackerIInv, CallsWellFormed
<1>1. CASE Done(w, "failed") /\ UNCHANGED <<obj, version>>
  BY <1>0, <1>1, FailStep
<1>2. CASE obj = NoObj /\ Done(w, "created") /\ Write(o)
  <2>1. "created" \in Results \ {"none"} /\ Told("created") = "created"
    BY DEF Results, Told
  <2>2. /\ Set!Answer(w, "created") /\ Answers[w] = call[w] /\ Set!Pending(w, "Add")
        /\ call[w].arg \in Set!Refs
    BY <1>0, <1>2, <2>1, DoneAnswers
  <2>3. /\ Set!Requested(call[w].arg) # {}
        /\ Cardinality(Set!Requested(call[w].arg)) < RefCountMod
    BY <1>0 DEF TrackerIInv, CallsWellFormed
  <2>4. /\ Set!Counted(Set!Added(NoRefs, call[w].arg)) = Set!Requested(call[w].arg)
        /\ Set!Requested(call[w].arg) \in SUBSET RefKeys
    BY <2>2, FirstAdded
  <2>5. Cardinality(Set!Requested(call[w].arg)) # 0
    BY <2>3, <2>4, KeySets
  <2>6. o # NoObj /\ o.refs = Set!Added(NoRefs, call[w].arg)
    BY <2>5 DEF NoObj
  <2>7. obj'.refs = o.refs
    BY <1>2, <2>6 DEF Write
  <2>8. obj.refs = NoRefs /\ NoRefs = Set!NoRefs
    BY <1>2 DEF NoObj, NoRefs, Set!NoRefs
  <2>9. Set!Fits(Set!Added(obj.refs, Answers[w].arg))
    <3>1. Set!Fits(Set!Added(NoRefs, call[w].arg))
      BY <2>3, <2>4, FitsMeans
    <3> QED BY <3>1, <2>2, <2>8
  <2>10. Set!Add(w)
    BY <2>2, <2>6, <2>7, <2>8, <2>9 DEF Set!Add
  <2> QED BY <2>10 DEF AbstractStep, Set!Next
<1> QED BY <1>1, <1>2 DEF InitObject

\* Keys that are all tracked, or all gone, need no write.
LEMMA NothingToDoRefines ==
  ASSUME NEW r \in Set!Refs, NEW arg \in Set!Refs, NEW found \in Set!Refs,
         \A k \in RefKeys : found[k] = IF arg[k] # "none" THEN r[k] ELSE "none"
  PROVE  /\ NothingToDo("Add", arg, found) => Set!Added(r, arg) = r
         /\ NothingToDo("Remove", arg, found) => Set!Left(r, arg) = r
<1>1. ASSUME ToAdd(arg, found) = {} PROVE Set!Added(r, arg) = r
  BY <1>1 DEF ToAdd, Set!Added, Set!Refs, Set!RefTypes
<1>2. ASSUME ToRemove(arg, found) \cup ToMask(arg, found) = {} PROVE Set!Left(r, arg) = r
  <2>1. ASSUME NEW k \in RefKeys
        PROVE  (arg[k] = "Normal" => r[k] = "none") /\ (arg[k] = "Mask" => r[k] = "Mask")
    BY <1>2 DEF ToRemove, ToMask
  <2> QED BY <2>1 DEF Set!Left, Set!Refs, Set!RefTypes
<1> QED BY <1>1, <1>2 DEF NothingToDo

\* A Read that ends without a write is the whole call.
LEMMA ReadRefines ==
  ASSUME Constants, TrackerIInv, NEW w \in Writers, Read(w)
  PROVE  AbstractStep
<1> DEFINE op == call[w].op
           arg == call[w].arg
           found == [k \in RefKeys |-> IF arg[k] # "none" THEN obj.refs[k] ELSE "none"]
<1>0. /\ writerPC[w] \in {"version", "init", "read", "write"} /\ obj' = obj /\ obj'.refs = obj.refs
      /\ op \in {"Add", "Remove"} /\ arg \in Set!Refs /\ obj.refs \in Set!Refs
  BY DEF Read, TrackerIInv, Types, CallsWellFormed
<1>1. CASE \E place, l : WriterGoto(w, place, l)
  BY <1>0, <1>1, GotoStutters
<1>2. CASE \E result \in {"failed", "panic"} : Done(w, result)
  BY <1>0, <1>2, FailStep
<1>3. CASE /\ obj # NoObj /\ NothingToDo(op, arg, found)
           /\ Done(w, IF op = "Add" THEN "added" ELSE "kept")
  <2> DEFINE result == IF op = "Add" THEN "added" ELSE "kept"
  <2>1. result \in Results \ {"none"} /\ Told(result) = result
    BY DEF Results, Told
  <2>2. Set!Answer(w, result) /\ Answers[w] = call[w] /\ Set!Pending(w, op)
    BY <1>0, <1>3, <2>1, DoneAnswers
  <2>3. found \in Set!Refs /\ \A k \in RefKeys : found[k] = IF arg[k] # "none" THEN obj.refs[k] ELSE "none"
    BY <1>0 DEF Set!Refs, Set!RefTypes
  <2>4. /\ op = "Add" => Set!Added(obj.refs, arg) = obj.refs
        /\ op = "Remove" => Set!Left(obj.refs, arg) = obj.refs
    BY <1>0, <1>3, <2>3, NothingToDoRefines
  <2>5. /\ obj.refs # NoRefs /\ Set!Counted(obj.refs) # {} /\ NoRefs = Set!NoRefs
        /\ Cardinality(Set!Counted(obj.refs)) < RefCountMod
    BY <1>3, ObjectHasRefs DEF NoRefs, Set!NoRefs
  <2>6. CASE op = "Add"
    <3>1. Set!Fits(obj.refs)
      BY <2>5, FitsMeans
    <3>2. Set!Add(w)
      BY <1>0, <2>2, <2>4, <2>5, <2>6, <3>1 DEF Set!Add
    <3> QED BY <3>2 DEF AbstractStep, Set!Next
  <2>7. CASE op = "Remove"
    <3>1. Set!Removed(obj.refs, arg) = obj.refs
      BY <2>4, <2>5, <2>7 DEF Set!Removed
    <3>2. Set!Remove(w)
      BY <1>0, <2>2, <2>5, <2>7, <3>1 DEF Set!Remove
    <3> QED BY <3>2 DEF AbstractStep, Set!Next
  <2> QED BY <1>0, <2>6, <2>7
<1> QED BY <1>1, <1>2, <1>3 DEF Read

LEMMA AddRefsRefines ==
  ASSUME Constants, TrackerIInv, NEW w \in Writers, AddRefs(w)
  PROVE  AbstractStep
<1>1. /\ writerPC[w] \in {"version", "init", "read", "write"} /\ call[w].op = "Add" /\ Done(w, "added")
  BY DEF AddRefs
<1>2. "added" \in Results \ {"none"} /\ Told("added") = "added"
  BY DEF Results, Told
<1>3. Set!Answer(w, "added") /\ Answers[w] = call[w] /\ Set!Pending(w, "Add")
  BY <1>1, <1>2, DoneAnswers
<1>4. /\ obj'.refs = Set!Added(obj.refs, call[w].arg) /\ obj.refs # NoRefs
      /\ Set!Fits(Set!Added(obj.refs, call[w].arg)) /\ NoRefs = Set!NoRefs
  BY AddRefsStep, FitsMeans DEF NoRefs, Set!NoRefs
<1>5. Set!Add(w)
  BY <1>3, <1>4 DEF Set!Add
<1> QED BY <1>5 DEF AbstractStep, Set!Next

LEMMA RemoveRefsRefines ==
  ASSUME Constants, TrackerIInv, NEW w \in Writers, RemoveRefs(w)
  PROVE  AbstractStep
<1> DEFINE result == IF obj'.refs = NoRefs THEN "deleted" ELSE "kept"
<1>1. writerPC[w] \in {"version", "init", "read", "write"} /\ call[w].op = "Remove"
  BY DEF RemoveRefs
<1>2. /\ obj'.refs = Set!Removed(obj.refs, call[w].arg)
      /\ call' = [call EXCEPT ![w].result = result]
  BY RemoveRefsStep
<1>3. result \in Results \ {"none"} /\ Told(result) = result
  BY DEF Results, Told
<1>4. Done(w, result)
  BY <1>2 DEF RemoveRefs, Done
<1> HIDE DEF result
<1>5. Set!Answer(w, result) /\ Answers[w] = call[w] /\ Set!Pending(w, "Remove")
  BY <1>1, <1>3, <1>4, DoneAnswers
<1>6. result = IF obj'.refs = Set!NoRefs THEN "deleted" ELSE "kept"
  BY DEF result, NoRefs, Set!NoRefs
<1>7. Set!Remove(w)
  BY <1>2, <1>5, <1>6 DEF Set!Remove
<1> QED BY <1>7 DEF AbstractStep, Set!Next

\* Every step is a step of the set of references, or none.
LEMMA NextRefines == ASSUME Constants, TrackerIInv, [TrackerNext]_trackerVars PROVE [Set!Next]_(Set!vars)
<1>1. AbstractStep
  <2>1. ASSUME NEW w \in Writers, NEW op \in {"Add", "Remove"}, NEW arg \in Set!Refs,
               Call(w, op, arg)
        PROVE  AbstractStep
    BY <2>1, CallRefines
  <2>2. ASSUME NEW w \in Writers, WriteAborted(w) PROVE AbstractStep
    BY <2>2, FailStep DEF WriteAborted
  <2>3. ASSUME NEW w \in Writers, Fault(w) PROVE AbstractStep
    BY <2>3, FailStep DEF Fault, Writing
  <2>4. CASE UNCHANGED trackerVars
    BY <2>4 DEF trackerVars, AbstractStep, Answers
  <2> QED BY <2>1, <2>2, <2>3, <2>4, ReadVersionRefines, InitObjectRefines, ReadRefines,
             AddRefsRefines, RemoveRefsRefines, ReturnRefines DEF TrackerNext
<1> QED BY <1>1 DEF AbstractStep, Set!vars

\* Add and Remove are atomic, although each is up to three operations on the cluster between
\* which other writers come: the tracker implements the set of references ("Add atomically
\* adds references", reftracker.go).
THEOREM TrackerAtomic == ASSUME Constants PROVE TrackerSpec => Atomic
<1>1. TrackerInit => TrackerIInv
  BY InitIInv
<1>2. TrackerIInv /\ [TrackerNext]_trackerVars => TrackerIInv'
  BY NextIInv
<1>3. TrackerInit => Set!Init
  BY DEF TrackerInit, Set!Init, NoObj, NoRefs, Set!NoRefs, Answers, Set!NoCall
<1>4. TrackerIInv /\ [TrackerNext]_trackerVars => [Set!Next]_(Set!vars)
  BY NextRefines
<1> QED BY <1>1, <1>2, <1>3, <1>4, PTL DEF TrackerSpec, Atomic, Set!Spec
=============================================================================
