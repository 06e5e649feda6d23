----------------------------- MODULE RefTracker -----------------------------
(***************************************************************************)
(* internal/util/reftracker: a reference counter in a RADOS object, used   *)
(* by CephFS for the volumes that are backed by a snapshot.  The object    *)
(* has the references in its omap and their number in its data.            *)
(*                                                                         *)
(* Writers on several nodes read the version of the object, read it under  *)
(* an assertion of that version, and write it under the same assertion.    *)
(* Each of these is one RADOS operation.                                   *)
(***************************************************************************)
EXTENDS Integers, FiniteSets

CONSTANTS Writers, RefKeys, RefCountMod,
          MaxVersion     \* bound: writes to the object

VARIABLES
    obj,      \* the object, NoObj if it does not exist
    version,  \* the last version RADOS gave out; it never goes back
    call,     \* the call of each writer and its result, as in RefSet
    writerPC,  \* where the writer is
    local     \* what the writer read: gen, total and foundRefs

trackerVars == <<obj, version, call, writerPC, local>>

\* The mapping to the abstract set: a missing object holds no references, and
\* a panic is a failure ("panic" when the object is gone, "crashed" when the
\* read failed otherwise).
Answers == [w \in Writers |-> IF call[w].result \in {"panic", "crashed"}
                              THEN [call[w] EXCEPT !.result = "failed"] ELSE call[w]]

Set == INSTANCE RefSet WITH Keys <- RefKeys, refs <- obj.refs, call <- Answers

NoRefs == [k \in RefKeys |-> "none"]
NoObj == [gen |-> 0, count |-> 0, refs |-> NoRefs]
Nothing == [gen |-> 0, total |-> 0, found |-> NoRefs]

WriterPlaces == {"idle", "version", "init", "read", "write", "done"}

TrackerTypeOK ==
    /\ obj \in [gen : 0 .. MaxVersion, count : 0 .. RefCountMod - 1, refs : Set!Refs]
    /\ version \in 0 .. MaxVersion
    /\ Answers \in [Writers -> Set!Calls]
    /\ writerPC \in [Writers -> WriterPlaces]
    /\ local \in [Writers -> [gen : 0 .. MaxVersion, total : 0 .. RefCountMod - 1,
                              found : Set!Refs]]

TrackerInit == /\ obj = NoObj /\ version = 0
               /\ call = [w \in Writers |-> Set!NoCall]
               /\ writerPC = [w \in Writers |-> "idle"]
               /\ local = [w \in Writers |-> Nothing]

-----------------------------------------------------------------------------

\* Writers that are about to call the cluster.
Writing == {w \in Writers : writerPC[w] \in {"version", "init", "read", "write"}}

\* Add or Remove is called; a call has fewer references than the counter can
\* count.
Call(w, op, arg) ==
    /\ writerPC[w] = "idle"
    /\ Set!Requested(arg) # {} /\ Cardinality(Set!Requested(arg)) < RefCountMod
    /\ op = "Add" => \A k \in RefKeys : arg[k] # "Mask"
    /\ call' = [call EXCEPT ![w] = [op |-> op, arg |-> arg, result |-> "none"]]
    /\ writerPC' = [writerPC EXCEPT ![w] = "version"]
    /\ UNCHANGED <<obj, version, local>>

Done(w, result) == /\ call' = [call EXCEPT ![w].result = result]
                   /\ writerPC' = [writerPC EXCEPT ![w] = "done"]
                   /\ local' = [local EXCEPT ![w] = Nothing]

WriterGoto(w, place, l) == /\ writerPC' = [writerPC EXCEPT ![w] = place]
                           /\ local' = [local EXCEPT ![w] = l]
                           /\ UNCHANGED call

\* version.Read and GetLastVersion.
ReadVersion(w) ==
    /\ writerPC[w] = "version"
    /\ \/ /\ obj = NoObj /\ call[w].op = "Add"
          /\ WriterGoto(w, "init", Nothing)
       \/ /\ obj = NoObj /\ call[w].op = "Remove"
          /\ Done(w, "deleted")
       \/ /\ obj # NoObj
          /\ WriterGoto(w, "read", [Nothing EXCEPT !.gen = obj.gen])
    /\ UNCHANGED <<obj, version>>

\* At the bound of the versions writes can only fail.
Write(o) == /\ version < MaxVersion
            /\ version' = version + 1
            /\ obj' = IF o = NoObj THEN NoObj ELSE [o EXCEPT !.gen = version + 1]

\* Mutant: the object is created without the exclusive flag.
InitObjectShared(w) ==
    /\ writerPC[w] = "init"
    /\ Write([gen |-> 0, count |-> Cardinality(Set!Requested(call[w].arg)),
              refs |-> Set!Added(NoRefs, call[w].arg)])
    /\ Done(w, "created")

\* v1.Init: the creation is exclusive.
InitObject(w) ==
    /\ writerPC[w] = "init"
    /\ \/ /\ obj = NoObj
          /\ Write([gen |-> 0, count |-> Cardinality(Set!Requested(call[w].arg)),
                     refs |-> Set!Added(NoRefs, call[w].arg)])
          /\ Done(w, "created")
       \/ /\ obj # NoObj
          /\ Done(w, "failed")
          /\ UNCHANGED <<obj, version>>

Wrap(n) == n % RefCountMod

\* v1.Add: the keys to add are those not found.
ToAdd(arg, found) == {k \in RefKeys : arg[k] # "none" /\ found[k] = "none"}

\* v1.Remove: keys to remove, keys to set to Mask, and what to subtract.
ToRemove(arg, found) == {k \in RefKeys : arg[k] = "Normal" /\ found[k] # "none"}
ToMask(arg, found) == {k \in RefKeys : arg[k] = "Mask" /\ found[k] # "Mask"}

Subtracted(arg, found) ==
    Cardinality({k \in ToRemove(arg, found) \cup ToMask(arg, found) : found[k] = "Normal"})

NothingToDo(op, arg, found) ==
    IF op = "Add" THEN ToAdd(arg, found) = {}
    ELSE ToRemove(arg, found) \cup ToMask(arg, found) = {}

\* Mutant: the sum is not checked.
OverflowUnchecked(op, arg, found, total) == op = "Remove" /\ Subtracted(arg, found) > total

\* "addition would overflow uint32 refcount", "refcount underflow".
Overflow(op, arg, found, total) ==
    IF op = "Add" THEN Wrap(total + Cardinality(ToAdd(arg, found))) < total
    ELSE Subtracted(arg, found) > total

\* readObjectByKeys, and what v1.Add and v1.Remove do before the next RADOS
\* operation.  When the object is gone the read returns neither a result nor an
\* error, because TryRADOSAborted knows the errors of the assertion only, and
\* the nil result is dereferenced.
Read(w) ==
    /\ writerPC[w] = "read"
    /\ LET op == call[w].op
           arg == call[w].arg
           found == [k \in RefKeys |-> IF arg[k] # "none" THEN obj.refs[k] ELSE "none"] IN
         \/ /\ obj = NoObj
            /\ Done(w, "panic")
         \/ /\ obj # NoObj /\ obj.gen # local[w].gen
            /\ Done(w, "failed")
         \/ /\ obj # NoObj /\ obj.gen = local[w].gen
            /\ IF NothingToDo(op, arg, found)
               THEN Done(w, IF op = "Add" THEN "added" ELSE "kept")
               ELSE IF Overflow(op, arg, found, obj.count)
               THEN Done(w, "failed")
               ELSE WriterGoto(w, "write", [gen |-> obj.gen, total |-> obj.count, found |-> found])
    /\ UNCHANGED <<obj, version>>

\* AssertVersion
Asserted(w) == obj # NoObj /\ obj.gen = local[w].gen

\* The write of v1.Add.
AddRefs(w) ==
    LET new == ToAdd(call[w].arg, local[w].found) IN
    /\ writerPC[w] = "write" /\ call[w].op = "Add"
    /\ Asserted(w)
    /\ Write([obj EXCEPT !.count = Wrap(local[w].total + Cardinality(new)),
                         !.refs = [k \in RefKeys |-> IF k \in new THEN "Normal" ELSE obj.refs[k]]])
    /\ Done(w, "added")

\* The write of v1.Remove, which removes the object with its last counted
\* reference.
RemoveRefs(w) ==
    LET arg == call[w].arg
        found == local[w].found
        rc == local[w].total - Subtracted(arg, found) IN
    /\ writerPC[w] = "write" /\ call[w].op = "Remove"
    /\ Asserted(w)
    /\ Write(IF rc = 0 THEN NoObj
             ELSE [obj EXCEPT !.count = rc,
                              !.refs = [k \in RefKeys |->
                                           CASE k \in ToRemove(arg, found) -> "none"
                                             [] k \in ToMask(arg, found) -> "Mask"
                                             [] OTHER -> obj.refs[k]]])
    /\ Done(w, IF rc = 0 THEN "deleted" ELSE "kept")

\* Somebody else has written in between.
WriteAborted(w) == /\ writerPC[w] = "write" /\ ~ Asserted(w)
                   /\ Done(w, "failed")
                   /\ UNCHANGED <<obj, version>>

\* A call to the cluster fails; after a failing readObjectByKeys the nil result is
\* dereferenced too.
Fault(w) == /\ w \in Writing
            /\ Done(w, IF writerPC[w] = "read" THEN "crashed" ELSE "failed")
            /\ UNCHANGED <<obj, version>>

Return(w) == /\ writerPC[w] = "done"
             /\ call' = [call EXCEPT ![w] = Set!NoCall]
             /\ writerPC' = [writerPC EXCEPT ![w] = "idle"]
             /\ UNCHANGED <<obj, version, local>>

TrackerNext == \E w \in Writers :
                  \/ \E op \in {"Add", "Remove"}, arg \in Set!Refs : Call(w, op, arg)
                  \/ ReadVersion(w) \/ InitObject(w) \/ Read(w)
                  \/ AddRefs(w) \/ RemoveRefs(w) \/ WriteAborted(w)
                  \/ Fault(w) \/ Return(w)

TrackerSpec == TrackerInit /\ [][TrackerNext]_trackerVars

-----------------------------------------------------------------------------
(* Properties *)

\* The counter is the number of counted references, and an object without any
\* does not exist, whatever the writers race for and however close the counter
\* is to its limit.  What a writer will write under the assertion of the version
\* it read is based on what is there.
CountExact ==
    /\ obj.count = Cardinality(Set!Counted(obj.refs))
    /\ obj # NoObj => obj.gen # 0 /\ obj.count > 0
    /\ \A w \in Writers : writerPC[w] = "write" /\ Asserted(w) =>
          /\ local[w].total = obj.count
          /\ \A k \in RefKeys : call[w].arg[k] # "none" => local[w].found[k] = obj.refs[k]

\* The calls are atomic (reftracker.go: "Add atomically adds references",
\* "Remove atomically removes references", "It guarantees there will be no
\* duplicit increments or decrements of the counter"): the tracker implements
\* the set of references.
Atomic == Set!Spec

-----------------------------------------------------------------------------
(* Claims of the repository that the code does not keep *)

\* reftracker.go:39: the tracker "is safe to use with multiple concurrent
\* writers".  A writer that finds the object gone, after it has read its version,
\* dereferences a nil pointer.  Does not hold (README, Known disagreements).
NoPanic == \A w \in Writers : call[w].result # "panic"
=============================================================================
