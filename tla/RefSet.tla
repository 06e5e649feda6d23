------------------------------- MODULE RefSet -------------------------------
(***************************************************************************)
(* What internal/util/reftracker promises (the comments of reftracker.go): *)
(* a set of typed references, shared by writers on many nodes, to which    *)
(* references are added and from which they are removed atomically.  When  *)
(* no counted reference is left the whole set is gone.  A call that fails  *)
(* has no effect.                                                          *)
(***************************************************************************)
EXTENDS References

CONSTANTS Writers,        \* processes that call Add and Remove
          RefCountMod     \* size of the type of the counter, 2^32

Calls == [op : {"none", "Add", "Remove"}, arg : Refs,
          result : {"none", "created", "added", "deleted", "kept", "failed"}]

NoCall == [op |-> "none", arg |-> NoRefs, result |-> "none"]

VARIABLES refs, call

vars == <<refs, call>>

Init == refs = NoRefs /\ call = [w \in Writers |-> NoCall]

\* A call with any arguments.
Call(w) ==
    /\ call[w] = NoCall
    /\ call'[w] \in [op : {"Add", "Remove"}, arg : Refs, result : {"none"}]
    /\ call' = [call EXCEPT ![w] = call'[w]]
    /\ UNCHANGED refs

Pending(w, op) == call[w].op = op /\ call[w].result = "none"

Answer(w, result) == call' = [call EXCEPT ![w].result = result]

\* The counter has room for the new references.
Fits(r) == Cardinality(Counted(r)) < RefCountMod

Add(w) ==
    /\ Pending(w, "Add")
    /\ Fits(Added(refs, call[w].arg))
    /\ refs' = Added(refs, call[w].arg)
    /\ Answer(w, IF refs = NoRefs THEN "created" ELSE "added")

Remove(w) ==
    /\ Pending(w, "Remove")
    /\ refs' = Removed(refs, call[w].arg)
    /\ Answer(w, IF refs' = NoRefs THEN "deleted" ELSE "kept")

\* A call may also fail.
Fail(w) ==
    /\ Pending(w, call[w].op) /\ call[w].op # "none"
    /\ Answer(w, "failed")
    /\ UNCHANGED refs

Return(w) == /\ call[w].result # "none"
             /\ call' = [call EXCEPT ![w] = NoCall]
             /\ UNCHANGED refs

Next == \E w \in Writers :
           Call(w) \/ Add(w) \/ Remove(w) \/ Fail(w) \/ Return(w)

Spec == Init /\ [][Next]_vars
=============================================================================
