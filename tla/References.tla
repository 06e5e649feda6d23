----------------------------- MODULE References -----------------------------
(***************************************************************************)
(* The typed references of internal/util/reftracker, and what Add and      *)
(* Remove make of them.                                                    *)
(***************************************************************************)
EXTENDS Integers, FiniteSets

CONSTANT Keys      \* keys of references

\* reftype: a Normal reference is counted; a Mask is kept, not counted, and
\* hides its key from Add.
RefTypes == {"none", "Normal", "Mask"}

Refs == [Keys -> RefTypes]
NoRefs == [k \in Keys |-> "none"]

Counted(r) == {k \in Keys : r[k] = "Normal"}

\* An argument of Add or Remove: the keys of K, with type t.
Arg(K, t) == [k \in Keys |-> IF k \in K THEN t ELSE "none"]
Requested(arg) == {k \in Keys : arg[k] # "none"}

\* Add(refs): keys that are tracked already are not added again.
Added(r, arg) == [k \in Keys |-> IF arg[k] # "none" /\ r[k] = "none" THEN "Normal" ELSE r[k]]

\* Remove(refs): what is left of the references.
Left(r, arg) == [k \in Keys |-> CASE arg[k] = "Normal" -> "none"
                                  [] arg[k] = "Mask" -> "Mask"
                                  [] OTHER -> r[k]]

\* Without a counted reference the object is deleted.
Removed(r, arg) == IF r = NoRefs \/ Counted(Left(r, arg)) = {} THEN NoRefs ELSE Left(r, arg)
=============================================================================
