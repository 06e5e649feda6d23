---------------------------- MODULE LockCallers ----------------------------
(* The goroutines that use the locks of internal/util.                     *)
EXTENDS FiniteSets

CONSTANT Callers

ASSUME CallersFinite == IsFiniteSet(Callers)
=============================================================================
