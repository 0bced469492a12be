----------------------------- MODULE MCLifecycle -----------------------------
(***************************************************************************)
(* Lifecycle for TLC.  The constants get their values in the .cfg files,   *)
(* one per question; roles are interchangeable, goroutines are not (one of *)
(* them is the reconciler), identities are ordered.                        *)
(***************************************************************************)
EXTENDS LifecycleProperties, TLC

Symmetry == Permutations(Role)
=============================================================================
