---------------------------- MODULE MCLifecycle ----------------------------
(* Lifecycle with its inductive invariant. *)
EXTENDS LifecycleProofs
=============================================================================
