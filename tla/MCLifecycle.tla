----------------------------- MODULE MCLifecycle -----------------------------
(* Lifecycle for TLC: the names a and b are model values. *)
EXTENDS LifecycleProperties

CONSTANTS a, b

=============================================================================
