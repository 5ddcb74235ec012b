---------------------------- MODULE MCLifecycle ----------------------------
(* Small instances of the life of the games. *)
EXTENDS Lifecycle
=============================================================================
