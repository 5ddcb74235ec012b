------------------------------ MODULE MCGProxy ------------------------------
(* Small instances of GProxy for TLC. *)
EXTENDS GProxy
=============================================================================
