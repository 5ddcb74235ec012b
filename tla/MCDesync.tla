------------------------------ MODULE MCDesync ------------------------------
(* Small instances of Desync for TLC. *)
EXTENDS Desync
=============================================================================
