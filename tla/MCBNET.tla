------------------------------- MODULE MCBNET -------------------------------
(* The connection to battle.net on a small instance. *)
EXTENDS BNET
=============================================================================
