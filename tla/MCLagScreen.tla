----------------------------- MODULE MCLagScreen -----------------------------
(* Small games for the lag screen. *)
EXTENDS LagScreen
=============================================================================
