------------------------------ MODULE MCLoading ------------------------------
(* Small games for the loading of the map. *)
EXTENDS Loading
=============================================================================
