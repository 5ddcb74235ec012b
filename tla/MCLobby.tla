------------------------------ MODULE MCLobby ------------------------------
(* Small instances of the lobby. *)
EXTENDS Lobby
=============================================================================
