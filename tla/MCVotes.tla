------------------------------ MODULE MCVotes ------------------------------
(* Two players against one, and an observer. *)
EXTENDS Votes

MCTeam == [i \in Players |-> CASE i \in {1, 2} -> 0 [] i = 3 -> 1 [] OTHER -> 2]
=============================================================================
