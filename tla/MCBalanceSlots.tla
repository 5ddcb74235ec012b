--------------------------- MODULE MCBalanceSlots ---------------------------
(***************************************************************************)
(* The maps the balancing is checked on.  A map with fewer slots is one     *)
(* whose last slots are open.                                               *)
(***************************************************************************)
EXTENDS BalanceSlots

\* Everybody a player, the teams one after the other.
AllPlay(bestScore) ==
  {[team |-> f, what |-> [s \in Places |-> "player"], best |-> bestScore, inOrder |-> TRUE] :
     f \in {g \in [Places -> Teams] : \A s \in 2..MapSlots : g[s - 1] <= g[s]}}

\* Four slots on two teams hold anything; up to three players in any order.
FourSlots ==
  {[team |-> f, what |-> w, best |-> MaxScore,
    inOrder |-> Cardinality({s \in Places : w[s] = "player"}) > 3] :
     f \in {g \in [Places -> {1, 2}] : \A s \in 5..MapSlots : g[s] = 1},
     w \in {g \in [Places -> {"player", "computer", "open"}] :
             \A s \in 5..MapSlots : g[s] = "open"}}

AllMaps == FourSlots \cup AllPlay(1)
=============================================================================
