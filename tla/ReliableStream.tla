--------------------------- MODULE ReliableStream ---------------------------
(***************************************************************************)
(* What the GProxy++ machinery promises to Warcraft III: one stream of     *)
(* packets from the bot, in which nothing is lost, repeated or reordered.  *)
(* Packets are numbered in the order the bot sends them.                   *)
(***************************************************************************)
EXTENDS Naturals, Sequences

VARIABLES
    sent,   \* number of packets the bot has sent
    out     \* packets handed to Warcraft III

vars == <<sent, out>>

Init == sent = 0 /\ out = << >>

\* One handler may send several packets (SendAllChat before and after).
Send == \E n \in 1 .. 2 : sent' = sent + n /\ UNCHANGED out

Deliver ==
    /\ Len(out) < sent
    /\ out' = Append(out, Len(out) + 1)
    /\ UNCHANGED sent

Next == Send \/ Deliver

Spec == Init /\ [][Next]_vars
=============================================================================
