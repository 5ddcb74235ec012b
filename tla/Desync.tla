------------------------------- MODULE Desync -------------------------------
(***************************************************************************)
(* Finding the players whose game has gone another way.  Every client       *)
(* answers every update with a checksum of its game; the answers come at    *)
(* any pace, are queued by player, and are compared when everybody has one  *)
(* (CBaseGame::EventPlayerKeepAlive).  The largest group stays; when there  *)
(* is no single largest group everybody goes.                               *)
(*                                                                          *)
(* The game of a client is in one of a few worlds, which a checksum tells   *)
(* apart; a client that has left a world never comes back to it.  Updates   *)
(* are without end, so answers are counted from those of the slowest player.*)
(***************************************************************************)
EXTENDS Integers, Sequences, FiniteSets, FiniteSetsExt

CONSTANTS
  NumPlayers,   \* bound: the players at the start
  NumWorlds,    \* bound: the worlds, from 1 on
  MaxAhead      \* the fastest player is this far ahead of the slowest (m_SyncLimit)

ASSUME DesyncAssumption ==
  /\ NumPlayers \in Nat \ {0} /\ NumWorlds \in Nat \ {0} /\ MaxAhead \in Nat \ {0}

VARIABLES
  present,      \* m_Players
  deleteMe,     \* those of them whose m_DeleteMe is set
  world,        \* the world each client's game is in
  answered,     \* how many more updates than the slowest each client has answered
  m_CheckSums   \* the answers of each player that wait to be compared

vars == <<present, deleteMe, world, answered, m_CheckSums>>

Players == 1..NumPlayers
Worlds  == 1..NumWorlds

Staying == present \ deleteMe

Init ==
  /\ present = Players
  /\ deleteMe = {}
  /\ world = [i \in Players |-> 1]
  /\ answered = [i \in Players |-> 0]
  /\ m_CheckSums = [i \in Players |-> <<>>]

----------------------------------------------------------------------------
\* A fault in the game or in the map of one client: its game goes another way, alone or
\* the same way as others before.
Split(i) ==
  /\ i \in Staying
  /\ \E w \in Worlds : w > world[i] /\ world' = [world EXCEPT ![i] = w]
  /\ UNCHANGED <<present, deleteMe, answered, m_CheckSums>>

\* The groups of players by their answer in turn.
Bin(q, w) == {i \in Staying : Head(q[i]) = w}

\* Mutant: a tie is not taken back when a larger group follows.
NextBinTied(q, t, w) ==
  LET size(v) == Cardinality(Bin(q, v))
  IN [largest |-> IF size(w) > size(t.largest) THEN w ELSE t.largest,
      tied    |-> t.tied \/ (w # t.largest /\ size(w) = size(t.largest))]

\* What the group of w makes of the largest group so far and the flag for a tie.  A world
\* without players has no bin, and makes no difference.
NextBin(q, t, w) ==
  LET size(v) == Cardinality(Bin(q, v))
  IN [largest |-> IF size(w) > size(t.largest) THEN w ELSE t.largest,
      tied    |-> /\ size(w) <= size(t.largest)
                  /\ t.tied \/ (w # t.largest /\ size(w) = size(t.largest))]

\* The vote: from the first bin on, in the order of the checksums.
Tally(q) ==
  LET after[w \in 0..NumWorlds] ==
        IF w = 0 THEN [largest |-> Min({Head(q[i]) : i \in Staying}), tied |-> FALSE]
        ELSE NextBin(q, after[w - 1], w)
  IN after[NumWorlds]

\* Mutant: after a tie everybody stays.
DesyncedNot(q) == {i \in Staying : ~Tally(q).tied /\ Head(q[i]) # Tally(q).largest}

\* Mutant: those who have gone are dropped with the others.
DesyncedGone(q) == IF Tally(q).tied THEN Players ELSE {}

\* Those who are dropped.
Desynced(q) ==
  LET t == Tally(q)
  IN IF t.tied THEN present ELSE {i \in Staying : Head(q[i]) # t.largest}

\* Everybody has an answer that waits.
Complete(q) == \A i \in Staying : q[i] # <<>>

\* Mutant: when somebody is dropped only the first player's answer is taken.
PoppedOnce(q, dropped) ==
  LET popped == IF dropped = {} THEN Staying ELSE {Min(Staying)} \ dropped
  IN [i \in Players |-> IF i \in popped THEN Tail(q[i]) ELSE q[i]]

\* One answer is taken from each player that stays.
Popped(q, dropped) == [i \in Players |-> IF i \in Staying \ dropped THEN Tail(q[i]) ELSE q[i]]

\* The counts of those who stay; the answers of the others are not looked at any more.
FromSlowest(count, ids) ==
  [i \in Players |-> IF i \in ids THEN count[i] - Min({count[j] : j \in ids}) ELSE 0]
Kept(q, ids) == [i \in Players |-> IF i \in ids THEN q[i] ELSE <<>>]

\* What the flags of a step leave of the queues and counts.
Flag(ids, q, count) ==
  /\ deleteMe' = deleteMe \cup ids
  /\ m_CheckSums' = Kept(q, Staying \ ids)
  /\ answered' = FromSlowest(count, Staying \ ids)

\* The queues with the answer of a player.
WithAnswer(i) ==
  IF i \in Staying THEN [m_CheckSums EXCEPT ![i] = Append(@, world[i])] ELSE m_CheckSums

\* Whether there is a comparison, and who is dropped.
Compares(q) == Staying # {} /\ Complete(q)
Dropped(q)  == IF Compares(q) THEN Desynced(q) ELSE {}

\* EventPlayerKeepAlive.  A flagged player may still answer before it is deleted, which
\* also leads to a comparison when answers of all the others wait.
KeepAlive(i) ==
  /\ i \in present
  /\ answered[i] < MaxAhead
  /\ \E q \in {WithAnswer(i)} : \E drop \in {Dropped(q)} :
       Flag(drop, IF Compares(q) THEN Popped(q, drop) ELSE q, [answered EXCEPT ![i] = @ + 1])
  /\ UNCHANGED <<present, world>>

\* A player leaves, is kicked or loses its connection.
Leave(i) ==
  /\ i \in Staying
  /\ Flag({i}, m_CheckSums, answered)
  /\ UNCHANGED <<present, world>>

\* EventPlayerDeleted, at the player's own turn.
DeletePlayer(i) ==
  /\ i \in deleteMe
  /\ present' = present \ {i}
  /\ deleteMe' = deleteMe \ {i}
  /\ UNCHANGED <<world, answered, m_CheckSums>>

Next == \E i \in Players : Split(i) \/ KeepAlive(i) \/ Leave(i) \/ DeletePlayer(i)

Spec == Init /\ [][Next]_vars

\* A client that stays answers: one that does not lags and is dropped, which is a Leave.
FairSpec ==
  /\ Spec
  /\ \A i \in Players : /\ WF_vars(i \in Staying /\ (Leave(i) \/ KeepAlive(i)))
                       /\ WF_vars(DeletePlayer(i))

----------------------------------------------------------------------------
(* Properties.                                                                *)

\* The types of the variables.
TypeOK ==
  /\ present \subseteq Players /\ deleteMe \subseteq present
  /\ world \in [Players -> Worlds]
  /\ answered \in [Players -> 0..MaxAhead]
  /\ m_CheckSums \in [Players -> Seq(Worlds)]

\* The answers that are compared are answers to the same update, whatever the pace of the
\* players, whoever has left and whoever was dropped: the players that stay have the same
\* number of answers taken.
SameUpdateIsCompared ==
  \A i, j \in Staying :
    answered[i] - Len(m_CheckSums[i]) = answered[j] - Len(m_CheckSums[j])

\* A comparison drops only players who are fewer than those of every player that stays, and
\* leaves only players who agree; and it drops everybody only when the largest groups are
\* of the same size.
VoteIsFair ==
  [][\A i \in Players :
       KeepAlive(i) /\ Compares(WithAnswer(i)) =>
         \E front \in {[j \in Staying |-> Head(WithAnswer(i)[j])]} :
           LET size(j) == Cardinality({k \in Staying : front[k] = front[j]})
               stay    == present \ deleteMe'
           IN /\ \A j \in Staying \ stay, k \in stay : size(j) < size(k)
              /\ \A j, k \in stay : front[j] = front[k]
              /\ stay = {} => \E j, k \in Staying :
                                /\ front[j] # front[k] /\ size(j) = size(k)
                                /\ \A l \in Staying : size(l) <= size(j)]_vars

\* Two players in different worlds do not play on together: also when answers have piled
\* up behind a player that has left, the difference is reached.
DesyncIsFound ==
  \A i \in Players : \A j \in 1..(i - 1) :
    {i, j} \subseteq Staying /\ world[i] # world[j]
      ~> ~({i, j} \subseteq Staying) \/ world[i] = world[j]

=============================================================================
