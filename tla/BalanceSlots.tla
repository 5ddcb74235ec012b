---------------------------- MODULE BalanceSlots ----------------------------
(***************************************************************************)
(* The balancing of the teams by score when the last player that an         *)
(* automatic start waits for has joined (CBaseGame::BalanceSlots): a brute  *)
(* force search over the combinations of players, then a round of swaps     *)
(* that puts every player on its team.  The search is a pure algorithm; the *)
(* swaps work on the slots, among open slots, computers and players.        *)
(*                                                                          *)
(* Scores are small integers (double in the code).  The cost limit, above   *)
(* which the slots are shuffled instead, is left out: the runs' bounds are  *)
(* below it.                                                                *)
(* A combination is the set of the players it puts on the team; the order   *)
(* in which next_combination comes to them is TriedBefore.                  *)
(***************************************************************************)
EXTENDS Integers, Sequences, FiniteSets, FiniteSetsExt, Functions

CONSTANTS
  MapSlots,   \* the slots of the map, and so the most players
  NumTeams,   \* the teams of the map
  MaxScore,   \* bound: the scores are 0..MaxScore
  Maps        \* bound: the layouts to balance: the teams of the slots, what is in
              \* them, the best score, whether the players are in the slots' order

ASSUME BalanceAssumption ==
  /\ MapSlots \in Nat \ {0} /\ NumTeams \in Nat \ {0} /\ MaxScore \in Nat
  /\ Maps \subseteq [team : [1..MapSlots -> 1..NumTeams],
                     what : [1..MapSlots -> {"player", "computer", "open"}],
                     best : 0..MaxScore, inOrder : BOOLEAN]

VARIABLES
  teamSlots,  \* m_Slots: who is in a slot and the team the slot belongs to
  score,      \* PlayerScores, by PID
  before,     \* history: the slots before the balancing
  balanced    \* whether BalanceSlots has run

balanceVars == <<teamSlots, score, before, balanced>>

----------------------------------------------------------------------------

Places == 1..MapSlots
Teams  == 1..NumTeams
Scored == 1..MapSlots   \* the PIDs that PlayerScores has room for
Nobody  == 0            \* an open slot
Machine == -1           \* a computer

Players(sl) == {sl[s].who : s \in Places} \cap Scored

SlotOf(sl, pid) == CHOOSE s \in Places : sl[s].who = pid

TeamOf(sl, pid) == sl[SlotOf(sl, pid)].team

TeamSize(sl, t) == Cardinality({p \in Players(sl) : TeamOf(sl, p) = t})

Sizes(sl) == [t \in Teams |-> TeamSize(sl, t)]

\* The sum of f over the members of S from 1 to n.
SumUpTo(f, S, n) ==
  LET sum[k \in 0..n] == IF k = 0 THEN 0 ELSE sum[k - 1] + IF k \in S THEN f[k] ELSE 0
  IN sum[n]

Score(A) == SumUpTo(score, A, MapSlots)

\* The players that come before team t in an ordering that lists the teams one after the
\* other, from team start on.
Offset(sizes, start, t) == SumUpTo(sizes, start..NumTeams, t - 1)

\* The places of team t in such an ordering.
Block(sizes, start, t) ==
  (Offset(sizes, start, t) + 1)..(Offset(sizes, start, t) + sizes[t])

Members(ordering, sizes, start, t) ==
  {ordering[k] : k \in Block(sizes, start, t) \cap DOMAIN ordering}

Abs(n) == IF n < 0 THEN -n ELSE n

\* The largest difference between the scores of two teams that have players, if total
\* is the score of a team.
Spread(total, playing) == Max({Abs(total[t] - total[u]) : t, u \in playing} \cup {0})

LargestDifference(ordering, sizes, start) ==
  Spread([t \in start..NumTeams |-> Score(Members(ordering, sizes, start, t))],
         {t \in start..NumTeams : sizes[t] > 0})

\* The members of a set of numbers in ascending order.
Sorted(S) ==
  [k \in 1..Cardinality(S) |-> CHOOSE x \in S : Cardinality({y \in S : y < x}) = k - 1]

\* What next_combination goes through from the first mid players on.  These are
\* never seen: the loop calls next_combination before its body.
Combinations(ids, mid) == {A \in kSubset(mid, ids) : \E a \in A, b \in ids \ A : b < a}

\* Of two trials, the loops come to the one before they come to the other.
TriedBefore(x, y) ==
  \/ x.team < y.team
  \/ /\ x.team = y.team
     /\ \E m \in x.left \ y.left : \A p \in 1..(m - 1) : p \in x.left <=> p \in y.left

\* The first of the trials that have the smallest difference.
FirstBest(trials) ==
  CHOOSE x \in trials : \A y \in trials :
    \/ x.difference < y.difference
    \/ x.difference = y.difference /\ ~TriedBefore(y, x)

\* Mutant: the loop stops before the last team.
LeadersFirstOneShort(ordering, sizes) ==
  LET here == Block(sizes, 1, 1) \cap DOMAIN ordering
      lead == IF here = {} THEN 0
              ELSE CHOOSE k \in here : \A j \in here : score[ordering[j]] <= score[ordering[k]]
  IN [k \in DOMAIN ordering |->
        IF lead = 0 THEN ordering[k]
        ELSE IF k = 1 THEN ordering[lead]
        ELSE IF k = lead THEN ordering[1]
        ELSE ordering[k]]

\* The place of the best player of team t, the first of them, and the place that
\* changes with k when every team's best player is moved to the front of its block.
Leader(ordering, here) ==
  CHOOSE k \in here : \A j \in here :
    \/ score[ordering[j]] < score[ordering[k]]
    \/ score[ordering[j]] = score[ordering[k]] /\ k <= j

Mirror(ordering, here, k) ==
  CASE k = Min(here)              -> Leader(ordering, here)
    [] k = Leader(ordering, here) -> Min(here)
    [] OTHER                      -> k

\* The blocks are those of all the teams, also when the ordering only lists the
\* last ones.
LeadersFirst(ordering, sizes) ==
  LET here(t) == Block(sizes, 1, t) \cap DOMAIN ordering
  IN [k \in DOMAIN ordering |->
        IF \E t \in Teams : k \in here(t)
        THEN ordering[Mirror(ordering, here(CHOOSE t \in Teams : k \in here(t)), k)]
        ELSE ordering[k]]

\* The players in left are put on team t, and the others as best says it is best for
\* the teams after t.
Trial(best, sizes, start, ids, t, left) ==
  LET ordering == Sorted(left) \o best[t + 1][ids \ left]
  IN [team |-> t, left |-> left, ordering |-> ordering,
      difference |-> LargestDifference(ordering, sizes, start)]

\* The body of BalanceSlotsRecursive: best is what it returns for the teams from a
\* later one on.
BestOrderingFrom(best, sizes, start, ids) ==
  LET trials == UNION {{Trial(best, sizes, start, ids, t, left) : left \in Combinations(ids, sizes[t])} :
                         t \in {u \in start..NumTeams : sizes[u] > 0}}
  IN LeadersFirst(IF trials = {} THEN Sorted(ids) ELSE FirstBest(trials).ordering, sizes)

BalanceSlotsRecursive(sizes) ==
  LET best[start \in 1..(NumTeams + 1)] ==
        [ids \in SUBSET Scored |-> BestOrderingFrom(best, sizes, start, ids)]
  IN best

BestOrdering(sl) == BalanceSlotsRecursive(Sizes(sl))[1][Players(sl)]

----------------------------------------------------------------------------
(* The swaps.  The code walks through the teams and, for each, through the  *)
(* slots of that team that hold no computer, and swaps the next player of   *)
(* the ordering into the slot.                                              *)

Exchange(sl, s, t) ==
  [sl EXCEPT ![s].who = sl[t].who, ![t].who = sl[s].who]

\* Mutant: slots with computers are used too.
TargetsWithComputers(sl, sizes) ==
  [k \in 1..Cardinality(Players(sl)) |->
     LET t == CHOOSE u \in Teams : k \in Block(sizes, 1, u)
     IN Sorted({s \in Places : sl[s].team = t})[k - Offset(sizes, 1, t)]]

\* The slots the players of the ordering are put into, in this order.
Targets(sl, sizes) ==
  [k \in 1..Cardinality(Players(sl)) |->
     LET t == CHOOSE u \in Teams : k \in Block(sizes, 1, u)
     IN Sorted({s \in Places : sl[s].team = t /\ sl[s].who # Machine})[k - Offset(sizes, 1, t)]]

PutInPlace(sl, ordering) ==
  LET targets == Targets(sl, Sizes(sl))
      place[k \in 0..Len(ordering)] ==
        IF k = 0 THEN sl
        ELSE Exchange(place[k - 1], targets[k], SlotOf(place[k - 1], ordering[k]))
  IN place[Len(ordering)]

----------------------------------------------------------------------------

\* The players have the first PIDs.
BalanceInit ==
  /\ \E map \in Maps :
       LET playing == {s \in Places : map.what[s] = "player"}
           n == Cardinality(playing)
           pids == IF map.inOrder THEN {[s \in playing |-> Cardinality({t \in playing : t <= s})]}
                   ELSE Bijection(playing, 1..n)
       IN \E pid \in pids :
            /\ teamSlots = [s \in Places |->
                              [team |-> map.team[s],
                               who  |-> CASE map.what[s] = "player"   -> pid[s]
                                          [] map.what[s] = "computer" -> Machine
                                          [] map.what[s] = "open"     -> Nobody]]
            /\ score \in [Scored -> 0..map.best]
            /\ \A p \in Scored : p > n => score[p] = 0
  /\ before = teamSlots
  /\ balanced = FALSE

Balance ==
  /\ ~balanced
  /\ Players(teamSlots) # {}
  /\ teamSlots' = PutInPlace(teamSlots, BestOrdering(teamSlots))
  /\ balanced' = TRUE
  /\ UNCHANGED <<score, before>>

BalanceSpec == BalanceInit /\ [][Balance]_balanceVars

----------------------------------------------------------------------------
(* Properties.                                                              *)

\* The difference between the teams when f says who is on which team.
SplitUnfairness(sl, f) ==
  Spread([t \in Teams |-> Score({p \in Players(sl) : f[p] = t})],
         {t \in Teams : TeamSize(sl, t) > 0})

Unfairness(sl) == SplitUnfairness(sl, [p \in Players(sl) |-> TeamOf(sl, p)])

\* All the ways to put the players on the teams that keep the team sizes.
Splits(sl) ==
  {f \in [Players(sl) -> Teams] :
     \A t \in Teams : Cardinality({p \in Players(sl) : f[p] = t}) = TeamSize(sl, t)}

\* Balancing loses nobody: the same players, computers and open slots, the
\* computers where they were, every team with as many players as before.
NobodyIsLost ==
  /\ Players(teamSlots) = Players(before)
  /\ \A s \in Places : teamSlots[s].team = before[s].team
  /\ \A s \in Places : teamSlots[s].who = Machine <=> before[s].who = Machine
  /\ \A t \in Teams : TeamSize(teamSlots, t) = TeamSize(before, t)

\* The first player of each team is one with the best score of the team, as the
\* slots of the team list them.
LeaderIsFirst ==
  balanced => \A t \in Teams :
    LET mine == {s \in Places : teamSlots[s].team = t /\ teamSlots[s].who \in Scored}
    IN \A s \in mine : score[teamSlots[s].who] <= score[teamSlots[Min(mine)].who]

\* The search finds a split with the smallest difference between two teams.
SplitIsOptimal ==
  balanced => LET reached == Unfairness(teamSlots)
              IN \A f \in Splits(before) : reached <= SplitUnfairness(before, f)

EqualTeams(sl) ==
  \A t, u \in Teams : TeamSize(sl, t) > 0 /\ TeamSize(sl, u) > 0 => TeamSize(sl, t) = TeamSize(sl, u)

\* It does when the teams have the same size: a split the search skips is then
\* seen with the teams exchanged.
EqualSplitIsOptimal == EqualTeams(before) => SplitIsOptimal

\* What the search promises has survived the swaps that carry it out: the reordering by the
\* recursive calls and the slots that move under the players, and nobody was lost over it.
BalanceIsAsSearched == NobodyIsLost /\ LeaderIsFirst /\ EqualSplitIsOptimal

=============================================================================
