----------------------------- MODULE VotesProofs -----------------------------
(***************************************************************************)
(* What holds of the votes and the result for every number of players, any *)
(* teams and any percentage.                                                *)
(***************************************************************************)
EXTENDS Votes, TLAPS

-----------------------------------------------------------------------------
(* The inductive invariant.                                                  *)

\* The votes that are counted are those of the running kick vote, and its victim
\* is not the last of its team if that was tested when it began.
KickVoteIsFair ==
  kickVotePlayer # Nobody =>
    /\ kickVote = agreed
    /\ kickVotePlayer \notin agreed
    /\ begunLoaded => HasTeamMate(kickVotePlayer)

\* The statistics are locked when, and only when, a draw was agreed.
DrawIsLocked == locked = softGameOver

IInv == TypeOK /\ KickVoteIsFair /\ DrawIsLocked /\ ForfeitIsUnanimous

-----------------------------------------------------------------------------
(* The steps one by one.                                                     *)

\* A lobby in which nobody has voted.
LEMMA IInvInit == Init => IInv
<1>. SUFFICES ASSUME Init PROVE IInv
  OBVIOUS
<1>1. 0 \in 0 .. MaxCommands
  BY VotesAssumption
<1>2. TypeOK
  <2>1. Nobody \in present \cup {Nobody} /\ deleteMe \subseteq present /\ present \subseteq Players
    BY DEF Init
  <2>2. kickVote \subseteq present /\ agreed \subseteq present
    BY DEF Init
  <2>3. drawVote \subseteq present /\ forfeitVote \subseteq present
    BY DEF Init
  <2>4. forfeitTeam \in Nat /\ winner \in 0 .. 3
    BY DEF Init
  <2>5. /\ gameLoaded \in BOOLEAN /\ begunLoaded \in BOOLEAN /\ forfeiting \in BOOLEAN
        /\ gameOver \in BOOLEAN /\ softGameOver \in BOOLEAN /\ locked \in BOOLEAN /\ saved \in BOOLEAN
    BY DEF Init
  <2>6. kickVotePlayer = Nobody /\ commands = 0
    BY DEF Init
  <2>. QED  BY <1>1, <2>1, <2>2, <2>3, <2>4, <2>5, <2>6 DEF TypeOK
<1>3. KickVoteIsFair /\ DrawIsLocked /\ ForfeitIsUnanimous
  BY DEF Init, KickVoteIsFair, DrawIsLocked, ForfeitIsUnanimous
<1>. QED  BY <1>2, <1>3 DEF IInv

\* Every step keeps the types.
LEMMA TypeNext == TypeOK /\ [Next]_vars => TypeOK'
<1>. SUFFICES ASSUME TypeOK, [Next]_vars PROVE TypeOK'
  OBVIOUS
<1>. USE VotesAssumption DEF TypeOK
<1>0. ASSUME NEW i, Votes(i) PROVE commands' \in 0 .. MaxCommands
  BY <1>0 DEF Votes
<1>1. ASSUME NEW i \in present, NEW victim \in present, StartKickVote(i, victim) PROVE TypeOK'
  BY <1>0, <1>1 DEF StartKickVote, playerVars, endVars, statsVars
<1>2. ASSUME NEW i \in present, Yes(i) PROVE TypeOK'
  <2>1. commands' \in 0 .. MaxCommands
    BY <1>0, <1>2 DEF Yes
  <2>2. kickVotePlayer \in present /\ deleteMe' \subseteq present /\ kickVotePlayer' \in present \cup {Nobody}
    BY <1>2 DEF Yes
  <2>. QED  BY <1>2, <2>1, <2>2 DEF Yes, endVars, statsVars
<1>3. ASSUME NEW i \in present, Draw(i) PROVE TypeOK'
  <2>1. commands' \in 0 .. MaxCommands
    BY <1>0, <1>3 DEF Draw
  <2>2. softGameOver' \in BOOLEAN /\ locked' \in BOOLEAN
    BY <1>3 DEF Draw, Enough
  <2>. QED  BY <1>3, <2>1, <2>2 DEF Draw, playerVars, kickVars
<1>4. ASSUME NEW i \in present, Undraw(i) PROVE TypeOK'
  BY <1>0, <1>4 DEF Undraw, playerVars, kickVars, endVars, statsVars
<1>5. ASSUME NEW i \in present, Forfeit(i) PROVE TypeOK'
  <2>1. commands' \in 0 .. MaxCommands
    BY <1>0, <1>5 DEF Forfeit
  <2>2. Team[i] \in Nat /\ WinnerAgainst(Team[i]) \in 0 .. 3
    BY DEF WinnerAgainst
  <2>3. forfeiting' \in BOOLEAN /\ winner' \in 0 .. 3 /\ forfeitTeam' \in Nat
    BY <1>5, <2>2 DEF Forfeit
  <2>. QED  BY <1>5, <2>1, <2>3 DEF Forfeit, playerVars, kickVars
<1>6. ASSUME NEW i \in present, Departs(i) PROVE TypeOK'
  BY <1>6 DEF Departs, kickVars, endVars, statsVars
<1>7. ASSUME NEW i \in present, EventPlayerDeleted(i) PROVE TypeOK'
  BY <1>7 DEF EventPlayerDeleted, endVars, statsVars
<1>8. ASSUME NEW w \in 0 .. 3, ProcessAction(w) PROVE TypeOK'
  <2>1. winner' \in 0 .. 3 /\ gameOver' \in BOOLEAN
    BY <1>8 DEF ProcessAction
  <2>. QED  BY <1>8, <2>1 DEF ProcessAction, playerVars, kickVars
<1>9. CASE EndKickVote
  BY <1>9 DEF EndKickVote, playerVars, endVars, statsVars
<1>10. CASE EventGameLoaded
  BY <1>10 DEF EventGameLoaded, kickVars, endVars, statsVars
<1>11. CASE RemoveForfeiters
  BY <1>11 DEF RemoveForfeiters, TeamMates, kickVars, statsVars
<1>12. CASE StopPlayers
  BY <1>12 DEF StopPlayers, kickVars, endVars, statsVars
<1>13. CASE SaveGameData
  BY <1>13 DEF SaveGameData, playerVars, kickVars, endVars, statsVars
<1>14. CASE UNCHANGED vars
  BY <1>14 DEF vars, playerVars, kickVars, endVars, statsVars
<1>. QED
  BY <1>1, <1>2, <1>3, <1>4, <1>5, <1>6, <1>7, <1>8, <1>9, <1>10, <1>11, <1>12, <1>13, <1>14
  DEF Next

\* A kick vote counts its own votes; whoever leaves ends it.
LEMMA KickVoteNext == TypeOK /\ KickVoteIsFair /\ [Next]_vars => KickVoteIsFair'
<1>. SUFFICES ASSUME TypeOK, KickVoteIsFair, [Next]_vars PROVE KickVoteIsFair'
  OBVIOUS
<1>. USE DEF KickVoteIsFair
<1>0. ASSUME UNCHANGED <<present, kickVars>> PROVE KickVoteIsFair'
  BY <1>0 DEF kickVars, HasTeamMate
<1>1. ASSUME NEW i \in present, NEW victim \in present, StartKickVote(i, victim)
      PROVE  KickVoteIsFair'
  BY <1>1 DEF StartKickVote, HasTeamMate, TypeOK, playerVars
<1>2. ASSUME NEW i \in present, Yes(i) PROVE KickVoteIsFair'
  <2>1. CASE kickVotePlayer' = Nobody
    BY <2>1
  <2>2. CASE kickVotePlayer' # Nobody
    <3>1. kickVotePlayer' = kickVotePlayer /\ kickVotePlayer # i /\ kickVotePlayer # Nobody
      BY <1>2, <2>2 DEF Yes
    <3>. QED  BY <1>2, <3>1 DEF Yes, HasTeamMate
  <2>. QED  BY <2>1, <2>2
<1>3. ASSUME NEW i \in present, Draw(i) \/ Undraw(i) \/ Forfeit(i) \/ Departs(i)
      PROVE  KickVoteIsFair'
  BY <1>0, <1>3 DEF Draw, Undraw, Forfeit, Departs, playerVars
<1>4. ASSUME NEW i \in present, EventPlayerDeleted(i) PROVE KickVoteIsFair'
  BY <1>4 DEF EventPlayerDeleted
<1>5. ASSUME NEW w \in 0 .. 3, ProcessAction(w) PROVE KickVoteIsFair'
  BY <1>0, <1>5 DEF ProcessAction, playerVars
<1>6. CASE EndKickVote
  BY <1>6 DEF EndKickVote
<1>7. CASE EventGameLoaded \/ RemoveForfeiters \/ StopPlayers \/ SaveGameData \/ UNCHANGED vars
  BY <1>0, <1>7
  DEF EventGameLoaded, RemoveForfeiters, StopPlayers, SaveGameData, vars, playerVars
<1>. QED  BY <1>1, <1>2, <1>3, <1>4, <1>5, <1>6, <1>7 DEF Next

\* Only !draw ends the votes on the result, and it locks the statistics with that.
LEMMA DrawNext == TypeOK /\ DrawIsLocked /\ [Next]_vars => DrawIsLocked'
<1>. SUFFICES ASSUME TypeOK, DrawIsLocked, [Next]_vars PROVE DrawIsLocked'
  OBVIOUS
<1>. USE DEF DrawIsLocked
<1>0. ASSUME UNCHANGED <<locked, softGameOver>> PROVE DrawIsLocked'
  BY <1>0
<1>1. ASSUME NEW i \in present, Draw(i) PROVE DrawIsLocked'
  <2>1. locked = FALSE /\ softGameOver = FALSE
    BY <1>1 DEF Draw, TypeOK
  <2>. QED  BY <1>1, <2>1 DEF Draw, Enough
<1>2. ASSUME NEW i \in present, NEW victim \in present,
             \/ StartKickVote(i, victim) \/ Yes(i) \/ Undraw(i)
             \/ Forfeit(i) \/ Departs(i) \/ EventPlayerDeleted(i)
      PROVE  DrawIsLocked'
  BY <1>0, <1>2
  DEF StartKickVote, Yes, Undraw, Forfeit, Departs, EventPlayerDeleted, endVars, statsVars
<1>3. ASSUME NEW w \in 0 .. 3, ProcessAction(w) PROVE DrawIsLocked'
  BY <1>0, <1>3 DEF ProcessAction
<1>4. CASE \/ EndKickVote \/ EventGameLoaded \/ RemoveForfeiters \/ StopPlayers
           \/ SaveGameData \/ UNCHANGED vars
  BY <1>0, <1>4
  DEF EndKickVote, EventGameLoaded, RemoveForfeiters, StopPlayers, SaveGameData,
      vars, endVars, statsVars
<1>. QED  BY <1>1, <1>2, <1>3, <1>4 DEF Next

\* Forfeiters may leave but not take their votes back, and nothing takes the win
\* from the others: nobody can forfeit meanwhile.
LEMMA ForfeitNext == TypeOK /\ ForfeitIsUnanimous /\ [Next]_vars => ForfeitIsUnanimous'
<1>. SUFFICES ASSUME TypeOK, ForfeitIsUnanimous, [Next]_vars PROVE ForfeitIsUnanimous'
  OBVIOUS
<1>. USE DEF ForfeitIsUnanimous
<1>0. ASSUME UNCHANGED <<forfeiting, forfeitTeam, winner>>, present' \subseteq present,
             forfeitVote \cap present' \subseteq forfeitVote'
      PROVE  ForfeitIsUnanimous'
  BY <1>0 DEF TeamMates, WinnerAgainst
<1>1. ASSUME NEW i \in present, NEW victim \in present,
             StartKickVote(i, victim) \/ Yes(i) \/ Draw(i) \/ Undraw(i) \/ Departs(i)
      PROVE  ForfeitIsUnanimous'
  BY <1>0, <1>1 DEF StartKickVote, Yes, Draw, Undraw, Departs, playerVars, endVars, statsVars
<1>2. ASSUME NEW i \in present, EventPlayerDeleted(i) PROVE ForfeitIsUnanimous'
  BY <1>0, <1>2 DEF EventPlayerDeleted, endVars, statsVars
<1>3. ASSUME NEW i \in present, Forfeit(i) PROVE ForfeitIsUnanimous'
  BY <1>3 DEF Forfeit, TeamMates, WinnerAgainst, playerVars
<1>4. ASSUME NEW w \in 0 .. 3, ProcessAction(w) PROVE ForfeitIsUnanimous'
  <2>1. CASE forfeiting
    <3>1. winner \in {1, 2}
      BY <2>1 DEF WinnerAgainst
    <3>. QED  BY <1>0, <1>4, <3>1 DEF ProcessAction, playerVars
  <2>2. CASE ~ forfeiting
    BY <1>4, <2>2 DEF ProcessAction
  <2>. QED  BY <2>1, <2>2
<1>5. CASE RemoveForfeiters
  BY <1>5 DEF RemoveForfeiters
<1>6. CASE EndKickVote \/ EventGameLoaded \/ StopPlayers \/ SaveGameData \/ UNCHANGED vars
  BY <1>0, <1>6
  DEF EndKickVote, EventGameLoaded, StopPlayers, SaveGameData, vars, playerVars, endVars, statsVars
<1>. QED  BY <1>1, <1>2, <1>3, <1>4, <1>5, <1>6 DEF Next

LEMMA IInvNext == IInv /\ [Next]_vars => IInv'
BY TypeNext, KickVoteNext, DrawNext, ForfeitNext DEF IInv

-----------------------------------------------------------------------------
(* The theorems.                                                             *)

THEOREM Invariance == Spec => []IInv
<1>1. Init => IInv
  BY IInvInit
<1>2. IInv /\ [Next]_vars => IInv'
  BY IInvNext
<1>. QED  BY <1>1, <1>2, PTL DEF Spec

\* Votes are only of players in the game, and so is the victim of a kick vote.
THEOREM TypeCorrect == Spec => []TypeOK
<1>1. IInv => TypeOK
  BY DEF IInv
<1>. QED  BY <1>1, Invariance, PTL

\* However the votes and the departures are interleaved, a kick passes only with
\* enough votes of this vote, and never empties a team if it began in the game.
THEOREM KicksAreAgreed == Spec => KickIsAgreed
<1>. DEFINE Fair == \A i \in present : Yes(i) /\ kickVotePlayer' = Nobody =>
                      /\ kickVotePlayer \notin agreed'
                      /\ Enough(Cardinality(agreed'), Cardinality(present) - 1)
                      /\ begunLoaded => HasTeamMate(kickVotePlayer)
<1>1. IInv => Fair
  <2>. SUFFICES ASSUME IInv, NEW i \in present, Yes(i), kickVotePlayer' = Nobody
                PROVE  /\ kickVotePlayer \notin agreed'
                       /\ Enough(Cardinality(agreed'), Cardinality(present) - 1)
                       /\ begunLoaded => HasTeamMate(kickVotePlayer)
    OBVIOUS
  <2>1. kickVotePlayer # Nobody /\ kickVotePlayer # i
    BY DEF Yes
  <2>2. kickVote' = agreed' /\ agreed' = agreed \cup {i}
    BY <2>1 DEF Yes, IInv, KickVoteIsFair
  <2>3. Enough(Cardinality(kickVote'), Cardinality(present) - 1)
    BY <2>1 DEF Yes
  <2>. QED  BY <2>1, <2>2, <2>3 DEF IInv, KickVoteIsFair
<1>2. KickIsAgreed <=> [][Fair]_vars
  BY DEF KickIsAgreed
<1>. HIDE DEF Fair
<1>. QED  BY <1>1, <1>2, Invariance, PTL

\* Whoever votes, leaves or is removed in whatever order: forfeits are unanimous,
\* an agreed draw is final, and only the winners can give the win away.
THEOREM ResultsStand == Spec => OutcomeStands
<1>. DEFINE Kept == /\ ForfeitIsUnanimous
                    /\ winner' # winner =>
                         /\ ~softGameOver
                         /\ winner \in {1, 2} => TeamMates(winner - 1) \subseteq forfeitVote'
<1>1. IInv /\ [Next]_vars => [Kept]_vars
  <2>. SUFFICES ASSUME IInv, Next, winner' # winner
                PROVE  /\ ~softGameOver
                       /\ winner \in {1, 2} => TeamMates(winner - 1) \subseteq forfeitVote'
    BY DEF IInv
  <2>1. ASSUME NEW i \in present, Forfeit(i)
        PROVE  ~softGameOver /\ (winner \in {1, 2} => TeamMates(winner - 1) \subseteq forfeitVote')
    <3>1. /\ Team[i] \in {0, 1} /\ TeamMates(Team[i]) \subseteq forfeitVote'
          /\ winner' = WinnerAgainst(Team[i]) /\ ~softGameOver
      BY <2>1 DEF Forfeit
    <3>2. winner \in {1, 2} => winner - 1 = Team[i]
      BY <3>1 DEF WinnerAgainst, IInv, TypeOK
    <3>. QED  BY <3>1, <3>2
  <2>2. ASSUME NEW w \in 0 .. 3, ProcessAction(w)
        PROVE  ~softGameOver /\ (winner \in {1, 2} => TeamMates(winner - 1) \subseteq forfeitVote')
    BY <2>2 DEF ProcessAction, IInv, DrawIsLocked
  <2>3. ASSUME NEW i \in present, NEW victim \in present,
               \/ StartKickVote(i, victim) \/ Yes(i) \/ Draw(i) \/ Undraw(i)
               \/ Departs(i) \/ EventPlayerDeleted(i)
        PROVE  FALSE
    BY <2>3 DEF StartKickVote, Yes, Draw, Undraw, Departs, EventPlayerDeleted, statsVars
  <2>4. ~ (EndKickVote \/ EventGameLoaded \/ RemoveForfeiters \/ StopPlayers \/ SaveGameData)
    BY DEF EndKickVote, EventGameLoaded, RemoveForfeiters, StopPlayers, SaveGameData, statsVars
  <2>. QED  BY <2>1, <2>2, <2>3, <2>4 DEF Next
<1>2. OutcomeStands <=> [][Kept]_vars
  BY DEF OutcomeStands
<1>. HIDE DEF Kept
<1>. QED  BY <1>1, <1>2, Invariance, PTL DEF Spec

=============================================================================
