------------------------------- MODULE Votes -------------------------------
(***************************************************************************)
(* The votes of a DotA game (CGame::EventPlayerBotCommand) and the result   *)
(* that is recorded of it: players vote to kick somebody, already in the    *)
(* lobby, to call the game a draw, and to forfeit as a team; the map        *)
(* reports a winner in the actions of the players; the game over timer ends *)
(* the game.                                                                *)
(*                                                                          *)
(* All this is one thread, but a vote takes as long as the players like,    *)
(* and what it counts changes meanwhile: players leave, are removed by      *)
(* another vote, or a team is removed five seconds after it forfeited.  The *)
(* turns of the players in an Update are left free, so a flagged player may *)
(* still vote, as it may in the code until its own turn has ended.          *)
(*                                                                          *)
(* Left out: the vote to start the game; the maps without !forfeit; what    *)
(* the win conditions of the statistics count; joins, displaced players and *)
(* moves to other teams in the lobby (module Lobby); a game that everybody  *)
(* leaves before it has loaded.                                             *)
(***************************************************************************)
EXTENDS Integers, FiniteSets

CONSTANTS
  Players,      \* who is in the lobby when it is full
  Team,         \* the team of each player's slot; 0 and 1 play, others observe
  Percentage,   \* bot_votekickpercentage
  Nobody,       \* no kick vote is running
  MaxCommands   \* bound: how many votes are started, given and taken back

ASSUME VotesAssumption ==
  /\ IsFiniteSet(Players)
  /\ Team \in [Players -> Nat]
  /\ Percentage \in 0..100
  /\ Nobody \notin Players
  /\ MaxCommands \in Nat

VARIABLES
  gameLoaded,     \* m_GameLoaded; if not, this is the lobby or the game is loading
  present,        \* m_Players
  deleteMe,       \* the players whose m_DeleteMe is set
  kickVotePlayer, \* m_KickVotePlayer
  kickVote,       \* the players whose m_KickVote is set
  agreed,         \* history: who started the running kick vote or said yes to it
  begunLoaded,    \* history: it was started after the game had loaded
  drawVote,       \* the players whose m_DrawVote is set
  forfeitVote,    \* the players whose m_ForfeitVote is set
  forfeitTeam,    \* m_ForfeitTeam
  forfeiting,     \* m_ForfeitTime is not 0
  gameOver,       \* m_GameOverTime is not 0
  softGameOver,   \* m_SoftGameOver
  winner,         \* m_Winner of the statistics: 0 for nobody, 1 and 2 for teams 0 and 1,
                  \* 3 for any other number, which the map may report as well
  locked,         \* m_Locked of the statistics
  saved,          \* SaveGameData has been called
  commands        \* bound: the votes so far

playerVars == <<gameLoaded, present, deleteMe>>
kickVars   == <<kickVotePlayer, kickVote, agreed, begunLoaded>>
endVars    == <<forfeitTeam, forfeiting, gameOver, softGameOver>>
statsVars  == <<winner, locked>>

vars == <<playerVars, kickVars, drawVote, forfeitVote, endVars, statsVars, saved, commands>>

----------------------------------------------------------------------------

TeamMates(t) == {i \in present : Team[i] = t}

HasTeamMate(i) == \E j \in present : j # i /\ Team[j] = Team[i]

\* ceil(number * Percentage / 100) votes of that many players.
Enough(votes, number) == 100 * votes >= number * Percentage

\* SetWinner((team + 1) % 2)
WinnerAgainst(t) == ((t + 1) % 2) + 1

\* A player that is in m_Players types a vote command.
Votes(i) ==
  /\ i \in present
  /\ commands < MaxCommands
  /\ commands' = commands + 1

----------------------------------------------------------------------------

TypeOK ==
  /\ gameLoaded \in BOOLEAN
  /\ present \subseteq Players
  /\ deleteMe \subseteq present
  /\ kickVotePlayer \in present \cup {Nobody}
  /\ kickVote \subseteq present
  /\ agreed \subseteq present
  /\ begunLoaded \in BOOLEAN
  /\ drawVote \subseteq present
  /\ forfeitVote \subseteq present
  /\ forfeitTeam \in Nat
  /\ forfeiting \in BOOLEAN
  /\ gameOver \in BOOLEAN
  /\ softGameOver \in BOOLEAN
  /\ winner \in 0..3
  /\ locked \in BOOLEAN
  /\ saved \in BOOLEAN
  /\ commands \in 0..MaxCommands

Init ==
  /\ gameLoaded = FALSE
  /\ present = Players /\ deleteMe = {}
  /\ kickVotePlayer = Nobody /\ kickVote = {} /\ agreed = {} /\ begunLoaded = FALSE
  /\ drawVote = {} /\ forfeitVote = {}
  /\ forfeitTeam = 0 /\ forfeiting = FALSE
  /\ gameOver = FALSE /\ softGameOver = FALSE
  /\ winner = 0 /\ locked = FALSE
  /\ saved = FALSE
  /\ commands = 0

----------------------------------------------------------------------------
(* The vote to kick a player.                                               *)

\* !votekick: in a loaded game nobody votes on the last player of a team; all
\* old votes are taken back.
StartKickVote(i, victim) ==
  /\ Votes(i)
  /\ kickVotePlayer = Nobody
  /\ Cardinality(present) > 3
  /\ gameLoaded => HasTeamMate(victim)
  /\ victim # i
  /\ kickVotePlayer' = victim
  /\ kickVote' = (kickVote \ present) \cup {i}
  /\ agreed' = {i} /\ begunLoaded' = gameLoaded
  /\ UNCHANGED <<playerVars, drawVote, forfeitVote, endVars, statsVars, saved>>

\* !yes: the votes are counted only when somebody says yes.
Yes(i) ==
  LET passed == Enough(Cardinality(kickVote'), Cardinality(present) - 1)
  IN /\ Votes(i)
     /\ kickVotePlayer \notin {Nobody, i}
     /\ i \notin kickVote
     /\ kickVote' = kickVote \cup {i}
     /\ agreed' = agreed \cup {i}
     /\ deleteMe' = IF passed THEN deleteMe \cup {kickVotePlayer} ELSE deleteMe
     /\ kickVotePlayer' = IF passed THEN Nobody ELSE kickVotePlayer
     /\ UNCHANGED <<gameLoaded, present, begunLoaded, drawVote, forfeitVote, endVars, statsVars, saved>>

\* !votecancel, or sixty seconds have passed.
EndKickVote ==
  /\ kickVotePlayer # Nobody
  /\ kickVotePlayer' = Nobody
  /\ UNCHANGED <<playerVars, kickVote, agreed, begunLoaded, drawVote, forfeitVote, endVars, statsVars, saved, commands>>

----------------------------------------------------------------------------
(* The votes on the result.                                                 *)

\* Mutant: the statistics go on.
DrawUnlocked(i) ==
  LET passed == Enough(Cardinality(drawVote'), Cardinality(present))
  IN /\ Votes(i)
     /\ gameLoaded /\ ~softGameOver
     /\ drawVote' = drawVote \cup {i}
     /\ softGameOver' = passed
     /\ UNCHANGED <<playerVars, kickVars, forfeitVote, forfeitTeam, forfeiting, gameOver, statsVars, saved>>

\* !draw, also said again after somebody left, and by observers too.
Draw(i) ==
  LET passed == Enough(Cardinality(drawVote'), Cardinality(present))
  IN /\ Votes(i)
     /\ gameLoaded /\ ~softGameOver
     /\ drawVote' = drawVote \cup {i}
     /\ locked' = (locked \/ passed)
     /\ softGameOver' = passed
     /\ UNCHANGED <<playerVars, kickVars, forfeitVote, forfeitTeam, forfeiting, gameOver, winner, saved>>

\* !undraw
Undraw(i) ==
  /\ Votes(i)
  /\ gameLoaded /\ ~softGameOver
  /\ i \in drawVote
  /\ drawVote' = drawVote \ {i}
  /\ UNCHANGED <<playerVars, kickVars, forfeitVote, endVars, statsVars, saved>>

\* Mutant: a team may forfeit while another is about to be removed.
ForfeitAnytime(i) ==
  LET t == Team[i]
      all == t \in {0, 1} /\ TeamMates(t) \subseteq forfeitVote'
  IN /\ Votes(i)
     /\ gameLoaded /\ ~softGameOver
     /\ forfeitVote' = forfeitVote \cup {i}
     /\ forfeitTeam' = t
     /\ forfeiting' = (forfeiting \/ all)
     /\ winner' = IF all THEN WinnerAgainst(t) ELSE winner
     /\ UNCHANGED <<playerVars, kickVars, drawVote, gameOver, softGameOver, locked, saved>>

\* !forfeit: once all of a playing team have said it the others win, and the
\* statistics go on.
Forfeit(i) ==
  LET t == Team[i]
      all == t \in {0, 1} /\ TeamMates(t) \subseteq forfeitVote'
  IN /\ Votes(i)
     /\ gameLoaded /\ ~forfeiting /\ ~softGameOver
     /\ forfeitVote' = forfeitVote \cup {i}
     /\ forfeitTeam' = t
     /\ forfeiting' = all
     /\ winner' = IF all THEN WinnerAgainst(t) ELSE winner
     /\ UNCHANGED <<playerVars, kickVars, drawVote, gameOver, softGameOver, locked, saved>>

\* Mutant: the game over timer is not started.
RemoveForfeitersOnly ==
  /\ forfeiting
  /\ deleteMe' = deleteMe \cup TeamMates(forfeitTeam)
  /\ forfeiting' = FALSE
  /\ UNCHANGED <<gameLoaded, present, kickVars, drawVote, forfeitVote, forfeitTeam, gameOver, softGameOver, statsVars, saved, commands>>

\* Five seconds after a team has forfeited.
RemoveForfeiters ==
  /\ forfeiting
  /\ deleteMe' = deleteMe \cup TeamMates(forfeitTeam)
  /\ forfeiting' = FALSE
  /\ gameOver' = TRUE
  /\ UNCHANGED <<gameLoaded, present, kickVars, drawVote, forfeitVote, forfeitTeam, softGameOver, statsVars, saved, commands>>

----------------------------------------------------------------------------
(* The course of the game.                                                  *)

\* A kick vote goes on while the game loads.
EventGameLoaded ==
  /\ ~gameLoaded
  /\ present # {}
  /\ gameLoaded' = TRUE
  /\ UNCHANGED <<present, deleteMe, kickVars, drawVote, forfeitVote, endVars, statsVars, saved, commands>>

\* Mutant: the winner is counted from 1 once more.
ProcessActionOffByOne(w) ==
  /\ gameLoaded /\ present # {}
  /\ winner' = IF locked \/ winner \in {1, 2} THEN winner ELSE w + 1
  /\ gameOver' = (gameOver \/ winner' # 0)
  /\ UNCHANGED <<playerVars, kickVars, drawVote, forfeitVote, forfeitTeam, forfeiting, softGameOver, locked, saved, commands>>

\* An action of a player reports a winner, or meets a condition of the
\* statistics, or does neither: once there is a winner the game over timer is
\* started by whatever action comes next.  A report that names no team is taken
\* too, even of nobody, and is replaced by the next one.
ProcessAction(w) ==
  /\ gameLoaded /\ present # {}
  /\ winner' = IF locked \/ winner \in {1, 2} THEN winner ELSE w
  /\ gameOver' = (gameOver \/ winner' # 0)
  /\ UNCHANGED <<playerVars, kickVars, drawVote, forfeitVote, forfeitTeam, forfeiting, softGameOver, locked, saved, commands>>

\* The game over timer has finished: StopPlayers.
StopPlayers ==
  /\ gameOver
  /\ present # deleteMe
  /\ deleteMe' = present
  /\ UNCHANGED <<gameLoaded, present, kickVars, drawVote, forfeitVote, endVars, statsVars, saved, commands>>

\* A player leaves, or is given up or kicked by somebody.
Departs(i) ==
  /\ i \in present \ deleteMe
  /\ deleteMe' = deleteMe \cup {i}
  /\ UNCHANGED <<gameLoaded, present, kickVars, drawVote, forfeitVote, endVars, statsVars, saved, commands>>

\* Mutant: the kick vote goes on.
EventPlayerDeletedVoting(i) ==
  /\ i \in deleteMe
  /\ present' = present \ {i}
  /\ deleteMe' = deleteMe \ {i}
  /\ kickVotePlayer' = IF kickVotePlayer = i THEN Nobody ELSE kickVotePlayer
  /\ kickVote' = kickVote \ {i} /\ agreed' = agreed \ {i}
  /\ drawVote' = drawVote \ {i} /\ forfeitVote' = forfeitVote \ {i}
  /\ UNCHANGED <<gameLoaded, begunLoaded, endVars, statsVars, saved, commands>>

\* A flagged player is deleted, its votes with it, and the kick vote is aborted.
EventPlayerDeleted(i) ==
  /\ i \in deleteMe
  /\ present' = present \ {i}
  /\ deleteMe' = deleteMe \ {i}
  /\ kickVotePlayer' = Nobody
  /\ kickVote' = kickVote \ {i} /\ agreed' = agreed \ {i}
  /\ drawVote' = drawVote \ {i} /\ forfeitVote' = forfeitVote \ {i}
  /\ UNCHANGED <<gameLoaded, begunLoaded, endVars, statsVars, saved, commands>>

\* No players are left: the winner of that moment is what is saved.
SaveGameData ==
  /\ gameLoaded /\ present = {}
  /\ ~saved
  /\ saved' = TRUE
  /\ UNCHANGED <<playerVars, kickVars, drawVote, forfeitVote, endVars, statsVars, commands>>

Next ==
  \/ \E i, victim \in present : StartKickVote(i, victim)
  \/ \E i \in present : Yes(i) \/ Draw(i) \/ Undraw(i) \/ Forfeit(i) \/ Departs(i) \/ EventPlayerDeleted(i)
  \/ \E w \in 0..3 : ProcessAction(w)
  \/ EndKickVote
  \/ EventGameLoaded
  \/ RemoveForfeiters
  \/ StopPlayers
  \/ SaveGameData

Spec == Init /\ [][Next]_vars

----------------------------------------------------------------------------
(* Properties.                                                              *)

\* A player is kicked only by enough of those in the game who agreed to this
\* vote; and if the vote began in the loaded game never the last one of its
\* team, although players leave meanwhile: that is why a leaving player aborts it.
KickIsAgreed ==
  [][\A i \in present : Yes(i) /\ kickVotePlayer' = Nobody =>
       /\ kickVotePlayer \notin agreed'
       /\ Enough(Cardinality(agreed'), Cardinality(present) - 1)
       /\ begunLoaded => HasTeamMate(kickVotePlayer)]_vars

\* While a team waits to be removed everybody of it who is still there has
\* voted for that, and the other team is the winner.
ForfeitIsUnanimous ==
  forfeiting =>
    /\ forfeitTeam \in {0, 1}
    /\ TeamMates(forfeitTeam) \subseteq forfeitVote
    /\ winner = WinnerAgainst(forfeitTeam)

\* The result is that of the votes.  Nobody is removed as a forfeiter without
\* having voted for it; the winner does not change any more when a draw was
\* agreed, and a team that is the winner stays it unless all of it who are
\* there forfeit.
OutcomeStands ==
  [][/\ ForfeitIsUnanimous
     /\ winner' # winner => /\ ~softGameOver
                            /\ winner \in {1, 2} => TeamMates(winner - 1) \subseteq forfeitVote']_vars

----------------------------------------------------------------------------
(* Fairness: Update runs again and again and time passes.  Nobody need vote  *)
(* or leave.                                                                 *)

Fairness ==
  /\ WF_vars(RemoveForfeiters) /\ WF_vars(StopPlayers) /\ WF_vars(SaveGameData)
  /\ \A i \in Players : WF_vars(EventPlayerDeleted(i))

FairSpec == Spec /\ Fairness

\* A game that a team forfeited, or that the statistics call over, ends and is
\* saved, even if the winners stay.
GameEnds == (forfeiting \/ gameOver) ~> saved

=============================================================================
