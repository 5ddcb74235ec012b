\* A kick needs the votes of all but the victim, a draw those of all who are
\* left: four votes are a kick vote, or one that a second one follows too early,
\* a forfeit and a draw of the three who stay, or both teams forfeiting.
SPECIFICATION FairSpec
CONSTANTS
  Players = {1, 2, 3, 4}
  Team <- MCTeam
  Percentage = 100
  Nobody = Nobody
  MaxCommands = 4
INVARIANTS
  TypeOK
PROPERTIES
  KickIsAgreed
  OutcomeStands
  GameEnds
CHECK_DEADLOCK FALSE
