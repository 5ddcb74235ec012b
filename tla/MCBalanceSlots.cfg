\* Two teams over four slots that hold players, computers or nobody, and three
\* teams of six players.
SPECIFICATION BalanceSpec
CONSTANTS
  MapSlots = 6
  NumTeams = 3
  MaxScore = 2
  Maps <- AllMaps
INVARIANTS
  BalanceIsAsSearched
CHECK_DEADLOCK FALSE
