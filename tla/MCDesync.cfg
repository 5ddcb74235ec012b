\* Four players in three worlds: groups of 3 and 1, 2 and 2, 2 and 1 and 1.
SPECIFICATION FairSpec
CONSTANTS
  NumPlayers = 4
  NumWorlds = 3
  MaxAhead = 1
INVARIANTS
  TypeOK
  SameUpdateIsCompared
PROPERTIES
  VoteIsFair
  DesyncIsFound
CHECK_DEADLOCK FALSE
