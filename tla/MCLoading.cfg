\* Three players, with and without "load in game", any of them with GProxy++.
SPECIFICATION FairSpec
CONSTANTS
  NumPlayers = 3
  EmptyActions = 1
  MaxUpdates = 2
INVARIANTS
  TypeOK
  SameHistory
  LoadedTogether
  ScreenIsRight
PROPERTIES
  GameLoads
CHECK_DEADLOCK FALSE
