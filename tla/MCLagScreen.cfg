\* Two players, one of whom uses !nolag; both latencies and limits can be set.
SPECIFICATION FairSpec
CONSTANTS
  NumPlayers = 2
  SyncLimits = {2, 3}
  Latencies = {1, 2}
  TickBits = 3
  MayNoLag = {1}
  MaxBehind = 5
INVARIANTS
  TypeOK
  LagScreenIsRight
  NobodyIsLeftBehind
PROPERTIES
  GameStops
  NobodyWaitsForEver
CHECK_DEADLOCK FALSE
