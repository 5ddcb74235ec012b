\* The administrator shortens the interval of the updates.
SPECIFICATION Spec
CONSTANTS
  NumPlayers = 2
  SyncLimits = {2}
  Latencies = {1, 2}
  TickBits = 3
  MayNoLag = {}
  MaxBehind = 4
INVARIANTS
  UpdatesAreTimely
CHECK_DEADLOCK FALSE
