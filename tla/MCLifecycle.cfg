SPECIFICATION FairSpec
CONSTANTS
  g1 = g1
  g2 = g2
  Games = {g1, g2}
  MaxGames = 1
  NoGame = NoGame
  Jobs <- GameJobs
  MaxIdle = 1
  First = First
  NoConn = NoConn
INVARIANTS
  TypeOK
  GamesAreHeld
  JobsAreKept
  PoolIsSound
PROPERTIES
  GamesEnd
CHECK_DEADLOCK FALSE
