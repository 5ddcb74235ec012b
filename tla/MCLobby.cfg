\* Reserved players and the owner displace others; the loop of Update is fair.
SPECIFICATION FairSpec
CONSTANTS
  NumSlots = 2
  MaxJoins = 3
  MaxFakes = 1
  CountFrom = 1
  Kinds = {"plain", "reserved", "owner"}
INVARIANTS
  PIDsDistinct
  SlotsHaveOwners
  RosterIsRight
  TypeOK
PROPERTIES
  CountDownIsHonest
  PlayersKeepSlots
  LobbyMovesOn
CHECK_DEADLOCK FALSE
