\* A displaced player takes the slot of its successor with it.
SPECIFICATION Spec
CONSTANTS
  NumSlots = 2
  MaxJoins = 3
  MaxFakes = 0
  CountFrom = 1
  Kinds = {"plain", "reserved"}
INVARIANTS
  PlayersHaveSlots
CHECK_DEADLOCK FALSE
