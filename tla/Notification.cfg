CONSTANTS
  MaxPresses = 3
  MaxMoves = 5
SPECIFICATION FairSpec
CHECK_DEADLOCK FALSE
INVARIANTS TypeOK LastPressHeard
PROPERTIES NeverGoesBack PressIsHeard
