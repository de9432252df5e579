SPECIFICATION FairSpec
CONSTANTS
  Device = {1, 2}
  Toss = {0}
  MaxLives <- SecondReturns
  Leavers = {2}
  MaxMoves = 0
  MaxNotes <- Quiet
  Sticky = TRUE
  Ordered = TRUE
  Steady = TRUE
  Tracked = {}
CHECK_DEADLOCK FALSE
PROPERTIES OrphanEnds
