SPECIFICATION FairSpec
CONSTANTS
  Device = {1, 2}
  Toss = {0}
  MaxLives <- OneLife
  Leavers = {2}
  MaxMoves = 1
  MaxNotes <- Quiet
  Sticky = FALSE
  Ordered = TRUE
  Steady = TRUE
  Tracked = {"state"}
CHECK_DEADLOCK FALSE
PROPERTIES SearchersMeet MoveArrives
