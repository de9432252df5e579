SPECIFICATION Spec
CONSTANTS
  Device = {1, 2}
  Toss = {0, 1}
  MaxLives <- SecondReturns
  Leavers = {2}
  MaxMoves = 2
  MaxNotes <- Quiet
  Sticky = TRUE
  Ordered = TRUE
  Steady = FALSE
  Tracked = {}
CHECK_DEADLOCK FALSE
INVARIANTS OppositeHosts DepartureIsReal
