SPECIFICATION Spec
CONSTANTS
  Device = {1, 2}
  Toss = {0, 1}
  MaxLives <- OneLife
  Leavers = {}
  MaxMoves = 4
  MaxNotes <- TwoNotes
  Sticky = TRUE
  Ordered = FALSE
  Steady = FALSE
  Tracked = {}
CHECK_DEADLOCK FALSE
INVARIANTS TypeOK TurnExclusive TurnNeverLost BoardsAgree AckedMoveArrived AckedNoteArrived
PROPERTIES PlaysTheGame
