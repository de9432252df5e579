SPECIFICATION FairSpec
CONSTANTS
  Device = {1, 2}
  Host = 1
  Styles <- ByTurn
  MaxPlies = 2
  MaxGames = 2
  MaxNotes = 2
  Patient = TRUE
  Swift = TRUE
  MidGame = TRUE
INVARIANTS TypeOK NobodyRestartsAlone SeatsDiffer SameGame NotStuck CountedOnce
PROPERTY CountedByBoth
CHECK_DEADLOCK FALSE
