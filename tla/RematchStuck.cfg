SPECIFICATION Spec
CONSTANTS
  Device = {1, 2}
  Host = 1
  Styles <- ByPass
  MaxPlies = 2
  MaxGames = 2
  MaxNotes = 2
  Patient = TRUE
  Swift = TRUE
  MidGame = FALSE
INVARIANT NotStuck
CHECK_DEADLOCK FALSE
