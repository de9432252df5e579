SPECIFICATION Spec
CONSTANTS
  Review = {a, b}
  Missing = {b}
  Watched = {}
  Stamp <- SameSecond
  Faults = {"power", "card", "restore", "net", "kill", "anki"}
  MaxBlows = 2
  None = None
INVARIANTS TypeOK ReviewsKept NothingSkipped UndoneStaysOut AppliedOnce
