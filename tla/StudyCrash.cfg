SPECIFICATION Spec
CONSTANTS
  Review = {a}
  Missing = {}
  Watched = {}
  Stamp <- SameSecond
  Faults = {"kill", "anki", "torn"}
  MaxBlows = 2
  None = None
INVARIANTS ReviewsKept
