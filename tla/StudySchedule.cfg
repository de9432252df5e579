SPECIFICATION Spec
CONSTANTS
  Review = {a}
  Missing = {}
  Watched = {a}
  Stamp <- SameSecond
  Faults = {}
  MaxBlows = 0
  None = None
INVARIANTS ScheduleGoesAlong
