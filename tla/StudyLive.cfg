SPECIFICATION FairSpec
CONSTANTS
  Review = {a}
  Missing = {}
  Watched = {}
  Stamp <- SameSecond
  Faults = {"power", "card", "rename", "restore", "net", "revoke", "job", "kill", "anki"}
  MaxBlows = 2
  None = None
PROPERTIES ReviewArrives
INVARIANT ClaimIsOnCard
