SPECIFICATION FairSpec
CONSTANTS
  FirstRetry = 1
  MaxRetry = 2
  MinInterval = 1
  MaxInterval = 2
  DefaultInterval = 1
  MaxFails = 2
  MaxImages = 2
  MaxPairings = 1
  Hints = {3}
  BuildTimer = 0
  Faults = {"cut", "usb", "rename", "torn", "brush", "write"}
INVARIANTS TypeOK NoTornPicture ClaimWasPlaced TimerKept
PROPERTIES BackoffHolds MessageArrives
