\* A token authority whose passes take time: renewals race them and the end of the session.
SPECIFICATION Spec
CONSTANTS
  Stocks = {s1}
  Need = 1
  None = None
  Authority = TRUE
  Stuck = 0
  StuckLimit = 0
  Zombie = 1
  HardReset = 1
  RecoveryTimeout = 0
  Spacing <- ShortSpacing
  RefillDelay = 0
  MaxPass = 1
  Arrivals = {"open"}
  Messages = {}
  Errors = {FALSE}
INVARIANTS TypeOK FeedOnlyInSession
PROPERTY ReplacementsSpaced
CHECK_DEADLOCK FALSE
