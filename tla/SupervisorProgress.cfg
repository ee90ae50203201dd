\* A follower and a feed that may hang anywhere.
SPECIFICATION FairSpec
CONSTANTS
  Stocks = {s1}
  Need = 1
  None = None
  Authority = FALSE
  Stuck = 1
  StuckLimit = 1
  Zombie = 1
  HardReset = 2
  RecoveryTimeout = 1
  Spacing <- ShortSpacing
  RefillDelay = 1
  MaxPass = 0
  Arrivals = {"open"}
  Messages = {FALSE}
  Errors = {FALSE}
PROPERTIES FeedNeverStuck GapRefilled
CHECK_DEADLOCK FALSE
