\* A token authority: a renewal while a pass runs.
SPECIFICATION Spec
CONSTANTS
  Stocks = {s1}
  Need = 1
  None = None
  Authority = TRUE
  Stuck = 1
  StuckLimit = 1
  Zombie = 1
  HardReset = 2
  RecoveryTimeout = 1
  Spacing <- ShortSpacing
  RefillDelay = 0
  MaxPass = 0
  Arrivals = {"open"}
  Messages = {TRUE}
  Errors = {FALSE}
PROPERTY RetryOnlyWithoutFeed
CHECK_DEADLOCK FALSE
