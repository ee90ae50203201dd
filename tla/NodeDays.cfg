SPECIFICATION Spec
CHECK_DEADLOCK FALSE
CONSTANTS
  Stocks = {s1}
  Feeds = {f1, f2}
  None = None
  Minute = 2
  DayLen = 4
  PreopenAt = 1
  OpenAt = 2
  CloseAt = 4
  Grace = 1
  FutureTol = 1
  Prices = {1}
  BadPrice = 0
  MaxVol = 1
  RefValues = {r1}
  HistBars <- BarsOfTwoDays
  MaxBatch = 1
  MaxClock = 6
INVARIANT CandlesInSession
PROPERTY FreshOnEvidence
