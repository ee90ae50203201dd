SPECIFICATION FairSpec
CHECK_DEADLOCK FALSE
CONSTANTS
  Stocks = {s1}
  Feeds = {f1}
  None = None
  Minute = 2
  DayLen = 8
  PreopenAt = 1
  OpenAt = 2
  CloseAt = 8
  Grace = 1
  FutureTol = 1
  Prices = {1}
  BadPrice = 0
  MaxVol = 2
  RefValues = {r1}
  HistBars <- BarsOfOneDay
  MaxBatch = 1
  MaxClock = 6
INVARIANTS TypeOK EpochsSorted WebSocketBehindForming VolumeCountedOnce
PROPERTIES VersionTracksContent PublishesCandleBook FormingCandlePublished
