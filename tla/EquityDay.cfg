SPECIFICATION FairSpec
CONSTANTS
  Sids = {a}
  None = None
  DayLen = 7
  Open = 1
  Close = 4
  Days = 2
  StopDays = {0}
  Holidays = {}
  Slots = {f1}
  Workers = {w1}
  Retries = 1
  MaxReconnects = 2
INVARIANTS SessionCandles QueuedExact
PROPERTIES HistoricalStays EndsDaily
CHECK_DEADLOCK FALSE
