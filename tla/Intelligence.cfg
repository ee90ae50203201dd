SPECIFICATION FairSpec
CHECK_DEADLOCK FALSE
CONSTANTS
  None = None
  Stocks = 1
  MaxFaults = 1
  WantedSessions = {1, 2, 3}
  Instruments = {a, b}
  MaxKills = 1
  MinuteLen = 2
  Grace = 1
  MaxPending = 1
  LastMinute = 1
  MaxPackets = 2
  Engines = {live, replay}
  LastBar = 3
  Ranks = {1, 2}
  Cooldown = 2
  MaxRestarts = 1
  MaxErrors = 1
  Clients = {c1, c2}
  MaxStreams = 1
  MaxPerKey = 2
  Limit = 1
  MaxEvents = 2
  MaxVersion = 1
  MaxWire = 1
  MaxLeaves = 1
  ApiKeys = {"a"}
  Threads = {"s", "t"}
  MaxSaves = 3
  Burst = 2
  Unit = 2
  Rate = 1
  LastSecond = 4
  Requests = {q1, q2}
  Slots = 1
  CacheSize = 1
  Chains = {x}
  SessionMinutes = 2
  DayMinutes = 3
  LastRecord = 6
  Budget = 2
  BackupKeep = 1
  MaxCrashes = 1
  Workers = {w1, w2}
  Total = 3
  Interval = 2
  MaxAttempts = 2
  RetryAfter = {1, 4}
  Pauses = {1, 2}
  LastTime = 7
INVARIANTS TypesOK   
PROPERTIES  EveryMinuteStepped
