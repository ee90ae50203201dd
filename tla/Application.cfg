SPECIFICATION FairSpec
CHECK_DEADLOCK FALSE
CONSTANTS
  None = None
  StartGrace = 4
  WatchdogSec = 2
  MaxSlow = 1
  MaxTroubles = 1
  MaxBroken = 1
  UniverseSize = 8
  ShardCount = 3
  ShardWidth = 3
  PostThreads = {a, b}
  Intervals = {1, 3}
  Longest = 3
  RetryAfter = {2, 3}
  Attempts = 2
  Free = Free
  Kinds = {"equity", "index"}
  MaxLevel = 2
  Cooldown = 4
  Silence = 2
  Expiries = {1, 2}
  FutureSymbols = {i1}
  FutureExpiries = {1, 3}
  LastDay = 3
  BatchSize = 1
  DayLen = 5
  OpenAt = 1
  CloseAt = 4
  LastMinute = 7
  Strikes = {1}
  MaxDays = 2
  Callers = {c1, k}
  Keeper = k
  Loaders = {l1}
  NodeThreads = {"poll"}
  Nodes = {n1}
  Ids = {t1, t2, t3, t4, t5, t6, t7, t8, t9}
  Grace = 1
  SessionGap = 1
  RateLimit = 2
  Timeout = 1
  MaxFaults = 1
INVARIANTS TypesOK  OfficialSinceOpen
PROPERTIES LimitsHonoured 
