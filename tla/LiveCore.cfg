SPECIFICATION FairSpec
CHECK_DEADLOCK FALSE
CONSTANTS
  Requests = {r1, r2}
  None = None
  Down = Down
  Configured = {1}
  Count = 2
  NoCache = 0
  StaleSeconds = 1
  Backoff <- ShortBackoff
  MaxPeerVersion = 2
  Stocks = {s1, s2}
  Refs = {p1}
  RenderSeconds = 0
  MaxBodyVersion = 3
  Size = 4
  CacheSeconds = 1
  TimeoutSeconds = 1
  LateSeconds = 0
  MaxChanges = 1
  Universe = 5
  Width = 2
  Shards = 4
  ProbeSeconds = 1
  MaxViewChanges = 2
  IndexCount = 2
  Close = 3
  PollMinutes = 1
  HealthFrom = 1
  StaleMinutes = 0
  LastDay = 2
  MaxFaults = 1
INVARIANTS TypesOK AnswersCurrent NeverBackwards HealthHonest DayKept
PROPERTIES NobodyForgotten
