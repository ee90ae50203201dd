SPECIFICATION Spec
CONSTANTS
    LastTradingDay = 2  MaxFaults = 1  MaxKills = 1  MaxReplays = 2  Warm = 1  None = None  Empty = Empty
    Stocks = {1, 2, 3}  CompareMin = 2
    Horizons = {1, 2, 4}  EntryWithin = 2
    DayLen = 8  Open = 2  CloseMinute = 6  Wanted = {1, 2, 3}  MaxSpan = 2  MaxRows = 2  NaN = NaN
    Prices = {0, 1, 2}  Volumes = {0, 1, 2}  MaxPackets = 3
    MaxDays = 6  TrainWindow = 3  V2MinTrain = 1  CalibrationMin = 1  V1MinPicks = 4  IcMin = 1
    LastSession = 3  MinuteCount = 3  Written = {1, 3}  Fraction = 2  WindowSessions = 2  MinSessions = 2
    PoolMinutes = 1  Lookback = 2  WindowMinutes = 1  Step = 2  MinMatches = 1  DefaultK = 1
    Parts = 1  MaxLoadKills = 1  Torn = Torn
    MaxBars = 6  Fast = 2  Slow = 3  Signal = 2  Ema = 2  Window = 3  Wilder = 2  Smooth = 2  D = 2
    Roc = 2  Momentum = 2  Super = 2
    SyncStocks = {a, b}  LastSyncMinute = 3  StaleAfter = 1  MaxSyncFaults = 2
    Symbols = {a}  Week = 2  Month = 2  LevelPrices = {1, 2}  LastMinute = 7  BarMinutes = 2
    OpeningMinutes = 2  SideBars = 1  Keep = 1  RangeSessions = 2  MaxDailyFailures = 1
INVARIANT AdxServed
CHECK_DEADLOCK FALSE
