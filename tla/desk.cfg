CONSTANTS
    KMultiple = 40
    MinNetRR = 100
    Commission = 0
    Slip = 0
    SpreadCap = 15
    MinSamples = 2
    Percentile = 40
    HistoryDays = 1
    Sessions <- MCSessions
    Rollover <- MCRollover
    FridayCutoff = 1200
    NewsMargin <- MCMargin
    StaleAfter = 2880
    SpreadHalves = 3
    Slippage = 0
    OrderTtl = 2
    Strategies <- MCStrategies
    Cooldown = 1
    MinWindow = 1
    Pair = {"EUR", "USD"}
    Calendar <- MCCalendar
    Start <- MCStart
    Signals <- MCSignals
    Window = 1
    Stride = 1
    MinRecorded = 2
    Latencies = {0, 1}
    Bounds <- MCBounds
SPECIFICATION DeskSpec
INVARIANTS
    LedgerTellsTheScan
    ScanVerdicts
    FillsAreApart
PROPERTIES
    NoLookAhead
CHECK_DEADLOCK FALSE
