SPECIFICATION AllSpec
CONSTANTS
    Signals = {s1}
    Known = {s1}
    Loops = {l1}
    Rechecking = {l1}
    Symbols = 1
    TvMode = FALSE
    Replicas = {r1}
    MaxLen = 1
    MaxOpps = 3
    MaxCrashes = 1
    Channels = {telegram, discord}
    MinInterval = 2
    MaxAlerts = 3
    MaxRestarts = 1
    MaxSignals = 3
    ViewLen = 2
    MaxFlush = 1
    MaxShown = 2
    MaxFrames = 2
    MaxToggles = 2
    MaxDrops = 1
    Pairs = {p1, p2}
    Stream = p1
    Retry = 1
    MaxRetry = 2
    HeartbeatInterval = 1
    HeartbeatTtl = 3
    HeartbeatTimeout = 3
    ExportInterval = 2
    Throttle = 1
    MaxChanges = 2
    MaxFailures = 1
    Feed = {"binance", "bybit", "okx", "kraken", "oanda", "orderbook"}
INVARIANTS KillOvershoot NothingTwice
PROPERTIES StageIsHandoff SignalsComeThrough ReadersCatchUp  HeartbeatTells
CHECK_DEADLOCK FALSE
