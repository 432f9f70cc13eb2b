SPECIFICATION Spec
CONSTANTS
    Interval = 2
    LocalTtl = 4
    ClaudeTtl = 6
    RegimeTime = 20
    NewsInterval = 10
    SentimentTtl = 16
    HealthTtl = 30
    MaxWait = 1
    MaxClock = 36
    MaxFailures = 1
    Threshold = 2
    Window = 3
    MinSample = 2
    BelowNum = 2
    BelowDen = 5
    MaxRecords = 3
    MaxRaises = 1
    MaxExpiries = 1
    BarSeconds = 2
    CacheMax = 2
    FetchLimit = 2
    Days = 2
    MaxTime = 5
    MaxTicks = 3
    MaxFills = 1
    MaxErrors = 1
    Orders = {o1, o2}
    Units = 2
    Uploads = {u1, u2}
    Lists = {l1}
    Deletes = {d1}
    BatchSize = 2
    MaxIterations = 3
    Timeout = 8
    ApiCap = 5
    ToolCap = 2
    Low = 2
    Slack = 1
    MaxTools = 2
SYMMETRY Symmetry
INVARIANTS RegimeRecent    
CHECK_DEADLOCK FALSE
