SPECIFICATION Spec
CONSTANTS
    BarSeconds = 2
    CacheMax = 2
    FetchLimit = 2
    Days = 2
    MaxTime = 5
    MaxTicks = 3
    MaxFills = 0
    MaxErrors = 0
PROPERTY RewriteIsIdempotent
CHECK_DEADLOCK FALSE
