CONSTANTS
    w1 = w1
    w2 = w2
    k1 = k1
    k2 = k2
    Workers = {w1}
    MsgCount = 2
    Keys = {k1}
    KeysOf <- MCOneKey
    MaxOpen = 2
    GrossCap = 2
    LimitWriter = TRUE
    MaxCrashes = 1
SPECIFICATION FairSpec
INVARIANTS
    HaltOvershoot
PROPERTY StreamDrains
