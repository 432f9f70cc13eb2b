CONSTANTS
    w1 = w1
    w2 = w2
    k1 = k1
    k2 = k2
    Workers = {w1, w2}
    MsgCount = 3
    Keys = {k1}
    KeysOf <- MCOneKey
    MaxOpen = 1
    GrossCap = 0
    LimitWriter = FALSE
    MaxCrashes = 0
SPECIFICATION Spec
SYMMETRY MCSymmetry
INVARIANTS
    CountBounded
    HaltOvershoot
    RoutedOnce
