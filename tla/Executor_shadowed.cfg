CONSTANTS
    first = first
    second = second
    Opps <- MCOneOpp
    LegCount <- MCSpread
    MaxLegs = 2
    CacheFails = TRUE
    MaxCrashes = 0
    MaxRedisCrashes = 1
SPECIFICATION Spec
INVARIANT RowIsThisFill
