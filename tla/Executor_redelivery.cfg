CONSTANTS
    first = first
    second = second
    Opps <- MCOneOpp
    LegCount <- MCSpread
    MaxLegs = 2
    CacheFails = TRUE
    MaxCrashes = 1
    MaxRedisCrashes = 0
SPECIFICATION FairSpec
PROPERTY FilledIsBooked
