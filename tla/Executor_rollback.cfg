CONSTANTS
    first = first
    second = second
    Opps <- MCOpps
    LegCount <- MCSingleLegs
    MaxLegs = 1
    CacheFails = FALSE
    MaxCrashes = 0
    MaxRedisCrashes = 1
SPECIFICATION Spec
SYMMETRY MCSymmetry
INVARIANTS
    TypeOK
    FillsBookedOnce
    NoPhantomFill
    OrdersBounded
PROPERTY ResultReused
