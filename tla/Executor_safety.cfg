CONSTANTS
    first = first
    second = second
    Opps <- MCOpps
    LegCount <- MCLegs
    MaxLegs = 2
    CacheFails = TRUE
    MaxCrashes = 1
    MaxRedisCrashes = 0
SPECIFICATION FairSpec
INVARIANTS
    BookedBeforeAck
    HaltOvershoot
    ExecutedIsBooked
 
