SPECIFICATION AllSpec
CONSTANTS
    Requests = {r1, r2}
    RiskWorkers = {w1, w2}
    Strategies = {t1, t2}
    AutoHalts = TRUE
    CallsFail = TRUE
    MaxCrashes = 1
    Changes = {c1, c2, c3}
    Sets = {s1, s2}
    Deletes = {d1}
    Gets = {g1}
    EnvValue = env
    Nothing = nothing
    Users = {u1}
    Asks = {a1, a2}
    Ttl = 1
    SessionTime = 3
    Arrivals = {q1, q2, q3}
    Limit = 1
    RateWindow = 2
    RateTime = 3
    PaperTraders = {"a", "b"}
    LiveTraders = {"a"}
    Gains = {2}
    Losses = {1}
    Costs = {1}
    DayLength = 1
    Days = 1
    MinDays = 1
    MinTrades = 1
    Events = {"kill_switch.activated"}
    JournalTime = 2
    MaxTrades = 3
    MaxEvents = 1
CONSTRAINT Apart
INVARIANTS LastOperationHolds  CacheTrueUndisturbed  AdmittedPerBucket FiguresAgree
PROPERTIES OnlyResetClears 
CHECK_DEADLOCK FALSE
