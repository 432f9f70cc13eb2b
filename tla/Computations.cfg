SPECIFICATION Spec
CONSTANTS
    SpotPrices = {20, 21, 23}
    PerpPrices = {20, 23}
    Rates = {0, 9}
    Regimes = {"ranging", "trending_bull"}
    Length = 3
    Lookback = 2
    AtrPeriod = 2
    Horizons = {1, 2}
    RsiPeriod = 2
    BbPeriod = 3
    EntryZ = 7
    Scale = 100
    RocThreshold = 1
    ScanFee = 1
    MinEdge = 2
    StopNum = 3
    StopDen = 2
    MaxPublished = 2
    RrNum = 1
    RrDen = 1
    Fixed = 5000
    Equities = {0, 100000, 1000000}
    WinRates = {0, 40, 60, 99, missing}
    Amounts = {10, 15, missing}
    Missing = missing
    MaxPct = 5
    Multipliers = {50, 100, 150}
    VolMin = 50
    VolMax = 150
    SizedVenues = {"binance", "oanda", "mt5"}
    SizedPrices = {110, 7000}
    Precision = 100
    Contract = 100
    MinLot = 1
    MaxLot = 1000
    LotsPerUnit = 100
    Quantities = {0, 1, 2}
    FillPrices = {0, 5, 8}
    FillFees = {0, 3}
    MaxFills = 5
    Moments <- MCMoments
    MaxLength = 8
    MaxGaps = 1
    MaxDraws = 3
    DrawLength = 6
    PageSize = 2
    MaxCandles = 7
    Capital = 1000
    Position = 10000
    Edge = 5
    Fee = 10
    Edges = {5, 20}
    Fees = {10}
    Extra = 0
    Grid <- MCGrid
    ExitZ = 4
    InSample = 4
    OutSample = 4
    Step = 1
    Lengths = {1, 2, 4}
    Bodies <- MCBodies
    TableRows = {0, 2}
    Sizes = {2, 4}
    Overlaps = {0, 1, 5}
    Reach = 3
    MinChars = 2
    SectionChars = 4
    MaxPages = 2
INVARIANTS  SpentAsBudgeted AccountsAddUp  
PROPERTY NoLookAhead
CHECK_DEADLOCK FALSE
