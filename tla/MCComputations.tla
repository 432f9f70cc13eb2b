---------------------------- MODULE MCComputations ----------------------------
(***************************************************************************)
(* What is computed from prices, fills and trades, side by side for TLC:   *)
(* the strategies' scans, the size of a leg, the average-cost accounts and *)
(* the backtests; and what is made of the text of a document.  The parts   *)
(* share no state; the run picks one at the start and then takes its       *)
(* steps only.                                                             *)
(***************************************************************************)
EXTENDS Integers, Sequences, FiniteSets

CONSTANTS
    SpotPrices, PerpPrices, Rates, Regimes, Length, Lookback, AtrPeriod, Horizons, RsiPeriod, BbPeriod, EntryZ,
    Scale, RocThreshold, ScanFee, MinEdge, StopNum, StopDen, MaxPublished, RrNum, RrDen,
    Fixed, Equities, WinRates, Amounts, Missing, MaxPct, Multipliers, VolMin, VolMax,
    SizedVenues, SizedPrices, Precision, Contract, MinLot, MaxLot, LotsPerUnit,
    Quantities, FillPrices, FillFees, MaxFills,
    Moments, MaxLength, MaxGaps, MaxDraws, DrawLength, PageSize, MaxCandles, Capital, Position,
    Edge, Fee, Edges, Fees, Extra, Grid, ExitZ, InSample, OutSample, Step, Lengths,
    Bodies, TableRows, Sizes, Overlaps, Reach, MinChars, SectionChars, MaxPages

\* Prices are positive, the windows of a scan lie in the ticks it asks for, a stop
\* and a fee are no gain; the volatility multiplier is kept in its bounds, which
\* allow for 1.
ASSUME ComputationsAssumption ==
    /\ SpotPrices \cup PerpPrices \subseteq Nat \ {0}
    /\ IsFiniteSet(SpotPrices \cup PerpPrices) /\ Rates \subseteq Int
    /\ Regimes \subseteq {"ranging", "low_volatility", "high_volatility", "trending_bull", "trending_bear"}
    /\ Length \in Nat /\ {Lookback, AtrPeriod, RsiPeriod} \subseteq 1 .. Length - 1 /\ BbPeriod \in 1 .. Length
    /\ Horizons \subseteq 1 .. Length - 1 /\ Horizons # {}
    /\ {Scale, StopNum, StopDen, RrNum, RrDen} \subseteq Nat \ {0}
    /\ {RocThreshold, ScanFee, MinEdge, EntryZ} \subseteq Nat
    /\ {Fixed, MaxPct, VolMin, VolMax} \cup Equities \subseteq Nat
    /\ VolMin <= 100 /\ 100 <= VolMax /\ Multipliers \subseteq VolMin .. VolMax
    /\ WinRates \cup Amounts \subseteq Int \cup {Missing} /\ Missing \notin Int
    /\ SizedPrices \subseteq Nat \ {0} /\ {Precision, LotsPerUnit, Contract} \subseteq Nat \ {0}
    /\ {MinLot, MaxLot} \subseteq Nat
    /\ Quantities \cup FillPrices \cup FillFees \subseteq Nat

\* A candle of a backtest has a mid price, its pages and its capital are not
\* nothing, and a walk-forward test has a setting to try and windows to try it on.
ASSUME ResearchAssumption ==
    /\ Moments \subseteq [close : Nat, mid : Nat, perp : Nat, rate : Int]
    /\ \A m \in Moments : m.close # 0 => m.mid # 0
    /\ {PageSize, MaxCandles, Capital} \subseteq Nat \ {0}
    /\ {Position, Edge, Fee} \cup Edges \cup Fees \subseteq Int /\ Extra \in Nat
    /\ Grid \in Seq([window : Nat, z : Nat]) /\ Grid # <<>>
    /\ {InSample, OutSample, Step} \cup Lengths \subseteq Nat \ {0}

\* A line is blank when it has no length, and a chunk and a section have a size.
ASSUME TextAssumption ==
    /\ Bodies \subseteq Seq({ l \in [kind : {"head", "row", "word", "stop", "blank"}, len : Nat, page : Nat] :
                                  l.kind = "blank" <=> l.len = 0 })
    /\ {Reach, MinChars} \cup TableRows \cup Overlaps \subseteq Nat
    /\ {SectionChars} \cup Sizes \subseteq Nat \ {0}

VARIABLES
    part,                                                  \* the computation at work
    cache, rate, inForce, published,
    settings, record, venue, price, fraction, notional, legs,
    net, avg, openFees, realized, cash, paid, low, high, lost, fills,
    market, path,
    source, size, overlap, pages

scans    == <<cache, rate, inForce, published>>
sizes    == <<settings, record, venue, price, fraction, notional, legs>>
accounts == <<net, avg, openFees, realized, cash, paid, low, high, lost, fills>>
research == <<market, path>>
text     == <<source, size, overlap, pages>>
vars     == <<part, scans, sizes, accounts, research, text>>

MCPrices == [spot |-> SpotPrices, perp |-> PerpPrices]

\* A quiet period, a high rate, one with a candle missing, one that moves the pair.
MCMoments == { [close |-> 1000, mid |-> 1000, perp |-> 1000, rate |-> 0],
               [close |-> 1010, mid |-> 1005, perp |-> 1000, rate |-> 40],
               [close |-> 0,    mid |-> 0,    perp |-> 1000, rate |-> 40],
               [close |-> 990,  mid |-> 1010, perp |-> 1000, rate |-> 0] }
MCGrid == << [window |-> 2, z |-> 4], [window |-> 2, z |-> 16] >>

\* Words, sentences, rows, headings and blank lines, of pages with up to four lines.
MCBodies ==
    LET l(kind, len) == [kind |-> kind, len |-> len, page |-> 0]
        word == l("word", 1) words == l("word", 3) row == l("row", 1)
        head == l("head", 1) blank == l("blank", 0)
    IN  { <<>>, <<word>>, <<words, word>>, <<l("stop", 4), words>>, <<head, words>>,
          <<word, blank, words>>, <<row, row>>, <<words, row>>, <<head, row, blank, row>>,
          <<head, head>>, <<row, word>> }

Scan == INSTANCE Strategies WITH Prices <- MCPrices, Fee <- ScanFee
Size == INSTANCE Sizing WITH Venues <- SizedVenues, Prices <- SizedPrices
Acc  == INSTANCE Pnl WITH Prices <- FillPrices, Fees <- FillFees
Test == INSTANCE Backtest
Text == INSTANCE Chunker

\* What a run that is about something else leaves at one value.
NoSizing ==
    /\ settings = [kelly |-> FALSE, vol |-> FALSE, equity |-> 0, paper |-> TRUE]
    /\ record = [rate |-> Missing, win |-> Missing, loss |-> Missing]
    /\ venue = "binance" /\ price = CHOOSE p \in SizedPrices : TRUE

NoText ==
    /\ source = "text"
    /\ size = CHOOSE n \in Sizes : TRUE
    /\ overlap = CHOOSE n \in Overlaps : TRUE

Init ==
    /\ part \in {"scans", "sizes", "accounts", "research", "text"}
    /\ Scan!Init /\ Size!Init /\ Acc!Init /\ Test!Init /\ Text!Init
    /\ part # "scans" => rate = 0
    /\ part # "sizes" => NoSizing
    /\ part # "text" => NoText

Next ==
    /\ part' = part
    /\ \/ part = "scans" /\ Scan!Next /\ UNCHANGED <<sizes, accounts, research, text>>
       \/ part = "sizes" /\ Size!Next /\ UNCHANGED <<scans, accounts, research, text>>
       \/ part = "accounts" /\ Acc!Next /\ UNCHANGED <<scans, sizes, research, text>>
       \/ part = "research" /\ Test!Next /\ UNCHANGED <<scans, sizes, accounts, text>>
       \/ part = "text" /\ Text!Next /\ UNCHANGED <<scans, sizes, accounts, research>>

Spec == Init /\ [][Next]_vars

\* See Strategies: what is published pays and is traded as it was meant.
PublishedAsMeant == Scan!PublishedAsMeant

\* See Sizing: the legs do not spend more than was budgeted.
SpentAsBudgeted == Size!SpentAsBudgeted

\* See Pnl: results, fees and position explain the cash.
AccountsAddUp == Acc!AccountsAddUp

\* See Backtest: the figures of a result are those of its trades.
ResultsMatch == Test!ResultsMatch

\* See Backtest and Chunker: no candle is left out, taken twice, or tested on too
\* early, and no line of a document is left out.
NothingLeftOut == Test!CandlesUsedOnce /\ Text!TextKept

\* See Backtest: a later candle does not change an earlier trade.
NoLookAhead == Test!NoLookAhead
=============================================================================
