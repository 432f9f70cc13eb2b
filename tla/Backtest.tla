------------------------------ MODULE Backtest ------------------------------
(***************************************************************************)
(* The backtest service on a market that goes on while requests are made.  *)
(* A period brings a spot candle, a perpetual candle and a funding rate,   *)
(* each of which may be missing; the candles are fetched page by page; the *)
(* two simulations run over them; their trades are summed up, redrawn by   *)
(* the Monte Carlo runs, searched over a grid and tested walk-forward.     *)
(*                                                                         *)
(* Money is in whole units, rates and fees are in basis points of the      *)
(* position, z-scores are compared by their squares in quarters, and a     *)
(* Sharpe ratio by its signed square in parts of 1000.                     *)
(***************************************************************************)
EXTENDS Integers, Sequences, FiniteSets, FiniteSetsExt, SequencesExt, Places

CONSTANTS
    Moments,              \* periods: [close, mid, perp, rate]; a price of 0: no candle
    MaxLength, MaxGaps,   \* bounds on the periods, and on those with a candle missing
    MaxDraws, DrawLength, \* bounds on the trades drawn, and on the periods they are drawn from
    PageSize, MaxCandles, \* MAX_CANDLES_PER_FETCH, MAX_TOTAL_CANDLES
    Capital, Position,
    Edge, Fee,            \* min_edge_bps, fee_bps
    Edges, Fees,          \* what searches try
    Extra,                \* candles a simulation wants beyond its window
    Grid, ExitZ,          \* walk-forward: sequence of [window, z]
    InSample, OutSample, Step,
    Lengths               \* train, test and step lengths TestedOutOfSample is about

VARIABLES
    market,    \* the periods so far
    path       \* the trades one Monte Carlo run has drawn

vars == <<market, path>>

Init == market = <<>> /\ path = <<>>

Sum(q)  == FoldSeq(LAMBDA x, acc : x + acc, 0, q)
Count(n) == [i \in 1 .. n |-> i]

-----------------------------------------------------------------------------
(* data.py: pages until one is short, the range ends or the cap is reached *)

Present(q, from) == Ordered({ i \in from .. Len(q) : q[i].close # 0 })
Page(q, from) == LET all == Present(q, from) IN IF Len(all) > PageSize THEN SubSeq(all, 1, PageSize) ELSE all

NextStart(page) == Last(page) + 1

\* A round of the loop: what there is so far, and where the next page begins, 0
\* after a short one.
FetchStep(q, acc) ==
    LET page == Page(q, acc.from)
    IN  IF acc.from \notin 1 .. Len(q) \/ Len(acc.got) >= MaxCandles THEN acc
        ELSE [got  |-> acc.got \o page,
              from |-> IF Len(page) < PageSize THEN 0 ELSE NextStart(page)]

\* No more rounds are needed than there are periods.
Fetched(q) ==
    FoldLeft(LAMBDA acc, i : FetchStep(q, acc), [got |-> <<>>, from |-> 1], Count(Len(q))).got

\* What the simulations see of the market: a candle that was not fetched is as
\* good as missing, its funding rate is still there.
Seen(q) ==
    LET got == ToSet(Fetched(q))
    IN  [i \in DOMAIN q |-> IF i \in got THEN q[i] ELSE [q[i] EXCEPT !.close = 0]]

-----------------------------------------------------------------------------
(* run_funding_arb: in at a rate that promises more than Edge and two      *)
(* fees, out at the next funding with a candle.                            *)

FundingTrade(q, i, j, fee) ==
    LET gross == (q[i].rate * Position) \div 10000 + ((q[j].close - q[i].close) * Position) \div q[i].close
        fees  == (4 * fee * Position) \div 10000
    IN  [entry |-> i, exit |-> j, gross |-> gross, fee |-> fees, net |-> gross - fees]

FundingStep(q, edge, fee, acc, i) ==
    IF q[i].close = 0 THEN acc
    ELSE IF acc.entry # 0
         THEN [entry |-> 0, trades |-> Append(acc.trades, FundingTrade(q, acc.entry, i, fee))]
    ELSE IF q[i].rate > edge + 2 * fee THEN [acc EXCEPT !.entry = i] ELSE acc

FundingTrades(q, edge, fee) ==
    FoldLeft(LAMBDA acc, i : FundingStep(q, edge, fee, acc, i),
             [entry |-> 0, trades |-> <<>>], Count(Len(q))).trades

-----------------------------------------------------------------------------
(* run_stat_arb on the candles both legs have.                             *)

Align(q) == Taken(q, { i \in DOMAIN q : q[i].close # 0 /\ q[i].perp # 0 })

Spread(q, i) == q[i].mid - q[i].perp

\* A variant of Before that looks at the candles after i too.
BeforeAndAfter(q, i, window) == [k \in 1 .. Len(q) |-> Spread(q, k)]

\* _rolling_z: the spreads of the window before i.
Before(q, i, window) == [k \in 1 .. window |-> Spread(q, i - window + k - 1)]

\* How the squared z-score, in quarters, compares with a bound: <<left, right>>.
ZSquared(q, i, window, bound) ==
    LET s == Before(q, i, window)
        n == Len(s)
        d == n * Spread(q, i) - Sum(s)
        v == n * Sum([k \in DOMAIN s |-> s[k] * s[k]]) - Sum(s) * Sum(s)
    IN  IF v = 0 THEN <<0, bound>> ELSE <<4 * d * d * (n - 1), bound * n * v>>

Beyond(q, i, window, bound) == LET z == ZSquared(q, i, window, bound) IN z[1] > z[2]
Within(q, i, window, bound) == LET z == ZSquared(q, i, window, bound) IN z[1] < z[2]

Rich(q, i, window) == window * Spread(q, i) > Sum(Before(q, i, window))

StatTrade(q, i, j, window) ==
    LET change == Spread(q, i) - Spread(q, j)
        gross  == ((IF Rich(q, i, window) THEN change ELSE -change) * Position) \div q[i].mid
        fees   == (4 * Fee * Position) \div 10000
    IN  [entry |-> i, exit |-> j, gross |-> gross, fee |-> fees, net |-> gross - fees]

StatStep(q, p, acc, i) ==
    IF acc.entry = 0
    THEN IF Beyond(q, i, p.window, p.z) THEN [acc EXCEPT !.entry = i] ELSE acc
    ELSE IF Within(q, i, p.window, ExitZ)
         THEN [entry |-> 0, trades |-> Append(acc.trades, StatTrade(q, acc.entry, i, p.window))]
    ELSE acc

StatTrades(q, p) ==
    IF Len(q) < p.window + Extra THEN <<>>
    ELSE FoldLeft(LAMBDA acc, i : StatStep(q, p, acc, i),
                  [entry |-> 0, trades |-> <<>>],
                  [k \in 1 .. Len(q) - p.window |-> p.window + k]).trades

-----------------------------------------------------------------------------
(* _compute_metrics, _build_equity_curve and their Monte Carlo twin.       *)

Nets(trades) == [k \in DOMAIN trades |-> trades[k].net]

EquityCurve(nets) == [k \in 0 .. Len(nets) |-> Capital + Sum(SubSeq(nets, 1, k))]

\* A variant of WorstStep that keeps the last drawdown instead of the deepest.
WorstStepLast(acc, net) ==
    LET equity == acc.equity + net
        peak   == IF equity > acc.peak THEN equity ELSE acc.peak
    IN  [equity |-> equity, peak |-> peak, fall |-> peak - equity, from |-> peak]

WorstStep(acc, net) ==
    LET equity == acc.equity + net
        peak   == IF equity > acc.peak THEN equity ELSE acc.peak
        worse  == peak > 0 /\ (peak - equity) * acc.from > acc.fall * peak
    IN  [equity |-> equity, peak |-> peak,
         fall |-> IF worse THEN peak - equity ELSE acc.fall,
         from |-> IF worse THEN peak ELSE acc.from]

\* The deepest fall as a fraction of the peak it fell from.
Metrics(nets) ==
    FoldLeft(WorstStep, [equity |-> Capital, peak |-> Capital, fall |-> 0, from |-> Capital], nets)

Winners(nets) == Taken(nets, { k \in DOMAIN nets : nets[k] > 0 })
Losers(nets)  == Taken(nets, { k \in DOMAIN nets : nets[k] <= 0 })

\* The signed square of mean over deviation of the returns.
Returns(nets) ==
    LET curve == EquityCurve(nets)
    IN  [k \in DOMAIN nets |-> IF curve[k - 1] > 0 THEN (nets[k] * 10000) \div curve[k - 1] ELSE 0]

Sharpe(nets) ==
    LET r == Returns(nets)
        n == Len(r)
        v == n * Sum([k \in DOMAIN r |-> r[k] * r[k]]) - Sum(r) * Sum(r)
        s == (Sum(r) * Sum(r) * (n - 1) * 1000) \div (n * v)
    IN  IF n < 2 \/ v = 0 THEN 0 ELSE IF Sum(r) < 0 THEN -s ELSE s

\* _kelly_from_returns, in basis points; losses of nothing divide by zero.
Raises == -1
Kelly(nets) ==
    LET w == Winners(nets)
        l == Losers(nets)
        full == (10000 * Len(w)) \div Len(nets)
                - (10000 * (-Sum(l)) * Len(w)) \div (Len(nets) * Sum(w))
    IN  IF w = <<>> \/ l = <<>> THEN 0
        ELSE IF Sum(l) = 0 THEN Raises
        ELSE Min({Max({full, 0}) \div 2, 2500})

-----------------------------------------------------------------------------
(* walk_forward.py.                                                        *)

\* A variant of Windows whose test begins with the last candle of the training.
WindowsOverlap(n, train, test, step) ==
    { <<s, s + train, s + train - 1, s + train + test - 1>> :
          s \in { t \in { k * step : k \in 0 .. n } : t + train + test <= n } }

\* wfa_windows: half-open ranges, counted from zero.
Windows(n, train, test, step) ==
    { <<s, s + train, s + train, s + train + test>> :
          s \in { t \in { k * step : k \in 0 .. n } : t + train + test <= n } }

Slice(q, from, to) == SubSeq(q, from + 1, to)

\* The first of the best: a later one must be strictly better.
Best(q) ==
    FoldLeft(LAMBDA best, p :
                 LET s == Sharpe(Nets(StatTrades(q, p)))
                 IN  IF best.score = Raises - 1000000 \/ s > best.score THEN [params |-> p, score |-> s] ELSE best,
             [params |-> Head(Grid), score |-> Raises - 1000000], Grid)

WalkFold(q, w) ==
    LET best == Best(Slice(q, w[1], w[2]))
        oos  == StatTrades(Slice(q, w[3], w[4]), best.params)
    IN  [window |-> w, best |-> best, trades |-> Len(oos), net |-> Sum(Nets(oos)), score |-> Sharpe(Nets(oos))]

WalkForward(q) == { WalkFold(q, w) : w \in Windows(Len(q), InSample, OutSample, Step) }

-----------------------------------------------------------------------------
(* Searches and sweeps: every setting is simulated on the same download.    *)

\* A fee that would eat the whole edge is not tried.
SearchFunding(q) ==
    LET seen == Seen(q) IN
    { [edge |-> p[1], fee |-> p[2], trades |-> FundingTrades(seen, p[1], p[2])] :
          p \in { p \in Edges \X Fees : p[2] < p[1] } }

SearchStat(q) ==
    LET aligned == Align(Seen(q)) fetched == Len(Fetched(q)) IN
    { [params |-> p, trades |-> StatTrades(aligned, p)] :
          p \in { p \in ToSet(Grid) : fetched >= p.window + 2 * Extra } }

SweepFunding(q) ==
    LET seen == Seen(q) IN
    { [edge |-> e, fee |-> Fee, trades |-> FundingTrades(seen, e, Fee)] : e \in Edges }
SweepStat(q) ==
    LET aligned == Align(Seen(q)) IN
    { [params |-> p, trades |-> StatTrades(aligned, p)] : p \in ToSet(Grid) }

-----------------------------------------------------------------------------
(* regime_backtest.py: the trades of a run by the volatility at entry.     *)

\* The squared deviation of the last two changes of the close, unscaled.
RealisedVol(q, i) ==
    LET d == [k \in 1 .. 2 |-> q[i - 2 + k].close - q[i - 3 + k].close]
    IN  2 * Sum([k \in 1 .. 2 |-> d[k] * d[k]]) - Sum(d) * Sum(d)

\* The moment a candle is filed under: the classification asks for open_time, which
\* no candle of data.py has.
OpenTime(q, i) == 0

\* The volatility at the last candle at or before the entry, if there is one.
VolAtEntry(q, t) ==
    LET known == { i \in DOMAIN q : OpenTime(q, i) # 0 /\ OpenTime(q, i) <= t.entry }
    IN  IF known = {} \/ Max(known) < 3 THEN {} ELSE {RealisedVol(q, Max(known))}

\* _classify_trades_by_vol: with fewer than two trades placed, all are "mid".
Classes(q, trades) ==
    LET placed(t) == VolAtEntry(q, t) # {}
        vol(t)  == CHOOSE v \in VolAtEntry(q, t) : TRUE
        select(ts, Test(_)) == Taken(ts, { k \in DOMAIN ts : Test(ts[k]) })
        valid   == select(trades, placed)
        ordered == SortSeq([k \in DOMAIN valid |-> vol(valid[k])], <)
        low  == ordered[Len(valid) \div 3 + 1]
        high == ordered[(2 * Len(valid)) \div 3 + 1]
    IN  IF Len(valid) < 2 THEN [low_vol |-> <<>>, mid_vol |-> trades, high_vol |-> <<>>]
        ELSE [low_vol  |-> select(valid, LAMBDA t : vol(t) <= low),
              mid_vol  |-> select(trades, LAMBDA t : ~placed(t) \/ (low < vol(t) /\ vol(t) <= high)),
              high_vol |-> select(valid, LAMBDA t : vol(t) > high)]

Aggregate(trades) ==
    [count |-> Len(trades), wins |-> Len(Winners(Nets(trades))), net |-> Sum(Nets(trades))]

RegimeSplit(q, trades) ==
    LET classes == Classes(q, trades) IN [c \in DOMAIN classes |-> Aggregate(classes[c])]

-----------------------------------------------------------------------------
(* The two endpoints that run one simulation.                              *)

Funding(q) == FundingTrades(Seen(q), Edge, Fee)
Statistical(q) == StatTrades(Align(Seen(q)), Head(Grid))

Gaps(q) == Len(q) - Len(Align(q))

Period(m) ==
    /\ Len(market) < MaxLength /\ Gaps(Append(market, m)) <= MaxGaps
    /\ market' = Append(market, m) /\ path' = <<>>

\* run_monte_carlo: one trade of the log, with replacement.
Draw ==
    LET trades == Funding(market)
    IN  /\ Len(market) <= DrawLength /\ Len(path) < MaxDraws /\ Len(path) < Len(trades)
        /\ \E k \in DOMAIN trades : path' = Append(path, trades[k].net)
        /\ UNCHANGED market

Next == (\E m \in Moments : Period(m)) \/ Draw

Spec == Init /\ [][Next]_vars

-----------------------------------------------------------------------------
(* "No look-ahead" (engine.py): a simulation never makes use of what comes *)
(* later.  When the market goes on, the trades already made stay what they *)
(* are in both strategies, and so do the folds of a walk-forward test      *)
(* (run_funding_arb, run_stat_arb, walk_forward_stat_arb).                 *)
NoLookAhead ==
    [][/\ IsPrefix(Funding(market), Funding(market'))
       /\ IsPrefix(Statistical(market), Statistical(market'))
       /\ WalkForward(Align(market)) \subseteq WalkForward(Align(market'))]_vars

(* The numbers computed in one pass are those of their definitions, for    *)
(* both simulations and for every Monte Carlo path: the deepest fall is    *)
(* the deepest from any earlier peak, every trade has won or lost, the     *)
(* curve ends at the capital and the net result, and the Kelly share is at *)
(* most a quarter (_compute_metrics, run_monte_carlo).                     *)
Deepest(nets) ==
    LET curve   == EquityCurve(nets)
        m == Metrics(nets)
        peak(k) == Max({ curve[i] : i \in 0 .. k })
    IN  \A k \in DOMAIN curve : (peak(k) - curve[k]) * m.from <= m.fall * peak(k)

MetricsMatch ==
    \A nets \in {Nets(Funding(market)), Nets(Statistical(market)), path} :
        LET m == Metrics(nets) curve == EquityCurve(nets)
        IN
        /\ Deepest(nets)
        /\ \E k \in DOMAIN curve : curve[k] = m.from - m.fall
        /\ m.equity = curve[Len(nets)]
        /\ Len(Winners(nets)) + Len(Losers(nets)) = Len(nets)
        /\ Kelly(nets) \in -1 .. 2500

(* Every candle of the range is fetched once and in order, up to the cap,  *)
(* however the pages fall (fetch_candles, fetch_perp_candles).             *)
FetchedOnce ==
    LET got == Fetched(market)
    IN  /\ IsPrefix(got, Present(market, 1))
        /\ Len(got) < MaxCandles => got = Present(market, 1)

(* A test period begins where its training ends, and with a step of a      *)
(* whole test period no candle is tested twice and none is skipped between *)
(* the first test and the last, whatever the lengths (wfa_windows).        *)
TestedOutOfSample ==
    LET n == Len(Align(market))
    IN  \A train, test, step \in Lengths :
        LET all == Windows(n, train, test, step)
        IN  \A w \in all :
              /\ w[3] >= w[2] /\ w[4] <= n
              /\ step = test =>
                    \A v \in all : v[3] > w[3] => v[3] >= w[4] /\ \E u \in all : u[3] = w[4]

(* A sweep, a search and a split are about the same trades as the run: the *)
(* setting of the run is found in both tables with the trades of the run,  *)
(* and the classes of the split have every trade and every dollar of it    *)
(* exactly once (grid_search_stat_arb, funding_arb_sweep, regime_split).   *)
SplitAddsUp ==
    LET funding == Funding(market) statistical == Statistical(market)
    IN
    /\ \A row \in SearchFunding(market) \cup SweepFunding(market) :
          row.edge = Edge /\ row.fee = Fee => row.trades = funding
    /\ \A row \in SearchStat(market) \cup SweepStat(market) :
          row.params = Head(Grid) => row.trades = statistical
    /\ \A trades \in {funding, statistical} :
          LET split == RegimeSplit(Seen(market), trades)
              total(f) == split.low_vol[f] + split.mid_vol[f] + split.high_vol[f]
          IN  \A f \in {"count", "wins", "net"} : total(f) = Aggregate(trades)[f]

(* "Classifies each trade into one of three volatility terciles"           *)
(* (regime_split): three or more trades do not all end in one class.       *)
SplitByVolatility ==
    LET split == RegimeSplit(Seen(market), Funding(market))
    IN  Len(Funding(market)) >= 3 => \A c \in DOMAIN split : split[c].count < Len(Funding(market))

(* "Simulates the strategy over the requested date range" (routes          *)
(* run_funding_arb): every candle of the range is part of it.              *)
WholeRange == Fetched(market) = Present(market, 1)

(* "Fills at close price of each candle (conservative - no look-ahead)"    *)
(* (engine.py): a statistical arbitrage trade is entered at the close.     *)
FilledAtClose ==
    LET q == Align(market)
    IN  \A k \in DOMAIN Statistical(market) :
            q[Statistical(market)[k].entry].mid = q[Statistical(market)[k].entry].close

(* Fetching leaves out no candle and takes none twice, and no              *)
(* walk-forward window tests a parameter on what it was chosen from.       *)
CandlesUsedOnce == FetchedOnce /\ TestedOutOfSample

(* Every figure of a result is that of its trades, whichever table it      *)
(* stands in.                                                              *)
ResultsMatch == MetricsMatch /\ SplitAddsUp
=============================================================================
