----------------------------- MODULE Strategies -----------------------------
(***************************************************************************)
(* The strategies' rules and the order plan the executor makes of what     *)
(* they publish, on the ticks of one spot symbol and its perpetual.  Each  *)
(* scan reads the regime, the newest ticks and, for funding, the rate, and *)
(* publishes at most one opportunity; a TradingView signal publishes one   *)
(* with far fewer questions asked.                                         *)
(*                                                                         *)
(* The windows are short and prices are small integers; returns and edges  *)
(* are in parts of Scale (10000 for basis points).  An average true range  *)
(* is any value between the smallest and the largest of its ranges, which  *)
(* covers the mean of ticks and the smoothed one of bars.                  *)
(***************************************************************************)
EXTENDS Integers, Sequences, FiniteSets, FiniteSetsExt, SequencesExt

CONSTANTS
    Prices, Rates, Regimes,   \* mid prices of each symbol, funding rates, regime labels in use
    Length,                   \* ticks kept and asked for
    Lookback, AtrPeriod,      \* breakout and momentum
    Horizons,                 \* the three horizons of the rate of change
    RsiPeriod, BbPeriod,      \* mean reversion; the band is one deviation wide
    EntryZ,                   \* squared entry z-score, in quarters
    Scale, RocThreshold, Fee, MinEdge,
    StopNum, StopDen,         \* MOM_ATR_STOP_MULT
    MaxPublished,             \* bound on the opportunities of one market
    RrNum, RrDen              \* STRATEGY_MIN_RR_RATIO

VARIABLES
    cache,        \* tick caches, newest first
    rate,         \* the funding rate
    inForce,      \* ai:regime:current
    published     \* opportunities published on this market

vars == <<cache, rate, inForce, published>>

Symbols == {"spot", "perp"}

Init ==
    /\ cache = [s \in Symbols |-> <<>>]
    /\ rate \in Rates /\ inForce = "unknown" /\ published = {}

-----------------------------------------------------------------------------
(* The market moves.                                                       *)

Tick(s, p) ==
    /\ cache' = [cache EXCEPT ![s] = SubSeq(<<p>> \o @, 1, IF Len(@) < Length THEN Len(@) + 1 ELSE Length)]
    /\ published' = {} /\ UNCHANGED <<rate, inForce>>

NewRegime(r) ==
    /\ r # inForce /\ inForce' = r
    /\ published' = {} /\ UNCHANGED <<cache, rate>>

-----------------------------------------------------------------------------
(* Indicators.                                                             *)

Spot == cache["spot"]
Now  == Head(Spot)

AbsDiff(a, b) == IF a > b THEN a - b ELSE b - a
Total(q)      == FoldSeq(LAMBDA x, acc : x + acc, 0, q)
Squares(q)    == Total([i \in DOMAIN q |-> q[i] * q[i]])
Newest(q, n)  == SubSeq(q, 1, n)

TrueRanges == { AbsDiff(Spot[i], Spot[i + 1]) : i \in 1 .. AtrPeriod }
Atrs == (Min(TrueRanges) .. Max(TrueRanges)) \ {0}

\* _detect_breakout: beyond the range of the ticks before by half an ATR.
Earlier == { Spot[i] : i \in 2 .. Lookback + 1 }

Breakout(atr) ==
    IF 2 * Now > 2 * Max(Earlier) + atr THEN "buy"
    ELSE IF 2 * Now < 2 * Min(Earlier) - atr THEN "sell" ELSE "none"

\* _detect_breakout_bars: the same rule on candles, whose closes, highs and lows
\* the window of prices stands for.
BreakoutBars(atr) == Breakout(atr)

BreakoutDistance == IF Now > Max(Earlier) THEN Now - Max(Earlier) ELSE Min(Earlier) - Now

\* _roc and _analyse_momentum: all three horizons beyond the threshold.
Roc(n)   == ((Now - Spot[n + 1]) * Scale) \div Spot[n + 1]
Rising(n)  == (Now - Spot[n + 1]) * Scale > RocThreshold * Spot[n + 1]
Falling(n) == (Spot[n + 1] - Now) * Scale > RocThreshold * Spot[n + 1]

Momentum ==
    IF \A n \in Horizons : Rising(n) THEN "buy"
    ELSE IF \A n \in Horizons : Falling(n) THEN "sell" ELSE "none"

\* _analyse_momentum_bars, on the closes.
MomentumBars == Momentum

Strength == AbsDiff(0, SumFunction([n \in Horizons |-> Roc(n)])) \div Cardinality(Horizons)

\* _rsi: below 30 or above 70; no losses at all count as 100.
Gains  == MapThenSumSet(LAMBDA i : IF Spot[i] > Spot[i + 1] THEN Spot[i] - Spot[i + 1] ELSE 0, 1 .. RsiPeriod)
Losses == MapThenSumSet(LAMBDA i : IF Spot[i] < Spot[i + 1] THEN Spot[i + 1] - Spot[i] ELSE 0, 1 .. RsiPeriod)
Oversold   == Losses > 0 /\ 10 * Gains < 3 * (Gains + Losses)
Overbought == Losses = 0 \/ 10 * Gains > 7 * (Gains + Losses)

\* _bollinger_bands, with n times the distance to the mean and n^2 the variance.
Gap == Total(Newest(Spot, BbPeriod)) - BbPeriod * Now
Variance(q) == Len(q) * Squares(q) - Total(q) * Total(q)
Band == Variance(Newest(Spot, BbPeriod))

Reversion ==
    IF Oversold /\ Gap >= 0 /\ Gap * Gap >= Band THEN "buy"
    ELSE IF Overbought /\ Gap <= 0 /\ Gap * Gap >= Band THEN "sell" ELSE "none"

\* _analyse_bars, on the closes.
ReversionBars == Reversion

RevertEdge == (AbsDiff(0, Gap) * Scale) \div (BbPeriod * Now)

\* _rolling_z_score of the spreads, newest first.
Both == IF Len(Spot) < Len(cache["perp"]) THEN Len(Spot) ELSE Len(cache["perp"])
Spreads == [i \in 1 .. Both |-> Spot[i] - cache["perp"][i]]
Deviation == Both * Head(Spreads) - Total(Spreads)
Diverged == Variance(Spreads) > 0 /\ 4 * Deviation * Deviation >= EntryZ * Variance(Spreads)

-----------------------------------------------------------------------------
(* Opportunities, as the executor reads them.                              *)

Opportunity(name, first, second, tv, direction, expected, net) ==
    [strategy |-> name, primary |-> first, secondary |-> second,
     tv_action |-> tv, direction |-> direction, expected |-> expected, net |-> net,
     stop |-> 0, target |-> 0]

Publish(o) ==
    /\ Cardinality(published) < MaxPublished /\ o \notin published
    /\ published' = published \cup {o} /\ UNCHANGED <<cache, rate, inForce>>

Worth(target, stop) == stop > 0 /\ target * RrDen >= RrNum * stop

ScanBreakout ==
    /\ inForce \notin {"ranging", "low_volatility"}
    /\ Len(Spot) = Length
    /\ \E atr \in Atrs : \E direction \in {Breakout(atr), BreakoutBars(atr)} :
          LET edge == (BreakoutDistance * Scale) \div Now
          IN  /\ direction # "none"
              /\ edge - Fee >= MinEdge
              /\ Worth(2 * atr, atr)
              /\ Publish([Opportunity("breakout", "spot", "none", "none", direction, edge, edge - Fee)
                          EXCEPT !.stop = atr, !.target = 2 * atr])

\* The edge is raised to MOM_MIN_EDGE_BPS, never compared with it; the expected
\* return is that of the target.
ScanMomentum ==
    /\ inForce \notin {"ranging", "low_volatility"}
    /\ Len(Spot) = Length
    /\ \E atr \in Atrs : \E direction \in {Momentum, MomentumBars} :
          /\ direction # "none"
          /\ Worth(2 * atr * StopDen, atr * StopNum)
          /\ Publish([Opportunity("momentum", "spot", "none", "none", direction, (2 * atr * Scale) \div Now,
                                  IF Strength - Fee > MinEdge THEN Strength - Fee ELSE MinEdge)
                      EXCEPT !.stop = (atr * StopNum) \div StopDen, !.target = 2 * atr])

\* The stop is one band away, the reward the edge after fees.
ScanReversion ==
    /\ inForce \notin {"trending_bull", "trending_bear", "high_volatility"}
    /\ Len(Spot) = Length
    /\ \E direction \in {Reversion, ReversionBars} :
          LET net    == RevertEdge - Fee
              reward == net * Now * BbPeriod * RrDen
          IN  /\ direction # "none"
              /\ net >= MinEdge
              /\ Band > 0 /\ reward * reward >= RrNum * RrNum * Scale * Scale * Band
              /\ Publish(Opportunity("mean_reversion_scalp", "spot", "none", "none", direction, RevertEdge, net))

\* Both ticks are there and short perpetuals are paid.
ScanFunding ==
    /\ Spot # <<>> /\ cache["perp"] # <<>>
    /\ rate > 0 /\ rate - Fee >= MinEdge
    /\ Publish(Opportunity("funding_arb", "spot", "perp", "none", "none", rate, rate - Fee))

\* The edge is taken from the spread itself, not from its distance to the mean.
SpreadEdge == (AbsDiff(0, Head(Spreads)) * Scale) \div Now

Overpriced  == IF Deviation > 0 THEN "spot" ELSE "perp"
OtherLeg(s) == IF s = "spot" THEN "perp" ELSE "spot"

ScanPair ==
    /\ Both = Length /\ Diverged
    /\ SpreadEdge - Fee >= MinEdge
    /\ Publish(Opportunity("stat_arb", Overpriced, OtherLeg(Overpriced), "none", "none",
                           SpreadEdge, SpreadEdge - Fee))

-----------------------------------------------------------------------------
(* run_from_signal.                                                        *)

\* swing, and the three scanning strategies, which want a price only.
SignalDirectional(name, action) ==
    /\ action \in {"buy", "sell"}
    /\ name # "swing" => Spot # <<>>
    /\ Publish(Opportunity(name, "spot", "none", action,
                           IF name # "swing" THEN "none" ELSE IF action = "buy" THEN "long" ELSE "short",
                           MinEdge + Fee, MinEdge))

SignalFunding(action) ==
    /\ Spot # <<>> /\ cache["perp"] # <<>>
    /\ rate > 0 /\ rate - Fee >= MinEdge
    /\ Publish(Opportunity("funding_arb", "spot", "perp", action, "none", rate, rate - Fee))

\* An explicit action overrides the direction of the spread.
SignalPair(action) ==
    /\ Both = Length /\ Diverged
    /\ SpreadEdge - Fee >= MinEdge
    /\ LET sold == CASE action = "buy" -> "perp" [] action = "sell" -> "spot" [] OTHER -> Overpriced
       IN  Publish(Opportunity("stat_arb", sold, OtherLeg(sold), action, "none", SpreadEdge, SpreadEdge - Fee))

Actions == {"buy", "sell", "alert"}
Directional == {"swing", "breakout", "momentum", "mean_reversion_scalp"}

Next ==
    \/ \E s \in Symbols : \E p \in Prices[s] : Tick(s, p)
    \/ \E r \in Regimes : NewRegime(r)
    \/ ScanBreakout \/ ScanMomentum \/ ScanReversion \/ ScanFunding \/ ScanPair
    \/ \E a \in Actions : SignalFunding(a) \/ SignalPair(a) \/ \E n \in Directional : SignalDirectional(n, a)

Spec == Init /\ [][Next]_vars

-----------------------------------------------------------------------------
(* The executor's plan: the first field that holds a known token decides.  *)

SideOf(token) ==
    IF token \in {"buy", "long"} THEN "buy" ELSE IF token \in {"sell", "short"} THEN "sell" ELSE "none"

ResolveSide(o) == IF SideOf(o.tv_action) # "none" THEN SideOf(o.tv_action) ELSE SideOf(o.direction)

\* A variant of LegDirections with the legs of a statistical arbitrage swapped.
LegDirectionsSwapped == [funding_arb |-> <<"buy", "sell">>, stat_arb |-> <<"buy", "sell">>]

LegDirections == [funding_arb |-> <<"buy", "sell">>, stat_arb |-> <<"sell", "buy">>]

BuildOrderPlan(o) ==
    IF o.strategy \in Directional
    THEN IF ResolveSide(o) = "none" THEN <<>> ELSE << [symbol |-> o.primary, side |-> ResolveSide(o)] >>
    ELSE << [symbol |-> o.primary, side |-> LegDirections[o.strategy][1]],
            [symbol |-> o.secondary, side |-> LegDirections[o.strategy][2]] >>

-----------------------------------------------------------------------------
Buys(o, s)  == \E i \in DOMAIN BuildOrderPlan(o) : BuildOrderPlan(o)[i] = [symbol |-> s, side |-> "buy"]
Sells(o, s) == \E i \in DOMAIN BuildOrderPlan(o) : BuildOrderPlan(o)[i] = [symbol |-> s, side |-> "sell"]
Mean(q) == Total(q)   \* times Len(q)

(* What the executor does is what the strategy saw: a breakout or momentum *)
(* trade follows the newest price, a reversion trade leans against it, the *)
(* spread trades hold the two legs in opposite directions with the dear    *)
(* one sold, and a signal's buy or sell is carried out as such, although   *)
(* the direction travels in four encodings (_resolve_side,                 *)
(* _LEG_DIRECTIONS, run_once, run_from_signal).                            *)
TradeAsMeant ==
    \A o \in published :
        /\ BuildOrderPlan(o) # <<>>
        /\ o.tv_action \in {"buy", "sell"} /\ o.strategy # "funding_arb" =>
              (Buys(o, "spot") <=> o.tv_action = "buy") /\ (Sells(o, "spot") <=> o.tv_action = "sell")
        /\ o.tv_action = "none" =>
              CASE o.strategy \in {"breakout", "momentum"} ->
                      \A n \in IF o.strategy = "breakout" THEN 1 .. Lookback ELSE Horizons :
                          IF Buys(o, "spot") THEN Now > Spot[n + 1] ELSE Now < Spot[n + 1]
                [] o.strategy = "mean_reversion_scalp" ->
                      IF Buys(o, "spot") THEN Now * BbPeriod < Mean(Newest(Spot, BbPeriod))
                                         ELSE Now * BbPeriod > Mean(Newest(Spot, BbPeriod))
                [] o.strategy = "stat_arb" ->
                      IF Head(Spreads) * Both > Mean(Spreads) THEN Sells(o, "spot") /\ Buys(o, "perp")
                                                              ELSE Sells(o, "perp") /\ Buys(o, "spot")
                [] OTHER -> Buys(o, "spot") /\ Sells(o, "perp")

(* No strategy trades on a market that has not moved enough to pay: what   *)
(* is published by a scan claims at least MinEdge after fees and, where it *)
(* names a stop and a target, at least the configured reward for the risk. *)
(* In a known regime the trend strategies and the reversion strategy never *)
(* both publish, so the executor is not sent both ways (the regime gates   *)
(* of breakout, momentum and mean_reversion_scalp).                        *)
ScansPay ==
    /\ \A o \in published :
          /\ o.net >= MinEdge
          /\ o.stop > 0 => o.target * RrDen >= RrNum * o.stop
          /\ o.strategy # "momentum" => o.expected - Fee = o.net
    /\ inForce # "unknown" =>
          ~\E o, w \in published : /\ o.tv_action = "none" /\ w.tv_action = "none"
                                   /\ o.strategy \in {"breakout", "momentum"}
                                   /\ w.strategy = "mean_reversion_scalp"

(* "Profit if spread reverts fully to its mean (expressed in bps)"         *)
(* (stat_arb.run_once): the return a spread trade is published with is the *)
(* distance of the spread from its mean.                                   *)
PairEdgeIsReversion ==
    \A o \in published :
        o.strategy = "stat_arb" => o.expected * Both * Now <= AbsDiff(0, Deviation) * Scale

(* What a strategy publishes pays by its own rule and is traded the way    *)
(* it was meant, from the scan to the executor's order plan.               *)
PublishedAsMeant == TradeAsMeant /\ ScansPay
=============================================================================
