------------------------------- MODULE Journal -------------------------------
(***************************************************************************)
(* The journal: trades as the executor persists them, and what is computed *)
(* from them - the daily rows, the equity curve, each strategy's figures,  *)
(* the Kelly inputs, the capital allocation and the go-live gate.  A       *)
(* request may run several queries, each on the rows of its own moment.    *)
(*                                                                         *)
(* A request looks back a number of days from now, not from midnight.      *)
(***************************************************************************)
EXTENDS Integers, Sequences, FiniteSets, FiniteSetsExt, SequencesExt

CONSTANTS
    Accounts,             \* strategies and modes that trade: pairs [strategy, paper]
    Realized, Costs,      \* realized results and fees of fills
    DayLength, Days,      \* units of time in a day; the look-back
    MinDays, MinTrades,   \* thresholds of the go-live gate
    Events,               \* events the gate counts from
    MaxClock, MaxTrades, MaxEvents   \* bounds

VARIABLES
    clock,
    trades,      \* [strategy, paper, status, pnl, fee, at]
    positions,   \* realized_pnl of each position
    audit,       \* [event, at]
    summary      \* the summary being computed: [busy, fills, pnl, since]

vars == <<clock, trades, positions, audit, summary>>

Strategy == { a.strategy : a \in Accounts }

Idle == [busy |-> FALSE, fills |-> 0, pnl |-> 0, since |-> 0]

Init ==
    /\ clock = 0 /\ trades = <<>> /\ audit = <<>> /\ summary = Idle
    /\ positions = [x \in Strategy \X BOOLEAN |-> 0]

Time ==
    /\ ~summary.busy /\ clock < MaxClock /\ clock' = clock + 1
    /\ UNCHANGED <<trades, positions, audit, summary>>

\* persist_trade: a priced fill has a result and moves its position, ...
Fill(s, paper, pnl, fee) ==
    /\ trades' = Append(trades, [strategy |-> s, paper |-> paper, status |-> "filled", pnl |-> pnl, fee |-> fee, at |-> clock])
    /\ positions' = [positions EXCEPT ![<<s, paper>>] = @ + pnl]

\* ... a "filled" one without a price does neither (its result is NULL, which
\* no query tells from 0 but the count of break-even trades), ...
Unpriced(s, paper) ==
    /\ trades' = Append(trades, [strategy |-> s, paper |-> paper, status |-> "filled", pnl |-> 0, fee |-> 0, at |-> clock])
    /\ UNCHANGED positions

\* ... and anything else has no time of fill.
NotFilled(s, paper) ==
    /\ trades' = Append(trades, [strategy |-> s, paper |-> paper, status |-> "rejected", pnl |-> 0, fee |-> 0, at |-> clock])
    /\ UNCHANGED positions

PersistTrade ==
    /\ Len(trades) < MaxTrades
    /\ \E a \in Accounts :
          \/ \E pnl \in Realized, fee \in Costs : Fill(a.strategy, a.paper, pnl, fee)
          \/ Unpriced(a.strategy, a.paper) \/ NotFilled(a.strategy, a.paper)
    /\ UNCHANGED <<clock, audit, summary>>

Record(event) ==
    /\ Len(audit) < MaxEvents
    /\ audit' = Append(audit, [event |-> event, at |-> clock])
    /\ UNCHANGED <<clock, trades, positions, summary>>

-----------------------------------------------------------------------------
(* The queries.                                                            *)

Filled == { i \in DOMAIN trades : trades[i].status = "filled" }
Recent == { i \in Filled : trades[i].at >= clock - Days * DayLength }

Pnl(i) == trades[i].pnl
Total(rows) == SumFunctionOnSet([i \in DOMAIN trades |-> Pnl(i)], rows)
TotalFees(rows) == SumFunctionOnSet([i \in DOMAIN trades |-> trades[i].fee], rows)
Date(i) == trades[i].at \div DayLength

Won(rows)  == { i \in rows : Pnl(i) > 0 }
Lost(rows) == { i \in rows : Pnl(i) < 0 }
Of(s, rows) == { i \in rows : trades[i].strategy = s }

\* daily_pnl: one row for each day, strategy and mode with a fill.
DailyRows ==
    { [date |-> d, strategy |-> s, paper |-> p,
       ids |-> { i \in Of(s, Recent) : Date(i) = d /\ trades[i].paper = p }] :
          d \in { Date(i) : i \in Recent }, s \in Strategy, p \in BOOLEAN }
Rows == { r \in DailyRows : r.ids # {} }

\* performance_by_strategy, of each strategy with a fill.
Performance ==
    [s \in { t \in Strategy : Of(t, Recent) # {} } |->
        [fills |-> Cardinality(Of(s, Recent)), wins |-> Cardinality(Won(Of(s, Recent))),
         losses |-> Cardinality(Lost(Of(s, Recent))), pnl |-> Total(Of(s, Recent)), fees |-> TotalFees(Of(s, Recent))]]

\* kelly_stats; an average times its count is the sum again.
KellyStats ==
    [wins |-> Cardinality(Won(Recent)), losses |-> Cardinality(Lost(Recent)),
     won |-> Total(Won(Recent)), lost |-> -Total(Lost(Recent)), pnl |-> Total(Recent), fees |-> TotalFees(Recent)]

\* tca_report, for one venue.
Tca == [s \in { t \in Strategy : Of(t, Recent) # {} } |-> TotalFees(Of(s, Recent))]

-----------------------------------------------------------------------------
(* The curve of the days with a fill.                                      *)

Dates(rows) ==
    LET dates == { r.date : r \in rows }
    IN  CHOOSE q \in [1 .. Cardinality(dates) -> dates] : \A j, k \in DOMAIN q : j < k => q[j] < q[k]

\* What the rows of one day come to, for each day.
PerDay(rows, dates) ==
    [k \in DOMAIN dates |-> Total(UNION { r.ids : r \in { q \in rows : q.date = dates[k] } })]

Daily(rows) == PerDay(rows, Dates(rows))

Larger(f, g) == IF f[1] * g[2] > g[1] * f[2] THEN f ELSE g

\* A variant of Peaked that takes a day's result for the height of the curve.
PeakedDay(curve, x) ==
    LET cum  == curve.cum + x
        peak == IF x > curve.peak THEN x ELSE curve.peak
    IN  [cum |-> cum, peak |-> peak,
         fall |-> IF peak > 0 THEN Larger(<<peak - cum, peak>>, curve.fall) ELSE curve.fall]

Peaked(curve, x) ==
    LET cum  == curve.cum + x
        peak == IF cum > curve.peak THEN cum ELSE curve.peak
    IN  [cum |-> cum, peak |-> peak,
         fall |-> IF peak > 0 THEN Larger(<<peak - cum, peak>>, curve.fall) ELSE curve.fall]

\* _max_drawdown_pct, as a fraction.
MaxDrawdown(daily) ==
    FoldLeft(Peaked, [cum |-> 0, peak |-> 0, fall |-> <<0, 1>>], daily).fall

\* align_daily_returns: zero on a day without a fill.
Aligned(rows) ==
    LET dates == Dates(rows)
    IN  [s \in { r.strategy : r \in rows } |-> PerDay({ q \in rows : q.strategy = s }, dates)]

-----------------------------------------------------------------------------
(* allocate: the tangency portfolio of two strategies.                     *)

Sum(q) == SumFunction(q)
Cov(xs, ys) == Len(xs) * Sum([k \in DOMAIN xs |-> xs[k] * ys[k]]) - Sum(xs) * Sum(ys)
Usable(xs) == Len(xs) >= 2 /\ Cov(xs, xs) > 0

\* The inverse of the covariance matrix, times its determinant.
Invert(xs, ys) == << <<Cov(ys, ys), -Cov(xs, ys)>>, <<-Cov(xs, ys), Cov(xs, xs)>> >>
Singular(xs, ys) == Cov(xs, xs) * Cov(ys, ys) = Cov(xs, ys) * Cov(xs, ys)

Clipped(n) == IF n > 0 THEN n ELSE 0

\* Weights up to their sum.
Tangency(xs, ys) ==
    [i \in {1, 2} |-> Clipped(Invert(xs, ys)[i][1] * Sum(xs) + Invert(xs, ys)[i][2] * Sum(ys))]

\* Equal shares where nothing is left of them.
MaxSharpe(xs, ys) ==
    LET w == Tangency(xs, ys) IN IF w[1] + w[2] = 0 THEN [i \in {1, 2} |-> 1] ELSE w

-----------------------------------------------------------------------------
(* The summary card: one query, then another.  A unit of time is longer    *)
(* than a request.                                                         *)

\* A variant of ReadDaily that subtracts the fees from the net result.
ReadDailyNetOfFees ==
    /\ summary = Idle
    /\ summary' = [busy |-> TRUE, fills |-> Cardinality(UNION { r.ids : r \in Rows }),
                   pnl |-> Sum(Daily(Rows)) - TotalFees(Recent), since |-> Len(trades)]
    /\ UNCHANGED <<clock, trades, positions, audit>>

ReadDaily ==
    /\ summary = Idle
    /\ summary' = [busy |-> TRUE, fills |-> Cardinality(UNION { r.ids : r \in Rows }),
                   pnl |-> Sum(Daily(Rows)), since |-> Len(trades)]
    /\ UNCHANGED <<clock, trades, positions, audit>>

ReadStats ==
    /\ summary.busy /\ summary' = Idle
    /\ UNCHANGED <<clock, trades, positions, audit>>

-----------------------------------------------------------------------------
(* go_live_readiness.                                                      *)

Kills == { j \in DOMAIN audit : audit[j].event = "kill_switch.activated" }

FirstActivity == Min({ trades[i].at : i \in Filled } \cup { audit[j].at : j \in DOMAIN audit })

Ready ==
    /\ Filled # {} /\ Kills # {}
    /\ (clock - FirstActivity) \div DayLength >= MinDays
    /\ Cardinality(Filled) >= MinTrades
    /\ \E i \in Filled : Pnl(i) # 0
    /\ \A i \in Filled : trades[i].paper

Next ==
    \/ Time \/ PersistTrade \/ ReadDaily \/ ReadStats
    \/ \E event \in Events : Record(event)

Spec == Init /\ [][Next]_vars

-----------------------------------------------------------------------------
(* Every view of the same trades comes to the same sums: the daily rows,   *)
(* each strategy's figures, its aligned series, the Kelly inputs and the   *)
(* cost report; and "summing realized_pnl across all positions equals the  *)
(* trades-table realized P&L total" (list_positions).                      *)
ViewsAgree ==
    LET rows == Rows  series == Aligned(rows)  perf == Performance  kelly == KellyStats
    IN  /\ UNION { r.ids : r \in rows } = Recent
        /\ DOMAIN series = DOMAIN perf
        /\ \A s \in DOMAIN perf :
              /\ Sum(series[s]) = perf[s].pnl
              /\ Tca[s] = perf[s].fees
              /\ perf[s].wins + perf[s].losses <= perf[s].fills
        /\ SumFunction([s \in DOMAIN perf |-> perf[s].pnl]) = kelly.pnl
        /\ kelly.pnl = kelly.won - kelly.lost
        /\ SumFunction(positions) = Total(Filled)

(* The one-pass drawdown is the deepest fall from the high so far, as a    *)
(* share of that high, of the curve that starts at zero                    *)
(* (_max_drawdown_pct, summary_curve_metrics).                             *)
DrawdownIsWorst ==
    LET daily == Daily(Rows)
        cum(k) == Sum(SubSeq(daily, 1, k))
        falls == { p \in (1 .. Len(daily)) \X (1 .. Len(daily)) :
                       /\ p[1] <= p[2] /\ cum(p[1]) > 0
                       /\ \A k \in 1 .. p[2] : cum(k) <= cum(p[1]) }
        worst == MaxDrawdown(daily)
    IN  /\ \A p \in falls : (cum(p[1]) - cum(p[2])) * worst[2] <= worst[1] * cum(p[1])
        /\ worst[1] > 0 => \E p \in falls : (cum(p[1]) - cum(p[2])) * worst[2] = worst[1] * cum(p[1])

(* The cards of the summary come from two queries: they may differ by      *)
(* trades persisted between them, and by nothing else (pnl_summary).       *)
SummaryExplained ==
    [][ summary.busy /\ ~summary'.busy =>
            LET k == KellyStats
                later == Len(trades) - summary.since
            IN  /\ k.wins + k.losses <= summary.fills + later
                /\ later = 0 => k.won - k.lost = summary.pnl ]_vars

(* Once the go-live gate is open it stays open until a live fill, which    *)
(* closes it for good (go_live_readiness).                                 *)
ReadyUntilLive ==
    [][ /\ Ready /\ ~Ready' => \E i \in DOMAIN trades' : i > Len(trades) /\ ~trades'[i].paper
        /\ (\E i \in Filled : ~trades[i].paper) => ~Ready' ]_vars

(* No other long-only split of the capital over two strategies has a       *)
(* better Sharpe ratio than the tangency weights, clipped or not, as long  *)
(* as there are any and they earn something; equal shares, in their place, *)
(* may be beaten ("max_sharpe: tangency portfolio", allocate).             *)
TangencyIsBest ==
    LET series == Aligned(Rows)
    IN  \A s, t \in DOMAIN series :
          LET xs == series[s]  ys == series[t]
              w == MaxSharpe(xs, ys)  tangency == Tangency(xs, ys)
              mean(v) == v[1] * Sum(xs) + v[2] * Sum(ys)
              risk(v) == v[1] * v[1] * Cov(xs, xs) + 2 * v[1] * v[2] * Cov(xs, ys) + v[2] * v[2] * Cov(ys, ys)
          IN  s # t /\ Usable(xs) /\ Usable(ys) /\ ~Singular(xs, ys)
                 /\ tangency[1] + tangency[2] > 0 /\ mean(w) > 0
              => \A v \in (0 .. 2) \X (0 .. 2) :
                    mean(v) > 0 => mean(w) * mean(w) * risk(v) >= mean(v) * mean(v) * risk(w)

(* All figures of the journal are figures of the same trades, and the      *)
(* best of what they claim to be the best of.                              *)
FiguresAgree == ViewsAgree /\ DrawdownIsWorst /\ TangencyIsBest

(* What one answer says and the next one does not has a cause in between:  *)
(* trades persisted, time passed, an event recorded.                       *)
AnswersExplained == SummaryExplained /\ ReadyUntilLive
=============================================================================
