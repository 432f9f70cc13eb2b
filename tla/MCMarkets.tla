------------------------------ MODULE MCMarkets ------------------------------
(***************************************************************************)
(* What the system knows of the markets and does in them, side by side for *)
(* TLC: the regime, the news, the stored bars, the outcome of each         *)
(* opportunity, the orders at the venues, the documents it was given and   *)
(* the agents that look into them.  The parts share no state; the run      *)
(* picks one at the start and then takes its steps only.                   *)
(***************************************************************************)
EXTENDS Integers, TLC

CONSTANTS
    Interval, LocalTtl, ClaudeTtl, RegimeTime,
    NewsInterval, SentimentTtl, HealthTtl, MaxWait, MaxClock, MaxFailures,
    Threshold, Window, MinSample, BelowNum, BelowDen, MaxRecords, MaxRaises, MaxExpiries,
    BarSeconds, CacheMax, FetchLimit, Days, MaxTime, MaxTicks, MaxFills, MaxErrors,
    Orders, Units,
    Uploads, Lists, Deletes, BatchSize,
    MaxIterations, Timeout, ApiCap, ToolCap, Low, Slack, MaxTools

\* Lengths of time, sizes and quantities: the settings of the services.
\* An upload is a call of its own.
ASSUME MarketsAssumption ==
    /\ Interval \in Nat /\ LocalTtl \in Nat \ {0}
    /\ NewsInterval \in Nat /\ SentimentTtl \in Nat /\ HealthTtl \in Nat /\ MaxWait \in Nat
    /\ NewsInterval + 3 * MaxWait < SentimentTtl /\ NewsInterval + 3 * MaxWait < HealthTtl
    /\ Threshold \in Nat \ {0} /\ Window \in Nat \ {0}
    /\ BarSeconds \in Nat \ {0} /\ CacheMax \in Nat /\ FetchLimit \in Nat /\ MaxTime \in Nat /\ Days \in Nat
    /\ Units \in Nat
    /\ BatchSize \in Nat \ {0} /\ Uploads \cap (Lists \cup Deletes) = {} /\ "nobody" \notin Uploads
    /\ MaxIterations \in Nat /\ MaxTools \in Nat /\ ApiCap \in Nat /\ ToolCap \in Nat
    /\ Timeout \in Nat /\ Slack \in Nat /\ Low \in Nat /\ Slack <= Low /\ Low <= Timeout

VARIABLES
    part,                                                  \* the part at work
    time, current, latest, detector, quiet,
    tick, sentiment, lastOk, health, stage, index, waited, cycleAt, scored, good, used, failures,
    losses, degraded, preferred, enabled, edge, decayed, hasWin, hasLoss, cum, peak, drawdown,
    job, streak, torn, missed, stranded, records, raises, expiries,
    now, stamped, ticks, stored, held, fill, fills, errors,
    live, configured, order, pc, filling, answer, executed, open, report, booked,
    callPc, chunks, sections, vectors, found, points, profile, listed, newest,
    mode, elapsed, agentPc, iteration, messages, results, called, outcome

regime   == <<time, current, latest, detector, quiet>>
news     == <<tick, sentiment, lastOk, health, stage, index, waited, cycleAt, scored, good, used, failures>>
outcomes == <<losses, degraded, preferred, enabled, edge, decayed, hasWin, hasLoss, cum, peak, drawdown,
              job, streak, torn, missed, stranded, records, raises, expiries>>
bars     == <<now, stamped, ticks, stored, held, fill, fills, errors>>
trading  == <<live, configured, order, pc, filling, answer, executed, open, report, booked>>
document == <<callPc, chunks, sections, vectors, found, points, profile, listed, newest>>
agent    == <<mode, elapsed, agentPc, iteration, messages, results, called, outcome>>
vars     == <<part, regime, news, outcomes, bars, trading, document, agent>>

Reg   == INSTANCE Regime WITH MaxTime <- RegimeTime
News  == INSTANCE NewsSentinel WITH Classes <- <<"crypto", "fx">>, Interval <- NewsInterval
Past  == INSTANCE Outcomes WITH Candidates <- <<"fa", "sa">>, Results <- {2, 0, -1}
Store == INSTANCE Bars
\* Every venue has its keys, only the bridge is there, or nothing is.
Trade == INSTANCE Venues WITH
            Setups <- {{"binance", "bybit", "okx", "kraken", "oanda", "mt5"}, {"mt5"}, {}}
\* A long text, a short one, and one that is not analysed; a sure finding
\* without a limit, and a doubtful one with a limit.
Doc   == INSTANCE Knowledge WITH pc <- callPc,
            Texts <- {<<3, 2>>, <<1, 1>>, <<2, 0>>},
            Findings <- { [confidence |-> 3, rules |-> {"a"}, limit |-> 0],
                          [confidence |-> 1, rules |-> {"a", "b"}, limit |-> 2] }
Agent == INSTANCE AgentLoop WITH pc <- agentPc, clock <- elapsed

\* What a run that is about something else leaves at one value.
NoTrading ==
    /\ ~live /\ configured = {}
    /\ order = [o \in Orders |-> [venue |-> "binance", symbol |-> "spot", side |-> "buy"]]

Init ==
    /\ part \in {"regime", "news", "outcomes", "bars", "trading", "document", "agent"}
    /\ Reg!Init /\ News!Init /\ Past!Init /\ Store!Init /\ Trade!Init /\ Doc!Init /\ Agent!Init
    /\ part # "trading" => NoTrading
    /\ part # "outcomes" => enabled = {}
    /\ part # "agent" => mode = "run"

Next ==
    /\ part' = part
    /\ \/ part = "regime" /\ Reg!Next
          /\ UNCHANGED <<news, outcomes, bars, trading, document, agent>>
       \/ part = "news" /\ News!Next
          /\ UNCHANGED <<regime, outcomes, bars, trading, document, agent>>
       \/ part = "outcomes" /\ Past!Next
          /\ UNCHANGED <<regime, news, bars, trading, document, agent>>
       \/ part = "bars" /\ Store!Next
          /\ UNCHANGED <<regime, news, outcomes, trading, document, agent>>
       \/ part = "trading" /\ Trade!Next
          /\ UNCHANGED <<regime, news, outcomes, bars, document, agent>>
       \/ part = "document" /\ Doc!Next
          /\ UNCHANGED <<regime, news, outcomes, bars, trading, agent>>
       \/ part = "agent" /\ Agent!Next
          /\ UNCHANGED <<regime, news, outcomes, bars, trading, document>>

Spec == Init /\ [][Next]_vars

\* Orders are interchangeable, and uploads are.
Symmetry == Permutations(Orders) \cup Permutations(Uploads)

\* See Regime: what the strategies trade on is recent.
RegimeRecent == Reg!RegimeRecent

\* See NewsSentinel, Knowledge and AgentLoop: what is kept and told of a model's
\* work on news, documents and questions is what the model answered.
AnswersHonest == News!SentimentHonest /\ Doc!DocumentKept /\ Agent!AgentAccounted

\* See Outcomes: the records of a strategy agree with what happened.
RecordsAgree == Past!RecordsAgree

\* See Bars: no candle is stored with less than there was.
BarsWhole == Store!BarsWhole

\* See Venues: every order is accounted for.
OrdersAccounted == Trade!OrdersAccounted
=============================================================================
