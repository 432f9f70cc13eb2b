----------------------------- MODULE MCDelivery -----------------------------
(***************************************************************************)
(* What must arrive, side by side for TLC: signals on their way to         *)
(* signals:approved, alerts to the channels, what the operator's terminal     *)
(* shows, and a venue's feed.  The parts share no state; the run picks one *)
(* of them at the start and then takes its steps only, so what must come   *)
(* in one part is stated of the behaviours that picked it.                 *)
(***************************************************************************)
EXTENDS SignalPipeline

CONSTANTS
    Channels, MinInterval, MaxAlerts, MaxRestarts,
    MaxSignals, ViewLen, MaxFlush, MaxShown, MaxFrames, MaxToggles, MaxDrops,
    Pairs, Stream, Retry, MaxRetry, HeartbeatInterval, HeartbeatTtl, HeartbeatTimeout,
    ExportInterval, Throttle, MaxChanges, MaxFailures, Feed

\* The instances' constants: lengths and times are whole numbers.  A heartbeat
\* lives longer than the interval twice over (10 and 30 seconds), and what the
\* properties say of the heartbeat and the alarms is of one failing call.
ASSUME DeliveryAssumption ==
    /\ MinInterval \in Nat
    /\ ViewLen \in Nat /\ MaxFlush \in Nat /\ MaxShown \in Nat
    /\ HeartbeatInterval \in Nat /\ HeartbeatTimeout \in Nat /\ ExportInterval \in Nat
    /\ HeartbeatTtl \in Nat /\ HeartbeatTtl > 2 * HeartbeatInterval
    /\ MaxFailures \in {0, 1}

VARIABLES
    part,                                                  \* the delivery at work
    raised, queue, alert, sending, lastSent, delivered, answers, hasty, restarts,
    flag, published, conn, cursor, frames, view, poll, shown, tailLost, toggles, drops,
    venue, link, listed, task, delay, wait, fresh, quiet, ttl, beat, heard,
    lastUp, export, outage, alarms, changes, failures

pipeline == <<halt, strategyVars, publishVars, aiVars, opp, sent, crashes>>
alerts   == <<raised, queue, alert, sending, lastSent, delivered, answers, hasty, restarts>>
terminal == <<flag, published, conn, cursor, frames, view, poll, shown, tailLost, toggles, drops>>
feed     == <<venue, link, listed, task, delay, wait, fresh, quiet, ttl, beat, heard,
              lastUp, export, outage, alarms, changes, failures>>
allVars  == <<part, pipeline, alerts, terminal, feed>>

Alert == INSTANCE Alerts WITH held <- alert
Live  == INSTANCE LiveView WITH halt <- flag, MaxLen <- ViewLen
Feeding == INSTANCE Feeds WITH Symbols <- Pairs

AllInit ==
    /\ part \in {"pipeline", "alerts", "terminal", "feed"}
    /\ Init /\ Alert!Init /\ Live!Init /\ Feeding!Init
    /\ part # "feed" => venue = "binance" /\ listed = Pairs
    /\ venue \in {"bybit", "okx", "kraken"} => listed = {Stream}   \* they run as Binance's feed does

AllNext ==
    /\ part' = part
    /\ \/ part = "pipeline" /\ Next /\ UNCHANGED <<alerts, terminal, feed>>
       \/ part = "alerts" /\ Alert!Next /\ UNCHANGED <<pipeline, terminal, feed>>
       \/ part = "terminal" /\ Live!Next /\ UNCHANGED <<pipeline, alerts, feed>>
       \/ part = "feed" /\ Feeding!Next /\ UNCHANGED <<pipeline, alerts, terminal>>

\* The fairness of each component, while it is the one at work.
AllFairness ==
    /\ WF_pipeline(part = "pipeline" /\ StartStrategies)
    /\ WF_pipeline(part = "pipeline" /\ TvTask)
    /\ \A r \in Replicas :
        /\ WF_pipeline(part = "pipeline" /\ AiStart(r))
        /\ WF_pipeline(part = "pipeline" /\ AiTask(r))
    /\ WF_alerts(part = "alerts" /\ Alert!Tick)
    /\ WF_alerts(part = "alerts" /\ Alert!Pop)
    /\ \A c \in Channels : WF_alerts(part = "alerts" /\ Alert!Send(c))
    /\ WF_terminal(part = "terminal" /\ Live!Open)
    /\ WF_terminal(part = "terminal" /\ Live!SendRisk)
    /\ WF_terminal(part = "terminal" /\ Live!SendSignals)
    /\ WF_terminal(part = "terminal" /\ Live!ApplyFrame)
    /\ WF_terminal(part = "terminal" /\ Live!PollRead)
    /\ SF_terminal(part = "terminal" /\ Live!PollApply)
    /\ WF_feed(part = "feed" /\ Feeding!Tick)
    /\ WF_feed(part = "feed" /\ Feeding!Export)
    /\ WF_feed(part = "feed" /\ venue \notin {"oanda", "orderbook"} /\ Feeding!Heartbeat)
    /\ WF_feed(part = "feed" /\ venue = "oanda" /\ (Feeding!Connect \/ Feeding!LineTooLate))
    /\ WF_feed(part = "feed" /\ venue = "oanda" /\ Feeding!StreamEnds)
    /\ SF_feed(part = "feed" /\ venue = "oanda" /\ Feeding!Line(TRUE))
    /\ \A s \in Pairs :
        /\ WF_feed(part = "feed" /\ s \in Feeding!Watchers /\ Feeding!Wake(s))
        /\ WF_feed(part = "feed" /\ venue # "oanda" /\ Feeding!NetworkError(s))
        /\ SF_feed(part = "feed" /\ venue # "oanda" /\ Feeding!Quote(s))

AllSpec == AllInit /\ [][AllNext]_allVars /\ AllFairness

\* See SignalPipeline: every signal is taken up in the end.
SignalsComeThrough == part = "pipeline" => SignalsTaken

\* Nothing arrives twice or out of order: no signal becomes two opportunities,
\* no alert comes twice to a channel or before an earlier one, no signal stands
\* twice in the terminal, and no outage raises two alarms (see each module).
NothingTwice ==
    /\ OneOpportunityPerSignal
    /\ Alert!DeliveredInOrder
    /\ Live!ViewConsistent
    /\ Feeding!OneAlarmPerOutage

\* See Alerts and LiveView: a slow or failing channel never stops the queue for
\* good, and the terminal comes to show the halt as it is.
ReadersCatchUp ==
    /\ part = "alerts" => Alert!QueueServed
    /\ part = "terminal" => Live!ViewCatchesUp

\* See Feeds: a feed comes back after any outage.
FeedRecovers == part = "feed" => Feeding!FeedRecovers

\* See Feeds: the heartbeat outlives one failed refresh and no dead stream.
HeartbeatTells == Feeding!HeartbeatTells
=============================================================================
