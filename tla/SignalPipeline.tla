--------------------------- MODULE SignalPipeline ---------------------------
(***************************************************************************)
(* From a market view to signals:approved.  The gateway's webhook puts     *)
(* TradingView signals on signals:tradingview; the strategy service takes  *)
(* them one at a time (signal_consumer) and runs one autonomous loop per   *)
(* scanning strategy (runner); both publish opportunities under a fresh id *)
(* on signals:opportunities, which the replicas of ai-filter score and     *)
(* forward.  What a strategy makes of its ticks is a choice here: the      *)
(* rules themselves are in Strategies.                                      *)
(*                                                                         *)
(* Every await that reads or writes Redis is a step.  A call that raises   *)
(* may or may not have had its effect.  The enabled flag, the cooldown and *)
(* the age of a signal are changed by others at any time: what is read of  *)
(* them is a choice.                                                       *)
(***************************************************************************)
EXTENDS ConsumerGroup, FiniteSets

LOCAL INSTANCE SequencesExt

CONSTANTS
    Signals,       \* webhook calls
    Known,         \* the signals that name one of KNOWN_STRATEGIES
    Loops,         \* scanning strategies with an autonomous loop
    Rechecking,    \* the loops whose run_once reads risk:halt once more
    Symbols,       \* how many symbols a loop scans
    TvMode,        \* TV_SIGNAL_MODE: the autonomous loops idle
    Replicas,      \* ai-filter processes
    MaxLen,        \* MAXLEN of the streams
    MaxOpps, MaxCrashes   \* bounds

ASSUME PipelineAssumption ==
    /\ Known \subseteq Signals /\ Rechecking \subseteq Loops /\ TvMode \in BOOLEAN
    /\ IsFiniteSet(Loops) /\ Symbols \in Nat \ {0} /\ MaxLen \in Nat \ {0}
    /\ MaxOpps \in Nat /\ MaxCrashes \in Nat

Opps == 1 .. MaxOpps

VARIABLES
    \* Redis
    halt,                       \* risk:halt
    tv, opp,                    \* signals:tradingview, signals:opportunities
    forwarded,                  \* forwarded[o]: entries of o in signals:approved
    \* the webhook
    sent,                       \* signals received
    \* the strategy service
    tvPc, tvSig, loopPc, left, nextOpp,
    \* ai-filter
    aiPc, aiOpp,
    \* history and bounds
    publishedFor,               \* opportunities made of each signal
    sinceHalt,                  \* opportunities published since risk:halt was raised
    crashes

strategyVars == <<tv, tvPc, tvSig, loopPc, left>>
publishVars == <<nextOpp, publishedFor, sinceHalt>>
aiVars == <<aiPc, aiOpp, forwarded>>
vars == <<halt, strategyVars, publishVars, aiVars, opp, sent, crashes>>

NoSignal == "none"

Init ==
    /\ halt = FALSE
    /\ tv = NewStream /\ opp = NewStream
    /\ forwarded = [o \in Opps |-> 0]
    /\ sent = {}
    /\ tvPc = "down" /\ tvSig = NoSignal
    /\ loopPc = [l \in Loops |-> "down"] /\ left = [l \in Loops |-> 0]
    /\ nextOpp = 1
    /\ aiPc = [r \in Replicas |-> "down"] /\ aiOpp = [r \in Replicas |-> 0]
    /\ publishedFor = [s \in Signals |-> 0]
    /\ sinceHalt = 0 /\ crashes = 0

-----------------------------------------------------------------------------
(* The operator, or the risk engine, and the caller of the webhook.        *)

Kill ==
    /\ ~halt /\ halt' = TRUE /\ sinceHalt' = 0
    /\ UNCHANGED <<strategyVars, nextOpp, publishedFor, aiVars, opp, sent, crashes>>

\* POST /signals/tradingview: 202 when the entry is in the stream, 503 when
\* XADD raised, whether the entry got there or not.  Nobody calls again.
Webhook(s) ==
    /\ s \notin sent /\ sent' = sent \cup {s}
    /\ tv' \in {tv, XAdd(tv, s, MaxLen)}
    /\ UNCHANGED <<halt, tvPc, tvSig, loopPc, left, publishVars, aiVars, opp, crashes>>

-----------------------------------------------------------------------------
(* publish_opportunity: a fresh id for every call.                         *)

Publish ==
    /\ nextOpp <= MaxOpps
    /\ opp' = XAdd(opp, nextOpp, MaxLen)
    /\ nextOpp' = nextOpp + 1
    /\ sinceHalt' = IF halt THEN sinceHalt + 1 ELSE 0

PublishNothing == UNCHANGED <<opp, nextOpp, sinceHalt, publishedFor>>

-----------------------------------------------------------------------------
(* The strategy service starts and dies as a whole.                        *)

\* run: the consumer group, then the loops.  An error other than BUSYGROUP
\* ends the signal consumer for good: its task is not restarted, the loops go on.
StartStrategies ==
    /\ tvPc = "down"
    /\ \/ tv' = CreateGroup(tv) /\ tvPc' = "read"
       \/ UNCHANGED tv /\ tvPc' = "dead"
    /\ loopPc' = [l \in Loops |-> "top"]
    /\ UNCHANGED <<halt, tvSig, left, publishVars, aiVars, opp, sent, crashes>>

CrashStrategies ==
    /\ tvPc # "down" /\ crashes < MaxCrashes
    /\ crashes' = crashes + 1
    /\ tvPc' = "down" /\ tvSig' = NoSignal
    /\ loopPc' = [l \in Loops |-> "down"] /\ left' = [l \in Loops |-> 0]
    /\ UNCHANGED <<halt, tv, publishVars, aiVars, opp, sent>>

-----------------------------------------------------------------------------
(* signal_consumer.run and _dispatch.                                      *)

TvStep(from, to) ==
    /\ tvPc = from /\ tvPc' = to
    /\ UNCHANGED <<halt, loopPc, left, aiVars, sent, crashes>>

\* A variant of TvRead that waits for the end of a halt.
TvReadUnlessHalted ==
    /\ ~halt /\ HasUnread(tv)
    /\ tv' = XReadGroup(tv) /\ tvSig' = Head(tv.unread)
    /\ TvStep("read", "halt") /\ PublishNothing

\* A signal past its maximal age is discarded before anything is awaited.
TvRead ==
    /\ HasUnread(tv)
    /\ tv' = XReadGroup(tv) /\ tvSig' = Head(tv.unread)
    /\ TvStep("read", "ack") \/ TvStep("read", "halt")
    /\ PublishNothing

\* A reason to discard that will not go away is acknowledged.
TvCheckHalt ==
    /\ TvStep("halt", IF halt \/ tvSig \notin Known THEN "ack" ELSE "flags")
    /\ UNCHANGED <<tv, tvSig>> /\ PublishNothing

\* The enabled flag and the cooldown, one after the other.
TvCheckFlags ==
    /\ TvStep("flags", "ack") \/ TvStep("flags", "run")
    /\ UNCHANGED <<tv, tvSig>> /\ PublishNothing

\* run_from_signal: no opportunity, or one.
TvRun ==
    /\ TvStep("run", "ack")
    /\ UNCHANGED <<tv, tvSig>>
    /\ \/ PublishNothing
       \/ Publish /\ publishedFor' = [publishedFor EXCEPT ![tvSig] = @ + 1]

\* An await of _dispatch raises, the XADD perhaps after its effect: the entry
\* is not acknowledged and stays in the pending list.
TvRaises ==
    /\ tvPc \in {"halt", "flags", "run"}
    /\ TvStep(tvPc, "read")
    /\ tvSig' = NoSignal /\ UNCHANGED tv
    /\ \/ PublishNothing
       \/ /\ tvPc = "run" /\ Publish
          /\ publishedFor' = [publishedFor EXCEPT ![tvSig] = @ + 1]

TvAck ==
    /\ TvStep("ack", "read")
    /\ tv' \in {tv, XAck(tv, tvSig)}
    /\ tvSig' = NoSignal /\ PublishNothing

-----------------------------------------------------------------------------
(* runner._generic_loop.                                                   *)

LoopStep(l, from, to) ==
    /\ ~TvMode
    /\ loopPc[l] = from /\ loopPc' = [loopPc EXCEPT ![l] = to]
    /\ UNCHANGED <<halt, tv, tvPc, tvSig, aiVars, sent, crashes>>

LoopTop(l) ==
    /\ ~halt
    /\ LoopStep(l, "top", "flags") /\ UNCHANGED left /\ PublishNothing

LoopCheckFlags(l) ==
    /\ \/ LoopStep(l, "flags", "top")
       \/ LoopStep(l, "flags", IF l \in Rechecking THEN "gate" ELSE "scan")
    /\ left' = [left EXCEPT ![l] = Symbols] /\ PublishNothing

\* run_once of breakout, momentum and mean reversion: the regime and, once
\* more, the halt.
LoopGate(l) ==
    /\ \/ LoopStep(l, "gate", "top")
       \/ ~halt /\ LoopStep(l, "gate", "scan")
    /\ UNCHANGED left /\ PublishNothing

\* A variant of LoopScan that goes on with a symbol as long as it pays.
LoopScanAgain(l) ==
    /\ left[l] > 0
    /\ \/ /\ LoopStep(l, "scan", IF left[l] = 1 THEN "top" ELSE "scan")
          /\ left' = [left EXCEPT ![l] = @ - 1] /\ PublishNothing
       \/ LoopStep(l, "scan", "scan") /\ Publish /\ UNCHANGED <<left, publishedFor>>

\* One symbol of the scan; nothing is read but its ticks.
LoopScan(l) ==
    /\ left[l] > 0
    /\ LoopStep(l, "scan", IF left[l] = 1 THEN "top" ELSE "scan")
    /\ left' = [left EXCEPT ![l] = @ - 1]
    /\ \/ PublishNothing
       \/ Publish /\ UNCHANGED publishedFor

\* Any await raises: the pass is given up, the loop goes on.
LoopRaises(l) ==
    /\ loopPc[l] \notin {"down", "top"}
    /\ LoopStep(l, loopPc[l], "top")
    /\ left' = [left EXCEPT ![l] = 0]
    /\ \/ PublishNothing
       \/ loopPc[l] = "scan" /\ Publish /\ UNCHANGED publishedFor

-----------------------------------------------------------------------------
(* ai-filter: consumer.run and _process.  Scoring never raises and never   *)
(* blocks: whatever it returns is forwarded.                               *)

AiStep(r, from, to) ==
    /\ aiPc[r] = from /\ aiPc' = [aiPc EXCEPT ![r] = to]
    /\ UNCHANGED <<halt, strategyVars, publishVars, sent, crashes>>

\* A variant of AiStart that offers what was left pending once more.
AiStartSweep(r) ==
    /\ AiStep(r, "down", "read")
    /\ opp' = [opp EXCEPT !.group = TRUE, !.unread = SetToSeq(opp.pending) \o @]
    /\ UNCHANGED <<aiOpp, forwarded>>

AiStart(r) ==
    /\ AiStep(r, "down", "read")
    /\ opp' = CreateGroup(opp)
    /\ UNCHANGED <<aiOpp, forwarded>>

AiRead(r) ==
    /\ HasUnread(opp)
    /\ AiStep(r, "read", "forward")
    /\ opp' = XReadGroup(opp)
    /\ aiOpp' = [aiOpp EXCEPT ![r] = Head(opp.unread)]
    /\ UNCHANGED forwarded

AiForward(r) ==
    /\ AiStep(r, "forward", "ack")
    /\ forwarded' \in {forwarded, [forwarded EXCEPT ![aiOpp[r]] = @ + 1]}
    /\ UNCHANGED <<opp, aiOpp>>

\* XACK in the finally clause; when it raises the outer handler goes on.
AiAck(r) ==
    /\ AiStep(r, "ack", "read")
    /\ opp' \in {opp, XAck(opp, aiOpp[r])}
    /\ aiOpp' = [aiOpp EXCEPT ![r] = 0]
    /\ UNCHANGED forwarded

AiCrash(r) ==
    /\ aiPc[r] # "down" /\ crashes < MaxCrashes
    /\ crashes' = crashes + 1
    /\ aiPc' = [aiPc EXCEPT ![r] = "down"] /\ aiOpp' = [aiOpp EXCEPT ![r] = 0]
    /\ UNCHANGED <<halt, strategyVars, publishVars, opp, forwarded, sent>>

-----------------------------------------------------------------------------
TvTask == TvRead \/ TvCheckHalt \/ TvCheckFlags \/ TvRun \/ TvRaises \/ TvAck

LoopTask(l) ==
    \/ LoopTop(l) \/ LoopCheckFlags(l)
    \/ LoopGate(l) \/ LoopScan(l) \/ LoopRaises(l)

AiTask(r) == AiRead(r) \/ AiForward(r) \/ AiAck(r)

Next ==
    \/ Kill
    \/ \E s \in Signals : Webhook(s)
    \/ StartStrategies \/ CrashStrategies \/ TvTask
    \/ \E l \in Loops : LoopTask(l)
    \/ \E r \in Replicas : AiStart(r) \/ AiTask(r) \/ AiCrash(r)

Spec == Init /\ [][Next]_vars

\* The event loop of each service runs every task that is ready, and a
\* container that died is started again.
Fairness ==
    /\ WF_vars(StartStrategies) /\ WF_vars(TvTask)
    /\ \A r \in Replicas : WF_vars(AiStart(r)) /\ WF_vars(AiTask(r))

FairSpec == Spec /\ Fairness

-----------------------------------------------------------------------------
TypeOK ==
    /\ halt \in BOOLEAN
    /\ tv \in StreamOf(Signals) /\ opp \in StreamOf(Opps)
    /\ sent \subseteq Signals
    /\ tvPc \in {"down", "dead", "read", "halt", "flags", "run", "ack"}
    /\ tvSig \in Signals \cup {NoSignal}
    /\ loopPc \in [Loops -> {"down", "top", "flags", "gate", "scan"}]
    /\ left \in [Loops -> 0 .. Symbols]
    /\ nextOpp \in 1 .. MaxOpps + 1
    /\ aiPc \in [Replicas -> {"down", "read", "forward", "ack"}]
    /\ aiOpp \in [Replicas -> Opps \cup {0}]
    /\ forwarded \in [Opps -> Nat] /\ publishedFor \in [Signals -> Nat]
    /\ sinceHalt \in Nat /\ crashes \in 0 .. MaxCrashes

(* One webhook call becomes at most one opportunity, whatever raises and   *)
(* however often the strategy service dies: the ids are made when an       *)
(* opportunity is published, so nothing downstream could tell a repeated   *)
(* signal from a new one (signal_consumer.run, publish_opportunity).       *)
OneOpportunityPerSignal == \A s \in Signals : publishedFor[s] <= 1

(* After a kill the signal consumer publishes at most the signal it had    *)
(* already let through, and each loop at most the symbols of the pass it   *)
(* was in: is_halted is read once per pass, not once per symbol.           *)
KillOvershoot == halt => sinceHalt <= 1 + Cardinality(Loops) * Symbols

(* ai-filter hands an opportunity on at most once, in any number of        *)
(* replicas, and never takes up again what a crash, a trimmed stream or a  *)
(* group created too late has lost.                                        *)
Unread(o) == \E i \in DOMAIN opp.unread : opp.unread[i] = o
Held(o)   == \E r \in Replicas : aiPc[r] = "forward" /\ aiOpp[r] = o

Place(o) == IF o >= nextOpp THEN "new"
            ELSE IF forwarded[o] > 1 THEN "repeated"
            ELSE IF forwarded[o] = 1 THEN "passed"
            ELSE IF Unread(o) \/ Held(o) THEN "offered" ELSE "lost"

Stage == INSTANCE Handoff WITH Items <- Opps, place <- [o \in Opps |-> Place(o)]

StageIsHandoff == Stage!Spec

(* A queued TradingView signal is taken up (or trimmed), whatever raises:  *)
(* the consumer loop survives everything but a failed start.               *)
QueuedTv(s) == \E i \in DOMAIN tv.unread : tv.unread[i] = s

SignalsTaken ==
    \A s \in Signals : (tv.group /\ QueuedTv(s)) ~> (~QueuedTv(s) \/ tvPc = "dead")
=============================================================================
