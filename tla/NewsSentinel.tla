---------------------------- MODULE NewsSentinel ----------------------------
(***************************************************************************)
(* News sentiment.  A background task of ai-filter fetches the feeds, has  *)
(* the headlines of each asset class scored, one class after the other,    *)
(* and caches what succeeded; then it writes a health record and sleeps.   *)
(* The scorer of an opportunity reads the cached sentiment of its class.   *)
(*                                                                         *)
(* Fetching and each scoring take at most MaxWait (their timeouts); the    *)
(* clock advances only while the task waits or sleeps.                     *)
(***************************************************************************)
EXTENDS Integers, Sequences

CONSTANTS
    Classes,       \* the asset classes in the order they are scored
    Interval,      \* NEWS_FETCH_INTERVAL_SECONDS
    SentimentTtl,  \* _SENTIMENT_TTL_SECONDS
    HealthTtl,     \* Interval * _HEALTH_TTL_MULTIPLIER
    MaxWait,
    MaxClock, MaxFailures   \* bounds

AssetClass == { Classes[i] : i \in DOMAIN Classes }

VARIABLES
    tick,
    sentiment,   \* ai:sentiment:{class}: [at, until]; at is updated_at
    lastOk,      \* ai:sentinel:last_ok:{class}
    health,      \* ai:sentinel:health: [at, ok, until]; ok: the classes that succeeded
    stage,       \* "fetch", "score", "stamp", "health", "sleep"
    index,       \* the class being scored
    waited,      \* how long this stage has taken
    cycleAt,     \* now of the cycle
    scored,      \* cycle_results
    good,        \* cycles since the last failure, of any kind
    used,        \* what a scorer has just read: [class, at], or nothing
    failures

vars == <<tick, sentiment, lastOk, health, stage, index, waited, cycleAt, scored, good, used, failures>>
keys == <<sentiment, lastOk, health>>

Missing == [at |-> 0, until |-> 0]
Fresh(key) == tick < key.until
Nothing == [class |-> "none", at |-> 0]

Init ==
    /\ tick = 1
    /\ sentiment = [c \in AssetClass |-> Missing] /\ lastOk = [c \in AssetClass |-> Missing]
    /\ health = [at |-> 0, ok |-> {}, until |-> 0]
    /\ stage = "fetch" /\ index = 1 /\ waited = 0 /\ cycleAt = 0 /\ scored = {}
    /\ good = 0 /\ used = Nothing /\ failures = 0

Tick ==
    /\ tick < MaxClock /\ tick' = tick + 1
    /\ \/ stage \in {"fetch", "score"} /\ waited < MaxWait
       \/ stage = "sleep" /\ waited < Interval
    /\ waited' = waited + 1 /\ used' = Nothing
    /\ UNCHANGED <<keys, stage, index, cycleAt, scored, good, failures>>

Goto(s) == stage' = s /\ waited' = 0

\* _fetch_headlines never raises; what it returns decides whether the class can
\* be scored at all, which is part of the outcome of Score.
Fetched ==
    /\ stage = "fetch" /\ Goto("score")
    /\ cycleAt' = tick /\ index' = 1 /\ scored' = {} /\ used' = Nothing
    /\ UNCHANGED <<tick, keys, good, failures>>

NextClass == IF index = Len(Classes) THEN Goto("health") /\ index' = index
                                 ELSE Goto("score") /\ index' = index + 1

\* A variant of Score with the lifetime of the health keys.
ScoreLonger ==
    /\ stage = "score" /\ Goto("stamp")
    /\ sentiment' = [sentiment EXCEPT ![Classes[index]] = [at |-> cycleAt, until |-> tick + HealthTtl]]
    /\ used' = Nothing
    /\ UNCHANGED <<tick, lastOk, health, index, cycleAt, scored, good, failures>>

Score ==
    /\ stage = "score" /\ Goto("stamp")
    /\ sentiment' = [sentiment EXCEPT ![Classes[index]] = [at |-> cycleAt, until |-> tick + SentimentTtl]]
    /\ used' = Nothing
    /\ UNCHANGED <<tick, lastOk, health, index, cycleAt, scored, good, failures>>

\* The second key of the class.
Stamp ==
    /\ stage = "stamp" /\ NextClass
    /\ LET c == Classes[index]
       IN  /\ lastOk' = [lastOk EXCEPT ![c] = [at |-> cycleAt, until |-> tick + HealthTtl]]
           /\ scored' = scored \cup {c}
    /\ used' = Nothing
    /\ UNCHANGED <<tick, sentiment, health, cycleAt, good, failures>>

\* No headlines, a timeout or an error of the API: nothing is written.
ScoreFails ==
    /\ stage = "score" /\ NextClass
    /\ failures < MaxFailures /\ failures' = failures + 1
    /\ good' = 0 /\ used' = Nothing
    /\ UNCHANGED <<tick, keys, cycleAt, scored>>

WriteHealth ==
    /\ stage = "health" /\ Goto("sleep")
    /\ health' = [at |-> cycleAt, ok |-> scored, until |-> tick + HealthTtl]
    /\ good' = IF scored = AssetClass THEN good + 1 ELSE 0
    /\ used' = Nothing
    /\ UNCHANGED <<tick, sentiment, lastOk, index, cycleAt, scored, failures>>

\* A write to Redis raises: the rest of the cycle is skipped.
CycleRaises ==
    /\ stage \in {"score", "stamp", "health"} /\ Goto("sleep")
    /\ failures < MaxFailures /\ failures' = failures + 1
    /\ good' = 0 /\ used' = Nothing
    /\ UNCHANGED <<tick, keys, index, cycleAt, scored>>

Wake ==
    /\ stage = "sleep" /\ waited = Interval /\ Goto("fetch")
    /\ used' = Nothing
    /\ UNCHANGED <<tick, keys, index, cycleAt, scored, good, failures>>

\* score_opportunity: the sentiment goes into the prompt when it is there; what
\* the model answers, or that it does not, is forwarded (SignalPipeline).
Use(c) ==
    /\ Fresh(sentiment[c]) /\ used = Nothing
    /\ used' = [class |-> c, at |-> sentiment[c].at]
    /\ UNCHANGED <<tick, keys, stage, index, waited, cycleAt, scored, good, failures>>

Next ==
    \/ Tick \/ Fetched \/ Score \/ Stamp \/ ScoreFails \/ WriteHealth \/ CycleRaises \/ Wake
    \/ \E c \in AssetClass : Use(c)

Spec == Init /\ [][Next]_vars

-----------------------------------------------------------------------------
(* News that enters a score is at most SentimentTtl old, counted from the  *)
(* moment it was fetched, but for the time its own cycle took              *)
(* (_read_sentiment_context, _run_cycle).                                  *)
SentimentRecent ==
    used # Nothing => tick - used.at < SentimentTtl + Len(Classes) * MaxWait

(* "Slightly above the fetch interval so keys never expire mid-cycle":     *)
(* after a cycle without a failure the sentiment of every class is there,  *)
(* and its health record and last success too, until a failure comes in    *)
(* between (_SENTIMENT_TTL_SECONDS, _HEALTH_TTL_MULTIPLIER).               *)
NoGapWhileGood ==
    good > 0 => /\ \A c \in AssetClass : Fresh(sentiment[c]) /\ Fresh(lastOk[c])
                /\ Fresh(health) /\ health.ok = AssetClass

(* The health record never claims more than is cached: a class it reports  *)
(* as scored has the sentiment and the time of success of that cycle, or   *)
(* later ones, although the keys are written one by one and a cycle may    *)
(* break off between two of them (_run_cycle).                             *)
HealthTrue ==
    \A c \in health.ok : sentiment[c].at >= health.at /\ lastOk[c].at >= health.at

(* A score never rests on old news, a class is not without sentiment       *)
(* while its cycles succeed, and the health record claims no more than     *)
(* that.                                                                   *)
SentimentHonest == SentimentRecent /\ NoGapWhileGood /\ HealthTrue
=============================================================================
