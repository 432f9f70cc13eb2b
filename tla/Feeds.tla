-------------------------------- MODULE Feeds --------------------------------
(***************************************************************************)
(* One venue's feed in the market-data service: the watchers of its        *)
(* symbols (one stream for all of them at Oanda), the heartbeat key that   *)
(* health checks read, and the exporter that raises an alarm when it is    *)
(* gone.  Time goes on in units of ten seconds, and no task is later than *)
(* its timer.                                                              *)
(***************************************************************************)
EXTENDS Integers, FiniteSets

CONSTANTS
    Symbols, Stream,              \* configured symbols; the one that stands for Oanda's stream
    Retry, MaxRetry,              \* INITIAL_RETRY, MAX_RETRY
    HeartbeatInterval, HeartbeatTtl, HeartbeatTimeout,
    ExportInterval, Throttle,
    MaxChanges, MaxFailures,      \* bounds on changes of the link, on failing Redis calls
    Feed                          \* feeds one of which is run

VARIABLES
    venue,                        \* the feed that runs
    link, listed,                 \* up, down or silent; symbols the venue knows
    task, delay, wait,            \* each watcher: watching, streaming, sleeping, gone; its back-off
    fresh,                        \* watchers that have published in this unit of time
    quiet,                        \* time to the next ladder of the order-book feed
    ttl, beat,                    \* feed:heartbeat:{venue}; time to the next refresh
    heard,                        \* time since the stream brought anything
    lastUp, export, outage, alarms,   \* last_up; time to the next export; time without heartbeat; alarms, less recoveries
    changes, failures

vars == <<venue, link, listed, task, delay, wait, fresh, quiet, ttl, beat, heard,
          lastUp, export, outage, alarms, changes, failures>>

watcher == <<task, delay, wait>>
exporter == <<lastUp, export, outage, alarms>>
world == <<venue, link, listed, changes>>

Watchers == IF venue = "oanda" THEN {Stream} ELSE Symbols

Init ==
    /\ venue \in Feed /\ link = "up" /\ listed \in {Symbols, {Stream}}
    /\ task = [s \in Symbols |-> "watching"]
    /\ delay = [s \in Symbols |-> Retry] /\ wait = [s \in Symbols |-> 0]
    /\ fresh = {} /\ quiet = [s \in Symbols |-> 0]
    /\ ttl = 0 /\ beat = 0 /\ heard = 0
    /\ lastUp = TRUE /\ export = 0 /\ outage = 0 /\ alarms = 0
    /\ changes = 0 /\ failures = 0

Least(a, b) == IF a < b THEN a ELSE b

-----------------------------------------------------------------------------
(* What a watcher does with an exception, and after it.                    *)

\* A variant of Fails whose back-off ends in giving up.
FailsForGood(s) ==
    /\ task' = [task EXCEPT ![s] = IF delay[s] = MaxRetry THEN "gone" ELSE "sleeping"]
    /\ wait' = [wait EXCEPT ![s] = delay[s]]
    /\ delay' = [delay EXCEPT ![s] = Least(2 * @, MaxRetry)]

Fails(s) ==
    /\ task' = [task EXCEPT ![s] = "sleeping"]
    /\ wait' = [wait EXCEPT ![s] = delay[s]]
    /\ delay' = [delay EXCEPT ![s] = Least(2 * @, MaxRetry)]

Wake(s) ==
    /\ task[s] = "sleeping" /\ wait[s] = 0
    /\ task' = [task EXCEPT ![s] = "watching"]
    /\ UNCHANGED <<world, delay, wait, fresh, quiet, ttl, beat, heard, exporter, failures>>

RedisFails == failures < MaxFailures /\ failures' = failures + 1

-----------------------------------------------------------------------------
(* CCXT Pro: one watcher for each symbol.                                  *)

\* A usable quote is published and resets the back-off, or Redis fails.
Quote(s) ==
    /\ task[s] = "watching" /\ link = "up" /\ s \in listed /\ quiet[s] = 0
    /\ quiet' = [quiet EXCEPT ![s] = IF venue = "orderbook" THEN Throttle ELSE 0]
    /\ \/ fresh' = fresh \cup {s} /\ delay' = [delay EXCEPT ![s] = Retry]
          /\ UNCHANGED <<task, wait, failures>>
       \/ Fails(s) /\ RedisFails /\ UNCHANGED fresh
    /\ UNCHANGED <<world, ttl, beat, heard, exporter>>

\* An empty book; it takes the order-book feed's turn all the same.
EmptyBook(s) ==
    /\ venue = "orderbook" /\ task[s] = "watching" /\ link = "up" /\ s \in listed /\ quiet[s] = 0
    /\ quiet' = [quiet EXCEPT ![s] = Throttle]
    /\ UNCHANGED <<world, watcher, fresh, ttl, beat, heard, exporter, failures>>

NetworkError(s) ==
    /\ task[s] = "watching" /\ link # "up" /\ Fails(s)
    /\ UNCHANGED <<world, fresh, quiet, ttl, beat, heard, exporter, failures>>

BadSymbol(s) ==
    /\ task[s] = "watching" /\ link = "up" /\ s \notin listed
    /\ task' = [task EXCEPT ![s] = "gone"]
    /\ UNCHANGED <<world, delay, wait, fresh, quiet, ttl, beat, heard, exporter, failures>>

\* A variant of Heartbeat that gives the key no more than its interval to live.
HeartbeatShort ==
    /\ beat = 0 /\ beat' = HeartbeatInterval
    /\ \/ ttl' = HeartbeatInterval /\ UNCHANGED failures
       \/ RedisFails /\ UNCHANGED ttl
    /\ UNCHANGED <<world, watcher, fresh, quiet, heard, exporter>>

\* _heartbeat_loop, whatever the watchers are doing.
Heartbeat ==
    /\ beat = 0 /\ beat' = HeartbeatInterval
    /\ \/ ttl' = HeartbeatTtl /\ UNCHANGED failures
       \/ RedisFails /\ UNCHANGED ttl
    /\ UNCHANGED <<world, watcher, fresh, quiet, heard, exporter>>

Watch(s) == Quote(s) \/ NetworkError(s) \/ BadSymbol(s) \/ Wake(s)

BinanceFeed == venue = "binance" /\ (Heartbeat \/ \E s \in Symbols : Watch(s))
BybitFeed   == venue = "bybit"   /\ (Heartbeat \/ \E s \in Symbols : Watch(s))
OkxFeed     == venue = "okx"     /\ (Heartbeat \/ \E s \in Symbols : Watch(s))
KrakenFeed  == venue = "kraken"  /\ (Heartbeat \/ \E s \in Symbols : Watch(s))

\* The ladders of the terminal: no heartbeat.
OrderBookFeed == venue = "orderbook" /\ \E s \in Symbols : Watch(s) \/ EmptyBook(s)

-----------------------------------------------------------------------------
(* Oanda: one HTTP stream for all instruments.                             *)

Connect ==
    /\ task[Stream] = "watching"
    /\ IF link = "up" THEN task' = [task EXCEPT ![Stream] = "streaming"] /\ heard' = 0 /\ UNCHANGED <<delay, wait>>
                      ELSE Fails(Stream) /\ UNCHANGED heard
    /\ UNCHANGED <<world, fresh, quiet, ttl, beat, exporter, failures>>

\* A line after too long a silence is not read: the stream is opened again.
LineTooLate ==
    /\ task[Stream] = "streaming" /\ link = "up" /\ heard > HeartbeatTimeout
    /\ task' = [task EXCEPT ![Stream] = "sleeping"] /\ wait' = [wait EXCEPT ![Stream] = 1]
    /\ UNCHANGED <<world, delay, fresh, quiet, ttl, beat, heard, exporter, failures>>

\* A price is published and refreshes the heartbeat, a heartbeat only refreshes
\* it, anything else only shows that the stream is alive.
Line(price) ==
    /\ task[Stream] = "streaming" /\ link = "up" /\ heard <= HeartbeatTimeout
    /\ heard' = 0
    /\ \/ /\ fresh' = IF price THEN fresh \cup {Stream} ELSE fresh
          /\ ttl' = HeartbeatTtl /\ UNCHANGED <<watcher, failures>>
       \/ ~price /\ UNCHANGED <<fresh, ttl, watcher, failures>>
       \/ Fails(Stream) /\ RedisFails /\ UNCHANGED <<fresh, ttl>>
    /\ UNCHANGED <<world, quiet, beat, exporter>>

\* The connection is closed, which opens it again at once, or breaks.
StreamEnds ==
    /\ task[Stream] = "streaming" /\ link = "down"
    /\ \/ task' = [task EXCEPT ![Stream] = "watching"] /\ delay' = [delay EXCEPT ![Stream] = Retry] /\ UNCHANGED wait
       \/ Fails(Stream)
    /\ UNCHANGED <<world, fresh, quiet, ttl, beat, heard, exporter, failures>>

OandaFeed == venue = "oanda" /\ (Connect \/ LineTooLate \/ Line(TRUE) \/ Line(FALSE) \/ StreamEnds \/ Wake(Stream))

-----------------------------------------------------------------------------
\* metrics_exporter.run: an alarm when the key that was there is gone; before the
\* first check it counts as there.
Export ==
    /\ venue # "orderbook" /\ export = 0 /\ export' = ExportInterval
    /\ \/ /\ lastUp' = (ttl > 0)
          /\ alarms' = IF ttl > 0 THEN 0 ELSE IF lastUp THEN alarms + 1 ELSE alarms
          /\ UNCHANGED failures
       \/ RedisFails /\ UNCHANGED <<lastUp, alarms>>
    /\ UNCHANGED <<world, watcher, fresh, quiet, ttl, beat, heard, outage>>

LinkChanges ==
    /\ changes < MaxChanges /\ changes' = changes + 1
    /\ link' \in {"up", "down", "silent"} \ {link}
    /\ UNCHANGED <<venue, listed, watcher, fresh, quiet, ttl, beat, heard, exporter, failures>>

Earlier(n) == IF n > 0 THEN n - 1 ELSE 0

\* Time goes on when no timer is due and the stream that can be opened is.
Tick ==
    /\ venue = "orderbook" \/ export > 0
    /\ venue \in {"oanda", "orderbook"} \/ beat > 0
    /\ \A s \in Watchers : ~(task[s] = "sleeping" /\ wait[s] = 0)
    /\ venue = "oanda" => task[Stream] # "watching"
    /\ wait' = [s \in Symbols |-> Earlier(wait[s])] /\ quiet' = [s \in Symbols |-> Earlier(quiet[s])]
    /\ ttl' = Earlier(ttl) /\ beat' = Earlier(beat) /\ export' = Earlier(export)
    /\ heard' = IF venue = "oanda" THEN Least(heard + 1, HeartbeatTimeout + 2) ELSE 0
    /\ outage' = IF ttl > 0 THEN 0 ELSE Least(outage + 1, 2 * ExportInterval + 1)
    /\ fresh' = {}
    /\ UNCHANGED <<world, task, delay, lastUp, alarms, failures>>

Next ==
    \/ BinanceFeed \/ BybitFeed \/ OkxFeed \/ KrakenFeed \/ OandaFeed \/ OrderBookFeed
    \/ Export \/ LinkChanges \/ Tick

\* The event loop runs every task, and a venue that can be reached sends usable
\* quotes of the symbols it lists.
Fairness ==
    /\ WF_vars(Tick) /\ WF_vars(Export) /\ WF_vars(Heartbeat /\ venue \notin {"oanda", "orderbook"})
    /\ WF_vars(venue = "oanda" /\ (Connect \/ LineTooLate)) /\ SF_vars(venue = "oanda" /\ Line(TRUE))
    /\ WF_vars(venue = "oanda" /\ StreamEnds)
    /\ \A s \in Symbols : /\ WF_vars(s \in Watchers /\ Wake(s))
                          /\ WF_vars(venue # "oanda" /\ NetworkError(s))
                          /\ SF_vars(venue # "oanda" /\ Quote(s))

Spec == Init /\ [][Next]_vars /\ Fairness

-----------------------------------------------------------------------------
(* After any outage, however far its back-off has grown and whatever       *)
(* another symbol's watcher came to, every listed symbol of a venue that   *)
(* can be reached for good is published again and again; Oanda's stream    *)
(* too, whose first line after a silence is thrown away (_watch_symbol,    *)
(* _stream_once, _watch).                                                  *)
FeedRecovers ==
    \A s \in Symbols :
        <>[](link = "up" /\ s \in listed /\ s \in Watchers) => []<>(s \in fresh)

(* A running CCXT feed does not lose its heartbeat to one failed refresh,  *)
(* and Oanda's is not there when the stream has brought nothing for its    *)
(* time to live ("3x safety margin", _heartbeat_loop; _stream_once).       *)
HeartbeatTells ==
    [][ /\ venue = "oanda" /\ ttl' > 0 => heard' < HeartbeatTtl
        /\ venue # "oanda" /\ ttl > 0 => ttl' > 0 ]_vars

(* One outage, one alarm: the exporter never alarms twice for the same one *)
(* and never misses one that outlasts two checks, even when one fails      *)
(* (metrics_exporter.run).                                                 *)
OneAlarmPerOutage ==
    /\ alarms <= 1
    /\ venue # "orderbook" /\ ttl = 0 /\ outage > 2 * ExportInterval => ~lastUp /\ alarms = 1

(* "If it exists -> feed is alive" (feed_status): a feed with a heartbeat  *)
(* has a watcher that is not waiting out an error or gone.                 *)
AliveMeansWatching == ttl > 0 => \E s \in Watchers : task[s] \in {"watching", "streaming"}

(* "If no data arrives for HEARTBEAT_TIMEOUT seconds -> reconnect"         *)
(* (oanda_feed.py).                                                        *)
SilenceReconnects == venue = "oanda" /\ heard > HeartbeatTimeout + 1 => task[Stream] # "streaming"
=============================================================================
