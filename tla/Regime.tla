------------------------------- MODULE Regime -------------------------------
(***************************************************************************)
(* The market regime in Redis.  The strategy service's detector classifies *)
(* the tick cache once per Interval and writes ai:regime:current, with     *)
(* LocalTtl, unless the key is there already; the operator may have Claude *)
(* classify the market, which writes ai:regime:latest with ClaudeTtl.  The *)
(* strategies, the rotation and the executor read ai:regime:current.       *)
(*                                                                         *)
(* A classification is identified by the moment its ticks were read.       *)
(***************************************************************************)
EXTENDS Integers

CONSTANTS
    Interval,     \* REGIME_DETECTOR_INTERVAL_SECONDS
    LocalTtl,     \* _LOCAL_FALLBACK_TTL
    ClaudeTtl,    \* AI_REGIME_CACHE_TTL_SECONDS
    MaxTime       \* bound of the clock

VARIABLES
    time,
    current, latest,    \* the two keys: [from, by, until]
    detector,           \* the detector: [stage, since, from]
    quiet               \* since when no call of the detector has raised

vars == <<time, current, latest, detector, quiet>>

Absent == [from |-> 0, by |-> "nobody", until |-> 0]
Alive(key) == time < key.until

Init ==
    /\ time = 1 /\ current = Absent /\ latest = Absent
    /\ detector = [stage |-> "read", since |-> 1, from |-> 0]
    /\ quiet = 1

Goto(stage) == detector' = [detector EXCEPT !.stage = stage, !.since = time]

\* A pass of the detector takes no time on the scale of its interval.
Tick ==
    /\ time < MaxTime
    /\ detector.stage = "sleep" /\ time - detector.since < Interval
    /\ time' = time + 1
    /\ UNCHANGED <<current, latest, detector, quiet>>

\* read_tick_cache and _classify: too few ticks are "unknown", a regime too.
Detect ==
    /\ detector.stage = "read"
    /\ detector' = [stage |-> "exists", since |-> time, from |-> time]
    /\ UNCHANGED <<time, current, latest, quiet>>

\* A variant of Exists that looks at the other key.
ExistsLatest ==
    /\ detector.stage = "exists"
    /\ Goto(IF Alive(latest) THEN "sleep" ELSE "set")
    /\ UNCHANGED <<time, current, latest, quiet>>

Exists ==
    /\ detector.stage = "exists"
    /\ Goto(IF Alive(current) THEN "sleep" ELSE "set")
    /\ UNCHANGED <<time, current, latest, quiet>>

Set ==
    /\ detector.stage = "set" /\ Goto("sleep")
    /\ current' = [from |-> detector.from, by |-> "local", until |-> time + LocalTtl]
    /\ UNCHANGED <<time, latest, quiet>>

Raises ==
    /\ detector.stage # "sleep" /\ Goto("sleep")
    /\ quiet' = time
    /\ UNCHANGED <<time, current, latest>>

Wake ==
    /\ detector.stage = "sleep" /\ time - detector.since >= Interval
    /\ Goto("read")
    /\ UNCHANGED <<time, current, latest, quiet>>

\* POST /ai/regime: what caching raises is logged.
AskClaude ==
    /\ latest.from # time \/ latest.by # "claude"
    /\ latest' = [from |-> time, by |-> "claude", until |-> time + ClaudeTtl]
    /\ UNCHANGED <<time, current, detector, quiet>>

Next == Tick \/ Detect \/ Exists \/ Set \/ Raises \/ Wake \/ AskClaude

Spec == Init /\ [][Next]_vars

-----------------------------------------------------------------------------
(* What the strategies trade on is never older than LocalTtl; and once the *)
(* detector has run undisturbed for an interval the key is missing for     *)
(* less than one interval at a time: the key blocks its own refresh until  *)
(* it expires, so it is renewed at the first pass after that               *)
(* (detect_and_publish).                                                   *)
RegimeRecent ==
    /\ Alive(current) => time - current.from < LocalTtl
    /\ time - quiet > LocalTtl + Interval => time - current.until < Interval \/ detector.stage # "sleep"

(* "The Claude-based detector in ai-filter takes precedence: it sets the   *)
(* same key with a longer TTL" (regime_detector.py): as long as Claude's   *)
(* classification is alive, it is the regime in force.                     *)
ClaudePrevails == Alive(latest) => Alive(current) /\ current.by = "claude"
=============================================================================
