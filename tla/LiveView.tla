------------------------------ MODULE LiveView ------------------------------
(***************************************************************************)
(* What the operator's terminal shows.  The gateway's event stream reads   *)
(* Redis once per interval and sends a risk frame, then the opportunities  *)
(* added since its cursor; the browser also polls the risk state, writes   *)
(* both into one cached RiskState and keeps the latest signals, newest     *)
(* first.  Opportunities are numbered in the order they were published;    *)
(* the stream keeps the last MaxLen of them.                               *)
(***************************************************************************)
EXTENDS Sequences, Integers, FiniteSets

CONSTANTS
    MaxSignals,     \* bound: opportunities published
    MaxLen,         \* MAXLEN of signals:opportunities
    MaxFlush,       \* _MAX_SIGNALS_PER_FLUSH
    MaxShown,       \* MAX_SIGNALS of the store
    MaxFrames, MaxToggles, MaxDrops   \* bounds

VARIABLES
    halt, published,         \* Redis: risk:halt; the last opportunity
    conn, cursor, frames,    \* the stream: its state, last_signal_id, frames on their way
    view,                    \* the cached RiskState, or Unseeded
    poll,                    \* what a poll in flight read, or Unasked
    shown,                   \* the store's signals
    tailLost,                \* a connection opened without knowing the stream's end
    toggles, drops

vars == <<halt, published, conn, cursor, frames, view, poll, shown, tailLost, toggles, drops>>

Unseeded == "unseeded"
Unasked  == "unasked"
State(h) == IF h THEN "halted" ELSE "running"

Init ==
    /\ halt = FALSE /\ published = 0
    /\ conn = "down" /\ cursor = 0 /\ frames = <<>>
    /\ view = [kill |-> Unseeded, mode |-> Unseeded] /\ poll = Unasked /\ shown = <<>>
    /\ tailLost = FALSE /\ toggles = 0 /\ drops = 0

Toggle ==
    /\ toggles < MaxToggles /\ toggles' = toggles + 1
    /\ halt' = ~halt
    /\ UNCHANGED <<published, conn, cursor, frames, view, poll, shown, tailLost, drops>>

Publish ==
    /\ published < MaxSignals /\ published' = published + 1
    /\ UNCHANGED <<halt, conn, cursor, frames, view, poll, shown, tailLost, toggles, drops>>

\* XREVRANGE: only what comes after the connection was opened; when it raises,
\* the cursor is the beginning of the stream.
Open ==
    /\ conn = "down" /\ conn' = "risk" /\ frames' = <<>>
    /\ \/ cursor' = published /\ UNCHANGED tailLost
       \/ cursor' = 0 /\ tailLost' = TRUE
    /\ UNCHANGED <<halt, published, view, poll, shown, toggles, drops>>

SendRisk ==
    /\ conn = "risk" /\ conn' = "signals" /\ Len(frames) < MaxFrames
    /\ frames' = Append(frames, [risk |-> State(halt), signals |-> <<>>])
    /\ UNCHANGED <<halt, published, cursor, view, poll, shown, tailLost, toggles, drops>>

\* XREAD COUNT: the oldest entries after the cursor that the stream still has.
SendSignals ==
    /\ conn = "signals" /\ conn' = "risk"
    /\ LET oldest == published - MaxLen + 1
           first  == IF cursor + 1 > oldest THEN cursor + 1 ELSE oldest
           left   == published - first + 1
           n      == IF left > MaxFlush THEN MaxFlush ELSE left
       IN  IF n <= 0 THEN UNCHANGED <<cursor, frames>>
           ELSE /\ cursor' = first + n - 1
                /\ frames' = Append(frames, [risk |-> Unasked, signals |-> [i \in 1 .. n |-> first + i - 1]])
    /\ UNCHANGED <<halt, published, view, poll, shown, tailLost, toggles, drops>>

\* A read raises: an error frame, and the next interval starts over.
SendError ==
    /\ conn = "signals" /\ conn' = "risk"
    /\ UNCHANGED <<halt, published, cursor, frames, view, poll, shown, tailLost, toggles, drops>>

\* The connection breaks with frames on their way; EventSource opens another.
Drop ==
    /\ conn # "down" /\ drops < MaxDrops /\ drops' = drops + 1
    /\ conn' = "down" /\ frames' = <<>>
    /\ UNCHANGED <<halt, published, cursor, view, poll, shown, tailLost, toggles>>

-----------------------------------------------------------------------------
\* mergeLiveRisk: a live frame overrides what the poll seeded.
Merge(prev, live) ==
    IF prev.kill = Unseeded THEN prev
    ELSE [kill |-> live,
          mode |-> IF live = "halted" THEN "halted" ELSE IF prev.mode = "halted" THEN "paper" ELSE prev.mode]

\* normaliseRiskState
Normalise(raw) == [kill |-> raw, mode |-> IF raw = "halted" THEN "halted" ELSE "paper"]

Newest(s) == IF Len(s) > MaxShown THEN SubSeq(s, 1, MaxShown) ELSE s
Reversed(s) == [i \in DOMAIN s |-> s[Len(s) + 1 - i]]

ApplyFrame ==
    /\ frames # <<>> /\ frames' = Tail(frames)
    /\ view' = IF Head(frames).risk = Unasked THEN view ELSE Merge(view, Head(frames).risk)
    /\ shown' = Newest(Reversed(Head(frames).signals) \o shown)
    /\ UNCHANGED <<halt, published, conn, cursor, poll, tailLost, toggles, drops>>

\* The poll reads the state some time before its answer is applied.
PollRead ==
    /\ poll = Unasked /\ poll' = State(halt)
    /\ UNCHANGED <<halt, published, conn, cursor, frames, view, shown, tailLost, toggles, drops>>

\* A variant of PollApply that keeps the answer and applies it again.
PollApplyAgain ==
    /\ poll # Unasked /\ view' = Normalise(poll)
    /\ UNCHANGED <<halt, published, conn, cursor, frames, poll, shown, tailLost, toggles, drops>>

PollApply ==
    /\ poll # Unasked /\ poll' = Unasked
    /\ view' = Normalise(poll)
    /\ UNCHANGED <<halt, published, conn, cursor, frames, shown, tailLost, toggles, drops>>

PollFails ==
    /\ poll # Unasked /\ poll' = Unasked
    /\ UNCHANGED <<halt, published, conn, cursor, frames, view, shown, tailLost, toggles, drops>>

Next ==
    \/ Toggle \/ Publish
    \/ Open \/ SendRisk \/ SendSignals \/ SendError \/ Drop
    \/ ApplyFrame \/ PollRead \/ PollApply \/ PollFails

Spec == Init /\ [][Next]_vars

\* The stream's loop and the browser's event loop go on; a poll is answered
\* again and again, though any one may fail.
Fairness ==
    /\ WF_vars(Open) /\ WF_vars(SendRisk) /\ WF_vars(SendSignals) /\ WF_vars(ApplyFrame)
    /\ WF_vars(PollRead) /\ SF_vars(PollApply)

FairSpec == Spec /\ Fairness

-----------------------------------------------------------------------------
(* The two fields that say the same thing agree, whichever of the poll and *)
(* the stream wrote last (mergeLiveRisk, normaliseRiskState); and a signal *)
(* is shown once, newest first, across reconnections, unless one of them   *)
(* did not learn where the stream ended (pushSignals, _event_stream).      *)
ViewConsistent ==
    /\ view.mode = "halted" <=> view.kill = "halted"
    /\ ~tailLost => \A i, j \in DOMAIN shown : i < j => shown[i] > shown[j]

(* Once the halt stops changing, the terminal comes to show it and keeps   *)
(* showing it, although an answer read earlier may be applied later.       *)
ViewCatchesUp == (toggles = MaxToggles) ~> [](view.kill = State(halt))
=============================================================================
