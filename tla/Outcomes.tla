------------------------------ MODULE Outcomes ------------------------------
(***************************************************************************)
(* What the executor records of each finished opportunity, in Redis and    *)
(* command by command: the run of losses and the degraded flag of its      *)
(* strategy, the preferred alternative, the window of wins and losses with *)
(* its decayed flag, the averages Kelly sizing reads, and the cumulative   *)
(* result with its peak and drawdown.  The executor handles one message at *)
(* a time; any command may raise, which ends the recording, and every key  *)
(* has an expiry of its own.                                               *)
(*                                                                         *)
(* The regime is read as text but decoded only when it is bytes, which it  *)
(* never is: the ordering for "unknown" is the one in use.                 *)
(***************************************************************************)
EXTENDS Integers, Sequences, SequencesExt

CONSTANTS
    Candidates,     \* REGIME_STRATEGY_MAP["unknown"]: the strategies, best first
    Results,        \* realized results of an opportunity
    Threshold,      \* ROTATION_CONSECUTIVE_LOSS_THRESHOLD
    Window,         \* EDGE_MONITOR_WINDOW
    MinSample,      \* _EDGE_MIN_SAMPLE
    BelowNum, BelowDen,   \* baseline - decay threshold, as a fraction
    MaxRecords, MaxRaises, MaxExpiries   \* bounds

Strategy == ToSet(Candidates)
Nobody   == "nobody"

VARIABLES
    losses, degraded, preferred, enabled,
    edge, decayed,
    hasWin, hasLoss,       \* whether avg_win, avg_loss are there
    cum, peak, drawdown,   \* drawdown is what dd_pct is computed from: [peak, cum]
    job,                   \* the recording in hand: [step, name, ok, result]
    streak,                \* history: losses of the strategy since its last win
    torn,                  \* strategies whose last recording was cut short, or lost a key since
    missed,                \* strategies with a win that never cleared the losses and the flag
    stranded,              \* strategies that degraded when no alternative was eligible
    records, raises, expiries

flags == <<losses, degraded, preferred>>
books == <<edge, decayed, hasWin, hasLoss>>
curve == <<cum, peak, drawdown>>
bounds == <<records, raises, expiries>>
vars == <<flags, enabled, books, curve, job, streak, torn, missed, stranded, bounds>>

Idle == [step |-> "idle", name |-> Nobody, ok |-> TRUE, result |-> 0]

Init ==
    /\ losses = [s \in Strategy |-> 0] /\ degraded = {} /\ preferred = Nobody
    /\ enabled \in SUBSET Strategy
    /\ edge = [s \in Strategy |-> <<>>] /\ decayed = {} /\ hasWin = {} /\ hasLoss = {}
    /\ cum = [s \in Strategy |-> 0] /\ peak = [s \in Strategy |-> 0]
    /\ drawdown = [s \in Strategy |-> [peak |-> 0, cum |-> 0]]
    /\ job = Idle /\ streak = [s \in Strategy |-> 0]
    /\ torn = {} /\ missed = {} /\ stranded = {}
    /\ records = 0 /\ raises = 0 /\ expiries = 0

At(from, to) == job.step = from /\ job' = [job EXCEPT !.step = to]
me == job.name

Won  == job.ok /\ job.result > 0
Lost == ~job.ok \/ job.result < 0

Begin(name, ok, result) ==
    /\ job.step = "idle" /\ records < MaxRecords /\ records' = records + 1
    /\ job' = [step |-> "count", name |-> name, ok |-> ok, result |-> result]
    /\ streak' = [streak EXCEPT ![name] = IF ok /\ result > 0 THEN 0
                                          ELSE IF ~ok \/ result < 0 THEN @ + 1 ELSE @]
    /\ UNCHANGED <<flags, enabled, books, curve, torn, missed, stranded, raises, expiries>>

AfterRotation == IF job.result = 0 THEN "done" ELSE "push"

\* A variant of CountWin that leaves the counter as it was.
CountWinKeeps ==
    /\ Won /\ At("count", "restore")
    /\ UNCHANGED <<losses, degraded, preferred, enabled, books, curve, streak, torn, missed, stranded, bounds>>

CountWin ==
    /\ Won /\ At("count", "restore")
    /\ losses' = [losses EXCEPT ![me] = 0]
    /\ UNCHANGED <<degraded, preferred, enabled, books, curve, streak, torn, missed, stranded, bounds>>

Restore ==
    /\ At("restore", AfterRotation)
    /\ degraded' = degraded \ {me} /\ missed' = missed \ {me}
    /\ UNCHANGED <<losses, preferred, enabled, books, curve, streak, torn, stranded, bounds>>

CountLoss ==
    /\ Lost
    /\ At("count", IF losses[me] + 1 >= Threshold THEN "degrade" ELSE AfterRotation)
    /\ losses' = [losses EXCEPT ![me] = @ + 1]
    /\ UNCHANGED <<degraded, preferred, enabled, books, curve, streak, torn, missed, stranded, bounds>>

CountNeither ==
    /\ ~Won /\ ~Lost /\ At("count", "done")
    /\ UNCHANGED <<flags, enabled, books, curve, streak, torn, missed, stranded, bounds>>

Degrade ==
    /\ At("degrade", "rotate")
    /\ degraded' = degraded \cup {me}
    /\ UNCHANGED <<losses, preferred, enabled, books, curve, streak, torn, missed, stranded, bounds>>

\* _update_rotation_preferred: the first candidate that is neither the failed
\* strategy nor degraded and is enabled; the hint stays when there is none.
Eligible == { s \in Strategy : s # me /\ s \notin degraded /\ s \in enabled }

Rotate ==
    /\ At("rotate", AfterRotation)
    /\ LET eligible == { i \in DOMAIN Candidates : Candidates[i] \in Eligible }
       IN  IF eligible = {} THEN stranded' = stranded \cup {me} /\ UNCHANGED preferred
                            ELSE preferred' = Candidates[Min(eligible)] /\ stranded' = stranded \ {me}
    /\ UNCHANGED <<losses, degraded, enabled, books, curve, streak, torn, missed, bounds>>

\* RPUSH and LTRIM: the last Window outcomes.
Trimmed(q) == IF Len(q) > Window THEN SubSeq(q, Len(q) - Window + 1, Len(q)) ELSE q

Push ==
    /\ At("push", "judge")
    /\ edge' = [edge EXCEPT ![me] = Trimmed(Append(@, job.result > 0))]
    /\ UNCHANGED <<flags, enabled, decayed, hasWin, hasLoss, curve, streak, torn, missed, stranded, bounds>>

Wins(q)  == Len(SelectSeq(q, LAMBDA w : w))
Below(q) == Wins(q) * BelowDen < BelowNum * Len(q)

\* Only the alarm asks for MinSample outcomes; the recovery does not.
Judge ==
    /\ At("judge", "average")
    /\ decayed' = IF Below(edge[me])
                  THEN IF Len(edge[me]) >= MinSample THEN decayed \cup {me} ELSE decayed
                  ELSE decayed \ {me}
    /\ UNCHANGED <<flags, enabled, edge, hasWin, hasLoss, curve, streak, torn, missed, stranded, bounds>>

Average ==
    /\ At("average", "add")
    /\ hasWin'  = IF job.result > 0 THEN hasWin \cup {me} ELSE hasWin
    /\ hasLoss' = IF job.result > 0 THEN hasLoss ELSE hasLoss \cup {me}
    /\ UNCHANGED <<flags, enabled, edge, decayed, curve, streak, torn, missed, stranded, bounds>>

AddResult ==
    /\ At("add", "peak")
    /\ cum' = [cum EXCEPT ![me] = @ + job.result]
    /\ UNCHANGED <<flags, enabled, books, peak, drawdown, streak, torn, missed, stranded, bounds>>

RaisePeak ==
    /\ At("peak", "drawdown")
    /\ peak' = [peak EXCEPT ![me] = IF cum[me] > @ THEN cum[me] ELSE @]
    /\ UNCHANGED <<flags, enabled, books, cum, drawdown, streak, torn, missed, stranded, bounds>>

SetDrawdown ==
    /\ At("drawdown", "done")
    /\ drawdown' = [drawdown EXCEPT ![me] = [peak |-> peak[me], cum |-> cum[me]]]
    /\ UNCHANGED <<flags, enabled, books, cum, peak, streak, torn, missed, stranded, bounds>>

Done ==
    /\ job.step = "done" /\ job' = Idle
    /\ torn' = IF job.result = 0 THEN torn ELSE torn \ {me}
    /\ UNCHANGED <<flags, enabled, books, curve, streak, missed, stranded, bounds>>

Raises ==
    /\ job.step \notin {"idle", "done"} /\ job' = Idle
    /\ raises < MaxRaises /\ raises' = raises + 1
    /\ torn' = torn \cup {me}
    /\ missed' = IF job.step = "restore" \/ (job.step = "count" /\ Won) THEN missed \cup {me} ELSE missed
    /\ UNCHANGED <<flags, enabled, books, curve, streak, stranded, records, expiries>>

-----------------------------------------------------------------------------
Expiring ==
    /\ expiries < MaxExpiries /\ expiries' = expiries + 1
    /\ UNCHANGED <<enabled, job, streak, missed, stranded, records, raises>>

ExpireFlag(s) ==
    /\ Expiring /\ UNCHANGED <<losses, preferred, books, curve, torn>>
    /\ s \in degraded /\ degraded' = degraded \ {s}

ExpireHint ==
    /\ Expiring /\ UNCHANGED <<losses, degraded, books, curve, torn>>
    /\ preferred # Nobody /\ preferred' = Nobody

\* The counter is given a day with every loss, before the flag is given four hours.
ExpireLosses(s) ==
    /\ s \notin degraded \cup {me} /\ Expiring /\ UNCHANGED <<degraded, preferred, books, curve, torn>>
    /\ losses[s] > 0 /\ losses' = [losses EXCEPT ![s] = 0]

ExpireAlarm(s) ==
    /\ Expiring /\ UNCHANGED <<flags, edge, hasWin, hasLoss, curve, torn>>
    /\ s \in decayed /\ decayed' = decayed \ {s}

\* The averages age by their own outcome only, the other books by any; the
\* books written by a recording outlive it.
ExpireAverage(s) ==
    /\ s # me /\ Expiring /\ UNCHANGED <<flags, edge, decayed, curve>>
    /\ torn' = torn \cup {s}
    /\ \/ s \in hasWin /\ hasWin' = hasWin \ {s} /\ UNCHANGED hasLoss
       \/ s \in hasLoss /\ hasLoss' = hasLoss \ {s} /\ UNCHANGED hasWin

ExpireCurve(s) ==
    /\ s # me /\ Expiring /\ UNCHANGED <<flags, books, peak, drawdown>>
    /\ cum[s] # 0 /\ cum' = [cum EXCEPT ![s] = 0]
    /\ torn' = torn \cup {s}

\* The operator; the flag matters only while an alternative is looked for.
ToggleStrategy(s) ==
    /\ job.step \in {"degrade", "rotate"}
    /\ enabled' = IF s \in enabled THEN enabled \ {s} ELSE enabled \cup {s}
    /\ UNCHANGED <<flags, books, curve, job, streak, torn, missed, stranded, bounds>>

Record ==
    \/ CountWin \/ Restore \/ CountLoss \/ CountNeither \/ Degrade \/ Rotate
    \/ Push \/ Judge \/ Average \/ AddResult \/ RaisePeak \/ SetDrawdown \/ Done

Next ==
    \/ \E s \in Strategy, ok \in BOOLEAN, r \in Results : Begin(s, ok, r)
    \/ Record \/ Raises
    \/ \E s \in Strategy : ExpireFlag(s) \/ ExpireLosses(s) \/ ExpireAlarm(s) \/ ExpireAverage(s)
                           \/ ExpireCurve(s) \/ ToggleStrategy(s)
    \/ ExpireHint

Spec == Init /\ [][Next]_vars

-----------------------------------------------------------------------------
(* The books of a strategy agree again after every recording that ran to   *)
(* its end, whatever an earlier one left half done: the drawdown is taken  *)
(* from the peak and the result in force, the peak is not below the        *)
(* result, and Kelly has an average for the kind of outcome recorded last  *)
(* (_record_outcome).                                                      *)
BooksAgree ==
    \A s \in Strategy \ (torn \cup {me}) :
        /\ peak[s] >= cum[s] /\ drawdown[s] = [peak |-> peak[s], cum |-> cum[s]]
        /\ edge[s] # <<>> => s \in (IF Last(edge[s]) THEN hasWin ELSE hasLoss)
        /\ s \in decayed => Below(edge[s])

(* A strategy is degraded only after Threshold losses in a row since its   *)
(* last win, unless a win could not be recorded: no failure and no expiry  *)
(* degrades a strategy early (_record_outcome, rotation).                  *)
DegradedAfterStreak ==
    \A s \in degraded : streak[s] >= Threshold \/ s = me \/ s \in missed

(* The hint never stays on a strategy that degraded while another one was  *)
(* eligible: the loss that degrades the preferred strategy moves the hint  *)
(* (_update_rotation_preferred), unless a recording was cut short: that     *)
(* very one, or one of a win, which leaves the flag and a counter that has *)
(* to reach the threshold again before the hint is looked at.              *)
HintMoves ==
    \A s \in degraded \ (torn \cup stranded \cup missed) : s # me => preferred # s

(* The records of a strategy's outcomes agree with each other and with     *)
(* what happened: its degradation, the hint and the books of results       *)
(* (_record_outcome).                                                      *)
RecordsAgree == DegradedAfterStreak /\ HintMoves /\ BooksAgree
=============================================================================
