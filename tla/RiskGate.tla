------------------------------ MODULE RiskGate ------------------------------
(***************************************************************************)
(* The risk engine (services/risk): consumers of signals:approved that run *)
(* the pre-trade checks against shared Redis state and route each          *)
(* opportunity to signals:execution_queue or signals:rejected, together    *)
(* with the journal's reconciler, which overwrites open_position_count     *)
(* from the positions table, and with the executor and the operator as far *)
(* as the checks can see them.                                             *)
(*                                                                         *)
(* Every await of consumer._process that reads or writes shared state is a *)
(* step of its own.  Workers is the set of processes that run the consumer *)
(* loop: one by the module's documentation, two by the container's command *)
(* line (uvicorn --workers 2), both under the consumer name "risk-1".      *)
(***************************************************************************)
EXTENDS Integers, FiniteSets

CONSTANTS
    Workers,       \* processes that run the consumer loop
    MsgCount,      \* messages of signals:approved, in stream order
    Keys,          \* position keys (venue, symbol, strategy)
    KeysOf,        \* KeysOf[m]: the positions that m's legs trade
    MaxOpen,       \* RISK_MAX_OPEN_POSITIONS
    GrossCap,      \* RISK_MAX_GROSS_EXPOSURE_USD in units of position_usd; 0 = off
    LimitWriter,   \* whether anything writes the loss fields of risk:state
    MaxCrashes     \* bound on crashes of workers

Msgs == 1 .. MsgCount

ASSUME SizesAssumption == MsgCount \in Nat /\ MaxOpen \in Nat /\ GrossCap \in Nat
ASSUME SetsAssumption ==
    /\ IsFiniteSet(Workers) /\ IsFiniteSet(Keys)
    /\ KeysOf \in [Msgs -> SUBSET Keys]
ASSUME OtherAssumption == LimitWriter \in BOOLEAN /\ MaxCrashes \in Nat

VARIABLES
    \* Redis
    halt,          \* risk:halt = "1"
    count,         \* risk:state open_position_count
    limit,         \* what the loss fields of risk:state amount to
    newDay,        \* risk:state daily_reset_date is not today
    enabled,       \* strategy:state:<name> enabled = "1"
    cooldown,      \* risk:cooldown:<name> exists
    delivered,     \* last-delivered position of the group risk on signals:approved
    pel,           \* delivered and not acknowledged
    forwards,      \* forwards[m]: entries of m in signals:execution_queue
    rejects,       \* rejects[m]: entries of m in signals:rejected
    \* the risk workers
    wpc, wmsg,
    seen,          \* seen[w]: what w has read of the shared state
    \* Postgres and the executor
    rows,          \* positions with status 'open'
    executedMsgs,  \* messages the executor is done with
    \* the journal's reconciler
    jpc, jrows,
    \* bounds and history
    crashes,
    fwdAfterHalt   \* messages forwarded since the halt was last raised

redisVars  == <<halt, count, limit, newDay, enabled, cooldown>>
streamVars == <<delivered, pel, forwards, rejects>>
workerVars == <<wpc, wmsg, seen>>
bookVars   == <<rows, executedMsgs>>
journalVars == <<jpc, jrows>>
vars == <<redisVars, streamVars, workerVars, bookVars, journalVars, crashes, fwdAfterHalt>>

Limits == {"ok", "drawdown", "losses"}

WorkerSteps == {"date", "newday", "hash", "halt", "decide", "incr", "forward",
                "reject", "rejectHalt", "rejectCool", "autohalt", "cool", "ack"}

NothingSeen == [count |-> 0, limit |-> "ok", halt |-> FALSE]

TypeOK ==
    /\ halt \in BOOLEAN /\ count \in Nat /\ limit \in Limits
    /\ newDay \in BOOLEAN /\ enabled \in BOOLEAN /\ cooldown \in BOOLEAN
    /\ delivered \in 0 .. MsgCount
    /\ pel \in SUBSET Msgs
    /\ forwards \in [Msgs -> Nat] /\ rejects \in [Msgs -> Nat]
    /\ wpc \in [Workers -> WorkerSteps \cup {"down", "idle"}]
    /\ wmsg \in [Workers -> 0 .. MsgCount]
    /\ seen \in [Workers -> [count : Nat, limit : Limits, halt : BOOLEAN]]
    /\ rows \in SUBSET Keys /\ executedMsgs \in SUBSET Msgs
    /\ jpc \in {"sleep", "write"} /\ jrows \in Nat
    /\ crashes \in Nat /\ fwdAfterHalt \in Nat

\* main.lifespan has seeded risk:state; the operator has started the bot.
Init ==
    /\ halt = FALSE /\ count = 0 /\ limit = "ok" /\ newDay = FALSE
    /\ enabled = TRUE /\ cooldown = FALSE
    /\ delivered = 0 /\ pel = {}
    /\ forwards = [m \in Msgs |-> 0] /\ rejects = [m \in Msgs |-> 0]
    /\ wpc = [w \in Workers |-> "idle"]
    /\ wmsg = [w \in Workers |-> 0]
    /\ seen = [w \in Workers |-> NothingSeen]
    /\ rows = {} /\ executedMsgs = {}
    /\ jpc = "sleep" /\ jrows = 0
    /\ crashes = 0 /\ fwdAfterHalt = 0

-----------------------------------------------------------------------------
(* One risk worker.  At(w, s, t): w is at step s and goes on to step t. *)

At(w, s, t) ==
    /\ wpc[w] = s
    /\ wpc' = [wpc EXCEPT ![w] = t]

\* XREADGROUP ... ">" COUNT 1: each entry goes to one of the workers, once.
Read(w) ==
    /\ At(w, "idle", "date")
    /\ delivered < MsgCount
    /\ delivered' = delivered + 1
    /\ pel' = pel \cup {delivered + 1}
    /\ wmsg' = [wmsg EXCEPT ![w] = delivered + 1]
    /\ seen' = [seen EXCEPT ![w] = NothingSeen]
    /\ UNCHANGED <<redisVars, forwards, rejects, bookVars, journalVars, crashes, fwdAfterHalt>>

\* check_and_reset_daily: HGET of the stored date, ...
ReadDate(w) ==
    /\ At(w, "date", IF newDay THEN "newday" ELSE "hash")
    /\ UNCHANGED <<redisVars, streamVars, wmsg, seen, bookVars, journalVars, crashes, fwdAfterHalt>>

\* ... and HSET of the daily fields, among them daily_pnl_usd and
\* daily_drawdown_pct, not of consecutive_losses or the position count.
ResetDaily(w) ==
    /\ At(w, "newday", "hash")
    /\ newDay' = FALSE
    /\ limit' = IF limit = "drawdown" THEN "ok" ELSE limit
    /\ UNCHANGED <<halt, count, enabled, cooldown, streamVars, wmsg, seen,
                   bookVars, journalVars, crashes, fwdAfterHalt>>

\* HGETALL risk:state
ReadHash(w) ==
    /\ At(w, "hash", "halt")
    /\ seen' = [seen EXCEPT ![w].count = count, ![w].limit = limit]
    /\ UNCHANGED <<redisVars, streamVars, wmsg, bookVars, journalVars, crashes, fwdAfterHalt>>

\* GET risk:halt
ReadHalt(w) ==
    /\ At(w, "halt", "decide")
    /\ seen' = [seen EXCEPT ![w].halt = halt]
    /\ UNCHANGED <<redisVars, streamVars, wmsg, bookVars, journalVars, crashes, fwdAfterHalt>>

\* Open notional in units of position_usd, one per open position;
\* get_open_exposure answers 0 when the database fails.
Exposures == {Cardinality(rows), 0}

\* A variant of Checks without the kill switch.
ChecksNoKillSwitch(s, exposure, verdict) ==
    IF ~ enabled \/ cooldown THEN verdict = "reject"
    ELSE IF s.limit = "drawdown" THEN verdict = "rejectHalt"
    ELSE IF s.count >= MaxOpen THEN verdict = "reject"
    ELSE verdict \in {"incr", "reject"}

\* run_checks, in priority order: the first failing check names the verdict.
\* A positive net edge is a property of the payload alone.
Checks(s, exposure, verdict) ==
    IF s.halt \/ ~ enabled \/ cooldown THEN verdict = "reject"
    ELSE IF s.limit = "drawdown" THEN verdict = "rejectHalt"
    ELSE IF s.count >= MaxOpen \/ (GrossCap > 0 /\ exposure + 1 > GrossCap)
         THEN verdict = "reject"
    ELSE IF s.limit = "losses" THEN verdict = "rejectCool"
    ELSE verdict \in {"incr", "reject"}

\* The strategy toggle, its cooldown and the exposure are read, then the checks
\* run on what was read.
Decide(w) ==
    /\ \E verdict \in {"incr", "reject", "rejectHalt", "rejectCool"}, exposure \in Exposures :
          /\ Checks(seen[w], exposure, verdict)
          /\ At(w, "decide", verdict)
    /\ UNCHANGED <<redisVars, streamVars, wmsg, seen, bookVars, journalVars, crashes, fwdAfterHalt>>

\* HINCRBY open_position_count; if its reply is lost the message is given up.
Increment(w) ==
    /\ At(w, "incr", "forward") \/ At(w, "incr", "ack")
    /\ count' = count + 1
    /\ UNCHANGED <<halt, limit, newDay, enabled, cooldown, streamVars, wmsg, seen,
                   bookVars, journalVars, crashes, fwdAfterHalt>>

\* XADD signals:execution_queue
Forward(w) ==
    /\ At(w, "forward", "ack")
    /\ forwards' = [forwards EXCEPT ![wmsg[w]] = @ + 1]
    /\ fwdAfterHalt' = IF halt THEN fwdAfterHalt + 1 ELSE 0
    /\ UNCHANGED <<redisVars, delivered, pel, rejects, wmsg, seen, bookVars, journalVars, crashes>>

\* XADD signals:rejected, then the side effect the verdict asks for.
AfterReject == [reject |-> "ack", rejectHalt |-> "autohalt", rejectCool |-> "cool"]

Reject(w) ==
    /\ \E verdict \in DOMAIN AfterReject : At(w, verdict, AfterReject[verdict])
    /\ rejects' = [rejects EXCEPT ![wmsg[w]] = @ + 1]
    /\ UNCHANGED <<redisVars, delivered, pel, forwards, wmsg, seen, bookVars, journalVars,
                   crashes, fwdAfterHalt>>

RaiseHalt ==
    /\ halt' = TRUE
    /\ fwdAfterHalt' = IF halt THEN fwdAfterHalt ELSE 0

\* activate_halt: one MULTI of SET risk:halt and HSET trading_halted.
AutoHalt(w) ==
    /\ At(w, "autohalt", "ack")
    /\ RaiseHalt
    /\ UNCHANGED <<count, limit, newDay, enabled, cooldown, streamVars, wmsg, seen,
                   bookVars, journalVars, crashes>>

\* activate_cooldown
Cool(w) ==
    /\ At(w, "cool", "ack")
    /\ cooldown' = TRUE
    /\ UNCHANGED <<halt, count, limit, newDay, enabled, streamVars, wmsg, seen,
                   bookVars, journalVars, crashes, fwdAfterHalt>>

\* A Redis call raises: run() logs it and its finally clause acknowledges.
CallFails(w) ==
    /\ wpc[w] \in WorkerSteps \ {"ack"}
    /\ wpc' = [wpc EXCEPT ![w] = "ack"]
    /\ UNCHANGED <<redisVars, streamVars, wmsg, seen, bookVars, journalVars, crashes, fwdAfterHalt>>

\* A variant of Ack that leaves the worker with the message it has.
AckThenAgain(w) ==
    /\ At(w, "ack", "date") \/ At(w, "ack", "idle")
    /\ pel' = pel \ {wmsg[w]}
    /\ UNCHANGED <<redisVars, delivered, forwards, rejects, wmsg, seen, bookVars,
                   journalVars, crashes, fwdAfterHalt>>

\* A variant of Ack that lets a failing XACK end the consumer task.
AckEndsTask(w) ==
    /\ \/ At(w, "ack", "idle") /\ pel' = pel \ {wmsg[w]}
       \/ At(w, "ack", "ended") /\ UNCHANGED pel
    /\ wmsg' = [wmsg EXCEPT ![w] = 0]
    /\ seen' = [seen EXCEPT ![w] = NothingSeen]
    /\ UNCHANGED <<redisVars, delivered, forwards, rejects, bookVars, journalVars,
                   crashes, fwdAfterHalt>>

\* XACK; when it fails, the loop logs the error and reads on.
Ack(w) ==
    /\ At(w, "ack", "idle")
    /\ \/ pel' = pel \ {wmsg[w]}
       \/ UNCHANGED pel
    /\ wmsg' = [wmsg EXCEPT ![w] = 0]
    /\ seen' = [seen EXCEPT ![w] = NothingSeen]
    /\ UNCHANGED <<redisVars, delivered, forwards, rejects, bookVars, journalVars,
                   crashes, fwdAfterHalt>>

\* The process dies; what it had in hand stays in the pending list.
Crash(w) ==
    /\ wpc[w] # "down"
    /\ crashes < MaxCrashes
    /\ crashes' = crashes + 1
    /\ wpc' = [wpc EXCEPT ![w] = "down"]
    /\ wmsg' = [wmsg EXCEPT ![w] = 0]
    /\ seen' = [seen EXCEPT ![w] = NothingSeen]
    /\ UNCHANGED <<redisVars, streamVars, bookVars, journalVars, fwdAfterHalt>>

\* Restarted against the risk:state that is there (see HaltControl for startup).
Restart(w) ==
    /\ At(w, "down", "idle")
    /\ UNCHANGED <<redisVars, streamVars, wmsg, seen, bookVars, journalVars, crashes, fwdAfterHalt>>

WorkerStep(w) ==
    \/ Read(w) \/ ReadDate(w) \/ ResetDaily(w) \/ ReadHash(w) \/ ReadHalt(w)
    \/ Decide(w) \/ Increment(w) \/ Forward(w) \/ Reject(w) \/ AutoHalt(w)
    \/ Cool(w) \/ CallFails(w) \/ Ack(w) \/ Restart(w)

-----------------------------------------------------------------------------
(* The journal's reconciler, the executor, the operator and the clock. *)

\* _run_cycle: count the open positions ...
CountOpen ==
    /\ jpc = "sleep"
    /\ jpc' = "write"
    /\ jrows' = Cardinality(rows)
    /\ UNCHANGED <<redisVars, streamVars, workerVars, bookVars, crashes, fwdAfterHalt>>

\* A variant of WriteCount that corrects by an increment.
WriteCountAdds ==
    /\ jpc = "write"
    /\ jpc' = "sleep"
    /\ count' = count + jrows
    /\ jrows' = 0
    /\ UNCHANGED <<halt, limit, newDay, enabled, cooldown, streamVars, workerVars,
                   bookVars, crashes, fwdAfterHalt>>

\* ... and, some time later, write what was counted over what is there.
WriteCount ==
    /\ jpc = "write"
    /\ jpc' = "sleep"
    /\ \/ count' = jrows
       \/ UNCHANGED count                       \* HSET fails: logged, next cycle
    /\ jrows' = 0
    /\ UNCHANGED <<halt, limit, newDay, enabled, cooldown, streamVars, workerVars,
                   bookVars, crashes, fwdAfterHalt>>

\* The executor has processed m: its legs opened and closed positions, or none
\* (a halt, no tick, a refusal).
Execute(m) ==
    /\ forwards[m] > 0 /\ m \notin executedMsgs
    /\ executedMsgs' = executedMsgs \cup {m}
    /\ \E opened, closed \in SUBSET KeysOf[m] : rows' = (rows \cup opened) \ closed
    /\ UNCHANGED <<redisVars, streamVars, workerVars, journalVars, crashes, fwdAfterHalt>>

\* POST /control/kill and /control/reset on the key the checks read.
Kill ==
    /\ ~ halt
    /\ RaiseHalt
    /\ UNCHANGED <<count, limit, newDay, enabled, cooldown, streamVars, workerVars,
                   bookVars, journalVars, crashes>>

Reset ==
    /\ halt
    /\ halt' = FALSE
    /\ fwdAfterHalt' = 0
    /\ UNCHANGED <<count, limit, newDay, enabled, cooldown, streamVars, workerVars,
                   bookVars, journalVars, crashes>>

\* POST /control/strategy/{name}/toggle
Toggle ==
    /\ enabled' = ~ enabled
    /\ UNCHANGED <<halt, count, limit, newDay, cooldown, streamVars, workerVars,
                   bookVars, journalVars, crashes, fwdAfterHalt>>

\* The TTL of the cooldown key.
CooldownEnds ==
    /\ cooldown
    /\ cooldown' = FALSE
    /\ UNCHANGED <<halt, count, limit, newDay, enabled, streamVars, workerVars,
                   bookVars, journalVars, crashes, fwdAfterHalt>>

\* Midnight (UTC): the stored date is no longer today's.
Midnight ==
    /\ ~ newDay
    /\ newDay' = TRUE
    /\ UNCHANGED <<halt, count, limit, enabled, cooldown, streamVars, workerVars,
                   bookVars, journalVars, crashes, fwdAfterHalt>>

\* A loss field of risk:state is written from outside.  No code under src/
\* does it (the tests seed the hash), so it happens only under LimitWriter.
WriteLimit ==
    /\ LimitWriter
    /\ limit' \in Limits
    /\ UNCHANGED <<halt, count, newDay, enabled, cooldown, streamVars, workerVars,
                   bookVars, journalVars, crashes, fwdAfterHalt>>

Environment ==
    \/ CountOpen \/ WriteCount
    \/ \E m \in Msgs : Execute(m)
    \/ Kill \/ Reset \/ Toggle \/ CooldownEnds \/ Midnight \/ WriteLimit

Next ==
    \/ \E w \in Workers : WorkerStep(w) \/ Crash(w)
    \/ Environment

Spec == Init /\ [][Next]_vars

\* Each worker's event loop goes on while it can; a dead worker is restarted.
FairSpec == Spec /\ \A w \in Workers : WF_vars(WorkerStep(w))

-----------------------------------------------------------------------------
(* Properties *)

\* Each worker can take the position count at most one beyond what the limit,
\* or the reconciler, allowed (HGETALL and HINCRBY of _process are not atomic).
Allowed == IF Cardinality(Keys) > MaxOpen - 1 THEN Cardinality(Keys) ELSE MaxOpen - 1
CountBounded == count <= Allowed + Cardinality(Workers)

\* Once the kill switch is set, each worker forwards at most the one message it
\* had already checked (_process reads risk:halt once, before it forwards).
HaltOvershoot == halt => fwdAfterHalt <= Cardinality(Workers)

\* No opportunity is routed twice, by one worker or by two, whatever fails
\* (the executor's client_order_ids rest on it).
RoutedOnce == \A m \in Msgs : forwards[m] + rejects[m] <= 1

\* The stream is worked off: failed calls and crashes never wedge the loop.
StreamDrains == delivered < MsgCount ~> delivered = MsgCount

\* consumer.py:13 "Running two checks in parallel against the same state could
\* approve more positions than the limit allows. Single consumer = no race
\* conditions": with no open position in the books, the limit holds.
CountWithinMax == count <= MaxOpen
=============================================================================
