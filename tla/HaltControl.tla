---------------------------- MODULE HaltControl ----------------------------
(***************************************************************************)
(* The kill switch: the key risk:halt, which every check reads, and the    *)
(* field trading_halted of risk:state, which only the risk engine's        *)
(* startup reads.  Three parties write them: the gateway's control routes  *)
(* (kill, reset, bot/start, bot/stop: two commands, one after the other,   *)
(* then a loop over the strategies), the risk workers' startup, and the    *)
(* risk workers' auto-halt (one transaction).                              *)
(***************************************************************************)
EXTENDS Integers, FiniteSets

CONSTANTS
    Requests,     \* control requests the gateway may be serving at once
    RiskWorkers,  \* processes of the risk engine
    Strategies,   \* _ALL_STRATEGIES
    AutoHalts,    \* whether a loss limit is ever found breached (see README)
    CallsFail,    \* whether a control request may fail half way
    MaxCrashes    \* bound on crashes of risk workers

ASSUME ConstantsAssumption ==
    /\ IsFiniteSet(Requests) /\ IsFiniteSet(RiskWorkers) /\ IsFiniteSet(Strategies)
    /\ CallsFail \in BOOLEAN /\ AutoHalts \in BOOLEAN
    /\ MaxCrashes \in Nat

VARIABLES
    flag,      \* risk:halt: "0", "1", or "none" when the key does not exist
    mirror,    \* risk:state trading_halted; "none" when there is no hash
    enabled,   \* strategies whose strategy:state has enabled = "1"
    kind, rpc, \* per request: what it does and how far it is
    todo,      \* per request: strategies its loop has not come to
    disturbed, \* per request: somebody else wrote while it was served
    wpc,       \* per risk worker: startup step, "up" or "down"
    \* bounds and history
    fresh,     \* Redis was empty when the history began
    last,      \* the operation whose effect nothing has touched since, or "none"
    crashes

requestVars == <<kind, rpc, todo, disturbed>>
vars == <<flag, mirror, enabled, requestVars, wpc, fresh, last, crashes>>

Raising  == {"kill", "stop"}
Clearing == {"reset", "start"}
Kinds    == Raising \cup Clearing
Steps    == {"set", "mirror", "strategies", "audit"}

\* The two values both copies take ("1" halted, "0" not).
Value(k) == IF k \in Raising THEN "1" ELSE "0"

TypeOK ==
    /\ flag \in {"none", "0", "1"} /\ mirror \in {"none", "0", "1"}
    /\ enabled \in SUBSET Strategies
    /\ kind \in [Requests -> Kinds \cup {"none"}]
    /\ rpc \in [Requests -> Steps \cup {"free"}]
    /\ todo \in [Requests -> SUBSET Strategies]
    /\ disturbed \in [Requests -> BOOLEAN]
    /\ wpc \in [RiskWorkers -> {"down", "seed", "seedflag", "check", "resync", "up"}]
    /\ fresh \in BOOLEAN
    /\ last \in Kinds \cup {"none"}
    /\ crashes \in Nat

Init ==
    /\ fresh \in BOOLEAN
    /\ flag = IF fresh THEN "none" ELSE "0"
    /\ mirror = flag
    /\ enabled = {}
    /\ kind = [r \in Requests |-> "none"]
    /\ rpc = [r \in Requests |-> "free"]
    /\ todo = [r \in Requests |-> {}]
    /\ disturbed = [r \in Requests |-> FALSE]
    /\ wpc = [w \in RiskWorkers |-> "down"]
    /\ last = "none"
    /\ crashes = 0

-----------------------------------------------------------------------------
(* The gateway's control routes. *)

Busy(r) == rpc[r] # "free"
Goto(r, s, t) == rpc[r] = s /\ rpc' = [rpc EXCEPT ![r] = t]

\* Somebody writes: what the busy requests do is no longer theirs alone.
OtherWrite ==
    /\ last' = "none"
    /\ disturbed' = [r \in Requests |-> disturbed[r] \/ Busy(r)]

\* A request comes in (bodies that fail validation change nothing).
Begin(r, k) ==
    /\ Goto(r, "free", "set")
    /\ kind' = [kind EXCEPT ![r] = k]
    /\ disturbed' = [q \in Requests |->
                      IF q = r THEN \E p \in Requests \ {r} : Busy(p)
                      ELSE disturbed[q] \/ Busy(q)]
    /\ last' = "none"
    /\ UNCHANGED <<flag, mirror, enabled, todo, wpc, fresh, crashes>>

\* SET risk:halt
SetFlag(r) ==
    /\ Goto(r, "set", "mirror")
    /\ flag' = Value(kind[r])
    /\ UNCHANGED <<mirror, enabled, kind, todo, disturbed, wpc, last, fresh, crashes>>

\* HSET risk:state trading_halted
SetMirror(r) ==
    /\ Goto(r, "mirror", IF kind[r] \in {"start", "stop"} THEN "strategies" ELSE "audit")
    /\ mirror' = Value(kind[r])
    /\ todo' = [todo EXCEPT ![r] = IF kind[r] \in {"start", "stop"} THEN Strategies ELSE {}]
    /\ UNCHANGED <<flag, enabled, kind, disturbed, wpc, last, fresh, crashes>>

\* A variant of SetStrategy that ends the loop after its first round.
SetStrategyOnce(r) ==
    /\ Goto(r, "strategies", "audit")
    /\ \E s \in todo[r] :
          enabled' = IF kind[r] = "start" THEN enabled \cup {s} ELSE enabled \ {s}
    /\ todo' = [todo EXCEPT ![r] = {}]
    /\ UNCHANGED <<flag, mirror, kind, disturbed, wpc, last, fresh, crashes>>

\* One round of bot/start's and bot/stop's loop: HSET strategy:state:<name>.
SetStrategy(r) ==
    /\ rpc[r] = "strategies"
    /\ \E s \in todo[r] :
          /\ enabled' = IF kind[r] = "start" THEN enabled \cup {s} ELSE enabled \ {s}
          /\ todo' = [todo EXCEPT ![r] = @ \ {s}]
          /\ rpc' = IF todo[r] = {s} THEN [rpc EXCEPT ![r] = "audit"] ELSE rpc
    /\ UNCHANGED <<flag, mirror, kind, disturbed, wpc, last, fresh, crashes>>

\* The audit rows are written and the request answers with success.
Answer(r) ==
    /\ Goto(r, "audit", "free")
    /\ last' = IF disturbed[r] THEN last ELSE kind[r]
    /\ kind' = [kind EXCEPT ![r] = "none"]
    /\ disturbed' = [disturbed EXCEPT ![r] = FALSE]
    /\ UNCHANGED <<flag, mirror, enabled, todo, wpc, fresh, crashes>>

\* A command or an audit INSERT raises: the request answers 500 half way.
RequestFails(r) ==
    /\ CallsFail
    /\ Busy(r)
    /\ rpc' = [rpc EXCEPT ![r] = "free"]
    /\ kind' = [kind EXCEPT ![r] = "none"]
    /\ todo' = [todo EXCEPT ![r] = {}]
    /\ disturbed' = [disturbed EXCEPT ![r] = FALSE]
    /\ UNCHANGED <<flag, mirror, enabled, wpc, last, fresh, crashes>>

\* POST /control/strategy/toggle
Toggle(s) ==
    /\ enabled' \in {enabled \cup {s}, enabled \ {s}}
    /\ OtherWrite
    /\ UNCHANGED <<flag, mirror, kind, rpc, todo, wpc, fresh, crashes>>

-----------------------------------------------------------------------------
(* The risk workers: _initialise_risk_state, then the consumer. *)

WorkerGoto(w, s, t) == wpc[w] = s /\ wpc' = [wpc EXCEPT ![w] = t]

\* A variant of Boot that seeds the defaults at every start.
BootAndSeed(w) ==
    /\ WorkerGoto(w, "down", "seed")
    /\ UNCHANGED <<flag, mirror, enabled, requestVars, last, fresh, crashes>>

\* HGETALL risk:state: empty, halted, or neither.
Boot(w) ==
    /\ \/ mirror = "none" /\ WorkerGoto(w, "down", "seed")
       \/ mirror = "1" /\ WorkerGoto(w, "down", "check")
       \/ mirror = "0" /\ WorkerGoto(w, "down", "up")
    /\ UNCHANGED <<flag, mirror, enabled, requestVars, last, fresh, crashes>>

\* First start: HSET the defaults, then SET risk:halt "0".
Seed(w) ==
    /\ WorkerGoto(w, "seed", "seedflag")
    /\ mirror' = "0"
    /\ OtherWrite
    /\ UNCHANGED <<flag, enabled, kind, rpc, todo, fresh, crashes>>

SeedFlag(w) ==
    /\ WorkerGoto(w, "seedflag", "up")
    /\ flag' = "0"
    /\ OtherWrite
    /\ UNCHANGED <<mirror, enabled, kind, rpc, todo, fresh, crashes>>

\* GET risk:halt: resync it if the hash was halted and the key is not.
Check(w) ==
    /\ \/ flag # "1" /\ WorkerGoto(w, "check", "resync")
       \/ flag = "1" /\ WorkerGoto(w, "check", "up")
    /\ UNCHANGED <<flag, mirror, enabled, requestVars, last, fresh, crashes>>

Resync(w) ==
    /\ WorkerGoto(w, "resync", "up")
    /\ flag' = "1"
    /\ OtherWrite
    /\ UNCHANGED <<mirror, enabled, kind, rpc, todo, fresh, crashes>>

\* activate_halt: both writes in one MULTI.
AutoHalt(w) ==
    /\ AutoHalts
    /\ wpc[w] = "up"
    /\ flag' = "1"
    /\ mirror' = "1"
    /\ OtherWrite
    /\ UNCHANGED <<enabled, kind, rpc, todo, wpc, fresh, crashes>>

Crash(w) ==
    /\ wpc[w] # "down"
    /\ crashes < MaxCrashes
    /\ crashes' = crashes + 1
    /\ wpc' = [wpc EXCEPT ![w] = "down"]
    /\ UNCHANGED <<flag, mirror, enabled, requestVars, fresh, last>>

RequestStep(r) == \/ \E k \in Kinds : Begin(r, k)
                  \/ SetFlag(r) \/ SetMirror(r) \/ SetStrategy(r)
                  \/ Answer(r) \/ RequestFails(r)

WorkerStep(w) == \/ Boot(w) \/ Seed(w) \/ SeedFlag(w) \/ Check(w) \/ Resync(w)
                 \/ AutoHalt(w) \/ Crash(w)

Next == \/ \E r \in Requests : RequestStep(r)
        \/ \E s \in Strategies : Toggle(s)
        \/ \E w \in RiskWorkers : WorkerStep(w)

Spec == Init /\ [][Next]_vars

-----------------------------------------------------------------------------
(* Properties *)

\* Whatever restarts, fails or runs at the same time, a raised kill switch goes
\* down only by a reset or a bot/start, or by the seed of a Redis that was empty
\* when the workers started (_initialise_risk_state: "Existing state is ALWAYS
\* preserved").
ClearingRequest == \E r \in Requests : rpc[r] = "set" /\ kind[r] \in Clearing
FirstSeed == fresh /\ \E w \in RiskWorkers : wpc[w] = "seedflag"
OnlyResetClears ==
    [][flag = "1" /\ flag' # "1" => ClearingRequest \/ FirstSeed]_vars

\* An operation that answered with success, with no other at its side and
\* nothing written since, has had all of its effect: both copies of the halt
\* and, for bot/start and bot/stop, every strategy.
LastOperationHolds ==
    last # "none" =>
        /\ flag = Value(last) /\ mirror = Value(last)
        /\ last = "start" => enabled = Strategies
        /\ last = "stop"  => enabled = {}
=============================================================================
