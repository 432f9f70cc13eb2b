------------------------------ MODULE Executor ------------------------------
(***************************************************************************)
(* The execution engine (services/executor): one consumer that takes risk- *)
(* approved opportunities from the stream signals:execution_queue, sends   *)
(* one order per leg to a venue, books the result in Postgres and then     *)
(* acknowledges the message.                                               *)
(*                                                                         *)
(* The module follows one message through consumer._process, one action    *)
(* per call that reads or changes shared state, so that a crash of the     *)
(* process, a crash of Redis, a kill switch or a failed call can fall      *)
(* between any two of them.                                                *)
(*                                                                         *)
(* Redis is persisted with appendfsync everysec: a crash puts it back to   *)
(* what it was at some earlier moment (variable disk), while Postgres, the *)
(* venue and, if it runs on, the executor itself keep everything.          *)
(***************************************************************************)
EXTENDS Integers, Sequences

CONSTANTS
    Opps,            \* opportunities, each queued under an id of its own
    LegCount,        \* LegCount[o]: legs of o's order plan; 0 = no plan, bad payload
    MaxLegs,         \* no plan has more legs
    CacheFails,      \* whether the replay cache may lose a result or fail a look-up
    MaxCrashes,      \* bound on crashes of the executor process
    MaxRedisCrashes  \* bound on crashes of Redis, which roll it back

ASSUME LegsAssumption ==
    /\ MaxLegs \in Nat
    /\ LegCount \in [Opps -> 0 .. MaxLegs]

ASSUME CacheAssumption == CacheFails \in BOOLEAN

ASSUME BoundsAssumption == MaxCrashes \in Nat /\ MaxRedisCrashes \in Nat

VARIABLES
    \* Redis
    queue,        \* signals:execution_queue: the opportunities added, in order
    cursor,       \* last-delivered position of the group executor
    pel,          \* opportunities delivered to executor-1 and not acknowledged
    results,      \* executor:result:<client_order_id>, or "none"
    halt,         \* risk:halt = "1"
    disk,         \* the Redis state that would survive a crash
    \* Postgres
    trades,       \* trades row of a client_order_id: its status, or "none"
    ledger,       \* how often that order's fill has moved its position
    executed,     \* opportunities marked executed
    \* the venues
    orders,       \* orders a venue has executed under a client_order_id
    \* the consumer task: its step, the message in hand, the leg, the leg's
    \* result, and how many legs have filled
    pc, msg, leg, res, okLegs,
    \* bounds and history
    crashes, redisCrashes,
    afterHalt     \* orders sent since the halt was last raised

redisVars == <<queue, cursor, pel, results, halt>>
dbVars    == <<trades, ledger, executed>>
taskVars  == <<pc, msg, leg, res, okLegs>>
boundVars == <<crashes, redisCrashes>>
vars == <<redisVars, disk, dbVars, orders, taskVars, boundVars, afterHalt>>

(***************************************************************************)
(* The status of a result.  The adapters write "filled" both when they     *)
(* read a quantity and a price and when the reply had none ("unpriced"     *)
(* here: an accepted order without an average price, an OANDA fill-or-kill *)
(* that was cancelled); persist_trade tells the two apart with _is_fill.   *)
(* The bridge's "simulated" is handled as "rejected" is: no order, no fill.*)
(***************************************************************************)
Status == {"filled", "unpriced", "rejected", "error"}
StatusOrNone == Status \cup {"none"}

CountsAsFilled == {"filled", "unpriced"}   \* result.status == "filled"

IsFill(status) == status = "filled"

Legs   == 1 .. MaxLegs
Orders == Opps \X Legs                     \* one client_order_id per leg

Positions(q) == 1 .. Len(q)
InQueue(q, o) == \E i \in Positions(q) : q[i] = o
DeliveredIn(q, k, o) == \E i \in Positions(q) : i <= k /\ q[i] = o
Delivered(o) == DeliveredIn(queue, cursor, o)

ClientOrderId == <<msg, leg>>

Working == {"gate", "size", "recover", "submit", "reply", "record",
            "persist", "finish", "ack"}
\* Steps at which the order of the leg in hand has not been sent yet, or has.
BeforeSend == {"size", "recover", "submit"}
AfterSend  == {"reply", "record", "persist"}

RedisState == [queue |-> queue, cursor |-> cursor, pel |-> pel,
               results |-> results, halt |-> halt]

TypeOK ==
    /\ queue \in Seq(Opps)
    /\ cursor \in Nat
    /\ pel \in SUBSET Opps
    /\ results \in [Orders -> StatusOrNone]
    /\ halt \in BOOLEAN
    /\ disk \in [queue : Seq(Opps), cursor : Nat, pel : SUBSET Opps,
                 results : [Orders -> StatusOrNone], halt : BOOLEAN]
    /\ trades \in [Orders -> StatusOrNone]
    /\ ledger \in [Orders -> Nat]
    /\ executed \in SUBSET Opps
    /\ orders \in [Orders -> Nat]
    /\ pc \in Working \cup {"down", "idle"}
    /\ msg \in Opps \cup {"none"}
    /\ leg \in Nat \ {0}
    /\ res \in StatusOrNone
    /\ okLegs \in Nat
    /\ crashes \in Nat
    /\ redisCrashes \in Nat
    /\ afterHalt \in Nat

Init ==
    /\ queue = <<>> /\ cursor = 0 /\ pel = {}
    /\ results = [c \in Orders |-> "none"]
    /\ halt = FALSE
    /\ disk = RedisState
    /\ trades = [c \in Orders |-> "none"]
    /\ ledger = [c \in Orders |-> 0]
    /\ executed = {}
    /\ orders = [c \in Orders |-> 0]
    /\ pc = "down" /\ msg = "none" /\ leg = 1 /\ res = "none" /\ okLegs = 0
    /\ crashes = 0 /\ redisCrashes = 0 /\ afterHalt = 0

-----------------------------------------------------------------------------
(* The services around the executor, and the operator. *)

\* The risk engine queues an approved opportunity.  Its id is fresh; after a
\* roll-back of Redis an opportunity whose entry was lost may be queued again.
Approve(o) ==
    /\ ~ InQueue(queue, o)
    /\ queue' = Append(queue, o)
    /\ UNCHANGED <<cursor, pel, results, halt, disk, dbVars, orders, taskVars,
                   boundVars, afterHalt>>

\* POST /control/kill and POST /control/reset, as the executor sees them.
Kill ==
    /\ ~ halt
    /\ halt' = TRUE
    /\ afterHalt' = 0
    /\ UNCHANGED <<queue, cursor, pel, results, disk, dbVars, orders,
                   taskVars, boundVars>>

Reset ==
    /\ halt
    /\ halt' = FALSE
    /\ afterHalt' = 0
    /\ UNCHANGED <<queue, cursor, pel, results, disk, dbVars, orders,
                   taskVars, boundVars>>

\* A recorded result reaches its TTL, or Redis evicts it.
Expire(c) ==
    /\ CacheFails
    /\ results[c] # "none"
    /\ results' = [results EXCEPT ![c] = "none"]
    /\ UNCHANGED <<queue, cursor, pel, halt, disk, dbVars, orders, taskVars,
                   boundVars, afterHalt>>

\* The append-only file catches up with Redis.
Fsync ==
    /\ redisCrashes < MaxRedisCrashes
    /\ disk' = RedisState
    /\ UNCHANGED <<redisVars, dbVars, orders, taskVars, boundVars, afterHalt>>

-----------------------------------------------------------------------------
(* The consumer task. *)

\* A variant of NewTask that counts legs from 0.
NewTaskFromZero(state, o) ==
    pc' = state /\ msg' = o /\ leg' = 0 /\ res' = "none" /\ okLegs' = 0

NewTask(state, o) ==
    pc' = state /\ msg' = o /\ leg' = 1 /\ res' = "none" /\ okLegs' = 0

\* A variant of Abandon that takes the message up again at once.
AbandonAndRetry == NewTask("gate", msg)

\* The exception leaves _process: run() logs it and does not acknowledge.
Abandon == NewTask("idle", "none")

NextLeg ==
    /\ leg' = leg + 1
    /\ pc' = IF leg < LegCount[msg] THEN "size" ELSE "finish"
    /\ res' = "none"
    /\ UNCHANGED <<msg, okLegs>>

\* main.lifespan and the top of run(): the group exists (BUSYGROUP).
Start ==
    /\ pc = "down"
    /\ NewTask("idle", "none")
    /\ UNCHANGED <<redisVars, disk, dbVars, orders, boundVars, afterHalt>>

\* XREADGROUP ... ">" COUNT 1: only entries never delivered to the group.
Read ==
    /\ pc = "idle"
    /\ cursor < Len(queue)
    /\ cursor' = cursor + 1
    /\ pel' = pel \cup {queue[cursor + 1]}
    /\ NewTask("gate", queue[cursor + 1])
    /\ UNCHANGED <<queue, results, halt, disk, dbVars, orders, boundVars, afterHalt>>

\* A variant of Gate that does not look at risk:halt again.
GateIgnoringHalt ==
    /\ pc = "gate"
    /\ \/ /\ LegCount[msg] = 0
          /\ pc' = "ack"
       \/ /\ LegCount[msg] > 0
          /\ pc' = "size"
    /\ UNCHANGED <<redisVars, disk, dbVars, orders, msg, leg, res, okLegs, boundVars, afterHalt>>

\* Parse the payload, look at the kill switch, build the order plan.
Gate ==
    /\ pc = "gate"
    /\ \/ /\ halt \/ LegCount[msg] = 0
          /\ pc' = "ack"
          /\ UNCHANGED <<msg, leg, res, okLegs>>
       \/ /\ ~ halt /\ LegCount[msg] > 0
          /\ pc' = "size"
          /\ UNCHANGED <<msg, leg, res, okLegs>>
       \/ Abandon                               \* GET risk:halt fails
    /\ UNCHANGED <<redisVars, disk, dbVars, orders, boundVars, afterHalt>>

\* Size the leg from the latest tick.  Without one, a rejected row is written
\* under a random id (best effort) and the leg is skipped.
Size ==
    /\ pc = "size"
    /\ \/ pc' = "recover" /\ UNCHANGED <<msg, leg, res, okLegs>>
       \/ NextLeg
       \/ Abandon                               \* HGETALL of the tick fails
    /\ UNCHANGED <<redisVars, disk, dbVars, orders, boundVars, afterHalt>>

\* fills_ok += 1 if result.status == "filled", then persist.
ToPersist(status) ==
    /\ pc' = "persist"
    /\ res' = status
    /\ okLegs' = IF status \in CountsAsFilled THEN okLegs + 1 ELSE okLegs

\* A variant of Recover that never finds a recorded result.
RecoverNothing ==
    /\ pc = "recover"
    /\ pc' = "submit"
    /\ UNCHANGED <<redisVars, disk, dbVars, orders, msg, leg, res, okLegs, boundVars, afterHalt>>

\* A result recorded under the leg's client_order_id is reused, never
\* resubmitted.  A failing GET counts as nothing recorded.
Recover ==
    /\ pc = "recover"
    /\ \/ /\ results[ClientOrderId] # "none"
          /\ ToPersist(results[ClientOrderId])
       \/ /\ results[ClientOrderId] = "none" \/ CacheFails
          /\ pc' = "submit"
          /\ UNCHANGED <<res, okLegs>>
    /\ UNCHANGED <<redisVars, disk, dbVars, orders, msg, leg, boundVars, afterHalt>>

\* A variant of Send that retries the call when the first reply is late.
SendTwice ==
    /\ pc = "submit"
    /\ pc' = "reply"
    /\ \E n \in 1 .. 2 : orders' = [orders EXCEPT ![ClientOrderId] = @ + n]
    /\ res' = "filled"
    /\ afterHalt' = IF halt THEN afterHalt + 1 ELSE 0
    /\ UNCHANGED <<redisVars, disk, dbVars, msg, leg, okLegs, boundVars>>

\* adapter.execute: the venue executes the order or it does not (an unknown
\* venue, a refusal, a request that never arrives).
Send ==
    /\ pc = "submit"
    /\ pc' = "reply"
    /\ \/ /\ orders' = [orders EXCEPT ![ClientOrderId] = @ + 1]
          /\ res' = "filled"
       \/ /\ res' = "rejected"
          /\ UNCHANGED orders
    /\ afterHalt' = IF halt THEN afterHalt + 1 ELSE 0
    /\ UNCHANGED <<redisVars, disk, dbVars, msg, leg, okLegs, boundVars>>

\* A variant of Reported that takes a refusal for a fill.
ReportedOptimistic == [filled   |-> {"filled", "unpriced", "error"},
                       rejected |-> {"filled", "rejected", "error"}]

\* What the adapter may return, given what the venue did.  A timeout, a
\* dropped connection or a reply it cannot parse is "error" either way.
Reported == [filled   |-> {"filled", "unpriced", "error"},
             rejected |-> {"rejected", "unpriced", "error"}]

Reply ==
    /\ pc = "reply"
    /\ pc' = "record"
    /\ res' \in Reported[res]
    /\ UNCHANGED <<redisVars, disk, dbVars, orders, msg, leg, okLegs, boundVars, afterHalt>>

\* SET executor:result:<id> (best effort).
Record ==
    /\ pc = "record"
    /\ \/ results' = [results EXCEPT ![ClientOrderId] = res]
       \/ UNCHANGED results
    /\ ToPersist(res)
    /\ UNCHANGED <<queue, cursor, pel, halt, disk, dbVars, orders, msg, leg, boundVars, afterHalt>>

\* A variant of InsertTrade that moves the position even when the row is there.
InsertTradeAlwaysMoves(c, status) ==
    /\ trades' = [trades EXCEPT ![c] = IF @ = "none" THEN status ELSE @]
    /\ ledger' = [ledger EXCEPT ![c] = IF IsFill(status) THEN @ + 1 ELSE @]

\* A variant of InsertTrade that loses the row of anything but a fill.
InsertTradeFillsOnly(c, status) ==
    IF trades[c] = "none" /\ IsFill(status)
    THEN /\ trades' = [trades EXCEPT ![c] = status]
         /\ ledger' = [ledger EXCEPT ![c] = @ + 1]
    ELSE UNCHANGED <<trades, ledger>>

\* persist_trade, one transaction: INSERT ... ON CONFLICT DO NOTHING, and the
\* position is moved only by a fill whose row was new.
InsertTrade(c, status) ==
    IF trades[c] = "none"
    THEN /\ trades' = [trades EXCEPT ![c] = status]
         /\ ledger' = IF IsFill(status) THEN [ledger EXCEPT ![c] = @ + 1] ELSE ledger
    ELSE UNCHANGED <<trades, ledger>>

\* The row is written before the message can be acknowledged; a database error
\* is raised again, also when the commit got through and its reply did not.
Persist ==
    /\ pc = "persist"
    /\ \/ /\ InsertTrade(ClientOrderId, res)
          /\ NextLeg
       \/ UNCHANGED <<trades, ledger>> /\ Abandon
       \/ InsertTrade(ClientOrderId, res) /\ Abandon
    /\ UNCHANGED <<redisVars, disk, executed, orders, boundVars, afterHalt>>

\* A variant of Finish that marks the opportunity before looking at its fills.
FinishUnchecked ==
    /\ pc = "finish"
    /\ executed' = executed \cup {msg}
    /\ pc' = "ack"
    /\ UNCHANGED <<redisVars, disk, trades, ledger, orders, msg, leg, res, okLegs, boundVars, afterHalt>>

\* Mark the opportunity executed once anything filled (best effort).
Finish ==
    /\ pc = "finish"
    /\ \/ okLegs > 0 /\ executed' = executed \cup {msg}
       \/ UNCHANGED executed
    /\ pc' = "ack"
    /\ UNCHANGED <<redisVars, disk, trades, ledger, orders, msg, leg, res, okLegs, boundVars, afterHalt>>

\* XACK; its failure is only logged.
Ack ==
    /\ pc = "ack"
    /\ \/ pel' = pel \ {msg}
       \/ UNCHANGED pel
    /\ NewTask("idle", "none")
    /\ UNCHANGED <<queue, cursor, results, halt, disk, dbVars, orders, boundVars, afterHalt>>

\* The process stops, or its task is cancelled by a shutdown, at any await.
\* The message in hand stays in the pending list.
Crash ==
    /\ pc # "down"
    /\ crashes < MaxCrashes
    /\ crashes' = crashes + 1
    /\ NewTask("down", "none")
    /\ UNCHANGED <<redisVars, disk, dbVars, orders, redisCrashes, afterHalt>>

\* Redis stops, alone or with its host, and comes back as its append-only file
\* has it; a surviving executor goes on with the message it has in hand.
RedisCrash ==
    /\ redisCrashes < MaxRedisCrashes
    /\ redisCrashes' = redisCrashes + 1
    /\ queue' = disk.queue
    /\ cursor' = disk.cursor
    /\ pel' = disk.pel
    /\ results' = disk.results
    /\ halt' = disk.halt
    /\ afterHalt' = IF disk.halt THEN afterHalt ELSE 0
    /\ \/ UNCHANGED taskVars
       \/ NewTask("down", "none")
    /\ UNCHANGED <<disk, dbVars, orders, crashes>>

TaskStep == \/ Start \/ Read \/ Gate \/ Size \/ Recover \/ Send \/ Reply
            \/ Record \/ Persist \/ Finish \/ Ack

Next ==
    \/ \E o \in Opps : Approve(o)
    \/ \E c \in Orders : Expire(c)
    \/ Kill \/ Reset \/ Fsync
    \/ TaskStep
    \/ Crash \/ RedisCrash

Spec == Init /\ [][Next]_vars

\* The event loop runs the task whenever it can go on, and the container is
\* restarted (restart: unless-stopped); nothing else is fair.
FairSpec == Spec /\ WF_vars(TaskStep)

-----------------------------------------------------------------------------
(* Properties *)

\* A position has been moved exactly once for every booked fill, and never for
\* anything else, whatever is replayed (db.persist_trade: "fills are never
\* double-counted", "a trade row and its position effect are always consistent").
FillsBookedOnce ==
    \A c \in Orders : ledger[c] = IF trades[c] = "filled" THEN 1 ELSE 0

\* A fill in the books, or in the replay cache, even the one on disk, is a
\* fill of an order that a venue executed (the replay path of _execute_leg).
NoPhantomFill ==
    \A c \in Orders :
        "filled" \in {trades[c], results[c], disk.results[c]} => orders[c] > 0

\* Within one life of Redis a leg is sent at most once, whatever crashes, fails
\* or is expired: only a roll-back of Redis can cause another order (run's
\* XREADGROUP ">", the deterministic client_order_id).
OrdersBounded == \A c \in Orders : orders[c] <= 1 + redisCrashes

\* While the replay cache keeps what it was told and can be read, an order whose
\* result Redis holds is never sent again: a message that a roll-back delivers
\* once more while the executor still works on it finds what was recorded
\* (_execute_leg: "reusing recorded result - order NOT resubmitted").
ResultReused ==
    [][\A c \in Orders :
          ~ CacheFails /\ results[c] # "none" => orders'[c] = orders[c]]_vars

\* An acknowledged message leaves no executed order out of the trades table
\* (consumer.py:32 "All fills are written to the DB before the stream message
\* is ACK'd"), as long as Redis has not been rolled back.
Acked(o) == Delivered(o) /\ o \notin pel
BookedBeforeAck ==
    redisCrashes = 0 =>
        \A o \in Opps, l \in Legs :
            Acked(o) /\ orders[<<o, l>>] > 0 => trades[<<o, l>>] # "none"

\* After a kill, at most the legs of the one message in hand are still sent
\* (_process re-reads risk:halt once per message, not once per leg).
HaltOvershoot == halt => afterHalt <= MaxLegs

\* The journal's funnel shows an opportunity as executed only if one of its
\* legs has a trades row that says so (mark_opportunity_executed), as long as
\* Redis has not been rolled back.
ExecutedIsBooked ==
    redisCrashes = 0 =>
        \A o \in executed : \E l \in Legs : trades[<<o, l>>] \in CountsAsFilled

\* Every queued opportunity is eventually taken up: a failed call, a message
\* left pending or a crash never wedges the loop of run().
QueueDrains == cursor < Len(queue) ~> cursor = Len(queue)

\* What the documentation of consumer.py:34 asks for: a fill whose booking
\* failed is redelivered, so it is booked in the end.
FilledIsBooked ==
    \A c \in Orders : orders[c] > 0 ~> trades[c] # "none"

\* What db.py:10 says of replays ("For every FILLED leg, the fill is applied to
\* the position"): the row a fill runs into, if any, is a row of a fill.
RowIsThisFill ==
    pc = "persist" /\ IsFill(res) => trades[ClientOrderId] \in {"none", "filled"}
=============================================================================
