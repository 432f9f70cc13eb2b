--------------------------- MODULE ExecutorProofs ---------------------------
(***************************************************************************)
(* Proofs about Executor, for every set of opportunities, every plan and   *)
(* every bound on crashes; at the end, what an acknowledgement and the     *)
(* mark "executed" say about the books, as long as Redis has not been      *)
(* rolled back: then every message is delivered once, and a leg's row is   *)
(* written by the one attempt at its order.                                *)
(***************************************************************************)
EXTENDS Executor, TLAPS

\* Each opportunity is in the stream at most once, and the group has read no
\* further than the stream goes; the same holds of the copy on disk.
Distinct(q) == \A i, j \in Positions(q) : q[i] = q[j] => i = j

StreamOK == /\ cursor <= Len(queue) /\ Distinct(queue)
            /\ disk.cursor <= Len(disk.queue) /\ Distinct(disk.queue)

\* What the task knows at each of its steps.
LegSteps == BeforeSend \cup AfterSend

TaskOK == /\ pc \in Working => msg \in Opps
          /\ pc = "gate" => leg = 1
          /\ pc \in LegSteps => leg <= LegCount[msg]
          /\ pc = "reply" => res \in {"filled", "rejected"}
          /\ pc \in {"record", "persist"} => res \in Status

TypeInv == TypeOK /\ StreamOK /\ TaskOK

\* At the steps of a leg, the leg's client_order_id is one of Orders.
LEMMA OrderType ==
    ASSUME TypeInv, pc \in LegSteps
    PROVE  msg \in Opps /\ leg \in Legs /\ ClientOrderId \in Orders
BY LegsAssumption
   DEF TypeInv, TypeOK, TaskOK, Working, LegSteps, BeforeSend, AfterSend, ClientOrderId, Orders, Legs

\* Writing a status under a client_order_id keeps a table a table.
LEMMA StatusUpdate ==
    ASSUME NEW f \in [Orders -> StatusOrNone], NEW c \in Orders, NEW s \in Status
    PROVE  [f EXCEPT ![c] = s] \in [Orders -> StatusOrNone]
BY DEF StatusOrNone

LEMMA TypeInit == Init => TypeInv
<1> SUFFICES ASSUME Init PROVE TypeInv
  OBVIOUS
<1>1. TypeOK
  <2>1. results \in [Orders -> StatusOrNone] /\ queue \in Seq(Opps)
    BY DEF Init, StatusOrNone
  <2>2. disk \in [queue : Seq(Opps), cursor : Nat, pel : SUBSET Opps,
                  results : [Orders -> StatusOrNone], halt : BOOLEAN]
    BY <2>1 DEF Init, RedisState
  <2>3. trades \in [Orders -> StatusOrNone] /\ ledger \in [Orders -> Nat]
        /\ orders \in [Orders -> Nat]
    BY DEF Init, StatusOrNone
  <2>4. halt \in BOOLEAN
    BY DEF Init
  <2>5. /\ cursor \in Nat /\ pel \in SUBSET Opps /\ executed \in SUBSET Opps
        /\ pc \in Working \cup {"down", "idle"}
        /\ msg \in Opps \cup {"none"}
        /\ leg \in Nat \ {0} /\ res \in StatusOrNone /\ okLegs \in Nat
        /\ crashes \in Nat /\ redisCrashes \in Nat /\ afterHalt \in Nat
    BY DEF Init, StatusOrNone, Working
  <2> QED
    BY <2>1, <2>2, <2>3, <2>4, <2>5 DEF TypeOK
<1>2. StreamOK
  BY DEF Init, StreamOK, RedisState, Distinct, Positions
<1>3. TaskOK
  BY DEF Init, TaskOK, Working, LegSteps, BeforeSend, AfterSend
<1> QED
  BY <1>1, <1>2, <1>3 DEF TypeInv

LEMMA TypeStep == TypeInv /\ [Next]_vars => TypeInv'
<1> SUFFICES ASSUME TypeInv, [Next]_vars PROVE TypeInv'
  OBVIOUS
<1> USE LegsAssumption, BoundsAssumption
<1>1. ASSUME NEW o \in Opps, Approve(o) PROVE TypeInv'
  <2>1. TypeOK'
    <3>1. queue' \in Seq(Opps)
      <4>1. queue \in Seq(Opps) /\ queue' = Append(queue, o)
        BY <1>1 DEF Approve, TypeInv, TypeOK
      <4> QED
        BY <4>1
    <3>2. UNCHANGED <<cursor, pel, results, halt, disk, dbVars, orders, taskVars, boundVars, afterHalt>>
      BY <1>1 DEF Approve
    <3> QED
      BY <3>1, <3>2 DEF TypeInv, TypeOK, dbVars, taskVars, boundVars
  <2>2. StreamOK'
    <3>1. /\ queue \in Seq(Opps) /\ cursor \in Nat /\ queue' = Append(queue, o) /\ cursor' = cursor /\ disk' = disk
          /\ ~InQueue(queue, o) /\ StreamOK
      BY <1>1 DEF Approve, TypeInv, TypeOK
    <3>2. /\ Len(queue) \in Nat /\ Len(queue') = Len(queue) + 1 /\ queue'[Len(queue) + 1] = o
          /\ \A i \in 1 .. Len(queue) : queue'[i] = queue[i]
      BY <3>1
    <3>3. cursor' <= Len(queue')
      BY <3>1, <3>2 DEF StreamOK
    <3>4. Distinct(queue')
      <4>1. \A i \in 1 .. Len(queue) + 1 : i \in 1 .. Len(queue) \/ i = Len(queue) + 1
        BY <3>2
      <4>2. \A i \in 1 .. Len(queue) : queue'[i] # o
        BY <3>1, <3>2 DEF InQueue, Positions
      <4>3. \A i, j \in 1 .. Len(queue) : queue'[i] = queue'[j] => i = j
        BY <3>1, <3>2 DEF StreamOK, Distinct, Positions
      <4> QED
        BY <3>2, <4>1, <4>2, <4>3 DEF Distinct, Positions
    <3> QED
      BY <3>1, <3>3, <3>4 DEF StreamOK
  <2>3. TaskOK'
    BY <1>1 DEF Approve, TypeInv, TaskOK, taskVars
  <2> QED
    BY <2>1, <2>2, <2>3 DEF TypeInv
<1>2. ASSUME NEW c \in Orders, Expire(c) PROVE TypeInv'
  BY <1>2 DEF Expire, TypeInv, TypeOK, StreamOK, TaskOK, StatusOrNone,
              dbVars, taskVars, boundVars
<1>3. CASE Kill \/ Reset
  <2>1. TypeOK'
    <3>1. halt' \in BOOLEAN
      BY <1>3 DEF Kill, Reset
    <3>2. afterHalt' = 0
      BY <1>3 DEF Kill, Reset
    <3>3. UNCHANGED <<queue, cursor, pel, results, disk, dbVars, orders, taskVars, boundVars>>
      BY <1>3 DEF Kill, Reset
    <3> QED
      BY <3>1, <3>2, <3>3 DEF TypeInv, TypeOK, dbVars, taskVars, boundVars
  <2>2. StreamOK'
    BY <1>3 DEF Kill, Reset, TypeInv, StreamOK
  <2>3. TaskOK'
    BY <1>3 DEF Kill, Reset, TypeInv, TaskOK, taskVars
  <2> QED
    BY <2>1, <2>2, <2>3 DEF TypeInv
<1>4. CASE Fsync
  BY <1>4 DEF Fsync, RedisState, TypeInv, TypeOK, StreamOK, TaskOK,
              redisVars, dbVars, taskVars, boundVars
<1>5. CASE Start \/ Crash
  <2>1. TypeOK'
    BY <1>5 DEF Start, Crash, NewTask, TypeInv, TypeOK, StatusOrNone, redisVars, dbVars, boundVars
  <2>2. StreamOK'
    BY <1>5 DEF Start, Crash, TypeInv, StreamOK, redisVars
  <2>3. TaskOK'
    BY <1>5 DEF Start, Crash, NewTask, TaskOK, Working, LegSteps, BeforeSend, AfterSend
  <2> QED
    BY <2>1, <2>2, <2>3 DEF TypeInv
<1>6. CASE Read
  BY <1>6 DEF Read, NewTask, TypeInv, TypeOK, StreamOK, TaskOK, Working, LegSteps,
              BeforeSend, AfterSend, StatusOrNone, redisVars, dbVars, boundVars
<1>7. CASE Gate
  <2>1. TypeOK'
    BY <1>7 DEF Gate, Abandon, NewTask, TypeInv, TypeOK, Working, StatusOrNone, redisVars, dbVars, boundVars
  <2>2. StreamOK'
    BY <1>7 DEF Gate, TypeInv, StreamOK, redisVars
  <2>3. TaskOK'
    BY <1>7 DEF Gate, Abandon, NewTask, TypeInv, TypeOK, TaskOK, redisVars, Working, LegSteps, BeforeSend, AfterSend
  <2> QED
    BY <2>1, <2>2, <2>3 DEF TypeInv
<1>8. CASE Size
  <2>1. TypeOK'
    BY <1>8 DEF Size, Abandon, NewTask, NextLeg, TypeInv, TypeOK, Working, StatusOrNone,
                redisVars, dbVars, boundVars
  <2>2. StreamOK'
    BY <1>8 DEF Size, TypeInv, StreamOK, redisVars
  <2>3. TaskOK'
    <3>1. LegCount[msg] \in Nat /\ msg \in Opps /\ leg \in Nat /\ leg <= LegCount[msg]
      BY <1>8, OrderType DEF Size, LegSteps, BeforeSend, TypeInv, TypeOK, TaskOK
    <3> QED
      BY <1>8, <3>1 DEF Size, Abandon, NewTask, NextLeg, TaskOK,
                              Working, LegSteps, BeforeSend, AfterSend
  <2> QED
    BY <2>1, <2>2, <2>3 DEF TypeInv
<1>9. CASE Recover
  <2>1. results[ClientOrderId] # "none" => results[ClientOrderId] \in Status
    BY <1>9, OrderType DEF Recover, LegSteps, BeforeSend, TypeInv, TypeOK, StatusOrNone
  <2>2. \/ pc' = "persist" /\ res' \in Status /\ okLegs' \in Nat
        \/ pc' = "submit" /\ res' = res /\ okLegs' = okLegs
    <3>1. okLegs \in Nat
      BY DEF TypeInv, TypeOK
    <3> QED
      BY <1>9, <2>1, <3>1 DEF Recover, ToPersist
  <2>3. UNCHANGED <<redisVars, disk, dbVars, orders, msg, leg, boundVars, afterHalt>>
    BY <1>9 DEF Recover
  <2>4. TypeOK'
    BY <2>2, <2>3 DEF TypeInv, TypeOK, Working, StatusOrNone, redisVars, dbVars, boundVars
  <2>5. StreamOK'
    BY <2>3 DEF TypeInv, StreamOK, redisVars
  <2>6. TaskOK'
    BY <1>9, <2>2, <2>3 DEF Recover, TypeInv, TaskOK, redisVars,
                            Working, LegSteps, BeforeSend, AfterSend
  <2> QED
    BY <2>4, <2>5, <2>6 DEF TypeInv
<1>10. CASE Send
  <2>1. TypeOK'
    <3>1. ClientOrderId \in Orders
      BY <1>10, OrderType DEF Send, LegSteps, BeforeSend
    <3>2. orders' \in [Orders -> Nat]
      <4>1. orders \in [Orders -> Nat]
        BY DEF TypeInv, TypeOK
      <4>2. orders' = [orders EXCEPT ![ClientOrderId] = @ + 1] \/ orders' = orders
        BY <1>10 DEF Send
      <4> QED
        BY <3>1, <4>1, <4>2
    <3>3. pc' = "reply" /\ res' \in Status /\ afterHalt' \in Nat
      BY <1>10 DEF Send, Status, TypeInv, TypeOK
    <3>4. UNCHANGED <<redisVars, disk, dbVars, msg, leg, okLegs, boundVars>>
      BY <1>10 DEF Send
    <3> QED
      BY <3>2, <3>3, <3>4 DEF TypeInv, TypeOK, StatusOrNone, redisVars, dbVars, boundVars, Working
  <2>2. StreamOK'
    BY <1>10 DEF Send, TypeInv, StreamOK, redisVars
  <2>3. TaskOK'
    BY <1>10 DEF Send, TypeInv, TaskOK, redisVars, Working, LegSteps, BeforeSend, AfterSend
  <2> QED
    BY <2>1, <2>2, <2>3 DEF TypeInv
<1>11. CASE Reply
  BY <1>11 DEF Reply, Reported, TypeInv, TypeOK, StreamOK, TaskOK, Working,
              LegSteps, BeforeSend, AfterSend, StatusOrNone, Status, redisVars, dbVars, boundVars
<1>12. CASE Record
  <2>1. TypeOK'
    <3>1. res \in Status /\ ClientOrderId \in Orders
      BY <1>12, OrderType DEF Record, TypeInv, TaskOK, LegSteps, AfterSend
    <3>2. results' \in [Orders -> StatusOrNone]
      <4>1. results \in [Orders -> StatusOrNone]
        BY DEF TypeInv, TypeOK
      <4>2. results' = [results EXCEPT ![ClientOrderId] = res] \/ results' = results
        BY <1>12 DEF Record
      <4> QED
        BY <3>1, <4>1, <4>2, StatusUpdate
    <3>3. pc' = "persist" /\ res' = res /\ okLegs' \in Nat
      BY <1>12 DEF Record, ToPersist, TypeInv, TypeOK
    <3>4. UNCHANGED <<queue, cursor, pel, halt, disk, dbVars, orders, msg, leg, boundVars, afterHalt>>
      BY <1>12 DEF Record
    <3> QED
      BY <3>1, <3>2, <3>3, <3>4 DEF TypeInv, TypeOK, StatusOrNone, dbVars, boundVars, Working
  <2>2. StreamOK'
    BY <1>12 DEF Record, TypeInv, StreamOK
  <2>3. TaskOK'
    BY <1>12 DEF Record, ToPersist, TypeInv, TaskOK, Working, LegSteps, BeforeSend, AfterSend
  <2> QED
    BY <2>1, <2>2, <2>3 DEF TypeInv
<1>13. CASE Persist
  <2>1. TypeOK'
    <3>1. res \in Status /\ ClientOrderId \in Orders
      BY <1>13, OrderType DEF Persist, TypeInv, TaskOK, LegSteps, AfterSend
    <3>2. trades' \in [Orders -> StatusOrNone] /\ ledger' \in [Orders -> Nat]
      <4>1. CASE UNCHANGED <<trades, ledger>>
        BY <4>1 DEF TypeInv, TypeOK
      <4>2. CASE InsertTrade(ClientOrderId, res)
        <5>1. trades' = [trades EXCEPT ![ClientOrderId] = res] \/ trades' = trades
          BY <4>2 DEF InsertTrade
        <5>2. \/ ledger' = [ledger EXCEPT ![ClientOrderId] = @ + 1]
              \/ ledger' = ledger
          BY <4>2 DEF InsertTrade
        <5>3. trades \in [Orders -> StatusOrNone] /\ ledger \in [Orders -> Nat]
          BY DEF TypeInv, TypeOK
        <5>4. trades' \in [Orders -> StatusOrNone]
          BY <3>1, <5>1, <5>3, StatusUpdate
        <5>5. ledger' \in [Orders -> Nat]
          BY <3>1, <5>2, <5>3
        <5> QED
          BY <5>4, <5>5
      <4> QED
        BY <1>13, <4>1, <4>2 DEF Persist
    <3>3. /\ pc' \in {"size", "finish", "idle"} /\ leg' \in Nat \ {0}
          /\ msg' \in Opps \cup {"none"} /\ res' = "none" /\ okLegs' \in Nat
      BY <1>13 DEF Persist, Abandon, NewTask, NextLeg, TypeInv, TypeOK
    <3>4. UNCHANGED <<redisVars, disk, executed, orders, boundVars, afterHalt>>
      BY <1>13 DEF Persist
    <3> QED
      BY <3>2, <3>3, <3>4 DEF TypeInv, TypeOK, StatusOrNone, redisVars, boundVars, Working
  <2>2. StreamOK'
    BY <1>13 DEF Persist, TypeInv, StreamOK, redisVars
  <2>3. TaskOK'
    BY <1>13, OrderType DEF Persist, Abandon, NewTask, NextLeg, TypeInv, TypeOK, TaskOK, redisVars, Working, LegSteps, BeforeSend, AfterSend
  <2> QED
    BY <2>1, <2>2, <2>3 DEF TypeInv
<1>14. CASE Finish
  BY <1>14 DEF Finish, TypeInv, TypeOK, StreamOK, TaskOK, Working,
              LegSteps, BeforeSend, AfterSend, redisVars, boundVars
<1>15. CASE Ack
  BY <1>15 DEF Ack, NewTask, TypeInv, TypeOK, StreamOK, TaskOK, Working,
              LegSteps, BeforeSend, AfterSend, StatusOrNone, dbVars, boundVars
<1>16. CASE RedisCrash
  <2>1. TypeOK'
    <3>1. /\ queue' \in Seq(Opps) /\ cursor' \in Nat /\ pel' \in SUBSET Opps
          /\ results' \in [Orders -> StatusOrNone]
      BY <1>16 DEF RedisCrash, TypeInv, TypeOK
    <3>2. halt' \in BOOLEAN
      <4>1. halt' = disk.halt
        BY <1>16 DEF RedisCrash
      <4>2. disk.halt \in BOOLEAN
        BY DEF TypeInv, TypeOK
      <4> QED
        BY <4>1, <4>2
    <3>3. afterHalt' \in Nat /\ redisCrashes' \in Nat
      BY <1>16 DEF RedisCrash, TypeInv, TypeOK
    <3>4. /\ pc' \in Working \cup {"down", "idle"} /\ msg' \in Opps \cup {"none"}
          /\ leg' \in Nat \ {0} /\ res' \in StatusOrNone /\ okLegs' \in Nat
      BY <1>16 DEF RedisCrash, NewTask, taskVars, TypeInv, TypeOK, StatusOrNone
    <3>5. UNCHANGED <<disk, dbVars, orders, crashes>>
      BY <1>16 DEF RedisCrash
    <3> QED
      BY <3>1, <3>2, <3>3, <3>4, <3>5 DEF TypeInv, TypeOK, dbVars
  <2>2. StreamOK'
    BY <1>16 DEF RedisCrash, TypeInv, StreamOK
  <2>3. TaskOK'
    BY <1>16 DEF RedisCrash, NewTask, TypeInv, TaskOK, taskVars,
                 Working, LegSteps, BeforeSend, AfterSend
  <2> QED
    BY <2>1, <2>2, <2>3 DEF TypeInv
<1>17. CASE UNCHANGED vars
  BY <1>17 DEF vars, TypeInv, TypeOK, StreamOK, TaskOK,
              redisVars, dbVars, taskVars, boundVars
<1> QED
  BY <1>1, <1>2, <1>3, <1>4, <1>5, <1>6, <1>7, <1>8, <1>9, <1>10, <1>11, <1>12,
     <1>13, <1>14, <1>15, <1>16, <1>17 DEF Next, TaskStep

LEMMA TypeInvariant == Spec => []TypeInv
BY TypeInit, TypeStep, PTL DEF Spec

\* Every variable keeps its type (redis, Postgres and the task's own state).
THEOREM TypeCorrect == Spec => []TypeOK
<1>1. TypeInv => TypeOK
  BY DEF TypeInv
<1> QED
  BY <1>1, TypeInvariant, PTL

-----------------------------------------------------------------------------
(***************************************************************************)
(* OrdersBounded.  An order can be sent again only after a roll-back has   *)
(* made its message undelivered; so what has not been sent in this life of *)
(* Redis was executed at most once per earlier life, and once less if the  *)
(* message in hand, not sent yet, is still to be delivered again.          *)
(***************************************************************************)
NotSentYet(l) == \/ pc = "gate"
                 \/ pc \in BeforeSend /\ l >= leg
                 \/ pc \in AfterSend /\ l > leg

OrdersInv ==
    /\ OrdersBounded
    /\ \A o \in Opps, l \in Legs : ~ Delivered(o) => orders[<<o, l>>] <= redisCrashes
    /\ \A l \in Legs : NotSentYet(l) => orders[<<msg, l>>] <= redisCrashes
    /\ \A l \in Legs : NotSentYet(l) /\ ~ Delivered(msg) => orders[<<msg, l>>] < redisCrashes

\* The steps between sends only ever leave fewer legs to send.
Quiet ==
    /\ UNCHANGED <<queue, cursor, orders, redisCrashes>>
    /\ \A l \in Legs : NotSentYet(l)' => NotSentYet(l) /\ msg' = msg

LEMMA QuietSteps ==
    ASSUME TypeInv, TypeInv', [Next]_vars
    PROVE  \/ Quiet \/ Read \/ Send \/ RedisCrash
           \/ \E o \in Opps : Approve(o)
<1> USE DEF Quiet, NotSentYet, Working, BeforeSend, AfterSend
<1>1. ASSUME NEW c \in Orders, Expire(c) PROVE Quiet
  BY <1>1 DEF Expire, taskVars, boundVars
<1>2. CASE Kill \/ Reset
  BY <1>2 DEF Kill, Reset, taskVars, boundVars
<1>3. CASE Fsync
  BY <1>3 DEF Fsync, redisVars, taskVars, boundVars
<1>4. CASE Start \/ Crash
  BY <1>4 DEF Start, Crash, NewTask, redisVars, boundVars
<1>5. CASE Gate
  BY <1>5 DEF Gate, Abandon, NewTask, redisVars, boundVars
<1>6. CASE Size
  BY <1>6 DEF Size, Abandon, NewTask, NextLeg, redisVars, boundVars, TypeInv, TypeOK, Legs
<1>7. CASE Recover
  BY <1>7 DEF Recover, ToPersist, redisVars, boundVars, TypeInv, TypeOK, Legs
<1>8. CASE Reply
  BY <1>8 DEF Reply, redisVars, boundVars
<1>9. CASE Record
  BY <1>9 DEF Record, ToPersist, boundVars
<1>10. CASE Persist
  BY <1>10 DEF Persist, Abandon, NewTask, NextLeg, redisVars, boundVars, TypeInv, TypeOK, Legs
<1>11. CASE Finish
  BY <1>11 DEF Finish, redisVars, boundVars
<1>12. CASE Ack
  BY <1>12 DEF Ack, NewTask, boundVars
<1>13. CASE UNCHANGED vars
  BY <1>13 DEF vars, redisVars, taskVars, boundVars
<1> QED
  BY <1>1, <1>2, <1>3, <1>4, <1>5, <1>6, <1>7, <1>8, <1>9, <1>10, <1>11, <1>12, <1>13
  DEF Next, TaskStep

\* Only a message in hand has legs still to send.
LEMMA NotSentYetWorking ==
    ASSUME NEW l \in Legs, NotSentYet(l)
    PROVE  pc \in Working
BY DEF NotSentYet, Working, BeforeSend, AfterSend

\* What a longer stream adds is not delivered.
LEMMA ApproveDelivers ==
    ASSUME TypeInv, NEW o \in Opps, Approve(o), NEW p \in Opps
    PROVE  Delivered(p)' <=> Delivered(p)
<1>1. /\ cursor' = cursor /\ cursor \in Nat /\ cursor <= Len(queue)
      /\ queue \in Seq(Opps) /\ queue' = Append(queue, o)
  BY DEF Approve, TypeInv, TypeOK, StreamOK
<1>2. Len(queue') = Len(queue) + 1 /\ \A i \in 1 .. Len(queue) : queue'[i] = queue[i]
  BY <1>1
<1>3. Len(queue) \in Nat
  BY <1>1
<1>4. \A i \in 1 .. Len(queue') : i <= cursor => i \in 1 .. Len(queue)
  BY <1>1, <1>2, <1>3
<1>5. \A i \in 1 .. Len(queue) : i \in 1 .. Len(queue')
  BY <1>2, <1>3
<1> QED
  BY <1>1, <1>2, <1>4, <1>5 DEF Delivered, DeliveredIn, Positions

\* The same for the message in hand.
LEMMA DeliveredInHand ==
    ASSUME TypeInv, NEW o \in Opps, Approve(o), msg \in Opps
    PROVE  Delivered(msg)' <=> Delivered(msg)
<1>1. PICK p \in Opps : p = msg
  OBVIOUS
<1>2. Delivered(p)' <=> Delivered(p)
  BY ApproveDelivers
<1>3. msg' = msg
  BY DEF Approve, taskVars
<1> QED
  BY <1>1, <1>2, <1>3 DEF Delivered, DeliveredIn

LEMMA OrdersStep == TypeInv /\ TypeInv' /\ OrdersInv /\ [Next]_vars => OrdersInv'
<1> SUFFICES ASSUME TypeInv, TypeInv', OrdersInv, [Next]_vars PROVE OrdersInv'
  OBVIOUS
<1>1. CASE Quiet
  BY <1>1 DEF Quiet, OrdersInv, OrdersBounded, Delivered
<1>2. ASSUME NEW o \in Opps, Approve(o) PROVE OrdersInv'
  <2>1. /\ orders' = orders /\ redisCrashes' = redisCrashes
        /\ pc' = pc /\ leg' = leg /\ msg' = msg
    BY <1>2 DEF Approve, taskVars, boundVars
  <2>2. OrdersBounded'
    BY <2>1 DEF OrdersInv, OrdersBounded
  <2>3. \A p \in Opps : Delivered(p)' <=> Delivered(p)
    BY <1>2, ApproveDelivers
  <2>4. \A l \in Legs : NotSentYet(l)' => NotSentYet(l) /\ msg \in Opps
    BY <2>1, NotSentYetWorking DEF NotSentYet, TypeInv, TaskOK
  <2>5. \A l \in Legs : NotSentYet(l)' => (Delivered(msg)' <=> Delivered(msg))
    <3>1. ASSUME msg \in Opps PROVE Delivered(msg)' <=> Delivered(msg)
      BY <1>2, <3>1, DeliveredInHand
    <3> QED
      BY <2>4, <3>1
  <2> QED
    BY <2>1, <2>2, <2>3, <2>4, <2>5 DEF OrdersInv
<1>3. CASE Read
  <2>1. /\ orders' = orders /\ redisCrashes' = redisCrashes /\ msg' = queue[cursor + 1]
        /\ queue' = queue /\ cursor' = cursor + 1 /\ cursor < Len(queue)
    BY <1>3 DEF Read, NewTask, boundVars
  <2>2. msg' \in Opps /\ ~ Delivered(msg') /\ DeliveredIn(queue', cursor', msg')
    BY <2>1 DEF Delivered, DeliveredIn, Positions, Distinct, TypeInv, TypeOK, StreamOK
  <2>3. \A o \in Opps : Delivered(o) => Delivered(o)'
    BY <2>1 DEF Delivered, DeliveredIn, Positions, TypeInv, TypeOK
  <2> QED
    BY <2>1, <2>2, <2>3 DEF OrdersInv, OrdersBounded, Delivered
<1>4. CASE Send
  <2>1. ClientOrderId \in Orders /\ msg \in Opps /\ leg \in Legs /\ NotSentYet(leg)
    BY <1>4, OrderType DEF Send, LegSteps, BeforeSend, NotSentYet, TypeInv, TypeOK
  <2>2. /\ orders[ClientOrderId] <= redisCrashes
        /\ ~ Delivered(msg) => orders[ClientOrderId] < redisCrashes
    BY <2>1 DEF OrdersInv, ClientOrderId
  <2>3. /\ queue' = queue /\ cursor' = cursor /\ redisCrashes' = redisCrashes
        /\ leg' = leg /\ msg' = msg /\ pc' = "reply"
        /\ \A c \in Orders : \/ orders'[c] = orders[c]
                             \/ c = ClientOrderId /\ orders'[c] = orders[c] + 1
    BY <1>4, <2>1 DEF Send, redisVars, boundVars, TypeInv, TypeOK
  <2>4. redisCrashes \in Nat /\ \A c \in Orders : orders[c] \in Nat
    BY DEF TypeInv, TypeOK
  <2>5. OrdersBounded'
    <3>1. \A c \in Orders : orders[c] <= 1 + redisCrashes
      BY DEF OrdersInv, OrdersBounded
    <3> QED
      BY <2>1, <2>2, <2>3, <2>4, <3>1 DEF OrdersBounded
  <2>6. \A o \in Opps : Delivered(o)' <=> Delivered(o)
    BY <2>3 DEF Delivered
  <2>7. \A o \in Opps, l \in Legs : ~ Delivered(o)' => orders'[<<o, l>>] <= redisCrashes'
    <3> SUFFICES ASSUME NEW o \in Opps, NEW l \in Legs, ~ Delivered(o)
                 PROVE  orders'[<<o, l>>] <= redisCrashes
      BY <2>3, <2>6
    <3>1. <<o, l>> \in Orders /\ orders[<<o, l>>] <= redisCrashes
      BY DEF OrdersInv, Orders
    <3>2. <<o, l>> = ClientOrderId => orders[<<o, l>>] < redisCrashes
      BY <2>2 DEF ClientOrderId
    <3> QED
      BY <2>3, <2>4, <3>1, <3>2
  <2>8. \A l \in Legs : NotSentYet(l)' =>
            NotSentYet(l) /\ <<msg, l>> \in Orders /\ orders'[<<msg, l>>] = orders[<<msg, l>>]
    <3> SUFFICES ASSUME NEW l \in Legs, NotSentYet(l)'
                 PROVE  NotSentYet(l) /\ <<msg, l>> \in Orders /\ orders'[<<msg, l>>] = orders[<<msg, l>>]
      OBVIOUS
    <3>1. pc = "submit" /\ l > leg
      BY <1>4, <2>3 DEF Send, NotSentYet, BeforeSend, AfterSend
    <3>2. <<msg, l>> \in Orders /\ l # leg
      BY <2>1, <3>1 DEF Orders, Legs
    <3> QED
      BY <2>1, <2>3, <3>1, <3>2 DEF NotSentYet, BeforeSend, ClientOrderId, Legs
  <2> QED
    BY <2>1, <2>3, <2>5, <2>6, <2>7, <2>8 DEF OrdersInv, Delivered
<1>5. CASE RedisCrash
  <2>1. orders' = orders /\ redisCrashes' = redisCrashes + 1
    BY <1>5 DEF RedisCrash
  <2>2. redisCrashes \in Nat /\ \A c \in Orders : orders[c] \in Nat
    BY DEF TypeInv, TypeOK
  <2>3. \A c \in Orders : orders'[c] <= redisCrashes'
    BY <2>1, <2>2 DEF OrdersInv, OrdersBounded
  <2>4. OrdersBounded'
    BY <2>1, <2>2, <2>3 DEF OrdersBounded
  <2>5. \A o \in Opps, l \in Legs : orders'[<<o, l>>] <= redisCrashes'
    BY <2>3 DEF Orders
  <2>6. ASSUME NEW l \in Legs, NotSentYet(l)' PROVE orders'[<<msg', l>>] < redisCrashes'
    <3>1. NotSentYet(l) /\ msg' = msg
      BY <1>5, <2>6 DEF RedisCrash, NewTask, NotSentYet, BeforeSend, AfterSend, taskVars
    <3>2. msg \in Opps
      BY <3>1, NotSentYetWorking DEF TypeInv, TaskOK
    <3>3. <<msg, l>> \in Orders
      BY <3>2 DEF Orders
    <3> QED
      BY <2>1, <2>2, <3>1, <3>3 DEF OrdersInv
  <2>7. \A l \in Legs : NotSentYet(l)' => orders'[<<msg', l>>] <= redisCrashes'
    <3> SUFFICES ASSUME NEW l \in Legs, NotSentYet(l)' PROVE orders'[<<msg', l>>] <= redisCrashes'
      OBVIOUS
    <3>1. msg' \in Opps
      BY NotSentYetWorking DEF TypeInv, TaskOK, NotSentYet, Working, BeforeSend, AfterSend
    <3> QED
      BY <2>5, <3>1
  <2> QED
    BY <2>4, <2>5, <2>6, <2>7 DEF OrdersInv
<1> QED
  BY <1>1, <1>2, <1>3, <1>4, <1>5, QuietSteps

\* A leg's order is executed at most once, and once more for every roll-back
\* of Redis, whatever the executor, its venue and its calls do.
THEOREM OrdersAreBounded == Spec => []OrdersBounded
<1>1. Init => OrdersInv
  BY DEF Init, OrdersInv, OrdersBounded, NotSentYet, BeforeSend, AfterSend, Orders
<1>2. OrdersInv => OrdersBounded
  BY DEF OrdersInv
<1> QED
  BY <1>1, <1>2, OrdersStep, TypeInvariant, PTL DEF Spec

-----------------------------------------------------------------------------
(***************************************************************************)
(* The books.  A row is written once, with its position effect in the same *)
(* transaction.                                                            *)
(***************************************************************************)
LEMMA BookSteps ==
    ASSUME [Next]_vars
    PROVE  \/ UNCHANGED <<trades, ledger>>
           \/ Persist /\ InsertTrade(ClientOrderId, res)
BY DEF Next, TaskStep, Approve, Expire, Kill, Reset, Fsync, Start, Read, Gate, Size, Recover,
       Send, Reply, Record, Persist, Finish, Ack, Crash, RedisCrash, dbVars, vars

\* Every booked fill has moved its position exactly once, and nothing else has,
\* across crashes, lost commits and replays (db.persist_trade).
THEOREM FillsAreBookedOnce == Spec => []FillsBookedOnce
<1>1. Init => FillsBookedOnce
  BY DEF Init, FillsBookedOnce
<1>2. TypeInv /\ FillsBookedOnce /\ [Next]_vars => FillsBookedOnce'
  <2> SUFFICES ASSUME TypeInv, FillsBookedOnce, [Next]_vars PROVE FillsBookedOnce'
    OBVIOUS
  <2>1. CASE UNCHANGED <<trades, ledger>>
    BY <2>1 DEF FillsBookedOnce
  <2>2. CASE Persist /\ InsertTrade(ClientOrderId, res)
    <3>1. ClientOrderId \in Orders /\ res \in Status
      BY <2>2, OrderType DEF Persist, LegSteps, AfterSend, TypeInv, TaskOK
    <3>2. trades \in [Orders -> StatusOrNone] /\ ledger \in [Orders -> Nat]
      BY DEF TypeInv, TypeOK
    <3> QED
      BY <2>2, <3>1, <3>2 DEF InsertTrade, IsFill, FillsBookedOnce
  <2> QED
    BY <2>1, <2>2, BookSteps
<1> QED
  BY <1>1, <1>2, TypeInvariant, PTL DEF Spec

(***************************************************************************)
(* A fill in hand, like one in the books, the replay cache or on disk,     *)
(* belongs to an executed order.                                           *)
(***************************************************************************)
FillInv ==
    /\ NoPhantomFill
    /\ pc \in AfterSend /\ res = "filled" => orders[ClientOrderId] > 0

\* The venues forget no executed order.
LEMMA OrdersGrow ==
    ASSUME TypeInv, [Next]_vars
    PROVE  \A c \in Orders : orders[c] > 0 => orders'[c] > 0
<1>1. CASE Send
  <2>1. ClientOrderId \in Orders
    BY <1>1, OrderType DEF Send, LegSteps, BeforeSend
  <2>2. orders \in [Orders -> Nat]
    BY DEF TypeInv, TypeOK
  <2>3. orders' = [orders EXCEPT ![ClientOrderId] = @ + 1] \/ orders' = orders
    BY <1>1 DEF Send
  <2> QED
    BY <2>1, <2>2, <2>3
<1>2. CASE ~ Send
  <2>1. orders' = orders
    BY <1>2 DEF Next, TaskStep, Approve, Expire, Kill, Reset, Fsync, Start, Read, Gate, Size, Recover,
       Reply, Record, Persist, Finish, Ack, Crash, RedisCrash, vars
  <2> QED
    BY <2>1
<1> QED
  BY <1>1, <1>2

\* What may come into the books, the cache and the disk.
LEMMA TableSteps ==
    ASSUME TypeInv, [Next]_vars, NEW c \in Orders
    PROVE  /\ \/ trades'[c] = trades[c]
              \/ pc = "persist" /\ c = ClientOrderId /\ trades'[c] = res
           /\ \/ results'[c] \in {results[c], "none", disk.results[c]}
              \/ pc = "record" /\ c = ClientOrderId /\ results'[c] = res
           /\ disk'.results[c] \in {disk.results[c], results[c]}
<1>1. \/ trades'[c] = trades[c]
      \/ pc = "persist" /\ c = ClientOrderId /\ trades'[c] = res
  <2>1. CASE UNCHANGED <<trades, ledger>>
    BY <2>1
  <2>2. CASE Persist /\ InsertTrade(ClientOrderId, res)
    <3>1. pc = "persist"
      BY <2>2 DEF Persist
    <3>2. trades \in [Orders -> StatusOrNone]
      BY DEF TypeInv, TypeOK
    <3> QED
      BY <2>2, <3>1, <3>2 DEF InsertTrade
  <2> QED
    BY <2>1, <2>2, BookSteps
<1>2. \/ results'[c] \in {results[c], "none", disk.results[c]}
      \/ pc = "record" /\ c = ClientOrderId /\ results'[c] = res
  <2>1. ASSUME NEW d \in Orders, Expire(d) PROVE results'[c] \in {results[c], "none"}
    BY <2>1 DEF Expire, TypeInv, TypeOK
  <2>2. CASE Record
    BY <2>2 DEF Record, TypeInv, TypeOK
  <2>3. CASE RedisCrash
    BY <2>3 DEF RedisCrash
  <2>4. CASE ~ (Record \/ RedisCrash \/ \E d \in Orders : Expire(d))
    <3>1. results' = results
      BY <2>4 DEF Next, TaskStep, Approve, Kill, Reset, Fsync, Start, Read, Gate, Size, Recover,
         Send, Reply, Persist, Finish, Ack, Crash, redisVars, vars
    <3> QED
      BY <3>1
  <2> QED
    BY <2>1, <2>2, <2>3, <2>4
<1>3. disk'.results[c] \in {disk.results[c], results[c]}
  <2>1. disk' = disk \/ disk' = RedisState
    BY DEF Next, TaskStep, Approve, Expire, Kill, Reset, Fsync, Start, Read, Gate, Size, Recover,
       Send, Reply, Record, Persist, Finish, Ack, Crash, RedisCrash, vars
  <2> QED
    BY <2>1 DEF RedisState
<1> QED
  BY <1>1, <1>2, <1>3

\* A fill in hand is the venue's, or one that was recorded.
LEMMA FillInHand ==
    ASSUME TypeInv, FillInv, [Next]_vars, pc' \in AfterSend, res' = "filled"
    PROVE  orders'[ClientOrderId'] > 0
<1>1. ASSUME pc \in AfterSend, res = "filled", leg' = leg, msg' = msg
      PROVE  orders'[ClientOrderId'] > 0
  BY <1>1, OrderType, OrdersGrow DEF FillInv, ClientOrderId, LegSteps
<1>2. ASSUME NEW o \in Opps, Approve(o) PROVE orders'[ClientOrderId'] > 0
  BY <1>1, <1>2 DEF Approve, taskVars
<1>3. CASE Recover
  BY <1>3, OrderType DEF Recover, ToPersist, FillInv, NoPhantomFill, AfterSend, BeforeSend, LegSteps,
                         ClientOrderId, redisVars
<1>4. CASE Send
  BY <1>4, OrderType DEF Send, BeforeSend, LegSteps, ClientOrderId, redisVars, TypeInv, TypeOK
<1>5. CASE Reply
  BY <1>1, <1>5 DEF Reply, Reported, TypeInv, TaskOK, AfterSend, redisVars
<1>6. CASE Record
  BY <1>1, <1>6 DEF Record, ToPersist, AfterSend
<1>7. CASE Start \/ Read \/ Gate \/ Size \/ Persist \/ Finish \/ Ack \/ Crash
  BY <1>7 DEF Start, Read, Gate, Size, Persist, Finish, Ack, Crash, Abandon, NewTask,
              NextLeg, AfterSend
<1>8. CASE RedisCrash
  BY <1>1, <1>8 DEF RedisCrash, NewTask, AfterSend, taskVars
<1>9. CASE Kill \/ Reset \/ Fsync \/ \E c \in Orders : Expire(c)
  BY <1>1, <1>9 DEF Kill, Reset, Fsync, Expire, redisVars, taskVars
<1>10. CASE UNCHANGED vars
  BY <1>1, <1>10 DEF vars, redisVars, taskVars
<1> QED
  BY <1>2, <1>3, <1>4, <1>5, <1>6, <1>7, <1>8, <1>9, <1>10 DEF Next, TaskStep

\* No fill is booked, cached or kept on disk for an order no venue executed.
THEOREM FillsAreReal == Spec => []NoPhantomFill
<1>1. Init => FillInv
  BY DEF Init, FillInv, NoPhantomFill, RedisState, AfterSend
<1>2. TypeInv /\ FillInv /\ [Next]_vars => FillInv'
  <2> SUFFICES ASSUME TypeInv, FillInv, [Next]_vars PROVE FillInv'
    OBVIOUS
  <2>1. ASSUME NEW c \in Orders, "filled" \in {trades'[c], results'[c], disk'.results[c]}
        PROVE  orders'[c] > 0
    <3>1. CASE "filled" \in {trades[c], results[c], disk.results[c]}
      BY <3>1, OrdersGrow DEF FillInv, NoPhantomFill
    <3>2. CASE pc \in AfterSend /\ res = "filled" /\ c = ClientOrderId
      BY <3>2, OrdersGrow DEF FillInv
    <3> QED
      BY <2>1, <3>1, <3>2, TableSteps DEF AfterSend
  <2>2. NoPhantomFill'
    BY <2>1 DEF NoPhantomFill
  <2> QED
    BY <2>2, FillInHand DEF FillInv
<1>3. FillInv => NoPhantomFill
  BY DEF FillInv
<1> QED
  BY <1>1, <1>2, <1>3, TypeInvariant, PTL DEF Spec

-----------------------------------------------------------------------------
(***************************************************************************)
(* The kill switch.  What was sent since the halt was raised and what the  *)
(* message in hand may still send are never more than one order plan.      *)
(***************************************************************************)
Remaining == IF pc \in BeforeSend THEN LegCount[msg] - leg + 1
             ELSE IF pc \in AfterSend THEN LegCount[msg] - leg
             ELSE 0

HaltInv == /\ halt => afterHalt + Remaining <= MaxLegs
           /\ ~ halt => afterHalt = 0

LEMMA RemainingType ==
    ASSUME TypeInv
    PROVE  Remaining \in 0 .. MaxLegs
<1>1. CASE pc \in LegSteps
  <2>1. LegCount[msg] \in 0 .. MaxLegs /\ leg \in Nat \ {0} /\ leg <= LegCount[msg]
    BY <1>1, OrderType, LegsAssumption DEF TypeInv, TypeOK, TaskOK
  <2> QED
    BY <1>1, <2>1, LegsAssumption DEF Remaining, LegSteps
<1>2. CASE pc \notin LegSteps
  BY <1>2, LegsAssumption DEF Remaining, LegSteps
<1> QED
  BY <1>1, <1>2

\* Between sends, and with the halt as it is, no more legs remain than before.
LEMMA HaltQuiet ==
    ASSUME TypeInv, HaltInv, halt' = halt, afterHalt' = afterHalt,
           halt => Remaining' \in Int /\ Remaining' <= Remaining
    PROVE  HaltInv'
<1>1. Remaining \in Int /\ MaxLegs \in Int /\ afterHalt \in Int
  BY RemainingType, LegsAssumption DEF TypeInv, TypeOK
<1>2. CASE halt
  BY <1>1, <1>2 DEF HaltInv
<1>3. CASE ~ halt
  BY <1>3 DEF HaltInv
<1> QED
  BY <1>2, <1>3

LEMMA HaltStep == TypeInv /\ HaltInv /\ [Next]_vars => HaltInv'
<1> SUFFICES ASSUME TypeInv, HaltInv, [Next]_vars PROVE HaltInv'
  OBVIOUS
<1>1. /\ Remaining \in Int /\ 0 <= Remaining /\ Remaining <= MaxLegs
      /\ MaxLegs \in Int /\ 0 <= MaxLegs /\ afterHalt \in Int
  BY RemainingType, LegsAssumption DEF TypeInv, TypeOK
<1>2. ASSUME NEW o \in Opps, Approve(o) PROVE HaltInv'
  <2>1. halt' = halt /\ afterHalt' = afterHalt /\ Remaining' = Remaining
    BY <1>2 DEF Approve, Remaining, taskVars
  <2> QED
    BY <1>1, <2>1, HaltQuiet
<1>3. CASE (\E c \in Orders : Expire(c)) \/ Fsync \/ UNCHANGED vars
  <2>1. /\ halt' = halt /\ afterHalt' = afterHalt
        /\ pc' = pc /\ leg' = leg /\ msg' = msg
    BY <1>3 DEF Expire, Fsync, vars, redisVars, taskVars
  <2>2. Remaining' = Remaining
    BY <2>1 DEF Remaining
  <2> QED
    BY <1>1, <2>1, <2>2, HaltQuiet
<1>4. CASE Kill
  <2>1. halt' /\ afterHalt' = 0
    BY <1>4 DEF Kill
  <2>2. Remaining' = Remaining
    BY <1>4 DEF Kill, Remaining, taskVars
  <2> QED
    BY <1>1, <2>1, <2>2 DEF HaltInv
<1>5. CASE Reset
  BY <1>5 DEF Reset, HaltInv
<1>6. CASE Start \/ Read \/ Finish \/ Ack \/ Crash
  <2>1. halt' = halt /\ afterHalt' = afterHalt /\ pc' \in {"idle", "gate", "ack", "down"}
    BY <1>6 DEF Start, Read, Finish, Ack, Crash, NewTask, redisVars
  <2>2. Remaining' = 0
    BY <2>1 DEF Remaining, BeforeSend, AfterSend
  <2> QED
    BY <1>1, <2>1, <2>2, HaltQuiet
<1>7. CASE Gate
  <2>1. halt' = halt /\ afterHalt' = afterHalt
    BY <1>7 DEF Gate, redisVars
  <2>2. ASSUME halt PROVE Remaining' = 0
    BY <1>7, <2>2 DEF Gate, Abandon, NewTask, Remaining, BeforeSend, AfterSend
  <2> QED
    BY <1>1, <2>1, <2>2, HaltQuiet
<1>8. CASE Size \/ Recover \/ Reply \/ Record \/ Persist
  <2>1. /\ halt' = halt /\ afterHalt' = afterHalt
        /\ msg' = msg \/ pc' = "idle"
        /\ pc \in LegSteps
    BY <1>8 DEF Size, Recover, Reply, Record, Persist, Abandon, NewTask, NextLeg, redisVars,
                LegSteps, BeforeSend, AfterSend
  <2>2. LegCount[msg] \in Int /\ leg \in Int /\ leg <= LegCount[msg]
    BY <2>1, OrderType, LegsAssumption DEF TypeInv, TypeOK, TaskOK
  <2>3. Remaining' \in Int /\ Remaining' <= Remaining
    BY <1>8, <2>1, <2>2 DEF Size, Recover, Reply, Record, Persist, Abandon, NewTask, NextLeg,
                            ToPersist, Remaining, BeforeSend, AfterSend
  <2> QED
    BY <2>1, <2>3, HaltQuiet
<1>9. CASE Send
  <2>1. /\ halt' = halt /\ msg' = msg /\ pc = "submit"
        /\ afterHalt' = IF halt THEN afterHalt + 1 ELSE 0
    BY <1>9 DEF Send, redisVars
  <2>2. LegCount[msg] \in Int /\ leg \in Int
    BY <2>1, OrderType, LegsAssumption DEF TypeInv, TypeOK, LegSteps, BeforeSend
  <2>3. Remaining' = Remaining - 1
    BY <1>9, <2>1, <2>2 DEF Send, Remaining, BeforeSend, AfterSend
  <2>4. CASE halt
    BY <1>1, <2>1, <2>3, <2>4 DEF HaltInv
  <2>5. CASE ~ halt
    BY <2>1, <2>5 DEF HaltInv
  <2> QED
    BY <2>4, <2>5
<1>10. CASE RedisCrash
  <2>1. Remaining' = Remaining \/ Remaining' = 0
    BY <1>10 DEF RedisCrash, NewTask, Remaining, BeforeSend, AfterSend, taskVars
  <2>2. halt' = disk.halt /\ afterHalt' = IF disk.halt THEN afterHalt ELSE 0
    BY <1>10 DEF RedisCrash
  <2>3. afterHalt + Remaining <= MaxLegs
    <3>1. CASE halt
      BY <3>1 DEF HaltInv
    <3>2. CASE ~ halt
      BY <1>1, <3>2 DEF HaltInv
    <3> QED
      BY <3>1, <3>2
  <2> QED
    BY <1>1, <2>1, <2>2, <2>3 DEF HaltInv
<1> QED
  BY <1>2, <1>3, <1>4, <1>5, <1>6, <1>7, <1>8, <1>9, <1>10 DEF Next, TaskStep

\* Once the kill switch is up, the executor sends no more orders than one order
\* plan has legs, however long the halt lasts (_process reads risk:halt once).
THEOREM HaltOvershootIsOnePlan == Spec => []HaltOvershoot
<1>1. Init => HaltInv
  BY DEF Init, HaltInv
<1>2. TypeInv /\ HaltInv => HaltOvershoot
  <2> SUFFICES ASSUME TypeInv, HaltInv, halt PROVE afterHalt <= MaxLegs
    BY DEF HaltOvershoot
  <2> QED
    BY RemainingType, LegsAssumption DEF TypeInv, TypeOK, HaltInv
<1> QED
  BY <1>1, <1>2, HaltStep, TypeInvariant, PTL DEF Spec

-----------------------------------------------------------------------------
(***************************************************************************)
(* The replay cache.  While it loses nothing, Redis holds every result its *)
(* copy on disk holds; so what Recover did not find is not there when the  *)
(* order is sent, not even after a roll-back in between.                   *)
(***************************************************************************)
CacheInv ==
    ~ CacheFails =>
        /\ \A c \in Orders : disk.results[c] # "none" => results[c] # "none"
        /\ pc = "submit" => results[ClientOrderId] = "none"

LEMMA CacheStep == TypeInv /\ CacheInv /\ [Next]_vars => CacheInv'
<1> SUFFICES ASSUME TypeInv, CacheInv, [Next]_vars, ~ CacheFails
             PROVE  /\ \A c \in Orders : disk'.results[c] # "none" => results'[c] # "none"
                    /\ pc' = "submit" => results'[ClientOrderId'] = "none"
  BY DEF CacheInv
<1>1. /\ \A c \in Orders : disk.results[c] # "none" => results[c] # "none"
      /\ pc = "submit" => results[ClientOrderId] = "none" /\ ClientOrderId \in Orders
  BY OrderType DEF CacheInv, LegSteps, BeforeSend
<1>2. CASE Record
  <2>1. res \in Status /\ ClientOrderId \in Orders
    BY <1>2, OrderType DEF Record, TypeInv, TaskOK, LegSteps, AfterSend
  <2>2. results \in [Orders -> StatusOrNone]
    BY DEF TypeInv, TypeOK
  <2>3. results' = [results EXCEPT ![ClientOrderId] = res] \/ results' = results
    BY <1>2 DEF Record
  <2>4. disk' = disk /\ pc' = "persist"
    BY <1>2 DEF Record, ToPersist
  <2> QED
    BY <1>1, <2>1, <2>2, <2>3, <2>4 DEF Status
<1>3. CASE RedisCrash
  <2>1. results' = disk.results /\ disk' = disk
    BY <1>3 DEF RedisCrash
  <2>2. pc' = "submit" => pc = "submit" /\ ClientOrderId' = ClientOrderId
    BY <1>3 DEF RedisCrash, NewTask, taskVars, ClientOrderId
  <2> QED
    BY <1>1, <2>1, <2>2
<1>4. CASE Fsync
  BY <1>1, <1>4 DEF Fsync, RedisState, redisVars, taskVars, ClientOrderId
<1>5. CASE Recover
  BY <1>1, <1>5 DEF Recover, ToPersist, redisVars, ClientOrderId
<1>6. CASE (\E o \in Opps : Approve(o)) \/ Kill \/ Reset \/ UNCHANGED vars
  BY <1>1, <1>6 DEF Approve, Kill, Reset, vars, redisVars, taskVars, ClientOrderId
<1>7. CASE \E c \in Orders : Expire(c)
  BY <1>7 DEF Expire
<1>8. CASE Start \/ Read \/ Gate \/ Size \/ Send \/ Reply \/ Persist \/ Finish \/ Ack \/ Crash
  <2>1. results' = results /\ disk' = disk /\ pc' # "submit"
    BY <1>8 DEF Start, Read, Gate, Size, Send, Reply, Persist, Finish, Ack, Crash,
                Abandon, NewTask, NextLeg, redisVars
  <2> QED
    BY <1>1, <2>1
<1> QED
  BY <1>2, <1>3, <1>4, <1>5, <1>6, <1>7, <1>8 DEF Next, TaskStep

\* An order whose result Redis holds is not sent again, across any number of
\* roll-backs, as long as the cache itself loses nothing (_execute_leg).
THEOREM ResultsAreReused == Spec => ResultReused
<1>1. Init => CacheInv
  BY DEF Init, CacheInv, RedisState
<1>2. TypeInv /\ CacheInv /\ [Next]_vars =>
        [\A c \in Orders : ~ CacheFails /\ results[c] # "none" => orders'[c] = orders[c]]_vars
  <2> SUFFICES ASSUME TypeInv, CacheInv, [Next]_vars, NEW c \in Orders,
                      ~ CacheFails, results[c] # "none"
               PROVE  orders'[c] = orders[c]
    OBVIOUS
  <2>1. CASE Send
    <3>1. ClientOrderId \in Orders /\ c # ClientOrderId
      BY <2>1, OrderType DEF Send, CacheInv, LegSteps, BeforeSend
    <3> QED
      BY <2>1, <3>1 DEF Send, TypeInv, TypeOK
  <2>2. CASE ~ Send
    BY <2>2 DEF Next, TaskStep, Approve, Expire, Kill, Reset, Fsync, Start, Read, Gate, Size, Recover,
       Reply, Record, Persist, Finish, Ack, Crash, RedisCrash, vars
  <2> QED
    BY <2>1, <2>2
<1> QED
  BY <1>1, <1>2, CacheStep, TypeInvariant, PTL DEF Spec, ResultReused

-----------------------------------------------------------------------------
\* The leg's result is known or on its way, and its row is not written yet.
Pending(l) == pc \in AfterSend /\ l = leg

BookInv ==
    redisCrashes = 0 =>
        /\ \A o \in Opps, l \in Legs :
              Acked(o) /\ orders[<<o, l>>] > 0 => trades[<<o, l>>] # "none"
        /\ pc \in Working => msg \in pel
        /\ \A l \in Legs :
              pc \in Working /\ orders[<<msg, l>>] > 0 =>
                  trades[<<msg, l>>] # "none" \/ Pending(l)

\* Nobody but the executor touches the orders, the books and the pending list,
\* and it goes on to another message only through Read.
Aside ==
    /\ UNCHANGED <<cursor, pel, trades, orders, redisCrashes>>
    /\ pc' \in Working => pc \in Working /\ msg' = msg
    /\ \A l \in Legs : pc' \in Working /\ Pending(l) => Pending(l)'

LEMMA AsideSteps ==
    ASSUME TypeInv, [Next]_vars
    PROVE  \/ Aside /\ UNCHANGED queue
           \/ \E o \in Opps : Approve(o)
           \/ Read \/ Send \/ Persist \/ Ack \/ RedisCrash
<1> USE DEF Aside, Pending, Working, AfterSend
<1>1. ASSUME NEW c \in Orders, Expire(c) PROVE Aside /\ UNCHANGED queue
  BY <1>1 DEF Expire, taskVars, boundVars, dbVars
<1>2. CASE Kill \/ Reset
  BY <1>2 DEF Kill, Reset, taskVars, boundVars, dbVars
<1>3. CASE Fsync
  BY <1>3 DEF Fsync, redisVars, taskVars, boundVars, dbVars
<1>4. CASE Start \/ Crash
  BY <1>4 DEF Start, Crash, NewTask, redisVars, boundVars, dbVars
<1>5. CASE Gate
  BY <1>5 DEF Gate, Abandon, NewTask, redisVars, boundVars, dbVars
<1>6. CASE Size
  BY <1>6 DEF Size, Abandon, NewTask, NextLeg, redisVars, boundVars, dbVars
<1>7. CASE Recover
  BY <1>7 DEF Recover, ToPersist, redisVars, boundVars, dbVars
<1>8. CASE Reply
  BY <1>8 DEF Reply, redisVars, boundVars, dbVars
<1>9. CASE Record
  BY <1>9 DEF Record, ToPersist, boundVars, dbVars
<1>10. CASE Finish
  BY <1>10 DEF Finish, redisVars, boundVars
<1>11. CASE UNCHANGED vars
  BY <1>11 DEF vars, redisVars, taskVars, boundVars, dbVars
<1> QED
  BY <1>1, <1>2, <1>3, <1>4, <1>5, <1>6, <1>7, <1>8, <1>9, <1>10, <1>11
  DEF Next, TaskStep

\* Once delivered is delivered, and what Read hands out was not.
LEMMA ReadDelivers ==
    ASSUME TypeInv, Read
    PROVE  /\ msg' \in Opps /\ ~ Delivered(msg') /\ msg' \in pel' /\ Delivered(msg)'
           /\ \A o \in Opps : o \notin pel' /\ Delivered(o)' => o \notin pel /\ Delivered(o)
<1>1. /\ msg' = queue[cursor + 1] /\ pel' = pel \cup {queue[cursor + 1]}
      /\ queue' = queue /\ cursor' = cursor + 1 /\ cursor < Len(queue) /\ cursor \in Nat
  BY DEF Read, NewTask, TypeInv, TypeOK
<1>2. msg' \in Opps /\ ~ Delivered(msg')
  BY <1>1 DEF Delivered, DeliveredIn, Positions, Distinct, TypeInv, TypeOK, StreamOK
<1>3. ASSUME NEW o \in Opps, o \notin pel', Delivered(o)'
      PROVE  Delivered(o)
  <2>1. PICK i \in 1 .. Len(queue) : i <= cursor + 1 /\ queue[i] = o
    BY <1>1, <1>3 DEF Delivered, DeliveredIn, Positions
  <2>2. i # cursor + 1
    BY <1>1, <1>3, <2>1
  <2> QED
    BY <1>1, <2>1, <2>2 DEF Delivered, DeliveredIn, Positions
<1>4. Delivered(msg)'
  BY <1>1 DEF Delivered, DeliveredIn, Positions, TypeInv, TypeOK
<1> QED
  BY <1>1, <1>2, <1>3, <1>4

LEMMA BookStep == TypeInv /\ OrdersInv /\ BookInv /\ [Next]_vars => BookInv'
<1> SUFFICES ASSUME TypeInv, OrdersInv, BookInv, [Next]_vars, redisCrashes' = 0 PROVE BookInv'
  BY DEF BookInv
<1>0. redisCrashes \in Nat /\ \A c \in Orders : orders[c] \in Nat
  BY DEF TypeInv, TypeOK
<1>1. CASE Aside /\ UNCHANGED queue
  BY <1>1 DEF Aside, BookInv, Acked, Delivered
<1>2. ASSUME NEW o \in Opps, Approve(o) PROVE BookInv'
  <2>1. /\ UNCHANGED <<orders, trades, pel, pc, leg, msg, redisCrashes>>
    BY <1>2 DEF Approve, taskVars, boundVars, dbVars
  <2>2. \A p \in Opps : Delivered(p)' <=> Delivered(p)
    BY <1>2, ApproveDelivers
  <2> QED
    BY <2>1, <2>2 DEF BookInv, Acked, Pending
<1>3. CASE Read
  <2>1. /\ UNCHANGED <<orders, trades, redisCrashes>> /\ pc' = "gate"
    BY <1>3 DEF Read, NewTask, dbVars, boundVars
  <2>2. \A l \in Legs : ~ orders'[<<msg', l>>] > 0
    <3> SUFFICES ASSUME NEW l \in Legs PROVE ~ orders[<<msg', l>>] > 0
      BY <2>1
    <3>1. <<msg', l>> \in Orders /\ orders[<<msg', l>>] <= redisCrashes
      BY <1>3, ReadDelivers DEF OrdersInv, Orders
    <3> QED
      BY <1>0, <2>1, <3>1
  <2>3. \A p \in Opps : Acked(p)' => Acked(p)
    BY <1>3, ReadDelivers DEF Acked
  <2> QED
    BY <1>3, ReadDelivers, <2>1, <2>2, <2>3 DEF BookInv
<1>4. CASE Send
  <2>1. ClientOrderId \in Orders /\ msg \in Opps /\ leg \in Legs
    BY <1>4, OrderType DEF Send, LegSteps, BeforeSend
  <2>2. /\ UNCHANGED <<queue, cursor, pel, trades, msg, leg, redisCrashes>>
        /\ pc = "submit" /\ pc' = "reply"
        /\ \A c \in Orders : c # ClientOrderId => orders'[c] = orders[c]
    BY <1>4, <2>1 DEF Send, redisVars, boundVars, dbVars, TypeInv, TypeOK
  <2>3. msg \in pel
    BY <2>2 DEF BookInv, Working
  <2>4. ASSUME NEW o \in Opps, NEW l \in Legs, Acked(o)'
        PROVE  orders'[<<o, l>>] = orders[<<o, l>>] /\ Acked(o)
    BY <2>2, <2>3, <2>4 DEF Acked, Delivered, ClientOrderId, Orders
  <2>5. ASSUME NEW l \in Legs
        PROVE  orders'[<<msg, l>>] = orders[<<msg, l>>] \/ Pending(l)'
    <3>1. <<msg, l>> \in Orders
      BY <2>1 DEF Orders
    <3> QED
      BY <2>2, <3>1 DEF ClientOrderId, Pending, AfterSend
  <2> QED
    BY <2>2, <2>3, <2>4, <2>5 DEF BookInv, Pending, Working, AfterSend
<1>5. CASE Persist
  <2>1. ClientOrderId \in Orders /\ msg \in Opps /\ leg \in Legs /\ res \in Status
    BY <1>5, OrderType DEF Persist, LegSteps, AfterSend, TypeInv, TaskOK
  <2>2. /\ UNCHANGED <<queue, cursor, pel, orders, redisCrashes>> /\ pc = "persist"
        /\ trades' = trades \/ InsertTrade(ClientOrderId, res)
        /\ pc' \in Working => msg' = msg /\ pc' \notin AfterSend
                              /\ InsertTrade(ClientOrderId, res)
    BY <1>5 DEF Persist, Abandon, NewTask, NextLeg, redisVars, boundVars, Working, AfterSend
  <2>3. trades \in [Orders -> StatusOrNone] /\ res # "none"
    BY <2>1 DEF TypeInv, TypeOK, Status
  <2>4. InsertTrade(ClientOrderId, res) =>
            trades'[ClientOrderId] # "none"
    BY <2>1, <2>3 DEF InsertTrade
  <2>5. \A c \in Orders : trades[c] # "none" => trades'[c] # "none"
    BY <2>1, <2>2, <2>3 DEF InsertTrade
  <2>6. \A o \in Opps, l \in Legs : <<o, l>> \in Orders
    BY DEF Orders
  <2>7. \A o \in Opps, l \in Legs :
            Acked(o)' /\ orders'[<<o, l>>] > 0 => trades'[<<o, l>>] # "none"
    BY <2>2, <2>5, <2>6 DEF BookInv, Acked, Delivered
  <2>8. ASSUME NEW l \in Legs, pc' \in Working, orders'[<<msg', l>>] > 0
        PROVE  trades'[<<msg', l>>] # "none"
    <3>1. trades[<<msg, l>>] # "none" \/ l = leg
      BY <2>2, <2>8 DEF BookInv, Pending, Working
    <3>2. trades'[<<msg, leg>>] # "none"
      BY <2>2, <2>4, <2>8 DEF ClientOrderId
    <3> QED
      BY <2>1, <2>2, <2>5, <2>6, <2>8, <3>1, <3>2
  <2>9. pc' \in Working => msg' \in pel'
    BY <2>2 DEF BookInv, Working
  <2> QED
    BY <2>7, <2>8, <2>9 DEF BookInv
<1>6. CASE Ack
  <2>1. /\ UNCHANGED <<queue, cursor, orders, trades, redisCrashes>>
        /\ pc = "ack" /\ pc' = "idle"
        /\ pel' = pel \ {msg} \/ pel' = pel
    BY <1>6 DEF Ack, NewTask, boundVars, dbVars
  <2>2. ASSUME NEW o \in Opps, NEW l \in Legs, Acked(o)', orders'[<<o, l>>] > 0
        PROVE  trades'[<<o, l>>] # "none"
    <3>1. Acked(o) \/ o = msg
      BY <2>1, <2>2 DEF Acked, Delivered
    <3> QED
      BY <2>1, <2>2, <3>1 DEF BookInv, Pending, Working, AfterSend
  <2> QED
    BY <2>1, <2>2 DEF BookInv, Working
<1>7. CASE RedisCrash
  BY <1>0, <1>7 DEF RedisCrash
<1> QED
  BY <1>1, <1>2, <1>3, <1>4, <1>5, <1>6, <1>7, AsideSteps

\* An acknowledged message leaves no executed order out of the trades table
\* (consumer.py:32 "All fills are written to the DB before the stream message
\* is ACK'd").
THEOREM AcknowledgedIsBooked == Spec => []BookedBeforeAck
<1>1. Init => OrdersInv /\ BookInv
  BY DEF Init, OrdersInv, OrdersBounded, NotSentYet, BeforeSend, AfterSend, Orders, Working,
         BookInv, Acked, Delivered, DeliveredIn, Positions
<1>2. BookInv => BookedBeforeAck
  BY DEF BookInv, BookedBeforeAck
<1> QED
  BY <1>1, <1>2, OrdersStep, BookStep, TypeInvariant, PTL DEF Spec
-----------------------------------------------------------------------------
(***************************************************************************)
(* ExecutedIsBooked.  The counter okLegs counts legs of the message in     *)
(* hand whose row says that they were filled, and the one about to be      *)
(* written; that one meets no older row.                                   *)
(***************************************************************************)
NotBookedYet(l) == pc = "gate" \/ (pc \in LegSteps /\ l >= leg)

Booked(o) == \E l \in Legs : trades[<<o, l>>] \in CountsAsFilled

FilledInHand == pc = "persist" /\ res \in CountsAsFilled

MarkInv ==
    redisCrashes = 0 =>
        /\ \A o \in Opps, l \in Legs : ~ Delivered(o) => trades[<<o, l>>] = "none"
        /\ pc \in Working => Delivered(msg)
        /\ \A l \in Legs : NotBookedYet(l) => trades[<<msg, l>>] = "none"
        /\ pc \in Working /\ okLegs > 0 => Booked(msg) \/ FilledInHand
        /\ \A o \in executed : Booked(o)

\* The steps that leave the books and the marks alone.
Apart ==
    /\ UNCHANGED <<cursor, trades, executed, redisCrashes>>
    /\ \A l \in Legs : NotBookedYet(l)' => NotBookedYet(l) /\ msg' = msg
    /\ pc' \in Working => pc \in Working /\ msg' = msg
    /\ pc' \in Working /\ okLegs' > 0 => FilledInHand' \/ (okLegs > 0 /\ ~ FilledInHand)

LEMMA ApartSteps ==
    ASSUME TypeInv, [Next]_vars
    PROVE  \/ Apart /\ UNCHANGED queue
           \/ \E o \in Opps : Approve(o) /\ Apart
           \/ Read \/ Persist \/ Finish \/ RedisCrash
<1> USE DEF Apart, NotBookedYet, FilledInHand, LegSteps, Working, BeforeSend, AfterSend
<1>0. okLegs \in Nat /\ leg \in Nat
  BY DEF TypeInv, TypeOK
<1>1. ASSUME NEW c \in Orders, Expire(c) PROVE Apart /\ UNCHANGED queue
  BY <1>1 DEF Expire, taskVars, boundVars, dbVars
<1>2. CASE Kill \/ Reset
  BY <1>2 DEF Kill, Reset, taskVars, boundVars, dbVars
<1>3. CASE Fsync
  BY <1>3 DEF Fsync, redisVars, taskVars, boundVars, dbVars
<1>4. CASE Start \/ Crash
  BY <1>4 DEF Start, Crash, NewTask, redisVars, boundVars, dbVars
<1>5. CASE Gate
  BY <1>5 DEF Gate, Abandon, NewTask, redisVars, boundVars, dbVars, TypeInv, TaskOK
<1>6. CASE Size
  BY <1>0, <1>6 DEF Size, Abandon, NewTask, NextLeg, redisVars, boundVars, dbVars, Legs
<1>7. CASE Recover
  BY <1>0, <1>7 DEF Recover, ToPersist, redisVars, boundVars, dbVars
<1>8. CASE Send
  BY <1>8 DEF Send, redisVars, boundVars, dbVars
<1>9. CASE Reply
  BY <1>9 DEF Reply, redisVars, boundVars, dbVars
<1>10. CASE Record
  BY <1>0, <1>10 DEF Record, ToPersist, boundVars, dbVars
<1>11. CASE Ack
  BY <1>11 DEF Ack, NewTask, boundVars, dbVars
<1>12. CASE UNCHANGED vars
  BY <1>12 DEF vars, redisVars, taskVars, boundVars, dbVars
<1>13. ASSUME NEW o \in Opps, Approve(o) PROVE Apart
  BY <1>13 DEF Approve, taskVars, boundVars, dbVars
<1> QED
  BY <1>1, <1>2, <1>3, <1>4, <1>5, <1>6, <1>7, <1>8, <1>9, <1>10, <1>11, <1>12, <1>13
  DEF Next, TaskStep

LEMMA MarkStep == TypeInv /\ MarkInv /\ [Next]_vars => MarkInv'
<1> SUFFICES ASSUME TypeInv, MarkInv, [Next]_vars, redisCrashes' = 0 PROVE MarkInv'
  BY DEF MarkInv
<1>0. redisCrashes \in Nat
  BY DEF TypeInv, TypeOK
<1>1. ASSUME Apart, \A p \in Opps : Delivered(p)' <=> Delivered(p) PROVE MarkInv'
  <2>1. \A o : Booked(o)' <=> Booked(o)
    BY <1>1 DEF Apart, Booked
  <2>2. pc' \in Working /\ okLegs' > 0 => Booked(msg)' \/ FilledInHand'
    BY <1>1, <2>1 DEF Apart, MarkInv, Booked
  <2>3. pc' \in Working => Delivered(msg)'
    <3> SUFFICES ASSUME pc' \in Working PROVE Delivered(msg)'
      OBVIOUS
    <3>1. pc \in Working /\ msg' = msg
      BY <1>1 DEF Apart
    <3>2. PICK p \in Opps : p = msg
      BY <3>1 DEF TypeInv, TaskOK
    <3>3. Delivered(p) /\ (Delivered(p)' <=> Delivered(p))
      BY <1>1, <3>1, <3>2 DEF Apart, MarkInv, Delivered
    <3> QED
      BY <3>1, <3>2, <3>3 DEF Delivered
  <2> QED
    BY <1>1, <2>1, <2>2, <2>3 DEF Apart, MarkInv
<1>2. CASE Apart /\ UNCHANGED queue
  BY <1>1, <1>2 DEF Apart, Delivered
<1>3. ASSUME NEW o \in Opps, Approve(o), Apart PROVE MarkInv'
  BY <1>1, <1>3, ApproveDelivers
<1>4. CASE Read
  <2>1. /\ UNCHANGED <<trades, executed, redisCrashes>> /\ okLegs' = 0
    BY <1>4 DEF Read, NewTask, dbVars, boundVars
  <2>2. \A p \in Opps : ~ Delivered(p)' => ~ Delivered(p)
    BY <1>4 DEF Read, Delivered, DeliveredIn, Positions, TypeInv, TypeOK
  <2>3. \A l \in Legs : trades[<<msg', l>>] = "none"
    BY <1>4, <2>1, ReadDelivers DEF MarkInv
  <2>4. \A p \in executed : Booked(p)'
    BY <2>1 DEF MarkInv, Booked
  <2> QED
    BY <1>4, <2>1, <2>2, <2>3, <2>4, ReadDelivers DEF MarkInv
<1>5. CASE Persist
  <2>1. ClientOrderId \in Orders /\ msg \in Opps /\ leg \in Legs /\ res \in Status
    BY <1>5, OrderType DEF Persist, LegSteps, AfterSend, TypeInv, TaskOK
  <2>2. /\ UNCHANGED <<queue, cursor, executed, redisCrashes>> /\ pc = "persist"
        /\ trades' = trades \/ InsertTrade(ClientOrderId, res)
        /\ pc' \in Working => /\ msg' = msg /\ leg' = leg + 1 /\ pc' # "gate"
                              /\ okLegs' = okLegs
                              /\ InsertTrade(ClientOrderId, res)
    BY <1>5 DEF Persist, Abandon, NewTask, NextLeg, redisVars, boundVars, Working
  <2>3. trades \in [Orders -> StatusOrNone] /\ trades[ClientOrderId] = "none"
    BY <2>1, <2>2 DEF TypeInv, TypeOK, MarkInv, NotBookedYet, LegSteps, AfterSend, ClientOrderId, Legs
  <2>4. InsertTrade(ClientOrderId, res) => trades' = [trades EXCEPT ![ClientOrderId] = res]
    BY <2>3 DEF InsertTrade
  <2>5. \A c \in Orders : c # ClientOrderId => trades'[c] = trades[c]
    BY <2>1, <2>2, <2>3, <2>4
  <2>6. \A o \in Opps, l \in Legs : <<o, l>> \in Orders
    BY DEF Orders
  <2>7. ASSUME NEW o \in Opps, Booked(o) PROVE Booked(o)'
    <3>1. PICK l \in Legs : trades[<<o, l>>] \in CountsAsFilled
      BY <2>7 DEF Booked
    <3>2. <<o, l>> # ClientOrderId
      BY <2>3, <3>1 DEF CountsAsFilled
    <3> QED
      BY <2>5, <2>6, <3>1, <3>2 DEF Booked
  <2>8. ASSUME NEW o \in Opps, NEW l \in Legs, ~ Delivered(o)'
        PROVE  trades'[<<o, l>>] = "none"
    <3>1. ~ Delivered(o) /\ trades[<<o, l>>] = "none"
      BY <2>2, <2>8 DEF MarkInv, Delivered
    <3>2. CASE <<o, l>> # ClientOrderId
      BY <2>5, <2>6, <3>1, <3>2
    <3>3. CASE <<o, l>> = ClientOrderId
      <4>1. o = msg /\ Delivered(msg)
        BY <2>2, <3>3 DEF ClientOrderId, MarkInv, Working
      <4> QED
        BY <3>1, <4>1
    <3> QED
      BY <3>2, <3>3
  <2>9. ASSUME NEW l \in Legs, NotBookedYet(l)' PROVE trades'[<<msg', l>>] = "none"
    <3>1. msg' = msg /\ l >= leg + 1 /\ leg \in Nat /\ l \in Nat
      BY <2>1, <2>2, <2>9 DEF NotBookedYet, LegSteps, BeforeSend, AfterSend, Working, Legs
    <3>2. <<msg, l>> \in Orders /\ <<msg, l>> # ClientOrderId
      BY <2>1, <2>6, <3>1 DEF ClientOrderId
    <3>3. trades[<<msg, l>>] = "none"
      BY <2>2, <3>1 DEF MarkInv, NotBookedYet, LegSteps, AfterSend
    <3> QED
      BY <2>5, <3>1, <3>2, <3>3
  <2>10. ASSUME pc' \in Working, okLegs' > 0 PROVE Booked(msg)'
    <3>1. msg' = msg /\ trades'[<<msg, leg>>] = res /\ (Booked(msg) \/ res \in CountsAsFilled)
      <4>1. Booked(msg) \/ res \in CountsAsFilled
        BY <2>2, <2>10 DEF MarkInv, Working, FilledInHand
      <4>2. trades' = [trades EXCEPT ![ClientOrderId] = res] /\ msg' = msg
        BY <2>2, <2>4, <2>10
      <4> QED
        BY <2>1, <2>3, <4>1, <4>2 DEF ClientOrderId
    <3>2. CASE Booked(msg)
      <4>1. PICK o \in Opps : o = msg
        BY <2>1
      <4>2. Booked(o)'
        BY <2>7, <3>2, <4>1 DEF Booked
      <4> QED
        BY <3>1, <4>1, <4>2 DEF Booked
    <3>3. CASE res \in CountsAsFilled
      BY <2>1, <3>1, <3>3 DEF Booked
    <3> QED
      BY <3>1, <3>2, <3>3
  <2>11. pc' \in Working => Delivered(msg)'
    BY <2>2 DEF MarkInv, Working, Delivered
  <2>12. \A o \in executed' : Booked(o)'
    <3>1. executed \in SUBSET Opps /\ \A o \in executed : Booked(o)
      BY <2>2 DEF MarkInv, TypeInv, TypeOK
    <3> QED
      BY <2>2, <2>7, <3>1
  <2> QED
    BY <2>8, <2>9, <2>10, <2>11, <2>12 DEF MarkInv
<1>6. CASE Finish
  <2>1. /\ UNCHANGED <<queue, cursor, trades, redisCrashes, msg, okLegs>>
        /\ pc = "finish" /\ pc' = "ack"
        /\ executed' = executed \/ (okLegs > 0 /\ executed' = executed \cup {msg})
    BY <1>6 DEF Finish, redisVars, boundVars
  <2>2. Booked(msg) \/ ~ (okLegs > 0)
    BY <2>1 DEF MarkInv, Working, FilledInHand
  <2>3. \A o : Booked(o)' <=> Booked(o)
    BY <2>1 DEF Booked
  <2>4. Booked(msg)' <=> Booked(msg)
    BY <2>1 DEF Booked
  <2> QED
    BY <2>1, <2>2, <2>3, <2>4
    DEF MarkInv, NotBookedYet, LegSteps, BeforeSend, AfterSend, Working, Delivered
<1>7. CASE RedisCrash
  BY <1>0, <1>7 DEF RedisCrash
<1> QED
  BY <1>2, <1>3, <1>4, <1>5, <1>6, <1>7, ApartSteps

\* An opportunity is marked executed only when one of its legs has a row that
\* says so (mark_opportunity_executed after the loop over the legs).
THEOREM MarkedIsBooked == Spec => []ExecutedIsBooked
<1>1. Init => MarkInv
  BY DEF Init, MarkInv, NotBookedYet, LegSteps, BeforeSend, AfterSend, Working, Orders
<1>2. MarkInv => ExecutedIsBooked
  BY DEF MarkInv, ExecutedIsBooked, Booked
<1> QED
  BY <1>1, <1>2, MarkStep, TypeInvariant, PTL DEF Spec
=============================================================================
