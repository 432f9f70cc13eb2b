--------------------------- MODULE RiskGateProofs ---------------------------
(***************************************************************************)
(* Proofs about RiskGate, for any number of workers and messages and every *)
(* value of the limits.                                                    *)
(***************************************************************************)
EXTENDS RiskGate, FiniteSetTheorems, TLAPS

\* A worker that is busy has a message in hand that was delivered, and the
\* reconciler never counts more positions than there are keys.
MessageOK == \A w \in Workers : wpc[w] \in WorkerSteps => wmsg[w] \in 1 .. delivered

JournalOK == jrows <= Cardinality(Keys)

TypeInv == TypeOK /\ MessageOK /\ JournalOK

LEMMA KeysFinite == Cardinality(Keys) \in Nat
BY SetsAssumption, FS_CardinalityType

LEMMA WorkersFinite == IsFiniteSet(Workers) /\ Cardinality(Workers) \in Nat
BY SetsAssumption, FS_CardinalityType

LEMMA RowsBounded ==
    ASSUME TypeOK
    PROVE  Cardinality(rows) \in Nat /\ Cardinality(rows) <= Cardinality(Keys)
<1>1. rows \in SUBSET Keys
  BY DEF TypeOK
<1> QED
  BY <1>1, SetsAssumption, FS_Subset, FS_CardinalityType

LEMMA TypeInit == Init => TypeInv
<1> SUFFICES ASSUME Init PROVE TypeInv
  OBVIOUS
<1>1. halt \in BOOLEAN /\ newDay \in BOOLEAN /\ enabled \in BOOLEAN /\ cooldown \in BOOLEAN
  BY DEF Init
<1>2. count = 0 /\ limit = "ok" /\ delivered = 0 /\ pel = {} /\ rows = {}
      /\ executedMsgs = {} /\ jpc = "sleep" /\ jrows = 0 /\ crashes = 0 /\ fwdAfterHalt = 0
  BY DEF Init
<1>3. forwards \in [Msgs -> Nat] /\ rejects \in [Msgs -> Nat]
  BY DEF Init
<1>4. wpc \in [Workers -> WorkerSteps \cup {"down", "idle"}] /\ wmsg \in [Workers -> 0 .. MsgCount]
      /\ \A w \in Workers : wpc[w] \notin WorkerSteps
  BY SizesAssumption DEF Init, WorkerSteps
<1>5. seen \in [Workers -> [count : Nat, limit : Limits, halt : BOOLEAN]]
  BY DEF Init, NothingSeen, Limits
<1>6. TypeOK
  BY <1>1, <1>2, <1>3, <1>4, <1>5, SizesAssumption DEF TypeOK, Limits
<1> QED
  BY <1>2, <1>4, <1>6, KeysFinite DEF TypeInv, MessageOK, JournalOK

\* What a step does to one worker keeps the worker's types.
WorkersOK == /\ wpc \in [Workers -> WorkerSteps \cup {"down", "idle"}]
             /\ wmsg \in [Workers -> 0 .. MsgCount]
             /\ seen \in [Workers -> [count : Nat, limit : Limits, halt : BOOLEAN]]
             /\ MessageOK

FlagsOK == halt \in BOOLEAN /\ newDay \in BOOLEAN /\ enabled \in BOOLEAN /\ cooldown \in BOOLEAN

StreamsOK == /\ delivered \in 0 .. MsgCount
             /\ pel \in SUBSET Msgs
             /\ forwards \in [Msgs -> Nat] /\ rejects \in [Msgs -> Nat]

NumbersOK == count \in Nat /\ limit \in Limits /\ crashes \in Nat /\ fwdAfterHalt \in Nat

BooksOK == /\ rows \in SUBSET Keys /\ executedMsgs \in SUBSET Msgs
           /\ jpc \in {"sleep", "write"} /\ jrows \in Nat
           /\ JournalOK

LEMMA TypeParts == TypeInv <=> WorkersOK /\ FlagsOK /\ StreamsOK /\ NumbersOK /\ BooksOK
<1>1. TypeInv => WorkersOK /\ StreamsOK /\ NumbersOK /\ BooksOK
  BY DEF TypeInv, TypeOK, WorkersOK, StreamsOK, NumbersOK, BooksOK
<1>2. TypeInv => FlagsOK
  BY Zenon DEF TypeInv, TypeOK, FlagsOK
<1>3. WorkersOK /\ FlagsOK /\ StreamsOK /\ NumbersOK /\ BooksOK => TypeInv
  BY Zenon DEF TypeInv, TypeOK, WorkersOK, FlagsOK, StreamsOK, NumbersOK, BooksOK
<1> QED
  BY <1>1, <1>2, <1>3

\* A worker goes on to another step with the message it has, or puts it down.
LEMMA GoOn ==
    ASSUME WorkersOK, NEW w \in Workers, NEW t \in WorkerSteps,
           wpc[w] \in WorkerSteps, wpc' = [wpc EXCEPT ![w] = t],
           wmsg' = wmsg, seen' = seen, delivered' = delivered
    PROVE  WorkersOK'
BY DEF WorkersOK, MessageOK

LEMMA PutDown ==
    ASSUME WorkersOK, NEW w \in Workers, NEW t \in {"down", "idle"},
           wpc' = [wpc EXCEPT ![w] = t], wmsg' = [wmsg EXCEPT ![w] = 0],
           seen' = [seen EXCEPT ![w] = NothingSeen], delivered' = delivered
    PROVE  WorkersOK'
BY SizesAssumption DEF WorkersOK, MessageOK, WorkerSteps, NothingSeen, Limits

\* No step but the worker's own touches the worker.
LEMMA WorkersStep ==
    ASSUME TypeInv, [Next]_vars
    PROVE  WorkersOK'
<1> USE DEF At
<1>0. WorkersOK /\ StreamsOK
  BY TypeParts
<1>1. ASSUME NEW w \in Workers, Read(w) PROVE WorkersOK'
  <2>1. /\ wpc' = [wpc EXCEPT ![w] = "date"] /\ wmsg' = [wmsg EXCEPT ![w] = delivered + 1]
        /\ seen' = [seen EXCEPT ![w] = NothingSeen]
        /\ delivered' = delivered + 1 /\ delivered \in Nat /\ delivered < MsgCount
    BY <1>0, <1>1, SizesAssumption DEF Read, StreamsOK
  <2> QED
    BY <1>0, <2>1, SizesAssumption DEF WorkersOK, MessageOK, WorkerSteps, NothingSeen, Limits
<1>2. ASSUME NEW w \in Workers, ReadHash(w) PROVE WorkersOK'
  <2>1. /\ wpc' = [wpc EXCEPT ![w] = "halt"] /\ wpc[w] \in WorkerSteps
        /\ wmsg' = wmsg /\ delivered' = delivered
        /\ seen' = [seen EXCEPT ![w].count = count, ![w].limit = limit]
    BY <1>2 DEF ReadHash, streamVars, WorkerSteps
  <2>2. count \in Nat /\ limit \in Limits
    BY DEF TypeInv, TypeOK
  <2> QED
    BY <1>0, <2>1, <2>2 DEF WorkersOK, MessageOK, WorkerSteps
<1>3. ASSUME NEW w \in Workers, ReadHalt(w) PROVE WorkersOK'
  <2>1. /\ wpc' = [wpc EXCEPT ![w] = "decide"] /\ wpc[w] \in WorkerSteps
        /\ wmsg' = wmsg /\ delivered' = delivered
        /\ seen' = [seen EXCEPT ![w].halt = halt]
    BY <1>3 DEF ReadHalt, streamVars, WorkerSteps
  <2>2. halt \in BOOLEAN
    BY DEF TypeInv, TypeOK
  <2> QED
    BY <1>0, <2>1, <2>2 DEF WorkersOK, MessageOK, WorkerSteps
<1>4. ASSUME NEW w \in Workers,
             ReadDate(w) \/ ResetDaily(w) \/ Decide(w) \/ Increment(w) \/ Forward(w)
                \/ Reject(w) \/ AutoHalt(w) \/ Cool(w) \/ CallFails(w)
      PROVE  WorkersOK'
  <2>1. PICK t \in WorkerSteps : wpc[w] \in WorkerSteps /\ wpc' = [wpc EXCEPT ![w] = t]
    BY <1>4 DEF ReadDate, ResetDaily, Decide, Increment, Forward, Reject, AfterReject,
                AutoHalt, Cool, CallFails, WorkerSteps
  <2>2. wmsg' = wmsg /\ seen' = seen /\ delivered' = delivered
    BY <1>4 DEF ReadDate, ResetDaily, Decide, Increment, Forward, Reject, AutoHalt, Cool,
                CallFails, streamVars
  <2> QED
    BY <1>0, <2>1, <2>2, GoOn
<1>5. ASSUME NEW w \in Workers, Ack(w) \/ Crash(w) PROVE WorkersOK'
  <2>1. PICK t \in {"down", "idle"} : wpc' = [wpc EXCEPT ![w] = t]
    BY <1>5 DEF Ack, Crash
  <2>2. /\ wmsg' = [wmsg EXCEPT ![w] = 0] /\ seen' = [seen EXCEPT ![w] = NothingSeen]
        /\ delivered' = delivered
    BY <1>5 DEF Ack, Crash, streamVars
  <2> QED
    BY <1>0, <2>1, <2>2, PutDown
<1>6. ASSUME NEW w \in Workers, Restart(w) PROVE WorkersOK'
  BY <1>0, <1>6 DEF Restart, WorkersOK, MessageOK, WorkerSteps, streamVars
<1>7. CASE Environment \/ UNCHANGED vars
  <2>1. UNCHANGED <<workerVars, streamVars>>
    BY <1>7 DEF Environment, CountOpen, WriteCount, Execute, Kill, Reset, Toggle, CooldownEnds,
                Midnight, WriteLimit, vars
  <2> QED
    BY <1>0, <2>1 DEF WorkersOK, MessageOK, workerVars, streamVars
<1> QED
  BY <1>1, <1>2, <1>3, <1>4, <1>5, <1>6, <1>7 DEF Next, WorkerStep

\* What a step may do to the state that the workers and the operator share.
LEMMA StepEffects ==
    ASSUME [Next]_vars
    PROVE  /\ halt' = halt \/ halt' = TRUE \/ halt' = FALSE
           /\ newDay' = newDay \/ newDay' = TRUE \/ newDay' = FALSE
           /\ enabled' = enabled \/ enabled' = ~ enabled
           /\ cooldown' = cooldown \/ cooldown' = TRUE \/ cooldown' = FALSE
           /\ limit' = limit \/ limit' = "ok" \/ limit' \in Limits
           /\ crashes' = crashes \/ crashes' = crashes + 1
           /\ \/ count' = count \/ count' = jrows
              \/ count' = count + 1 /\ \E w \in Workers : Increment(w)
           /\ ~ halt /\ halt' => fwdAfterHalt' = 0
           /\ \/ fwdAfterHalt' = fwdAfterHalt \/ fwdAfterHalt' = 0
              \/ fwdAfterHalt' = fwdAfterHalt + 1
           /\ halt /\ halt' => fwdAfterHalt' = fwdAfterHalt \/ \E w \in Workers : Forward(w)
<1> USE DEF Next, WorkerStep, Environment, vars, redisVars, RaiseHalt, Read, ReadDate,
            ResetDaily, ReadHash, ReadHalt, Decide, Reject, AutoHalt, Cool, CallFails,
            Ack, Restart, Crash, CountOpen, WriteCount, Execute, Kill, Reset, Toggle,
            CooldownEnds, Midnight, WriteLimit
<1>1. halt' = halt \/ halt' = TRUE \/ halt' = FALSE
  BY DEF Increment, Forward
<1>2. newDay' = newDay \/ newDay' = TRUE \/ newDay' = FALSE
  BY DEF Increment, Forward
<1>3. enabled' = enabled \/ enabled' = ~ enabled
  BY DEF Increment, Forward
<1>4. cooldown' = cooldown \/ cooldown' = TRUE \/ cooldown' = FALSE
  BY DEF Increment, Forward
<1>5. limit' = limit \/ limit' = "ok" \/ limit' \in Limits
  BY DEF Increment, Forward
<1>6. crashes' = crashes \/ crashes' = crashes + 1
  BY DEF Increment, Forward
<1>7. \/ count' = count \/ count' = jrows
      \/ \E w \in Workers : Increment(w)
  BY DEF Forward
<1>8. (\E w \in Workers : Increment(w)) => count' = count + 1
  BY DEF Increment
<1>9. ~ halt /\ halt' => fwdAfterHalt' = 0
  BY DEF Increment, Forward
<1>10. \/ fwdAfterHalt' = fwdAfterHalt \/ fwdAfterHalt' = 0
       \/ fwdAfterHalt' = fwdAfterHalt + 1
  BY DEF Increment, Forward
<1>11. halt /\ halt' => fwdAfterHalt' = fwdAfterHalt \/ \E w \in Workers : Forward(w)
  BY DEF Increment
<1> QED
  BY <1>1, <1>2, <1>3, <1>4, <1>5, <1>6, <1>7, <1>8, <1>9, <1>10, <1>11, Zenon

LEMMA FlagsStep ==
    ASSUME TypeInv, [Next]_vars
    PROVE  FlagsOK'
<1>1. FlagsOK
  BY TypeParts
<1> QED
  BY <1>1, StepEffects, Zenon DEF FlagsOK

LEMMA StreamsStep ==
    ASSUME TypeInv, [Next]_vars
    PROVE  StreamsOK'
<1>0. StreamsOK /\ WorkersOK
  BY TypeParts
<1>1. ASSUME NEW w \in Workers, Read(w) PROVE StreamsOK'
  BY <1>0, <1>1, SizesAssumption DEF Read, StreamsOK, Msgs
<1>2. ASSUME NEW w \in Workers, Forward(w) \/ Reject(w) PROVE StreamsOK'
  <2>1. UNCHANGED <<delivered, pel>>
    BY <1>2 DEF Forward, Reject
  <2>2. /\ forwards' = forwards \/ forwards' = [forwards EXCEPT ![wmsg[w]] = @ + 1]
        /\ rejects' = rejects \/ rejects' = [rejects EXCEPT ![wmsg[w]] = @ + 1]
    BY <1>2 DEF Forward, Reject
  <2>3. wpc[w] \in WorkerSteps
    BY <1>2 DEF Forward, Reject, At, AfterReject, WorkerSteps
  <2>4. wmsg[w] \in Msgs
    BY <1>0, <2>3, SizesAssumption DEF WorkersOK, MessageOK, StreamsOK, Msgs
  <2> QED
    BY <1>0, <2>1, <2>2, <2>4 DEF StreamsOK
<1>3. ASSUME NEW w \in Workers, Ack(w) PROVE StreamsOK'
  BY <1>0, <1>3 DEF Ack, StreamsOK
<1>4. ASSUME NEW w \in Workers,
             ReadDate(w) \/ ResetDaily(w) \/ ReadHash(w) \/ ReadHalt(w) \/ Decide(w)
                \/ Increment(w) \/ AutoHalt(w) \/ Cool(w) \/ CallFails(w) \/ Restart(w) \/ Crash(w)
      PROVE  StreamsOK'
  <2>1. UNCHANGED streamVars
    BY <1>4 DEF ReadDate, ResetDaily, ReadHash, ReadHalt, Decide, Increment, AutoHalt, Cool,
                CallFails, Restart, Crash
  <2> QED
    BY <1>0, <2>1 DEF StreamsOK, streamVars
<1>5. CASE Environment \/ UNCHANGED vars
  <2>1. UNCHANGED streamVars
    BY <1>5 DEF Environment, CountOpen, WriteCount, Execute, Kill, Reset, Toggle, CooldownEnds,
                Midnight, WriteLimit, vars
  <2> QED
    BY <1>0, <2>1 DEF StreamsOK, streamVars
<1> QED
  BY <1>1, <1>2, <1>3, <1>4, <1>5 DEF Next, WorkerStep

LEMMA NumbersStep ==
    ASSUME TypeInv, [Next]_vars
    PROVE  NumbersOK'
<1>1. NumbersOK /\ BooksOK
  BY TypeParts
<1>2. /\ limit' = limit \/ limit' = "ok" \/ limit' \in Limits
      /\ crashes' = crashes \/ crashes' = crashes + 1
      /\ count' = count \/ count' = jrows \/ count' = count + 1
      /\ fwdAfterHalt' = fwdAfterHalt \/ fwdAfterHalt' = 0 \/ fwdAfterHalt' = fwdAfterHalt + 1
  BY StepEffects, Zenon
<1> QED
  BY <1>1, <1>2 DEF NumbersOK, BooksOK, Limits

LEMMA BooksStep ==
    ASSUME TypeInv, [Next]_vars
    PROVE  BooksOK'
<1>0. BooksOK
  BY TypeParts
<1>1. ASSUME NEW m \in Msgs, Execute(m) PROVE BooksOK'
  <2>1. KeysOf[m] \in SUBSET Keys
    BY SetsAssumption
  <2> QED
    BY <1>0, <1>1, <2>1 DEF Execute, BooksOK, JournalOK, journalVars
<1>2. CASE CountOpen
  <2>1. Cardinality(rows) \in Nat /\ Cardinality(rows) <= Cardinality(Keys)
    BY RowsBounded DEF TypeInv
  <2> QED
    BY <1>0, <1>2, <2>1 DEF CountOpen, BooksOK, JournalOK, bookVars
<1>3. CASE WriteCount
  BY <1>0, <1>3, KeysFinite DEF WriteCount, BooksOK, JournalOK, bookVars
<1>4. CASE UNCHANGED <<bookVars, journalVars>>
  BY <1>0, <1>4 DEF BooksOK, JournalOK, bookVars, journalVars
<1>5. \/ \E m \in Msgs : Execute(m)
      \/ CountOpen \/ WriteCount
      \/ UNCHANGED <<bookVars, journalVars>>
  BY DEF Next, WorkerStep, Environment, vars, RaiseHalt, Read, ReadDate, ResetDaily,
         ReadHash, ReadHalt, Decide, Increment, Forward, Reject, AutoHalt, Cool, CallFails,
         Ack, Restart, Crash, Kill, Reset, Toggle, CooldownEnds, Midnight, WriteLimit
<1> QED
  BY <1>1, <1>2, <1>3, <1>4, <1>5

LEMMA TypeInvariant == Spec => []TypeInv
<1>1. TypeInv /\ [Next]_vars => TypeInv'
  <2> SUFFICES ASSUME TypeInv, [Next]_vars PROVE TypeInv'
    OBVIOUS
  <2>1. WorkersOK' /\ FlagsOK' /\ StreamsOK' /\ NumbersOK' /\ BooksOK'
    BY WorkersStep, FlagsStep, StreamsStep, NumbersStep, BooksStep
  <2> QED
    BY <2>1, TypeParts, PTL
<1> QED
  BY <1>1, TypeInit, PTL DEF Spec

\* Every variable keeps its type (the hash fields of risk:state, the streams,
\* what each worker has read).
THEOREM TypeCorrect == Spec => []TypeOK
<1>1. TypeInv => TypeOK
  BY DEF TypeInv
<1> QED
  BY <1>1, TypeInvariant, PTL

-----------------------------------------------------------------------------
(***************************************************************************)
(* RoutedOnce.  A message has no entry in either stream before it is read  *)
(* and while a worker has not decided on it, and no two workers have the   *)
(* same message in hand.                                                   *)
(***************************************************************************)
Undecided == WorkerSteps \ {"autohalt", "cool", "ack"}

Unrouted(m) == forwards[m] = 0 /\ rejects[m] = 0

RouteInv ==
    /\ \A m \in Msgs : forwards[m] + rejects[m] <= 1
    /\ \A m \in Msgs : m > delivered => Unrouted(m)
    /\ \A w \in Workers : wpc[w] \in Undecided => Unrouted(wmsg[w])
    /\ \A v, w \in Workers :
          wpc[v] \in Undecided /\ wpc[w] \in Undecided /\ v # w => wmsg[v] # wmsg[w]

\* A step that routes nothing and takes up no message.
NoRoute ==
    /\ UNCHANGED <<delivered, forwards, rejects>>
    /\ \A w \in Workers : wpc'[w] \in Undecided => wpc[w] \in Undecided /\ wmsg'[w] = wmsg[w]

LEMMA NoRouteSteps ==
    ASSUME TypeInv, [Next]_vars
    PROVE  NoRoute \/ \E w \in Workers : Read(w) \/ Forward(w) \/ Reject(w)
<1>0. WorkersOK
  BY TypeParts
<1>1. ASSUME NEW w \in Workers,
             ReadDate(w) \/ ResetDaily(w) \/ ReadHash(w) \/ ReadHalt(w) \/ Decide(w)
                \/ Increment(w) \/ AutoHalt(w) \/ Cool(w) \/ CallFails(w)
      PROVE  NoRoute
  <2>1. UNCHANGED <<delivered, forwards, rejects, wmsg>>
    BY <1>1 DEF ReadDate, ResetDaily, ReadHash, ReadHalt, Decide, Increment, AutoHalt, Cool,
                CallFails, streamVars
  <2>2. PICK t : /\ wpc' = [wpc EXCEPT ![w] = t]
                 /\ t \in Undecided => wpc[w] \in Undecided
    BY <1>1 DEF ReadDate, ResetDaily, ReadHash, ReadHalt, Decide, Increment, AutoHalt, Cool,
                CallFails, At, Undecided, WorkerSteps
  <2> QED
    BY <1>0, <2>1, <2>2 DEF NoRoute, WorkersOK
<1>2. ASSUME NEW w \in Workers, Ack(w) \/ Restart(w) \/ Crash(w) PROVE NoRoute
  <2>1. UNCHANGED <<delivered, forwards, rejects>>
        /\ (wmsg' = wmsg \/ wmsg' = [wmsg EXCEPT ![w] = 0])
    BY <1>2 DEF Ack, Restart, Crash, streamVars
  <2>2. PICK t \in {"down", "idle"} : wpc' = [wpc EXCEPT ![w] = t]
    BY <1>2 DEF Ack, Restart, Crash, At
  <2> QED
    BY <1>0, <2>1, <2>2 DEF NoRoute, WorkersOK, Undecided, WorkerSteps
<1>3. CASE Environment \/ UNCHANGED vars
  <2>1. UNCHANGED <<workerVars, streamVars>>
    BY <1>3 DEF Environment, CountOpen, WriteCount, Execute, Kill, Reset, Toggle, CooldownEnds,
                Midnight, WriteLimit, vars
  <2> QED
    BY <2>1 DEF NoRoute, workerVars, streamVars
<1> QED
  BY <1>1, <1>2, <1>3 DEF Next, WorkerStep

LEMMA RouteStep == TypeInv /\ RouteInv /\ [Next]_vars => RouteInv'
<1> SUFFICES ASSUME TypeInv, RouteInv, [Next]_vars PROVE RouteInv'
  OBVIOUS
<1>0. WorkersOK /\ StreamsOK
  BY TypeParts
<1>1. CASE NoRoute
  BY <1>1 DEF NoRoute, RouteInv, Unrouted
<1>2. ASSUME NEW w \in Workers, Read(w) PROVE RouteInv'
  <2>1. /\ wpc' = [wpc EXCEPT ![w] = "date"] /\ wmsg' = [wmsg EXCEPT ![w] = delivered + 1]
        /\ delivered' = delivered + 1 /\ delivered < MsgCount /\ delivered \in Nat
        /\ UNCHANGED <<forwards, rejects>>
    BY <1>0, <1>2, SizesAssumption DEF Read, At, StreamsOK
  <2>2. delivered + 1 \in Msgs /\ Unrouted(delivered + 1)
    BY <2>1, SizesAssumption DEF RouteInv, Msgs
  <2>3. ASSUME NEW v \in Workers, v # w
        PROVE  /\ wpc'[v] = wpc[v] /\ wmsg'[v] = wmsg[v]
               /\ wpc[v] \in Undecided => wmsg[v] # delivered + 1
    BY <1>0, <2>1, <2>3 DEF WorkersOK, MessageOK, Undecided
  <2>4. wpc'[w] = "date" /\ wmsg'[w] = delivered + 1
    BY <1>0, <2>1 DEF WorkersOK
  <2>5. \A m \in Msgs : m > delivered' => m > delivered
    BY <2>1, SizesAssumption DEF Msgs
  <2>6. \A v \in Workers : (wpc[v] \in Undecided => Unrouted(wmsg[v]))'
    BY <2>1, <2>2, <2>3, <2>4 DEF RouteInv, Unrouted
  <2>7. \A u, v \in Workers :
            wpc'[u] \in Undecided /\ wpc'[v] \in Undecided /\ u # v => wmsg'[u] # wmsg'[v]
    BY <2>3, <2>4 DEF RouteInv
  <2> QED
    BY <2>1, <2>5, <2>6, <2>7 DEF RouteInv, Unrouted
<1>3. ASSUME NEW w \in Workers, Forward(w) \/ Reject(w) PROVE RouteInv'
  <2>1. PICK t \in {"ack", "autohalt", "cool"} : wpc' = [wpc EXCEPT ![w] = t]
    BY <1>3 DEF Forward, Reject, At, AfterReject
  <2>2. wpc[w] \in Undecided /\ UNCHANGED <<wmsg, delivered>>
    BY <1>3 DEF Forward, Reject, At, AfterReject, Undecided, WorkerSteps
  <2>3. /\ wmsg[w] \in Msgs /\ wmsg[w] <= delivered /\ Unrouted(wmsg[w])
    BY <1>0, <2>2, SizesAssumption DEF WorkersOK, MessageOK, StreamsOK, Undecided, RouteInv, Msgs
  <2>4. /\ \/ forwards' = [forwards EXCEPT ![wmsg[w]] = @ + 1] /\ rejects' = rejects
           \/ rejects' = [rejects EXCEPT ![wmsg[w]] = @ + 1] /\ forwards' = forwards
    BY <1>3 DEF Forward, Reject
  <2>5. /\ \A m \in Msgs : m # wmsg[w] => forwards'[m] = forwards[m] /\ rejects'[m] = rejects[m]
        /\ forwards'[wmsg[w]] + rejects'[wmsg[w]] = 1
    BY <1>0, <2>3, <2>4 DEF StreamsOK, Unrouted
  <2>6. ASSUME NEW v \in Workers, wpc'[v] \in Undecided
        PROVE  v # w /\ wpc[v] \in Undecided /\ wmsg[v] # wmsg[w] /\ wmsg[v] \in Msgs
    <3>1. v # w /\ wpc[v] \in Undecided
      BY <1>0, <2>1, <2>6 DEF WorkersOK, Undecided, WorkerSteps
    <3>2. wmsg[v] \in Msgs
      BY <1>0, <3>1, SizesAssumption DEF WorkersOK, MessageOK, StreamsOK, Undecided, Msgs
    <3> QED
      BY <2>2, <3>1, <3>2 DEF RouteInv
  <2>7. \A m \in Msgs : forwards'[m] + rejects'[m] <= 1
    BY <2>5 DEF RouteInv
  <2>8. \A m \in Msgs : m > delivered' => Unrouted(m)'
    <3> SUFFICES ASSUME NEW m \in Msgs, m > delivered PROVE Unrouted(m)'
      BY <2>2
    <3>1. Unrouted(m)
      BY DEF RouteInv
    <3>2. delivered \in Nat /\ m \in Nat
      BY <1>0, SizesAssumption DEF StreamsOK, Msgs
    <3>3. m # wmsg[w]
      BY <2>3, <3>2
    <3> QED
      BY <2>5, <3>1, <3>3 DEF Unrouted
  <2>9. \A v \in Workers : (wpc[v] \in Undecided => Unrouted(wmsg[v]))'
    BY <2>2, <2>5, <2>6 DEF RouteInv, Unrouted
  <2>10. \A u, v \in Workers :
            wpc'[u] \in Undecided /\ wpc'[v] \in Undecided /\ u # v => wmsg'[u] # wmsg'[v]
    BY <2>2, <2>6 DEF RouteInv
  <2> QED
    BY <2>7, <2>8, <2>9, <2>10 DEF RouteInv
<1> QED
  BY <1>1, <1>2, <1>3, NoRouteSteps

\* No opportunity gets two entries in the execution queue, nor one there and one
\* among the rejected, whatever fails and however many workers read the stream.
THEOREM RoutesOnce == Spec => []RoutedOnce
<1>1. Init => RouteInv
  BY DEF Init, RouteInv, Unrouted, Undecided, WorkerSteps
<1>2. RouteInv => RoutedOnce
  BY DEF RouteInv, RoutedOnce
<1> QED
  BY <1>1, <1>2, RouteStep, TypeInvariant, PTL DEF Spec

-----------------------------------------------------------------------------
(***************************************************************************)
(* HaltOvershoot.  Only the workers that looked at risk:halt before it was *)
(* raised still forward, each once; a halt adds none to them.              *)
(***************************************************************************)
HasPassed(w) == \/ wpc[w] \in {"incr", "forward"}
                \/ wpc[w] = "decide" /\ ~ seen[w].halt

Passed == {w \in Workers : HasPassed(w)}

HaltInv == halt => fwdAfterHalt + Cardinality(Passed) <= Cardinality(Workers)

LEMMA PassedFinite == IsFiniteSet(Passed) /\ Cardinality(Passed) \in Nat
                      /\ Cardinality(Passed) <= Cardinality(Workers)
<1>1. Passed \in SUBSET Workers
  BY DEF Passed
<1> QED
  BY <1>1, SetsAssumption, FS_Subset, FS_CardinalityType

LEMMA PassedLater == IsFiniteSet(Passed') /\ Cardinality(Passed') \in Nat
                     /\ Cardinality(Passed') <= Cardinality(Workers)
<1>1. Passed' \in SUBSET Workers
  BY DEF Passed
<1> QED
  BY <1>1, SetsAssumption, FS_Subset, FS_CardinalityType

\* While the halt is up no worker comes to have passed.
LEMMA NobodyPasses ==
    ASSUME TypeInv, [Next]_vars, halt, NEW v \in Workers, HasPassed(v)'
    PROVE  HasPassed(v)
<1> USE DEF At, HasPassed
<1>0. WorkersOK
  BY TypeParts
<1>1. ASSUME NEW w \in Workers, Read(w) PROVE HasPassed(v)
  BY <1>0, <1>1 DEF Read, WorkersOK
<1>2. ASSUME NEW w \in Workers, ReadDate(w) PROVE HasPassed(v)
  BY <1>0, <1>2 DEF ReadDate, WorkersOK
<1>3. ASSUME NEW w \in Workers, ResetDaily(w) PROVE HasPassed(v)
  BY <1>0, <1>3 DEF ResetDaily, WorkersOK
<1>4. ASSUME NEW w \in Workers, ReadHash(w) PROVE HasPassed(v)
  BY <1>0, <1>4 DEF ReadHash, WorkersOK
<1>5. ASSUME NEW w \in Workers, ReadHalt(w) PROVE HasPassed(v)
  <2>1. CASE v = w
    <3>1. wpc'[v] = "decide" /\ seen'[v].halt = halt
      BY <1>0, <1>5, <2>1 DEF ReadHalt, WorkersOK
    <3> QED
      BY <3>1
  <2>2. CASE v # w
    BY <1>0, <1>5, <2>2 DEF ReadHalt, WorkersOK
  <2> QED
    BY <2>1, <2>2
<1>6. ASSUME NEW w \in Workers, Decide(w) PROVE HasPassed(v)
  <2>1. CASE v = w
    <3>1. PICK verdict \in {"incr", "reject", "rejectHalt", "rejectCool"}, exposure \in Exposures :
              /\ Checks(seen[w], exposure, verdict)
              /\ wpc[w] = "decide" /\ wpc' = [wpc EXCEPT ![w] = verdict]
      BY <1>6 DEF Decide
    <3>2. wpc'[v] = verdict
      BY <1>0, <2>1, <3>1 DEF WorkersOK
    <3>3. ~ seen[w].halt
      BY <3>1, <3>2 DEF Checks
    <3> QED
      BY <2>1, <3>1, <3>3
  <2>2. CASE v # w
    BY <1>0, <1>6, <2>2 DEF Decide, WorkersOK
  <2> QED
    BY <2>1, <2>2
<1>7. ASSUME NEW w \in Workers, Increment(w) PROVE HasPassed(v)
  BY <1>0, <1>7 DEF Increment, WorkersOK
<1>8. ASSUME NEW w \in Workers, Forward(w) PROVE HasPassed(v)
  BY <1>0, <1>8 DEF Forward, WorkersOK
<1>9. ASSUME NEW w \in Workers, Reject(w) PROVE HasPassed(v)
  BY <1>0, <1>9 DEF Reject, AfterReject, WorkersOK
<1>10. ASSUME NEW w \in Workers, AutoHalt(w) \/ Cool(w) PROVE HasPassed(v)
  BY <1>0, <1>10 DEF AutoHalt, Cool, WorkersOK
<1>11. ASSUME NEW w \in Workers, CallFails(w) PROVE HasPassed(v)
  BY <1>0, <1>11 DEF CallFails, WorkersOK
<1>12. ASSUME NEW w \in Workers, Ack(w) \/ Crash(w) PROVE HasPassed(v)
  BY <1>0, <1>12 DEF Ack, Crash, WorkersOK
<1>13. ASSUME NEW w \in Workers, Restart(w) PROVE HasPassed(v)
  BY <1>0, <1>13 DEF Restart, WorkersOK
<1>14. CASE Environment \/ UNCHANGED vars
  <2>1. UNCHANGED workerVars
    BY <1>14 DEF Environment, CountOpen, WriteCount, Execute, Kill, Reset, Toggle, CooldownEnds,
                 Midnight, WriteLimit, vars
  <2> QED
    BY <2>1 DEF workerVars
<1> QED
  BY <1>1, <1>2, <1>3, <1>4, <1>5, <1>6, <1>7, <1>8, <1>9, <1>10, <1>11, <1>12, <1>13, <1>14
  DEF Next, WorkerStep

LEMMA HaltStep == TypeInv /\ TypeInv' /\ HaltInv /\ [Next]_vars => HaltInv'
<1> SUFFICES ASSUME TypeInv, TypeInv', HaltInv, [Next]_vars, halt'
             PROVE  fwdAfterHalt' + Cardinality(Passed') <= Cardinality(Workers)
  BY DEF HaltInv
<1>0. WorkersOK /\ fwdAfterHalt \in Nat
  BY TypeParts DEF NumbersOK
<1>1. CASE ~ halt
  <2>1. fwdAfterHalt' = 0
    BY <1>1, StepEffects
  <2> QED
    BY <2>1, PassedLater, WorkersFinite
<1>2. CASE halt
  <2>1. Passed' \subseteq Passed
    BY <1>2, NobodyPasses DEF Passed
  <2>2. Cardinality(Passed') <= Cardinality(Passed)
    BY <2>1, PassedFinite, FS_Subset
  <2>3. ASSUME NEW w \in Workers, Forward(w)
        PROVE  Cardinality(Passed') <= Cardinality(Passed) - 1 /\ fwdAfterHalt' = fwdAfterHalt + 1
    <3>1. w \in Passed /\ w \notin Passed'
      BY <1>0, <2>3 DEF Forward, At, Passed, HasPassed, WorkersOK
    <3>2. Passed' \in SUBSET (Passed \ {w})
      BY <2>1, <3>1
    <3>3. Cardinality(Passed \ {w}) = Cardinality(Passed) - 1 /\ IsFiniteSet(Passed \ {w})
      BY <3>1, PassedFinite, FS_RemoveElement
    <3>4. Cardinality(Passed') <= Cardinality(Passed \ {w})
      BY <3>2, <3>3, FS_Subset
    <3> QED
      BY <1>2, <2>3, <3>3, <3>4 DEF Forward
  <2>4. fwdAfterHalt' = fwdAfterHalt \/ \E w \in Workers : Forward(w)
    BY <1>2, StepEffects
  <2> QED
    BY <1>0, <1>2, <2>2, <2>3, <2>4, PassedFinite, PassedLater, WorkersFinite DEF HaltInv
<1> QED
  BY <1>1, <1>2

\* Once the kill switch is up, each worker forwards at most the one message it
\* had already checked.
THEOREM HaltOvershootIsOneEach == Spec => []HaltOvershoot
<1>1. Init => HaltInv
  BY DEF Init, HaltInv
<1>2. TypeInv /\ HaltInv => HaltOvershoot
  <2> SUFFICES ASSUME TypeInv, HaltInv, halt PROVE fwdAfterHalt <= Cardinality(Workers)
    BY DEF HaltOvershoot
  <2>1. fwdAfterHalt \in Nat
    BY DEF TypeInv, TypeOK
  <2> QED
    BY <2>1, PassedFinite, WorkersFinite DEF HaltInv
<1> QED
  BY <1>1, <1>2, HaltStep, TypeInvariant, PTL DEF Spec

-----------------------------------------------------------------------------
(***************************************************************************)
(* CountBounded.  A worker is ready when it read a count below the limit   *)
(* and has not incremented yet.  The count and the ready workers together  *)
(* stay within what one write of the reconciler, or one read of a free     *)
(* slot, may allow, and all the workers.                                   *)
(***************************************************************************)
IsReady(w) == \/ wpc[w] = "incr"
              \/ wpc[w] \in {"halt", "decide"} /\ seen[w].count < MaxOpen

Ready == {w \in Workers : IsReady(w)}

CountInv == count + Cardinality(Ready) <= Allowed + Cardinality(Workers)

LEMMA AllowedType ==
    /\ Allowed \in Nat
    /\ Cardinality(Keys) <= Allowed
    /\ \A n \in Nat : n < MaxOpen => n <= Allowed
BY KeysFinite, SizesAssumption DEF Allowed

LEMMA ReadyFinite == IsFiniteSet(Ready) /\ Cardinality(Ready) \in Nat
                     /\ Cardinality(Ready) <= Cardinality(Workers)
<1>1. Ready \in SUBSET Workers
  BY DEF Ready
<1> QED
  BY <1>1, SetsAssumption, FS_Subset, FS_CardinalityType

LEMMA ReadyLater == IsFiniteSet(Ready') /\ Cardinality(Ready') \in Nat
                    /\ Cardinality(Ready') <= Cardinality(Workers)
<1>1. Ready' \in SUBSET Workers
  BY DEF Ready
<1> QED
  BY <1>1, SetsAssumption, FS_Subset, FS_CardinalityType

\* Only a worker that reads a free slot becomes ready.
LEMMA NobodyGetsReady ==
    ASSUME TypeInv, [Next]_vars, NEW v \in Workers, IsReady(v)', ~ IsReady(v)
    PROVE  ReadHash(v) /\ count < MaxOpen
<1> USE DEF At, IsReady
<1>0. WorkersOK
  BY TypeParts
<1>1. ASSUME NEW w \in Workers, Read(w) PROVE FALSE
  BY <1>0, <1>1 DEF Read, WorkersOK
<1>2. ASSUME NEW w \in Workers, ReadDate(w) PROVE FALSE
  BY <1>0, <1>2 DEF ReadDate, WorkersOK
<1>3. ASSUME NEW w \in Workers, ResetDaily(w) PROVE FALSE
  BY <1>0, <1>3 DEF ResetDaily, WorkersOK
<1>4. ASSUME NEW w \in Workers, ReadHash(w) PROVE ReadHash(v) /\ count < MaxOpen
  <2>1. v = w
    BY <1>0, <1>4 DEF ReadHash, WorkersOK
  <2>2. seen'[v].count = count /\ wpc'[v] = "halt"
    BY <1>0, <1>4, <2>1 DEF ReadHash, WorkersOK
  <2> QED
    BY <1>4, <2>1, <2>2
<1>5. ASSUME NEW w \in Workers, ReadHalt(w) PROVE FALSE
  <2>1. seen'[v].count = seen[v].count
    BY <1>0, <1>5 DEF ReadHalt, WorkersOK
  <2> QED
    BY <1>0, <1>5, <2>1 DEF ReadHalt, WorkersOK
<1>6. ASSUME NEW w \in Workers, Decide(w) PROVE FALSE
  <2>1. CASE v = w
    <3>1. PICK verdict \in {"incr", "reject", "rejectHalt", "rejectCool"}, exposure \in Exposures :
              /\ Checks(seen[w], exposure, verdict)
              /\ wpc[w] = "decide" /\ wpc' = [wpc EXCEPT ![w] = verdict]
      BY <1>6 DEF Decide
    <3>2. verdict = "incr"
      BY <1>0, <2>1, <3>1 DEF WorkersOK
    <3>3. ~ (seen[w].count >= MaxOpen)
      BY <3>1, <3>2 DEF Checks
    <3>4. seen[w].count \in Nat
      BY <1>0 DEF WorkersOK
    <3> QED
      BY <2>1, <3>1, <3>3, <3>4, SizesAssumption
  <2>2. CASE v # w
    BY <1>0, <1>6, <2>2 DEF Decide, WorkersOK
  <2> QED
    BY <2>1, <2>2
<1>7. ASSUME NEW w \in Workers, Increment(w) PROVE FALSE
  BY <1>0, <1>7 DEF Increment, WorkersOK
<1>8. ASSUME NEW w \in Workers, Forward(w) PROVE FALSE
  BY <1>0, <1>8 DEF Forward, WorkersOK
<1>9. ASSUME NEW w \in Workers, Reject(w) PROVE FALSE
  BY <1>0, <1>9 DEF Reject, AfterReject, WorkersOK
<1>10. ASSUME NEW w \in Workers, AutoHalt(w) \/ Cool(w) PROVE FALSE
  BY <1>0, <1>10 DEF AutoHalt, Cool, WorkersOK
<1>11. ASSUME NEW w \in Workers, CallFails(w) PROVE FALSE
  BY <1>0, <1>11 DEF CallFails, WorkersOK
<1>12. ASSUME NEW w \in Workers, Ack(w) \/ Crash(w) PROVE FALSE
  BY <1>0, <1>12 DEF Ack, Crash, WorkersOK
<1>13. ASSUME NEW w \in Workers, Restart(w) PROVE FALSE
  BY <1>0, <1>13 DEF Restart, WorkersOK
<1>14. CASE Environment \/ UNCHANGED vars
  <2>1. UNCHANGED workerVars
    BY <1>14 DEF Environment, CountOpen, WriteCount, Execute, Kill, Reset, Toggle, CooldownEnds,
                 Midnight, WriteLimit, vars
  <2> QED
    BY <2>1 DEF workerVars
<1> QED
  BY <1>1, <1>2, <1>3, <1>4, <1>5, <1>6, <1>7, <1>8, <1>9, <1>10, <1>11, <1>12, <1>13, <1>14
  DEF Next, WorkerStep

LEMMA CountStep == TypeInv /\ TypeInv' /\ CountInv /\ [Next]_vars => CountInv'
<1> SUFFICES ASSUME TypeInv, TypeInv', CountInv, [Next]_vars
             PROVE  count' + Cardinality(Ready') <= Allowed + Cardinality(Workers)
  BY DEF CountInv, Allowed
<1>0. WorkersOK /\ count \in Nat /\ count' \in Nat /\ jrows \in Nat /\ jrows <= Allowed
  BY TypeParts, AllowedType, KeysFinite DEF NumbersOK, BooksOK, TypeInv, TypeOK, JournalOK
<1>1. ASSUME NEW v \in Workers, ReadHash(v), count < MaxOpen
      PROVE  count' + Cardinality(Ready') <= Allowed + Cardinality(Workers)
  <2>1. count' = count /\ count <= Allowed
    BY <1>0, <1>1, AllowedType DEF ReadHash, redisVars
  <2> QED
    BY <1>0, <2>1, ReadyLater, AllowedType, WorkersFinite
<1>2. ASSUME Ready' \subseteq Ready
      PROVE  count' + Cardinality(Ready') <= Allowed + Cardinality(Workers)
  <2>1. Cardinality(Ready') <= Cardinality(Ready)
    BY <1>2, ReadyFinite, FS_Subset
  <2>2. CASE count' = count
    BY <1>0, <2>1, <2>2, ReadyFinite, ReadyLater, AllowedType, WorkersFinite DEF CountInv
  <2>3. CASE count' = jrows
    BY <1>0, <2>3, ReadyLater, AllowedType, WorkersFinite
  <2>4. ASSUME NEW w \in Workers, Increment(w)
        PROVE  count' = count + 1 /\ Cardinality(Ready') <= Cardinality(Ready) - 1
    <3>1. w \in Ready /\ w \notin Ready'
      BY <1>0, <2>4 DEF Increment, At, Ready, IsReady, WorkersOK
    <3>2. Ready' \in SUBSET (Ready \ {w})
      BY <1>2, <3>1
    <3>3. Cardinality(Ready \ {w}) = Cardinality(Ready) - 1 /\ IsFiniteSet(Ready \ {w})
      BY <3>1, ReadyFinite, FS_RemoveElement
    <3>4. Cardinality(Ready') <= Cardinality(Ready \ {w})
      BY <3>2, <3>3, FS_Subset
    <3> QED
      BY <2>4, <3>3, <3>4 DEF Increment
  <2>5. count' = count \/ count' = jrows \/ \E w \in Workers : Increment(w)
    BY StepEffects
  <2> QED
    BY <1>0, <2>2, <2>3, <2>4, <2>5, ReadyFinite, ReadyLater, AllowedType, WorkersFinite
    DEF CountInv
<1> QED
  <2>1. CASE \E v \in Workers : ReadHash(v) /\ count < MaxOpen
    BY <1>1, <2>1
  <2>2. CASE ~ \E v \in Workers : ReadHash(v) /\ count < MaxOpen
    <3>1. Ready' \subseteq Ready
      BY <2>2, NobodyGetsReady DEF Ready
    <3> QED
      BY <1>2, <3>1
  <2> QED
    BY <2>1, <2>2

\* The position count goes at most one per worker beyond what the limit or the
\* reconciler allowed.
THEOREM CountIsBounded == Spec => []CountBounded
<1>1. Init => CountInv
  <2> SUFFICES ASSUME Init PROVE CountInv
    OBVIOUS
  <2>1. count = 0
    BY DEF Init
  <2> QED
    BY <2>1, ReadyFinite, AllowedType, WorkersFinite DEF CountInv
<1>2. TypeInv /\ CountInv => CountBounded
  <2> SUFFICES ASSUME TypeInv, CountInv PROVE count <= Allowed + Cardinality(Workers)
    BY DEF CountBounded
  <2>1. count \in Nat
    BY DEF TypeInv, TypeOK
  <2> QED
    BY <2>1, ReadyFinite, AllowedType, WorkersFinite DEF CountInv
<1> QED
  BY <1>1, <1>2, CountStep, TypeInvariant, PTL DEF Spec
=============================================================================
