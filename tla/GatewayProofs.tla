--------------------------- MODULE GatewayProofs ----------------------------
(***************************************************************************)
(* Proofs about the gateway's components as MCGateway puts them side by    *)
(* side, and of the halt control by itself: for any number of requests,    *)
(* risk workers and strategies, any set of changes, calls and operators,   *)
(* any limit, window and lifetime of the cache, and any bound of a clock.  *)
(***************************************************************************)
EXTENDS MCGateway, Sequences, FiniteSetTheorems, TLAPS

-----------------------------------------------------------------------------
(***************************************************************************)
(* The halt control: types.                                                *)
(***************************************************************************)
CopiesOK == flag \in {"none", "0", "1"} /\ mirror \in {"none", "0", "1"}

RequestsOK == /\ enabled \in SUBSET Strategies
              /\ kind \in [Requests -> Kinds \cup {"none"}]
              /\ rpc \in [Requests -> Steps \cup {"free"}]
              /\ todo \in [Requests -> SUBSET Strategies]

DisturbedOK == disturbed \in [Requests -> BOOLEAN]

WorkersOK == wpc \in [RiskWorkers -> {"down", "seed", "seedflag", "check", "resync", "up"}]

HistoryOK == last \in Kinds \cup {"none"} /\ crashes \in Nat

FreshOK == fresh \in BOOLEAN

\* A request that is being served has a kind.
KindOK == \A r \in Requests : rpc[r] # "free" => kind[r] \in Kinds

TypeInv == TypeOK /\ KindOK

LEMMA TypeParts ==
    TypeOK <=> CopiesOK /\ RequestsOK /\ DisturbedOK /\ WorkersOK /\ HistoryOK /\ FreshOK
BY Zenon DEF TypeOK, CopiesOK, RequestsOK, DisturbedOK, WorkersOK, HistoryOK, FreshOK

LEMMA TypeInit == Init => TypeInv
<1> SUFFICES ASSUME Init PROVE TypeInv
  OBVIOUS
<1>1. fresh \in BOOLEAN /\ CopiesOK
  BY DEF Init, CopiesOK
<1>2. RequestsOK /\ KindOK
  BY DEF Init, RequestsOK, KindOK, Kinds, Steps
<1>3. DisturbedOK
  BY DEF Init, DisturbedOK
<1>4. WorkersOK /\ HistoryOK
  BY DEF Init, WorkersOK, HistoryOK
<1> QED
  BY <1>1, <1>2, <1>3, <1>4, TypeParts DEF TypeInv, FreshOK

LEMMA CopiesStep == TypeInv /\ [Next]_vars => CopiesOK'
<1> SUFFICES ASSUME TypeInv, [Next]_vars PROVE CopiesOK'
  OBVIOUS
<1>0. CopiesOK
  BY TypeParts DEF TypeInv
<1>1. \A k : Value(k) \in {"0", "1"}
  BY DEF Value
<1>2. /\ flag' = flag \/ flag' \in {"0", "1"}
      /\ mirror' = mirror \/ mirror' \in {"0", "1"}
  BY <1>1 DEF Next, RequestStep, WorkerStep, Begin, SetFlag, SetMirror, SetStrategy, Answer,
              RequestFails, Toggle, Boot, Seed, SeedFlag, Check, Resync, AutoHalt, Crash, vars
<1> QED
  BY <1>0, <1>2 DEF CopiesOK

LEMMA RequestsStep == TypeInv /\ [Next]_vars => RequestsOK' /\ KindOK'
<1> SUFFICES ASSUME TypeInv, [Next]_vars PROVE RequestsOK' /\ KindOK'
  OBVIOUS
<1>0. RequestsOK /\ KindOK
  BY TypeParts DEF TypeInv
<1>1. ASSUME NEW r \in Requests, NEW k \in Kinds, Begin(r, k) PROVE RequestsOK' /\ KindOK'
  BY <1>0, <1>1 DEF Begin, Goto, RequestsOK, KindOK, Steps
<1>2. ASSUME NEW r \in Requests, SetFlag(r) PROVE RequestsOK' /\ KindOK'
  BY <1>0, <1>2 DEF SetFlag, Goto, RequestsOK, KindOK, Steps
<1>3. ASSUME NEW r \in Requests, SetMirror(r) PROVE RequestsOK' /\ KindOK'
  BY <1>0, <1>3 DEF SetMirror, Goto, RequestsOK, KindOK, Steps
<1>4. ASSUME NEW r \in Requests, SetStrategy(r) PROVE RequestsOK' /\ KindOK'
  <2>1. PICK s \in todo[r] :
          /\ enabled' = enabled \cup {s} \/ enabled' = enabled \ {s}
          /\ todo' = [todo EXCEPT ![r] = @ \ {s}]
          /\ rpc' = rpc \/ rpc' = [rpc EXCEPT ![r] = "audit"]
    BY <1>4 DEF SetStrategy
  <2>2. s \in Strategies /\ kind' = kind /\ rpc[r] = "strategies"
    BY <1>0, <1>4 DEF SetStrategy, RequestsOK
  <2>3. RequestsOK'
    BY <1>0, <2>1, <2>2 DEF RequestsOK, Steps
  <2>4. KindOK'
    BY <1>0, <2>1, <2>2 DEF RequestsOK, KindOK
  <2> QED
    BY <2>3, <2>4
<1>5. ASSUME NEW r \in Requests, Answer(r) \/ RequestFails(r) PROVE RequestsOK' /\ KindOK'
  <2>1. /\ enabled' = enabled
        /\ rpc' = [rpc EXCEPT ![r] = "free"] /\ kind' = [kind EXCEPT ![r] = "none"]
        /\ todo' = todo \/ todo' = [todo EXCEPT ![r] = {}]
    BY <1>5 DEF Answer, RequestFails, Goto
  <2> QED
    BY <1>0, <2>1 DEF RequestsOK, KindOK
<1>6. ASSUME NEW s \in Strategies, Toggle(s) PROVE RequestsOK' /\ KindOK'
  BY <1>0, <1>6 DEF Toggle, RequestsOK, KindOK
<1>7. CASE UNCHANGED <<enabled, kind, rpc, todo>>
  BY <1>0, <1>7 DEF RequestsOK, KindOK
<1>8. (\E w \in RiskWorkers : WorkerStep(w)) \/ UNCHANGED vars => UNCHANGED <<enabled, kind, rpc, todo>>
  BY DEF WorkerStep, Boot, Seed, SeedFlag, Check, Resync, AutoHalt, Crash, vars, requestVars
<1> QED
  BY <1>1, <1>2, <1>3, <1>4, <1>5, <1>6, <1>7, <1>8 DEF Next, RequestStep

LEMMA DisturbedStep == TypeInv /\ [Next]_vars => DisturbedOK'
<1> SUFFICES ASSUME TypeInv, [Next]_vars PROVE DisturbedOK'
  OBVIOUS
<1>0. DisturbedOK
  BY TypeParts DEF TypeInv
<1>1. ASSUME NEW r \in Requests, NEW k \in Kinds, Begin(r, k) PROVE DisturbedOK'
  BY <1>0, <1>1 DEF Begin, DisturbedOK, Busy
<1>2. ASSUME NEW r \in Requests, Answer(r) \/ RequestFails(r) PROVE DisturbedOK'
  BY <1>0, <1>2 DEF Answer, RequestFails, DisturbedOK
<1>3. CASE OtherWrite
  BY <1>0, <1>3 DEF OtherWrite, DisturbedOK, Busy
<1>4. CASE UNCHANGED disturbed
  BY <1>0, <1>4 DEF DisturbedOK
<1> QED
  BY <1>1, <1>2, <1>3, <1>4 DEF Next, RequestStep, WorkerStep, SetFlag, SetMirror, SetStrategy,
     Toggle, Boot, Seed, SeedFlag, Check, Resync, AutoHalt, Crash, vars, requestVars

LEMMA WorkersStep == TypeInv /\ [Next]_vars => WorkersOK'
<1> SUFFICES ASSUME TypeInv, [Next]_vars PROVE WorkersOK'
  OBVIOUS
<1>0. WorkersOK
  BY TypeParts DEF TypeInv
<1>1. ASSUME NEW w \in RiskWorkers, WorkerStep(w) PROVE WorkersOK'
  BY <1>0, <1>1 DEF WorkerStep, WorkerGoto, Boot, Seed, SeedFlag, Check, Resync, AutoHalt, Crash,
                    WorkersOK
<1>2. CASE UNCHANGED wpc
  BY <1>0, <1>2 DEF WorkersOK
<1> QED
  BY <1>1, <1>2 DEF Next, RequestStep, Begin, SetFlag, SetMirror, SetStrategy, Answer,
                    RequestFails, Toggle, vars

LEMMA HistoryStep == TypeInv /\ [Next]_vars => HistoryOK' /\ FreshOK'
<1> SUFFICES ASSUME TypeInv, [Next]_vars PROVE HistoryOK' /\ FreshOK'
  OBVIOUS
<1>0. HistoryOK /\ FreshOK /\ RequestsOK
  BY TypeParts DEF TypeInv
<1>1. last' = last \/ last' = "none" \/ \E r \in Requests : last' = kind[r]
  BY DEF Next, RequestStep, WorkerStep, Begin, SetFlag, SetMirror, SetStrategy, Answer, OtherWrite,
         RequestFails, Toggle, Boot, Seed, SeedFlag, Check, Resync, AutoHalt, Crash, vars
<1>2. crashes' = crashes \/ crashes' = crashes + 1
  BY DEF Next, RequestStep, WorkerStep, Begin, SetFlag, SetMirror, SetStrategy, Answer,
         RequestFails, Toggle, Boot, Seed, SeedFlag, Check, Resync, AutoHalt, Crash, vars
<1>3. fresh' = fresh
  BY DEF Next, RequestStep, WorkerStep, Begin, SetFlag, SetMirror, SetStrategy, Answer,
         RequestFails, Toggle, Boot, Seed, SeedFlag, Check, Resync, AutoHalt, Crash, vars
<1> QED
  BY <1>0, <1>1, <1>2, <1>3 DEF HistoryOK, FreshOK, RequestsOK

LEMMA TypeInvariant == Spec => []TypeInv
<1>1. TypeInv /\ [Next]_vars => TypeInv'
  <2> SUFFICES ASSUME TypeInv, [Next]_vars PROVE TypeInv'
    OBVIOUS
  <2>1. /\ CopiesOK' /\ RequestsOK' /\ DisturbedOK' /\ WorkersOK' /\ HistoryOK' /\ FreshOK'
        /\ KindOK'
    BY CopiesStep, RequestsStep, DisturbedStep, WorkersStep, HistoryStep
  <2>2. TypeOK'
    BY <2>1, TypeParts, PTL
  <2> QED
    BY <2>1, <2>2 DEF TypeInv
<1> QED
  BY <1>1, TypeInit, PTL DEF Spec

\* Every variable keeps its type; both copies of the halt take "0", "1" or no
\* value at all.
THEOREM TypeCorrect == Spec => []TypeOK
<1>1. TypeInv => TypeOK
  BY DEF TypeInv
<1> QED
  BY <1>1, TypeInvariant, PTL

-----------------------------------------------------------------------------
(***************************************************************************)
(* The halt control: OnlyResetClears.  Once there is a hash, no worker     *)
(* comes to the seed.                                                      *)
(***************************************************************************)
SeedInv == ~ fresh => /\ mirror # "none"
                      /\ \A w \in RiskWorkers : wpc[w] \notin {"seed", "seedflag"}

LEMMA SeedStep == TypeInv /\ SeedInv /\ [Next]_vars => SeedInv'
<1> SUFFICES ASSUME TypeInv, SeedInv, [Next]_vars, ~ fresh' PROVE SeedInv'
  BY DEF SeedInv
<1>0. WorkersOK
  BY TypeParts DEF TypeInv
<1>1. ~ fresh
  BY DEF Next, RequestStep, WorkerStep, Begin, SetFlag, SetMirror, SetStrategy, Answer,
         RequestFails, Toggle, Boot, Seed, SeedFlag, Check, Resync, AutoHalt, Crash, vars
<1>2. mirror # "none" /\ \A w \in RiskWorkers : wpc[w] \notin {"seed", "seedflag"}
  BY <1>1 DEF SeedInv
<1>3. mirror' # "none"
  BY <1>2 DEF Next, RequestStep, WorkerStep, Begin, SetFlag, SetMirror, Value, SetStrategy, Answer,
              RequestFails, Toggle, Boot, Seed, SeedFlag, Check, Resync, AutoHalt, Crash, vars
<1>4. ASSUME NEW w \in RiskWorkers, WorkerStep(w)
      PROVE  \A v \in RiskWorkers : wpc'[v] \notin {"seed", "seedflag"}
  BY <1>0, <1>2, <1>4 DEF WorkerStep, WorkerGoto, Boot, Seed, SeedFlag, Check, Resync, AutoHalt,
                          Crash, WorkersOK
<1>5. ASSUME UNCHANGED wpc
      PROVE  \A v \in RiskWorkers : wpc'[v] \notin {"seed", "seedflag"}
  BY <1>2, <1>5
<1>6. \A v \in RiskWorkers : wpc'[v] \notin {"seed", "seedflag"}
  BY <1>2, <1>4, <1>5 DEF Next, RequestStep, Begin, SetFlag, SetMirror, SetStrategy, Answer,
                          RequestFails, Toggle, vars
<1> QED
  BY <1>3, <1>6 DEF SeedInv

\* A raised kill switch goes down only by a reset or a bot/start, or by the seed
\* of a Redis that was empty when the workers started.
THEOREM OnlyResetClearsTheHalt == Spec => OnlyResetClears
<1>1. Init => SeedInv
  BY DEF Init, SeedInv
<1>2. TypeInv /\ SeedInv /\ [Next]_vars => (flag = "1" /\ flag' # "1" => ClearingRequest \/ FirstSeed)
  <2> SUFFICES ASSUME TypeInv, SeedInv, [Next]_vars, flag = "1", flag' # "1"
               PROVE  ClearingRequest \/ FirstSeed
    OBVIOUS
  <2>1. \/ \E r \in Requests : SetFlag(r)
        \/ \E w \in RiskWorkers : SeedFlag(w)
    BY DEF Next, RequestStep, WorkerStep, Begin, SetMirror, SetStrategy, Answer,
           RequestFails, Toggle, Boot, Seed, Check, Resync, AutoHalt, Crash, vars
  <2>2. ASSUME NEW r \in Requests, SetFlag(r) PROVE ClearingRequest
    BY <2>2 DEF SetFlag, Goto, Value, ClearingRequest, Clearing, Raising, TypeInv, KindOK, Kinds
  <2>3. ASSUME NEW w \in RiskWorkers, SeedFlag(w) PROVE FirstSeed
    BY <2>3 DEF SeedFlag, WorkerGoto, SeedInv, FirstSeed
  <2> QED
    BY <2>1, <2>2, <2>3
<1> QED
  BY <1>1, <1>2, SeedStep, TypeInvariant, PTL DEF Spec, OnlyResetClears

-----------------------------------------------------------------------------
(***************************************************************************)
(* The halt control: LastOperationHolds.  A request that nobody disturbs   *)
(* is the only one being served, and what it has done so far is there;     *)
(* when it answers, that is its whole effect, and it stays until somebody  *)
(* writes.                                                                 *)
(***************************************************************************)
\* How much of its effect a request of kind k has had at step s, with the
\* strategies of t still to come.
Achieved(k, s, t) ==
    /\ s \in {"mirror", "strategies", "audit"} => flag = Value(k)
    /\ s \in {"strategies", "audit"} => mirror = Value(k)
    /\ s \in {"strategies", "audit"} /\ k = "start" => Strategies \ t \subseteq enabled
    /\ s \in {"strategies", "audit"} /\ k = "stop"  => enabled \subseteq t
    /\ s = "audit" => t = {}

AloneInv ==
    /\ \A r \in Requests : Busy(r) => last = "none"
    /\ \A r, q \in Requests : Busy(r) /\ ~ disturbed[r] /\ q # r => ~ Busy(q)
    /\ \A r \in Requests : Busy(r) /\ ~ disturbed[r] => Achieved(kind[r], rpc[r], todo[r])

LastInv == AloneInv /\ LastOperationHolds

\* A request that goes on while it is alone.
LEMMA AloneStep ==
    ASSUME TypeInv, LastInv, NEW r \in Requests, Busy(r),
           SetFlag(r) \/ SetMirror(r) \/ SetStrategy(r), [Next]_vars
    PROVE  LastInv'
<1>0. RequestsOK /\ KindOK /\ DisturbedOK
  BY TypeParts DEF TypeInv
<1>1. last = "none" /\ last' = "none" /\ disturbed' = disturbed /\ kind' = kind
  BY DEF LastInv, AloneInv, SetFlag, SetMirror, SetStrategy
<1>2. \A q \in Requests : Busy(q)' <=> Busy(q)
  BY <1>0 DEF SetFlag, SetMirror, SetStrategy, Goto, Busy, RequestsOK
<1>3. \A q \in Requests : Busy(q) /\ ~ disturbed[q] => q = r
  BY DEF LastInv, AloneInv
<1>4. ASSUME ~ disturbed[r] PROVE Achieved(kind[r], rpc[r], todo[r])'
  <2>0. Achieved(kind[r], rpc[r], todo[r]) /\ kind[r] \in Kinds
    BY <1>0, <1>4 DEF LastInv, AloneInv, Busy, KindOK
  <2>1. CASE SetFlag(r)
    BY <1>0, <2>0, <2>1 DEF SetFlag, Goto, Achieved, RequestsOK
  <2>2. CASE SetMirror(r)
    BY <1>0, <2>0, <2>2 DEF SetMirror, Goto, Achieved, RequestsOK
  <2>3. CASE SetStrategy(r)
    BY <1>0, <2>0, <2>3 DEF SetStrategy, Achieved, RequestsOK
  <2> QED
    BY <2>1, <2>2, <2>3
<1> QED
  BY <1>1, <1>2, <1>3, <1>4 DEF LastInv, AloneInv, LastOperationHolds

LEMMA LastStep == TypeInv /\ LastInv /\ [Next]_vars => LastInv'
<1> SUFFICES ASSUME TypeInv, LastInv, [Next]_vars PROVE LastInv'
  OBVIOUS
<1>0. RequestsOK /\ KindOK /\ DisturbedOK
  BY TypeParts DEF TypeInv
<1>1. ASSUME NEW r \in Requests, NEW k \in Kinds, Begin(r, k) PROVE LastInv'
  <2>1. last' = "none" /\ ~ Busy(r) /\ Busy(r)' /\ rpc'[r] = "set"
    BY <1>0, <1>1 DEF Begin, Goto, Busy, RequestsOK
  <2>2. \A q \in Requests : q # r => (Busy(q)' <=> Busy(q))
    BY <1>0, <1>1 DEF Begin, Goto, Busy, RequestsOK
  <2>3. \A q \in Requests : q # r /\ Busy(q) => disturbed'[q] /\ disturbed'[r]
    BY <1>1, <2>1 DEF Begin
  <2>4. Achieved(kind[r], rpc[r], todo[r])'
    BY <2>1 DEF Achieved
  <2>5. \A q \in Requests : Busy(q)' /\ ~ disturbed'[q] =>
            q = r /\ \A p \in Requests : p # r => ~ Busy(p)'
    BY <2>2, <2>3
  <2> QED
    BY <2>1, <2>4, <2>5 DEF LastInv, AloneInv, LastOperationHolds
<1>2. ASSUME NEW r \in Requests, SetFlag(r) \/ SetMirror(r) \/ SetStrategy(r) PROVE LastInv'
  <2>1. Busy(r)
    BY <1>2 DEF SetFlag, SetMirror, SetStrategy, Goto, Busy
  <2> QED
    BY <1>2, <2>1, AloneStep
<1>3. ASSUME NEW r \in Requests, Answer(r) PROVE LastInv'
  <2>1. /\ rpc[r] = "audit" /\ rpc' = [rpc EXCEPT ![r] = "free"] /\ Busy(r)
        /\ kind' = [kind EXCEPT ![r] = "none"]
        /\ disturbed' = [disturbed EXCEPT ![r] = FALSE]
        /\ UNCHANGED <<flag, mirror, enabled, todo>>
    BY <1>3 DEF Answer, Goto, Busy
  <2>2. \A q \in Requests : Busy(q)' => q # r /\ Busy(q) /\ rpc'[q] = rpc[q]
                                        /\ kind'[q] = kind[q] /\ disturbed'[q] = disturbed[q]
    BY <1>0, <2>1 DEF Busy, RequestsOK, DisturbedOK
  <2>3. CASE disturbed[r]
    <3>1. last = "none" /\ last' = "none"
      BY <1>3, <2>1, <2>3 DEF Answer, LastInv, AloneInv
    <3> QED
      BY <2>1, <2>2, <3>1 DEF LastInv, AloneInv, LastOperationHolds, Achieved
  <2>4. CASE ~ disturbed[r]
    <3>1. last' = kind[r] /\ \A q \in Requests : ~ Busy(q)'
      BY <1>3, <2>1, <2>2, <2>4 DEF Answer, LastInv, AloneInv
    <3>2. Achieved(kind[r], "audit", todo[r])
      BY <2>1, <2>4 DEF LastInv, AloneInv
    <3>3. LastOperationHolds'
      BY <1>0, <2>1, <3>1, <3>2 DEF LastOperationHolds, Achieved, RequestsOK
    <3> QED
      BY <3>1, <3>3 DEF LastInv, AloneInv
  <2> QED
    BY <2>3, <2>4
<1>4. ASSUME NEW r \in Requests, RequestFails(r) PROVE LastInv'
  <2>1. /\ rpc' = [rpc EXCEPT ![r] = "free"] /\ Busy(r)
        /\ kind' = [kind EXCEPT ![r] = "none"]
        /\ todo' = [todo EXCEPT ![r] = {}]
        /\ disturbed' = [disturbed EXCEPT ![r] = FALSE]
        /\ UNCHANGED <<flag, mirror, enabled, last>>
    BY <1>4 DEF RequestFails
  <2>2. \A q \in Requests : Busy(q)' =>
            /\ q # r /\ Busy(q) /\ rpc'[q] = rpc[q] /\ kind'[q] = kind[q]
            /\ todo'[q] = todo[q] /\ disturbed'[q] = disturbed[q]
    BY <1>0, <2>1 DEF Busy, RequestsOK, DisturbedOK
  <2>3. last = "none"
    BY <2>1 DEF LastInv, AloneInv
  <2> QED
    BY <2>1, <2>2, <2>3 DEF LastInv, AloneInv, LastOperationHolds, Achieved
<1>5. ASSUME OtherWrite, UNCHANGED rpc PROVE LastInv'
  BY <1>0, <1>5 DEF OtherWrite, LastInv, AloneInv, LastOperationHolds, Busy, DisturbedOK
<1>6. ASSUME UNCHANGED <<flag, mirror, enabled, rpc, kind, todo, disturbed, last>> PROVE LastInv'
  BY <1>6 DEF LastInv, AloneInv, LastOperationHolds, Busy, Achieved
<1>7. (\E s \in Strategies : Toggle(s)) => OtherWrite /\ UNCHANGED rpc
  BY DEF Toggle
<1>8. (\E w \in RiskWorkers : WorkerStep(w)) \/ UNCHANGED vars =>
          \/ OtherWrite /\ UNCHANGED rpc
          \/ UNCHANGED <<flag, mirror, enabled, rpc, kind, todo, disturbed, last>>
  BY DEF WorkerStep, Boot, Seed, SeedFlag, Check, Resync, AutoHalt, Crash, vars, requestVars
<1> QED
  BY <1>1, <1>2, <1>3, <1>4, <1>5, <1>6, <1>7, <1>8 DEF Next, RequestStep

\* What an operation reports as done is done, on both copies of the halt and on
\* every strategy, until somebody writes again.
THEOREM LastOperationIsWhole == Spec => []LastOperationHolds
<1>1. Init => LastInv
  BY DEF Init, LastInv, AloneInv, LastOperationHolds, Busy
<1>2. LastInv => LastOperationHolds
  BY DEF LastInv
<1> QED
  BY <1>1, <1>2, LastStep, TypeInvariant, PTL DEF Spec

-----------------------------------------------------------------------------
(* The composition: each component runs in it as it does alone.            *)

LEMMA ComponentsRun ==
    AllSpec => Spec /\ Gov!Spec /\ Cred!Spec /\ Sess!Spec /\ Rate!Spec
<1>1. AllInit => Init /\ Gov!Init /\ Cred!Init /\ Sess!Init /\ Rate!Init
  BY DEF AllInit
<1>2. [AllNext]_allVars => [Next]_vars
  BY DEF AllNext, allVars, halt
<1>3. [AllNext]_allVars => [Gov!Next]_(Gov!vars)
  BY DEF AllNext, allVars, governance, Gov!vars
<1>4. [AllNext]_allVars => [Cred!Next]_(Cred!vars)
  BY DEF AllNext, allVars, credentials, Cred!vars
<1>5. [AllNext]_allVars => [Sess!Next]_(Sess!vars)
  BY DEF AllNext, allVars, sessions, Sess!vars, Sess!epochs
<1>6. [AllNext]_allVars => [Rate!Next]_(Rate!vars)
  BY DEF AllNext, allVars, rateLimit, Rate!vars
<1> QED
  BY <1>1, <1>2, <1>3, <1>4, <1>5, <1>6, PTL
     DEF AllSpec, Spec, Gov!Spec, Cred!Spec, Sess!Spec, Rate!Spec

(* The kill switch beside the other components: an operation that answered *)
(* with success, undisturbed, has had its whole effect (control.py).       *)
THEOREM LastOperationHoldsBeside == AllSpec => []LastOperationHolds
BY ComponentsRun, LastOperationIsWhole, PTL

(* And only a reset, a bot/start or the first seed takes a halt down.      *)
THEOREM OnlyResetClearsBeside == AllSpec => OnlyResetClears
BY ComponentsRun, OnlyResetClearsTheHalt, PTL

-----------------------------------------------------------------------------
(* Governance: the changes, their versions and their history.              *)

ChangeRecord == [change : Changes, version : Int, old : Changes \cup {Gov!Original}, began : Int, committed : Int]

ChangesTyped ==
    /\ audit \in Seq(ChangeRecord) /\ clock \in Int
    /\ config \in Changes \cup {Gov!Original} /\ old \in [Changes -> Changes \cup {Gov!Original}]
    /\ changePc \in [Changes -> {"new", "read", "numbered", "updated", "done", "failed"}]
    /\ version \in [Changes -> Int] /\ began \in [Changes -> Int]

\* The clock is ahead of every moment that was noted.
Past ==
    /\ \A c \in Changes : changePc[c] # "new" => began[c] < clock
    /\ \A i \in DOMAIN audit : audit[i].committed < clock

\* The newest record is well defined although began is not ordered.
HasLatest ==
    audit # <<>> => \E i \in DOMAIN audit : \A j \in DOMAIN audit : audit[j].began <= audit[i].began

\* A transaction nothing was committed beside has read what is in force.
ReadIsCurrent ==
    \A c \in Changes :
        changePc[c] \in {"read", "numbered", "updated"} /\ (\A j \in DOMAIN audit : audit[j].committed < began[c])
            => old[c] = config

\* A version is the first or one above a recorded one.
FollowsOne(v) == v = 1 \/ \E j \in DOMAIN audit : audit[j].version = v - 1

NumbersFollow == \A c \in Changes : changePc[c] \in {"numbered", "updated"} => FollowsOne(version[c])

ConfigInv == ChangesTyped /\ Past /\ HasLatest /\ ReadIsCurrent /\ NumbersFollow /\ Gov!HistoryExplains

LEMMA ConfigInit == Gov!Init => ConfigInv
<1> SUFFICES ASSUME Gov!Init PROVE ConfigInv
  OBVIOUS
<1>1. ChangesTyped
  BY DEF Gov!Init, ChangesTyped, ChangeRecord
<1>2. audit = <<>> /\ Len(audit) = 0 /\ DOMAIN audit = {}
  BY DEF Gov!Init
<1>3. Gov!HistoryExplains
  BY <1>2 DEF Gov!HistoryExplains, Gov!Before, Gov!Init
<1>4. \A c \in Changes : changePc[c] = "new"
  BY DEF Gov!Init
<1> QED
  BY <1>1, <1>2, <1>3, <1>4 DEF ConfigInv, Past, HasLatest, ReadIsCurrent, NumbersFollow

\* What is left of the invariant when the history stays as it is.
LEMMA Unrecorded ==
    ASSUME ConfigInv, UNCHANGED <<audit, config>>
    PROVE  HasLatest' /\ Gov!HistoryExplains'
BY DEF ConfigInv, HasLatest, Gov!HistoryExplains, Gov!Before, Gov!Undisturbed

LEMMA RecordTyped ==
    ASSUME ConfigInv, NEW i \in DOMAIN audit
    PROVE  /\ audit[i] \in ChangeRecord
           /\ audit[i].version \in Int /\ audit[i].began \in Int /\ audit[i].committed \in Int
<1>1. audit[i] \in ChangeRecord
  BY DEF ConfigInv, ChangesTyped
<1> QED
  BY <1>1 DEF ChangeRecord

LEMMA LatestIn == ConfigInv /\ audit # <<>> => Gov!Latest \in DOMAIN audit
BY DEF ConfigInv, HasLatest, Gov!Latest

LEMMA ReadParamsStep == ASSUME ConfigInv, NEW c \in Changes, Gov!ReadParams(c) PROVE ConfigInv'
<1> USE DEF Gov!At
<1>1. ChangesTyped'
  BY DEF ConfigInv, ChangesTyped, Gov!ReadParams
<1>2. Past'
  <2>1. \A i \in DOMAIN audit : audit[i].committed < clock + 1
    BY RecordTyped DEF ConfigInv, ChangesTyped, Past
  <2> QED
    BY <2>1 DEF ConfigInv, ChangesTyped, Past, Gov!ReadParams
<1>3. ReadIsCurrent'
  BY DEF ConfigInv, ChangesTyped, ReadIsCurrent, Gov!ReadParams
<1>4. NumbersFollow'
  BY DEF ConfigInv, ChangesTyped, NumbersFollow, FollowsOne, Gov!ReadParams
<1> QED
  BY <1>1, <1>2, <1>3, <1>4, Unrecorded DEF ConfigInv, Gov!ReadParams

LEMMA ReadVersionStep == ASSUME ConfigInv, NEW c \in Changes, Gov!ReadVersion(c) PROVE ConfigInv'
<1> USE DEF Gov!At
<1>1. Gov!LatestVersion \in Int
  BY LatestIn, RecordTyped DEF Gov!LatestVersion
<1>2. FollowsOne(Gov!LatestVersion + 1)
  BY <1>1, LatestIn DEF Gov!LatestVersion, FollowsOne
<1>3. ChangesTyped'
  BY <1>1 DEF ConfigInv, ChangesTyped, Gov!ReadVersion
<1>4. Past' /\ ReadIsCurrent'
  BY DEF ConfigInv, ChangesTyped, Past, ReadIsCurrent, Gov!ReadVersion
<1>5. NumbersFollow'
  BY <1>2 DEF ConfigInv, ChangesTyped, NumbersFollow, FollowsOne, Gov!ReadVersion
<1> QED
  BY <1>3, <1>4, <1>5, Unrecorded DEF ConfigInv, Gov!ReadVersion

LEMMA ChangeGoesOn ==
    ASSUME ConfigInv, NEW c \in Changes, Gov!Update(c) \/ Gov!Fail(c)
    PROVE  ConfigInv'
<1>1. /\ UNCHANGED <<audit, config, old, version, began, clock>>
      /\ \E to \in {"updated", "failed"} : changePc' = [changePc EXCEPT ![c] = to]
      /\ changePc[c] \in {"read", "numbered", "updated"}
      /\ changePc'[c] = "updated" => changePc[c] = "numbered"
  BY DEF Gov!Update, Gov!Fail, Gov!At, ConfigInv, ChangesTyped
<1>2. ChangesTyped'
  BY <1>1 DEF ConfigInv, ChangesTyped
<1>3. Past' /\ ReadIsCurrent' /\ NumbersFollow'
  BY <1>1 DEF ConfigInv, ChangesTyped, Past, ReadIsCurrent, NumbersFollow, FollowsOne
<1> QED
  BY <1>1, <1>2, <1>3, Unrecorded DEF ConfigInv

LEMMA CommitStep == ASSUME ConfigInv, NEW c \in Changes, Gov!Commit(c) PROVE ConfigInv'
<1> DEFINE rec == [change |-> c, version |-> version[c],
                   old |-> old[c], began |-> began[c], committed |-> clock]
<1>0. PICK n \in Nat : n = Len(audit)
  BY DEF ConfigInv, ChangesTyped
<1>1. /\ changePc[c] = "updated" /\ changePc' = [changePc EXCEPT ![c] = "done"]
      /\ config' = c /\ audit' = Append(audit, rec) /\ clock' = clock + 1
      /\ UNCHANGED <<old, version, began>>
  BY DEF Gov!Commit, Gov!At
<1>2. audit \in Seq(ChangeRecord) /\ rec \in ChangeRecord /\ n \in Nat /\ n = Len(audit)
  BY <1>0 DEF ConfigInv, ChangesTyped, ChangeRecord
<1>3. /\ audit' \in Seq(ChangeRecord) /\ Len(audit') = n + 1 /\ audit'[n + 1] = rec
      /\ \A i \in 1 .. n : audit'[i] = audit[i]
      /\ DOMAIN audit = 1 .. n /\ DOMAIN audit' = 1 .. n + 1
  BY <1>1, <1>2
<1>4. \A i \in 1 .. n + 1 : i \in 1 .. n \/ i = n + 1
  BY <1>2
<1>r. rec.began \in Int /\ rec.began = began[c] /\ clock \in Int /\ rec.committed = clock /\ rec.change = c
      /\ rec.old = old[c] /\ rec.version = version[c] /\ version[c] \in Int
  BY DEF ConfigInv, ChangesTyped
<1> HIDE DEF rec
<1>5. ChangesTyped'
  BY <1>1, <1>3 DEF ConfigInv, ChangesTyped
<1>6. Past'
  <2>1. \A i \in DOMAIN audit' : audit'[i].committed < clock + 1
    <3> SUFFICES ASSUME NEW i \in 1 .. n + 1 PROVE audit'[i].committed < clock + 1
      BY <1>3
    <3>1. CASE i = n + 1
      BY <1>3, <1>r, <3>1
    <3>2. CASE i \in 1 .. n
      <4>1. audit[i].committed < clock /\ audit[i].committed \in Int
        BY <1>3, <3>2, RecordTyped DEF ConfigInv, Past
      <4> QED
        BY <1>3, <1>r, <3>2, <4>1
    <3> QED
      BY <1>4, <3>1, <3>2
  <2>2. \A d \in Changes : changePc'[d] # "new" => began'[d] < clock + 1
    BY <1>1 DEF ConfigInv, ChangesTyped, Past
  <2> QED
    BY <1>1, <2>1, <2>2 DEF Past
<1>7. HasLatest'
  <2>1. CASE n = 0
    BY <1>2, <1>3, <1>4, <1>r, <2>1 DEF HasLatest
  <2>2. CASE n # 0
    <3>1. PICK i \in 1 .. n : \A j \in 1 .. n : audit[j].began <= audit[i].began
      <4>1. 1 \in DOMAIN audit
        BY <1>2, <1>3, <2>2
      <4>2. audit # <<>>
        BY <4>1
      <4> QED
        BY <1>3, <4>2 DEF ConfigInv, HasLatest
    <3>2. \A j \in 1 .. n : audit[j].began \in Int
      BY <1>3, RecordTyped
    <3>3. CASE rec.began <= audit[i].began
      <4>1. \A j \in DOMAIN audit' : audit'[j].began <= audit'[i].began
        BY <1>3, <1>4, <3>1, <3>3
      <4>2. i \in DOMAIN audit'
        BY <1>2, <1>3
      <4> QED
        BY <4>1, <4>2 DEF HasLatest
    <3>4. CASE ~(rec.began <= audit[i].began)
      <4>1. \A j \in 1 .. n : audit[j].began <= rec.began
        BY <1>r, <3>1, <3>2, <3>4
      <4>2. \A j \in DOMAIN audit' : audit'[j].began <= audit'[n + 1].began
        BY <1>3, <1>4, <1>r, <4>1
      <4>3. n + 1 \in DOMAIN audit'
        BY <1>2, <1>3
      <4> QED
        BY <4>2, <4>3 DEF HasLatest
    <3> QED
      BY <3>3, <3>4
  <2> QED
    BY <2>1, <2>2
<1>8. ReadIsCurrent'
  <2> SUFFICES ASSUME NEW d \in Changes, changePc'[d] \in {"read", "numbered", "updated"},
                      \A j \in DOMAIN audit' : audit'[j].committed < began'[d]
               PROVE  FALSE
    BY DEF ReadIsCurrent
  <2>1. clock < began[d]
    <3>1. n + 1 \in DOMAIN audit' /\ began' = began
      BY <1>1, <1>2, <1>3
    <3> QED
      BY <1>3, <1>r, <3>1
  <2>2. began[d] < clock
    BY <1>1 DEF ConfigInv, ChangesTyped, Past
  <2> QED
    BY <2>1, <2>2 DEF ConfigInv, ChangesTyped
<1>9. \A v : FollowsOne(v) => FollowsOne(v)'
  <2> SUFFICES ASSUME NEW v, NEW j \in 1 .. n, audit[j].version = v - 1
               PROVE  \E k \in 1 .. n + 1 : audit'[k].version = v - 1
    BY <1>3 DEF FollowsOne
  <2> QED
    BY <1>2, <1>3
<1>10. NumbersFollow'
  BY <1>1, <1>9 DEF ConfigInv, ChangesTyped, NumbersFollow
<1>11. Gov!HistoryExplains'
  <2>1. \A i \in 1 .. n + 1 : Gov!Before(i)' = Gov!Before(i)
    BY <1>2, <1>3 DEF Gov!Before
  <2>2. config = Gov!Before(n + 1)
    BY <1>2 DEF ConfigInv, Gov!HistoryExplains
  <2>3. config' = Gov!Before(Len(audit) + 1)'
    <3>1. Len(audit') + 1 # 1 /\ (Len(audit') + 1) - 1 = n + 1
      BY <1>2, <1>3
    <3> QED
      BY <1>1, <1>3, <1>r, <3>1 DEF Gov!Before
  <2>4. ASSUME NEW i \in 1 .. n
        PROVE  /\ Gov!Undisturbed(i)' => audit'[i].old = Gov!Before(i)'
               /\ audit'[i].version = 1 \/ \E j \in 1 .. i - 1 : audit'[j].version = audit'[i].version - 1
    <3>1. \A j \in 1 .. i - 1 : audit'[j] = audit[j]
      <4>1. \A j \in 1 .. i - 1 : j \in 1 .. n
        BY <1>2
      <4> QED
        BY <1>3, <4>1
    <3>2. Gov!Undisturbed(i)' => Gov!Undisturbed(i)
      BY <1>3, <3>1 DEF Gov!Undisturbed
    <3>3. Gov!Before(i)' = Gov!Before(i)
      BY <1>2, <2>1
    <3>4. /\ Gov!Undisturbed(i) => audit[i].old = Gov!Before(i)
          /\ audit[i].version = 1 \/ \E j \in 1 .. i - 1 : audit[j].version = audit[i].version - 1
      BY <1>3 DEF ConfigInv, Gov!HistoryExplains
    <3> QED
      BY <1>3, <3>1, <3>2, <3>3, <3>4
  <2>5. Gov!Undisturbed(n + 1)' => rec.old = Gov!Before(n + 1)'
    <3> SUFFICES ASSUME Gov!Undisturbed(n + 1)' PROVE old[c] = config
      <4>1. Gov!Before(n + 1)' = config
        BY <1>2, <2>1, <2>2
      <4> QED
        BY <1>r, <4>1
    <3>1. \A j \in DOMAIN audit : audit[j].committed < began[c]
      <4>1. \A j \in 1 .. n : j \in 1 .. (n + 1) - 1
        BY <1>2
      <4>2. \A j \in 1 .. (n + 1) - 1 : audit'[j].committed < audit'[n + 1].began
        BY DEF Gov!Undisturbed
      <4> QED
        BY <1>3, <1>r, <4>1, <4>2
    <3> QED
      BY <1>1, <3>1 DEF ConfigInv, ReadIsCurrent
  <2>6. rec.version = 1 \/ \E j \in 1 .. n : audit'[j].version = rec.version - 1
    BY <1>1, <1>3, <1>r DEF ConfigInv, NumbersFollow, FollowsOne
  <2>7. ASSUME NEW i \in DOMAIN audit'
        PROVE  /\ Gov!Undisturbed(i)' => audit'[i].old = Gov!Before(i)'
               /\ audit'[i].version = 1 \/ \E j \in 1 .. i - 1 : audit'[j].version = audit'[i].version - 1
    <3>1. CASE i \in 1 .. n
      BY <2>4, <3>1
    <3>2. CASE i = n + 1
      <4>1. \A j \in 1 .. n : j \in 1 .. i - 1
        BY <1>2, <3>2
      <4>2. Gov!Undisturbed(i)' => audit'[i].old = Gov!Before(i)'
        BY <1>3, <2>5, <3>2
      <4>3. audit'[i].version = 1 \/ \E j \in 1 .. i - 1 : audit'[j].version = audit'[i].version - 1
        BY <1>3, <2>6, <3>2, <4>1
      <4> QED
        BY <4>2, <4>3
    <3> QED
      BY <1>3, <1>4, <3>1, <3>2
  <2> QED
    BY <2>3, <2>7 DEF Gov!HistoryExplains
<1> QED
  BY <1>5, <1>6, <1>7, <1>8, <1>10, <1>11 DEF ConfigInv

LEMMA ConfigStep == ConfigInv /\ [Gov!Next]_(Gov!vars) => ConfigInv'
<1> SUFFICES ASSUME ConfigInv, [Gov!Next]_(Gov!vars) PROVE ConfigInv'
  OBVIOUS
<1>1. CASE UNCHANGED Gov!vars
  BY <1>1, Unrecorded DEF Gov!vars, ConfigInv, ChangesTyped, Past, ReadIsCurrent, NumbersFollow, FollowsOne
<1> QED
  BY <1>1, ReadParamsStep, ReadVersionStep, ChangeGoesOn, CommitStep DEF Gov!Next

(* The history of parameter changes explains the configuration, however    *)
(* many changes run at once and whichever of them fail: the last record is *)
(* in force, a diff is right unless another change committed in between,   *)
(* and the version numbers have no gap (governance.py: set_params).        *)
THEOREM HistoryIsTrue == AllSpec => []HistoryExplains
<1>1. ConfigInv => HistoryExplains
  BY DEF ConfigInv, HistoryExplains
<1> QED
  BY <1>1, ConfigInit, ConfigStep, ComponentsRun, PTL DEF Gov!Spec

-----------------------------------------------------------------------------
(* Credentials: the row, the cache and the calls on them.                  *)

StoreRow == [value : Sets, active : BOOLEAN]

\* A write is a set or a delete, and Nothing is not a row.
LEMMA CallsApart == Sets \cap Deletes = {} /\ Nothing \notin StoreRow
BY GatewayAssumption DEF StoreRow

StoreTyped ==
    /\ row \in StoreRow \cup {Nothing} /\ spoiled \in BOOLEAN
    /\ callPc \in [Cred!Calls -> {"new", "cache", "audit", "signal", "fill", "done", "failed"}]
    /\ found \in [Cred!Calls -> Sets \cup {Nothing}]

\* A call that starts beside another one disturbs.
RunsAlone == ~spoiled => \A c, d \in Cred!Running : c = d

\* Between the row and the cache, the row is what the call has made of it.
RowWritten ==
    ~spoiled => /\ \A c \in Sets : callPc[c] = "cache" => row # Nothing /\ row.active /\ row.value = c
                /\ \A c \in Deletes : callPc[c] = "cache" => Cred!Stored = Nothing

\* Between the read and the cache, what was read is what is stored.
ReadHolds == ~spoiled => \A c \in Cred!Calls : callPc[c] = "fill" => found[c] = Cred!Stored

StoreInv == StoreTyped /\ RunsAlone /\ RowWritten /\ ReadHolds /\ Cred!CacheTrueUndisturbed

LEMMA StoreInit == Cred!Init => StoreInv
<1> SUFFICES ASSUME Cred!Init PROVE StoreInv
  OBVIOUS
<1>1. StoreTyped
  BY DEF Cred!Init, StoreTyped
<1>2. \A c \in Cred!Calls : callPc[c] = "new"
  BY DEF Cred!Init
<1>3. RunsAlone /\ ReadHolds
  BY <1>2 DEF RunsAlone, ReadHolds, Cred!Running
<1>4. RowWritten
  BY <1>2 DEF RowWritten, Cred!Calls, Cred!Writes
<1>5. Cred!CacheTrueUndisturbed
  BY DEF Cred!Init, Cred!CacheTrueUndisturbed
<1> QED
  BY <1>1, <1>3, <1>4, <1>5 DEF StoreInv

\* What of the invariant depends on the calls that run stays, when one call
\* that runs goes on, or ends, and leaves row, cache and flag as they are.
LEMMA CallGoesOn ==
    ASSUME StoreInv, NEW c \in Cred!Calls, c \in Cred!Running,
           NEW to \in {"audit", "signal", "done", "failed"},
           callPc[c] # "cache", callPc' = [callPc EXCEPT ![c] = to], UNCHANGED <<row, store, found, spoiled>>
    PROVE  StoreInv'
<1>1. StoreTyped'
  BY DEF StoreInv, StoreTyped
<1>2. \A d \in Cred!Calls : /\ callPc'[d] \in {"cache", "fill"} => callPc[d] = callPc'[d]
                       /\ callPc[d] = "cache" => callPc'[d] = "cache"
  BY DEF StoreInv, StoreTyped
<1>3. Cred!Running' \subseteq Cred!Running
  BY DEF StoreInv, StoreTyped, Cred!Running
<1>4. RunsAlone'
  BY <1>3 DEF StoreInv, RunsAlone
<1>5. Cred!Stored' = Cred!Stored
  BY DEF Cred!Stored
<1>6. RowWritten' /\ ReadHolds' /\ Cred!CacheTrueUndisturbed'
  BY <1>2, <1>5 DEF StoreInv, RowWritten, ReadHolds, Cred!CacheTrueUndisturbed, Cred!Calls, Cred!Writes
<1> QED
  BY <1>1, <1>4, <1>6 DEF StoreInv

\* A call that is the only one to run.
LEMMA OnlyOne ==
    ASSUME StoreInv, NEW c \in Cred!Calls, c \notin Cred!Running, NEW to \in {"cache", "fill"},
           callPc' = [callPc EXCEPT ![c] = to], spoiled' = (spoiled \/ Cred!Running # {}), ~spoiled'
    PROVE  /\ ~spoiled /\ Cred!Running = {} /\ Cred!Running' = {c}
           /\ \A d \in Cred!Calls : callPc[d] \notin {"cache", "fill", "audit", "signal"}
           /\ \A d \in Cred!Calls : callPc'[d] \in {"cache", "fill"} => d = c
<1>1. ~spoiled /\ Cred!Running = {}
  OBVIOUS
<1>2. \A d \in Cred!Calls : callPc[d] \notin {"cache", "fill", "audit", "signal"}
  BY <1>1 DEF Cred!Running
<1>3. callPc'[c] = to /\ \A d \in Cred!Calls : d # c => callPc'[d] = callPc[d]
  BY DEF StoreInv, StoreTyped
<1>4. Cred!Running' = {c}
  BY <1>1, <1>3 DEF Cred!Running
<1> QED
  BY <1>1, <1>2, <1>3, <1>4

LEMMA StoredTyped == StoreTyped => Cred!Stored \in Sets \cup {Nothing}
BY DEF StoreTyped, Cred!Stored, StoreRow

LEMMA WriteRow ==
    ASSUME StoreInv, NEW c \in Cred!Writes,
           (c \in Sets /\ Cred!SetRow(c)) \/ (c \in Deletes /\ Cred!DeleteRow(c))
    PROVE  StoreInv'
<1> USE CallsApart
<1>1. /\ callPc[c] = "new" /\ callPc' = [callPc EXCEPT ![c] = "cache"] /\ UNCHANGED <<store, found>>
      /\ spoiled' = (spoiled \/ Cred!Running # {}) /\ c \in Cred!Calls
  BY DEF Cred!SetRow, Cred!DeleteRow, Cred!Step, Cred!Calls
<1>2. row' \in StoreRow \cup {Nothing} /\ spoiled' \in BOOLEAN
  <2>1. spoiled' \in BOOLEAN
    BY <1>1
  <2>2. CASE c \in Sets /\ Cred!SetRow(c)
    BY <2>1, <2>2 DEF Cred!SetRow, StoreRow
  <2>3. CASE c \in Deletes /\ Cred!DeleteRow(c)
    <3>1. row' = IF row = Nothing THEN row ELSE [row EXCEPT !.active = FALSE]
      BY <2>3 DEF Cred!DeleteRow
    <3> QED
      BY <2>1, <3>1 DEF StoreInv, StoreTyped, StoreRow
  <2> QED
    BY <2>1, <2>2, <2>3
<1>3. StoreTyped'
  BY <1>1, <1>2 DEF StoreInv, StoreTyped
<1>4. c \in Sets => row' # Nothing /\ row'.active /\ row'.value = c
  <2>1. SUFFICES ASSUME c \in Sets PROVE row' # Nothing /\ row'.active /\ row'.value = c
    OBVIOUS
  <2>2. row' = [value |-> c, active |-> TRUE]
    BY <2>1 DEF Cred!SetRow, Cred!DeleteRow
  <2>3. row' \in StoreRow
    BY <2>1, <2>2 DEF StoreRow
  <2> QED
    BY <2>2, <2>3
<1>5. c \in Deletes => Cred!Stored' = Nothing
  <2>1. SUFFICES ASSUME c \in Deletes PROVE Cred!Stored' = Nothing
    OBVIOUS
  <2>2. row' = IF row = Nothing THEN row ELSE [row EXCEPT !.active = FALSE]
    BY <2>1 DEF Cred!DeleteRow, Cred!SetRow
  <2> QED
    BY <2>2 DEF StoreInv, StoreTyped, Cred!Stored, StoreRow
<1>6. callPc[c] = "new" /\ c \notin Cred!Running /\ callPc'[c] = "cache"
  BY <1>1 DEF Cred!Running, StoreInv, StoreTyped
<1>7. CASE spoiled'
  BY <1>3, <1>7 DEF StoreInv, RunsAlone, RowWritten, ReadHolds, Cred!CacheTrueUndisturbed
<1>8. CASE ~spoiled'
  <2>1. Cred!Running' = {c} /\ \A d \in Cred!Calls : callPc'[d] \in {"cache", "fill"} => d = c
    BY <1>1, <1>6, <1>8, OnlyOne
  <2>2. RunsAlone'
    BY <2>1 DEF RunsAlone
  <2>3. RowWritten'
    BY <1>4, <1>5, <2>1 DEF RowWritten, Cred!Calls, Cred!Writes
  <2>4. ReadHolds'
    BY <1>6, <2>1 DEF ReadHolds
  <2>5. Cred!CacheTrueUndisturbed'
    BY <1>6 DEF Cred!CacheTrueUndisturbed
  <2> QED
    BY <1>3, <2>2, <2>3, <2>4, <2>5 DEF StoreInv
<1> QED
  BY <1>7, <1>8

LEMMA WriteCache ==
    ASSUME StoreInv, NEW c \in Cred!Writes,
           (c \in Sets /\ Cred!SetCache(c)) \/ (c \in Deletes /\ Cred!DeleteCache(c))
    PROVE  StoreInv'
<1> USE CallsApart
<1>1. /\ callPc[c] = "cache" /\ callPc' = [callPc EXCEPT ![c] = "audit"] /\ UNCHANGED <<row, found, spoiled>>
      /\ c \in Cred!Calls /\ store' = IF c \in Sets THEN c ELSE Nothing
  BY DEF Cred!SetCache, Cred!DeleteCache, Cred!Step, Cred!Calls
<1>2. StoreTyped'
  BY <1>1 DEF StoreInv, StoreTyped
<1>3. \A d \in Cred!Calls : callPc'[d] \in {"cache", "fill"} => callPc[d] = callPc'[d]
  BY <1>1 DEF StoreInv, StoreTyped
<1>4. Cred!Running' = Cred!Running
  BY <1>1 DEF StoreInv, StoreTyped, Cred!Running
<1>5. Cred!Stored' = Cred!Stored
  BY <1>1 DEF Cred!Stored
<1>6. RunsAlone' /\ RowWritten' /\ ReadHolds'
  BY <1>1, <1>3, <1>4, <1>5 DEF StoreInv, RunsAlone, RowWritten, ReadHolds, Cred!Calls, Cred!Writes
<1>7. ~spoiled => store' \in {Nothing, Cred!Stored}
  BY <1>1 DEF StoreInv, RowWritten, Cred!Stored
<1>8. Cred!CacheTrueUndisturbed'
  BY <1>1, <1>5, <1>7 DEF Cred!CacheTrueUndisturbed
<1> QED
  BY <1>2, <1>6, <1>8 DEF StoreInv

LEMMA WriteGoesOn ==
    ASSUME StoreInv, NEW c \in Cred!Writes, Cred!Audit(c) \/ Cred!Signal(c)
    PROVE  StoreInv'
<1>1. /\ callPc[c] \in {"audit", "signal"} /\ UNCHANGED <<row, store, found, spoiled>>
      /\ \E to \in {"audit", "signal", "done", "failed"} : callPc' = [callPc EXCEPT ![c] = to]
  BY DEF Cred!Audit, Cred!Signal, Cred!Step
<1>2. c \in Cred!Calls /\ c \in Cred!Running
  BY <1>1 DEF Cred!Calls, Cred!Running
<1> QED
  BY <1>1, <1>2, CallGoesOn

LEMMA WriteFailsStep == ASSUME StoreInv, NEW c \in Cred!Writes, Cred!WriteFails(c) PROVE StoreInv'
<1>1. /\ callPc[c] \in {"new", "cache", "audit", "signal"} /\ callPc' = [callPc EXCEPT ![c] = "failed"]
      /\ spoiled' = (spoiled \/ callPc[c] = "cache") /\ UNCHANGED <<row, store, found>> /\ c \in Cred!Calls
  BY DEF Cred!WriteFails, Cred!Calls
<1>2. spoiled' \in BOOLEAN
  BY <1>1
<1>3. StoreTyped'
  BY <1>1, <1>2 DEF StoreInv, StoreTyped
<1>4. CASE spoiled'
  BY <1>3, <1>4 DEF StoreInv, RunsAlone, RowWritten, ReadHolds, Cred!CacheTrueUndisturbed
<1>5. CASE ~spoiled'
  <2>1. ~spoiled /\ callPc[c] # "cache"
    BY <1>1, <1>5
  <2>2. \A d \in Cred!Calls : /\ callPc'[d] \in {"cache", "fill"} => callPc[d] = callPc'[d]
                         /\ callPc[d] = "cache" => callPc'[d] = "cache"
    BY <1>1, <2>1 DEF StoreInv, StoreTyped
  <2>3. Cred!Running' \subseteq Cred!Running
    BY <1>1 DEF StoreInv, StoreTyped, Cred!Running
  <2>4. Cred!Stored' = Cred!Stored
    BY <1>1 DEF Cred!Stored
  <2>5. RunsAlone'
    BY <2>1, <2>3 DEF StoreInv, RunsAlone
  <2>6. RowWritten' /\ ReadHolds'
    BY <1>1, <2>1, <2>2, <2>4 DEF StoreInv, RowWritten, ReadHolds, Cred!Calls, Cred!Writes
  <2>7. Cred!CacheTrueUndisturbed'
    BY <1>1, <2>1, <2>2, <2>4 DEF StoreInv, Cred!CacheTrueUndisturbed, Cred!Calls
  <2> QED
    BY <1>3, <2>5, <2>6, <2>7 DEF StoreInv
<1> QED
  BY <1>4, <1>5

LEMMA GetCachedStep == ASSUME StoreInv, NEW c \in Gets, Cred!GetCached(c) PROVE StoreInv'
<1>1. callPc[c] = "new" /\ callPc' = [callPc EXCEPT ![c] = "done"] /\ UNCHANGED <<row, store, found, spoiled>> /\ c \in Cred!Calls
  BY DEF Cred!GetCached, Cred!Step, Cred!Calls
<1>2. StoreTyped'
  BY <1>1 DEF StoreInv, StoreTyped
<1>3. \A d \in Cred!Calls : /\ callPc'[d] \in {"cache", "fill"} => callPc[d] = callPc'[d]
                       /\ callPc[d] = "cache" => callPc'[d] = "cache"
  BY <1>1 DEF StoreInv, StoreTyped
<1>4. Cred!Running' = Cred!Running
  BY <1>1 DEF StoreInv, StoreTyped, Cred!Running
<1>5. Cred!Stored' = Cred!Stored
  BY <1>1 DEF Cred!Stored
<1>6. RunsAlone' /\ RowWritten' /\ ReadHolds' /\ Cred!CacheTrueUndisturbed'
  BY <1>1, <1>3, <1>4, <1>5
     DEF StoreInv, RunsAlone, RowWritten, ReadHolds, Cred!CacheTrueUndisturbed, Cred!Calls, Cred!Writes
<1> QED
  BY <1>2, <1>6 DEF StoreInv

LEMMA GetRowStep == ASSUME StoreInv, NEW c \in Gets, Cred!GetRow(c) PROVE StoreInv'
<1>1. callPc[c] = "new" /\ callPc' = [callPc EXCEPT ![c] = "fill"] /\ UNCHANGED <<row, store>> /\ c \in Cred!Calls
  BY DEF Cred!GetRow, Cred!Step, Cred!Calls
<1>2. \/ found' = [found EXCEPT ![c] = Cred!Stored] /\ spoiled' = (spoiled \/ Cred!Running # {})
      \/ found' = found /\ spoiled' = TRUE
  BY DEF Cred!GetRow
<1>3. StoreTyped'
  <2>1. Cred!Stored \in Sets \cup {Nothing}
    BY StoredTyped DEF StoreInv
  <2>2. spoiled' \in BOOLEAN
    BY <1>2
  <2>3. found' \in [Cred!Calls -> Sets \cup {Nothing}]
    BY <1>2, <2>1 DEF StoreInv, StoreTyped
  <2> QED
    BY <1>1, <2>2, <2>3 DEF StoreInv, StoreTyped
<1>4. Cred!Stored' = Cred!Stored /\ c \notin Cred!Running /\ callPc'[c] = "fill"
  BY <1>1 DEF Cred!Stored, Cred!Running, StoreInv, StoreTyped
<1>5. CASE spoiled'
  BY <1>3, <1>5 DEF StoreInv, RunsAlone, RowWritten, ReadHolds, Cred!CacheTrueUndisturbed
<1>6. CASE ~spoiled'
  <2>1. found' = [found EXCEPT ![c] = Cred!Stored] /\ spoiled' = (spoiled \/ Cred!Running # {})
    BY <1>2, <1>6
  <2>2. /\ ~spoiled /\ Cred!Running' = {c}
        /\ \A d \in Cred!Calls : callPc[d] \notin {"cache", "fill", "audit", "signal"}
        /\ \A d \in Cred!Calls : callPc'[d] \in {"cache", "fill"} => d = c
    BY <1>1, <1>4, <1>6, <2>1, OnlyOne
  <2>3. RunsAlone'
    BY <2>2 DEF RunsAlone
  <2>4. \A d \in Cred!Calls : callPc'[d] # "cache"
    BY <1>4, <2>2
  <2>5. RowWritten'
    BY <2>4 DEF RowWritten, Cred!Calls, Cred!Writes
  <2>6. found'[c] = Cred!Stored
    BY <1>1, <2>1 DEF StoreInv, StoreTyped
  <2>7. ReadHolds'
    BY <1>4, <2>2, <2>6 DEF ReadHolds
  <2>8. Cred!CacheTrueUndisturbed'
    BY <1>1, <1>4, <2>2 DEF StoreInv, Cred!CacheTrueUndisturbed, Cred!Calls
  <2> QED
    BY <1>3, <2>3, <2>5, <2>7, <2>8 DEF StoreInv
<1> QED
  BY <1>5, <1>6

LEMMA GetFillStep == ASSUME StoreInv, NEW c \in Gets, Cred!GetFill(c) PROVE StoreInv'
<1>1. /\ callPc[c] = "fill" /\ callPc' = [callPc EXCEPT ![c] = "done"] /\ UNCHANGED <<row, found, spoiled>> /\ c \in Cred!Calls
      /\ store' = IF found[c] # Nothing THEN found[c] ELSE IF EnvValue # Nothing THEN EnvValue ELSE store
  BY DEF Cred!GetFill, Cred!Step, Cred!Calls
<1>2. StoreTyped'
  BY <1>1 DEF StoreInv, StoreTyped
<1>3. \A d \in Cred!Calls : /\ callPc'[d] \in {"cache", "fill"} => callPc[d] = callPc'[d]
                       /\ callPc[d] = "cache" => callPc'[d] = "cache"
  BY <1>1 DEF StoreInv, StoreTyped
<1>4. Cred!Running' \subseteq Cred!Running
  BY <1>1 DEF StoreInv, StoreTyped, Cred!Running
<1>5. Cred!Stored' = Cred!Stored
  BY <1>1 DEF Cred!Stored
<1>6. RunsAlone' /\ RowWritten' /\ ReadHolds'
  BY <1>1, <1>3, <1>4, <1>5 DEF StoreInv, RunsAlone, RowWritten, ReadHolds, Cred!Calls, Cred!Writes
<1>7. ASSUME ~spoiled, \A d \in Cred!Writes : callPc[d] # "cache"
      PROVE  store' \in {Nothing, IF Cred!Stored # Nothing THEN Cred!Stored ELSE EnvValue}
  <2>1. found[c] = Cred!Stored
    BY <1>1, <1>7 DEF StoreInv, ReadHolds
  <2>2. store \in {Nothing, IF Cred!Stored # Nothing THEN Cred!Stored ELSE EnvValue}
    BY <1>7 DEF StoreInv, Cred!CacheTrueUndisturbed
  <2> QED
    BY <1>1, <2>1, <2>2
<1>8. Cred!CacheTrueUndisturbed'
  BY <1>1, <1>3, <1>5, <1>7 DEF Cred!CacheTrueUndisturbed, Cred!Calls
<1> QED
  BY <1>2, <1>6, <1>8 DEF StoreInv

LEMMA RestartStep == ASSUME StoreInv, Cred!Restart PROVE StoreInv'
<1>1. /\ callPc' = [c \in Cred!Calls |-> IF c \in Cred!Running THEN "failed" ELSE callPc[c]]
      /\ store' = Cred!Stored /\ spoiled' = FALSE /\ UNCHANGED <<row, found>>
  BY DEF Cred!Restart
<1>2. StoreTyped'
  BY <1>1 DEF StoreInv, StoreTyped
<1>3. \A c \in Cred!Calls : callPc'[c] \in {"new", "done", "failed"}
  BY <1>1 DEF Cred!Running
<1>4. RunsAlone' /\ ReadHolds'
  BY <1>3 DEF RunsAlone, ReadHolds, Cred!Running
<1>5. RowWritten'
  BY <1>3 DEF RowWritten, Cred!Calls, Cred!Writes
<1>6. Cred!Stored' = Cred!Stored
  BY <1>1 DEF Cred!Stored
<1>7. Cred!CacheTrueUndisturbed'
  BY <1>1, <1>6 DEF Cred!CacheTrueUndisturbed
<1> QED
  BY <1>2, <1>4, <1>5, <1>7 DEF StoreInv

LEMMA StoreStep == StoreInv /\ [Cred!Next]_(Cred!vars) => StoreInv'
<1> SUFFICES ASSUME StoreInv, [Cred!Next]_(Cred!vars) PROVE StoreInv'
  OBVIOUS
<1>1. CASE \E c \in Sets : Cred!SetRow(c) \/ Cred!SetCache(c)
  BY <1>1, WriteRow, WriteCache DEF Cred!Writes
<1>2. CASE \E c \in Deletes : Cred!DeleteRow(c) \/ Cred!DeleteCache(c)
  BY <1>2, WriteRow, WriteCache DEF Cred!Writes
<1>3. CASE \E c \in Cred!Writes : Cred!Audit(c) \/ Cred!Signal(c) \/ Cred!WriteFails(c)
  BY <1>3, WriteGoesOn, WriteFailsStep
<1>4. CASE \E c \in Gets : Cred!GetCached(c) \/ Cred!GetRow(c) \/ Cred!GetFill(c)
  BY <1>4, GetCachedStep, GetRowStep, GetFillStep
<1>5. CASE Cred!Restart
  BY <1>5, RestartStep
<1>6. CASE UNCHANGED Cred!vars
  BY <1>6 DEF Cred!vars, StoreInv, StoreTyped, RunsAlone, RowWritten, ReadHolds, Cred!CacheTrueUndisturbed, Cred!Running, Cred!Stored
<1> QED
  BY <1>1, <1>2, <1>3, <1>4, <1>5, <1>6 DEF Cred!Next

(* The cached credential is the stored one, or the environment's when none *)
(* is stored, for any number of calls and restarts, as long as no two      *)
(* calls overlapped and no read failed since the process started           *)
(* (CredentialStore.get, set, delete).                                     *)
THEOREM CacheIsTrue == AllSpec => []CacheTrueUndisturbed
<1>1. StoreInv => CacheTrueUndisturbed
  BY DEF StoreInv, CacheTrueUndisturbed
<1> QED
  BY <1>1, StoreInit, StoreStep, ComponentsRun, PTL DEF Cred!Spec

-----------------------------------------------------------------------------
(* Sessions and their revocation.                                          *)

EpochsRead == [all : Int, user : [Users -> Int]]

SessionsTyped ==
    /\ time \in Nat /\ issued \in [Users -> Int] /\ all \in Int /\ user \in [Users -> Int]
    /\ epochs \in [at : Int, data : EpochsRead]
    /\ asked \in [Asks -> [stage : {"idle", "asked", "answered"}, who : Users \cup {Sess!Nobody},
                           at : Int, reply : EpochsRead]]
    /\ verdict \in [who : Users \cup {Sess!Nobody}, kind : {"none", "refused", "checked", "open", "verified"}]

\* Nothing is noted ahead of the clock, and a request in flight is somebody's.
NotAhead ==
    /\ epochs.at <= time
    /\ \A r \in Asks : asked[r].at <= time /\ (asked[r].stage # "idle" => asked[r].who \in Users)

\* What was read holds every epoch that was set before the time noted with it.
HasPast(data, at) ==
    /\ all < at => data.all = all
    /\ \A u \in Users : user[u] < at => data.user[u] = user[u]

\* The cache, and each answer on its way to it, has the past.
PastIsKnown ==
    /\ epochs.at >= 0 => HasPast(epochs.data, epochs.at)
    /\ \A r \in Asks : asked[r].stage = "answered" => HasPast(asked[r].reply, asked[r].at)

SessionsInv == SessionsTyped /\ NotAhead /\ PastIsKnown /\ Sess!RevocationBites

LEMMA SessionsInit == Sess!Init => SessionsInv
<1> SUFFICES ASSUME Sess!Init PROVE SessionsInv
  OBVIOUS
<1> USE DEF Sess!Init, Sess!NoEpochs, Sess!Idle, Sess!NoVerdict, Sess!Nobody
<1>1. SessionsTyped
  BY DEF SessionsTyped, EpochsRead
<1>2. NotAhead /\ PastIsKnown
  BY DEF NotAhead, PastIsKnown
<1>3. Sess!RevocationBites
  BY DEF Sess!RevocationBites
<1> QED
  BY <1>1, <1>2, <1>3 DEF SessionsInv

\* A step that decides nothing, and what it may not disturb.
LEMMA NothingDecided ==
    ASSUME Sess!Quiet
    PROVE  /\ Sess!RevocationBites'
           /\ verdict' \in [who : Users \cup {Sess!Nobody},
                            kind : {"none", "refused", "checked", "open", "verified"}]
BY DEF Sess!Quiet, Sess!NoVerdict, Sess!RevocationBites, Sess!Nobody

\* Whoever was let in by what has the past was let in rightly: an epoch that
\* revokes the token is no older than what was read.
LEMMA CheckedInTime ==
    ASSUME SessionsTyped, NEW u \in Users, NEW data \in EpochsRead, NEW at \in Int,
           HasPast(data, at), ~Sess!IsRevoked(u, data)
    PROVE  \A e \in Sess!Revoking(u) : e \in Int /\ at <= e
BY DEF SessionsTyped, EpochsRead, HasPast, Sess!IsRevoked, Sess!Revoking

\* Time goes on, somebody logs in, or an epoch is set: it is set to now, so
\* nothing that was noted before has to know of it.
LEMMA WorldStep ==
    ASSUME SessionsInv,
           \/ Sess!Tick \/ Sess!RevokeAll
           \/ \E u \in Users : Sess!Login(u) \/ Sess!RevokeUser(u)
    PROVE  SessionsInv'
<1>1. Sess!Quiet /\ UNCHANGED <<epochs, asked>> /\ time' \in {time, time + 1}
  BY DEF Sess!Tick, Sess!RevokeAll, Sess!Login, Sess!RevokeUser
<1>2. /\ all' \in {all, time}
      /\ user' = user \/ \E u \in Users : user' = [user EXCEPT ![u] = time]
      /\ issued' = issued \/ \E u \in Users : issued' = [issued EXCEPT ![u] = time]
  BY DEF Sess!Tick, Sess!RevokeAll, Sess!Login, Sess!RevokeUser, Sess!epochs
<1>3. SessionsTyped'
  BY <1>1, <1>2, NothingDecided DEF SessionsInv, SessionsTyped
<1>4. NotAhead'
  BY <1>1 DEF SessionsInv, SessionsTyped, NotAhead, EpochsRead
<1>5. ASSUME NEW data, NEW at \in Int, at <= time, HasPast(data, at)
      PROVE  HasPast(data, at)'
  BY <1>2, <1>5 DEF SessionsInv, SessionsTyped, HasPast
<1>6. PastIsKnown'
  BY <1>1, <1>5 DEF SessionsInv, SessionsTyped, NotAhead, PastIsKnown
<1> QED
  BY <1>1, <1>3, <1>4, <1>6, NothingDecided DEF SessionsInv

LEMMA AskStep == ASSUME SessionsInv, NEW r \in Asks, NEW u \in Users, Sess!Ask(r, u) PROVE SessionsInv'
<1>1. /\ Sess!Quiet /\ UNCHANGED <<time, issued, all, user, epochs>>
      /\ asked' = [asked EXCEPT ![r] = [stage |-> "asked", who |-> u, at |-> time, reply |-> Sess!NoEpochs]]
  BY DEF Sess!Ask, Sess!epochs
<1>2. Sess!NoEpochs \in EpochsRead
  BY DEF Sess!NoEpochs, EpochsRead
<1>3. SessionsTyped'
  BY <1>1, <1>2, NothingDecided DEF SessionsInv, SessionsTyped
<1>4. NotAhead' /\ PastIsKnown'
  BY <1>1 DEF SessionsInv, SessionsTyped, NotAhead, PastIsKnown, HasPast
<1> QED
  BY <1>1, <1>3, <1>4, NothingDecided DEF SessionsInv

LEMMA AnswerStep == ASSUME SessionsInv, NEW r \in Asks, Sess!Answer(r) PROVE SessionsInv'
<1>1. /\ Sess!Quiet /\ UNCHANGED <<time, issued, all, user, epochs>>
      /\ asked[r].stage = "asked"
      /\ asked' = [asked EXCEPT ![r] = [asked[r] EXCEPT !.stage = "answered", !.reply = Sess!Epochs]]
  BY DEF Sess!Answer, Sess!epochs, SessionsInv, SessionsTyped
<1>2. Sess!Epochs \in EpochsRead /\ \A at : HasPast(Sess!Epochs, at)
  BY DEF Sess!Epochs, EpochsRead, HasPast, SessionsInv, SessionsTyped
<1>3. SessionsTyped'
  BY <1>1, <1>2, NothingDecided DEF SessionsInv, SessionsTyped
<1>4. NotAhead'
  BY <1>1 DEF SessionsInv, SessionsTyped, NotAhead
<1>5. PastIsKnown'
  BY <1>1, <1>2 DEF SessionsInv, SessionsTyped, PastIsKnown, HasPast
<1> QED
  BY <1>1, <1>3, <1>4, <1>5, NothingDecided DEF SessionsInv

\* The dashboard decides by its cache.
LEMMA UseCacheStep == ASSUME SessionsInv, NEW u \in Users, Sess!UseCache(u) PROVE SessionsInv'
<1>1. /\ UNCHANGED <<time, issued, all, user, epochs, asked>>
      /\ epochs.at >= 0 /\ time - epochs.at < Ttl
      /\ verdict' = [who |-> u, kind |-> IF Sess!IsRevoked(u, epochs.data) THEN "refused" ELSE "checked"]
  BY DEF Sess!UseCache, Sess!CacheFresh, Sess!Decide, Sess!epochs
<1>2. SessionsTyped'
  BY <1>1 DEF SessionsInv, SessionsTyped
<1>3. NotAhead' /\ PastIsKnown'
  BY <1>1 DEF SessionsInv, NotAhead, PastIsKnown, HasPast
<1>4. Sess!RevocationBites'
  <2>1. ASSUME ~Sess!IsRevoked(u, epochs.data), NEW e \in Sess!Revoking(u) PROVE time - e < Ttl
    <3>1. e \in Int /\ epochs.at <= e
      BY <1>1, <2>1, CheckedInTime DEF SessionsInv, SessionsTyped, PastIsKnown
    <3> QED
      BY <1>1, <3>1, GatewayAssumption DEF SessionsInv, SessionsTyped
  <2>2. Sess!Revoking(u)' = Sess!Revoking(u)
    BY <1>1 DEF Sess!Revoking
  <2> QED
    BY <1>1, <2>1, <2>2 DEF Sess!RevocationBites
<1> QED
  BY <1>2, <1>3, <1>4 DEF SessionsInv

\* An answer comes back, late perhaps, and is cached with the time of its question.
LEMMA ReceiveStep == ASSUME SessionsInv, NEW r \in Asks, Sess!Receive(r) PROVE SessionsInv'
<1> DEFINE u == asked[r].who
<1>1. /\ UNCHANGED <<time, issued, all, user>> /\ asked[r].stage = "answered"
      /\ epochs' = [at |-> asked[r].at, data |-> asked[r].reply]
      /\ asked' = [asked EXCEPT ![r] = Sess!Idle]
      /\ verdict' = [who |-> u, kind |-> IF Sess!IsRevoked(u, asked[r].reply) THEN "refused" ELSE "checked"]
  BY DEF Sess!Receive, Sess!Decide, Sess!epochs
<1>2. /\ u \in Users /\ asked[r].at \in Int /\ asked[r].at <= time
      /\ asked[r].reply \in EpochsRead /\ HasPast(asked[r].reply, asked[r].at)
  BY <1>1 DEF SessionsInv, SessionsTyped, NotAhead, PastIsKnown
<1>3. Sess!Idle.stage = "idle" /\ Sess!Idle.at = 0
  BY DEF Sess!Idle
<1>4. SessionsTyped'
  <2>1. Sess!Idle \in [stage : {"idle", "asked", "answered"}, who : Users \cup {Sess!Nobody},
                       at : Int, reply : EpochsRead]
    BY DEF Sess!Idle, Sess!NoEpochs, EpochsRead
  <2> QED
    BY <1>1, <1>2, <2>1 DEF SessionsInv, SessionsTyped
<1>5. NotAhead'
  BY <1>1, <1>2, <1>3 DEF SessionsInv, SessionsTyped, NotAhead
<1>6. PastIsKnown'
  BY <1>1, <1>2, <1>3 DEF SessionsInv, SessionsTyped, PastIsKnown, HasPast
<1>7. Sess!RevocationBites'
  <2>1. ASSUME ~Sess!IsRevoked(u, asked[r].reply), NEW e \in Sess!Revoking(u)
        PROVE  e \in Int /\ asked[r].at <= e
    BY <1>2, <2>1, CheckedInTime DEF SessionsInv
  <2>3. SUFFICES ASSUME verdict'.kind = "checked", Sess!CacheFresh', NEW e \in Sess!Revoking(verdict.who)'
                 PROVE  (time - e < Ttl)'
    BY <1>1 DEF Sess!RevocationBites
  <2>4. ~Sess!IsRevoked(u, asked[r].reply) /\ verdict'.who = u
    BY <1>1, <2>3
  <2>5. e \in Sess!Revoking(u)
    BY <1>1, <2>3, <2>4 DEF Sess!Revoking
  <2>6. time - asked[r].at < Ttl
    BY <1>1, <2>3 DEF Sess!CacheFresh
  <2> QED
    BY <1>1, <1>2, <2>1, <2>4, <2>5, <2>6, GatewayAssumption DEF SessionsInv, SessionsTyped
<1> QED
  BY <1>4, <1>5, <1>6, <1>7 DEF SessionsInv

\* Without an answer the token counts; so it does when the gateway cannot read
\* the epochs, which when it can are those in force.
LEMMA OpenStep == ASSUME SessionsInv, NEW r \in Asks, Sess!FailOpen(r) PROVE SessionsInv'
<1> DEFINE u == asked[r].who
<1>1. /\ UNCHANGED <<time, issued, all, user, epochs>> /\ u \in Users
      /\ asked' = [asked EXCEPT ![r] = Sess!Idle]
      /\ verdict' = [who |-> u, kind |-> IF Sess!IsRevoked(u, epochs.data) THEN "refused" ELSE "open"]
  BY DEF Sess!FailOpen, Sess!Decide, Sess!epochs, SessionsInv, NotAhead
<1>2. Sess!Idle \in [stage : {"idle", "asked", "answered"}, who : Users \cup {Sess!Nobody},
                     at : Int, reply : EpochsRead]
  BY DEF Sess!Idle, Sess!NoEpochs, EpochsRead
<1>3. Sess!Idle.stage = "idle" /\ Sess!Idle.at = 0
  BY DEF Sess!Idle
<1>4. SessionsTyped'
  BY <1>1, <1>2 DEF SessionsInv, SessionsTyped
<1>5. NotAhead' /\ PastIsKnown'
  BY <1>1, <1>3 DEF SessionsInv, SessionsTyped, NotAhead, PastIsKnown, HasPast
<1> QED
  BY <1>1, <1>4, <1>5 DEF SessionsInv, Sess!RevocationBites

LEMMA ResolveStep == ASSUME SessionsInv, NEW u \in Users, Sess!Resolve(u) PROVE SessionsInv'
<1>1. /\ UNCHANGED <<time, issued, all, user, epochs, asked>>
      /\ \/ verdict' = [who |-> u, kind |-> IF Sess!IsRevoked(u, Sess!Epochs) THEN "refused" ELSE "verified"]
         \/ verdict' = [who |-> u, kind |-> IF Sess!IsRevoked(u, Sess!NoEpochs) THEN "refused" ELSE "open"]
  BY DEF Sess!Resolve, Sess!Decide, Sess!epochs
<1>2. SessionsTyped' /\ NotAhead' /\ PastIsKnown'
  BY <1>1 DEF SessionsInv, SessionsTyped, NotAhead, PastIsKnown, HasPast
<1>3. ~Sess!IsRevoked(u, Sess!Epochs) => Sess!Revoking(u) = {}
  BY DEF Sess!IsRevoked, Sess!Epochs, Sess!Revoking
<1>4. Sess!Revoking(u)' = Sess!Revoking(u)
  BY <1>1 DEF Sess!Revoking
<1>5. verdict'.who = u /\ verdict'.kind # "checked"
      /\ (verdict'.kind = "verified" => ~Sess!IsRevoked(u, Sess!Epochs))
  BY <1>1
<1>6. Sess!RevocationBites'
  BY <1>3, <1>4, <1>5 DEF Sess!RevocationBites
<1> QED
  BY <1>2, <1>6 DEF SessionsInv

LEMMA SessionsStep == SessionsInv /\ [Sess!Next]_(Sess!vars) => SessionsInv'
<1> SUFFICES ASSUME SessionsInv, [Sess!Next]_(Sess!vars) PROVE SessionsInv'
  OBVIOUS
<1>1. CASE UNCHANGED Sess!vars
  BY <1>1 DEF Sess!vars, Sess!epochs, SessionsInv, SessionsTyped, NotAhead, PastIsKnown, HasPast,
              Sess!RevocationBites, Sess!Revoking, Sess!CacheFresh
<1>2. CASE Sess!Tick \/ Sess!RevokeAll \/ \E u \in Users : Sess!Login(u) \/ Sess!RevokeUser(u)
  BY <1>2, WorldStep
<1>3. CASE \E u \in Users : Sess!UseCache(u) \/ Sess!Resolve(u)
  BY <1>3, UseCacheStep, ResolveStep
<1>4. CASE \E r \in Asks : Sess!Answer(r) \/ Sess!Receive(r) \/ Sess!FailOpen(r)
  BY <1>4, AnswerStep, ReceiveStep, OpenStep
<1>5. CASE \E r \in Asks, u \in Users : Sess!Ask(r, u)
  BY <1>5, AskStep
<1> QED
  BY <1>1, <1>2, <1>3, <1>4, <1>5 DEF Sess!Next

(* A revocation takes effect at the gateway at once and, for any number of *)
(* operators and requests and any order of the answers, at the dashboard   *)
(* within the lifetime of its cache; what is cached is no older than it    *)
(* says (auth.py resolve_identity, lib/revocation.ts load).                *)
THEOREM RevocationTakesEffect == AllSpec => []RevokedInTime
<1>1. SessionsInv => RevokedInTime
  BY DEF SessionsInv, PastIsKnown, HasPast, RevokedInTime, Sess!RevokedInTime, Sess!CacheHasPast
<1> QED
  BY <1>1, SessionsInit, SessionsStep, ComponentsRun, PTL DEF Sess!Spec

-----------------------------------------------------------------------------
(* The rate limit.                                                         *)

LEMMA Division ==
    ASSUME NEW t \in Nat, NEW w \in Nat \ {0}
    PROVE  t \div w \in Nat /\ (t \div w) * w <= t /\ t < (t \div w + 1) * w
OBVIOUS

LEMMA DivisionGrows ==
    ASSUME NEW t \in Nat, NEW u \in Nat, t <= u, NEW w \in Nat \ {0} PROVE t \div w <= u \div w
OBVIOUS

\* The instance's Cardinality is the library's.
LEMMA SameCardinality == \A S : Rate!Cardinality(S) = Cardinality(S)
BY DEF Rate!Cardinality, Cardinality

\* The end of bucket b's window, and the requests its counter has let through.
Closes(b)  == (b + 1) * RateWindow
Through(b) == { r \in Arrivals : callerPc[r] \in {"expire", "admitted"} /\ bucket[r] = b }
Admitted(b) == { r \in Arrivals : callerPc[r] = "admitted" /\ bucket[r] = b
                                   /\ admitted[r] \div RateWindow = b }

RateTyped ==
    /\ now \in Nat /\ now <= RateTime
    /\ count \in [Rate!Buckets -> Nat] /\ expiry \in [Rate!Buckets -> Nat]
    /\ callerPc \in [Arrivals -> {"new", "incr", "expire", "admitted", "refused", "open"}]
    /\ bucket \in [Arrivals -> Rate!Buckets] /\ admitted \in [Arrivals -> Int]

\* A bucket was computed at a time gone by; with no limit to fill nobody is admitted.
ComeInTime ==
    \A r \in Arrivals :
        /\ callerPc[r] \in {"incr", "expire"} => bucket[r] * RateWindow <= now
        /\ callerPc[r] = "admitted" => Limit > 0

\* Until its window closes a counter is not dropped, and has counted whoever
\* went through; so no more went through than the limit.
CountsThem(b) ==
    now < Closes(b) => /\ expiry[b] = 0 \/ Closes(b) <= expiry[b]
                       /\ Cardinality(Through(b)) <= count[b]
                       /\ Limit > 0 => Cardinality(Through(b)) <= Limit

CountersCount == \A b \in Rate!Buckets : CountsThem(b)

LimitHolds == \A b \in Rate!Buckets : Cardinality(Admitted(b)) <= Limit

RateInv == RateTyped /\ ComeInTime /\ CountersCount /\ LimitHolds

LEMMA SetsAreFinite ==
    \A b : /\ IsFiniteSet(Through(b)) /\ Cardinality(Through(b)) \in Nat
           /\ IsFiniteSet(Admitted(b)) /\ Cardinality(Admitted(b)) \in Nat
<1> TAKE b
<1>1. Through(b) \subseteq Arrivals /\ Admitted(b) \subseteq Arrivals
  BY DEF Through, Admitted
<1> QED
  BY <1>1, FS_Subset, FS_CardinalityType, GatewayAssumption

LEMMA BucketsAreNumbers == \A b \in Rate!Buckets : b \in Nat /\ Closes(b) \in Nat
BY GatewayAssumption DEF Rate!Buckets, Closes

\* While a bucket is open its admitted requests are among those let through;
\* so the limit, when there is one, is kept as long as it is.
LEMMA OpenKeepsLimit ==
    RateTyped /\ ComeInTime /\ CountersCount
        => \A b \in Rate!Buckets : now < Closes(b) => Cardinality(Admitted(b)) <= Limit
<1> SUFFICES ASSUME RateTyped, ComeInTime, CountersCount, NEW b \in Rate!Buckets, now < Closes(b)
             PROVE  Cardinality(Admitted(b)) <= Limit
  OBVIOUS
<1>1. CASE Limit > 0
  <2>1. Admitted(b) \subseteq Through(b)
    BY DEF Admitted, Through
  <2>2. Cardinality(Admitted(b)) <= Cardinality(Through(b))
    BY <2>1, FS_Subset, SetsAreFinite
  <2>3. Cardinality(Through(b)) <= Limit
    BY <1>1 DEF CountersCount, CountsThem
  <2> QED
    BY <2>2, <2>3, SetsAreFinite, GatewayAssumption
<1>2. CASE ~(Limit > 0)
  <2>1. Admitted(b) = {}
    BY <1>2 DEF Admitted, ComeInTime
  <2> QED
    BY <2>1, FS_EmptySet, GatewayAssumption
<1> QED
  BY <1>1, <1>2

\* A step of one request, which was not admitted before: what stays as it was.
ConcernsOnly(r) ==
    /\ now' = now /\ callerPc[r] # "admitted"
    /\ \A q \in Arrivals \ {r} : callerPc'[q] = callerPc[q] /\ bucket'[q] = bucket[q]
                                  /\ admitted'[q] = admitted[q]
    /\ callerPc'[r] = "admitted" => admitted'[r] = now

\* A bucket that has closed admits nobody more: whoever is admitted now is
\* admitted in a later window.  So a step that keeps the counters keeps the limit.
LEMMA LimitKept ==
    ASSUME RateInv, NEW r \in Arrivals, ConcernsOnly(r), RateTyped', ComeInTime', CountersCount'
    PROVE  RateInv'
<1>1. ASSUME NEW b \in Rate!Buckets, Closes(b) <= now PROVE Admitted(b)' = Admitted(b)
  <2>1. (b + 1) * RateWindow <= now
    BY <1>1 DEF Closes
  <2>2. now < (now \div RateWindow + 1) * RateWindow
    BY Division, GatewayAssumption DEF RateInv, RateTyped
  <2>3. now \div RateWindow # b
    BY <2>1, <2>2, BucketsAreNumbers, GatewayAssumption DEF RateInv, RateTyped, Closes
  <2>4. r \notin Admitted(b) /\ r \notin Admitted(b)'
    BY <2>3 DEF Admitted, ConcernsOnly
  <2> QED
    BY <2>4 DEF Admitted, ConcernsOnly
<1>2. \A b \in Rate!Buckets : now' < Closes(b) => Cardinality(Admitted(b)') <= Limit
  <2>1. (RateTyped /\ ComeInTime /\ CountersCount)'
            => (\A b \in Rate!Buckets : now < Closes(b) => Cardinality(Admitted(b)) <= Limit)'
    BY OpenKeepsLimit, PTL
  <2> QED
    BY <2>1 DEF Closes
<1>3. \A b \in Rate!Buckets : now < Closes(b) \/ Closes(b) <= now
  BY BucketsAreNumbers DEF RateInv, RateTyped
<1>4. LimitHolds'
  BY <1>1, <1>2, <1>3 DEF RateInv, LimitHolds, ConcernsOnly
<1> QED
  BY <1>4 DEF RateInv

LEMMA RateInit == Rate!Init => RateInv
<1> SUFFICES ASSUME Rate!Init PROVE RateInv
  OBVIOUS
<1>1. RateTyped
  <2>1. 0 \in Rate!Buckets
    BY Division, GatewayAssumption DEF Rate!Buckets
  <2> QED
    BY <2>1, GatewayAssumption DEF Rate!Init, RateTyped
<1>2. ComeInTime
  BY DEF Rate!Init, ComeInTime
<1>3. \A b : Through(b) = {} /\ Admitted(b) = {}
  BY DEF Rate!Init, Through, Admitted
<1>4. Cardinality({}) = 0 /\ Limit \in Nat
  BY FS_EmptySet, GatewayAssumption
<1>5. CountersCount
  <2>1. \A b \in Rate!Buckets : count[b] = 0 /\ expiry[b] = 0
    BY DEF Rate!Init
  <2> QED
    BY <1>3, <1>4, <2>1 DEF CountersCount, CountsThem
<1>6. LimitHolds
  BY <1>3, <1>4 DEF LimitHolds
<1> QED
  BY <1>1, <1>2, <1>5, <1>6 DEF RateInv

\* Time goes on; a counter whose window is open is not dropped.
LEMMA TickStep == ASSUME RateInv, Rate!Tick PROVE RateInv'
<1> DEFINE gone(b) == expiry[b] # 0 /\ expiry[b] <= now'
<1>1. /\ now < RateTime /\ now' = now + 1 /\ UNCHANGED <<callerPc, bucket, admitted>>
      /\ count' = [b \in Rate!Buckets |-> IF gone(b) THEN 0 ELSE count[b]]
      /\ expiry' = [b \in Rate!Buckets |-> IF gone(b) THEN 0 ELSE expiry[b]]
  BY DEF Rate!Tick
<1>2. RateTyped'
  BY <1>1, GatewayAssumption DEF RateInv, RateTyped
<1>3. ComeInTime'
  <2>1. \A r \in Arrivals : bucket[r] \in Nat /\ bucket[r] * RateWindow \in Nat
    BY BucketsAreNumbers, GatewayAssumption DEF RateInv, RateTyped
  <2> QED
    BY <1>1, <2>1 DEF RateInv, RateTyped, ComeInTime
<1>4. \A b : Through(b)' = Through(b) /\ Admitted(b)' = Admitted(b) /\ Closes(b)' = Closes(b)
  BY <1>1 DEF Through, Admitted, Closes
<1>5. ASSUME NEW b \in Rate!Buckets, now' < Closes(b) PROVE ~gone(b) /\ now < Closes(b)
  BY <1>1, <1>5, BucketsAreNumbers DEF RateInv, RateTyped, CountersCount, CountsThem
<1>6. CountersCount'
  BY <1>1, <1>4, <1>5 DEF RateInv, CountersCount, CountsThem
<1>7. LimitHolds'
  BY <1>4 DEF RateInv, LimitHolds
<1> QED
  BY <1>2, <1>3, <1>6, <1>7 DEF RateInv

LEMMA ArriveStep == ASSUME RateInv, NEW r \in Arrivals, Rate!Arrive(r) PROVE RateInv'
<1>1. /\ callerPc[r] = "new" /\ callerPc' = [callerPc EXCEPT ![r] = "incr"]
      /\ bucket' = [bucket EXCEPT ![r] = now \div RateWindow]
      /\ UNCHANGED <<now, count, expiry, admitted>>
  BY DEF Rate!Arrive, Rate!Step
<1>2. now \div RateWindow \in Rate!Buckets /\ (now \div RateWindow) * RateWindow <= now
  <2>1. now \div RateWindow <= RateTime \div RateWindow
    BY DivisionGrows, GatewayAssumption DEF RateInv, RateTyped
  <2>2. now \div RateWindow \in Nat /\ RateTime \div RateWindow \in Nat
        /\ (now \div RateWindow) * RateWindow <= now
    BY Division, GatewayAssumption DEF RateInv, RateTyped
  <2> QED
    BY <2>1, <2>2 DEF Rate!Buckets
<1>3. RateTyped'
  BY <1>1, <1>2 DEF RateInv, RateTyped
<1>4. ComeInTime'
  BY <1>1, <1>2 DEF RateInv, RateTyped, ComeInTime
<1>5. \A b : Through(b)' = Through(b) /\ Closes(b)' = Closes(b)
  BY <1>1 DEF RateInv, RateTyped, Through, Closes
<1>6. CountersCount'
  BY <1>1, <1>5 DEF RateInv, CountersCount, CountsThem
<1>7. ConcernsOnly(r)
  BY <1>1 DEF RateInv, RateTyped, ConcernsOnly
<1> QED
  BY <1>3, <1>4, <1>6, <1>7, LimitKept

\* The first of a bucket goes on to set its expiry; the others are decided.
LEMMA IncrStep == ASSUME RateInv, NEW r \in Arrivals, Rate!Incr(r) PROVE RateInv'
<1> DEFINE b == bucket[r]
           n == count[b] + 1
           to == IF n = 1 THEN "expire" ELSE IF n > Limit THEN "refused" ELSE "admitted"
<1>1. /\ callerPc[r] = "incr" /\ callerPc' = [callerPc EXCEPT ![r] = to]
      /\ count' = [count EXCEPT ![b] = n]
      /\ admitted' = IF to = "admitted" THEN [admitted EXCEPT ![r] = now] ELSE admitted
      /\ UNCHANGED <<now, expiry, bucket>>
  BY DEF Rate!Incr, Rate!Decide
<1>2. b \in Rate!Buckets /\ count[b] \in Nat /\ n \in Nat /\ n > 0
  BY DEF RateInv, RateTyped
<1>3. RateTyped'
  BY <1>1, <1>2 DEF RateInv, RateTyped
<1>4. ComeInTime'
  BY <1>1, <1>2, GatewayAssumption DEF RateInv, RateTyped, ComeInTime
<1>5. \A c : Closes(c)' = Closes(c)
  BY DEF Closes
<1>6. ASSUME NEW c \in Rate!Buckets, c # b PROVE CountsThem(c)'
  <2>1. Through(c)' = Through(c) /\ count'[c] = count[c]
    BY <1>1, <1>6 DEF RateInv, RateTyped, Through
  <2> QED
    BY <1>1, <1>5, <2>1, <1>6 DEF RateInv, CountersCount, CountsThem
<1>7. ASSUME NEW c \in Rate!Buckets, c = b PROVE CountsThem(c)'
  <2> SUFFICES ASSUME now < Closes(c)
               PROVE  /\ Cardinality(Through(c)') <= n
                      /\ Limit > 0 => Cardinality(Through(c)') <= Limit
    BY <1>1, <1>2, <1>5, <1>7 DEF RateInv, RateTyped, CountersCount, CountsThem
  <2>1. /\ Cardinality(Through(c)) <= count[c]
        /\ Limit > 0 => Cardinality(Through(c)) <= Limit
    BY DEF RateInv, CountersCount, CountsThem
  <2>2. CASE to = "refused"
    <3>1. Through(c)' = Through(c)
      BY <1>1, <1>7, <2>2 DEF RateInv, RateTyped, Through
    <3> QED
      BY <1>2, <1>7, <2>1, <3>1, SetsAreFinite
  <2>3. CASE to # "refused"
    <3>1. Through(c)' = Through(c) \cup {r} /\ r \notin Through(c)
      BY <1>1, <1>7, <2>3 DEF RateInv, RateTyped, Through
    <3>2. Cardinality(Through(c)') = Cardinality(Through(c)) + 1
      BY <3>1, FS_AddElement, SetsAreFinite
    <3>3. Limit > 0 => n <= Limit
      BY <1>2, <2>3, GatewayAssumption
    <3> QED
      BY <1>2, <1>7, <2>1, <3>2, <3>3, SetsAreFinite, GatewayAssumption
  <2> QED
    BY <2>2, <2>3
<1>8. CountersCount'
  BY <1>6, <1>7 DEF CountersCount, Rate!Buckets
<1>9. ConcernsOnly(r)
  BY <1>1 DEF RateInv, RateTyped, ConcernsOnly
<1> QED
  BY <1>3, <1>4, <1>8, <1>9, LimitKept

\* The first sets the expiry: the counter then outlives its window, however
\* late the command is.
LEMMA ExpireStep == ASSUME RateInv, NEW r \in Arrivals, Rate!Expire(r) PROVE RateInv'
<1> DEFINE b == bucket[r]
           to == IF 1 > Limit THEN "refused" ELSE "admitted"
<1>1. /\ callerPc[r] = "expire" /\ callerPc' = [callerPc EXCEPT ![r] = to]
      /\ expiry' = [expiry EXCEPT ![b] = IF count[b] > 0 THEN now + RateWindow ELSE expiry[b]]
      /\ admitted' = IF to = "admitted" THEN [admitted EXCEPT ![r] = now] ELSE admitted
      /\ UNCHANGED <<now, count, bucket>>
  BY DEF Rate!Expire, Rate!Decide
<1>2. b \in Rate!Buckets /\ b \in Nat /\ b * RateWindow <= now /\ now + RateWindow \in Nat
  BY <1>1, BucketsAreNumbers, GatewayAssumption DEF RateInv, RateTyped, ComeInTime
<1>3. Closes(b) <= now + RateWindow
  BY <1>2, GatewayAssumption DEF Closes, RateInv, RateTyped
<1>4. RateTyped'
  BY <1>1, <1>2 DEF RateInv, RateTyped
<1>5. ComeInTime'
  BY <1>1, <1>2, GatewayAssumption DEF RateInv, RateTyped, ComeInTime
<1>6. \A c : Closes(c)' = Closes(c)
  BY DEF Closes
<1>7. \A c : Through(c)' \subseteq Through(c)
  BY <1>1 DEF RateInv, RateTyped, Through
<1>8. \A c : Cardinality(Through(c)') <= Cardinality(Through(c)) /\ Cardinality(Through(c)') \in Nat
  <2> TAKE c
  <2>1. IsFiniteSet(Through(c)') /\ Cardinality(Through(c)') \in Nat
    BY <1>7, SetsAreFinite, FS_Subset, FS_CardinalityType
  <2> QED
    BY <1>7, <2>1, SetsAreFinite, FS_Subset
<1>9. CountersCount'
  <2> SUFFICES ASSUME NEW c \in Rate!Buckets, now < Closes(c) PROVE CountsThem(c)'
    BY <1>1, <1>6 DEF CountersCount, CountsThem, Rate!Buckets
  <2>1. expiry'[c] = 0 \/ Closes(c) <= expiry'[c]
    BY <1>1, <1>2, <1>3 DEF RateInv, RateTyped, CountersCount, CountsThem
  <2>2. /\ Cardinality(Through(c)) <= count[c] /\ count[c] \in Nat
        /\ Limit > 0 => Cardinality(Through(c)) <= Limit
    BY DEF RateInv, RateTyped, CountersCount, CountsThem
  <2>3. /\ Cardinality(Through(c)') <= count[c]
        /\ Limit > 0 => Cardinality(Through(c)') <= Limit
    BY <1>8, <2>2, SetsAreFinite, GatewayAssumption
  <2> QED
    BY <1>1, <1>6, <2>1, <2>3 DEF CountsThem
<1>10. ConcernsOnly(r)
  BY <1>1 DEF RateInv, RateTyped, ConcernsOnly
<1> QED
  BY <1>4, <1>5, <1>9, <1>10, LimitKept

\* A request let through because a command raised is not counted in, though
\* the counter may have counted it.
LEMMA FailOpenStep == ASSUME RateInv, NEW r \in Arrivals, Rate!FailOpen(r) PROVE RateInv'
<1> DEFINE b == bucket[r]
<1>1. /\ callerPc[r] \in {"incr", "expire"} /\ callerPc' = [callerPc EXCEPT ![r] = "open"]
      /\ count' \in {count, [count EXCEPT ![b] = count[b] + 1]}
      /\ UNCHANGED <<now, expiry, bucket, admitted>>
  BY DEF Rate!FailOpen, RateInv, RateTyped
<1>2. RateTyped'
  BY <1>1 DEF RateInv, RateTyped
<1>3. ComeInTime'
  BY <1>1 DEF RateInv, RateTyped, ComeInTime
<1>4. \A c : Closes(c)' = Closes(c) /\ Through(c)' \subseteq Through(c)
  BY <1>1 DEF RateInv, RateTyped, Through, Closes
<1>5. \A c : Cardinality(Through(c)') <= Cardinality(Through(c)) /\ Cardinality(Through(c)') \in Nat
  <2> TAKE c
  <2>1. IsFiniteSet(Through(c)') /\ Cardinality(Through(c)') \in Nat
    BY <1>4, SetsAreFinite, FS_Subset, FS_CardinalityType
  <2> QED
    BY <1>4, <2>1, SetsAreFinite, FS_Subset
<1>6. \A c \in Rate!Buckets : count[c] \in Nat /\ count'[c] \in Nat /\ count[c] <= count'[c]
  BY <1>1 DEF RateInv, RateTyped
<1>7. CountersCount'
  BY <1>1, <1>4, <1>5, <1>6, SetsAreFinite, GatewayAssumption
     DEF RateInv, CountersCount, CountsThem, Rate!Buckets
<1>8. ConcernsOnly(r)
  BY <1>1 DEF RateInv, RateTyped, ConcernsOnly
<1> QED
  BY <1>2, <1>3, <1>7, <1>8, LimitKept

LEMMA RateStep == RateInv /\ [Rate!Next]_(Rate!vars) => RateInv'
<1> SUFFICES ASSUME RateInv, [Rate!Next]_(Rate!vars) PROVE RateInv'
  OBVIOUS
<1>1. CASE UNCHANGED Rate!vars
  <2>1. \A b : Through(b)' = Through(b) /\ Admitted(b)' = Admitted(b) /\ Closes(b)' = Closes(b)
    BY <1>1 DEF Rate!vars, Through, Admitted, Closes
  <2> QED
    BY <1>1, <2>1 DEF Rate!vars, RateInv, RateTyped, ComeInTime, CountersCount, CountsThem, LimitHolds
<1>2. CASE Rate!Tick
  BY <1>2, TickStep
<1>3. CASE \E r \in Arrivals : Rate!Arrive(r) \/ Rate!Incr(r) \/ Rate!Expire(r) \/ Rate!FailOpen(r)
  BY <1>3, ArriveStep, IncrStep, ExpireStep, FailOpenStep
<1> QED
  BY <1>1, <1>2, <1>3 DEF Rate!Next

(* A bucket admits no more than its limit by their count, for any number   *)
(* of requests, any limit and any window, wherever the requests stop       *)
(* between the two commands (rate_limit.py RateLimitMiddleware).           *)
THEOREM BucketsKeepTheLimit == AllSpec => []AdmittedPerBucket
<1>1. LimitHolds => AdmittedPerBucket
  BY SameCardinality DEF LimitHolds, Admitted, AdmittedPerBucket, Rate!AdmittedPerBucket
<1>2. RateInv => LimitHolds
  BY DEF RateInv
<1> QED
  BY <1>1, <1>2, RateInit, RateStep, ComponentsRun, PTL DEF Rate!Spec
=============================================================================
