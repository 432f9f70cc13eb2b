--------------------------- MODULE DeliveryProofs ---------------------------
(***************************************************************************)
(* Proofs about what must arrive, as MCDelivery puts it side by side: for  *)
(* any number of signals, alerts, channels, symbols and toggles, and any   *)
(* interval, length and lifetime.                                          *)
(*                                                                         *)
(* The first part is about SignalPipeline alone.  ai-filter implements     *)
(* Handoff, for any number of replicas, loops, signals and opportunities   *)
(* and any length of the streams: what the other tasks do to an            *)
(* opportunity is to publish it; a replica reads, forwards and             *)
(* acknowledges it; anything else can only lose it.  Then two bounds on    *)
(* what the strategy service publishes: after a kill, and for each signal. *)
(***************************************************************************)
EXTENDS MCDelivery, FiniteSetTheorems, SequenceTheorems, TLAPS

-----------------------------------------------------------------------------
(* Types: the part of the state that is about opportunities.               *)

OppOK == opp \in StreamOf(Opps)

ReplicasOK == /\ aiPc \in [Replicas -> {"down", "read", "forward", "ack"}]
              /\ aiOpp \in [Replicas -> Opps \cup {0}]

CountsOK == nextOpp \in 1 .. MaxOpps + 1 /\ forwarded \in [Opps -> Nat]

\* A replica that is forwarding has an opportunity in hand.
HeldReal == \A r \in Replicas : aiPc[r] = "forward" => aiOpp[r] \in Opps

Typed == OppOK /\ ReplicasOK /\ CountsOK /\ HeldReal

-----------------------------------------------------------------------------
(* What a step does to the opportunities: one of four things.              *)

\* Nobody gets an opportunity; unread ones may be lost, replicas may let go.
Loses ==
    /\ UNCHANGED <<nextOpp, forwarded>>
    /\ opp' \in StreamOf(Opps)
    /\ opp'.unread = opp.unread \/ opp'.unread = <<>>
    /\ ReplicasOK'
    /\ \A r \in Replicas : aiPc'[r] = "forward" => aiPc[r] = "forward" /\ aiOpp'[r] = aiOpp[r]

Publishes ==
    /\ nextOpp <= MaxOpps /\ nextOpp' = nextOpp + 1
    /\ opp' = XAdd(opp, nextOpp, MaxLen)
    /\ UNCHANGED aiVars

Reads(r) ==
    /\ opp.unread # <<>> /\ opp' = XReadGroup(opp)
    /\ aiPc[r] = "read" /\ aiPc' = [aiPc EXCEPT ![r] = "forward"]
    /\ aiOpp' = [aiOpp EXCEPT ![r] = Head(opp.unread)]
    /\ UNCHANGED <<nextOpp, forwarded>>

Forwards(r) ==
    /\ aiPc[r] = "forward" /\ aiPc' = [aiPc EXCEPT ![r] = "ack"]
    /\ forwarded' \in {forwarded, [forwarded EXCEPT ![aiOpp[r]] = @ + 1]}
    /\ UNCHANGED <<nextOpp, opp, aiOpp>>

Effect == Loses \/ Publishes \/ \E r \in Replicas : Reads(r) \/ Forwards(r)

LEMMA StepEffect == Typed /\ [Next]_vars => Effect
<1> SUFFICES ASSUME Typed, [Next]_vars PROVE Effect
  OBVIOUS
<1> USE DEF publishVars, aiVars, strategyVars
<1>0. OppOK /\ ReplicasOK /\ CountsOK
  BY DEF Typed
<1>1. ASSUME UNCHANGED <<opp, aiVars, nextOpp>> PROVE Effect
  BY <1>0, <1>1 DEF Effect, Loses, OppOK, ReplicasOK
<1>2. ASSUME Publish, UNCHANGED aiVars PROVE Effect
  BY <1>2 DEF Effect, Publishes, Publish
<1>3. CASE Kill \/ StartStrategies \/ CrashStrategies \/ UNCHANGED vars
  BY <1>1, <1>3 DEF Kill, StartStrategies, CrashStrategies, vars
<1>4. CASE \E s \in Signals : Webhook(s)
  BY <1>1, <1>4 DEF Webhook
<1>5. CASE TvTask
  BY <1>1, <1>2, <1>5 DEF TvTask, TvRead, TvCheckHalt, TvCheckFlags, TvRun, TvRaises, TvAck,
                          TvStep, PublishNothing
<1>6. CASE \E l \in Loops : LoopTask(l)
  BY <1>1, <1>2, <1>6 DEF LoopTask, LoopTop, LoopCheckFlags, LoopGate, LoopScan, LoopRaises,
                          LoopStep, PublishNothing
<1>7. ASSUME NEW r \in Replicas, AiStart(r) PROVE Effect
  <2>1. /\ UNCHANGED <<nextOpp, forwarded, aiOpp>> /\ aiPc' = [aiPc EXCEPT ![r] = "read"]
        /\ opp' = CreateGroup(opp)
    BY <1>7 DEF AiStart, AiStep
  <2>2. opp' \in StreamOf(Opps) /\ (opp'.unread = opp.unread \/ opp'.unread = <<>>)
    <3>1. <<>> \in Seq(Opps)
      OBVIOUS
    <3> QED
      BY <1>0, <2>1, <3>1 DEF OppOK, StreamOf, CreateGroup
  <2> QED
    BY <1>0, <2>1, <2>2 DEF Effect, Loses, ReplicasOK
<1>8. ASSUME NEW r \in Replicas, AiRead(r) PROVE Effect
  BY <1>8 DEF AiRead, AiStep, HasUnread, Effect, Reads
<1>9. ASSUME NEW r \in Replicas, AiForward(r) PROVE Effect
  BY <1>9 DEF AiForward, AiStep, Effect, Forwards
<1>10. ASSUME NEW r \in Replicas, AiAck(r) PROVE Effect
  <2>1. /\ UNCHANGED <<nextOpp, forwarded>> /\ aiPc' = [aiPc EXCEPT ![r] = "read"]
        /\ aiOpp' = [aiOpp EXCEPT ![r] = 0] /\ opp' \in {opp, XAck(opp, aiOpp[r])}
    BY <1>10 DEF AiAck, AiStep
  <2>2. opp' \in StreamOf(Opps) /\ opp'.unread = opp.unread
    BY <1>0, <2>1 DEF OppOK, StreamOf, XAck
  <2> QED
    BY <1>0, <2>1, <2>2 DEF Effect, Loses, ReplicasOK
<1>11. ASSUME NEW r \in Replicas, AiCrash(r) PROVE Effect
  <2>1. /\ UNCHANGED <<nextOpp, forwarded, opp>> /\ aiPc' = [aiPc EXCEPT ![r] = "down"]
        /\ aiOpp' = [aiOpp EXCEPT ![r] = 0]
    BY <1>11 DEF AiCrash
  <2> QED
    BY <1>0, <2>1 DEF Effect, Loses, ReplicasOK, OppOK
<1> QED
  BY <1>3, <1>4, <1>5, <1>6, <1>7, <1>8, <1>9, <1>10, <1>11 DEF Next, AiTask

LEMMA TypedInit == Init => Typed
BY PipelineAssumption DEF Init, Typed, OppOK, ReplicasOK, CountsOK, HeldReal, NewStream, StreamOf, Opps

\* XADD keeps the order, appends the new entry and may drop the oldest.
LEMMA Added ==
    ASSUME NEW S, NEW st \in StreamOf(S), NEW x \in S
    PROVE  LET new == XAdd(st, x, MaxLen) IN
           /\ new \in StreamOf(S)
           /\ \/ new.unread = Append(st.unread, x)
              \/ st.unread # <<>> /\ new.unread = Tail(Append(st.unread, x))
<1> DEFINE longer == Append(st.unread, x)
<1>1. st.unread \in Seq(S)
  BY DEF StreamOf
<1>2. longer \in Seq(S) /\ Len(longer) = Len(st.unread) + 1
  BY <1>1
<1>3. Tail(longer) \in Seq(S)
  BY <1>2, <1>1
<1>4. Len(longer) > MaxLen => st.unread # <<>>
  BY <1>1, <1>2, PipelineAssumption
<1> HIDE DEF longer
<1>5. XAdd(st, x, MaxLen)
        = [st EXCEPT !.unread = IF Len(longer) > MaxLen THEN Tail(longer) ELSE longer]
  BY DEF XAdd, longer
<1> QED
  BY <1>2, <1>3, <1>4, <1>5 DEF StreamOf, longer

LEMMA TypedStep == Typed /\ [Next]_vars => Typed'
<1> SUFFICES ASSUME Typed, [Next]_vars PROVE Typed'
  OBVIOUS
<1>0. OppOK /\ ReplicasOK /\ CountsOK /\ HeldReal
  BY DEF Typed
<1>1. CASE Loses
  BY <1>0, <1>1 DEF Loses, Typed, OppOK, CountsOK, HeldReal
<1>2. CASE Publishes
  <2>1. nextOpp \in Opps
    BY <1>0, <1>2, PipelineAssumption DEF Publishes, CountsOK, Opps
  <2>2. OppOK'
    BY <1>0, <1>2, <2>1, Added DEF Publishes, OppOK
  <2> QED
    BY <1>0, <1>2, <2>2, PipelineAssumption DEF Publishes, Typed, CountsOK, HeldReal, ReplicasOK, aiVars
<1>3. ASSUME NEW r \in Replicas, Reads(r) PROVE Typed'
  <2>1. Head(opp.unread) \in Opps /\ Tail(opp.unread) \in Seq(Opps)
    BY <1>0, <1>3 DEF Reads, OppOK, StreamOf
  <2>2. OppOK'
    BY <1>0, <1>3, <2>1 DEF Reads, OppOK, StreamOf, XReadGroup
  <2>3. ReplicasOK' /\ HeldReal'
    BY <1>0, <1>3, <2>1 DEF Reads, ReplicasOK, HeldReal
  <2> QED
    BY <1>0, <1>3, <2>2, <2>3 DEF Reads, Typed, CountsOK
<1>4. ASSUME NEW r \in Replicas, Forwards(r) PROVE Typed'
  <2>1. forwarded' \in [Opps -> Nat]
    BY <1>0, <1>4 DEF Forwards, CountsOK, HeldReal
  <2> QED
    BY <1>0, <1>4, <2>1 DEF Forwards, Typed, OppOK, CountsOK, ReplicasOK, HeldReal
<1> QED
  BY <1>1, <1>2, <1>3, <1>4, StepEffect DEF Effect

-----------------------------------------------------------------------------
(* Where an opportunity is.  An opportunity waits in one place only, and   *)
(* one that was forwarded waits nowhere.                                   *)

Waits(o) == Unread(o) \/ Held(o)

OnceUnread ==
    \A i, j \in DOMAIN opp.unread : opp.unread[i] = opp.unread[j] => i = j

OnceHeld ==
    \A r, s \in Replicas :
        aiPc[r] = "forward" /\ aiPc[s] = "forward" /\ aiOpp[r] = aiOpp[s] => r = s

OnceInAll == \A o \in Opps : ~(Unread(o) /\ Held(o))

NewIsNowhere == \A o \in Opps : o >= nextOpp => forwarded[o] = 0 /\ ~Waits(o)

WaitsUnforwarded == \A o \in Opps : Waits(o) => forwarded[o] = 0

ForwardedOnce == \A o \in Opps : forwarded[o] <= 1

PlaceInv ==
    /\ Typed
    /\ OnceUnread /\ OnceHeld /\ OnceInAll
    /\ NewIsNowhere /\ WaitsUnforwarded /\ ForwardedOnce

LEMMA PlaceInit == Init => PlaceInv
<1> SUFFICES ASSUME Init PROVE PlaceInv
  OBVIOUS
<1>1. \A o : ~Waits(o)
  BY DEF Init, NewStream, Waits, Unread, Held
<1> QED
  BY <1>1, TypedInit DEF PlaceInv, Init, OnceUnread, OnceHeld, OnceInAll, NewIsNowhere,
                         WaitsUnforwarded, ForwardedOnce, NewStream, Waits

\* Nothing new waits, and what waits does so in the place where it was.
LEMMA LosesWaits ==
    ASSUME Loses
    PROVE  \A o : (Unread(o)' => Unread(o)) /\ (Held(o)' => Held(o))
BY DEF Loses, Unread, Held

\* What is in a sequence after Append, Tail, or both.
LEMMA InAppend ==
    ASSUME NEW S, NEW q \in Seq(S), NEW x \in S
    PROVE  /\ Append(q, x) \in Seq(S) /\ Len(Append(q, x)) = Len(q) + 1
           /\ \A i \in 1 .. Len(q) : Append(q, x)[i] = q[i]
           /\ Append(q, x)[Len(q) + 1] = x
OBVIOUS

LEMMA InTail ==
    ASSUME NEW S, NEW q \in Seq(S), q # <<>>
    PROVE  /\ Tail(q) \in Seq(S) /\ Len(Tail(q)) = Len(q) - 1
           /\ \A i \in 1 .. Len(q) - 1 : Tail(q)[i] = q[i + 1]
           /\ Head(q) = q[1] /\ Len(q) > 0
OBVIOUS

\* The tail of a queue holds what the queue held.
LEMMA TailOnce ==
    ASSUME NEW S, NEW q \in Seq(S), q # <<>>,
           \A i, j \in DOMAIN q : q[i] = q[j] => i = j
    PROVE  /\ \A i, j \in DOMAIN Tail(q) : Tail(q)[i] = Tail(q)[j] => i = j
           /\ \A i \in DOMAIN Tail(q) : Tail(q)[i] # Head(q) /\ \E k \in DOMAIN q : q[k] = Tail(q)[i]
<1>1. DOMAIN q = 1 .. Len(q) /\ DOMAIN Tail(q) = 1 .. Len(q) - 1 /\ Len(q) \in Nat
  BY InTail
<1>2. \A i \in 1 .. Len(q) - 1 : i + 1 \in 1 .. Len(q) /\ i + 1 # 1
  BY <1>1
<1> QED
  BY <1>1, <1>2, InTail

LEMMA AppendOnce ==
    ASSUME NEW S, NEW q \in Seq(S), NEW x \in S,
           \A i, j \in DOMAIN q : q[i] = q[j] => i = j,
           \A i \in DOMAIN q : q[i] # x
    PROVE  /\ \A i, j \in DOMAIN Append(q, x) : Append(q, x)[i] = Append(q, x)[j] => i = j
           /\ \A i \in DOMAIN Append(q, x) : Append(q, x)[i] = x \/ \E k \in DOMAIN q : q[k] = Append(q, x)[i]
<1>1. DOMAIN q = 1 .. Len(q) /\ DOMAIN Append(q, x) = 1 .. Len(q) + 1 /\ Len(q) \in Nat
  BY InAppend
<1>2. \A i \in 1 .. Len(q) + 1 : i \in 1 .. Len(q) \/ i = Len(q) + 1
  BY <1>1
<1> QED
  BY <1>1, <1>2, InAppend

\* A stream without repetitions has none after XADD of a new entry, ...
LEMMA AddOnce ==
    ASSUME NEW S, NEW st \in StreamOf(S), NEW x \in S,
           \A i, j \in DOMAIN st.unread : st.unread[i] = st.unread[j] => i = j,
           \A i \in DOMAIN st.unread : st.unread[i] # x
    PROVE  LET new == XAdd(st, x, MaxLen).unread IN
           /\ \A i, j \in DOMAIN new : new[i] = new[j] => i = j
           /\ \E i \in DOMAIN new : new[i] = x
           /\ \A i \in DOMAIN new : new[i] = x \/ \E k \in DOMAIN st.unread : st.unread[k] = new[i]
<1> DEFINE longer == Append(st.unread, x)
           new == XAdd(st, x, MaxLen).unread
<1>0. new = longer \/ (st.unread # <<>> /\ new = Tail(longer))
  BY Added
<1>1. st.unread \in Seq(S)
  BY DEF StreamOf
<1>2. /\ \A i, j \in DOMAIN longer : longer[i] = longer[j] => i = j
      /\ \A i \in DOMAIN longer : longer[i] = x \/ \E k \in DOMAIN st.unread : st.unread[k] = longer[i]
  BY <1>1, AppendOnce
<1>3. /\ longer \in Seq(S) /\ Len(longer) = Len(st.unread) + 1
      /\ longer[Len(st.unread) + 1] = x /\ Len(st.unread) \in Nat
  BY <1>1, InAppend
<1>4. longer # <<>> /\ Len(st.unread) + 1 \in DOMAIN longer
  BY <1>3
<1>5. st.unread # <<>> => Len(st.unread) > 0
  BY <1>1
<1> HIDE DEF longer, new
<1>6. /\ \A i, j \in DOMAIN Tail(longer) : Tail(longer)[i] = Tail(longer)[j] => i = j
      /\ \A i \in DOMAIN Tail(longer) : \E k \in DOMAIN longer : longer[k] = Tail(longer)[i]
  BY <1>2, <1>3, <1>4, TailOnce
<1>7. st.unread # <<>> => Len(st.unread) \in DOMAIN Tail(longer) /\ Tail(longer)[Len(st.unread)] = x
  BY <1>3, <1>4, <1>5, InTail
<1>8. \A i \in DOMAIN Tail(longer) :
          Tail(longer)[i] = x \/ \E k \in DOMAIN st.unread : st.unread[k] = Tail(longer)[i]
  BY <1>2, <1>6
<1>9. CASE new = longer
  BY <1>2, <1>3, <1>4, <1>9 DEF new
<1>10. CASE st.unread # <<>> /\ new = Tail(longer)
  BY <1>6, <1>7, <1>8, <1>10 DEF new
<1> QED
  BY <1>0, <1>9, <1>10

\* ... and none after XREADGROUP, which takes out the first entry.
LEMMA ReadOnce ==
    ASSUME NEW S, NEW st \in StreamOf(S), st.unread # <<>>,
           \A i, j \in DOMAIN st.unread : st.unread[i] = st.unread[j] => i = j
    PROVE  LET new == XReadGroup(st).unread IN
           /\ \A i, j \in DOMAIN new : new[i] = new[j] => i = j
           /\ \A i \in DOMAIN new : new[i] # Head(st.unread) /\ \E k \in DOMAIN st.unread : st.unread[k] = new[i]
           /\ Head(st.unread) \in S /\ \E k \in DOMAIN st.unread : st.unread[k] = Head(st.unread)
           /\ XReadGroup(st) \in StreamOf(S)
<1>1. st.unread \in Seq(S) /\ XReadGroup(st).unread = Tail(st.unread)
  BY DEF StreamOf, XReadGroup
<1>2. Head(st.unread) = st.unread[1] /\ 1 \in DOMAIN st.unread /\ Head(st.unread) \in S
  BY <1>1, InTail
<1>3. XReadGroup(st) \in StreamOf(S)
  BY <1>1, <1>2, InTail DEF StreamOf, XReadGroup
<1>4. /\ \A i, j \in DOMAIN Tail(st.unread) : Tail(st.unread)[i] = Tail(st.unread)[j] => i = j
      /\ \A i \in DOMAIN Tail(st.unread) :
            /\ Tail(st.unread)[i] # Head(st.unread)
            /\ \E k \in DOMAIN st.unread : st.unread[k] = Tail(st.unread)[i]
  BY <1>1, TailOnce
<1> QED
  BY <1>1, <1>2, <1>3, <1>4

LEMMA PublishesWaits ==
    ASSUME PlaceInv, Publishes, NEW n, n = nextOpp
    PROVE  /\ n \in Opps
           /\ Unread(n)' /\ OnceUnread'
           /\ \A o : Unread(o)' => Unread(o) \/ o = n
<1>1. n \in Opps /\ opp \in StreamOf(Opps) /\ opp' = XAdd(opp, n, MaxLen)
  BY PipelineAssumption DEF Publishes, PlaceInv, Typed, OppOK, CountsOK, Opps
<1>2. \A i \in DOMAIN opp.unread : opp.unread[i] # n
  BY <1>1 DEF PlaceInv, NewIsNowhere, Waits, Unread, Typed, CountsOK, Opps
<1>3. \A i, j \in DOMAIN opp.unread : opp.unread[i] = opp.unread[j] => i = j
  BY DEF PlaceInv, OnceUnread
<1>4. /\ \A i, j \in DOMAIN opp'.unread : opp'.unread[i] = opp'.unread[j] => i = j
      /\ \E i \in DOMAIN opp'.unread : opp'.unread[i] = n
      /\ \A i \in DOMAIN opp'.unread :
            opp'.unread[i] = n \/ \E k \in DOMAIN opp.unread : opp.unread[k] = opp'.unread[i]
  BY <1>1, <1>2, <1>3, AddOnce
<1> QED
  BY <1>1, <1>4 DEF Unread, OnceUnread

LEMMA ReadsWaits ==
    ASSUME PlaceInv, NEW r \in Replicas, Reads(r), NEW n, n = Head(opp.unread)
    PROVE  /\ n \in Opps /\ Unread(n) /\ OnceUnread'
           /\ \A o : Unread(o)' => Unread(o) /\ o # n
           /\ \A o : Held(o)' <=> Held(o) \/ o = n
<1>1. opp \in StreamOf(Opps) /\ opp.unread # <<>> /\ opp' = XReadGroup(opp)
  BY DEF PlaceInv, Typed, OppOK, Reads
<1>2. \A i, j \in DOMAIN opp.unread : opp.unread[i] = opp.unread[j] => i = j
  BY DEF PlaceInv, OnceUnread
<1>3. n \in Opps /\ Unread(n) /\ OnceUnread' /\ \A o : Unread(o)' => Unread(o) /\ o # n
  BY <1>1, <1>2, ReadOnce DEF OnceUnread, Unread
<1>4. \A o : Held(o)' <=> Held(o) \/ o = n
  BY DEF PlaceInv, Typed, ReplicasOK, Reads, Held
<1> QED
  BY <1>3, <1>4

LEMMA ForwardsWaits ==
    ASSUME PlaceInv, NEW r \in Replicas, Forwards(r), NEW n, n = aiOpp[r]
    PROVE  /\ n \in Opps /\ Held(n) /\ UNCHANGED <<nextOpp, opp>>
           /\ \A o : Unread(o)' <=> Unread(o)
           /\ \A o : Held(o)' <=> Held(o) /\ o # n
           /\ forwarded' \in {forwarded, [forwarded EXCEPT ![n] = 1]}
<1>1. n \in Opps /\ Held(n) /\ forwarded \in [Opps -> Nat]
  BY DEF PlaceInv, Typed, HeldReal, CountsOK, Forwards, Held
<1>2. forwarded[n] = 0
  BY <1>1 DEF PlaceInv, WaitsUnforwarded, Waits
<1>3. forwarded' \in {forwarded, [forwarded EXCEPT ![n] = 1]}
  BY <1>1, <1>2 DEF Forwards
<1>4. \A o : Unread(o)' <=> Unread(o)
  BY DEF Forwards, Unread
<1>5. \A o : Held(o)' <=> Held(o) /\ o # n
  BY DEF PlaceInv, Typed, ReplicasOK, OnceHeld, Forwards, Held
<1> QED
  BY <1>1, <1>3, <1>4, <1>5 DEF Forwards

LEMMA PlaceStep == PlaceInv /\ [Next]_vars => PlaceInv'
<1> SUFFICES ASSUME PlaceInv, [Next]_vars PROVE PlaceInv'
  OBVIOUS
<1>0. Typed' /\ CountsOK
  BY TypedStep DEF PlaceInv, Typed
<1>1. CASE Loses
  <2>1. \A o : (Unread(o)' => Unread(o)) /\ (Held(o)' => Held(o))
    BY <1>1, LosesWaits
  <2>2. OnceUnread'
    BY <1>1 DEF PlaceInv, OnceUnread, Loses
  <2>3. OnceHeld'
    BY <1>1 DEF PlaceInv, OnceHeld, Loses
  <2> QED
    BY <1>0, <1>1, <2>1, <2>2, <2>3 DEF PlaceInv, Loses, OnceInAll, NewIsNowhere, WaitsUnforwarded,
                                        ForwardedOnce, Waits
<1>2. CASE Publishes
  <2>1. PICK n : n = nextOpp
    OBVIOUS
  <2>2. /\ n \in Opps /\ OnceUnread'
        /\ \A o : Unread(o)' => Unread(o) \/ o = n
    BY <1>2, <2>1, PublishesWaits
  <2>3. \A o : Held(o)' <=> Held(o)
    BY <1>2 DEF Publishes, Held, aiVars
  <2>4. forwarded[n] = 0 /\ ~Waits(n)
    BY <1>0, <2>1, <2>2 DEF PlaceInv, NewIsNowhere, CountsOK, Opps
  <2>5. UNCHANGED <<forwarded, aiPc, aiOpp>> /\ nextOpp' = n + 1
    BY <1>2, <2>1 DEF Publishes, aiVars
  <2>6. OnceHeld' /\ ForwardedOnce'
    BY <2>5 DEF PlaceInv, OnceHeld, ForwardedOnce
  <2>7. OnceInAll' /\ WaitsUnforwarded'
    BY <2>2, <2>3, <2>4, <2>5 DEF PlaceInv, OnceInAll, WaitsUnforwarded, Waits
  <2>8. \A o \in Opps : o >= n + 1 => o >= n /\ o # n
    BY <1>0, <2>1 DEF CountsOK, Opps
  <2>9. NewIsNowhere'
    BY <2>1, <2>2, <2>3, <2>5, <2>8 DEF PlaceInv, NewIsNowhere, Waits
  <2> QED
    BY <1>0, <2>2, <2>6, <2>7, <2>9 DEF PlaceInv
<1>3. ASSUME NEW r \in Replicas, Reads(r) PROVE PlaceInv'
  <2>1. PICK n : n = Head(opp.unread)
    OBVIOUS
  <2>2. /\ n \in Opps /\ Unread(n) /\ OnceUnread'
        /\ \A o : Unread(o)' => Unread(o) /\ o # n
        /\ \A o : Held(o)' <=> Held(o) \/ o = n
    BY <1>3, <2>1, ReadsWaits
  <2>3. ~Held(n)
    BY <2>2 DEF PlaceInv, OnceInAll
  <2>4. OnceHeld'
    BY <1>3, <2>1, <2>3 DEF PlaceInv, Typed, ReplicasOK, OnceHeld, Reads, Held
  <2> QED
    BY <1>0, <1>3, <2>2, <2>3, <2>4 DEF PlaceInv, Reads, OnceInAll, NewIsNowhere, WaitsUnforwarded,
                                        ForwardedOnce, Waits
<1>4. ASSUME NEW r \in Replicas, Forwards(r) PROVE PlaceInv'
  <2>1. PICK n : n = aiOpp[r]
    OBVIOUS
  <2>2. /\ n \in Opps /\ Held(n) /\ UNCHANGED <<nextOpp, opp>>
        /\ \A o : Unread(o)' <=> Unread(o)
        /\ \A o : Held(o)' <=> Held(o) /\ o # n
        /\ forwarded' \in {forwarded, [forwarded EXCEPT ![n] = 1]}
    BY <1>4, <2>1, ForwardsWaits
  <2>3. OnceUnread' /\ OnceInAll'
    BY <2>2 DEF PlaceInv, OnceUnread, OnceInAll
  <2>4. OnceHeld'
    BY <1>4 DEF PlaceInv, Typed, ReplicasOK, OnceHeld, Forwards
  <2>5. /\ \A o \in Opps : o # n => forwarded'[o] = forwarded[o]
        /\ forwarded'[n] \in {forwarded[n], 1} /\ forwarded \in [Opps -> Nat]
    BY <1>0, <2>2 DEF CountsOK
  <2>6. ~(n >= nextOpp) /\ ~Unread(n)
    BY <2>2 DEF PlaceInv, NewIsNowhere, OnceInAll, Waits
  <2>7. ForwardedOnce'
    BY <2>2, <2>5 DEF PlaceInv, ForwardedOnce
  <2>8. NewIsNowhere' /\ WaitsUnforwarded'
    BY <2>2, <2>5, <2>6 DEF PlaceInv, NewIsNowhere, WaitsUnforwarded, Waits
  <2> QED
    BY <1>0, <2>3, <2>4, <2>7, <2>8 DEF PlaceInv
<1> QED
  BY <1>1, <1>2, <1>3, <1>4, StepEffect DEF PlaceInv, Effect

-----------------------------------------------------------------------------
(* Every step of the pipeline is a step of the hand-off, or none.          *)

LEMMA PlaceIs ==
    ASSUME PlaceInv, NEW o \in Opps
    PROVE  /\ o >= nextOpp => Place(o) = "new"
           /\ ~(o >= nextOpp) /\ forwarded[o] = 1 => Place(o) = "passed"
           /\ ~(o >= nextOpp) /\ forwarded[o] = 0 /\ Waits(o) => Place(o) = "offered"
           /\ ~(o >= nextOpp) /\ forwarded[o] = 0 /\ ~Waits(o) => Place(o) = "lost"
           /\ forwarded[o] = 0 \/ forwarded[o] = 1
BY DEF PlaceInv, Typed, CountsOK, ForwardedOnce, Place, Waits

\* An opportunity that is neither published nor forwarded can only get lost.
LEMMA PlaceKept ==
    ASSUME PlaceInv, PlaceInv', NEW o \in Opps,
           (o >= nextOpp)' <=> o >= nextOpp, forwarded'[o] = forwarded[o], Waits(o)' => Waits(o)
    PROVE  Place(o)' = Place(o) \/ <<Place(o), Place(o)'>> \in Stage!Moves
<1>1. /\ (o >= nextOpp)' => Place(o)' = "new"
      /\ ~(o >= nextOpp)' /\ forwarded'[o] = 1 => Place(o)' = "passed"
      /\ ~(o >= nextOpp)' /\ forwarded'[o] = 0 /\ Waits(o)' => Place(o)' = "offered"
      /\ ~(o >= nextOpp)' /\ forwarded'[o] = 0 /\ ~Waits(o)' => Place(o)' = "lost"
  BY DEF PlaceInv, Typed, CountsOK, ForwardedOnce, Place, Waits
<1> QED
  BY <1>1, PlaceIs DEF Stage!Moves

LEMMA PlaceMoves ==
    ASSUME PlaceInv, PlaceInv', [Next]_vars, NEW o \in Opps
    PROVE  Place(o)' = Place(o) \/ <<Place(o), Place(o)'>> \in Stage!Moves
<1>0. CountsOK
  BY DEF PlaceInv, Typed
<1>1. CASE Loses
  <2>1. Waits(o)' => Waits(o)
    BY <1>1, LosesWaits DEF Waits
  <2> QED
    BY <1>1, <2>1, PlaceKept DEF Loses
<1>2. CASE Publishes
  <2>1. PICK n : n = nextOpp
    OBVIOUS
  <2>2. /\ n \in Opps /\ Unread(n)' /\ \A p : Unread(p)' => Unread(p) \/ p = n
    BY <1>2, <2>1, PublishesWaits
  <2>3. /\ \A p : Held(p)' <=> Held(p)
        /\ forwarded' = forwarded /\ nextOpp' = n + 1
    BY <1>2, <2>1 DEF Publishes, Held, aiVars
  <2>4. CASE o = n
    <3>1. Place(o) = "new" /\ forwarded[o] = 0
      BY <1>0, <2>1, <2>4, PlaceIs DEF CountsOK, PlaceInv, NewIsNowhere
    <3>2. ~(o >= n + 1)
      BY <1>0, <2>1, <2>4 DEF CountsOK
    <3>3. Place(o)' = "offered"
      BY <2>2, <2>3, <2>4, <3>1, <3>2 DEF Place, Waits
    <3> QED
      BY <3>1, <3>3 DEF Stage!Moves
  <2>5. CASE o # n
    <3>1. o >= n + 1 <=> o >= n
      BY <1>0, <2>1, <2>5 DEF CountsOK, Opps
    <3>2. Waits(o)' => Waits(o)
      BY <2>2, <2>3, <2>5 DEF Waits
    <3> QED
      BY <2>1, <2>3, <3>1, <3>2, PlaceKept
  <2> QED
    BY <2>4, <2>5
<1>3. ASSUME NEW r \in Replicas, Reads(r)
      PROVE  Place(o)' = Place(o) \/ <<Place(o), Place(o)'>> \in Stage!Moves
  <2>1. Waits(o)' => Waits(o)
    BY <1>3, ReadsWaits DEF Waits
  <2> QED
    BY <1>3, <2>1, PlaceKept DEF Reads
<1>4. ASSUME NEW r \in Replicas, Forwards(r)
      PROVE  Place(o)' = Place(o) \/ <<Place(o), Place(o)'>> \in Stage!Moves
  <2>1. PICK n : n = aiOpp[r]
    OBVIOUS
  <2>2. /\ n \in Opps /\ Held(n) /\ UNCHANGED <<nextOpp, opp>>
        /\ \A p : Unread(p)' <=> Unread(p)
        /\ \A p : Held(p)' <=> Held(p) /\ p # n
        /\ forwarded' \in {forwarded, [forwarded EXCEPT ![n] = 1]}
    BY <1>4, <2>1, ForwardsWaits
  <2>3. Waits(o)' => Waits(o)
    BY <2>2 DEF Waits
  <2>4. CASE forwarded'[o] = forwarded[o]
    BY <2>2, <2>3, <2>4, PlaceKept
  <2>5. CASE forwarded'[o] # forwarded[o]
    <3>1. o = n /\ forwarded'[o] = 1
      BY <1>0, <2>2, <2>5 DEF CountsOK
    <3>2. ~(o >= nextOpp) /\ forwarded[o] = 0 /\ Waits(o)
      BY <2>2, <3>1 DEF PlaceInv, NewIsNowhere, WaitsUnforwarded, Waits
    <3>3. Place(o) = "offered"
      BY <3>2, PlaceIs
    <3>4. Place(o)' = "passed"
      BY <2>2, <3>1, <3>2 DEF Place
    <3> QED
      BY <3>3, <3>4 DEF Stage!Moves
  <2> QED
    BY <2>4, <2>5
<1> QED
  BY <1>1, <1>2, <1>3, <1>4, StepEffect DEF PlaceInv, Effect

LEMMA StageStep == PlaceInv /\ PlaceInv' /\ [Next]_vars => [Stage!Next]_(Stage!vars)
<1> SUFFICES ASSUME PlaceInv, PlaceInv', [Next]_vars PROVE Stage!Next
  BY DEF Stage!vars
<1>1. \A o \in Opps : Place(o)' = Place(o) \/ <<Place(o), Place(o)'>> \in Stage!Moves
  BY PlaceMoves
<1>2. \A o \in Opps : Place(o) \in Stage!Places
  BY PlaceIs DEF Stage!Places
<1>3. \A o \in Opps : Place(o)' \in Stage!Places
  BY <1>1, <1>2 DEF Stage!Moves, Stage!Places
<1>4. [o \in Opps |-> Place(o)]' = [o \in Opps |-> Place(o)']
  BY DEF Opps
<1> QED
  BY <1>1, <1>3 DEF Stage!Next

LEMMA StageInit == Init => Stage!Init
<1> SUFFICES ASSUME Init PROVE Stage!Init
  OBVIOUS
<1>1. \A o \in Opps : o >= nextOpp
  BY DEF Init, Opps
<1>2. \A o \in Opps : Place(o) = "new"
  BY <1>1 DEF Place
<1> QED
  BY <1>2 DEF Stage!Init

(* ai-filter in any number of replicas promises of each opportunity what a *)
(* hand-off promises of an item: it is offered once, handed on at most     *)
(* once, and what a crash, a trimmed stream or a late group has lost is    *)
(* never taken up again (ai-filter consumer.py: run, _process).            *)
THEOREM PipelineIsHandoff == Spec => StageIsHandoff
<1>1. Spec => []PlaceInv
  <2>1. PlaceInv /\ UNCHANGED vars => PlaceInv'
    BY PlaceStep
  <2> QED
    BY PlaceInit, PlaceStep, PTL DEF Spec
<1> QED
  BY <1>1, StageInit, StageStep, PTL DEF Spec, StageIsHandoff, Stage!Spec

-----------------------------------------------------------------------------
(* KillOvershoot.  What may still be published during a halt is counted:   *)
(* Ahead has a pair for each symbol a loop has let itself through to.      *)

LoopsOK == /\ loopPc \in [Loops -> {"down", "top", "flags", "gate", "scan"}]
           /\ left \in [Loops -> 0 .. Symbols]

\* A scan starts with a symbol left and ends with its last one.
ScanHasLeft == \A l \in Loops : loopPc[l] \in {"gate", "scan"} => left[l] > 0

LoopInv == LoopsOK /\ ScanHasLeft /\ sinceHalt \in Nat /\ halt \in BOOLEAN

AheadOf(l) == IF loopPc[l] = "flags" THEN Symbols ELSE IF loopPc[l] = "scan" THEN left[l] ELSE 0

Ahead == { p \in Loops \X (1 .. Symbols) : p[2] <= AheadOf(p[1]) }

TvAhead == IF tvPc \in {"flags", "run"} THEN 1 ELSE 0

KillInv ==
    halt => sinceHalt + TvAhead + Cardinality(Ahead) <= 1 + Cardinality(Loops) * Symbols

LEMMA AheadFinite ==
    /\ IsFiniteSet(Ahead) /\ Cardinality(Ahead) \in Nat
    /\ Cardinality(Ahead) <= Cardinality(Loops) * Symbols
    /\ Cardinality(Loops) \in Nat /\ Cardinality(Loops) * Symbols \in Nat
<1>1. IsFiniteSet(1 .. Symbols) /\ Cardinality(1 .. Symbols) = Symbols
  BY FS_Interval, PipelineAssumption
<1>2. /\ IsFiniteSet(Loops \X (1 .. Symbols))
      /\ Cardinality(Loops \X (1 .. Symbols)) = Cardinality(Loops) * Symbols
  BY <1>1, FS_Product, PipelineAssumption
<1>3. Ahead \in SUBSET (Loops \X (1 .. Symbols))
  BY DEF Ahead
<1>4. IsFiniteSet(Ahead) /\ Cardinality(Ahead) <= Cardinality(Loops \X (1 .. Symbols))
  BY <1>2, <1>3, FS_Subset
<1>5. Cardinality(Ahead) \in Nat /\ Cardinality(Loops) \in Nat
  BY <1>4, FS_CardinalityType, PipelineAssumption
<1>6. Cardinality(Loops \X (1 .. Symbols)) \in Nat
  BY <1>2, FS_CardinalityType
<1> QED
  BY <1>2, <1>4, <1>5, <1>6

LEMMA LoopInit == Init => LoopInv
<1> SUFFICES ASSUME Init PROVE LoopInv
  OBVIOUS
<1>1. sinceHalt \in Nat /\ halt \in BOOLEAN
  BY DEF Init
<1>2. LoopsOK /\ ScanHasLeft
  BY PipelineAssumption DEF Init, LoopsOK, ScanHasLeft
<1> QED
  BY <1>1, <1>2 DEF LoopInv

LEMMA LoopTaskInv ==
    ASSUME LoopInv, NEW l \in Loops, LoopTask(l)
    PROVE  LoopsOK' /\ ScanHasLeft' /\ UNCHANGED <<halt, tvPc>>
<1> USE PipelineAssumption DEF LoopInv, LoopsOK, ScanHasLeft, LoopStep, PublishNothing
<1>1. CASE LoopTop(l)
  BY <1>1 DEF LoopTop
<1>2. CASE LoopCheckFlags(l)
  BY <1>2 DEF LoopCheckFlags
<1>3. CASE LoopGate(l)
  BY <1>3 DEF LoopGate
<1>4. CASE LoopScan(l)
  BY <1>4 DEF LoopScan
<1>5. CASE LoopRaises(l)
  BY <1>5 DEF LoopRaises
<1> QED
  BY <1>1, <1>2, <1>3, <1>4, <1>5 DEF LoopTask

LEMMA SinceHaltStep == sinceHalt \in Nat /\ [Next]_vars => sinceHalt' \in Nat
BY DEF Next, vars, publishVars, Kill, Webhook, StartStrategies, CrashStrategies, TvTask, TvRead,
       TvCheckHalt, TvCheckFlags, TvRun, TvRaises, TvAck, LoopTask, LoopTop, LoopCheckFlags, LoopGate,
       LoopScan, LoopRaises, AiStart, AiTask, AiRead, AiForward, AiAck, AiCrash, AiStep, Publish,
       PublishNothing

LEMMA LoopInvStep == LoopInv /\ [Next]_vars => LoopInv'
<1> SUFFICES ASSUME LoopInv, [Next]_vars PROVE LoopInv'
  OBVIOUS
<1>0. sinceHalt' \in Nat
  BY SinceHaltStep DEF LoopInv
<1>1. ASSUME UNCHANGED <<loopPc, left>> PROVE LoopsOK' /\ ScanHasLeft'
  BY <1>1 DEF LoopInv, LoopsOK, ScanHasLeft
<1>2. ASSUME halt' = halt \/ halt' = TRUE, LoopsOK', ScanHasLeft' PROVE LoopInv'
  BY <1>0, <1>2 DEF LoopInv
<1> USE DEF strategyVars
<1>3. CASE Kill \/ TvTask \/ UNCHANGED vars
  BY <1>1, <1>2, <1>3 DEF Kill, TvTask, TvRead, TvCheckHalt, TvCheckFlags, TvRun, TvRaises, TvAck,
                          TvStep, vars
<1>4. CASE \E s \in Signals : Webhook(s)
  BY <1>1, <1>2, <1>4 DEF Webhook
<1>5. CASE StartStrategies \/ CrashStrategies
  <2>1. LoopsOK' /\ ScanHasLeft' /\ halt' = halt
    BY <1>5, PipelineAssumption DEF LoopInv, LoopsOK, ScanHasLeft, StartStrategies, CrashStrategies
  <2> QED
    BY <1>2, <2>1
<1>6. CASE \E l \in Loops : LoopTask(l)
  BY <1>2, <1>6, LoopTaskInv
<1>7. CASE \E r \in Replicas : AiStart(r) \/ AiTask(r) \/ AiCrash(r)
  BY <1>1, <1>2, <1>7 DEF AiStart, AiTask, AiRead, AiForward, AiAck, AiCrash, AiStep
<1> QED
  BY <1>3, <1>4, <1>5, <1>6, <1>7 DEF Next

\* During a halt nobody lets himself through to more ...
LEMMA Dwindles ==
    ASSUME KillInv, halt, sinceHalt \in Nat, sinceHalt' = sinceHalt, Ahead' \subseteq Ahead,
           TvAhead' <= TvAhead
    PROVE  KillInv'
<1>1. Cardinality(Ahead') <= Cardinality(Ahead) /\ Cardinality(Ahead') \in Nat
  BY AheadFinite, FS_Subset, FS_CardinalityType
<1>2. Cardinality(Ahead)' = Cardinality(Ahead')
  OBVIOUS
<1>3. TvAhead \in 0 .. 1 /\ TvAhead' \in 0 .. 1
  BY DEF TvAhead
<1> QED
  BY <1>1, <1>2, <1>3, AheadFinite DEF KillInv

\* ... and each publication uses up a place.
LEMMA UsesUp ==
    ASSUME KillInv, halt, sinceHalt \in Nat, sinceHalt' \in {sinceHalt, sinceHalt + 1}, TvAhead' = TvAhead,
           NEW x \in Ahead, Ahead' \subseteq Ahead \ {x}
    PROVE  KillInv'
<1>1. IsFiniteSet(Ahead \ {x}) /\ Cardinality(Ahead \ {x}) = Cardinality(Ahead) - 1
  BY AheadFinite, FS_RemoveElement
<1>2. Cardinality(Ahead') <= Cardinality(Ahead \ {x}) /\ Cardinality(Ahead') \in Nat
  BY <1>1, FS_Subset, FS_CardinalityType
<1>3. TvAhead \in 0 .. 1
  BY DEF TvAhead
<1> QED
  BY <1>1, <1>2, <1>3, AheadFinite DEF KillInv

\* The pairs of one loop are the only ones that change with it.
LEMMA LoopAhead ==
    ASSUME LoopInv, NEW l \in Loops, LoopTask(l), halt
    PROVE  \/ UNCHANGED sinceHalt /\ Ahead' \subseteq Ahead
           \/ /\ sinceHalt' \in {sinceHalt, sinceHalt + 1}
              /\ \E x \in Ahead : Ahead' \subseteq Ahead \ {x}
<1> DEFINE Goal == \/ UNCHANGED sinceHalt /\ Ahead' \subseteq Ahead
                   \/ /\ sinceHalt' \in {sinceHalt, sinceHalt + 1}
                      /\ \E x \in Ahead : Ahead' \subseteq Ahead \ {x}
<1>0. LoopsOK /\ LoopsOK' /\ ScanHasLeft
  BY LoopTaskInv DEF LoopInv
<1>1. \A k \in Loops : k # l => AheadOf(k)' = AheadOf(k)
  BY <1>0 DEF LoopsOK, LoopTask, LoopStep, LoopTop, LoopCheckFlags, LoopGate, LoopScan, LoopRaises, AheadOf
<1>2. ASSUME UNCHANGED sinceHalt, AheadOf(l)' <= AheadOf(l) PROVE Goal
  <2>1. \A k \in Loops : AheadOf(k) \in 0 .. Symbols /\ AheadOf(k)' \in 0 .. Symbols
    BY <1>0, PipelineAssumption DEF AheadOf, LoopsOK
  <2>2. \A k \in Loops : AheadOf(k)' <= AheadOf(k)
    BY <1>1, <1>2, <2>1
  <2>3. Ahead' \subseteq Ahead
    BY <2>1, <2>2, PipelineAssumption DEF Ahead
  <2> QED
    BY <1>2, <2>3
<1>3. CASE LoopTop(l)
  BY <1>3 DEF LoopTop
<1>4. CASE LoopCheckFlags(l)
  <2>1. AheadOf(l)' <= AheadOf(l) /\ UNCHANGED sinceHalt
    <3>1. /\ loopPc[l] = "flags" /\ loopPc'[l] \in {"top", "gate", "scan"}
          /\ left'[l] = Symbols /\ UNCHANGED sinceHalt
      BY <1>0, <1>4 DEF LoopCheckFlags, LoopStep, LoopsOK, PublishNothing
    <3> QED
      BY <3>1, PipelineAssumption DEF AheadOf
  <2> QED
    BY <1>2, <2>1
<1>5. CASE LoopGate(l)
  <2>1. AheadOf(l)' <= AheadOf(l) /\ UNCHANGED sinceHalt
    BY <1>0, <1>5 DEF LoopGate, LoopStep, LoopsOK, AheadOf, PublishNothing
  <2> QED
    BY <1>2, <2>1
<1>6. ASSUME loopPc[l] = "scan", AheadOf(l)' <= left[l] - 1,
             sinceHalt' \in {sinceHalt, sinceHalt + 1}
      PROVE  Goal
  <2>1. \A k \in Loops : AheadOf(k) \in 0 .. Symbols /\ AheadOf(k)' \in 0 .. Symbols
    BY <1>0, PipelineAssumption DEF AheadOf, LoopsOK
  <2>2. AheadOf(l) = left[l] /\ left[l] \in 1 .. Symbols
    BY <1>0, <1>6, PipelineAssumption DEF AheadOf, LoopsOK, ScanHasLeft
  <2>3. <<l, left[l]>> \in Ahead
    BY <2>2 DEF Ahead
  <2>4. \A k \in Loops : AheadOf(k)' <= AheadOf(k)
    BY <1>1, <1>6, <2>1, <2>2
  <2>5. Ahead' \subseteq Ahead
    BY <2>1, <2>4, PipelineAssumption DEF Ahead
  <2>6. ~(left[l] <= AheadOf(l)')
    BY <1>6, <2>1, <2>2
  <2>7. <<l, left[l]>> \notin Ahead'
    BY <2>6 DEF Ahead
  <2> QED
    BY <1>6, <2>3, <2>5, <2>7
<1>7. CASE LoopScan(l)
  <2>1. /\ loopPc[l] = "scan" /\ AheadOf(l)' <= left[l] - 1
        /\ sinceHalt' \in {sinceHalt, sinceHalt + 1}
    BY <1>0, <1>7, PipelineAssumption DEF LoopScan, LoopStep, LoopsOK, AheadOf, PublishNothing, Publish
  <2> QED
    BY <1>6, <2>1
<1>8. CASE LoopRaises(l) /\ loopPc[l] = "scan"
  <2>1. AheadOf(l)' = 0 /\ sinceHalt' \in {sinceHalt, sinceHalt + 1}
    BY <1>0, <1>8 DEF LoopRaises, LoopStep, LoopsOK, AheadOf, PublishNothing, Publish
  <2>2. 0 <= left[l] - 1
    BY <1>0, <1>8 DEF LoopsOK, ScanHasLeft
  <2> QED
    BY <1>6, <1>8, <2>1, <2>2
<1>9. CASE LoopRaises(l) /\ loopPc[l] # "scan"
  <2>1. AheadOf(l)' = 0 /\ UNCHANGED sinceHalt
    BY <1>0, <1>9 DEF LoopRaises, LoopStep, LoopsOK, AheadOf, PublishNothing
  <2>2. 0 <= AheadOf(l)
    BY <1>0, PipelineAssumption DEF LoopsOK, AheadOf
  <2> QED
    BY <1>2, <2>1, <2>2
<1> QED
  BY <1>3, <1>4, <1>5, <1>7, <1>8, <1>9 DEF LoopTask

LEMMA KillStep == LoopInv /\ KillInv /\ [Next]_vars => KillInv'
<1> SUFFICES ASSUME LoopInv, KillInv, [Next]_vars PROVE KillInv'
  OBVIOUS
<1> USE DEF strategyVars, publishVars
<1>0. sinceHalt \in Nat /\ TvAhead \in 0 .. 1 /\ TvAhead' \in 0 .. 1
  BY DEF LoopInv, TvAhead
<1>1. CASE Kill
  <2>1. sinceHalt' = 0 /\ Ahead' = Ahead
    BY <1>1 DEF Kill, Ahead, AheadOf
  <2>2. Cardinality(Ahead)' <= Cardinality(Loops) * Symbols
    BY <2>1, AheadFinite
  <2> QED
    BY <1>0, <2>1, <2>2, AheadFinite DEF KillInv
<1>2. ASSUME ~halt, UNCHANGED halt PROVE KillInv'
  BY <1>2 DEF KillInv
<1>3. ASSUME halt, UNCHANGED <<sinceHalt, loopPc, left>>, TvAhead' <= TvAhead PROVE KillInv'
  <2>1. Ahead' = Ahead
    BY <1>3 DEF Ahead, AheadOf
  <2> QED
    BY <1>0, <1>3, <2>1, Dwindles
<1>4. CASE UNCHANGED vars \/ (\E s \in Signals : Webhook(s))
        \/ (\E r \in Replicas : AiStart(r) \/ AiTask(r) \/ AiCrash(r))
  <2>1. UNCHANGED <<halt, sinceHalt, loopPc, left, tvPc>>
    BY <1>4 DEF vars, Webhook, AiStart, AiTask, AiRead, AiForward, AiAck, AiCrash, AiStep
  <2>2. TvAhead' = TvAhead
    BY <2>1 DEF TvAhead
  <2> QED
    BY <1>0, <1>2, <1>3, <2>1, <2>2 DEF LoopInv
<1>5. CASE StartStrategies \/ CrashStrategies
  <2>1. UNCHANGED <<halt, sinceHalt>> /\ TvAhead' = 0
    BY <1>5 DEF StartStrategies, CrashStrategies, TvAhead
  <2>2. \A l \in Loops : AheadOf(l)' = 0
    BY <1>5 DEF StartStrategies, CrashStrategies, AheadOf
  <2>3. Ahead' \subseteq Ahead
    BY <2>2 DEF Ahead
  <2>4. CASE ~halt
    BY <1>2, <2>1, <2>4
  <2>5. CASE halt
    BY <1>0, <2>1, <2>3, <2>5, Dwindles
  <2> QED
    BY <2>4, <2>5
<1>6. CASE TvTask
  <2>1. UNCHANGED <<halt, loopPc, left>>
    BY <1>6 DEF TvTask, TvRead, TvCheckHalt, TvCheckFlags, TvRun, TvRaises, TvAck, TvStep
  <2>2. CASE ~halt
    BY <1>2, <2>1, <2>2
  <2>3. CASE halt /\ (TvRead \/ TvCheckHalt \/ TvCheckFlags \/ TvAck)
    <3>1. UNCHANGED sinceHalt /\ TvAhead' <= TvAhead
      <4>1. CASE TvRead
        BY <4>1 DEF TvRead, TvStep, PublishNothing, TvAhead
      <4>2. CASE TvCheckHalt
        BY <2>3, <4>2 DEF TvCheckHalt, TvStep, PublishNothing, TvAhead
      <4>3. CASE TvCheckFlags
        BY <4>3 DEF TvCheckFlags, TvStep, PublishNothing, TvAhead
      <4>4. CASE TvAck
        BY <4>4 DEF TvAck, TvStep, PublishNothing, TvAhead
      <4> QED
        BY <2>3, <4>1, <4>2, <4>3, <4>4
    <3> QED
      BY <1>3, <2>1, <2>3, <3>1
  <2>4. CASE halt /\ (TvRun \/ TvRaises)
    <3>1. /\ TvAhead' = 0
          /\ UNCHANGED sinceHalt \/ (TvAhead = 1 /\ sinceHalt' = sinceHalt + 1)
      BY <2>4 DEF TvRun, TvRaises, TvStep, PublishNothing, Publish, TvAhead
    <3>2. CASE UNCHANGED sinceHalt
      BY <1>0, <1>3, <2>1, <2>4, <3>1, <3>2
    <3>3. CASE TvAhead = 1 /\ sinceHalt' = sinceHalt + 1
      <4>1. Ahead' = Ahead
        BY <2>1 DEF Ahead, AheadOf
      <4> QED
        BY <1>0, <2>1, <2>4, <3>1, <3>3, <4>1, AheadFinite DEF KillInv
    <3> QED
      BY <3>1, <3>2, <3>3
  <2> QED
    BY <1>6, <2>2, <2>3, <2>4 DEF TvTask
<1>7. ASSUME NEW l \in Loops, LoopTask(l) PROVE KillInv'
  <2>1. UNCHANGED <<halt, tvPc>>
    BY <1>7, LoopTaskInv
  <2>2. TvAhead' = TvAhead
    BY <2>1 DEF TvAhead
  <2>3. CASE ~halt
    BY <1>2, <2>1, <2>3
  <2>4. CASE halt
    <3>1. CASE UNCHANGED sinceHalt /\ Ahead' \subseteq Ahead
      BY <1>0, <2>2, <2>4, <3>1, Dwindles
    <3>2. CASE /\ sinceHalt' \in {sinceHalt, sinceHalt + 1}
               /\ \E x \in Ahead : Ahead' \subseteq Ahead \ {x}
      BY <1>0, <2>2, <2>4, <3>2, UsesUp
    <3> QED
      BY <1>7, <2>4, <3>1, <3>2, LoopAhead
  <2> QED
    BY <2>3, <2>4
<1> QED
  BY <1>1, <1>4, <1>5, <1>6, <1>7 DEF Next

(* After a kill the strategy service publishes at most one more signal,    *)
(* and each loop at most one more opportunity for each of its symbols,     *)
(* however long the halt lasts (signal_consumer._dispatch,                 *)
(* runner._generic_loop).                                                  *)
THEOREM KillOvershootIsOnePass == Spec => []KillOvershoot
<1>1. Init => KillInv
  BY DEF Init, KillInv
<1>2. LoopInv /\ KillInv => KillOvershoot
  <2> SUFFICES ASSUME LoopInv, KillInv, halt PROVE sinceHalt <= 1 + Cardinality(Loops) * Symbols
    BY DEF KillOvershoot
  <2>1. TvAhead \in 0 .. 1 /\ sinceHalt \in Nat
    BY DEF TvAhead, LoopInv
  <2> QED
    BY <2>1, AheadFinite DEF KillInv
<1>3. LoopInv /\ KillInv /\ [Next]_vars => (LoopInv /\ KillInv)'
  BY LoopInvStep, KillStep
<1> QED
  BY <1>1, <1>2, <1>3, LoopInit, PTL DEF Spec

-----------------------------------------------------------------------------
(* OneOpportunityPerSignal.  A signal that can still be published is in    *)
(* one place only, and nothing has been made of it.                        *)

TvBusy == tvPc \in {"halt", "flags", "run"}

InHand(s) == TvBusy /\ tvSig = s

SignalsOK == /\ tv \in StreamOf(Signals) /\ sent \in SUBSET Signals
             /\ publishedFor \in [Signals -> Nat]
             /\ TvBusy => tvSig \in Signals

OnceQueued ==
    \A i, j \in DOMAIN tv.unread : tv.unread[i] = tv.unread[j] => i = j

OnePlace == \A s \in Signals : ~(QueuedTv(s) /\ InHand(s))

\* What was not sent is nowhere; what was not dispatched has made nothing.
NothingYet ==
    \A s \in Signals :
        /\ QueuedTv(s) \/ InHand(s) => s \in sent
        /\ QueuedTv(s) \/ InHand(s) \/ s \notin sent => publishedFor[s] = 0

SignalInv == SignalsOK /\ OnceQueued /\ OnePlace /\ NothingYet /\ OneOpportunityPerSignal

LEMMA SignalInit == Init => SignalInv
<1> SUFFICES ASSUME Init PROVE SignalInv
  OBVIOUS
<1>1. tv \in StreamOf(Signals) /\ \A s : ~QueuedTv(s)
  BY DEF Init, NewStream, StreamOf, QueuedTv
<1>2. ~TvBusy
  BY DEF Init, TvBusy
<1>3. OnceQueued
  BY DEF Init, NewStream, OnceQueued
<1>4. publishedFor = [s \in Signals |-> 0] /\ sent = {}
  BY DEF Init
<1> QED
  BY <1>1, <1>2, <1>3, <1>4 DEF SignalInv, SignalsOK, OnePlace, NothingYet, InHand,
                                OneOpportunityPerSignal

\* A signal only leaves the places where it waits, and perhaps something was
\* made of the one that leaves the hand.
LEMMA SignalLeaves ==
    ASSUME SignalInv, UNCHANGED sent,
           tv' \in StreamOf(Signals), OnceQueued',
           \A s \in Signals : QueuedTv(s)' => QueuedTv(s),
           TvBusy' => TvBusy /\ tvSig' = tvSig,
           \/ UNCHANGED publishedFor
           \/ /\ TvBusy /\ ~TvBusy'
              /\ publishedFor' = [publishedFor EXCEPT ![tvSig] = @ + 1]
    PROVE  SignalInv'
<1>1. SignalsOK'
  BY DEF SignalInv, SignalsOK
<1>2. \A s \in Signals : InHand(s)' => InHand(s)
  BY DEF InHand
<1>3. OnePlace'
  BY <1>2 DEF SignalInv, OnePlace
<1>4. CASE UNCHANGED publishedFor
  BY <1>1, <1>2, <1>3, <1>4 DEF SignalInv, NothingYet, OneOpportunityPerSignal
<1>5. CASE /\ TvBusy /\ ~TvBusy'
           /\ publishedFor' = [publishedFor EXCEPT ![tvSig] = @ + 1]
  <2>1. tvSig \in Signals /\ InHand(tvSig)
    BY <1>5 DEF SignalInv, SignalsOK, InHand
  <2>2. publishedFor[tvSig] = 0 /\ tvSig \in sent /\ ~QueuedTv(tvSig)
    BY <2>1 DEF SignalInv, NothingYet, OnePlace
  <2>3. /\ \A s \in Signals : s # tvSig => publishedFor'[s] = publishedFor[s]
        /\ publishedFor'[tvSig] = 1
    BY <1>5, <2>1, <2>2 DEF SignalInv, SignalsOK
  <2>4. \A s \in Signals : ~InHand(s)'
    BY <1>5 DEF InHand
  <2>5. NothingYet'
    BY <2>2, <2>3, <2>4 DEF SignalInv, NothingYet
  <2>6. OneOpportunityPerSignal'
    BY <2>3 DEF SignalInv, OneOpportunityPerSignal
  <2> QED
    BY <1>1, <1>3, <2>5, <2>6 DEF SignalInv
<1> QED
  BY <1>4, <1>5

LEMMA SignalStep == SignalInv /\ [Next]_vars => SignalInv'
<1> SUFFICES ASSUME SignalInv, [Next]_vars PROVE SignalInv'
  OBVIOUS
<1> USE DEF strategyVars, publishVars
<1>0. tv \in StreamOf(Signals) /\ OnceQueued
  BY DEF SignalInv, SignalsOK
<1>1. ASSUME UNCHANGED <<tv, tvPc, tvSig, sent, publishedFor>> PROVE SignalInv'
  <2>1. OnceQueued' /\ \A s \in Signals : QueuedTv(s)' => QueuedTv(s)
    BY <1>0, <1>1 DEF OnceQueued, QueuedTv
  <2>2. TvBusy' => TvBusy /\ tvSig' = tvSig
    BY <1>1 DEF TvBusy
  <2> QED
    BY <1>0, <1>1, <2>1, <2>2, SignalLeaves
<1>2. CASE Kill \/ UNCHANGED vars \/ (\E l \in Loops : LoopTask(l))
        \/ (\E r \in Replicas : AiStart(r) \/ AiTask(r) \/ AiCrash(r))
  BY <1>1, <1>2 DEF vars, Kill, LoopTask, LoopTop, LoopCheckFlags, LoopGate, LoopScan, LoopRaises, LoopStep,
                    PublishNothing, AiStart, AiTask, AiRead, AiForward, AiAck, AiCrash, AiStep
\* The stream's own part of a step that takes nothing out of its order.
<1>3. ASSUME tv' = tv \/ tv' = CreateGroup(tv) \/ (\E x : tv' = XAck(tv, x))
      PROVE  /\ tv' \in StreamOf(Signals) /\ OnceQueued'
             /\ \A s \in Signals : QueuedTv(s)' => QueuedTv(s)
  <2>1. tv' \in StreamOf(Signals) /\ (tv'.unread = tv.unread \/ tv'.unread = <<>>)
    <3>1. <<>> \in Seq(Signals)
      OBVIOUS
    <3>2. CASE tv' = tv
      BY <1>0, <3>2
    <3>3. CASE tv' = CreateGroup(tv)
      BY <1>0, <3>1, <3>3 DEF StreamOf, CreateGroup
    <3>4. CASE \E x : tv' = XAck(tv, x)
      BY <1>0, <3>4 DEF StreamOf, XAck
    <3> QED
      BY <1>3, <3>2, <3>3, <3>4
  <2> QED
    BY <1>0, <2>1 DEF OnceQueued, QueuedTv
<1>4. CASE StartStrategies \/ CrashStrategies
  <2>1. (tv' = tv \/ tv' = CreateGroup(tv)) /\ ~TvBusy' /\ UNCHANGED <<sent, publishedFor>>
    BY <1>4 DEF StartStrategies, CrashStrategies, TvBusy
  <2> QED
    BY <1>3, <2>1, SignalLeaves
<1>5. CASE TvCheckHalt \/ TvCheckFlags \/ TvAck
  <2>1. /\ tv' = tv \/ (\E x : tv' = XAck(tv, x))
        /\ UNCHANGED <<sent, publishedFor>>
    BY <1>5 DEF TvCheckHalt, TvCheckFlags, TvAck, TvStep, PublishNothing
  <2>2. CASE TvCheckHalt
    BY <1>3, <2>1, <2>2, SignalLeaves DEF TvCheckHalt, TvStep, TvBusy
  <2>3. CASE TvCheckFlags
    BY <1>3, <2>1, <2>3, SignalLeaves DEF TvCheckFlags, TvStep, TvBusy
  <2>4. CASE TvAck
    BY <1>3, <2>1, <2>4, SignalLeaves DEF TvAck, TvStep, TvBusy
  <2> QED
    BY <1>5, <2>2, <2>3, <2>4
<1>6. CASE TvRun \/ TvRaises
  <2>1. /\ UNCHANGED <<tv, sent>> /\ TvBusy /\ ~TvBusy'
        /\ UNCHANGED publishedFor \/ publishedFor' = [publishedFor EXCEPT ![tvSig] = @ + 1]
    BY <1>6 DEF TvRun, TvRaises, TvStep, PublishNothing, TvBusy
  <2> QED
    BY <1>3, <2>1, SignalLeaves
<1>7. CASE TvRead
  <2>1. PICK n : n = Head(tv.unread)
    OBVIOUS
  <2>2. /\ tv.unread # <<>> /\ tv' = XReadGroup(tv) /\ tvSig' = n
        /\ UNCHANGED <<sent, publishedFor>> /\ ~TvBusy
    BY <1>7, <2>1 DEF TvRead, TvStep, HasUnread, PublishNothing, TvBusy
  <2>3. /\ OnceQueued' /\ tv' \in StreamOf(Signals) /\ n \in Signals /\ QueuedTv(n)
        /\ \A s : QueuedTv(s)' => QueuedTv(s) /\ s # n
    BY <1>0, <2>1, <2>2, ReadOnce DEF OnceQueued, QueuedTv
  <2>4. \A s : InHand(s)' => s = n
    BY <2>2 DEF InHand
  <2>5. SignalsOK'
    BY <2>2, <2>3 DEF SignalInv, SignalsOK
  <2>6. OnePlace' /\ NothingYet' /\ OneOpportunityPerSignal'
    BY <2>2, <2>3, <2>4 DEF SignalInv, OnePlace, NothingYet, OneOpportunityPerSignal
  <2> QED
    BY <2>3, <2>5, <2>6 DEF SignalInv
<1>8. ASSUME NEW s \in Signals, Webhook(s) PROVE SignalInv'
  <2>1. /\ s \notin sent /\ sent' = sent \cup {s} /\ UNCHANGED <<tvPc, tvSig, publishedFor>>
        /\ tv' = tv \/ tv' = XAdd(tv, s, MaxLen)
    BY <1>8 DEF Webhook
  <2>2. ~QueuedTv(s) /\ ~InHand(s) /\ publishedFor[s] = 0
    BY <2>1 DEF SignalInv, NothingYet
  <2>3. /\ tv' \in StreamOf(Signals) /\ OnceQueued'
        /\ \A t : QueuedTv(t)' => QueuedTv(t) \/ t = s
    <3>1. CASE tv' = tv
      BY <1>0, <3>1 DEF OnceQueued, QueuedTv
    <3>2. CASE tv' = XAdd(tv, s, MaxLen)
      <4>1. tv' \in StreamOf(Signals)
        BY <1>0, <3>2, Added
      <4>2. /\ \A i, j \in DOMAIN tv.unread : tv.unread[i] = tv.unread[j] => i = j
            /\ \A i \in DOMAIN tv.unread : tv.unread[i] # s
        BY <1>0, <2>2 DEF OnceQueued, QueuedTv
      <4>3. /\ \A i, j \in DOMAIN tv'.unread : tv'.unread[i] = tv'.unread[j] => i = j
            /\ \A i \in DOMAIN tv'.unread :
                  tv'.unread[i] = s \/ \E k \in DOMAIN tv.unread : tv.unread[k] = tv'.unread[i]
        BY <1>0, <3>2, <4>2, AddOnce
      <4> QED
        BY <4>1, <4>3 DEF OnceQueued, QueuedTv
    <3> QED
      BY <2>1, <3>1, <3>2
  <2>4. \A t : InHand(t)' <=> InHand(t)
    BY <2>1 DEF InHand, TvBusy
  <2>5. SignalsOK'
    BY <2>1, <2>3 DEF SignalInv, SignalsOK, TvBusy
  <2>6. OnePlace' /\ NothingYet' /\ OneOpportunityPerSignal'
    BY <2>1, <2>2, <2>3, <2>4 DEF SignalInv, OnePlace, NothingYet, OneOpportunityPerSignal
  <2> QED
    BY <2>3, <2>5, <2>6 DEF SignalInv
<1> QED
  BY <1>2, <1>4, <1>5, <1>6, <1>7, <1>8 DEF Next, TvTask

(* One webhook call becomes at most one opportunity, for any number of     *)
(* signals, whatever raises and however often the strategy service dies    *)
(* (signal_consumer.run, publish_opportunity).                             *)
THEOREM SignalsPublishOnce == Spec => []OneOpportunityPerSignal
<1>1. SignalInv => OneOpportunityPerSignal
  BY DEF SignalInv
<1> QED
  BY <1>1, SignalInit, SignalStep, PTL DEF Spec


-----------------------------------------------------------------------------
(* The composition: each part runs in it as it does alone.                 *)

LEMMA PartsRun ==
    AllSpec => /\ Spec /\ Alert!Spec /\ Live!Spec
               /\ Feeding!Init /\ [][Feeding!Next]_(Feeding!vars)
<1>1. AllInit => Init /\ Alert!Init /\ Live!Init /\ Feeding!Init
  BY DEF AllInit
<1>2. [AllNext]_allVars => [Next]_vars
  BY DEF AllNext, allVars, pipeline, vars
<1>3. [AllNext]_allVars => [Alert!Next]_(Alert!vars)
  BY DEF AllNext, allVars, alerts, Alert!vars
<1>4. [AllNext]_allVars => [Live!Next]_(Live!vars)
  BY DEF AllNext, allVars, terminal, Live!vars
<1>5. [AllNext]_allVars => [Feeding!Next]_(Feeding!vars)
  BY DEF AllNext, allVars, feed, Feeding!vars
<1> QED
  BY <1>1, <1>2, <1>3, <1>4, <1>5, PTL DEF AllSpec, Spec, Alert!Spec, Live!Spec

(* The pipeline beside the other parts: ai-filter implements Handoff       *)
(* (consumer.py of ai-filter).                                             *)
THEOREM PipelineIsHandoffBeside == AllSpec => StageIsHandoff
BY PartsRun, PipelineIsHandoff, PTL

(* And after a kill no loop publishes more than the pass it had let itself *)
(* into (base.py, consumer.py of the strategy service).                    *)
THEOREM KillOvershootBeside == AllSpec => []KillOvershoot
BY PartsRun, KillOvershootIsOnePass, PTL

-----------------------------------------------------------------------------
(* Alerts.                                                                 *)

AlertsTyped ==
    /\ raised \in Nat /\ queue \in Seq(Nat) /\ alert \in Nat
    /\ sending \in [Channels -> {"idle", "wait", "post"}]
    /\ lastSent \in [Channels -> 0 .. MinInterval]
    /\ delivered \in [Channels -> Seq(Nat)]

\* What the process remembers of a channel's last answer is when it was.
Remembers == answers = lastSent /\ hasty = FALSE

\* The alerts in the order they were raised: what is delivered, what is held,
\* what is queued, what is yet to come.
QueueInOrder ==
    /\ \A i, j \in DOMAIN queue : i < j => queue[i] < queue[j]
    /\ \A i \in DOMAIN queue : queue[i] <= raised /\ alert < queue[i]
    /\ alert <= raised

ChannelInOrder(c) ==
    /\ \A i, j \in DOMAIN delivered[c] : i < j => delivered[c][i] < delivered[c][j]
    /\ \A i \in DOMAIN delivered[c] :
          /\ delivered[c][i] <= raised
          /\ \A k \in DOMAIN queue : delivered[c][i] < queue[k]
          /\ sending[c] # "idle" => delivered[c][i] < alert

AlertsInv == AlertsTyped /\ Remembers /\ QueueInOrder /\ \A c \in Channels : ChannelInOrder(c)

LEMMA AlertsInit == Alert!Init => AlertsInv
BY DeliveryAssumption
   DEF Alert!Init, Alert!None, AlertsInv, AlertsTyped, Remembers, QueueInOrder, ChannelInOrder

LEMMA TickAlerts == ASSUME AlertsInv, Alert!Tick PROVE AlertsInv'
<1>1. /\ UNCHANGED <<raised, queue, alert, sending, delivered, hasty>>
      /\ lastSent' = Alert!Older(lastSent) /\ answers' = Alert!Older(answers)
  BY DEF Alert!Tick
<1>2. Alert!Older(lastSent) \in [Channels -> 0 .. MinInterval]
  BY DeliveryAssumption DEF Alert!Older, AlertsInv, AlertsTyped
<1>3. AlertsTyped' /\ Remembers'
  BY <1>1, <1>2 DEF AlertsInv, AlertsTyped, Remembers
<1>4. QueueInOrder' /\ \A c \in Channels : ChannelInOrder(c)'
  BY <1>1 DEF AlertsInv, QueueInOrder, ChannelInOrder
<1> QED
  BY <1>3, <1>4 DEF AlertsInv

LEMMA NotifyStep == ASSUME AlertsInv, Alert!Notify PROVE AlertsInv'
<1>1. /\ raised' = raised + 1 /\ (queue' = queue \/ queue' = Append(queue, raised + 1))
      /\ UNCHANGED <<alert, sending, lastSent, delivered, answers, hasty>>
  BY DEF Alert!Notify
<1>2. queue' \in Seq(Nat) /\ raised' \in Nat
  <2>1. queue \in Seq(Nat) /\ raised + 1 \in Nat
    BY DEF AlertsInv, AlertsTyped
  <2> QED
    BY <1>1, <2>1
<1>3. AlertsTyped' /\ Remembers'
  BY <1>1, <1>2 DEF AlertsInv, AlertsTyped, Remembers
<1>4. \A k \in DOMAIN queue' : (k \in DOMAIN queue /\ queue'[k] = queue[k])
                               \/ (queue'[k] = raised + 1 /\ \A i \in DOMAIN queue' : i <= k)
  <2>1. queue \in Seq(Nat)
    BY DEF AlertsInv, AlertsTyped
  <2>2. CASE queue' = queue
    BY <2>2
  <2>3. CASE queue' = Append(queue, raised + 1)
    <3>1. /\ DOMAIN queue = 1 .. Len(queue) /\ DOMAIN queue' = 1 .. Len(queue) + 1 /\ Len(queue) \in Nat
          /\ \A k \in 1 .. Len(queue) : queue'[k] = queue[k]
          /\ queue'[Len(queue) + 1] = raised + 1
      BY <2>1, <2>3
    <3> QED
      BY <3>1
  <2> QED
    BY <1>1, <2>2, <2>3
<1>5. QueueInOrder'
  <2>1. \A i, j \in DOMAIN queue' : i < j => queue'[i] < queue'[j]
    BY <1>1, <1>4 DEF AlertsInv, AlertsTyped, QueueInOrder
  <2>2. \A i \in DOMAIN queue' : queue'[i] <= raised' /\ alert' < queue'[i]
    BY <1>1, <1>4 DEF AlertsInv, AlertsTyped, QueueInOrder
  <2> QED
    BY <1>1, <2>1, <2>2 DEF AlertsInv, AlertsTyped, QueueInOrder
<1>6. ASSUME NEW c \in Channels PROVE ChannelInOrder(c)'
  <2>1. \A i \in DOMAIN delivered[c] : delivered[c][i] \in Nat
    BY DEF AlertsInv, AlertsTyped
  <2>2. \A i \in DOMAIN delivered[c] : delivered[c][i] <= raised' /\ delivered[c][i] < raised + 1
    BY <1>1, <2>1 DEF AlertsInv, AlertsTyped, ChannelInOrder
  <2>3. \A i \in DOMAIN delivered[c], k \in DOMAIN queue' : delivered[c][i] < queue'[k]
    BY <1>4, <2>2 DEF AlertsInv, ChannelInOrder
  <2> QED
    BY <1>1, <2>2, <2>3 DEF AlertsInv, ChannelInOrder
<1> QED
  BY <1>3, <1>5, <1>6 DEF AlertsInv

LEMMA PopStep == ASSUME AlertsInv, Alert!Pop PROVE AlertsInv'
<1>1. /\ queue # <<>> /\ queue' = Tail(queue) /\ alert = 0
      /\ UNCHANGED <<raised, lastSent, delivered, answers, hasty>>
      /\ \/ alert' = Head(queue) /\ sending' = [c \in Channels |-> "wait"]
         \/ UNCHANGED <<alert, sending>>
  BY DEF Alert!Pop, Alert!None
<1>2. /\ queue' \in Seq(Nat) /\ Head(queue) = queue[1] /\ 1 \in DOMAIN queue
      /\ \A k \in DOMAIN queue' : k + 1 \in DOMAIN queue /\ 1 < k + 1 /\ queue'[k] = queue[k + 1]
  BY <1>1 DEF AlertsInv, AlertsTyped
<1>3. AlertsTyped' /\ Remembers'
  BY <1>1, <1>2 DEF AlertsInv, AlertsTyped, Remembers
<1>4. QueueInOrder'
  <2>1. \A i, j \in DOMAIN queue' : i < j => i + 1 < j + 1
    BY <1>2
  <2> QED
    BY <1>1, <1>2, <2>1 DEF AlertsInv, AlertsTyped, QueueInOrder
<1>5. ASSUME NEW c \in Channels PROVE ChannelInOrder(c)'
  BY <1>1, <1>2, <1>5 DEF AlertsInv, AlertsTyped, ChannelInOrder
<1> QED
  BY <1>3, <1>4, <1>5 DEF AlertsInv

LEMMA PostStep == ASSUME AlertsInv, NEW c \in Channels, Alert!Post(c) PROVE AlertsInv'
<1>1. /\ sending[c] = "wait" /\ lastSent[c] = MinInterval
      /\ sending' = [sending EXCEPT ![c] = "post"] /\ hasty' = (hasty \/ answers[c] < MinInterval)
      /\ UNCHANGED <<raised, queue, alert, lastSent, delivered, answers>>
  BY DEF Alert!Post
<1>2. AlertsTyped'
  BY <1>1 DEF AlertsInv, AlertsTyped
<1>3. ~(answers[c] < MinInterval)
  BY <1>1, DeliveryAssumption DEF AlertsInv, Remembers
<1>4. Remembers'
  BY <1>1, <1>3 DEF AlertsInv, Remembers
<1>5. QueueInOrder' /\ \A d \in Channels : ChannelInOrder(d)'
  BY <1>1 DEF AlertsInv, AlertsTyped, QueueInOrder, ChannelInOrder
<1> QED
  BY <1>2, <1>4, <1>5 DEF AlertsInv

\* The end of a send, which may have delivered what is held.
LEMMA SentStep ==
    ASSUME AlertsInv, NEW c \in Channels, sending[c] = "post", Alert!Finished(c),
           delivered' = delivered \/ delivered' = [delivered EXCEPT ![c] = Append(delivered[c], alert)],
           lastSent' = lastSent \/ lastSent' = [lastSent EXCEPT ![c] = 0], answers' = lastSent',
           UNCHANGED <<raised, queue, hasty>>
    PROVE  AlertsInv'
<1>1. /\ sending' = [sending EXCEPT ![c] = "idle"]
      /\ alert' = alert \/ (alert' = 0 /\ \A d \in Channels : sending'[d] = "idle")
  BY DEF Alert!Finished, Alert!None, AlertsInv, AlertsTyped
<1>2. AlertsTyped' /\ Remembers'
  <2>1. lastSent' \in [Channels -> 0 .. MinInterval]
    <3>1. 0 \in 0 .. MinInterval /\ lastSent \in [Channels -> 0 .. MinInterval]
      BY DeliveryAssumption DEF AlertsInv, AlertsTyped
    <3> QED
      BY <3>1
  <2>2. delivered' \in [Channels -> Seq(Nat)]
    <3>1. delivered \in [Channels -> Seq(Nat)] /\ Append(delivered[c], alert) \in Seq(Nat)
      BY DEF AlertsInv, AlertsTyped
    <3> QED
      BY <3>1
  <2>3. alert' \in Nat /\ sending' \in [Channels -> {"idle", "wait", "post"}]
    BY <1>1 DEF AlertsInv, AlertsTyped
  <2>4. raised' \in Nat /\ queue' \in Seq(Nat)
    BY DEF AlertsInv, AlertsTyped
  <2>5. Remembers'
    BY DEF AlertsInv, Remembers
  <2> QED
    BY <2>1, <2>2, <2>3, <2>4, <2>5 DEF AlertsTyped
<1>3. QueueInOrder'
  BY <1>1 DEF AlertsInv, AlertsTyped, QueueInOrder
<1>4. ASSUME NEW d \in Channels, delivered'[d] = delivered[d] PROVE ChannelInOrder(d)'
  BY <1>1, <1>4 DEF AlertsInv, AlertsTyped, ChannelInOrder
<1>5. ASSUME delivered'[c] = Append(delivered[c], alert) PROVE ChannelInOrder(c)'
  <2>1. \A i \in DOMAIN delivered'[c] :
            \/ i \in DOMAIN delivered[c] /\ delivered'[c][i] = delivered[c][i]
            \/ delivered'[c][i] = alert /\ \A j \in DOMAIN delivered'[c] : j <= i
    BY <1>5 DEF AlertsInv, AlertsTyped
  <2>2. \A i \in DOMAIN delivered[c] : delivered[c][i] < alert
    BY DEF AlertsInv, ChannelInOrder
  <2>3. \A i, j \in DOMAIN delivered'[c] : i < j => delivered'[c][i] < delivered'[c][j]
    BY <1>5, <2>1, <2>2 DEF AlertsInv, AlertsTyped, ChannelInOrder
  <2>4. \A i \in DOMAIN delivered'[c] :
            delivered'[c][i] <= raised /\ \A k \in DOMAIN queue : delivered'[c][i] < queue[k]
    BY <2>1 DEF AlertsInv, QueueInOrder, ChannelInOrder
  <2>5. sending'[c] = "idle"
    BY <1>1 DEF AlertsInv, AlertsTyped
  <2> QED
    BY <2>3, <2>4, <2>5 DEF ChannelInOrder
<1>6. \A d \in Channels : delivered'[d] = delivered[d] \/ (d = c /\ delivered'[d] = Append(delivered[d], alert))
  BY DEF AlertsInv, AlertsTyped
<1> QED
  BY <1>2, <1>3, <1>4, <1>5, <1>6 DEF AlertsInv

LEMMA RestartAlerts == ASSUME AlertsInv, Alert!Restart PROVE AlertsInv'
<1>1. /\ alert' = 0 /\ sending' = [c \in Channels |-> "idle"]
      /\ lastSent' = [c \in Channels |-> MinInterval] /\ answers' = lastSent'
      /\ UNCHANGED <<raised, queue, delivered, hasty>>
  BY DEF Alert!Restart, Alert!None
<1>2. AlertsTyped' /\ Remembers'
  BY <1>1, DeliveryAssumption DEF AlertsInv, AlertsTyped, Remembers
<1>3. QueueInOrder'
  BY <1>1 DEF AlertsInv, AlertsTyped, QueueInOrder
<1>4. \A c \in Channels : ChannelInOrder(c)'
  BY <1>1 DEF AlertsInv, AlertsTyped, ChannelInOrder
<1> QED
  BY <1>2, <1>3, <1>4 DEF AlertsInv

LEMMA AlertsStep == AlertsInv /\ [Alert!Next]_(Alert!vars) => AlertsInv'
<1> SUFFICES ASSUME AlertsInv, [Alert!Next]_(Alert!vars) PROVE AlertsInv'
  OBVIOUS
<1>1. CASE Alert!Tick \/ Alert!Notify \/ Alert!Pop \/ Alert!Restart
  BY <1>1, TickAlerts, NotifyStep, PopStep, RestartAlerts
<1>2. ASSUME NEW c \in Channels, Alert!Post(c) PROVE AlertsInv'
  BY <1>2, PostStep
<1>3. ASSUME NEW c \in Channels, Alert!Answered(c) \/ Alert!Raises(c) PROVE AlertsInv'
  <2>1. /\ sending[c] = "post" /\ Alert!Finished(c) /\ UNCHANGED <<raised, queue, hasty>>
        /\ delivered' = delivered \/ delivered' = [delivered EXCEPT ![c] = Append(delivered[c], alert)]
    BY <1>3 DEF Alert!Answered, Alert!Raises
  <2>2. (lastSent' = lastSent \/ lastSent' = [lastSent EXCEPT ![c] = 0]) /\ answers' = lastSent'
    BY <1>3 DEF Alert!Answered, Alert!Raises, Alert!Stamp, AlertsInv, Remembers
  <2> QED
    BY <2>1, <2>2, SentStep
<1>4. CASE UNCHANGED Alert!vars
  BY <1>4 DEF Alert!vars, AlertsInv, AlertsTyped, Remembers, QueueInOrder, ChannelInOrder
<1> QED
  BY <1>1, <1>2, <1>3, <1>4 DEF Alert!Next, Alert!Send

-----------------------------------------------------------------------------
(* The terminal.                                                           *)

Risks == {"halted", "running"}

Frames == [risk : Risks \cup {Live!Unasked}, signals : Seq(Nat)]

TerminalTyped ==
    /\ published \in Nat /\ cursor \in Nat /\ tailLost \in BOOLEAN
    /\ frames \in Seq(Frames) /\ shown \in Seq(Nat)
    /\ view \in [kill : Risks \cup {Live!Unseeded}, mode : {"halted", "paper", Live!Unseeded}]
    /\ poll \in Risks \cup {Live!Unasked}

FieldsAgree == view.mode = "halted" <=> view.kill = "halted"

Increasing(s) == \A i, j \in DOMAIN s : i < j => s[i] < s[j]
Decreasing(s) == \A i, j \in DOMAIN s : i < j => s[i] > s[j]
UpTo(s, n)    == \A i \in DOMAIN s : s[i] <= n
Below(s, t)   == \A i \in DOMAIN s, j \in DOMAIN t : s[i] < t[j]

\* The signals in the order they were published: what is shown, what is on its
\* way, frame by frame, and what the cursor has not come to.
SignalsInOrder ==
    /\ cursor <= published
    /\ UpTo(shown, cursor) /\ Decreasing(shown)
    /\ \A k \in DOMAIN frames :
          /\ UpTo(frames[k].signals, cursor) /\ Increasing(frames[k].signals)
          /\ Below(shown, frames[k].signals)
    /\ \A k, l \in DOMAIN frames : k < l => Below(frames[k].signals, frames[l].signals)

TerminalInv == TerminalTyped /\ FieldsAgree /\ (tailLost = FALSE => SignalsInOrder)

LEMMA TerminalInit == Live!Init => TerminalInv
<1> SUFFICES ASSUME Live!Init PROVE TerminalInv
  OBVIOUS
<1>1. /\ published = 0 /\ cursor = 0 /\ frames = <<>> /\ shown = <<>> /\ tailLost = FALSE
      /\ view = [kill |-> Live!Unseeded, mode |-> Live!Unseeded] /\ poll = Live!Unasked
  BY DEF Live!Init
<1>2. TerminalTyped
  <2>1. frames \in Seq(Frames) /\ shown \in Seq(Nat)
    BY <1>1
  <2> QED
    BY <1>1, <2>1 DEF TerminalTyped
<1>3. FieldsAgree
  BY <1>1 DEF FieldsAgree, Live!Unseeded
<1>4. SignalsInOrder
  BY <1>1 DEF SignalsInOrder, UpTo, Decreasing
<1> QED
  BY <1>2, <1>3, <1>4 DEF TerminalInv

\* What a frame brings, newest first, goes before what is shown.
LEMMA Pushed ==
    ASSUME NEW s \in Seq(Nat), NEW q \in Seq(Nat)
    PROVE  LET r == Live!Newest(Live!Reversed(s) \o q)
           IN  /\ r \in Seq(Nat)
               /\ \A i \in DOMAIN r : \/ \E j \in DOMAIN s : r[i] = s[j]
                                      \/ \E j \in DOMAIN q : r[i] = q[j]
               /\ Increasing(s) /\ Decreasing(q) /\ Below(q, s) => Decreasing(r)
<1> DEFINE v == Live!Reversed(s)
           c == v \o q
           r == Live!Newest(c)
<1>1. v \in Seq(Nat) /\ Len(v) = Len(s) /\ \A i \in 1 .. Len(s) : v[i] = s[Len(s) + 1 - i]
  BY DEF Live!Reversed
<1>2. /\ c \in Seq(Nat) /\ Len(c) = Len(s) + Len(q)
      /\ \A i \in 1 .. Len(s) : c[i] = s[Len(s) + 1 - i]
      /\ \A i \in 1 .. Len(c) : i > Len(s) => c[i] = q[i - Len(s)]
  <2> HIDE DEF v
  <2>1. /\ c \in Seq(Nat) /\ Len(c) = Len(v) + Len(q)
        /\ \A i \in 1 .. Len(v) + Len(q) : c[i] = IF i <= Len(v) THEN v[i] ELSE q[i - Len(v)]
    BY <1>1, ConcatProperties
  <2>2. Len(s) \in Nat /\ Len(q) \in Nat
    OBVIOUS
  <2> HIDE DEF c
  <2>3. ASSUME NEW i \in 1 .. Len(s) PROVE c[i] = s[Len(s) + 1 - i]
    <3>1. i \in 1 .. Len(v) + Len(q) /\ i <= Len(v)
      BY <1>1, <2>2
    <3>2. c[i] = v[i]
      BY <2>1, <3>1
    <3> QED
      BY <1>1, <3>2
  <2>4. \A i \in 1 .. Len(c) : i > Len(s) => c[i] = q[i - Len(s)]
    BY <1>1, <2>1, <2>2
  <2> QED
    BY <1>1, <2>1, <2>3, <2>4
<1>3. r \in Seq(Nat) /\ Len(r) <= Len(c) /\ \A i \in 1 .. Len(r) : r[i] = c[i]
  <2> HIDE DEF c
  <2>1. CASE Len(c) > MaxShown
    <3>1. r = SubSeq(c, 1, MaxShown)
      BY <2>1 DEF Live!Newest
    <3> QED
      BY <1>2, <2>1, <3>1, DeliveryAssumption
  <2>2. CASE ~(Len(c) > MaxShown)
    BY <1>2, <2>2 DEF Live!Newest
  <2> QED
    BY <2>1, <2>2
<1> HIDE DEF v, c, r
<1>4. \A i \in DOMAIN r : i \in 1 .. Len(c) /\ (i <= Len(s) \/ i > Len(s)) /\ r[i] = c[i]
  <2>1. Len(s) \in Nat /\ Len(c) \in Nat /\ Len(r) \in Nat /\ DOMAIN r = 1 .. Len(r)
    BY <1>2, <1>3
  <2> QED
    BY <1>3, <2>1
<1>5. ASSUME NEW i \in DOMAIN r, i <= Len(s)
      PROVE  Len(s) + 1 - i \in DOMAIN s /\ r[i] = s[Len(s) + 1 - i]
  <2>1. i \in 1 .. Len(c) /\ r[i] = c[i]
    BY <1>4
  <2>2. DOMAIN s = 1 .. Len(s) /\ Len(s) \in Nat
    OBVIOUS
  <2>3. i \in 1 .. Len(s) /\ Len(s) + 1 - i \in 1 .. Len(s)
    <3>1. i \in Nat /\ 1 <= i
      BY <1>2, <2>1
    <3> QED
      BY <1>5, <2>2, <3>1
  <2> QED
    BY <1>2, <2>1, <2>2, <2>3
<1>6. ASSUME NEW i \in DOMAIN r, i > Len(s)
      PROVE  i - Len(s) \in DOMAIN q /\ r[i] = q[i - Len(s)]
  BY <1>2, <1>4, <1>6
<1>7. \A i \in DOMAIN r : \/ \E j \in DOMAIN s : r[i] = s[j]
                          \/ \E j \in DOMAIN q : r[i] = q[j]
  BY <1>4, <1>5, <1>6
<1>8. ASSUME Increasing(s), Decreasing(q), Below(q, s), NEW i \in DOMAIN r, NEW j \in DOMAIN r, i < j
      PROVE  r[i] > r[j]
  <2>1. r[i] \in Nat /\ r[j] \in Nat /\ i \in Nat /\ j \in Nat /\ Len(s) \in Nat
    BY <1>3
  <2>2. CASE j <= Len(s)
    <3>1. i <= Len(s) /\ Len(s) + 1 - j < Len(s) + 1 - i
      BY <1>8, <2>1, <2>2
    <3>2. s[Len(s) + 1 - j] < s[Len(s) + 1 - i]
      BY <1>5, <1>8, <2>2, <3>1 DEF Increasing
    <3> QED
      BY <1>5, <2>1, <2>2, <3>1, <3>2
  <2>3. CASE i <= Len(s) /\ j > Len(s)
    <3>1. q[j - Len(s)] < s[Len(s) + 1 - i]
      BY <1>5, <1>6, <1>8, <2>3 DEF Below
    <3> QED
      BY <1>5, <1>6, <2>1, <2>3, <3>1
  <2>4. CASE i > Len(s)
    <3>1. j > Len(s) /\ i - Len(s) < j - Len(s)
      BY <1>8, <2>1, <2>4
    <3> QED
      BY <1>6, <1>8, <2>4, <3>1 DEF Decreasing
  <2> QED
    BY <1>4, <2>2, <2>3, <2>4
<1> QED
  BY <1>3, <1>7, <1>8 DEF Decreasing, r, c, v

\* Redis and the poll's answer touch neither the stream nor what it has shown.
LEMMA OutsideStep ==
    ASSUME TerminalInv, Live!Toggle \/ Live!Publish \/ Live!PollRead \/ Live!PollFails
    PROVE  TerminalInv'
<1>1. /\ UNCHANGED <<cursor, frames, view, shown, tailLost>>
      /\ published' = published \/ published' = published + 1
      /\ poll' \in Risks \cup {Live!Unasked}
  BY DEF Live!Toggle, Live!Publish, Live!PollRead, Live!PollFails, Live!State, Risks, TerminalInv, TerminalTyped
<1>2. TerminalTyped'
  BY <1>1 DEF TerminalInv, TerminalTyped
<1>3. FieldsAgree'
  BY <1>1 DEF TerminalInv, FieldsAgree
<1>4. SignalsInOrder => SignalsInOrder'
  BY <1>1 DEF TerminalInv, TerminalTyped, SignalsInOrder
<1> QED
  BY <1>1, <1>2, <1>3, <1>4 DEF TerminalInv

\* A connection begins or ends with nothing on its way.
LEMMA ConnectionStep == ASSUME TerminalInv, Live!Open \/ Live!Drop PROVE TerminalInv'
<1>1. /\ frames' = <<>> /\ UNCHANGED <<published, view, poll, shown>>
      /\ \/ cursor' \in {published, cursor} /\ UNCHANGED tailLost
         \/ cursor' = 0 /\ tailLost' = TRUE
  <2>1. CASE Live!Open
    BY <2>1 DEF Live!Open
  <2>2. CASE Live!Drop
    BY <2>2 DEF Live!Drop
  <2> QED
    BY <2>1, <2>2
<1>2. cursor' \in Nat /\ tailLost' \in BOOLEAN
  <2>1. published \in Nat /\ cursor \in Nat /\ tailLost \in BOOLEAN
    BY DEF TerminalInv, TerminalTyped
  <2>2. cursor' \in Nat
    BY <1>1, <2>1
  <2>3. tailLost' \in BOOLEAN
    BY <1>1, <2>1, Zenon
  <2> QED
    BY <2>2, <2>3
<1>3. TerminalTyped' /\ FieldsAgree'
  BY <1>1, <1>2 DEF TerminalInv, TerminalTyped, FieldsAgree
<1>4. ASSUME cursor' \in {published, cursor}, SignalsInOrder PROVE SignalsInOrder'
  <2>1. UpTo(shown, cursor') /\ cursor' <= published
    BY <1>4 DEF TerminalInv, TerminalTyped, SignalsInOrder, UpTo
  <2> QED
    BY <1>1, <1>4, <2>1 DEF SignalsInOrder, UpTo, Decreasing
<1> QED
  BY <1>1, <1>3, <1>4 DEF TerminalInv

\* A frame is added behind the others: its signals are the next ones after the cursor.
LEMMA FrameFollows ==
    ASSUME TerminalTyped, SignalsInOrder, NEW f \in Frames, frames' = Append(frames, f),
           cursor' \in Nat, cursor <= cursor', cursor' <= published, UNCHANGED <<published, shown>>,
           Increasing(f.signals), UpTo(f.signals, cursor'), \A i \in DOMAIN f.signals : cursor < f.signals[i]
    PROVE  SignalsInOrder'
<1>1. \A k \in DOMAIN frames' : \/ k \in DOMAIN frames /\ frames'[k] = frames[k]
                                \/ frames'[k] = f /\ \A l \in DOMAIN frames' : l <= k
  BY DEF TerminalTyped
<1>2. f.signals \in Seq(Nat) /\ \A k \in DOMAIN frames : frames[k].signals \in Seq(Nat)
  <2>1. \A k \in DOMAIN frames : frames[k] \in Frames
    BY DEF TerminalTyped
  <2> QED
    BY <2>1 DEF Frames
<1>3. ASSUME NEW s \in Seq(Nat), UpTo(s, cursor) PROVE UpTo(s, cursor') /\ Below(s, f.signals)
  <2>1. \A i \in DOMAIN s : s[i] \in Nat /\ s[i] <= cursor
    BY <1>3 DEF UpTo
  <2>2. \A i \in DOMAIN f.signals : f.signals[i] \in Nat
    BY <1>2
  <2>3. cursor \in Nat
    BY DEF TerminalTyped
  <2> QED
    BY <2>1, <2>2, <2>3 DEF UpTo, Below
<1>4. UpTo(shown, cursor') /\ Below(shown, f.signals) /\ Decreasing(shown)
  BY <1>3 DEF TerminalTyped, SignalsInOrder
<1>5. \A k \in DOMAIN frames : /\ UpTo(frames[k].signals, cursor') /\ Increasing(frames[k].signals)
                               /\ Below(shown, frames[k].signals) /\ Below(frames[k].signals, f.signals)
  BY <1>2, <1>3 DEF SignalsInOrder
<1>6. \A k \in DOMAIN frames' : /\ UpTo(frames'[k].signals, cursor') /\ Increasing(frames'[k].signals)
                                /\ Below(shown, frames'[k].signals)
  BY <1>1, <1>4, <1>5
<1>7. \A k, l \in DOMAIN frames' : k < l => Below(frames'[k].signals, frames'[l].signals)
  <2> SUFFICES ASSUME NEW k \in DOMAIN frames', NEW l \in DOMAIN frames', k < l
               PROVE  Below(frames'[k].signals, frames'[l].signals)
    OBVIOUS
  <2>1. k \in Nat /\ l \in Nat
    BY DEF TerminalTyped
  <2>2. k \in DOMAIN frames /\ frames'[k] = frames[k]
    BY <1>1, <2>1
  <2> QED
    BY <1>1, <1>5, <2>2 DEF SignalsInOrder
<1> QED
  BY <1>4, <1>6, <1>7 DEF SignalsInOrder

LEMMA FrameSent ==
    ASSUME TerminalInv, NEW f \in Frames, frames' = Append(frames, f),
           cursor' \in Nat, cursor <= cursor', tailLost = FALSE => cursor' <= published,
           UNCHANGED <<published, view, poll, shown, tailLost>>,
           Increasing(f.signals), UpTo(f.signals, cursor'), \A i \in DOMAIN f.signals : cursor < f.signals[i]
    PROVE  TerminalInv'
<1>1. frames' \in Seq(Frames)
  BY DEF TerminalInv, TerminalTyped
<1>2. TerminalTyped' /\ FieldsAgree'
  BY <1>1 DEF TerminalInv, TerminalTyped, FieldsAgree
<1>3. tailLost = FALSE => SignalsInOrder'
  BY FrameFollows DEF TerminalInv
<1> QED
  BY <1>2, <1>3 DEF TerminalInv

LEMMA SendRiskStep == ASSUME TerminalInv, Live!SendRisk PROVE TerminalInv'
<1> DEFINE f == [risk |-> Live!State(flag), signals |-> <<>>]
<1>1. /\ frames' = Append(frames, f)
      /\ UNCHANGED <<published, cursor, view, poll, shown, tailLost>>
  BY DEF Live!SendRisk
<1>2. f \in Frames /\ f.signals = <<>>
  BY DEF Live!State, Frames, Risks
<1>3. Increasing(f.signals) /\ UpTo(f.signals, cursor) /\ \A i \in DOMAIN f.signals : cursor < f.signals[i]
  BY <1>2 DEF Increasing, UpTo
<1>4. cursor \in Nat /\ cursor <= cursor /\ (tailLost = FALSE => cursor <= published)
  BY DEF TerminalInv, TerminalTyped, SignalsInOrder
<1> HIDE DEF f
<1> QED
  BY <1>1, <1>2, <1>3, <1>4, FrameSent

LEMMA SendSignalsStep == ASSUME TerminalInv, Live!SendSignals PROVE TerminalInv'
<1> DEFINE oldest == published - ViewLen + 1
           first  == IF cursor + 1 > oldest THEN cursor + 1 ELSE oldest
           owed   == published - first + 1
           n      == IF owed > MaxFlush THEN MaxFlush ELSE owed
           f      == [risk |-> Live!Unasked, signals |-> [i \in 1 .. n |-> first + i - 1]]
<1>1. /\ UNCHANGED <<published, view, poll, shown, tailLost>>
      /\ IF n <= 0 THEN UNCHANGED <<cursor, frames>>
         ELSE cursor' = first + n - 1 /\ frames' = Append(frames, f)
  BY DEF Live!SendSignals
<1>2. /\ cursor \in Nat /\ published \in Nat /\ first \in Int /\ n \in Int
      /\ cursor < first /\ n <= published - first + 1
  BY DeliveryAssumption DEF TerminalInv, TerminalTyped
<1>3. CASE n <= 0
  BY <1>1, <1>3 DEF TerminalInv, TerminalTyped, FieldsAgree, SignalsInOrder
<1>4. CASE ~(n <= 0)
  <2> HIDE DEF first, n
  <2>1. n \in Nat /\ first \in Nat /\ \A i \in 1 .. n : first + i - 1 \in Nat
    BY <1>2, <1>4
  <2>2. f.signals \in Seq(Nat) /\ DOMAIN f.signals = 1 .. n /\ \A i \in 1 .. n : f.signals[i] = first + i - 1
    BY <2>1
  <2>3. f \in Frames
    BY <2>2 DEF Frames
  <2>4. cursor' \in Nat /\ cursor <= cursor' /\ cursor' <= published
    BY <1>1, <1>2, <1>4, <2>1
  <2>5. Increasing(f.signals) /\ UpTo(f.signals, cursor') /\ \A i \in DOMAIN f.signals : cursor < f.signals[i]
    BY <1>1, <1>2, <1>4, <2>1, <2>2 DEF Increasing, UpTo
  <2> HIDE DEF f
  <2> QED
    BY <1>1, <1>4, <2>3, <2>4, <2>5, FrameSent
<1> QED
  BY <1>3, <1>4

LEMMA ApplyFrameStep == ASSUME TerminalInv, Live!ApplyFrame PROVE TerminalInv'
<1> DEFINE s == frames[1].signals
<1>1. /\ frames # <<>> /\ frames' = Tail(frames) /\ frames[1] \in Frames /\ 1 \in DOMAIN frames
      /\ view' = IF frames[1].risk = Live!Unasked THEN view ELSE Live!Merge(view, frames[1].risk)
      /\ shown' = Live!Newest(Live!Reversed(s) \o shown)
      /\ UNCHANGED <<published, cursor, poll, tailLost>>
  BY DEF Live!ApplyFrame, TerminalInv, TerminalTyped
<1>2. /\ frames' \in Seq(Frames)
      /\ \A k \in DOMAIN frames' : k + 1 \in DOMAIN frames /\ 1 < k + 1 /\ frames'[k] = frames[k + 1]
  BY <1>1 DEF TerminalInv, TerminalTyped
<1>3. s \in Seq(Nat) /\ shown \in Seq(Nat)
  BY <1>1 DEF Frames, TerminalInv, TerminalTyped
<1>4. /\ shown' \in Seq(Nat)
      /\ \A i \in DOMAIN shown' : \/ \E j \in DOMAIN s : shown'[i] = s[j]
                                  \/ \E j \in DOMAIN shown : shown'[i] = shown[j]
      /\ Increasing(s) /\ Decreasing(shown) /\ Below(shown, s) => Decreasing(shown')
  <2> DEFINE r == Live!Newest(Live!Reversed(s) \o shown)
  <2>1. /\ r \in Seq(Nat)
        /\ \A i \in DOMAIN r : \/ \E j \in DOMAIN s : r[i] = s[j]
                               \/ \E j \in DOMAIN shown : r[i] = shown[j]
        /\ Increasing(s) /\ Decreasing(shown) /\ Below(shown, s) => Decreasing(r)
    <3> HIDE DEF s
    <3> QED
      BY <1>3, Pushed
  <2>2. shown' = r
    BY <1>1
  <2> HIDE DEF r, s
  <2> QED
    BY <2>1, <2>2 DEF Decreasing
<1>5. /\ view' \in [kill : Risks \cup {Live!Unseeded}, mode : {"halted", "paper", Live!Unseeded}]
      /\ FieldsAgree'
  <2>1. CASE view' = view
    BY <2>1 DEF TerminalInv, TerminalTyped, FieldsAgree
  <2>2. CASE view' # view
    <3>1. frames[1].risk \in Risks
      BY <1>1, <2>2 DEF Frames
    <3> QED
      BY <1>1, <2>2, <3>1
         DEF Live!Merge, Live!Unseeded, Live!Unasked, Risks, TerminalInv, TerminalTyped, FieldsAgree
  <2> QED
    BY <2>1, <2>2
<1>6. TerminalTyped'
  BY <1>1, <1>2, <1>4, <1>5 DEF TerminalInv, TerminalTyped
<1>7. ASSUME SignalsInOrder
      PROVE  /\ UpTo(shown', cursor) /\ Decreasing(shown')
             /\ \A k \in DOMAIN frames' : /\ UpTo(frames'[k].signals, cursor) /\ Increasing(frames'[k].signals)
                                          /\ Below(shown', frames'[k].signals)
             /\ \A k, l \in DOMAIN frames' : k < l => Below(frames'[k].signals, frames'[l].signals)
  <2>1. /\ UpTo(shown, cursor) /\ Decreasing(shown)
        /\ \A k \in DOMAIN frames : /\ UpTo(frames[k].signals, cursor) /\ Increasing(frames[k].signals)
                                    /\ Below(shown, frames[k].signals)
        /\ \A k, l \in DOMAIN frames : k < l => Below(frames[k].signals, frames[l].signals)
    BY <1>7 DEF SignalsInOrder
  <2>2. UpTo(s, cursor) /\ Increasing(s) /\ Below(shown, s)
    BY <1>1, <2>1
  <2>3. UpTo(shown', cursor)
    BY <1>4, <2>1, <2>2 DEF UpTo
  <2>4. ASSUME NEW k \in DOMAIN frames' PROVE Below(shown', frames'[k].signals)
    <3>1. Below(s, frames'[k].signals) /\ Below(shown, frames'[k].signals)
      BY <1>1, <1>2, <2>1
    <3> QED
      BY <1>4, <3>1 DEF Below
  <2>5. \A k, l \in DOMAIN frames' : k < l => k + 1 < l + 1
    BY <1>2
  <2> QED
    BY <1>2, <1>4, <2>1, <2>2, <2>3, <2>4, <2>5
<1>8. SignalsInOrder => SignalsInOrder'
  BY <1>1, <1>7 DEF SignalsInOrder
<1> QED
  BY <1>1, <1>5, <1>6, <1>8 DEF TerminalInv

LEMMA PollApplyStep == ASSUME TerminalInv, Live!PollApply PROVE TerminalInv'
<1>1. /\ UNCHANGED <<published, cursor, frames, shown, tailLost>> /\ poll' = Live!Unasked
      /\ poll \in Risks /\ view' = [kill |-> poll, mode |-> IF poll = "halted" THEN "halted" ELSE "paper"]
  BY DEF Live!PollApply, Live!Normalise, TerminalInv, TerminalTyped
<1>2. TerminalTyped' /\ FieldsAgree'
  BY <1>1 DEF TerminalInv, TerminalTyped, FieldsAgree
<1>3. SignalsInOrder => SignalsInOrder'
  BY <1>1 DEF SignalsInOrder
<1> QED
  BY <1>1, <1>2, <1>3 DEF TerminalInv

LEMMA TerminalStep == TerminalInv /\ [Live!Next]_(Live!vars) => TerminalInv'
<1> SUFFICES ASSUME TerminalInv, [Live!Next]_(Live!vars) PROVE TerminalInv'
  OBVIOUS
<1>1. CASE Live!SendError \/ UNCHANGED Live!vars
  BY <1>1 DEF Live!SendError, Live!vars, TerminalInv, TerminalTyped, FieldsAgree, SignalsInOrder
<1> QED
  BY <1>1, OutsideStep, ConnectionStep, SendRiskStep, SendSignalsStep, ApplyFrameStep, PollApplyStep DEF Live!Next

-----------------------------------------------------------------------------
(* A venue's feed: the heartbeat and its alarm.                            *)

FeedTyped ==
    /\ ttl \in Nat /\ beat \in 0 .. HeartbeatInterval /\ heard \in Nat
    /\ export \in 0 .. ExportInterval /\ outage \in Nat
    /\ lastUp \in BOOLEAN /\ alarms = IF lastUp = TRUE THEN 0 ELSE 1
    /\ failures \in 0 .. MaxFailures

\* The calls that failed may have cost one interval each.
Intervals(length) == (1 + failures) * length

\* An outage that is not yet alarmed is shorter than the checks still allow.
SoonAlarmed ==
    venue # "orderbook" /\ lastUp = TRUE /\ ttl = 0 => outage + export <= Intervals(ExportInterval)

\* The heartbeat outlives its next refresh by what the failures have left of it.
SoonRefreshed ==
    venue \notin {"oanda", "orderbook"} /\ ttl > 0
        => HeartbeatTtl + beat <= ttl + Intervals(HeartbeatInterval)

\* At Oanda it is as old as the silence or older; the order book has none.
NoYoungerThanSilence ==
    /\ venue = "oanda" /\ ttl > 0 => ttl + heard <= HeartbeatTtl
    /\ venue = "orderbook" => ttl = 0

FeedInv == FeedTyped /\ SoonAlarmed /\ SoonRefreshed /\ NoYoungerThanSilence

\* What a step says of the heartbeat, as HeartbeatTells has it.
Tells ==
    /\ venue = "oanda" /\ ttl' > 0 => heard' < HeartbeatTtl
    /\ venue # "oanda" /\ ttl > 0 => ttl' > 0

LEMMA FeedInit == Feeding!Init => FeedInv
<1> SUFFICES ASSUME Feeding!Init PROVE FeedInv
  OBVIOUS
<1>1. /\ ttl = 0 /\ beat = 0 /\ heard = 0 /\ export = 0 /\ outage = 0 /\ alarms = 0 /\ failures = 0
      /\ lastUp = TRUE
  BY DEF Feeding!Init
<1>2. FeedTyped
  BY <1>1, DeliveryAssumption DEF FeedTyped
<1>3. SoonAlarmed /\ SoonRefreshed /\ NoYoungerThanSilence
  BY <1>1, DeliveryAssumption DEF SoonAlarmed, SoonRefreshed, NoYoungerThanSilence, Intervals
<1> QED
  BY <1>2, <1>3 DEF FeedInv

\* A call of Redis failed, or none did.
Failing == failures' \in 0 .. MaxFailures /\ failures <= failures'

LEMMA FailsOrNot ==
    ASSUME FeedTyped, failures' = failures \/ Feeding!RedisFails
    PROVE  Failing
BY DeliveryAssumption DEF FeedTyped, Failing, Feeding!RedisFails

\* More failures leave more room.
LEMMA Products ==
    ASSUME NEW a \in Nat, NEW b \in Nat, a <= b, NEW length \in Nat
    PROVE  /\ (1 + a) * length \in Nat /\ (1 + b) * length \in Nat
           /\ length <= (1 + a) * length /\ (1 + a) * length <= (1 + b) * length
           /\ b = a + 1 => (1 + b) * length = (1 + a) * length + length
OBVIOUS

LEMMA MoreFailures ==
    ASSUME FeedTyped, Failing, NEW length \in Nat
    PROVE  /\ Intervals(length) \in Nat /\ Intervals(length)' \in Nat
           /\ length <= Intervals(length) /\ Intervals(length) <= Intervals(length)'
           /\ failures' = failures => Intervals(length)' = Intervals(length)
           /\ failures' = failures + 1 => Intervals(length)' = Intervals(length) + length
<1>1. failures \in Nat /\ failures' \in Nat /\ failures <= failures'
  <2>1. MaxFailures \in Nat
    BY DeliveryAssumption
  <2> QED
    BY <2>1 DEF FeedTyped, Failing
<1> QED
  BY <1>1, Products DEF Intervals

\* A watcher, the link or the stream, apart from the lines it brings.
Elsewhere ==
    /\ UNCHANGED <<venue, ttl, beat, lastUp, export, outage, alarms>>
    /\ (heard' = heard \/ heard' = 0) /\ Failing

\* A sum stays below its limit when a summand shrinks.
LEMMA NoLater ==
    ASSUME NEW a \in Nat, NEW b \in Nat, NEW c \in Nat, NEW limit \in Nat, a + b <= limit, c <= b
    PROVE  a + c <= limit
OBVIOUS

LEMMA ElsewhereKeeps == ASSUME FeedInv, Elsewhere PROVE FeedInv' /\ Tells
<1>1. Intervals(ExportInterval) <= Intervals(ExportInterval)'
      /\ Intervals(HeartbeatInterval) <= Intervals(HeartbeatInterval)'
      /\ Intervals(ExportInterval) \in Nat /\ Intervals(ExportInterval)' \in Nat
      /\ Intervals(HeartbeatInterval) \in Nat /\ Intervals(HeartbeatInterval)' \in Nat
  BY MoreFailures, DeliveryAssumption DEF FeedInv, Elsewhere
<1>2. FeedTyped'
  BY DEF FeedInv, FeedTyped, Elsewhere, Failing
<1>3. SoonAlarmed'
  BY <1>1, DeliveryAssumption DEF FeedInv, FeedTyped, SoonAlarmed, Elsewhere
<1>4. SoonRefreshed'
  BY <1>1, DeliveryAssumption DEF FeedInv, FeedTyped, SoonRefreshed, Elsewhere
<1>5. heard' \in Nat /\ heard' <= heard
  <2>1. heard \in Nat /\ (heard' = heard \/ heard' = 0)
    BY DEF FeedInv, FeedTyped, Elsewhere
  <2>2. CASE heard' = heard
    BY <2>1, <2>2
  <2>3. CASE heard' = 0
    BY <2>1, <2>3
  <2> QED
    BY <2>1, <2>2, <2>3
<1>6. ttl \in Nat /\ ttl' = ttl /\ venue' = venue /\ heard \in Nat
  BY DEF FeedInv, FeedTyped, Elsewhere
<1>0. NoYoungerThanSilence
  BY DEF FeedInv
<1>7. HeartbeatTtl \in Nat
  BY DeliveryAssumption
<1>8. NoYoungerThanSilence'
  <2>1. ASSUME venue' = "oanda", ttl' > 0 PROVE ttl' + heard' <= HeartbeatTtl
    <3>1. ttl + heard <= HeartbeatTtl
      BY <1>0, <1>6, <2>1 DEF NoYoungerThanSilence
    <3>2. ttl + heard' <= HeartbeatTtl
      BY <1>5, <1>6, <1>7, <3>1, NoLater
    <3> QED
      BY <1>6, <3>2
  <2>2. ASSUME venue' = "orderbook" PROVE ttl' = 0
    BY <1>0, <1>6, <2>2 DEF NoYoungerThanSilence
  <2> QED
    BY <2>1, <2>2 DEF NoYoungerThanSilence
<1>9. Tells
  <2>1. ASSUME venue = "oanda", ttl' > 0 PROVE heard' < HeartbeatTtl
    BY <1>0, <1>5, <1>6, <1>7, <2>1 DEF NoYoungerThanSilence
  <2>2. ASSUME venue # "oanda", ttl > 0 PROVE ttl' > 0
    BY <1>6, <2>2
  <2> QED
    BY <2>1, <2>2 DEF Tells
<1> QED
  BY <1>2, <1>3, <1>4, <1>8, <1>9 DEF FeedInv

LEMMA WatchStep ==
    ASSUME FeedInv, NEW s \in Pairs, Feeding!Watch(s) \/ Feeding!EmptyBook(s)
    PROVE  FeedInv' /\ Tells
<1>1. /\ UNCHANGED <<venue, ttl, beat, lastUp, export, outage, alarms, heard>>
      /\ failures' = failures \/ Feeding!RedisFails
  BY DEF Feeding!Watch, Feeding!EmptyBook, Feeding!Quote, Feeding!NetworkError, Feeding!BadSymbol,
         Feeding!Wake, Feeding!world, Feeding!exporter
<1> QED
  BY <1>1, FailsOrNot, ElsewhereKeeps DEF FeedInv, Elsewhere

LEMMA StreamStep ==
    ASSUME FeedInv, Feeding!Connect \/ Feeding!LineTooLate \/ Feeding!StreamEnds
                    \/ Feeding!Wake(Stream) \/ Feeding!LinkChanges
    PROVE  FeedInv' /\ Tells
<1>1. /\ UNCHANGED <<venue, ttl, beat, lastUp, export, outage, alarms, failures>>
      /\ (heard' = heard \/ heard' = 0)
  BY DEF Feeding!Connect, Feeding!LineTooLate, Feeding!StreamEnds, Feeding!Wake, Feeding!LinkChanges,
         Feeding!world, Feeding!exporter
<1> QED
  BY <1>1, FailsOrNot, ElsewhereKeeps DEF FeedInv, Elsewhere

\* A refresh, and the interval after it; one that fails costs an interval.
LEMMA HeartbeatStep ==
    ASSUME FeedInv, Feeding!Heartbeat, venue \notin {"oanda", "orderbook"}
    PROVE  FeedInv' /\ Tells
<1>1. /\ beat = 0 /\ beat' = HeartbeatInterval
      /\ UNCHANGED <<venue, heard, lastUp, export, outage, alarms>>
      /\ \/ ttl' = HeartbeatTtl /\ failures' = failures
         \/ ttl' = ttl /\ failures < MaxFailures /\ failures' = failures + 1
  BY DEF Feeding!Heartbeat, Feeding!RedisFails, Feeding!world, Feeding!exporter
<1>2. Failing
  BY <1>1, FailsOrNot DEF FeedInv, Feeding!RedisFails
<1>3. HeartbeatTtl \in Nat /\ HeartbeatTtl > 0 /\ HeartbeatInterval \in Nat /\ ExportInterval \in Nat
  BY DeliveryAssumption
<1>4. FeedTyped'
  BY <1>1, <1>2, <1>3 DEF FeedInv, FeedTyped, Failing
<1>5. SoonAlarmed'
  <2>1. /\ Intervals(ExportInterval) \in Nat /\ Intervals(ExportInterval)' \in Nat
        /\ Intervals(ExportInterval) <= Intervals(ExportInterval)'
    BY <1>2, <1>3, MoreFailures DEF FeedInv
  <2> QED
    BY <1>1, <1>3, <2>1 DEF FeedInv, FeedTyped, SoonAlarmed
<1>6. SoonRefreshed'
  <2>1. /\ Intervals(HeartbeatInterval) \in Nat /\ Intervals(HeartbeatInterval)' \in Nat
        /\ HeartbeatInterval <= Intervals(HeartbeatInterval)
        /\ failures' = failures => Intervals(HeartbeatInterval)' = Intervals(HeartbeatInterval)
        /\ failures' = failures + 1 => Intervals(HeartbeatInterval)' = Intervals(HeartbeatInterval) + HeartbeatInterval
    BY <1>2, <1>3, MoreFailures DEF FeedInv
  <2>2. CASE ttl' = HeartbeatTtl /\ failures' = failures
    BY <1>1, <1>3, <2>1, <2>2 DEF SoonRefreshed
  <2>3. CASE ttl' = ttl /\ failures' = failures + 1
    BY <1>1, <1>3, <2>1, <2>3 DEF FeedInv, FeedTyped, SoonRefreshed
  <2> QED
    BY <1>1, <2>2, <2>3
<1>7. NoYoungerThanSilence' /\ Tells
  BY <1>1, <1>3 DEF FeedInv, FeedTyped, NoYoungerThanSilence, Tells
<1> QED
  BY <1>4, <1>5, <1>6, <1>7 DEF FeedInv

\* A line of Oanda's stream ends the silence, and refreshes the heartbeat unless
\* it is neither a price nor a heartbeat.
LEMMA LineStep ==
    ASSUME FeedInv, venue = "oanda", Feeding!Line(TRUE) \/ Feeding!Line(FALSE)
    PROVE  FeedInv' /\ Tells
<1>1. /\ UNCHANGED <<venue, beat, lastUp, export, outage, alarms>> /\ heard' = 0
      /\ ttl' = HeartbeatTtl \/ ttl' = ttl
      /\ failures' = failures \/ Feeding!RedisFails
  BY DEF Feeding!Line, Feeding!world, Feeding!exporter, Feeding!watcher
<1>2. Failing
  BY <1>1, FailsOrNot DEF FeedInv
<1>3. HeartbeatTtl \in Nat /\ HeartbeatTtl > 0 /\ ExportInterval \in Nat
  BY DeliveryAssumption
<1>4. FeedTyped'
  BY <1>1, <1>2, <1>3 DEF FeedInv, FeedTyped, Failing
<1>5. SoonAlarmed'
  <2>1. /\ Intervals(ExportInterval) \in Nat /\ Intervals(ExportInterval)' \in Nat
        /\ Intervals(ExportInterval) <= Intervals(ExportInterval)'
    BY <1>2, <1>3, MoreFailures DEF FeedInv
  <2> QED
    BY <1>1, <1>3, <2>1 DEF FeedInv, FeedTyped, SoonAlarmed
<1>6. SoonRefreshed'
  BY <1>1 DEF SoonRefreshed
<1>7. \/ ttl' \in Nat /\ ttl' <= HeartbeatTtl
      \/ ttl' = 0 /\ ttl = 0
  BY <1>1, <1>3 DEF FeedInv, FeedTyped, NoYoungerThanSilence
<1>8. NoYoungerThanSilence' /\ Tells
  BY <1>1, <1>3, <1>7 DEF NoYoungerThanSilence, Tells
<1> QED
  BY <1>4, <1>5, <1>6, <1>8 DEF FeedInv

\* A check sees the key, or alarms when it was there before, or fails.
LEMMA ExportStep == ASSUME FeedInv, Feeding!Export PROVE FeedInv' /\ Tells
<1>1. /\ venue # "orderbook" /\ export = 0 /\ export' = ExportInterval
      /\ UNCHANGED <<venue, ttl, beat, heard, outage>>
      /\ \/ /\ lastUp' = (ttl > 0) /\ failures' = failures
            /\ alarms' = IF ttl > 0 THEN 0 ELSE IF lastUp THEN alarms + 1 ELSE alarms
         \/ UNCHANGED <<lastUp, alarms>> /\ failures < MaxFailures /\ failures' = failures + 1
  BY DEF Feeding!Export, Feeding!RedisFails, Feeding!world
<1>2. Failing
  BY <1>1, FailsOrNot DEF FeedInv, Feeding!RedisFails
<1>3. HeartbeatInterval \in Nat /\ ExportInterval \in Nat /\ HeartbeatTtl \in Nat
  BY DeliveryAssumption
<1>4. /\ Intervals(ExportInterval) \in Nat /\ Intervals(HeartbeatInterval) \in Nat
      /\ Intervals(ExportInterval)' \in Nat /\ Intervals(HeartbeatInterval)' \in Nat
      /\ Intervals(HeartbeatInterval) <= Intervals(HeartbeatInterval)'
      /\ failures' = failures + 1 => Intervals(ExportInterval)' = Intervals(ExportInterval) + ExportInterval
  BY <1>2, <1>3, MoreFailures DEF FeedInv
<1>5. lastUp' \in BOOLEAN /\ alarms' = IF lastUp' = TRUE THEN 0 ELSE 1
  <2>1. CASE UNCHANGED <<lastUp, alarms>>
    BY <2>1 DEF FeedInv, FeedTyped
  <2>2. CASE /\ lastUp' = (ttl > 0)
             /\ alarms' = IF ttl > 0 THEN 0 ELSE IF lastUp THEN alarms + 1 ELSE alarms
    <3>1. CASE ttl > 0
      BY <2>2, <3>1
    <3>2. CASE ~(ttl > 0)
      <4>1. lastUp' = FALSE
        <5>1. (ttl > 0) = FALSE
          BY <3>2
        <5> QED
          BY <2>2, <5>1
      <4>2. alarms' = IF lastUp THEN alarms + 1 ELSE alarms
        BY <2>2, <3>2
      <4>3. alarms' = 1
        BY <4>2 DEF FeedInv, FeedTyped
      <4> QED
        BY <4>1, <4>3
    <3> QED
      BY <3>1, <3>2
  <2> QED
    BY <1>1, <2>1, <2>2
<1>6. FeedTyped'
  BY <1>1, <1>2, <1>3, <1>5 DEF FeedInv, FeedTyped, Failing
<1>7. SoonAlarmed'
  <2> SUFFICES ASSUME lastUp' = TRUE, ttl = 0 PROVE outage + ExportInterval <= Intervals(ExportInterval)'
    BY <1>1 DEF SoonAlarmed
  <2>1. ~(ttl > 0)
    BY DEF FeedInv, FeedTyped
  <2>2. lastUp = TRUE /\ failures' = failures + 1
    BY <1>1, <2>1, Zenon
  <2>3. outage + 0 <= Intervals(ExportInterval)
    BY <1>1, <2>2 DEF FeedInv, SoonAlarmed
  <2> QED
    BY <1>3, <1>4, <2>2, <2>3 DEF FeedInv, FeedTyped
<1>8. SoonRefreshed'
  BY <1>1, <1>3, <1>4 DEF FeedInv, FeedTyped, SoonRefreshed
<1>9. NoYoungerThanSilence' /\ Tells
  BY <1>1, <1>3 DEF FeedInv, FeedTyped, NoYoungerThanSilence, Tells
<1> QED
  BY <1>6, <1>7, <1>8, <1>9 DEF FeedInv

\* Time goes on before the next refresh and the next check.
LEMMA TickFeed == ASSUME FeedInv, Feeding!Tick PROVE FeedInv' /\ Tells
<1>1. /\ venue = "orderbook" \/ export > 0
      /\ venue \in {"oanda", "orderbook"} \/ beat > 0
      /\ UNCHANGED <<venue, lastUp, alarms, failures>>
      /\ ttl' = (IF ttl > 0 THEN ttl - 1 ELSE 0) /\ beat' = (IF beat > 0 THEN beat - 1 ELSE 0)
      /\ export' = (IF export > 0 THEN export - 1 ELSE 0)
      /\ heard' = (IF venue = "oanda" THEN Feeding!Least(heard + 1, HeartbeatTimeout + 2) ELSE 0)
      /\ outage' = (IF ttl > 0 THEN 0 ELSE Feeding!Least(outage + 1, 2 * ExportInterval + 1))
  BY DEF Feeding!Tick, Feeding!Earlier, Feeding!world
<1>2. HeartbeatInterval \in Nat /\ ExportInterval \in Nat /\ HeartbeatTtl \in Nat /\ HeartbeatTimeout \in Nat
  BY DeliveryAssumption
<1>3. /\ heard' \in Nat /\ heard' <= heard + 1 /\ outage' \in Nat /\ outage' <= outage + 1
  BY <1>1, <1>2 DEF Feeding!Least, FeedInv, FeedTyped
<1>4. ttl' \in Nat /\ beat' \in 0 .. HeartbeatInterval /\ export' \in 0 .. ExportInterval
  BY <1>1, <1>2 DEF FeedInv, FeedTyped
<1>5. FeedTyped'
  BY <1>1, <1>3, <1>4 DEF FeedInv, FeedTyped
<1>6. /\ Intervals(ExportInterval) \in Nat /\ Intervals(ExportInterval)' = Intervals(ExportInterval)
      /\ Intervals(HeartbeatInterval) \in Nat /\ Intervals(HeartbeatInterval)' = Intervals(HeartbeatInterval)
      /\ ExportInterval <= Intervals(ExportInterval) /\ Intervals(HeartbeatInterval) <= 2 * HeartbeatInterval
  <2>1. failures \in {0, 1} /\ failures' = failures
    BY <1>1, DeliveryAssumption DEF FeedInv, FeedTyped
  <2> QED
    BY <1>2, <2>1 DEF Intervals
<1>7. SoonAlarmed'
  <2> SUFFICES ASSUME venue # "orderbook", lastUp = TRUE, ttl' = 0
               PROVE  outage' + export' <= Intervals(ExportInterval)
    BY <1>1, <1>6 DEF SoonAlarmed
  <2>1. export > 0 /\ export' = export - 1
    BY <1>1
  <2>2. CASE ttl > 0
    BY <1>1, <1>2, <1>4, <1>6, <2>2
  <2>3. CASE ~(ttl > 0)
    <3>1. outage + export <= Intervals(ExportInterval)
      BY <2>3 DEF FeedInv, FeedTyped, SoonAlarmed
    <3> QED
      BY <1>3, <1>6, <2>1, <3>1 DEF FeedInv, FeedTyped
  <2> QED
    BY <2>2, <2>3
<1>8. SoonRefreshed'
  BY <1>1, <1>2, <1>4, <1>6 DEF FeedInv, FeedTyped, SoonRefreshed
<1>9. NoYoungerThanSilence'
  BY <1>1, <1>2, <1>3 DEF FeedInv, FeedTyped, NoYoungerThanSilence
<1>10. Tells
  <2>1. ASSUME venue = "oanda", ttl' > 0 PROVE heard' < HeartbeatTtl
    BY <1>1, <1>2, <1>3, <2>1 DEF FeedInv, FeedTyped, NoYoungerThanSilence
  <2>2. ASSUME venue # "oanda", ttl > 0 PROVE ttl' > 0
    <3>1. venue \notin {"oanda", "orderbook"} /\ beat > 0
      BY <1>1, <2>2 DEF FeedInv, NoYoungerThanSilence
    <3>2. HeartbeatTtl + beat <= ttl + Intervals(HeartbeatInterval)
      BY <2>2, <3>1 DEF FeedInv, SoonRefreshed
    <3> QED
      BY <1>1, <1>2, <1>6, <2>2, <3>1, <3>2, DeliveryAssumption DEF FeedInv, FeedTyped
  <2> QED
    BY <2>1, <2>2 DEF Tells
<1> QED
  BY <1>5, <1>7, <1>8, <1>9, <1>10 DEF FeedInv

LEMMA FeedStep == FeedInv /\ [Feeding!Next]_(Feeding!vars) => FeedInv' /\ [Tells]_(Feeding!vars)
<1> SUFFICES ASSUME FeedInv, [Feeding!Next]_(Feeding!vars) PROVE FeedInv' /\ [Tells]_(Feeding!vars)
  OBVIOUS
<1>1. CASE UNCHANGED Feeding!vars
  BY <1>1 DEF Feeding!vars, FeedInv, FeedTyped, SoonAlarmed, SoonRefreshed, NoYoungerThanSilence, Intervals
<1>2. CASE Feeding!BinanceFeed \/ Feeding!BybitFeed \/ Feeding!OkxFeed \/ Feeding!KrakenFeed
  BY <1>2, HeartbeatStep, WatchStep
     DEF Feeding!BinanceFeed, Feeding!BybitFeed, Feeding!OkxFeed, Feeding!KrakenFeed
<1>3. CASE Feeding!OandaFeed
  BY <1>3, StreamStep, LineStep DEF Feeding!OandaFeed
<1>4. CASE Feeding!OrderBookFeed
  BY <1>4, WatchStep DEF Feeding!OrderBookFeed
<1>5. CASE Feeding!Export \/ Feeding!LinkChanges \/ Feeding!Tick
  BY <1>5, ExportStep, StreamStep, TickFeed
<1> QED
  BY <1>1, <1>2, <1>3, <1>4, <1>5 DEF Feeding!Next

LEMMA AlarmedOnce == FeedInv => Feeding!OneAlarmPerOutage
<1> SUFFICES ASSUME FeedInv PROVE Feeding!OneAlarmPerOutage
  OBVIOUS
<1>1. alarms <= 1
  BY DEF FeedInv, FeedTyped
<1>2. ASSUME venue # "orderbook", ttl = 0, outage > 2 * ExportInterval PROVE ~lastUp /\ alarms = 1
  <2>1. lastUp = FALSE
    <3>1. SUFFICES ASSUME lastUp = TRUE PROVE FALSE
      BY DEF FeedInv, FeedTyped
    <3>2. failures \in {0, 1} /\ outage + export <= (1 + failures) * ExportInterval
      BY <1>2, <3>1, DeliveryAssumption DEF FeedInv, FeedTyped, SoonAlarmed, Intervals
    <3> QED
      BY <1>2, <3>2, DeliveryAssumption DEF FeedInv, FeedTyped
  <2> QED
    BY <2>1 DEF FeedInv, FeedTyped
<1> QED
  BY <1>1, <1>2 DEF Feeding!OneAlarmPerOutage

-----------------------------------------------------------------------------
(* Nothing arrives twice: no signal becomes two opportunities, no alert    *)
(* comes twice to a channel or before an earlier one, no signal stands     *)
(* twice in the terminal, and no outage raises two alarms or, unless more  *)
(* than one call fails, is missed (consumer.py of the strategy service,    *)
(* consumer.run and send of the notifications, pushSignals and             *)
(* _event_stream, metrics_exporter.run).                                   *)
THEOREM NothingArrivesTwice == AllSpec => []NothingTwice
<1>1. AlertsInv => Alert!DeliveredInOrder
  BY DEF AlertsInv, Remembers, ChannelInOrder, Alert!DeliveredInOrder
<1>2. TerminalInv => Live!ViewConsistent
  BY DEF TerminalInv, TerminalTyped, FieldsAgree, SignalsInOrder, Decreasing, Live!ViewConsistent
<1>3. OneOpportunityPerSignal /\ AlertsInv /\ TerminalInv /\ FeedInv => NothingTwice
  BY <1>1, <1>2, AlarmedOnce DEF NothingTwice
<1>4. Feeding!Init /\ [][Feeding!Next]_(Feeding!vars) => []FeedInv
  BY FeedInit, FeedStep, PTL
<1> QED
  BY <1>3, <1>4, PartsRun, SignalsPublishOnce, AlertsInit, AlertsStep, TerminalInit, TerminalStep, PTL
     DEF Alert!Spec, Live!Spec

(* A running CCXT feed does not lose its heartbeat to one failed refresh,  *)
(* and Oanda's is gone when the stream has brought nothing for its time to *)
(* live (_heartbeat_loop, _stream_once).                                   *)
THEOREM HeartbeatIsTrue == AllSpec => HeartbeatTells
<1>1. Feeding!Init /\ [][Feeding!Next]_(Feeding!vars) => [][Tells]_(Feeding!vars)
  BY FeedInit, FeedStep, PTL
<1> QED
  BY <1>1, PartsRun, PTL DEF HeartbeatTells, Feeding!HeartbeatTells, Tells
=============================================================================
