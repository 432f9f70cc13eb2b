--------------------------- MODULE MarketsProofs ---------------------------
(***************************************************************************)
(* Proofs about what the system knows of the markets and does in them, as  *)
(* MCMarkets puts it side by side: for any number of orders, ticks and     *)
(* records, and any interval, lifetime, threshold and length.              *)
(***************************************************************************)
EXTENDS MCMarkets, FiniteSetTheorems, SequenceTheorems, TLAPS

-----------------------------------------------------------------------------
(* The composition: each part runs in it as it does alone.                 *)

LEMMA PartsRun ==
    Spec => Reg!Spec /\ News!Spec /\ Past!Spec /\ Store!Spec /\ Trade!Spec /\ Doc!Spec /\ Agent!Spec
<1>1. Init => /\ Reg!Init /\ News!Init /\ Past!Init /\ Store!Init /\ Trade!Init
              /\ Doc!Init /\ Agent!Init
  BY DEF Init
<1>2. [Next]_vars => [Reg!Next]_(Reg!vars)
  BY DEF Next, vars, regime, Reg!vars
<1>3. [Next]_vars => [Past!Next]_(Past!vars)
  BY DEF Next, vars, outcomes, Past!vars, Past!flags, Past!books, Past!curve, Past!bounds
<1>4. [Next]_vars => [Store!Next]_(Store!vars)
  BY DEF Next, vars, bars, Store!vars
<1>5. [Next]_vars => [Trade!Next]_(Trade!vars)
  BY DEF Next, vars, trading, Trade!vars
<1>6. [Next]_vars => [News!Next]_(News!vars)
  BY DEF Next, vars, news, News!vars, News!keys
<1>7. [Next]_vars => [Doc!Next]_(Doc!vars)
  BY DEF Next, vars, document, Doc!vars, Doc!rest
<1>8. [Next]_vars => [Agent!Next]_(Agent!vars)
  BY DEF Next, vars, agent, Agent!vars
<1> QED
  BY <1>1, <1>2, <1>3, <1>4, <1>5, <1>6, <1>7, <1>8, PTL
     DEF Spec, Reg!Spec, News!Spec, Past!Spec, Store!Spec, Trade!Spec, Doc!Spec, Agent!Spec

-----------------------------------------------------------------------------
(* The regime.                                                             *)

RegimeTyped ==
    /\ time \in Nat \ {0} /\ quiet \in Nat
    /\ detector \in [stage : {"read", "exists", "set", "sleep"}, since : Nat, from : Nat]
    /\ current \in [from : Nat, by : {"nobody", "local"}, until : Nat]

\* A pass takes no time, and the sleep between two of them not more than Interval.
PassInstant ==
    /\ detector.stage # "sleep" => detector.since = time
    /\ detector.stage \in {"exists", "set"} => detector.from = time
    /\ detector.since <= time /\ time - detector.since <= Interval

\* The key's lifetime is counted from what it says.
LifetimeFromRead == current.until = 0 \/ current.until = current.from + LocalTtl

\* Whoever fell asleep undisturbed left a key that was alive.
LeftAlive == detector.stage = "sleep" => current.until > detector.since \/ quiet = detector.since

RegimeInv == RegimeTyped /\ PassInstant /\ LifetimeFromRead /\ LeftAlive

LEMMA RegimeInit == Reg!Init => RegimeInv
BY MarketsAssumption
   DEF Reg!Init, Reg!Absent, RegimeInv, RegimeTyped, PassInstant, LifetimeFromRead, LeftAlive

LEMMA RegimeStep == RegimeInv /\ [Reg!Next]_(Reg!vars) => RegimeInv'
<1> SUFFICES ASSUME RegimeInv, [Reg!Next]_(Reg!vars) PROVE RegimeInv'
  OBVIOUS
<1> USE MarketsAssumption DEF RegimeInv, RegimeTyped, PassInstant, LifetimeFromRead, LeftAlive
<1>1. CASE Reg!Tick
  BY <1>1 DEF Reg!Tick
<1>2. CASE Reg!Detect
  BY <1>2 DEF Reg!Detect
<1>3. CASE Reg!Exists
  <2>1. CASE Reg!Alive(current)
    BY <1>3, <2>1 DEF Reg!Exists, Reg!Goto, Reg!Alive
  <2>2. CASE ~Reg!Alive(current)
    BY <1>3, <2>2 DEF Reg!Exists, Reg!Goto
  <2> QED
    BY <2>1, <2>2
<1>4. CASE Reg!Set
  <2>1. /\ detector.stage = "set" /\ detector' = [detector EXCEPT !.stage = "sleep", !.since = time]
        /\ current' = [from |-> detector.from, by |-> "local", until |-> time + LocalTtl]
        /\ UNCHANGED <<time, quiet>>
    BY <1>4 DEF Reg!Set, Reg!Goto
  <2>2. detector'.stage = "sleep" /\ detector'.since = time
    BY <2>1
  <2>3. RegimeTyped'
    <3>1. detector.from \in Nat /\ time + LocalTtl \in Nat
      OBVIOUS
    <3>2. current' \in [from : Nat, by : {"nobody", "local"}, until : Nat]
      BY <2>1, <3>1
    <3>3. detector' \in [stage : {"read", "exists", "set", "sleep"}, since : Nat, from : Nat]
      BY <2>1
    <3> QED
      BY <2>1, <3>2, <3>3
  <2>4. current'.until = time + LocalTtl /\ current'.from = time
    BY <2>1
  <2> QED
    BY <2>1, <2>2, <2>3, <2>4
<1>5. CASE Reg!Raises
  BY <1>5 DEF Reg!Raises, Reg!Goto
<1>6. CASE Reg!Wake
  <2>1. detector' = [detector EXCEPT !.stage = "read", !.since = time] /\ UNCHANGED <<time, current, quiet>>
    BY <1>6 DEF Reg!Wake, Reg!Goto
  <2>2. detector'.stage = "read" /\ detector'.since = time
    BY <2>1
  <2>3. RegimeTyped'
    BY <2>1
  <2> QED
    BY <2>1, <2>2, <2>3
<1>7. CASE Reg!AskClaude
  BY <1>7 DEF Reg!AskClaude
<1>8. CASE UNCHANGED Reg!vars
  BY <1>8 DEF Reg!vars
<1> QED
  BY <1>1, <1>2, <1>3, <1>4, <1>5, <1>6, <1>7, <1>8 DEF Reg!Next

(* What the strategies trade on is never older than LocalTtl, and once the *)
(* detector has run undisturbed for an interval the key is missing for     *)
(* less than one interval at a time (detect_and_publish).                  *)
THEOREM RegimeIsRecent == Spec => []RegimeRecent
<1>1. RegimeInv => RegimeRecent
  BY MarketsAssumption
     DEF RegimeInv, RegimeTyped, PassInstant, LifetimeFromRead, LeftAlive, RegimeRecent,
         Reg!RegimeRecent, Reg!Alive
<1> QED
  BY <1>1, PartsRun, RegimeInit, RegimeStep, PTL DEF Reg!Spec


-----------------------------------------------------------------------------
(* The bars.                                                               *)

\* A finite set of whole numbers has a greatest member: of the sets of the members
\* above each member, one has no smaller one, and that one is empty.
LEMMA Greatest ==
    ASSUME NEW S, S \subseteq Int, IsFiniteSet(S), S # {}
    PROVE  \E x \in S : \A y \in S : x >= y
<1> DEFINE Above(x) == {y \in S : y > x}
           All == { Above(x) : x \in S }
<1>1. All \subseteq FiniteSubsetsOf(S) /\ All # {}
  <2>1. ASSUME NEW x \in S PROVE Above(x) \in FiniteSubsetsOf(S)
    BY FS_Subset DEF FiniteSubsetsOf
  <2> QED
    BY <2>1
<1>2. PICK U \in All : \A V \in All : ~(<<V, U>> \in StrictSubsetOrdering(S))
  BY <1>1, FS_StrictSubsetOrderingWellFounded, WFMin
<1>3. PICK x \in S : U = Above(x)
  OBVIOUS
<1>4. ASSUME NEW y \in S, y > x PROVE FALSE
  <2>0. y \in Int /\ x \in Int
    OBVIOUS
  <2>1. Above(y) \subseteq Above(x) /\ y \in Above(x) /\ y \notin Above(y)
    <3>1. \A z \in S : z > y => z > x
      BY <1>4, <2>0
    <3>2. ~(y > y)
      BY <2>0
    <3> QED
      BY <1>4, <3>1, <3>2
  <2>2. <<Above(y), Above(x)>> \in StrictSubsetOrdering(S)
    BY <2>1 DEF StrictSubsetOrdering
  <2> QED
    BY <1>2, <1>3, <2>2
<1> QED
  BY <1>4

LEMMA Smallest ==
    ASSUME NEW S, S \subseteq Int, IsFiniteSet(S), S # {}
    PROVE  \E x \in S : \A y \in S : x <= y
<1> DEFINE Below(x) == {y \in S : y < x}
           All == { Below(x) : x \in S }
<1>1. All \subseteq FiniteSubsetsOf(S) /\ All # {}
  <2>1. ASSUME NEW x \in S PROVE Below(x) \in FiniteSubsetsOf(S)
    BY FS_Subset DEF FiniteSubsetsOf
  <2> QED
    BY <2>1
<1>2. PICK U \in All : \A V \in All : ~(<<V, U>> \in StrictSubsetOrdering(S))
  BY <1>1, FS_StrictSubsetOrderingWellFounded, WFMin
<1>3. PICK x \in S : U = Below(x)
  OBVIOUS
<1>4. ASSUME NEW y \in S, y < x PROVE FALSE
  <2>0. y \in Int /\ x \in Int
    OBVIOUS
  <2>1. Below(y) \subseteq Below(x) /\ y \in Below(x) /\ y \notin Below(y)
    <3>1. \A z \in S : z < y => z < x
      BY <1>4, <2>0
    <3>2. ~(y < y)
      BY <2>0
    <3> QED
      BY <1>4, <3>1, <3>2
  <2>2. <<Below(y), Below(x)>> \in StrictSubsetOrdering(S)
    BY <2>1 DEF StrictSubsetOrdering
  <2> QED
    BY <1>2, <1>3, <2>2
<1> QED
  BY <1>4

LEMMA MaxIsGreatest ==
    ASSUME NEW S, S \subseteq Int, IsFiniteSet(S), S # {}
    PROVE  Store!Max(S) \in S /\ \A y \in S : Store!Max(S) >= y
BY Greatest DEF Store!Max

LEMMA MinIsSmallest ==
    ASSUME NEW S, S \subseteq Int, IsFiniteSet(S), S # {}
    PROVE  Store!Min(S) \in S /\ \A y \in S : Store!Min(S) <= y
BY Smallest DEF Store!Min

\* Of three times in order, the middle one is in the bucket of the outer two.
LEMMA DivInOrder ==
    ASSUME NEW n \in Nat \ {0}, NEW x \in Nat, NEW y \in Nat, x <= y
    PROVE  x \div n <= y \div n
OBVIOUS

LEMMA DivWhole ==
    ASSUME NEW n \in Nat \ {0}, NEW x \in Nat
    PROVE  x \div n \in Nat
OBVIOUS

Tick == [at : Nat, published : Nat]

\* Times and ticks: what is published was stamped by now, and the next one is
\* stamped no earlier than those before it.
TicksInOrder ==
    /\ now \in 0 .. MaxTime
    /\ stamped = -1 \/ stamped \in 0 .. now
    /\ ticks \in Seq(Tick)
    /\ \A i \in DOMAIN ticks : ticks[i].published <= now
    /\ \A i, j \in DOMAIN ticks : i <= j => ticks[i].at <= ticks[j].at
    /\ \A i \in DOMAIN ticks : ticks[i].at <= now
    /\ stamped # -1 => \A i \in DOMAIN ticks : ticks[i].at <= stamped

Bar  == [source : {"none", "live_ticks", "exchange_rest", "exchange_rest, forming"}, from : Nat, to : Nat]
Row  == [bucket : Store!Buckets, bar : Bar]

\* What a bar of bucket b holds: its bucket has elapsed, it has consecutive ticks of
\* it, whatever it lacks at its end came too late and at its beginning was pushed out.
WholeIn(b, bar, tk, t) ==
    LET all == { i \in DOMAIN tk : Store!Bucket(tk[i].at) = b }
    IN  /\ (b + 1) * BarSeconds <= t
        /\ bar.from \in DOMAIN tk /\ bar.to \in DOMAIN tk
        /\ bar.from .. bar.to \subseteq all
        /\ \A i \in all : i > bar.to => tk[i].published >= (b + 1) * BarSeconds
        /\ \A i \in all : i < bar.from => Len(tk) >= i + CacheMax

StoredWhole ==
    \A b \in Store!Buckets : stored[b].source = "live_ticks" => WholeIn(b, stored[b], ticks, now)

HeldWhole == \A r \in held : r.bar.source = "live_ticks" /\ WholeIn(r.bucket, r.bar, ticks, now)

BarsTyped ==
    /\ stored \in [Store!Buckets -> Bar] /\ held \subseteq Row
    /\ fill \in [pc : {"idle", "fetch", "upsert", "done"}, since : Nat, until : Nat, cursor : Nat,
                 rows : SUBSET Row, broken : BOOLEAN]

\* A page about to be stored is the exchange's, and begins at the cursor.
PageFollows ==
    /\ \A r \in fill.rows : r.bar.source \in {"exchange_rest", "exchange_rest, forming"}
    /\ fill.pc = "upsert" =>
          \E n \in Store!Buckets : fill.cursor <= n /\ { r.bucket : r \in fill.rows } = fill.cursor .. n

BarsInv ==
    TicksInOrder /\ BarsTyped /\ StoredWhole /\ HeldWhole /\ PageFollows /\ Store!BackfillUnbroken

LEMMA BucketsFinite ==
    /\ Store!Buckets \subseteq Nat /\ IsFiniteSet(Store!Buckets) /\ MaxTime \div BarSeconds \in Nat
<1>1. MaxTime \div BarSeconds \in Nat
  BY MarketsAssumption, DivWhole
<1>2. IsFiniteSet(0 .. MaxTime \div BarSeconds)
  BY <1>1, FS_Interval
<1> QED
  BY <1>1, <1>2 DEF Store!Buckets

LEMMA BucketOfTime == ASSUME NEW t \in 0 .. MaxTime PROVE Store!Bucket(t) \in Store!Buckets
<1>1. t \div BarSeconds \in Nat /\ MaxTime \div BarSeconds \in Nat /\ t \div BarSeconds <= MaxTime \div BarSeconds
  BY MarketsAssumption, DivWhole, DivInOrder
<1> QED
  BY <1>1 DEF Store!Bucket, Store!Buckets

LEMMA TicksTyped ==
    ASSUME TicksInOrder
    PROVE  /\ Len(ticks) \in Nat /\ DOMAIN ticks = 1 .. Len(ticks)
           /\ \A m \in DOMAIN ticks : ticks[m].at \in Nat /\ ticks[m].published \in Nat
<1>1. ticks \in Seq(Tick)
  BY DEF TicksInOrder
<1>2. Len(ticks) \in Nat /\ DOMAIN ticks = 1 .. Len(ticks)
  BY <1>1
<1>3. \A m \in DOMAIN ticks : ticks[m] \in Tick
  BY <1>1, <1>2
<1> QED
  BY <1>2, <1>3 DEF Tick

\* Ticks of one bucket are next to each other.
LEMMA Between ==
    ASSUME TicksInOrder, NEW b, NEW i \in Store!InBucket(b, DOMAIN ticks), NEW j \in Store!InBucket(b, DOMAIN ticks)
    PROVE  i .. j \subseteq Store!InBucket(b, DOMAIN ticks)
<1>1. i \in DOMAIN ticks /\ j \in DOMAIN ticks /\ Store!Bucket(ticks[i].at) = b /\ Store!Bucket(ticks[j].at) = b
  BY DEF Store!InBucket
<1>2. DOMAIN ticks = 1 .. Len(ticks) /\ Len(ticks) \in Nat
  BY DEF TicksInOrder
<1> SUFFICES ASSUME NEW k \in i .. j PROVE k \in Store!InBucket(b, DOMAIN ticks)
  OBVIOUS
<1>3. k \in DOMAIN ticks /\ i <= k /\ k <= j
  BY <1>1, <1>2
<1>4. /\ ticks[i].at \in Nat /\ ticks[j].at \in Nat /\ ticks[k].at \in Nat
      /\ ticks[i].at <= ticks[k].at /\ ticks[k].at <= ticks[j].at
  <2>1. \A m \in DOMAIN ticks : ticks[m].at \in Nat
    BY TicksTyped
  <2>2. \A m, n \in DOMAIN ticks : m <= n => ticks[m].at <= ticks[n].at
    BY DEF TicksInOrder
  <2> QED
    BY <1>1, <1>3, <2>1, <2>2
<1>5. /\ ticks[i].at \div BarSeconds <= ticks[k].at \div BarSeconds
      /\ ticks[k].at \div BarSeconds <= ticks[j].at \div BarSeconds
      /\ ticks[i].at \div BarSeconds \in Nat /\ ticks[k].at \div BarSeconds \in Nat
  BY <1>4, MarketsAssumption, DivInOrder, DivWhole
<1>6. Store!Bucket(ticks[k].at) = b
  BY <1>1, <1>5 DEF Store!Bucket
<1> QED
  BY <1>3, <1>6 DEF Store!InBucket

\* What ticks_to_ohlcv makes of the cache is whole where its bucket has elapsed.
LEMMA CompletedIsWhole ==
    ASSUME BarsInv, NEW r \in Store!Completed
    PROVE  r \in Row /\ r.bar.source = "live_ticks" /\ WholeIn(r.bucket, r.bar, ticks, now)
<1>1. PICK b \in Store!Buckets :
          /\ Store!InBucket(b, Store!Cached) # {}
          /\ r = [bucket |-> b, bar |-> [source |-> "live_ticks", from |-> Store!Min(Store!InBucket(b, Store!Cached)),
                                                                  to |-> Store!Max(Store!InBucket(b, Store!Cached))]]
          /\ (b + 1) * BarSeconds <= now
  <2>1. r \in Store!Resample /\ (r.bucket + 1) * BarSeconds <= now
    BY DEF Store!Completed
  <2>2. PICK b \in { c \in Store!Buckets : Store!InBucket(c, Store!Cached) # {} } :
            r = [bucket |-> b, bar |-> [source |-> "live_ticks", from |-> Store!Min(Store!InBucket(b, Store!Cached)),
                                                                  to |-> Store!Max(Store!InBucket(b, Store!Cached))]]
    BY <2>1 DEF Store!Resample
  <2> QED
    BY <2>1, <2>2
<1> DEFINE cached == Store!InBucket(b, Store!Cached)
           all == Store!InBucket(b, DOMAIN ticks)
<1>2. DOMAIN ticks = 1 .. Len(ticks) /\ Len(ticks) \in Nat
  BY DEF BarsInv, TicksInOrder
<1>3. cached \subseteq all /\ all \subseteq 1 .. Len(ticks)
  BY <1>2 DEF Store!InBucket, Store!Cached
<1>4. cached \subseteq Int /\ IsFiniteSet(cached)
  <2>1. IsFiniteSet(1 .. Len(ticks)) /\ cached \subseteq 1 .. Len(ticks)
    BY <1>2, <1>3, FS_Interval
  <2> QED
    BY <2>1, FS_Subset
<1>5. /\ r.bar.from \in cached /\ \A i \in cached : r.bar.from <= i
      /\ r.bar.to \in cached /\ \A i \in cached : r.bar.to >= i
  <2>1. Store!Min(cached) \in cached /\ \A i \in cached : Store!Min(cached) <= i
    BY <1>1, <1>4, MinIsSmallest
  <2>2. Store!Max(cached) \in cached /\ \A i \in cached : Store!Max(cached) >= i
    BY <1>1, <1>4, MaxIsGreatest
  <2> QED
    BY <1>1, <2>1, <2>2
<1>6. r.bucket = b /\ r.bar.source = "live_ticks"
  BY <1>1
<1>7. r.bar.from \in all /\ r.bar.to \in all /\ r.bar.from \in 1 .. Len(ticks) /\ r.bar.to \in 1 .. Len(ticks)
  BY <1>3, <1>5
<1>8. r.bar.from .. r.bar.to \subseteq all
  BY <1>7, Between DEF BarsInv
<1>9. \A i \in all : i \in 1 .. Len(ticks) /\ (i \in cached \/ i + CacheMax <= Len(ticks))
  <2>1. \A i \in all : i \in 1 .. Len(ticks) /\ (i \in cached \/ ~(i > Len(ticks) - CacheMax))
    BY <1>2, <1>3 DEF Store!InBucket, Store!Cached
  <2> QED
    BY <2>1, <1>2, MarketsAssumption
<1>10. r.bar.from > Len(ticks) - CacheMax /\ r.bar.to > Len(ticks) - CacheMax
  BY <1>5 DEF Store!InBucket, Store!Cached
<1>11. ASSUME NEW i \in all, i > r.bar.to PROVE FALSE
  <2>1. i \in Nat /\ r.bar.to \in Nat
    BY <1>7, <1>9
  <2>2. i \in cached
    BY <1>9, <1>10, <1>11, <2>1, <1>2, MarketsAssumption
  <2> QED
    BY <1>5, <1>11, <2>1, <2>2
<1>12. ASSUME NEW i \in all, i < r.bar.from PROVE Len(ticks) >= i + CacheMax
  <2>1. i \in Nat /\ r.bar.from \in Nat
    BY <1>7, <1>9
  <2>2. i \notin cached
    BY <1>5, <1>12, <2>1
  <2> QED
    BY <1>2, <1>9, <2>1, <2>2, MarketsAssumption
<1>13. WholeIn(r.bucket, r.bar, ticks, now)
  <2>1. all = { i \in DOMAIN ticks : Store!Bucket(ticks[i].at) = b }
    BY DEF Store!InBucket
  <2>2. \A i \in all : ~(i > r.bar.to)
    BY <1>11
  <2> HIDE DEF all
  <2>3. (b + 1) * BarSeconds <= now
    BY <1>1
  <2> QED
    BY <1>2, <1>6, <1>7, <1>8, <1>12, <2>1, <2>2, <2>3 DEF WholeIn
<1>14. r.bar.from \in Nat /\ r.bar.to \in Nat
  BY <1>7
<1>15. r.bar \in Bar
  BY <1>1, <1>14 DEF Bar
<1> QED
  BY <1>1, <1>6, <1>13, <1>15 DEF Row

\* A whole bar stays whole as time goes on, and when a tick is added then.
LEMMA WholeStays ==
    ASSUME NEW b, NEW bar, NEW tk, NEW t \in Nat, NEW u \in Nat, t <= u,
           b \in Nat, WholeIn(b, bar, tk, t)
    PROVE  WholeIn(b, bar, tk, u)
<1>1. (b + 1) * BarSeconds \in Int
  BY MarketsAssumption
<1>2. (b + 1) * BarSeconds <= u
  BY <1>1 DEF WholeIn
<1> QED
  BY <1>2 DEF WholeIn

LEMMA WholeGrows ==
    ASSUME NEW b, NEW bar, NEW tk \in Seq(Tick), NEW t \in Nat, NEW e \in Tick,
           b \in Nat, e.published = t, WholeIn(b, bar, tk, t)
    PROVE  WholeIn(b, bar, Append(tk, e), t)
<1> DEFINE all == { i \in DOMAIN tk : Store!Bucket(tk[i].at) = b }
           more == { i \in DOMAIN Append(tk, e) : Store!Bucket(Append(tk, e)[i].at) = b }
<1>1. /\ Len(tk) \in Nat /\ DOMAIN tk = 1 .. Len(tk) /\ Len(Append(tk, e)) = Len(tk) + 1
      /\ DOMAIN Append(tk, e) = 1 .. Len(tk) + 1 /\ Append(tk, e)[Len(tk) + 1] = e
      /\ \A i \in 1 .. Len(tk) : Append(tk, e)[i] = tk[i]
  OBVIOUS
<1>2. all \subseteq more /\ \A i \in more : i \in all \/ i = Len(tk) + 1
  BY <1>1
<1>3. /\ (b + 1) * BarSeconds <= t /\ bar.from \in 1 .. Len(tk) /\ bar.to \in 1 .. Len(tk)
      /\ bar.from .. bar.to \subseteq all
      /\ \A i \in all : i > bar.to => tk[i].published >= (b + 1) * BarSeconds
      /\ \A i \in all : i < bar.from => Len(tk) >= i + CacheMax
  BY <1>1 DEF WholeIn
<1>4. \A i \in more : i > bar.to => Append(tk, e)[i].published >= (b + 1) * BarSeconds
  <2>1. \A i \in all : Append(tk, e)[i] = tk[i]
    BY <1>1
  <2>2. (b + 1) * BarSeconds \in Int
    BY MarketsAssumption
  <2>3. e.published >= (b + 1) * BarSeconds
    BY <1>3, <2>2
  <2> HIDE DEF all, more
  <2> QED
    BY <1>1, <1>2, <1>3, <2>1, <2>3
<1>5. \A i \in more : i < bar.from => Len(Append(tk, e)) >= i + CacheMax
  <2>1. ASSUME NEW i \in more, i < bar.from PROVE Len(tk) + 1 >= i + CacheMax
    <3>1. i \in all /\ i \in 1 .. Len(tk)
      BY <1>1, <1>2, <1>3, <2>1
    <3>2. Len(tk) >= i + CacheMax
      BY <1>3, <2>1, <3>1
    <3> QED
      BY <1>1, <3>1, <3>2, MarketsAssumption
  <2> QED
    BY <1>1, <2>1
<1>6. bar.from .. bar.to \subseteq more /\ bar.from \in DOMAIN Append(tk, e) /\ bar.to \in DOMAIN Append(tk, e)
  BY <1>1, <1>2, <1>3
<1> QED
  BY <1>3, <1>4, <1>5, <1>6 DEF WholeIn

\* What an upsert leaves: one of the rows where there is one, or what was there.
LEMMA UpsertedIsEither ==
    ASSUME NEW rows \in SUBSET Row, BarsTyped
    PROVE  /\ Store!Upserted(rows) \in [Store!Buckets -> Bar]
           /\ \A b \in Store!Buckets :
                 \/ \E r \in rows : r.bucket = b /\ Store!Upserted(rows)[b] = r.bar
                 \/ (\A r \in rows : r.bucket # b) /\ Store!Upserted(rows)[b] = stored[b]
<1>1. ASSUME NEW b \in Store!Buckets
      PROVE  \/ \E r \in rows : r.bucket = b /\ Store!Upserted(rows)[b] = r.bar
             \/ (\A r \in rows : r.bucket # b) /\ Store!Upserted(rows)[b] = stored[b]
  <2>1. CASE \E r \in rows : r.bucket = b
    <3>1. (CHOOSE r \in rows : r.bucket = b) \in rows /\ (CHOOSE r \in rows : r.bucket = b).bucket = b
      BY <2>1
    <3> QED
      BY <2>1, <3>1 DEF Store!Upserted, Store!BarOf
  <2>2. CASE ~\E r \in rows : r.bucket = b
    BY <2>2 DEF Store!Upserted
  <2> QED
    BY <2>1, <2>2
<1>2. \A r \in rows : r.bar \in Bar
  BY DEF Row
<1>3. \A b \in Store!Buckets : Store!Upserted(rows)[b] \in Bar
  BY <1>1, <1>2 DEF BarsTyped
<1>4. Store!Upserted(rows) = [b \in Store!Buckets |-> Store!Upserted(rows)[b]]
  BY DEF Store!Upserted
<1> QED
  BY <1>1, <1>3, <1>4

\* Nothing that was known is lost by it, and what it brings is known.
LEMMA UpsertedIsKnown ==
    ASSUME NEW rows \in SUBSET Row, BarsTyped, \A r \in rows : r.bar.source # "none",
           stored' = Store!Upserted(rows)
    PROVE  Store!Known \subseteq Store!Known' /\ \A r \in rows : r.bucket \in Store!Known'
<1>1. \A r \in rows : r.bar # Store!NoBar /\ r.bucket \in Store!Buckets
  BY DEF Store!NoBar, Row
<1>2. \A b \in Store!Buckets : stored'[b] = stored[b] \/ \E r \in rows : r.bucket = b /\ stored'[b] = r.bar
  BY UpsertedIsEither
<1>3. \A r \in rows : \E q \in rows : q.bucket = r.bucket /\ stored'[r.bucket] = q.bar
  BY <1>1, UpsertedIsEither
<1> QED
  BY <1>1, <1>2, <1>3 DEF Store!Known

\* The times and the ticks.
LEMMA TicksStep == ASSUME BarsInv, [Store!Next]_(Store!vars) PROVE TicksInOrder' /\ now <= now'
<1> USE DEF BarsInv
<1>0. TicksInOrder /\ now \in Nat /\ now <= MaxTime
  BY MarketsAssumption DEF TicksInOrder
<1>1. CASE Store!Time
  <2>1. now' = now + 1 /\ now' \in 0 .. MaxTime /\ UNCHANGED <<stamped, ticks>>
    BY <1>0, <1>1, MarketsAssumption DEF Store!Time
  <2>2. \A i \in DOMAIN ticks : ticks[i].published <= now' /\ ticks[i].at <= now'
    BY <1>0, <2>1, TicksTyped DEF TicksInOrder
  <2> QED
    BY <1>0, <2>1, <2>2 DEF TicksInOrder
<1>2. CASE Store!Stamp
  BY <1>0, <1>2 DEF Store!Stamp, TicksInOrder
<1>3. CASE Store!Publish
  <2>1. /\ stamped # -1 /\ stamped \in 0 .. now /\ stamped' = -1 /\ now' = now
        /\ ticks' = Append(ticks, [at |-> stamped, published |-> now])
    BY <1>3 DEF Store!Publish, TicksInOrder
  <2> DEFINE e == [at |-> stamped, published |-> now]
  <2>2. e \in Tick /\ e.at = stamped /\ e.published = now
    BY <1>0, <2>1 DEF Tick
  <2> HIDE DEF e
  <2>3. ticks \in Seq(Tick) /\ ticks' = Append(ticks, e)
    BY <1>0, <2>1 DEF TicksInOrder, e
  <2>4. /\ Len(ticks) \in Nat /\ DOMAIN ticks = 1 .. Len(ticks) /\ ticks' \in Seq(Tick)
        /\ DOMAIN ticks' = 1 .. Len(ticks) + 1 /\ ticks'[Len(ticks) + 1] = e
        /\ \A i \in 1 .. Len(ticks) : ticks'[i] = ticks[i]
    BY <2>2, <2>3
  <2>5. \A i \in DOMAIN ticks' : i \in 1 .. Len(ticks) \/ i = Len(ticks) + 1
    BY <2>4
  <2>6. \A i \in 1 .. Len(ticks) : ticks[i].published <= now /\ ticks[i].at <= now /\ ticks[i].at <= stamped
    BY <1>0, <2>1, <2>4 DEF TicksInOrder
  <2>7. \A i \in DOMAIN ticks' : ticks'[i].published <= now' /\ ticks'[i].at <= now'
    BY <1>0, <2>1, <2>2, <2>4, <2>5, <2>6
  <2>8. \A i, j \in DOMAIN ticks' : i <= j => ticks'[i].at <= ticks'[j].at
    <3>1. \A i, j \in 1 .. Len(ticks) : i <= j => ticks'[i].at <= ticks'[j].at
      BY <1>0, <2>4 DEF TicksInOrder
    <3>2. \A i \in DOMAIN ticks' : ticks'[i].at <= ticks'[Len(ticks) + 1].at
      BY <2>1, <2>2, <2>4, <2>5, <2>6
    <3>3. ASSUME NEW i \in DOMAIN ticks', NEW j \in DOMAIN ticks', i <= j
          PROVE  (i \in 1 .. Len(ticks) /\ j \in 1 .. Len(ticks)) \/ j = Len(ticks) + 1
      BY <2>4, <3>3
    <3> QED
      BY <3>1, <3>2, <3>3
  <2> QED
    BY <1>0, <2>1, <2>4, <2>7, <2>8 DEF TicksInOrder
<1>4. CASE UNCHANGED <<now, stamped, ticks>>
  BY <1>0, <1>4 DEF TicksInOrder
<1> QED
  BY <1>1, <1>2, <1>3, <1>4
     DEF Store!Next, Store!vars, Store!ReadTicks, Store!WriteBars, Store!BeginFill, Store!FetchPage,
         Store!UpsertPage, Store!FillDone

\* Whatever is done, a bar that was whole is.
LEMMA WholeStep ==
    ASSUME BarsInv, [Store!Next]_(Store!vars), NEW b \in Store!Buckets, NEW bar, WholeIn(b, bar, ticks, now)
    PROVE  WholeIn(b, bar, ticks', now')
<1>1. b \in Nat /\ now \in Nat /\ now' \in Nat /\ now <= now'
  BY BucketsFinite, TicksStep, MarketsAssumption DEF BarsInv, TicksInOrder
<1>2. CASE ticks' = ticks
  BY <1>1, <1>2, WholeStays
<1>3. CASE Store!Publish
  <2>1. stamped \in 0 .. now /\ now' = now /\ ticks' = Append(ticks, [at |-> stamped, published |-> now])
    BY <1>3 DEF Store!Publish, BarsInv, TicksInOrder
  <2>2. [at |-> stamped, published |-> now] \in Tick /\ ticks \in Seq(Tick)
    BY <1>1, <2>1 DEF Tick, BarsInv, TicksInOrder
  <2> QED
    BY <1>1, <2>1, <2>2, WholeGrows
<1> QED
  BY <1>2, <1>3
     DEF Store!Next, Store!vars, Store!Time, Store!Stamp, Store!ReadTicks, Store!WriteBars, Store!BeginFill,
         Store!FetchPage, Store!UpsertPage, Store!FillDone

\* The writer and the backfill, and what they hold.
LEMMA StoredStep ==
    ASSUME BarsInv, [Store!Next]_(Store!vars), BarsTyped',
           \/ UNCHANGED stored
           \/ stored' = Store!Upserted(held) \/ stored' = Store!Upserted(fill.rows)
    PROVE  StoredWhole'
<1> SUFFICES ASSUME NEW b \in Store!Buckets, stored'[b].source = "live_ticks"
             PROVE  WholeIn(b, stored'[b], ticks', now')
  BY DEF StoredWhole
<1>0. WholeIn(b, stored'[b], ticks, now)
  <2>1. CASE stored'[b] = stored[b]
    BY <2>1 DEF BarsInv, StoredWhole
  <2>2. CASE stored' = Store!Upserted(held)
    <3>1. \/ \E r \in held : r.bucket = b /\ stored'[b] = r.bar
          \/ stored'[b] = stored[b]
      BY <2>2, UpsertedIsEither DEF BarsInv, BarsTyped
    <3> QED
      BY <2>1, <3>1 DEF BarsInv, HeldWhole
  <2>3. CASE stored' = Store!Upserted(fill.rows)
    <3>1. \/ \E r \in fill.rows : r.bucket = b /\ stored'[b] = r.bar
          \/ stored'[b] = stored[b]
      BY <2>3, UpsertedIsEither DEF BarsInv, BarsTyped
    <3>2. \A r \in fill.rows : r.bar.source # "live_ticks"
      BY DEF BarsInv, PageFollows
    <3> QED
      BY <2>1, <3>1, <3>2
  <2> QED
    BY <2>1, <2>2, <2>3
<1> QED
  BY <1>0, WholeStep

LEMMA HeldStep ==
    ASSUME BarsInv, [Store!Next]_(Store!vars), held' \in {held, {}, Store!Completed}
    PROVE  HeldWhole' /\ held' \subseteq Row
<1>1. \A r \in held' : r \in Row /\ r.bar.source = "live_ticks" /\ WholeIn(r.bucket, r.bar, ticks, now)
  BY CompletedIsWhole DEF BarsInv, HeldWhole, BarsTyped
<1>2. \A r \in held' : r.bucket \in Store!Buckets
  BY <1>1 DEF Row
<1> QED
  BY <1>1, <1>2, WholeStep DEF HeldWhole

FillTyped ==
    fill \in [pc : {"idle", "fetch", "upsert", "done"}, since : Nat, until : Nat, cursor : Nat,
              rows : SUBSET Row, broken : BOOLEAN]

LEMMA MaxOfTwo ==
    ASSUME NEW x \in Int, NEW y \in Int
    PROVE  Store!Max({x, y}) \in {x, y} /\ Store!Max({x, y}) >= x
<1>1. \E z \in {x, y} : \A w \in {x, y} : z >= w
  <2>1. CASE x >= y
    BY <2>1
  <2>2. CASE y >= x
    BY <2>2
  <2> QED
    BY <2>1, <2>2
<1> QED
  BY <1>1 DEF Store!Max

LEMMA MaxOfBuckets ==
    ASSUME NEW S \in SUBSET Store!Buckets, S # {}
    PROVE  S \subseteq Int /\ IsFiniteSet(S) /\ Store!Max(S) \in S /\ \A y \in S : Store!Max(S) >= y
<1>1. IsFiniteSet(S)
  BY BucketsFinite, FS_Subset
<1>2. S \subseteq Int
  BY BucketsFinite
<1> QED
  BY <1>1, <1>2, MaxIsGreatest

\* A page has the candles of the buckets from the cursor on.
LEMMA PageRows ==
    /\ Store!Page \subseteq Row
    /\ \A r \in Store!Page : r.bar.source \in {"exchange_rest", "exchange_rest, forming"}
    /\ { r.bucket : r \in Store!Page } =
          { c \in Store!Buckets : fill.cursor <= c /\ c <= Store!Bucket(now) /\ c < fill.cursor + FetchLimit }
<1> DEFINE has == { c \in Store!Buckets : fill.cursor <= c /\ c <= Store!Bucket(now) /\ c < fill.cursor + FetchLimit }
           row(b) == [bucket |-> b,
                      bar |-> [source |-> IF (b + 1) * BarSeconds <= now THEN "exchange_rest"
                                          ELSE "exchange_rest, forming",
                               from |-> 0, to |-> 0]]
<1>1. Store!Page = { row(b) : b \in has }
  BY DEF Store!Page
<1>2. ASSUME NEW b \in Store!Buckets
      PROVE  row(b) \in Row /\ row(b).bucket = b
             /\ row(b).bar.source \in {"exchange_rest", "exchange_rest, forming"}
  <2>1. CASE (b + 1) * BarSeconds <= now
    BY <2>1 DEF Row, Bar
  <2>2. CASE ~((b + 1) * BarSeconds <= now)
    BY <2>2 DEF Row, Bar
  <2> QED
    BY <2>1, <2>2
<1>3. has \subseteq Store!Buckets
  OBVIOUS
<1> HIDE DEF row, has
<1>4. { r.bucket : r \in Store!Page } = has
  BY <1>1, <1>2, <1>3
<1> QED
  BY <1>1, <1>2, <1>3, <1>4 DEF has

LEMMA BeginFills ==
    ASSUME BarsInv, NEW incremental \in BOOLEAN, Store!BeginFill(incremental)
    PROVE  FillTyped' /\ PageFollows' /\ Store!BackfillUnbroken'
<1> DEFINE back == Store!Max({0, Store!Bucket(now) - Days})
           since == IF incremental /\ Store!Known # {} THEN Store!Max({back, Store!Max(Store!Known) + 1}) ELSE back
<1>1. fill' = [Store!Idle EXCEPT !.pc = "fetch", !.since = since, !.until = Store!Bucket(now), !.cursor = since]
  BY DEF Store!BeginFill
<1>2. Store!Bucket(now) \in Nat
  BY BucketOfTime, BucketsFinite DEF BarsInv, TicksInOrder
<1>3. back \in Nat
  <2>1. Store!Bucket(now) - Days \in Int
    BY <1>2, MarketsAssumption
  <2>2. back \in {0, Store!Bucket(now) - Days} /\ back >= 0
    BY <2>1, MaxOfTwo
  <2> QED
    BY <2>1, <2>2
<1>4. since \in Nat
  <2>1. CASE incremental /\ Store!Known # {}
    <3>1. Store!Known \in SUBSET Store!Buckets
      BY DEF Store!Known
    <3>2. Store!Max(Store!Known) \in Store!Known
      BY <2>1, <3>1, MaxOfBuckets
    <3>3. Store!Max(Store!Known) \in Nat
      BY <3>1, <3>2, BucketsFinite
    <3> DEFINE next == Store!Max(Store!Known) + 1
    <3>4. next \in Nat /\ since = Store!Max({back, next})
      BY <2>1, <3>3
    <3> HIDE DEF back, next
    <3>5. back \in Int /\ next \in Int
      BY <1>3, <3>4
    <3>6. Store!Max({back, next}) \in {back, next}
      BY <3>5, MaxOfTwo
    <3> QED
      BY <1>3, <3>4, <3>6
  <2>2. CASE ~(incremental /\ Store!Known # {})
    BY <1>3, <2>2
  <2> QED
    BY <2>1, <2>2
<1> HIDE DEF since
<1>5. fill' = [pc |-> "fetch", since |-> since, until |-> Store!Bucket(now), cursor |-> since, rows |-> {},
               broken |-> FALSE]
  BY <1>1 DEF Store!Idle
<1>6. FillTyped'
  BY <1>2, <1>4, <1>5 DEF FillTyped
<1>7. PageFollows'
  BY <1>5 DEF PageFollows
<1>8. fill'.since .. fill'.cursor - 1 = {}
  BY <1>4, <1>5
<1> QED
  BY <1>6, <1>7, <1>8 DEF Store!BackfillUnbroken

LEMMA FetchFills ==
    ASSUME BarsInv, Store!FetchPage
    PROVE  FillTyped' /\ PageFollows' /\ Store!BackfillUnbroken'
<1>1. /\ fill.pc = "fetch" /\ stored' = stored /\ fill.since \in Nat /\ fill.cursor \in Nat
      /\ Store!Bucket(now) \in Store!Buckets /\ Store!Buckets \subseteq Nat
      /\ FillTyped
  BY BucketOfTime, BucketsFinite DEF Store!FetchPage, BarsInv, BarsTyped, TicksInOrder, FillTyped
<1>2. Store!Page \subseteq Row /\ \A r \in Store!Page : r.bar.source \in {"exchange_rest", "exchange_rest, forming"}
  BY PageRows
<1>3. CASE fill' = [fill EXCEPT !.pc = "done"]
  <2>1. FillTyped'
    BY <1>1, <1>3 DEF FillTyped
  <2>2. PageFollows'
    BY <1>1, <1>3 DEF PageFollows, BarsInv, FillTyped
  <2>3. Store!BackfillUnbroken'
    BY <1>1, <1>3 DEF BarsInv, Store!BackfillUnbroken, Store!Known, FillTyped
  <2> QED
    BY <2>1, <2>2, <2>3
<1>4. CASE Store!Page # {} /\ fill' = [fill EXCEPT !.pc = "upsert", !.rows = Store!Page]
  <2>1. FillTyped'
    BY <1>1, <1>2, <1>4 DEF FillTyped
  <2>2. Store!BackfillUnbroken'
    BY <1>1, <1>4 DEF BarsInv, Store!BackfillUnbroken, Store!Known, FillTyped
  <2>3. fill'.pc = "upsert" /\ fill'.rows = Store!Page /\ fill'.cursor = fill.cursor
    BY <1>1, <1>4 DEF FillTyped
  <2> DEFINE has == { c \in Store!Buckets : /\ fill.cursor <= c /\ c <= Store!Bucket(now)
                                            /\ c < fill.cursor + FetchLimit }
  <2>4. { r.bucket : r \in Store!Page } = has
    BY PageRows
  <2>5. has # {}
    BY <1>4, <2>4
  <2>6. has \subseteq Int /\ IsFiniteSet(has)
    BY BucketsFinite, <2>5, MaxOfBuckets
  <2>7. PICK n \in has : \A c \in has : n >= c
    BY <2>5, <2>6, Greatest
  <2>8. has = fill.cursor .. n
    <3>1. n \in Nat /\ n <= Store!Bucket(now) /\ n < fill.cursor + FetchLimit /\ n <= MaxTime \div BarSeconds
          /\ Store!Bucket(now) \in Nat /\ fill.cursor \in Nat /\ MaxTime \div BarSeconds \in Nat
          /\ FetchLimit \in Nat
      BY <1>1, BucketsFinite, MarketsAssumption DEF Store!Buckets
    <3>2. ASSUME NEW c \in fill.cursor .. n PROVE c \in has
      BY <3>1 DEF Store!Buckets
    <3>3. ASSUME NEW c \in has PROVE c \in fill.cursor .. n
      BY <1>1, <2>7, <3>1
    <3> QED
      BY <3>2, <3>3
  <2>9. n \in Store!Buckets /\ fill.cursor <= n
    BY <2>7
  <2>10. PageFollows'
    BY <1>2, <2>3, <2>4, <2>8, <2>9 DEF PageFollows
  <2> QED
    BY <2>1, <2>2, <2>10
<1> QED
  BY <1>3, <1>4 DEF Store!FetchPage

LEMMA UpsertFills ==
    ASSUME BarsInv, Store!UpsertPage
    PROVE  FillTyped' /\ PageFollows' /\ Store!BackfillUnbroken'
<1>1. /\ fill.pc = "upsert" /\ FillTyped /\ fill.rows \in SUBSET Row
      /\ \A r \in fill.rows : r.bar.source # "none"
  BY DEF Store!UpsertPage, BarsInv, BarsTyped, FillTyped, PageFollows
<1>2. PICK n \in Store!Buckets : fill.cursor <= n /\ { r.bucket : r \in fill.rows } = fill.cursor .. n
  BY <1>1 DEF BarsInv, PageFollows
<1>3. n \in Nat /\ fill.cursor \in Nat /\ fill.since \in Nat
  BY <1>1, BucketsFinite DEF FillTyped
<1>4. Store!NextCursor(fill.rows) = n + 1
  <2>1. fill.cursor .. n \subseteq Int /\ IsFiniteSet(fill.cursor .. n) /\ n \in fill.cursor .. n
    <3>1. \A a, b \in Int : IsFiniteSet(a .. b)
      BY FS_Interval
    <3>2. fill.cursor \in Int /\ n \in Int
      BY <1>3
    <3>3. IsFiniteSet(fill.cursor .. n)
      BY <3>1, <3>2
    <3>4. n \in fill.cursor .. n /\ fill.cursor .. n \subseteq Int
      BY <1>2, <1>3
    <3> QED
      BY <3>3, <3>4
  <2>2. Store!Max(fill.cursor .. n) \in fill.cursor .. n /\ Store!Max(fill.cursor .. n) >= n
    BY <2>1, MaxIsGreatest
  <2>3. Store!Max(fill.cursor .. n) = n
    BY <1>3, <2>2
  <2> QED
    BY <1>2, <2>3 DEF Store!NextCursor
<1>5. PICK to \in {"done", "fetch"}, broken \in BOOLEAN :
          /\ fill' = [fill EXCEPT !.pc = to, !.cursor = n + 1, !.rows = {}, !.broken = broken]
          /\ broken \/ (broken = fill.broken /\ stored' = Store!Upserted(fill.rows))
  <2>1. CASE stored' = Store!Upserted(fill.rows)
             /\ fill' = [fill EXCEPT !.pc = IF Store!Cardinality(fill.rows) < FetchLimit THEN "done" ELSE "fetch",
                                     !.cursor = Store!NextCursor(fill.rows), !.rows = {}]
    <3>1. fill.broken \in BOOLEAN
      BY <1>1 DEF FillTyped
    <3>2. fill' = [fill EXCEPT !.pc = IF Store!Cardinality(fill.rows) < FetchLimit THEN "done" ELSE "fetch",
                               !.cursor = n + 1, !.rows = {}, !.broken = fill.broken]
      BY <1>1, <1>4, <2>1 DEF FillTyped
    <3> QED
      BY <2>1, <3>1, <3>2
  <2>2. CASE fill' = [fill EXCEPT !.pc = IF Store!Cardinality(fill.rows) < FetchLimit THEN "done" ELSE "fetch",
                                  !.cursor = Store!NextCursor(fill.rows), !.rows = {}, !.broken = TRUE]
    BY <1>4, <2>2
  <2> QED
    BY <2>1, <2>2 DEF Store!UpsertPage
<1>6. /\ fill'.pc = to /\ fill'.cursor = n + 1 /\ fill'.rows = {} /\ fill'.broken = broken
      /\ fill'.since = fill.since /\ FillTyped'
  <2>1. n + 1 \in Nat /\ to \in {"idle", "fetch", "upsert", "done"}
    BY <1>3
  <2>2. /\ fill'.pc = to /\ fill'.cursor = n + 1 /\ fill'.rows = {} /\ fill'.broken = broken
        /\ fill'.since = fill.since /\ fill'.until = fill.until
    BY <1>1, <1>5 DEF FillTyped
  <2>3. FillTyped'
    BY <1>1, <1>5, <2>1 DEF FillTyped
  <2> QED
    BY <2>2, <2>3
<1>7. PageFollows'
  BY <1>5, <1>6 DEF PageFollows
<1>8. ASSUME ~broken PROVE fill.since .. n \subseteq Store!Known'
  <2>1. fill.since .. fill.cursor - 1 \subseteq Store!Known
    BY <1>1, <1>5, <1>8 DEF BarsInv, Store!BackfillUnbroken
  <2>2. Store!Known \subseteq Store!Known' /\ \A r \in fill.rows : r.bucket \in Store!Known'
    BY <1>1, <1>5, <1>8, UpsertedIsKnown DEF BarsInv
  <2>3. fill.cursor .. n \subseteq Store!Known'
    BY <1>2, <2>2
  <2>4. ASSUME NEW c \in fill.since .. n PROVE c \in fill.since .. fill.cursor - 1 \/ c \in fill.cursor .. n
    BY <1>3
  <2> QED
    BY <2>1, <2>2, <2>3, <2>4
<1>9. Store!BackfillUnbroken'
  <2>1. ~fill'.broken => fill'.since .. fill'.cursor - 1 \subseteq Store!Known'
    <3>1. fill'.cursor - 1 = n
      BY <1>3, <1>6
    <3>4. fill'.since = fill.since /\ fill'.broken = broken
      BY <1>6, Zenon
    <3>2. fill'.since .. fill'.cursor - 1 = fill.since .. n
      BY <3>1, <3>4
    <3>3. ~broken => fill.since .. n \subseteq Store!Known'
      BY <1>8
    <3> QED
      BY <3>2, <3>3, <3>4, Zenon
  <2> QED
    BY <2>1 DEF Store!BackfillUnbroken
<1> QED
  BY <1>6, <1>7, <1>9

LEMMA DoneFills ==
    ASSUME BarsInv, Store!FillDone
    PROVE  FillTyped' /\ PageFollows' /\ Store!BackfillUnbroken'
BY DEF Store!FillDone, Store!Idle, FillTyped, PageFollows, Store!BackfillUnbroken

LEMMA FillKept ==
    ASSUME BarsInv, fill' = fill, stored' = stored \/ stored' = Store!Upserted(held)
    PROVE  FillTyped' /\ PageFollows' /\ Store!BackfillUnbroken'
<1>1. Store!Known \subseteq Store!Known'
  <2>1. CASE stored' = stored
    BY <2>1 DEF Store!Known
  <2>2. CASE stored' = Store!Upserted(held)
    BY <2>2, UpsertedIsKnown DEF BarsInv, BarsTyped, HeldWhole
  <2> QED
    BY <2>1, <2>2
<1> QED
  BY <1>1 DEF BarsInv, BarsTyped, FillTyped, PageFollows, Store!BackfillUnbroken

LEMMA BarsInit == Store!Init => BarsInv
<1> SUFFICES ASSUME Store!Init PROVE BarsInv
  OBVIOUS
<1>1. /\ now = 0 /\ stamped = -1 /\ ticks = <<>> /\ stored = [b \in Store!Buckets |-> Store!NoBar]
      /\ held = {} /\ fill = [pc |-> "idle", since |-> 0, until |-> 0, cursor |-> 0, rows |-> {}, broken |-> FALSE]
  BY DEF Store!Init, Store!Idle
<1>2. TicksInOrder
  BY <1>1, MarketsAssumption DEF TicksInOrder
<1>3. Store!NoBar \in Bar /\ Store!NoBar.source = "none"
  BY DEF Store!NoBar, Bar
<1>4. BarsTyped
  BY <1>1, <1>3 DEF BarsTyped
<1>5. StoredWhole /\ HeldWhole /\ PageFollows /\ Store!BackfillUnbroken
  BY <1>1, <1>3 DEF StoredWhole, HeldWhole, PageFollows, Store!BackfillUnbroken
<1> QED
  BY <1>2, <1>4, <1>5 DEF BarsInv

LEMMA BarsStep == BarsInv /\ [Store!Next]_(Store!vars) => BarsInv'
<1> SUFFICES ASSUME BarsInv, [Store!Next]_(Store!vars) PROVE BarsInv'
  OBVIOUS
<1>1. TicksInOrder'
  BY TicksStep
<1>2. /\ \/ UNCHANGED stored
         \/ stored' = Store!Upserted(held) \/ stored' = Store!Upserted(fill.rows)
      /\ held' \in {held, {}, Store!Completed}
  BY DEF Store!Next, Store!vars, Store!Time, Store!Stamp, Store!Publish, Store!ReadTicks, Store!WriteBars,
         Store!BeginFill, Store!FetchPage, Store!UpsertPage, Store!FillDone
<1>3. FillTyped' /\ PageFollows' /\ Store!BackfillUnbroken'
  <2>1. CASE fill' = fill /\ (stored' = stored \/ stored' = Store!Upserted(held))
    BY <2>1, FillKept
  <2>2. CASE Store!FetchPage \/ Store!UpsertPage \/ Store!FillDone
    BY <2>2, FetchFills, UpsertFills, DoneFills
  <2>3. ASSUME NEW incremental \in BOOLEAN, Store!BeginFill(incremental)
        PROVE  FillTyped' /\ PageFollows' /\ Store!BackfillUnbroken'
    BY <2>3, BeginFills
  <2> QED
    BY <2>1, <2>2, <2>3
       DEF Store!Next, Store!vars, Store!Time, Store!Stamp, Store!Publish, Store!ReadTicks, Store!WriteBars
<1>4. HeldWhole' /\ held' \subseteq Row
  BY <1>2, HeldStep
<1>5. stored' \in [Store!Buckets -> Bar]
  BY <1>2, UpsertedIsEither DEF BarsInv, BarsTyped
<1>6. BarsTyped'
  BY <1>3, <1>4, <1>5 DEF BarsTyped, FillTyped
<1>7. StoredWhole'
  BY <1>2, <1>6, StoredStep
<1> QED
  BY <1>1, <1>3, <1>4, <1>6, <1>7 DEF BarsInv

(* No candle is stored with less than there was, however ticks, writer and  *)
(* backfill interleave and whatever upsert fails: a live bar has every     *)
(* tick of its bucket that was in time and still in the cache, and a       *)
(* backfill leaves no hole behind its cursor (_flush_once, upsert_bars,    *)
(* backfill_symbol).                                                       *)
THEOREM CandlesAreWhole == Spec => []BarsWhole
<1>1. ASSUME BarsInv PROVE Store!LiveBarsWhole
  <2> SUFFICES ASSUME NEW b \in Store!Buckets, stored[b].source = "live_ticks"
               PROVE  LET all == Store!InBucket(b, DOMAIN ticks)
                      IN  /\ stored[b].from .. stored[b].to \subseteq all
                          /\ \A i \in all : i > stored[b].to => ticks[i].published >= (b + 1) * BarSeconds
                          /\ \A i \in all : i < stored[b].from => Len(ticks) >= i + CacheMax
    BY DEF Store!LiveBarsWhole
  <2>1. WholeIn(b, stored[b], ticks, now)
    BY <1>1 DEF BarsInv, StoredWhole
  <2>2. Store!InBucket(b, DOMAIN ticks) = { i \in DOMAIN ticks : Store!Bucket(ticks[i].at) = b }
    BY DEF Store!InBucket
  <2> QED
    BY <2>1, <2>2 DEF WholeIn
<1>2. BarsInv => BarsWhole
  BY <1>1 DEF BarsInv, BarsWhole, Store!BarsWhole
<1> QED
  BY <1>2, PartsRun, BarsInit, BarsStep, PTL DEF Store!Spec
-----------------------------------------------------------------------------
(* Orders at the venues.                                                   *)

\* How a venue may answer.
Kinds == {"none", "fill", "accepted", "bare", "funds", "refused", "partial", "no tick", "lost"}

TradeTyped ==
    /\ live \in BOOLEAN /\ configured \subseteq Trade!Venues
    /\ order \in [Orders -> [venue : Trade!Venues, symbol : Trade!Symbols, side : Trade!Sides]]
    /\ pc \in [Orders -> {"new", "sent", "done"}]
    /\ answer \in [Orders -> [kind : Kinds, qty : Nat]]
    /\ executed \in [Orders -> Nat] /\ open \in [Orders -> Nat]
    /\ report \in [Orders -> [status : {"none", "filled", "rejected", "error"}, qty : Nat, priced : BOOLEAN]]
    /\ booked \in [Orders -> Int]

\* What a venue's answer says is so; a part leaves the adapter in doubt.
AnswerTrue(o) ==
    /\ answer[o] = Trade!NoAnswer => executed[o] = 0 /\ open[o] = 0
    /\ answer[o].kind = "fill" => 
          /\ answer[o].qty <= Units /\ answer[o].qty <= executed[o]
          /\ answer[o].qty = Units => executed[o] = Units /\ open[o] = 0
    /\ answer[o].kind \in {"funds", "refused"} => executed[o] = 0 /\ open[o] = 0

\* What an adapter makes of it: a priced fill and a rejection are to be relied
\* on, but not the bridge's.
ReportTrue(o) ==
    /\ booked[o] = IF Trade!IsFill(report[o]) THEN Trade!Signed(o, report[o].qty) ELSE 0
    /\ report[o].status # "none"
    /\ live /\ report[o].status = "filled" /\ report[o].priced = TRUE =>
          /\ report[o].qty <= Units /\ report[o].qty <= executed[o]
          /\ report[o].qty = Units => executed[o] = Units /\ open[o] = 0
          /\ order[o].venue \in configured
    /\ live /\ report[o].status = "rejected" /\ order[o].venue # "mt5" => executed[o] = 0 /\ open[o] = 0

OrderInv(o) ==
    /\ ~live => pc[o] # "sent" /\ answer[o] = Trade!NoAnswer
    /\ pc[o] = "new" => answer[o] = Trade!NoAnswer
    /\ pc[o] = "sent" => order[o].venue \in configured
    /\ pc[o] # "done" => booked[o] = 0
    /\ AnswerTrue(o)
    /\ pc[o] = "done" => ReportTrue(o)

TradeInv == TradeTyped /\ \A o \in Orders : OrderInv(o)

LEMMA TradeInit == Trade!Init => TradeInv
<1> SUFFICES ASSUME Trade!Init PROVE TradeInv
  OBVIOUS
<1>1. TradeTyped
  <2>1. live \in BOOLEAN /\ configured \subseteq Trade!Venues
    BY DEF Trade!Init, Trade!Venues, Trade!Ccxt
  <2>5. order \in [Orders -> [venue : Trade!Venues, symbol : Trade!Symbols, side : Trade!Sides]]
    BY DEF Trade!Init
  <2>2. /\ pc \in [Orders -> {"new", "sent", "done"}]
        /\ executed \in [Orders -> Nat] /\ open \in [Orders -> Nat] /\ booked \in [Orders -> Int]
    <3>1. pc \in [Orders -> {"new", "sent", "done"}]
      BY DEF Trade!Init
    <3>2. executed \in [Orders -> Nat] /\ open \in [Orders -> Nat] /\ booked \in [Orders -> Int]
      BY DEF Trade!Init
    <3> QED
      BY <3>1, <3>2
  <2>3. answer \in [Orders -> [kind : Kinds, qty : Nat]]
    BY DEF Trade!Init, Trade!NoAnswer, Kinds
  <2>4. report \in [Orders -> [status : {"none", "filled", "rejected", "error"}, qty : Nat, priced : BOOLEAN]]
    BY DEF Trade!Init, Trade!NoReport
  <2> QED
    BY <2>1, <2>2, <2>3, <2>4, <2>5 DEF TradeTyped
<1>2. ASSUME NEW o \in Orders PROVE OrderInv(o)
  BY DEF Trade!Init, OrderInv, AnswerTrue, Trade!NoAnswer
<1> QED
  BY <1>1, <1>2 DEF TradeInv

\* The other orders keep what they have.
LEMMA OthersKeep ==
    ASSUME TradeInv, NEW o \in Orders, NEW p \in Orders, OrderInv(p),
           UNCHANGED <<live, configured, order>>,
           pc'[p] = pc[p], answer'[p] = answer[p], executed'[p] = executed[p], open'[p] = open[p],
           report'[p] = report[p], booked'[p] = booked[p]
    PROVE  OrderInv(p)'
BY DEF OrderInv, AnswerTrue, ReportTrue, Trade!IsFill, Trade!Signed


LEMMA OneOrder ==
    ASSUME TradeInv, NEW o \in Orders, UNCHANGED <<live, configured, order>>,
           TradeTyped', OrderInv(o)',
           \A p \in Orders \ {o} :
              /\ pc'[p] = pc[p] /\ answer'[p] = answer[p] /\ executed'[p] = executed[p]
              /\ open'[p] = open[p] /\ report'[p] = report[p] /\ booked'[p] = booked[p]
    PROVE  TradeInv'
<1>1. ASSUME NEW p \in Orders PROVE OrderInv(p)'
  <2>1. CASE p = o
    BY <2>1
  <2>2. CASE p # o
    BY <2>2, OthersKeep DEF TradeInv
  <2> QED
    BY <2>1, <2>2
<1> QED
  BY <1>1 DEF TradeInv

\* An order comes to its end with a result.
LEMMA FinishStep ==
    ASSUME TradeInv, NEW o \in Orders, UNCHANGED <<live, configured, order, answer, executed, open>>,
           NEW r \in [status : {"filled", "rejected", "error"}, qty : Nat, priced : BOOLEAN],
           Trade!Finish(o, r), ~live => pc[o] # "sent",
           live /\ r.status = "filled" /\ r.priced = TRUE =>
              /\ r.qty <= Units /\ r.qty <= executed[o]
              /\ r.qty = Units => executed[o] = Units /\ open[o] = 0
              /\ order[o].venue \in configured,
           live /\ r.status = "rejected" /\ order[o].venue # "mt5" => executed[o] = 0 /\ open[o] = 0
    PROVE  TradeInv'
<1>1. /\ pc' = [pc EXCEPT ![o] = "done"] /\ report' = [report EXCEPT ![o] = r]
      /\ booked' = [booked EXCEPT ![o] = IF Trade!IsFill(r) THEN Trade!Signed(o, r.qty) ELSE 0]
  BY DEF Trade!Finish
<1>2. r \in [status : {"none", "filled", "rejected", "error"}, qty : Nat, priced : BOOLEAN]
      /\ r.qty \in Nat /\ r.status # "none"
  OBVIOUS
<1>3. Trade!Signed(o, r.qty) \in Int
  BY <1>2 DEF Trade!Signed
<1>4. TradeTyped'
  BY <1>1, <1>2, <1>3 DEF TradeInv, TradeTyped
<1>5. pc'[o] = "done" /\ report'[o] = r
      /\ booked'[o] = IF Trade!IsFill(r) THEN Trade!Signed(o, r.qty) ELSE 0
  BY <1>1 DEF TradeInv, TradeTyped
<1>6. ReportTrue(o)'
  BY <1>2, <1>5 DEF ReportTrue, Trade!IsFill, Trade!Signed
<1>7. OrderInv(o)'
  BY <1>5, <1>6 DEF TradeInv, OrderInv, AnswerTrue
<1> QED
  BY <1>1, <1>4, <1>7, OneOrder DEF TradeInv, TradeTyped

LEMMA SentStep == ASSUME TradeInv, NEW o \in Orders, Trade!Submit(o) PROVE TradeInv'
<1>1. /\ pc[o] = "new" /\ Trade!Resolve(o) \in Trade!Clients /\ pc' = [pc EXCEPT ![o] = "sent"]
      /\ UNCHANGED <<live, configured, order, answer, executed, open, report, booked>>
  BY DEF Trade!Submit
<1>2. live /\ order[o].venue \in configured
  BY <1>1 DEF Trade!Resolve, Trade!Clients, TradeInv, TradeTyped, Trade!Venues, Trade!Ccxt
<1>3. TradeTyped'
  BY <1>1 DEF TradeInv, TradeTyped
<1>4. OrderInv(o)'
  BY <1>1, <1>2 DEF TradeInv, TradeTyped, OrderInv, AnswerTrue
<1> QED
  BY <1>1, <1>3, <1>4, OneOrder DEF TradeInv, TradeTyped


\* What one answer must be for the venue to have said the truth.
LEMMA AnswersStep ==
    ASSUME TradeInv, NEW o \in Orders, NEW kind \in Kinds, NEW n \in Nat, NEW rest \in Nat,
           Trade!Answers(o, kind, n, rest), kind # "none",
           kind = "fill" => n <= Units /\ (n = Units => rest = 0),
           kind \in {"funds", "refused"} => n = 0 /\ rest = 0
    PROVE  TradeInv'
<1>1. /\ pc[o] = "sent" /\ answer[o] = Trade!NoAnswer
      /\ executed' = [executed EXCEPT ![o] = n] /\ open' = [open EXCEPT ![o] = rest]
      /\ answer' = [answer EXCEPT ![o] = [kind |-> kind, qty |-> n]]
      /\ UNCHANGED <<live, configured, order, pc, report, booked>>
  BY DEF Trade!Answers
<1>2. TradeTyped'
  BY <1>1 DEF TradeInv, TradeTyped
<1>3. /\ executed'[o] = n /\ open'[o] = rest /\ pc'[o] = "sent" /\ booked'[o] = booked[o]
      /\ answer'[o] = [kind |-> kind, qty |-> n] /\ order'[o] = order[o]
  BY <1>1 DEF TradeInv, TradeTyped
<1>4. AnswerTrue(o)'
  BY <1>3 DEF AnswerTrue, Trade!NoAnswer
<1>5. OrderInv(o)'
  BY <1>1, <1>3, <1>4 DEF TradeInv, OrderInv
<1> QED
  BY <1>1, <1>2, <1>5, OneOrder DEF TradeInv, TradeTyped

LEMMA WholeFill ==
    ASSUME TradeInv, NEW o \in Orders, Trade!Answers(o, "fill", Units, 0)
    PROVE  TradeInv'
<1>1. "fill" \in Kinds /\ Units \in Nat /\ 0 \in Nat
  BY MarketsAssumption DEF Kinds
<1> QED
  BY <1>1, AnswersStep

LEMMA VenueStep ==
    ASSUME TradeInv, NEW o \in Orders,
           Trade!CcxtVenue(o) \/ Trade!OandaVenue(o) \/ Trade!Mt5Venue(o) \/ Trade!Lost(o)
    PROVE  TradeInv'
<1> USE MarketsAssumption
<1>1. CASE Trade!CcxtVenue(o)
  <2>1. ASSUME NEW n \in 1 .. Units, Trade!Answers(o, "fill", n, Units - n) PROVE TradeInv'
    <3>1. n \in Nat /\ Units - n \in Nat /\ n <= Units /\ (n = Units => Units - n = 0)
      OBVIOUS
    <3>2. "fill" \in Kinds
      BY DEF Kinds
    <3> QED
      BY <2>1, <3>1, <3>2, AnswersStep
  <2>2. ASSUME NEW n \in 0 .. Units, Trade!Answers(o, "bare", n, Units - n) PROVE TradeInv'
    BY <2>2, n \in Nat, Units - n \in Nat, AnswersStep DEF Kinds
  <2>3. CASE Trade!Answers(o, "accepted", 0, Units) \/ Trade!Answers(o, "funds", 0, 0)
             \/ Trade!Answers(o, "refused", 0, 0)
    BY <2>3, 0 \in Nat, AnswersStep DEF Kinds
  <2> QED
    BY <1>1, <2>1, <2>2, <2>3 DEF Trade!CcxtVenue
<1>2. CASE Trade!OandaVenue(o)
  <2>1. CASE Trade!Answers(o, "fill", Units, 0)
    BY <2>1, WholeFill
  <2>2. CASE Trade!Answers(o, "accepted", 0, 0) \/ Trade!Answers(o, "refused", 0, 0)
    BY <2>2, 0 \in Nat, AnswersStep DEF Kinds
  <2> QED
    BY <1>2, <2>1, <2>2 DEF Trade!OandaVenue
<1>3. CASE Trade!Mt5Venue(o)
  <2>1. ASSUME NEW n \in 0 .. Units - 1, NEW rest \in {0, Units - n}, Trade!Answers(o, "partial", n, rest)
        PROVE  TradeInv'
    BY <2>1, n \in Nat, rest \in Nat, AnswersStep DEF Kinds
  <2>4. CASE Trade!Answers(o, "fill", Units, 0)
    BY <2>4, WholeFill
  <2>2. CASE Trade!Answers(o, "refused", 0, 0) \/ Trade!Answers(o, "no tick", 0, 0)
    BY <2>2, 0 \in Nat, AnswersStep DEF Kinds
  <2>3. CASE UNCHANGED <<live, configured, order, pc, answer, executed, open, report, booked>>
    BY <2>3 DEF TradeInv, TradeTyped, OrderInv, AnswerTrue, ReportTrue, Trade!Signed
  <2> QED
    BY <1>3, <2>1, <2>2, <2>3, <2>4 DEF Trade!Mt5Venue
<1>4. CASE Trade!Lost(o)
  <2>1. ASSUME NEW n \in 0 .. Units, Trade!Answers(o, "lost", n, Units - n) PROVE TradeInv'
    BY <2>1, n \in Nat, Units - n \in Nat, AnswersStep DEF Kinds
  <2> QED
    BY <1>4, <2>1 DEF Trade!Lost
<1> QED
  BY <1>1, <1>2, <1>3, <1>4

LEMMA LaterStep == ASSUME TradeInv, NEW o \in Orders, Trade!Later(o) PROVE TradeInv'
<1> PICK n \in 0 .. open[o] : executed' = [executed EXCEPT ![o] = @ + n]
  BY DEF Trade!Later
<1>1. /\ open[o] > 0 /\ open' = [open EXCEPT ![o] = 0]
      /\ UNCHANGED <<live, configured, order, pc, answer, report, booked>>
  BY DEF Trade!Later
<1>2. executed[o] \in Nat /\ open[o] \in Nat /\ n \in Nat /\ executed[o] + n \in Nat
  BY DEF TradeInv, TradeTyped
<1>3. TradeTyped'
  BY <1>1, <1>2 DEF TradeInv, TradeTyped
<1>4. /\ executed'[o] = executed[o] + n /\ open'[o] = 0 /\ answer[o].qty \in Nat /\ report[o].qty \in Nat
  BY <1>1, <1>2 DEF TradeInv, TradeTyped
<1>5. AnswerTrue(o)'
  BY <1>1, <1>2, <1>4, MarketsAssumption DEF TradeInv, OrderInv, AnswerTrue
<1>6. ASSUME pc[o] = "done" PROVE ReportTrue(o)'
  <2>1. ReportTrue(o)
    BY <1>6 DEF TradeInv, OrderInv
  <2> QED
    BY <1>1, <1>2, <1>4, <2>1, MarketsAssumption DEF ReportTrue, Trade!Signed
<1>7. OrderInv(o)'
  BY <1>1, <1>5, <1>6 DEF TradeInv, OrderInv
<1> QED
  BY <1>1, <1>3, <1>7, OneOrder DEF TradeInv, TradeTyped

\* Each adapter relies on no more than the answer says.
LEMMA ReadStep == ASSUME TradeInv, NEW o \in Orders, Trade!Read(o) PROVE TradeInv'
<1> DEFINE Reading == CASE order[o].venue = "binance" -> Trade!ReadBinance(answer[o])
                        [] order[o].venue = "bybit" -> Trade!ReadBybit(answer[o])
                        [] order[o].venue = "okx" -> Trade!ReadOkx(answer[o])
                        [] order[o].venue = "kraken" -> Trade!ReadKraken(answer[o])
                        [] order[o].venue = "oanda" -> Trade!ReadOanda(answer[o])
                        [] order[o].venue = "mt5" -> Trade!ReadMt5(answer[o])
       Filled == Trade!Result("filled", answer[o].qty, TRUE)
       Unpriced == Trade!Result("filled", Units, FALSE)
       Rejected == Trade!Result("rejected", 0, FALSE)
       Error == Trade!Result("error", 0, FALSE)
<1>1. /\ pc[o] = "sent" /\ Trade!Finish(o, Reading)
      /\ UNCHANGED <<live, configured, order, answer, executed, open>>
  BY DEF Trade!Read
<1>2. \/ answer[o].kind = "fill" /\ Reading = Filled
      \/ Reading = Unpriced \/ Reading = Error
      \/ Reading = Rejected /\ (answer[o].kind \in {"funds", "refused"} \/ order[o].venue = "mt5")
  <2>1. order[o].venue \in {"binance", "bybit", "okx", "kraken", "oanda", "mt5"}
    BY DEF TradeInv, TradeTyped, Trade!Venues, Trade!Ccxt
  <2>2. CASE order[o].venue \in {"binance", "bybit", "okx", "kraken"}
    <3>1. Reading = Trade!ReadBinance(answer[o])
      BY <2>2 DEF Trade!ReadBybit, Trade!ReadOkx, Trade!ReadKraken
    <3> QED
      BY <3>1 DEF Trade!ReadBinance
  <2>3. CASE order[o].venue = "oanda"
    <3>1. Reading = Trade!ReadOanda(answer[o])
      BY <2>3
    <3> QED
      BY <3>1 DEF Trade!ReadOanda
  <2>4. CASE order[o].venue = "mt5"
    <3>1. Reading = Trade!ReadMt5(answer[o])
      BY <2>4
    <3> QED
      BY <2>4, <3>1 DEF Trade!ReadMt5
  <2> QED
    BY <2>1, <2>2, <2>3, <2>4
<1>3. AnswerTrue(o) /\ live /\ order[o].venue \in configured /\ answer[o].qty \in Nat
  BY <1>1 DEF TradeInv, TradeTyped, OrderInv
<1>4. CASE answer[o].kind = "fill" /\ Reading = Filled
  <2>1. /\ Filled \in [status : {"filled", "rejected", "error"}, qty : Nat, priced : BOOLEAN]
        /\ Filled.status = "filled" /\ Filled.qty = answer[o].qty
    BY <1>3 DEF Trade!Result
  <2> QED
    BY <1>1, <1>3, <1>4, <2>1, FinishStep DEF AnswerTrue
<1>5. CASE Reading = Unpriced
  <2>1. /\ Unpriced \in [status : {"filled", "rejected", "error"}, qty : Nat, priced : BOOLEAN]
        /\ Unpriced.status = "filled" /\ Unpriced.priced = FALSE
    BY MarketsAssumption DEF Trade!Result
  <2> QED
    BY <1>1, <1>3, <1>5, <2>1, FinishStep
<1>6. CASE Reading = Error
  <2>1. /\ Error \in [status : {"filled", "rejected", "error"}, qty : Nat, priced : BOOLEAN]
        /\ Error.status = "error"
    BY DEF Trade!Result
  <2> QED
    BY <1>1, <1>3, <1>6, <2>1, FinishStep
<1>7. CASE Reading = Rejected /\ (answer[o].kind \in {"funds", "refused"} \/ order[o].venue = "mt5")
  <2>1. /\ Rejected \in [status : {"filled", "rejected", "error"}, qty : Nat, priced : BOOLEAN]
        /\ Rejected.status = "rejected"
    BY DEF Trade!Result
  <2> QED
    BY <1>1, <1>3, <1>7, <2>1, FinishStep DEF AnswerTrue
<1> QED
  BY <1>2, <1>4, <1>5, <1>6, <1>7

\* The simulation, and a venue without a client.
LEMMA UnsentStep ==
    ASSUME TradeInv, NEW o \in Orders, Trade!Paper(o) \/ Trade!NoClient(o)
    PROVE  TradeInv'
<1>1. CASE Trade!Paper(o)
  <2>1. PICK r \in {Trade!Result("filled", Units, TRUE), Trade!Result("rejected", 0, FALSE),
                    Trade!Result("error", 0, FALSE)} : Trade!Finish(o, r)
    BY <1>1 DEF Trade!Paper
  <2>2. r \in [status : {"filled", "rejected", "error"}, qty : Nat, priced : BOOLEAN]
    <3> DEFINE R == [status : {"filled", "rejected", "error"}, qty : Nat, priced : BOOLEAN]
    <3>1. Trade!Result("filled", Units, TRUE) \in R
      BY MarketsAssumption DEF Trade!Result
    <3>2. Trade!Result("rejected", 0, FALSE) \in R
      BY DEF Trade!Result
    <3>3. Trade!Result("error", 0, FALSE) \in R
      BY DEF Trade!Result
    <3> QED
      BY <2>1, <3>1, <3>2, <3>3
  <2>3. /\ ~live /\ pc[o] # "sent" /\ UNCHANGED <<live, configured, order, answer, executed, open>>
    BY <1>1 DEF Trade!Paper, Trade!Resolve, TradeInv, TradeTyped, Trade!Venues, Trade!Ccxt
  <2> QED
    BY <2>1, <2>2, <2>3, FinishStep
<1>2. CASE Trade!NoClient(o)
  <2>1. /\ Trade!Finish(o, Trade!Result("error", 0, FALSE)) /\ pc[o] # "sent"
        /\ UNCHANGED <<live, configured, order, answer, executed, open>>
    BY <1>2 DEF Trade!NoClient
  <2>2. /\ Trade!Result("error", 0, FALSE) \in [status : {"filled", "rejected", "error"}, qty : Nat, priced : BOOLEAN]
        /\ Trade!Result("error", 0, FALSE).status = "error"
    BY DEF Trade!Result
  <2> QED
    BY <2>1, <2>2, FinishStep
<1> QED
  BY <1>1, <1>2

LEMMA TradeStep == TradeInv /\ [Trade!Next]_(Trade!vars) => TradeInv'
<1> SUFFICES ASSUME TradeInv, [Trade!Next]_(Trade!vars) PROVE TradeInv'
  OBVIOUS
<1>1. CASE UNCHANGED Trade!vars
  BY <1>1 DEF Trade!vars, TradeInv, TradeTyped, OrderInv, AnswerTrue, ReportTrue, Trade!Signed
<1>2. CASE Trade!Next
  BY <1>2, UnsentStep, SentStep, VenueStep, LaterStep, ReadStep DEF Trade!Next
<1> QED
  BY <1>1, <1>2

(* Whatever was answered, the venue has executed of an order what the      *)
(* books moved its position by, unless its result is in doubt, and in      *)
(* paper mode nothing is sent to a venue (the adapters' execute,           *)
(* persist_trade, AdapterRegistry).                                        *)
THEOREM OrdersAreAccounted == Spec => []OrdersAccounted
<1>1. ASSUME TradeInv PROVE Trade!BooksFollowVenue
  <2> SUFFICES ASSUME live, Trade!Idle, NEW o \in Orders, ~Trade!Doubtful(o)
               PROVE  booked[o] = Trade!Signed(o, executed[o])
    BY DEF Trade!BooksFollowVenue
  <2>1. /\ pc[o] \in {"new", "done"} /\ report[o].status \in {"none", "filled", "rejected", "error"}
        /\ report[o].qty \in Nat /\ report[o].priced \in BOOLEAN
    BY <1>1 DEF Trade!Idle, TradeInv, TradeTyped
  <2>2. CASE pc[o] = "new"
    BY <1>1, <2>2 DEF TradeInv, OrderInv, AnswerTrue, Trade!Signed
  <2>3. CASE pc[o] = "done"
    <3>1. ReportTrue(o)
      BY <1>1, <2>3 DEF TradeInv, OrderInv
    <3>2. CASE report[o].status = "filled"
      <4>1. report[o].priced = TRUE /\ ~(report[o].qty < Units)
        BY <2>1, <2>3, <3>2 DEF Trade!Doubtful
      <4>2. report[o].qty = Units /\ executed[o] = Units
        BY <2>1, <3>1, <3>2, <4>1, MarketsAssumption DEF ReportTrue
      <4> QED
        BY <3>1, <3>2, <4>1, <4>2, MarketsAssumption DEF ReportTrue, Trade!IsFill, Trade!Signed
    <3>3. CASE report[o].status = "rejected"
      <4>1. order[o].venue # "mt5"
        BY <2>3, <3>3 DEF Trade!Doubtful
      <4> QED
        BY <3>1, <3>3, <4>1 DEF ReportTrue, Trade!IsFill, Trade!Signed
    <3> QED
      BY <2>1, <2>3, <3>1, <3>2, <3>3 DEF Trade!Doubtful, ReportTrue
  <2> QED
    BY <2>1, <2>2, <2>3
<1>2. ASSUME TradeInv PROVE Trade!PaperStaysPaper
  <2> SUFFICES ASSUME NEW o \in Orders
               PROVE  /\ ~live => executed[o] = 0 /\ answer[o] = Trade!NoAnswer
                      /\ live /\ booked[o] # 0 => executed[o] # 0 /\ order[o].venue \in configured
    BY DEF Trade!PaperStaysPaper
  <2>1. OrderInv(o) /\ report[o].qty \in Nat /\ report[o].priced \in BOOLEAN /\ executed[o] \in Nat
    BY <1>2 DEF TradeInv, TradeTyped
  <2>2. ASSUME live, booked[o] # 0 PROVE executed[o] # 0 /\ order[o].venue \in configured
    <3>1. pc[o] = "done" /\ ReportTrue(o)
      BY <1>2, <2>1, <2>2 DEF OrderInv, TradeInv, TradeTyped
    <3>2. report[o].status = "filled" /\ report[o].qty > 0 /\ report[o].priced = TRUE
      BY <2>1, <2>2, <3>1 DEF ReportTrue, Trade!IsFill
    <3> QED
      BY <2>1, <2>2, <3>1, <3>2 DEF ReportTrue
  <2> QED
    BY <2>1, <2>2 DEF OrderInv, AnswerTrue
<1>3. TradeInv => OrdersAccounted
  BY <1>1, <1>2 DEF OrdersAccounted, Trade!OrdersAccounted
<1> QED
  BY <1>3, PartsRun, TradeInit, TradeStep, PTL DEF Trade!Spec

-----------------------------------------------------------------------------
(* The records of outcomes.                                                *)

Steps == {"idle", "count", "restore", "degrade", "rotate", "push", "judge", "average", "add", "peak",
          "drawdown", "done"}

PastTyped ==
    /\ losses \in [Past!Strategy -> Nat] /\ degraded \subseteq Past!Strategy
    /\ edge \in [Past!Strategy -> Seq(BOOLEAN)]
    /\ cum \in [Past!Strategy -> Int] /\ peak \in [Past!Strategy -> Int]
    /\ drawdown \in [Past!Strategy -> [peak : Int, cum : Int]]
    /\ streak \in [Past!Strategy -> Nat]
    /\ job \in [step : Steps, name : Past!Strategy \cup {"nobody"}, ok : BOOLEAN, result : Int]
    /\ job.step = "idle" <=> job.name \notin Past!Strategy

LEMMA Candidate == /\ "nobody" \notin Past!Strategy
                   /\ DOMAIN <<"fa", "sa">> = {1, 2}
                   /\ \A i \in {1, 2} : <<"fa", "sa">>[i] \in Past!Strategy
BY DEF Past!Strategy, Past!ToSet

LEMMA TrimmedKeepsLast ==
    ASSUME NEW q \in Seq(BOOLEAN), NEW w \in BOOLEAN
    PROVE  LET r == Past!Trimmed(Append(q, w))
           IN  r \in Seq(BOOLEAN) /\ r # <<>> /\ Past!Last(r) = w
<1> DEFINE a == Append(q, w)
<1>1. a \in Seq(BOOLEAN) /\ Len(a) = Len(q) + 1 /\ a[Len(a)] = w /\ Len(a) \in Nat
  OBVIOUS
<1> HIDE DEF a
<1>2. CASE Len(a) > Window
  <2> DEFINE r == SubSeq(a, Len(a) - Window + 1, Len(a))
  <2>1. r \in Seq(BOOLEAN) /\ Len(r) = Window /\ r[Window] = a[Len(a)]
    BY <1>1, <1>2, MarketsAssumption, SubSeqProperties
  <2> HIDE DEF r
  <2>2. r # <<>> /\ Past!Last(r) = w
    BY <1>1, <2>1, MarketsAssumption, EmptySeq DEF Past!Last
  <2> QED
    BY <1>2, <2>1, <2>2 DEF Past!Trimmed, a, r
<1>3. CASE ~(Len(a) > Window)
  <2>1. a # <<>> /\ Past!Last(a) = w
    BY <1>1, EmptySeq DEF Past!Last
  <2> QED
    BY <1>1, <1>3, <2>1 DEF Past!Trimmed, a
<1> QED
  BY <1>2, <1>3

\* The recording goes on to its next step.
Goes(to) == job.step # "idle" /\ job' = [job EXCEPT !.step = to]

LEMMA JobGoes ==
    ASSUME PastTyped, NEW to \in Steps \ {"idle"}, Goes(to)
    PROVE  /\ job'.step = to /\ job'.name = job.name /\ job'.ok = job.ok /\ job'.result = job.result
           /\ job' \in [step : Steps, name : Past!Strategy \cup {"nobody"}, ok : BOOLEAN, result : Int]
           /\ job.name \in Past!Strategy /\ (job'.step = "idle" <=> job'.name \notin Past!Strategy)
           /\ (Past!Won' <=> Past!Won) /\ (Past!Lost' <=> Past!Lost)
<1>1. /\ job'.step = to /\ job'.name = job.name /\ job'.ok = job.ok /\ job'.result = job.result
      /\ job' \in [step : Steps, name : Past!Strategy \cup {"nobody"}, ok : BOOLEAN, result : Int]
  BY DEF PastTyped, Goes
<1>2. job.name \in Past!Strategy /\ (job'.step = "idle" <=> job'.name \notin Past!Strategy)
  BY <1>1 DEF PastTyped, Goes
<1> QED
  BY <1>1, <1>2 DEF Past!Won, Past!Lost

\* Between the counting and the books a recording has a result that is not 0.
Booking == {"push", "judge", "average", "add", "peak", "drawdown"}

LEMMA RecordingTyped ==
    ASSUME PastTyped, Past!Record \/ Past!Raises \/ \E s \in Past!Strategy, ok \in BOOLEAN, r \in {2, 0, -1} : Past!Begin(s, ok, r)
    PROVE  PastTyped'
<1>1. CASE Past!CountWin
  <2>1. Goes("restore") /\ losses' = [losses EXCEPT ![job.name] = 0]
        /\ UNCHANGED <<degraded, edge, cum, peak, drawdown, streak>>
    BY <1>1 DEF Past!CountWin, Past!At, Goes, Past!books, Past!curve, Past!me
  <2> QED
    BY <2>1, JobGoes DEF PastTyped, Steps
<1>2. CASE Past!Restore
  <2>1. Goes(Past!AfterRotation) /\ degraded' = degraded \ {job.name}
        /\ UNCHANGED <<losses, edge, cum, peak, drawdown, streak>>
    BY <1>2 DEF Past!Restore, Past!At, Goes, Past!books, Past!curve, Past!me
  <2>2. Past!AfterRotation \in Steps \ {"idle"}
    BY DEF Past!AfterRotation, Steps
  <2> QED
    BY <2>1, <2>2, JobGoes DEF PastTyped
<1>3. CASE Past!CountLoss
  <2>1. /\ Goes(IF losses[job.name] + 1 >= Threshold THEN "degrade" ELSE Past!AfterRotation)
        /\ losses' = [losses EXCEPT ![job.name] = @ + 1]
        /\ UNCHANGED <<degraded, edge, cum, peak, drawdown, streak>>
    BY <1>3 DEF Past!CountLoss, Past!At, Goes, Past!books, Past!curve, Past!me
  <2>2. (IF losses[job.name] + 1 >= Threshold THEN "degrade" ELSE Past!AfterRotation) \in Steps \ {"idle"}
    BY DEF Past!AfterRotation, Steps
  <2>3. losses' \in [Past!Strategy -> Nat]
    <3>1. losses \in [Past!Strategy -> Nat]
      BY DEF PastTyped
    <3>2. losses' = [losses EXCEPT ![job.name] = @ + 1]
      BY <2>1
    <3>3. job.name \in Past!Strategy
      BY <2>1 DEF PastTyped, Goes
    <3> QED
      BY <3>1, <3>2, <3>3
  <2> QED
    BY <2>1, <2>2, <2>3, JobGoes DEF PastTyped
<1>4. CASE Past!CountNeither
  <2>1. Goes("done") /\ UNCHANGED <<losses, degraded, edge, cum, peak, drawdown, streak>>
    BY <1>4 DEF Past!CountNeither, Past!At, Goes, Past!books, Past!curve, Past!flags
  <2> QED
    BY <2>1, JobGoes DEF PastTyped, Steps
<1>5. CASE Past!Degrade
  <2>1. Goes("rotate") /\ degraded' = degraded \cup {job.name}
        /\ UNCHANGED <<losses, edge, cum, peak, drawdown, streak>>
    BY <1>5 DEF Past!Degrade, Past!At, Goes, Past!books, Past!curve, Past!me
  <2> QED
    BY <2>1, JobGoes DEF PastTyped, Steps
<1>6. CASE Past!Rotate
  <2>1. Goes(Past!AfterRotation) /\ UNCHANGED <<losses, degraded, edge, cum, peak, drawdown, streak>>
    BY <1>6 DEF Past!Rotate, Past!At, Goes, Past!books, Past!curve
  <2>2. Past!AfterRotation \in Steps \ {"idle"}
    BY DEF Past!AfterRotation, Steps
  <2> QED
    BY <2>1, <2>2, JobGoes DEF PastTyped
<1>7. CASE Past!Push
  <2>1. /\ Goes("judge") /\ edge' = [edge EXCEPT ![job.name] = Past!Trimmed(Append(@, job.result > 0))]
        /\ UNCHANGED <<losses, degraded, cum, peak, drawdown, streak>>
    BY <1>7 DEF Past!Push, Past!At, Goes, Past!curve, Past!flags, Past!me
  <2>2. job.name \in Past!Strategy /\ edge[job.name] \in Seq(BOOLEAN)
    BY <2>1 DEF PastTyped, Goes
  <2>3. Past!Trimmed(Append(edge[job.name], job.result > 0)) \in Seq(BOOLEAN)
    BY <2>2, (job.result > 0) \in BOOLEAN, TrimmedKeepsLast
  <2>4. edge' \in [Past!Strategy -> Seq(BOOLEAN)]
    BY <2>1, <2>3 DEF PastTyped
  <2> QED
    BY <2>1, <2>4, JobGoes DEF PastTyped, Steps
<1>8. CASE Past!Judge \/ Past!Average
  <2>1. /\ Goes("average") \/ Goes("add")
        /\ UNCHANGED <<losses, degraded, edge, cum, peak, drawdown, streak>>
    BY <1>8 DEF Past!Judge, Past!Average, Past!At, Goes, Past!curve, Past!flags
  <2> QED
    BY <2>1, JobGoes DEF PastTyped, Steps
<1>9. CASE Past!AddResult
  <2>1. Goes("peak") /\ cum' = [cum EXCEPT ![job.name] = @ + job.result]
        /\ UNCHANGED <<losses, degraded, edge, peak, drawdown, streak>>
    BY <1>9 DEF Past!AddResult, Past!At, Goes, Past!books, Past!flags, Past!me
  <2>2. cum' \in [Past!Strategy -> Int]
    <3>1. cum \in [Past!Strategy -> Int] /\ job.result \in Int
      BY DEF PastTyped
    <3>2. cum' = [cum EXCEPT ![job.name] = @ + job.result]
      BY <2>1
    <3>3. job.name \in Past!Strategy
      BY <2>1 DEF PastTyped, Goes
    <3> QED
      BY <3>1, <3>2, <3>3
  <2> QED
    BY <2>1, <2>2, JobGoes DEF PastTyped, Steps
<1>10. CASE Past!RaisePeak
  <2>1. /\ Goes("drawdown")
        /\ peak' = [peak EXCEPT ![job.name] = IF cum[job.name] > @ THEN cum[job.name] ELSE @]
        /\ UNCHANGED <<losses, degraded, edge, cum, drawdown, streak>>
    BY <1>10 DEF Past!RaisePeak, Past!At, Goes, Past!books, Past!flags, Past!me
  <2>2. peak' \in [Past!Strategy -> Int]
    BY <2>1 DEF PastTyped, Goes
  <2> QED
    BY <2>1, <2>2, JobGoes DEF PastTyped, Steps
<1>11. CASE Past!SetDrawdown
  <2>1. /\ Goes("done")
        /\ drawdown' = [drawdown EXCEPT ![job.name] = [peak |-> peak[job.name], cum |-> cum[job.name]]]
        /\ UNCHANGED <<losses, degraded, edge, cum, peak, streak>>
    BY <1>11 DEF Past!SetDrawdown, Past!At, Goes, Past!books, Past!flags, Past!me
  <2>2. drawdown' \in [Past!Strategy -> [peak : Int, cum : Int]]
    BY <2>1 DEF PastTyped, Goes
  <2> QED
    BY <2>1, <2>2, JobGoes DEF PastTyped, Steps
<1>12. CASE Past!Done \/ Past!Raises
  <2>1. job' = [step |-> "idle", name |-> "nobody", ok |-> TRUE, result |-> 0]
        /\ UNCHANGED <<losses, degraded, edge, cum, peak, drawdown, streak>>
    BY <1>12 DEF Past!Done, Past!Raises, Past!Idle, Past!Nobody, Past!books, Past!flags, Past!curve
  <2>2. /\ job' \in [step : Steps, name : Past!Strategy \cup {"nobody"}, ok : BOOLEAN, result : Int]
        /\ job'.step = "idle" /\ job'.name \notin Past!Strategy
    BY <2>1, Candidate DEF Steps
  <2> QED
    BY <2>1, <2>2 DEF PastTyped
<1>13. ASSUME NEW s \in Past!Strategy, NEW ok \in BOOLEAN, NEW r \in {2, 0, -1}, Past!Begin(s, ok, r)
       PROVE  PastTyped'
  <2>1. /\ job' = [step |-> "count", name |-> s, ok |-> ok, result |-> r]
        /\ streak' = [streak EXCEPT ![s] = IF ok /\ r > 0 THEN 0 ELSE IF ~ok \/ r < 0 THEN @ + 1 ELSE @]
        /\ UNCHANGED <<losses, degraded, edge, cum, peak, drawdown>>
    BY <1>13 DEF Past!Begin, Past!books, Past!flags, Past!curve
  <2>2. /\ job' \in [step : Steps, name : Past!Strategy \cup {"nobody"}, ok : BOOLEAN, result : Int]
        /\ job'.step = "count" /\ job'.name = s
    BY <2>1 DEF Steps
  <2>3. streak' \in [Past!Strategy -> Nat]
    BY <2>1 DEF PastTyped
  <2> QED
    BY <2>1, <2>2, <2>3 DEF PastTyped
<1> QED
  BY <1>1, <1>2, <1>3, <1>4, <1>5, <1>6, <1>7, <1>8, <1>9, <1>10, <1>11, <1>12, <1>13 DEF Past!Record

\* An expiry, or the operator.
Outside ==
    \/ \E s \in Past!Strategy : \/ Past!ExpireFlag(s) \/ Past!ExpireLosses(s) \/ Past!ExpireAlarm(s)
                                \/ Past!ExpireAverage(s) \/ Past!ExpireCurve(s) \/ Past!ToggleStrategy(s)
    \/ Past!ExpireHint

LEMMA OutsideTyped == ASSUME PastTyped, Outside PROVE PastTyped'
<1> USE DEF Past!Expiring, Past!books, Past!flags, Past!curve, Past!bounds
<1>1. ASSUME NEW s \in Past!Strategy, Past!ExpireFlag(s) PROVE PastTyped'
  BY <1>1 DEF Past!ExpireFlag, PastTyped
<1>2. ASSUME NEW s \in Past!Strategy, Past!ExpireLosses(s) PROVE PastTyped'
  <2>1. losses' = [losses EXCEPT ![s] = 0]
        /\ UNCHANGED <<degraded, edge, cum, peak, drawdown, streak, job>>
    BY <1>2 DEF Past!ExpireLosses
  <2> QED
    BY <2>1 DEF PastTyped
<1>3. ASSUME NEW s \in Past!Strategy, Past!ExpireAlarm(s) \/ Past!ExpireAverage(s) \/ Past!ToggleStrategy(s)
      PROVE  PastTyped'
  <2>1. UNCHANGED <<losses, degraded, edge, cum, peak, drawdown, streak, job>>
    BY <1>3 DEF Past!ExpireAlarm, Past!ExpireAverage, Past!ToggleStrategy
  <2> QED
    BY <2>1 DEF PastTyped
<1>4. ASSUME NEW s \in Past!Strategy, Past!ExpireCurve(s) PROVE PastTyped'
  <2>1. cum' = [cum EXCEPT ![s] = 0] /\ UNCHANGED <<losses, degraded, edge, peak, drawdown, streak, job>>
    BY <1>4 DEF Past!ExpireCurve
  <2>2. cum' \in [Past!Strategy -> Int]
    <3>1. cum \in [Past!Strategy -> Int] /\ 0 \in Int
      BY DEF PastTyped
    <3>2. cum' = [cum EXCEPT ![s] = 0]
      BY <2>1
    <3> QED
      BY <3>1, <3>2
  <2> QED
    BY <2>1, <2>2 DEF PastTyped
<1>5. ASSUME Past!ExpireHint PROVE PastTyped'
  BY <1>5 DEF Past!ExpireHint, PastTyped
<1> QED
  BY <1>1, <1>2, <1>3, <1>4, <1>5 DEF Outside

-----------------------------------------------------------------------------
\* The counter never says more than there were losses, which counts the one in
\* hand already; it lags behind a win until it is deleted.
Counted ==
    \A s \in Past!Strategy :
        \/ s \in missed
        \/ s = job.name /\ Past!Won /\ job.step = "count"
        \/ losses[s] + (IF s = job.name /\ Past!Lost /\ job.step = "count" THEN 1 ELSE 0) <= streak[s]

\* Where a recording is says what it has to do with the counter and the flag.
Underway ==
    /\ job.step = "restore" => Past!Won /\ losses[job.name] = 0
    /\ job.step = "degrade" => Past!Lost /\ losses[job.name] >= Threshold
    /\ job.step = "rotate" => Past!Lost
    /\ Past!Won /\ job.step \notin {"idle", "count", "restore"} => job.name \notin degraded
    /\ job.step \in Booking => job.result # 0

\* A flag stands on a counter that has reached the threshold.
Flagged ==
    \A s \in degraded :
        s \in missed \/ losses[s] >= Threshold \/ (s = job.name /\ job.step = "restore")

\* The hint leaves a strategy with the loss that degrades it.
Hinted ==
    /\ \A s \in degraded \ (torn \cup stranded \cup missed) :
          preferred # s \/ (s = job.name /\ job.step = "rotate")
    /\ (\/ job.step \in Booking
        \/ job.step = "done" /\ job.result # 0)
          /\ job.name \in degraded \ (stranded \cup missed) => preferred # job.name

RotationInv == PastTyped /\ Counted /\ Underway /\ Flagged /\ Hinted

\* What the strategies have, whoever is at work.
rotation == <<losses, degraded, preferred, streak, torn, missed, stranded>>

LEMMA CountWinRotates == ASSUME RotationInv, Past!CountWin PROVE RotationInv'
<1>1. /\ job.step = "count" /\ Past!Won /\ Goes("restore") /\ losses' = [losses EXCEPT ![job.name] = 0]
      /\ UNCHANGED <<degraded, preferred, streak, torn, missed, stranded>>
  BY DEF Past!CountWin, Past!At, Goes, Past!me
<1>2. PastTyped'
  BY RecordingTyped DEF RotationInv, Past!Record
<1>3. /\ job'.step = "restore" /\ job'.name = job.name /\ job.name \in Past!Strategy
      /\ job'.result = job.result /\ (Past!Won' <=> Past!Won) /\ (Past!Lost' <=> Past!Lost)
  BY <1>1, JobGoes DEF RotationInv, Steps
<1>4. losses'[job.name] = 0 /\ \A s \in Past!Strategy \ {job.name} : losses'[s] = losses[s]
  BY <1>1, <1>3 DEF RotationInv, PastTyped
<1>5. Counted'
  BY <1>1, <1>3, <1>4 DEF RotationInv, PastTyped, Counted
<1>6. Underway'
  BY <1>1, <1>3, <1>4 DEF Underway, Booking
<1>7. Flagged'
  BY <1>1, <1>3, <1>4 DEF RotationInv, PastTyped, Flagged
<1>8. Hinted'
  BY <1>1, <1>3 DEF RotationInv, Hinted, Booking
<1> QED
  BY <1>2, <1>5, <1>6, <1>7, <1>8 DEF RotationInv

LEMMA RestoreRotates == ASSUME RotationInv, Past!Restore PROVE RotationInv'
<1>1. /\ job.step = "restore" /\ Goes(Past!AfterRotation)
      /\ degraded' = degraded \ {job.name} /\ missed' = missed \ {job.name}
      /\ UNCHANGED <<losses, preferred, streak, torn, stranded>>
  BY DEF Past!Restore, Past!At, Goes, Past!me
<1>2. PastTyped'
  BY RecordingTyped DEF RotationInv, Past!Record
<1>3. Past!AfterRotation \in {"push", "done"} /\ (Past!AfterRotation = "push" => job.result # 0)
  BY DEF Past!AfterRotation
<1>4. /\ job'.step = Past!AfterRotation /\ job'.name = job.name /\ job.name \in Past!Strategy
      /\ job'.result = job.result /\ (Past!Won' <=> Past!Won) /\ (Past!Lost' <=> Past!Lost)
  BY <1>1, <1>3, JobGoes DEF RotationInv, Steps
<1>5. losses[job.name] = 0 /\ Past!Won
  BY <1>1 DEF RotationInv, Underway
<1>6. Counted'
  BY <1>1, <1>3, <1>4, <1>5 DEF RotationInv, PastTyped, Counted
<1>7. Underway'
  BY <1>1, <1>3, <1>4, <1>5 DEF Underway, Booking
<1>8. Flagged'
  BY <1>1, <1>3, <1>4 DEF RotationInv, PastTyped, Flagged
<1>9. Hinted'
  BY <1>1, <1>3, <1>4 DEF RotationInv, Hinted, Booking
<1> QED
  BY <1>2, <1>6, <1>7, <1>8, <1>9 DEF RotationInv

LEMMA CountLossRotates == ASSUME RotationInv, Past!CountLoss PROVE RotationInv'
<1> DEFINE next == IF losses[job.name] + 1 >= Threshold THEN "degrade" ELSE Past!AfterRotation
<1>1. /\ job.step = "count" /\ Past!Lost /\ Goes(next) /\ losses' = [losses EXCEPT ![job.name] = @ + 1]
      /\ UNCHANGED <<degraded, preferred, streak, torn, missed, stranded>>
  BY DEF Past!CountLoss, Past!At, Goes, Past!me
<1>2. PastTyped'
  BY RecordingTyped DEF RotationInv, Past!Record
<1>3. /\ next \in {"degrade", "push", "done"} /\ (next = "push" => job.result # 0)
      /\ (next = "degrade" <=> losses[job.name] + 1 >= Threshold)
  BY DEF Past!AfterRotation
<1> HIDE DEF next
<1>4. /\ job'.step = next /\ job'.name = job.name /\ job.name \in Past!Strategy
      /\ job'.result = job.result /\ (Past!Won' <=> Past!Won) /\ (Past!Lost' <=> Past!Lost)
  BY <1>1, <1>3, JobGoes DEF RotationInv, Steps
<1>5. /\ losses'[job.name] = losses[job.name] + 1 /\ losses[job.name] \in Nat
      /\ \A s \in Past!Strategy \ {job.name} : losses'[s] = losses[s] /\ losses[s] \in Nat
      /\ \A s \in Past!Strategy : streak[s] \in Nat
  BY <1>1, <1>4 DEF RotationInv, PastTyped
<1>6. ~Past!Won
  BY <1>1 DEF Past!Won, Past!Lost, RotationInv, PastTyped
<1>7. Counted'
  BY <1>1, <1>3, <1>4, <1>5, <1>6 DEF RotationInv, Counted
<1>8. Underway'
  BY <1>1, <1>3, <1>4, <1>5, <1>6 DEF Underway, Booking
<1>9. Flagged'
  <2> SUFFICES ASSUME NEW s \in degraded, s \notin missed PROVE losses'[s] >= Threshold
    BY <1>1 DEF Flagged
  <2>1. losses[s] >= Threshold /\ s \in Past!Strategy
    BY <1>1 DEF RotationInv, Flagged, PastTyped
  <2> QED
    BY <1>5, <2>1, MarketsAssumption
<1>10. Hinted'
  <2>1. next \in {"push", "done"} => job.name \notin degraded \/ job.name \in missed
    BY <1>1, <1>3, <1>5, MarketsAssumption DEF RotationInv, Flagged
  <2> QED
    BY <1>1, <1>3, <1>4, <2>1 DEF RotationInv, Hinted, Booking
<1> QED
  BY <1>2, <1>7, <1>8, <1>9, <1>10 DEF RotationInv

LEMMA CountNeitherRotates == ASSUME RotationInv, Past!CountNeither PROVE RotationInv'
<1>1. /\ job.step = "count" /\ ~Past!Won /\ ~Past!Lost /\ Goes("done") /\ UNCHANGED rotation
  BY DEF Past!CountNeither, Past!At, Goes, Past!flags, rotation
<1>2. PastTyped'
  BY RecordingTyped DEF RotationInv, Past!Record
<1>3. /\ job'.step = "done" /\ job'.name = job.name /\ job.name \in Past!Strategy
      /\ job'.result = job.result /\ (Past!Won' <=> Past!Won) /\ (Past!Lost' <=> Past!Lost)
  BY <1>1, JobGoes DEF RotationInv, Steps
<1>4. job.result = 0
  BY <1>1 DEF Past!Won, Past!Lost, RotationInv, PastTyped
<1>5. Counted'
  BY <1>1, <1>3 DEF RotationInv, PastTyped, Counted, rotation
<1>6. Underway' /\ Flagged'
  BY <1>1, <1>3 DEF RotationInv, Underway, Flagged, Booking, rotation
<1>7. Hinted'
  BY <1>1, <1>3, <1>4 DEF RotationInv, Hinted, Booking, rotation
<1> QED
  BY <1>2, <1>5, <1>6, <1>7 DEF RotationInv

LEMMA DegradeRotates == ASSUME RotationInv, Past!Degrade PROVE RotationInv'
<1>1. /\ job.step = "degrade" /\ Goes("rotate") /\ degraded' = degraded \cup {job.name}
      /\ UNCHANGED <<losses, preferred, streak, torn, missed, stranded>>
  BY DEF Past!Degrade, Past!At, Goes, Past!me
<1>2. PastTyped'
  BY RecordingTyped DEF RotationInv, Past!Record
<1>3. /\ job'.step = "rotate" /\ job'.name = job.name /\ job.name \in Past!Strategy
      /\ job'.result = job.result /\ (Past!Won' <=> Past!Won) /\ (Past!Lost' <=> Past!Lost)
  BY <1>1, JobGoes DEF RotationInv, Steps
<1>4. Past!Lost /\ ~Past!Won /\ losses[job.name] >= Threshold
  BY <1>1 DEF Past!Won, Past!Lost, RotationInv, PastTyped, Underway
<1>5. Counted'
  BY <1>1, <1>3 DEF RotationInv, PastTyped, Counted
<1>6. Underway' /\ Flagged'
  BY <1>1, <1>3, <1>4 DEF RotationInv, Underway, Flagged, Booking
<1>7. Hinted'
  BY <1>1, <1>3 DEF RotationInv, Hinted, Booking
<1> QED
  BY <1>2, <1>5, <1>6, <1>7 DEF RotationInv

LEMMA RotateRotates == ASSUME RotationInv, Past!Rotate PROVE RotationInv'
<1> DEFINE eligible == { i \in DOMAIN <<"fa", "sa">> : <<"fa", "sa">>[i] \in Past!Eligible }
<1>1. /\ job.step = "rotate" /\ Goes(Past!AfterRotation)
      /\ \/ eligible = {} /\ stranded' = stranded \cup {job.name} /\ preferred' = preferred
         \/ eligible # {} /\ preferred' = <<"fa", "sa">>[Past!Min(eligible)] /\ stranded' = stranded \ {job.name}
      /\ UNCHANGED <<losses, degraded, streak, torn, missed>>
  BY DEF Past!Rotate, Past!At, Goes, Past!me
<1>2. PastTyped'
  BY RecordingTyped DEF RotationInv, Past!Record
<1>3. Past!AfterRotation \in {"push", "done"} /\ (Past!AfterRotation = "push" => job.result # 0)
  BY DEF Past!AfterRotation
<1>4. /\ job'.step = Past!AfterRotation /\ job'.name = job.name /\ job.name \in Past!Strategy
      /\ job'.result = job.result /\ (Past!Won' <=> Past!Won) /\ (Past!Lost' <=> Past!Lost)
  BY <1>1, <1>3, JobGoes DEF RotationInv, Steps
<1>5. Past!Lost /\ ~Past!Won
  BY <1>1 DEF Past!Won, Past!Lost, RotationInv, PastTyped, Underway
<1>6. ASSUME eligible # {} PROVE <<"fa", "sa">>[Past!Min(eligible)] \in Past!Eligible
  <2>1. eligible \subseteq {1, 2}
    BY Candidate
  <2>2. \E x \in eligible : \A y \in eligible : x <= y
    <3>1. CASE 1 \in eligible
      BY <2>1, <3>1
    <3>2. CASE eligible = {2}
      BY <3>2
    <3> QED
      BY <1>6, <2>1, <3>1, <3>2
  <2>3. Past!Min(eligible) \in eligible
    BY <2>2 DEF Past!Min
  <2> QED
    BY <2>3
<1> HIDE DEF eligible
<1>7. job.name \in stranded' \/ (preferred' # job.name /\ preferred' \notin degraded)
  BY <1>1, <1>6 DEF Past!Eligible, Past!me
<1>8. preferred' = preferred \/ preferred' \notin degraded
  BY <1>1, <1>6 DEF Past!Eligible
<1>9. \A s \in Past!Strategy \ {job.name} : s \in stranded' <=> s \in stranded
  BY <1>1
<1>10. Counted'
  BY <1>1, <1>3, <1>4 DEF RotationInv, PastTyped, Counted
<1>11. Underway' /\ Flagged'
  BY <1>1, <1>3, <1>4, <1>5 DEF RotationInv, Underway, Flagged, Booking
<1>12. Hinted'
  BY <1>1, <1>3, <1>4, <1>7, <1>8, <1>9 DEF RotationInv, PastTyped, Hinted, Booking
<1> QED
  BY <1>2, <1>10, <1>11, <1>12 DEF RotationInv

LEMMA BookingRotates ==
    ASSUME RotationInv, Past!Push \/ Past!Judge \/ Past!Average \/ Past!AddResult \/ Past!RaisePeak \/ Past!SetDrawdown
    PROVE  RotationInv'
<1>1. UNCHANGED rotation
  BY DEF Past!Push, Past!Judge, Past!Average, Past!AddResult, Past!RaisePeak, Past!SetDrawdown, Past!flags, rotation
<1>2. PICK to \in (Booking \ {"push"}) \cup {"done"} : job.step \in Booking /\ Goes(to)
  BY DEF Past!Push, Past!Judge, Past!Average, Past!AddResult, Past!RaisePeak, Past!SetDrawdown, Past!At, Goes,
         Booking
<1>3. PastTyped'
  BY RecordingTyped DEF RotationInv, Past!Record
<1>4. to \in Steps \ {"idle"} /\ to \notin {"count", "restore", "degrade", "rotate"}
      /\ job.step \notin {"count", "restore", "degrade", "rotate", "idle"}
  BY <1>2 DEF Booking, Steps
<1>5. /\ job'.step = to /\ job'.name = job.name /\ job.name \in Past!Strategy
      /\ job'.result = job.result /\ (Past!Won' <=> Past!Won) /\ (Past!Lost' <=> Past!Lost)
  BY <1>2, <1>4, JobGoes DEF RotationInv
<1>6. Counted'
  BY <1>1, <1>2, <1>4, <1>5 DEF RotationInv, PastTyped, Counted, rotation
<1>7. Underway' /\ Flagged' /\ Hinted'
  BY <1>1, <1>2, <1>4, <1>5 DEF RotationInv, Underway, Flagged, Hinted, rotation
<1> QED
  BY <1>3, <1>6, <1>7 DEF RotationInv

LEMMA EndRotates == ASSUME RotationInv, Past!Done \/ Past!Raises PROVE RotationInv'
<1>1. /\ job'.step = "idle" /\ job'.name = "nobody" /\ "nobody" \notin Past!Strategy
      /\ UNCHANGED <<losses, degraded, preferred, streak, stranded>>
  BY Candidate DEF Past!Done, Past!Raises, Past!Idle, Past!Nobody, Past!flags
<1>2. PastTyped'
  BY RecordingTyped DEF RotationInv, Past!Record
<1>3. CASE Past!Done
  <2>1. /\ job.step = "done" /\ missed' = missed
        /\ torn' = IF job.result = 0 THEN torn ELSE torn \ {job.name}
    BY <1>3 DEF Past!Done, Past!me
  <2>2. Counted'
    BY <1>1, <2>1 DEF RotationInv, PastTyped, Counted
  <2>3. Underway' /\ Flagged'
    BY <1>1, <2>1 DEF RotationInv, PastTyped, Underway, Flagged, Booking
  <2>4. Hinted'
    BY <1>1, <2>1 DEF RotationInv, PastTyped, Hinted, Booking
  <2> QED
    BY <1>2, <2>2, <2>3, <2>4 DEF RotationInv
<1>4. CASE Past!Raises
  <2>1. /\ torn' = torn \cup {job.name}
        /\ missed' = IF job.step = "restore" \/ (job.step = "count" /\ Past!Won)
                     THEN missed \cup {job.name} ELSE missed
    BY <1>4 DEF Past!Raises, Past!me
  <2>2. Counted'
    BY <1>1, <2>1 DEF RotationInv, PastTyped, Counted
  <2>3. Underway' /\ Flagged'
    BY <1>1, <2>1 DEF RotationInv, PastTyped, Underway, Flagged, Booking
  <2>4. Hinted'
    BY <1>1, <2>1 DEF RotationInv, PastTyped, Hinted, Booking
  <2> QED
    BY <1>2, <2>2, <2>3, <2>4 DEF RotationInv
<1> QED
  BY <1>3, <1>4

LEMMA BeginRotates ==
    ASSUME RotationInv, NEW s \in Past!Strategy, NEW ok \in BOOLEAN, NEW r \in {2, 0, -1}, Past!Begin(s, ok, r)
    PROVE  RotationInv'
<1>1. /\ job.step = "idle" /\ job'.step = "count" /\ job'.name = s /\ job'.ok = ok /\ job'.result = r
      /\ streak' = [streak EXCEPT ![s] = IF ok /\ r > 0 THEN 0 ELSE IF ~ok \/ r < 0 THEN @ + 1 ELSE @]
      /\ UNCHANGED <<losses, degraded, preferred, torn, missed, stranded>>
  BY DEF Past!Begin, Past!flags
<1>2. PastTyped'
  BY RecordingTyped DEF RotationInv
<1>3. /\ \A q \in Past!Strategy : losses[q] \in Nat /\ streak[q] \in Nat
      /\ \A q \in Past!Strategy \ {s} : streak'[q] = streak[q]
      /\ streak'[s] = IF ok /\ r > 0 THEN 0 ELSE IF ~ok \/ r < 0 THEN streak[s] + 1 ELSE streak[s]
  BY <1>1 DEF RotationInv, PastTyped
<1>4. /\ (Past!Won' <=> ok /\ r > 0) /\ (Past!Lost' <=> ~ok \/ r < 0)
      /\ job.name \notin Past!Strategy
  BY <1>1 DEF Past!Won, Past!Lost, RotationInv, PastTyped
<1>5. \A q \in Past!Strategy : q \in missed \/ losses[q] <= streak[q]
  BY <1>1, <1>3, <1>4 DEF RotationInv, Counted
<1>6. Counted'
  BY <1>1, <1>3, <1>4, <1>5 DEF Counted
<1>7. Underway' /\ Flagged'
  BY <1>1 DEF RotationInv, Underway, Flagged, Booking
<1>8. Hinted'
  BY <1>1, <1>4 DEF RotationInv, PastTyped, Hinted, Booking
<1> QED
  BY <1>2, <1>6, <1>7, <1>8 DEF RotationInv

LEMMA OutsideRotates == ASSUME RotationInv, Outside PROVE RotationInv'
<1> USE DEF Past!Expiring, Past!books, Past!flags, Past!curve, Past!bounds
<1>1. PastTyped'
  BY OutsideTyped DEF RotationInv
<1>2. UNCHANGED <<job, streak, missed, stranded>> /\ torn \subseteq torn'
  BY DEF Outside, Past!ExpireFlag, Past!ExpireLosses, Past!ExpireAlarm, Past!ExpireAverage, Past!ExpireCurve,
         Past!ToggleStrategy, Past!ExpireHint
<1>3. \/ losses' = losses
      \/ \E s \in Past!Strategy \ (degraded \cup {job.name}) : losses' = [losses EXCEPT ![s] = 0]
  BY DEF Outside, Past!ExpireFlag, Past!ExpireLosses, Past!ExpireAlarm, Past!ExpireAverage, Past!ExpireCurve,
         Past!ToggleStrategy, Past!ExpireHint, Past!me
<1>4. degraded' \subseteq degraded
  BY DEF Outside, Past!ExpireFlag, Past!ExpireLosses, Past!ExpireAlarm, Past!ExpireAverage, Past!ExpireCurve,
         Past!ToggleStrategy, Past!ExpireHint
<1>5. preferred' = preferred \/ preferred' = "nobody"
  BY DEF Outside, Past!ExpireFlag, Past!ExpireLosses, Past!ExpireAlarm, Past!ExpireAverage, Past!ExpireCurve,
         Past!ToggleStrategy, Past!ExpireHint, Past!Nobody
<1>6. /\ \A s \in Past!Strategy : losses'[s] = losses[s] \/ (losses'[s] = 0 /\ s \notin degraded \cup {job.name})
      /\ \A s \in Past!Strategy : losses[s] \in Nat /\ streak[s] \in Nat
  BY <1>3 DEF RotationInv, PastTyped
<1>7. (Past!Won' <=> Past!Won) /\ (Past!Lost' <=> Past!Lost)
  BY <1>2 DEF Past!Won, Past!Lost
<1>8. Counted'
  BY <1>2, <1>6, <1>7 DEF RotationInv, Counted
<1>9. Underway'
  BY <1>2, <1>4, <1>6, <1>7 DEF RotationInv, PastTyped, Underway, Booking
<1>10. Flagged'
  BY <1>2, <1>4, <1>6 DEF RotationInv, PastTyped, Flagged
<1>11. Hinted'
  BY <1>2, <1>4, <1>5, Candidate DEF RotationInv, PastTyped, Hinted, Booking
<1> QED
  BY <1>1, <1>8, <1>9, <1>10, <1>11 DEF RotationInv

-----------------------------------------------------------------------------
\* What the books of a strategy say of one another.
LastCounted(s) == s \in (IF Past!Last(edge[s]) = TRUE THEN hasWin ELSE hasLoss)
CurveAgrees(s) == peak[s] >= cum[s] /\ drawdown[s] = [peak |-> peak[s], cum |-> cum[s]]
Agree(s) ==
    /\ CurveAgrees(s)
    /\ edge[s] # <<>> => LastCounted(s)
    /\ s \in decayed => Past!Below(edge[s])

\* They agree but for the recording in hand, once it has begun with them, ...
OthersAgree ==
    \A s \in Past!Strategy \ torn :
        s # job.name \/ job.step \notin (Booking \ {"push"}) \cup {"done"} \/ (job.step = "done" /\ job.result = 0)
            => Agree(s)

\* ... which mends them one by one.
MendsStepByStep ==
    LET s == job.name
    IN  /\ job.step \in Booking \ {"push"} \/ (job.step = "done" /\ job.result # 0)
              => edge[s] # <<>> /\ Past!Last(edge[s]) = (job.result > 0)
        /\ job.step \in {"average", "add", "peak", "drawdown"} \/ (job.step = "done" /\ job.result # 0)
              => (s \in decayed => Past!Below(edge[s]))
        /\ job.step \in {"add", "peak", "drawdown"} \/ (job.step = "done" /\ job.result # 0) => LastCounted(s)
        /\ job.step = "drawdown" => peak[s] >= cum[s]
        /\ job.step = "done" /\ job.result # 0 => CurveAgrees(s)

BooksInv == RotationInv /\ OthersAgree /\ MendsStepByStep

LEMMA KeepsBooks ==
    ASSUME BooksInv, RotationInv', UNCHANGED <<Past!books, Past!curve, torn>>, Goes(job'.step), job'.step \in Steps \ {"idle"},
           job.step \in {"count", "restore", "degrade", "rotate"},
           job'.step \in {"restore", "degrade", "rotate", "push"} \/ (job'.step = "done" /\ job.result = 0)
    PROVE  BooksInv'
<1>1. /\ job'.name = job.name /\ job'.result = job.result
      /\ UNCHANGED <<edge, decayed, hasWin, hasLoss, cum, peak, drawdown, torn>>
  BY JobGoes DEF BooksInv, RotationInv, Past!books, Past!curve
<1>2. job.step \notin (Booking \ {"push"}) \cup {"done"}
  BY DEF Booking
<1>3. OthersAgree'
  BY <1>1, <1>2 DEF BooksInv, OthersAgree, Agree, CurveAgrees, LastCounted
<1>4. MendsStepByStep'
  BY <1>1 DEF MendsStepByStep, Booking
<1> QED
  BY <1>3, <1>4 DEF BooksInv

LEMMA RotationKeepsBooks ==
    ASSUME BooksInv, RotationInv',
           Past!CountWin \/ Past!Restore \/ Past!CountLoss \/ Past!CountNeither \/ Past!Degrade \/ Past!Rotate
    PROVE  BooksInv'
<1>1. UNCHANGED <<Past!books, Past!curve, torn>>
  BY DEF Past!CountWin, Past!Restore, Past!CountLoss, Past!CountNeither, Past!Degrade, Past!Rotate
<1>2. job.step \in {"count", "restore", "degrade", "rotate"}
  BY DEF Past!CountWin, Past!Restore, Past!CountLoss, Past!CountNeither, Past!Degrade, Past!Rotate, Past!At
<1>3. PICK to \in {"restore", "degrade", "rotate", "push", "done"} :
          Goes(to) /\ (to = "done" => job.result = 0)
  <2>1. Past!AfterRotation \in {"push", "done"} /\ (Past!AfterRotation = "done" => job.result = 0)
    BY DEF Past!AfterRotation
  <2>2. CASE Past!CountNeither
    <3>1. job.result = 0
      BY <2>2 DEF Past!CountNeither, Past!Won, Past!Lost, BooksInv, RotationInv, PastTyped
    <3> QED
      BY <2>2, <3>1 DEF Past!CountNeither, Past!At, Goes
  <2>3. CASE Past!CountWin \/ Past!Degrade
    BY <2>3 DEF Past!CountWin, Past!Degrade, Past!At, Goes
  <2>4. CASE Past!Restore \/ Past!Rotate
    BY <2>1, <2>4 DEF Past!Restore, Past!Rotate, Past!At, Goes
  <2>5. CASE Past!CountLoss
    BY <2>1, <2>5 DEF Past!CountLoss, Past!At, Goes
  <2> QED
    BY <2>2, <2>3, <2>4, <2>5
<1>4. job'.step = to /\ to \in Steps \ {"idle"}
  BY <1>3, JobGoes DEF BooksInv, RotationInv, Steps
<1> QED
  BY <1>1, <1>2, <1>3, <1>4, KeepsBooks

\* A step that writes the books of the strategy at work writes no others.
LEMMA OthersStillAgree ==
    ASSUME BooksInv, RotationInv', NEW to \in Steps \ {"idle", "count", "restore", "degrade", "rotate", "push"}, Goes(to),
           job.result # 0, job'.step = to, job'.name = job.name, job'.result = job.result, torn' = torn,
           \A s \in Past!Strategy \ {job.name} :
              /\ edge'[s] = edge[s] /\ cum'[s] = cum[s] /\ peak'[s] = peak[s] /\ drawdown'[s] = drawdown[s]
              /\ (s \in decayed' <=> s \in decayed) /\ (s \in hasWin' <=> s \in hasWin)
              /\ (s \in hasLoss' <=> s \in hasLoss)
    PROVE  OthersAgree'
<1>1. to \in (Booking \ {"push"}) \cup {"done"}
  BY DEF Steps, Booking
<1> SUFFICES ASSUME NEW s \in Past!Strategy \ torn', s # job.name PROVE Agree(s)'
  BY <1>1 DEF OthersAgree
<1>2. Agree(s)
  BY DEF BooksInv, OthersAgree
<1> QED
  BY <1>2 DEF Agree, CurveAgrees, LastCounted

\* What every step of the books has in common.
LEMMA BookStep ==
    ASSUME BooksInv, NEW to \in Steps \ {"idle", "count", "restore", "degrade", "rotate", "push"}, Goes(to),
           job.step \in Booking
    PROVE  /\ job'.step = to /\ job'.name = job.name /\ job'.result = job.result /\ job.result # 0
           /\ job.name \in Past!Strategy /\ job.result \in Int
<1>1. job.result # 0 /\ job.result \in Int
  BY DEF BooksInv, RotationInv, Underway, PastTyped
<1> QED
  BY <1>1, JobGoes DEF BooksInv, RotationInv

LEMMA PushBooks == ASSUME BooksInv, RotationInv', Past!Push PROVE BooksInv'
<1>1. /\ job.step = "push" /\ Goes("judge")
      /\ edge' = [edge EXCEPT ![job.name] = Past!Trimmed(Append(@, job.result > 0))]
      /\ UNCHANGED <<decayed, hasWin, hasLoss, cum, peak, drawdown, torn>>
  BY DEF Past!Push, Past!At, Goes, Past!me, Past!curve
<1>2. /\ job'.step = "judge" /\ job'.name = job.name /\ job'.result = job.result /\ job.result # 0
      /\ job.name \in Past!Strategy
  BY <1>1, BookStep DEF Booking, Steps
<1>3. edge[job.name] \in Seq(BOOLEAN)
  BY <1>2 DEF BooksInv, RotationInv, PastTyped
<1>4. LET r == Past!Trimmed(Append(edge[job.name], job.result > 0))
      IN  r # <<>> /\ Past!Last(r) = (job.result > 0)
  BY <1>3, (job.result > 0) \in BOOLEAN, TrimmedKeepsLast
<1>5. /\ edge'[job.name] # <<>> /\ Past!Last(edge'[job.name]) = (job.result > 0)
      /\ \A s \in Past!Strategy \ {job.name} : edge'[s] = edge[s]
  BY <1>1, <1>2, <1>4 DEF BooksInv, RotationInv, PastTyped
<1>6. OthersAgree'
  BY <1>1, <1>2, <1>5, OthersStillAgree DEF Steps
<1>7. MendsStepByStep'
  BY <1>2, <1>5 DEF MendsStepByStep, Booking
<1> QED
  BY <1>6, <1>7 DEF BooksInv

LEMMA JudgeBooks == ASSUME BooksInv, RotationInv', Past!Judge PROVE BooksInv'
<1>1. /\ job.step = "judge" /\ Goes("average")
      /\ decayed' = IF Past!Below(edge[job.name])
                    THEN IF Len(edge[job.name]) >= MinSample THEN decayed \cup {job.name} ELSE decayed
                    ELSE decayed \ {job.name}
      /\ UNCHANGED <<edge, hasWin, hasLoss, cum, peak, drawdown, torn>>
  BY DEF Past!Judge, Past!At, Goes, Past!me, Past!curve
<1>2. /\ job'.step = "average" /\ job'.name = job.name /\ job'.result = job.result /\ job.result # 0
      /\ job.name \in Past!Strategy
  BY <1>1, BookStep DEF Booking, Steps
<1>3. /\ job.name \in decayed' => Past!Below(edge[job.name])
      /\ \A s \in Past!Strategy \ {job.name} : s \in decayed' <=> s \in decayed
  BY <1>1
<1>4. OthersAgree'
  BY <1>1, <1>2, <1>3, OthersStillAgree DEF Steps
<1>5. edge[job.name] # <<>> /\ Past!Last(edge[job.name]) = (job.result > 0)
  BY <1>1 DEF BooksInv, MendsStepByStep, Booking
<1>6. MendsStepByStep'
  BY <1>1, <1>2, <1>3, <1>5 DEF MendsStepByStep, Booking
<1> QED
  BY <1>4, <1>6 DEF BooksInv

LEMMA AverageBooks == ASSUME BooksInv, RotationInv', Past!Average PROVE BooksInv'
<1>1. /\ job.step = "average" /\ Goes("add")
      /\ hasWin' = IF job.result > 0 THEN hasWin \cup {job.name} ELSE hasWin
      /\ hasLoss' = IF job.result > 0 THEN hasLoss ELSE hasLoss \cup {job.name}
      /\ UNCHANGED <<edge, decayed, cum, peak, drawdown, torn>>
  BY DEF Past!Average, Past!At, Goes, Past!me, Past!curve
<1>2. /\ job'.step = "add" /\ job'.name = job.name /\ job'.result = job.result /\ job.result # 0
      /\ job.name \in Past!Strategy
  BY <1>1, BookStep DEF Booking, Steps
<1>3. \A s \in Past!Strategy \ {job.name} :
          (s \in hasWin' <=> s \in hasWin) /\ (s \in hasLoss' <=> s \in hasLoss)
  BY <1>1
<1>4. OthersAgree'
  BY <1>1, <1>2, <1>3, OthersStillAgree DEF Steps
<1>5. /\ edge[job.name] # <<>> /\ Past!Last(edge[job.name]) = (job.result > 0)
      /\ job.name \in decayed => Past!Below(edge[job.name])
  BY <1>1 DEF BooksInv, MendsStepByStep, Booking
<1>6. LastCounted(job.name)'
  <2>1. CASE job.result > 0
    <3>1. Past!Last(edge[job.name]) = TRUE
      BY <1>5, <2>1
    <3> QED
      BY <1>1, <1>2, <2>1, <3>1 DEF LastCounted
  <2>2. CASE ~(job.result > 0)
    <3>1. (job.result > 0) = FALSE
      BY <2>2
    <3>2. Past!Last(edge[job.name]) = FALSE
      BY <1>5, <3>1
    <3> QED
      BY <1>1, <1>2, <2>2, <3>2 DEF LastCounted
  <2> QED
    BY <2>1, <2>2
<1>7. MendsStepByStep'
  BY <1>1, <1>2, <1>5, <1>6 DEF MendsStepByStep, Booking
<1> QED
  BY <1>4, <1>7 DEF BooksInv

LEMMA CurveBooks == ASSUME BooksInv, RotationInv', Past!AddResult \/ Past!RaisePeak \/ Past!SetDrawdown PROVE BooksInv'
<1>1. PICK to \in {"peak", "drawdown", "done"} :
          /\ Goes(to) /\ UNCHANGED <<edge, decayed, hasWin, hasLoss, torn>>
          /\ \/ to = "peak" /\ job.step = "add" /\ cum' = [cum EXCEPT ![job.name] = @ + job.result]
                /\ UNCHANGED <<peak, drawdown>>
             \/ to = "drawdown" /\ job.step = "peak" /\ UNCHANGED <<cum, drawdown>>
                /\ peak' = [peak EXCEPT ![job.name] = IF cum[job.name] > @ THEN cum[job.name] ELSE @]
             \/ to = "done" /\ job.step = "drawdown" /\ UNCHANGED <<cum, peak>>
                /\ drawdown' = [drawdown EXCEPT ![job.name] = [peak |-> peak[job.name], cum |-> cum[job.name]]]
  BY DEF Past!AddResult, Past!RaisePeak, Past!SetDrawdown, Past!At, Goes, Past!me, Past!books
<1>2. /\ job'.step = to /\ job'.name = job.name /\ job'.result = job.result /\ job.result # 0
      /\ job.name \in Past!Strategy
  BY <1>1, BookStep DEF Booking, Steps
<1>3. \A s \in Past!Strategy \ {job.name} :
          cum'[s] = cum[s] /\ peak'[s] = peak[s] /\ drawdown'[s] = drawdown[s]
  BY <1>1 DEF BooksInv, RotationInv, PastTyped
<1>4. OthersAgree'
  BY <1>1, <1>2, <1>3, OthersStillAgree DEF Steps
<1>5. /\ edge[job.name] # <<>> /\ Past!Last(edge[job.name]) = (job.result > 0)
      /\ job.name \in decayed => Past!Below(edge[job.name])
      /\ LastCounted(job.name)
  BY <1>1 DEF BooksInv, MendsStepByStep, Booking
<1>6. cum[job.name] \in Int /\ peak[job.name] \in Int
  BY <1>2 DEF BooksInv, RotationInv, PastTyped
<1>7. to = "drawdown" => peak'[job.name] >= cum'[job.name]
  BY <1>1, <1>2, <1>6 DEF BooksInv, RotationInv, PastTyped
<1>8. to = "done" => CurveAgrees(job.name)'
  <2>1. to = "done" => peak[job.name] >= cum[job.name]
    BY <1>1 DEF BooksInv, MendsStepByStep
  <2> QED
    BY <1>1, <1>2, <2>1 DEF BooksInv, RotationInv, PastTyped, CurveAgrees
<1>9. MendsStepByStep'
  BY <1>1, <1>2, <1>5, <1>7, <1>8 DEF MendsStepByStep, Booking, LastCounted
<1> QED
  BY <1>4, <1>9 DEF BooksInv

LEMMA EndBooks == ASSUME BooksInv, RotationInv', Past!Done \/ Past!Raises PROVE BooksInv'
<1>1. /\ job'.step = "idle" /\ job'.name = "nobody" /\ "nobody" \notin Past!Strategy
      /\ UNCHANGED <<edge, decayed, hasWin, hasLoss, cum, peak, drawdown>>
      /\ \/ torn' = torn \cup {job.name}
         \/ job.step = "done" /\ torn' = IF job.result = 0 THEN torn ELSE torn \ {job.name}
  BY Candidate DEF Past!Done, Past!Raises, Past!Idle, Past!Nobody, Past!books, Past!curve, Past!me
<1>2. ASSUME NEW s \in Past!Strategy \ torn' PROVE Agree(s)
  <2>1. CASE s = job.name
    <3>1. job.step = "done"
      BY <1>1, <2>1
    <3>2. CASE job.result = 0
      BY <1>1, <2>1, <3>1, <3>2 DEF BooksInv, OthersAgree
    <3>3. CASE job.result # 0
      BY <2>1, <3>1, <3>3 DEF BooksInv, MendsStepByStep, Agree
    <3> QED
      BY <3>2, <3>3
  <2>2. CASE s # job.name
    BY <1>1, <2>2 DEF BooksInv, OthersAgree
  <2> QED
    BY <2>1, <2>2
<1>3. OthersAgree'
  BY <1>1, <1>2 DEF OthersAgree, Agree, CurveAgrees, LastCounted
<1>4. MendsStepByStep'
  BY <1>1 DEF MendsStepByStep, Booking
<1> QED
  BY <1>3, <1>4 DEF BooksInv

LEMMA BeginBooks ==
    ASSUME BooksInv, RotationInv', NEW s \in Past!Strategy, NEW ok \in BOOLEAN, NEW r \in {2, 0, -1},
           Past!Begin(s, ok, r)
    PROVE  BooksInv'
<1>1. /\ job.step = "idle" /\ job'.step = "count"
      /\ UNCHANGED <<edge, decayed, hasWin, hasLoss, cum, peak, drawdown, torn>>
  BY DEF Past!Begin, Past!books, Past!curve
<1>2. job.name \notin Past!Strategy
  BY <1>1 DEF BooksInv, RotationInv, PastTyped
<1>3. OthersAgree'
  BY <1>1, <1>2 DEF BooksInv, OthersAgree, Agree, CurveAgrees, LastCounted
<1>4. MendsStepByStep'
  BY <1>1 DEF MendsStepByStep, Booking
<1> QED
  BY <1>3, <1>4 DEF BooksInv

LEMMA OutsideBooks == ASSUME BooksInv, RotationInv', Outside PROVE BooksInv'
<1> USE DEF Past!Expiring, Past!books, Past!flags, Past!curve, Past!bounds
<1>1. /\ UNCHANGED <<job, edge, peak, drawdown>> /\ torn \subseteq torn' /\ decayed' \subseteq decayed
      /\ job.name \in torn' => job.name \in torn
  BY DEF Outside, Past!ExpireFlag, Past!ExpireLosses, Past!ExpireAlarm, Past!ExpireAverage, Past!ExpireCurve,
         Past!ToggleStrategy, Past!ExpireHint, Past!me
<1>2. \/ UNCHANGED <<hasWin, hasLoss, cum>>
      \/ \E s \in Past!Strategy \ {job.name} :
            torn' = torn \cup {s} /\ \/ hasWin' = hasWin \ {s} /\ UNCHANGED <<hasLoss, cum>>
                                     \/ hasLoss' = hasLoss \ {s} /\ UNCHANGED <<hasWin, cum>>
                                     \/ cum' = [cum EXCEPT ![s] = 0] /\ UNCHANGED <<hasWin, hasLoss>>
  BY DEF Outside, Past!ExpireFlag, Past!ExpireLosses, Past!ExpireAlarm, Past!ExpireAverage, Past!ExpireCurve,
         Past!ToggleStrategy, Past!ExpireHint, Past!me
<1>3. \A q \in (Past!Strategy \ torn') \cup {job.name} :
          (q \in hasWin' <=> q \in hasWin) /\ (q \in hasLoss' <=> q \in hasLoss) /\ cum'[q] = cum[q]
  <2>1. CASE UNCHANGED <<hasWin, hasLoss, cum>>
    BY <2>1
  <2>2. ASSUME NEW s \in Past!Strategy \ {job.name}, torn' = torn \cup {s},
               hasWin' = hasWin \ {s}, UNCHANGED <<hasLoss, cum>>
        PROVE  \A q \in (Past!Strategy \ torn') \cup {job.name} :
                  (q \in hasWin' <=> q \in hasWin) /\ (q \in hasLoss' <=> q \in hasLoss) /\ cum'[q] = cum[q]
    BY <2>2
  <2>3. ASSUME NEW s \in Past!Strategy \ {job.name}, torn' = torn \cup {s},
               hasLoss' = hasLoss \ {s}, UNCHANGED <<hasWin, cum>>
        PROVE  \A q \in (Past!Strategy \ torn') \cup {job.name} :
                  (q \in hasWin' <=> q \in hasWin) /\ (q \in hasLoss' <=> q \in hasLoss) /\ cum'[q] = cum[q]
    BY <2>3
  <2>4. ASSUME NEW s \in Past!Strategy \ {job.name}, torn' = torn \cup {s},
               cum' = [cum EXCEPT ![s] = 0], UNCHANGED <<hasWin, hasLoss>>
        PROVE  \A q \in (Past!Strategy \ torn') \cup {job.name} :
                  (q \in hasWin' <=> q \in hasWin) /\ (q \in hasLoss' <=> q \in hasLoss) /\ cum'[q] = cum[q]
    <3>1. \A q : q # s => cum'[q] = cum[q]
      BY <2>4
    <3> QED
      BY <2>4, <3>1
  <2> QED
    BY <1>2, <2>1, <2>2, <2>3, <2>4
<1>4. OthersAgree'
  BY <1>1, <1>3 DEF BooksInv, OthersAgree, Agree, CurveAgrees, LastCounted
<1>5. MendsStepByStep'
  BY <1>1, <1>3 DEF BooksInv, MendsStepByStep, CurveAgrees, LastCounted
<1> QED
  BY <1>4, <1>5 DEF BooksInv

LEMMA PastInit == Past!Init => BooksInv
<1> SUFFICES ASSUME Past!Init PROVE BooksInv
  OBVIOUS
<1>1. /\ losses = [s \in Past!Strategy |-> 0] /\ degraded = {} /\ edge = [s \in Past!Strategy |-> <<>>]
      /\ decayed = {} /\ cum = [s \in Past!Strategy |-> 0] /\ peak = [s \in Past!Strategy |-> 0]
      /\ drawdown = [s \in Past!Strategy |-> [peak |-> 0, cum |-> 0]]
      /\ job = [step |-> "idle", name |-> "nobody", ok |-> TRUE, result |-> 0]
      /\ streak = [s \in Past!Strategy |-> 0]
  BY DEF Past!Init, Past!Idle, Past!Nobody
<1>2. /\ job \in [step : Steps, name : Past!Strategy \cup {"nobody"}, ok : BOOLEAN, result : Int]
      /\ job.step = "idle" /\ job.name \notin Past!Strategy
  BY <1>1, Candidate DEF Steps
<1>3. edge \in [Past!Strategy -> Seq(BOOLEAN)]
  BY <1>1
<1>4. PastTyped
  BY <1>1, <1>2, <1>3 DEF PastTyped
<1>5. RotationInv
  BY <1>1, <1>2, <1>4 DEF RotationInv, Counted, Underway, Flagged, Hinted, Booking
<1>6. OthersAgree /\ MendsStepByStep
  BY <1>1, <1>2 DEF OthersAgree, Agree, CurveAgrees, MendsStepByStep, Booking
<1> QED
  BY <1>5, <1>6 DEF BooksInv

LEMMA PastStep == BooksInv /\ [Past!Next]_(Past!vars) => BooksInv'
<1> SUFFICES ASSUME BooksInv, [Past!Next]_(Past!vars) PROVE BooksInv'
  OBVIOUS
<1>0. RotationInv
  BY DEF BooksInv
<1>1. CASE Past!CountWin \/ Past!Restore \/ Past!CountLoss \/ Past!CountNeither \/ Past!Degrade \/ Past!Rotate
  BY <1>0, <1>1, RotationKeepsBooks, CountWinRotates, RestoreRotates, CountLossRotates, CountNeitherRotates,
     DegradeRotates, RotateRotates
<1>2. CASE Past!Push \/ Past!Judge \/ Past!Average \/ Past!AddResult \/ Past!RaisePeak \/ Past!SetDrawdown
  BY <1>0, <1>2, BookingRotates, PushBooks, JudgeBooks, AverageBooks, CurveBooks
<1>3. CASE Past!Done \/ Past!Raises
  BY <1>0, <1>3, EndRotates, EndBooks
<1>4. ASSUME NEW s \in Past!Strategy, NEW ok \in BOOLEAN, NEW r \in {2, 0, -1}, Past!Begin(s, ok, r)
      PROVE  BooksInv'
  BY <1>0, <1>4, BeginRotates, BeginBooks
<1>5. CASE Outside
  BY <1>0, <1>5, OutsideRotates, OutsideBooks
<1>6. CASE UNCHANGED Past!vars
  <2>1. UNCHANGED <<losses, degraded, preferred, edge, decayed, hasWin, hasLoss, cum, peak, drawdown, job,
                    streak, torn, missed, stranded>>
    BY <1>6 DEF Past!vars, Past!flags, Past!books, Past!curve
  <2>2. PastTyped' /\ (Past!Won' <=> Past!Won) /\ (Past!Lost' <=> Past!Lost)
    BY <1>0, <2>1 DEF RotationInv, PastTyped, Past!Won, Past!Lost
  <2>3. Counted' /\ Underway' /\ Flagged' /\ Hinted'
    BY <1>0, <2>1, <2>2 DEF RotationInv, Counted, Underway, Flagged, Hinted
  <2>4. OthersAgree' /\ MendsStepByStep'
    BY <2>1 DEF BooksInv, OthersAgree, MendsStepByStep, Agree, CurveAgrees, LastCounted
  <2> QED
    BY <2>2, <2>3, <2>4 DEF BooksInv, RotationInv
<1> QED
  BY <1>1, <1>2, <1>3, <1>4, <1>5, <1>6 DEF Past!Next, Past!Record, Outside

(* The records of a strategy's outcomes agree with each other and with     *)
(* what happened, whatever recording was cut short and whatever key        *)
(* expired: its degradation, the hint and the books of results             *)
(* (_record_outcome, _update_rotation_preferred).                          *)
THEOREM RecordsOfOutcomesAgree == Spec => []RecordsAgree
<1>1. ASSUME BooksInv PROVE Past!DegradedAfterStreak
  <2> SUFFICES ASSUME NEW s \in degraded, s # job.name, s \notin missed PROVE streak[s] >= Threshold
    BY DEF Past!DegradedAfterStreak, Past!me
  <2>1. losses[s] >= Threshold /\ losses[s] <= streak[s] /\ losses[s] \in Nat /\ streak[s] \in Nat
    BY <1>1 DEF BooksInv, RotationInv, PastTyped, Flagged, Counted
  <2> QED
    BY <2>1, MarketsAssumption
<1>2. ASSUME BooksInv PROVE Past!HintMoves
  BY <1>2 DEF BooksInv, RotationInv, Hinted, Past!HintMoves, Past!me
<1>3. ASSUME BooksInv PROVE Past!BooksAgree
  <2> SUFFICES ASSUME NEW s \in Past!Strategy \ (torn \cup {job.name})
               PROVE  /\ peak[s] >= cum[s] /\ drawdown[s] = [peak |-> peak[s], cum |-> cum[s]]
                      /\ edge[s] # <<>> => s \in (IF Past!Last(edge[s]) THEN hasWin ELSE hasLoss)
                      /\ s \in decayed => Past!Below(edge[s])
    BY DEF Past!BooksAgree, Past!me
  <2>1. Agree(s)
    BY <1>3 DEF BooksInv, OthersAgree
  <2>2. edge[s] # <<>> => s \in (IF Past!Last(edge[s]) THEN hasWin ELSE hasLoss)
    BY <2>1, Zenon DEF Agree, LastCounted
  <2> QED
    BY <2>1, <2>2 DEF Agree, CurveAgrees
<1>4. BooksInv => RecordsAgree
  BY <1>1, <1>2, <1>3 DEF RecordsAgree, Past!RecordsAgree
<1> QED
  BY <1>4, PartsRun, PastInit, PastStep, PTL DEF Past!Spec


-----------------------------------------------------------------------------
(* The news.                                                               *)

Working == stage \in {"score", "stamp", "health"}

\* When in a cycle a class has been scored, and the class at hand will be, at the latest.
Turn(c) == IF c = "crypto" THEN MaxWait ELSE 2 * MaxWait
Due == IF index = 1 THEN MaxWait ELSE 2 * MaxWait

\* How long it can have been since the last cycle's end.
Phase ==
    CASE stage = "sleep"  -> waited
      [] stage = "fetch"  -> NewsInterval + waited
      [] stage = "score"  -> NewsInterval + Due + waited
      [] stage = "stamp"  -> NewsInterval + MaxWait + Due
      [] stage = "health" -> NewsInterval + 3 * MaxWait

Key == [at : Nat, until : Nat]

NewsTyped ==
    /\ tick \in Nat /\ waited \in Nat /\ index \in {1, 2} /\ cycleAt \in Nat /\ good \in Nat
    /\ scored \subseteq {"crypto", "fx"}
    /\ sentiment \in [{"crypto", "fx"} -> Key] /\ lastOk \in [{"crypto", "fx"} -> Key]
    /\ health \in [at : Nat, ok : SUBSET {"crypto", "fx"}, until : Nat]
    /\ stage \in {"fetch", "score", "stamp", "health", "sleep"}

\* No stage takes longer than it may, and so no cycle does.
InItsTime ==
    /\ stage \in {"fetch", "score"} => waited <= MaxWait
    /\ stage = "sleep" => waited <= NewsInterval
    /\ stage \in {"stamp", "health"} => waited = 0
    /\ cycleAt <= tick
    /\ Working => tick - cycleAt <= Phase - NewsInterval - MaxWait

\* The keys are of this cycle or an earlier one, and live from when they were written.
KeysOfCycles ==
    /\ \A c \in {"crypto", "fx"} : /\ sentiment[c].at <= cycleAt /\ lastOk[c].at <= cycleAt
                                  /\ sentiment[c].until <= sentiment[c].at + SentimentTtl + 2 * MaxWait
    /\ health.at <= cycleAt

\* What this cycle has scored is there, and as old as the cycle allows.
ScoredNow ==
    Working =>
        /\ \A c \in scored :
              /\ sentiment[c].at = cycleAt /\ lastOk[c].at = cycleAt
              /\ sentiment[c].until - SentimentTtl >= tick - (Phase - NewsInterval - MaxWait - Turn(c))
              /\ lastOk[c].until - HealthTtl >= tick - (Phase - NewsInterval - MaxWait - Turn(c))
        /\ stage = "stamp" =>
              LET c == IF index = 1 THEN "crypto" ELSE "fx"
              IN  sentiment[c].at = cycleAt /\ sentiment[c].until = tick + SentimentTtl

\* While cycles are good, every key is as old as one of them and its sleep allow.
GoodSince ==
    good > 0 =>
        /\ \A c \in {"crypto", "fx"} :
              /\ sentiment[c].until - SentimentTtl >= tick - (2 * MaxWait - Turn(c) + Phase)
              /\ lastOk[c].until - HealthTtl >= tick - (2 * MaxWait - Turn(c) + Phase)
        /\ health.until - HealthTtl >= tick - Phase /\ health.ok = {"crypto", "fx"}
        /\ stage \in {"score", "stamp"} /\ index = 2 => "crypto" \in scored
        /\ stage = "health" => scored = {"crypto", "fx"}

NewsInv ==
    /\ NewsTyped /\ InItsTime /\ KeysOfCycles /\ ScoredNow /\ GoodSince
    /\ News!SentimentRecent /\ News!HealthTrue

LEMMA TwoClasses ==
    /\ News!AssetClass = {"crypto", "fx"} /\ Len(<<"crypto", "fx">>) = 2
    /\ index \in {1, 2} => <<"crypto", "fx">>[index] = IF index = 1 THEN "crypto" ELSE "fx"
BY DEF News!AssetClass

LEMMA NewsInit == News!Init => NewsInv
BY TwoClasses, MarketsAssumption
   DEF News!Init, News!Missing, News!Nothing, NewsInv, NewsTyped, Key, InItsTime, KeysOfCycles, ScoredNow, GoodSince,
       Working, News!SentimentRecent, News!HealthTrue, Phase

LEMMA NewsTicks == ASSUME NewsInv, News!Tick PROVE NewsInv'
<1>1. /\ tick' = tick + 1 /\ waited' = waited + 1
      /\ \/ stage \in {"fetch", "score"} /\ waited < MaxWait
         \/ stage = "sleep" /\ waited < NewsInterval
      /\ UNCHANGED <<sentiment, lastOk, health, stage, index, cycleAt, scored, good>>
      /\ used' = News!Nothing
  BY DEF News!Tick, News!keys
<1>2. Phase \in Int /\ Phase' = Phase + 1
  BY <1>1, MarketsAssumption DEF NewsInv, NewsTyped, Phase, Due
<1>3. NewsTyped' /\ InItsTime'
  BY <1>1, <1>2, MarketsAssumption DEF NewsInv, NewsTyped, InItsTime, Working
<1>4. KeysOfCycles' /\ News!SentimentRecent' /\ News!HealthTrue'
  BY <1>1 DEF NewsInv, KeysOfCycles, News!SentimentRecent, News!HealthTrue
<1>5. \A c \in {"crypto", "fx"} : Turn(c) \in Int
  BY MarketsAssumption DEF Turn
<1>6. ScoredNow'
  BY <1>1, <1>2, <1>5, MarketsAssumption DEF NewsInv, NewsTyped, Key, ScoredNow, Working
<1>7. GoodSince'
  BY <1>1, <1>2, <1>5, MarketsAssumption DEF NewsInv, NewsTyped, Key, GoodSince
<1> QED
  BY <1>3, <1>4, <1>6, <1>7 DEF NewsInv

\* Where a step of the task goes takes no time.
LEMMA TurnType == \A c \in {"crypto", "fx"} : Turn(c) \in Int /\ Turn(c) >= MaxWait /\ Turn(c) <= 2 * MaxWait
BY MarketsAssumption DEF Turn

LEMMA FetchedNews == ASSUME NewsInv, News!Fetched PROVE NewsInv'
<1>1. /\ stage = "fetch" /\ stage' = "score" /\ waited' = 0 /\ cycleAt' = tick /\ index' = 1 /\ scored' = {}
      /\ used' = News!Nothing /\ UNCHANGED <<tick, sentiment, lastOk, health, good>>
  BY DEF News!Fetched, News!Goto, News!keys
<1>2. Phase \in Int /\ Phase' \in Int /\ Phase <= Phase' /\ Phase' = NewsInterval + MaxWait
  BY <1>1, MarketsAssumption DEF NewsInv, NewsTyped, InItsTime, Phase, Due
<1>3. NewsTyped' /\ InItsTime'
  BY <1>1, <1>2, MarketsAssumption DEF NewsInv, NewsTyped, InItsTime, Working
<1>4. KeysOfCycles' /\ News!SentimentRecent' /\ News!HealthTrue'
  BY <1>1 DEF NewsInv, NewsTyped, Key, InItsTime, KeysOfCycles, News!SentimentRecent, News!HealthTrue
<1>5. ScoredNow'
  BY <1>1 DEF ScoredNow
<1>6. GoodSince'
  BY <1>1, <1>2, TurnType, MarketsAssumption DEF NewsInv, NewsTyped, Key, GoodSince
<1> QED
  BY <1>3, <1>4, <1>5, <1>6 DEF NewsInv

LEMMA ScoreNews == ASSUME NewsInv, News!Score PROVE NewsInv'
<1> DEFINE me == IF index = 1 THEN "crypto" ELSE "fx"
<1>1. /\ stage = "score" /\ stage' = "stamp" /\ waited' = 0 /\ used' = News!Nothing
      /\ sentiment' = [sentiment EXCEPT ![me] = [at |-> cycleAt, until |-> tick + SentimentTtl]]
      /\ UNCHANGED <<tick, lastOk, health, index, cycleAt, scored, good>>
  BY TwoClasses DEF News!Score, News!Goto, NewsInv, NewsTyped
<1>2. Phase \in Int /\ Phase' \in Int /\ Phase <= Phase' /\ Turn(me) = Due /\ Due \in Nat
      /\ Phase' = NewsInterval + MaxWait + Due
  BY <1>1, MarketsAssumption DEF NewsInv, NewsTyped, InItsTime, Phase, Due, Turn
<1>3. me \in {"crypto", "fx"}
  OBVIOUS
<1> HIDE DEF me
<1>4. /\ sentiment'[me] = [at |-> cycleAt, until |-> tick + SentimentTtl]
      /\ sentiment'[me].at = cycleAt /\ sentiment'[me].until = tick + SentimentTtl
      /\ \A c \in {"crypto", "fx"} : c # me => sentiment'[c] = sentiment[c]
  BY <1>1, <1>3 DEF NewsInv, NewsTyped
<1>5. NewsTyped'
  <2>1. [at |-> cycleAt, until |-> tick + SentimentTtl] \in Key
    BY MarketsAssumption DEF NewsInv, NewsTyped, Key
  <2> QED
    BY <1>1, <2>1 DEF NewsInv, NewsTyped
<1>6. InItsTime'
  BY <1>1, <1>2, MarketsAssumption DEF NewsInv, NewsTyped, InItsTime, Working
<1>7. tick - cycleAt <= 2 * MaxWait /\ tick \in Nat /\ cycleAt \in Nat /\ cycleAt <= tick
  BY <1>1, <1>2, MarketsAssumption DEF NewsInv, NewsTyped, InItsTime, Working, Due, Phase
<1>8. KeysOfCycles'
  <2>1. ASSUME NEW c \in {"crypto", "fx"}
        PROVE  sentiment'[c].at <= cycleAt /\ sentiment'[c].until <= sentiment'[c].at + SentimentTtl + 2 * MaxWait
    <3>1. CASE c = me
      BY <1>4, <1>7, <3>1, MarketsAssumption
    <3>2. CASE c # me
      BY <1>4, <3>2 DEF NewsInv, KeysOfCycles
    <3> QED
      BY <3>1, <3>2
  <2> QED
    BY <1>1, <2>1 DEF NewsInv, KeysOfCycles
<1>9. News!SentimentRecent' /\ News!HealthTrue'
  <2>1. \A c \in {"crypto", "fx"} : sentiment'[c].at >= sentiment[c].at
    <3>1. sentiment[me].at <= cycleAt /\ sentiment[me].at \in Nat /\ \A c \in {"crypto", "fx"} : sentiment[c].at \in Nat
      BY <1>3 DEF NewsInv, NewsTyped, Key, KeysOfCycles
    <3> QED
      BY <1>4, <1>7, <3>1
  <2>2. \A c \in {"crypto", "fx"} : sentiment'[c].at \in Nat /\ sentiment[c].at \in Nat /\ health.at \in Nat
    BY <1>5 DEF NewsInv, NewsTyped, Key
  <2>3. health.ok \subseteq {"crypto", "fx"}
    BY DEF NewsInv, NewsTyped
  <2> QED
    BY <1>1, <2>1, <2>2, <2>3 DEF NewsInv, News!SentimentRecent, News!HealthTrue
<1>10. ScoredNow'
  <2>1. ASSUME NEW c \in scored
        PROVE  /\ sentiment'[c].at = cycleAt /\ lastOk[c].at = cycleAt
               /\ sentiment'[c].until - SentimentTtl >= tick - (Phase' - NewsInterval - MaxWait - Turn(c))
               /\ lastOk[c].until - HealthTtl >= tick - (Phase' - NewsInterval - MaxWait - Turn(c))
    <3>1. c \in {"crypto", "fx"} /\ lastOk[c].until \in Nat /\ sentiment[c].until \in Nat /\ Turn(c) \in Int
      BY TurnType DEF NewsInv, NewsTyped, Key
    <3>2. /\ sentiment[c].at = cycleAt /\ lastOk[c].at = cycleAt
          /\ sentiment[c].until - SentimentTtl >= tick - (Phase - NewsInterval - MaxWait - Turn(c))
          /\ lastOk[c].until - HealthTtl >= tick - (Phase - NewsInterval - MaxWait - Turn(c))
      BY <1>1 DEF NewsInv, ScoredNow, Working
    <3>3. CASE c = me
      BY <1>2, <1>4, <1>7, <3>1, <3>2, <3>3, MarketsAssumption
    <3>4. CASE c # me
      BY <1>2, <1>4, <1>7, <3>1, <3>2, <3>4, MarketsAssumption
    <3> QED
      BY <3>3, <3>4
  <2> QED
    BY <1>1, <1>4, <2>1 DEF ScoredNow, me
<1>11. GoodSince'
  <2>1. ASSUME good > 0, NEW c \in {"crypto", "fx"}
        PROVE  /\ sentiment'[c].until - SentimentTtl >= tick - (2 * MaxWait - Turn(c) + Phase')
               /\ lastOk[c].until - HealthTtl >= tick - (2 * MaxWait - Turn(c) + Phase')
    <3>1. lastOk[c].until \in Nat /\ sentiment[c].until \in Nat /\ Turn(c) \in Int /\ Turn(c) <= 2 * MaxWait
      BY TurnType DEF NewsInv, NewsTyped, Key
    <3>2. /\ sentiment[c].until - SentimentTtl >= tick - (2 * MaxWait - Turn(c) + Phase)
          /\ lastOk[c].until - HealthTtl >= tick - (2 * MaxWait - Turn(c) + Phase)
      BY <2>1 DEF NewsInv, GoodSince
    <3>3. CASE c = me
      BY <1>2, <1>4, <1>7, <3>1, <3>2, <3>3, MarketsAssumption
    <3>4. CASE c # me
      BY <1>2, <1>4, <1>7, <3>1, <3>2, <3>4, MarketsAssumption
    <3> QED
      BY <3>3, <3>4
  <2>2. good > 0 => health.until - HealthTtl >= tick - Phase' /\ health.ok = {"crypto", "fx"}
                    /\ (index = 2 => "crypto" \in scored)
    BY <1>1, <1>2, <1>7, MarketsAssumption DEF NewsInv, NewsTyped, GoodSince
  <2> QED
    BY <1>1, <2>1, <2>2 DEF GoodSince
<1> QED
  BY <1>5, <1>6, <1>8, <1>9, <1>10, <1>11 DEF NewsInv

LEMMA StampNews == ASSUME NewsInv, News!Stamp PROVE NewsInv'
<1> DEFINE me == IF index = 1 THEN "crypto" ELSE "fx"
<1>1. /\ stage = "stamp" /\ waited' = 0 /\ used' = News!Nothing
      /\ \/ index = 2 /\ stage' = "health" /\ index' = index
         \/ index = 1 /\ stage' = "score" /\ index' = 2
      /\ lastOk' = [lastOk EXCEPT ![me] = [at |-> cycleAt, until |-> tick + HealthTtl]]
      /\ scored' = scored \cup {me}
      /\ UNCHANGED <<tick, sentiment, health, cycleAt, good>>
  <2>1. index \in {1, 2} /\ <<"crypto", "fx">>[index] = me /\ Len(<<"crypto", "fx">>) = 2
    BY TwoClasses DEF NewsInv, NewsTyped
  <2> HIDE DEF me
  <2>2. /\ stage = "stamp" /\ waited' = 0 /\ used' = News!Nothing
        /\ \/ index = 2 /\ stage' = "health" /\ index' = index
           \/ index = 1 /\ stage' = "score" /\ index' = index + 1
    BY <2>1 DEF News!Stamp, News!NextClass, News!Goto
  <2>3. /\ lastOk' = [lastOk EXCEPT ![me] = [at |-> cycleAt, until |-> tick + HealthTtl]]
        /\ scored' = scored \cup {me}
        /\ UNCHANGED <<tick, sentiment, health, cycleAt, good>>
    BY <2>1 DEF News!Stamp
  <2> QED
    BY <2>2, <2>3
<1>2. Phase \in Int /\ Phase' \in Int /\ Phase' = Phase /\ Turn(me) = Due /\ Due \in Nat
      /\ Phase = NewsInterval + MaxWait + Due
  BY <1>1, MarketsAssumption DEF NewsInv, NewsTyped, InItsTime, Phase, Due, Turn
<1>3. me \in {"crypto", "fx"} /\ (me = "crypto" <=> index = 1)
  BY DEF NewsInv, NewsTyped
<1> HIDE DEF me
<1>4. /\ lastOk'[me] = [at |-> cycleAt, until |-> tick + HealthTtl]
      /\ lastOk'[me].at = cycleAt /\ lastOk'[me].until = tick + HealthTtl
      /\ \A c \in {"crypto", "fx"} : c # me => lastOk'[c] = lastOk[c]
  BY <1>1, <1>3 DEF NewsInv, NewsTyped
<1>5. NewsTyped'
  <2>1. [at |-> cycleAt, until |-> tick + HealthTtl] \in Key
    BY MarketsAssumption DEF NewsInv, NewsTyped, Key
  <2> QED
    BY <1>1, <1>3, <2>1 DEF NewsInv, NewsTyped
<1>6. InItsTime'
  BY <1>1, <1>2, MarketsAssumption DEF NewsInv, NewsTyped, InItsTime, Working
<1>7. tick \in Nat /\ cycleAt \in Nat /\ cycleAt <= tick
  BY DEF NewsInv, NewsTyped, InItsTime
<1>8. KeysOfCycles'
  <2>1. ASSUME NEW c \in {"crypto", "fx"} PROVE lastOk'[c].at <= cycleAt
    <3>1. CASE c = me
      BY <1>4, <1>7, <3>1
    <3>2. CASE c # me
      BY <1>4, <3>2 DEF NewsInv, KeysOfCycles
    <3> QED
      BY <3>1, <3>2
  <2> QED
    BY <1>1, <2>1 DEF NewsInv, KeysOfCycles
<1>9. News!SentimentRecent' /\ News!HealthTrue'
  <2>1. \A c \in {"crypto", "fx"} : lastOk'[c].at >= lastOk[c].at
    <3>1. lastOk[me].at <= cycleAt /\ lastOk[me].at \in Nat /\ \A c \in {"crypto", "fx"} : lastOk[c].at \in Nat
      BY <1>3 DEF NewsInv, NewsTyped, Key, KeysOfCycles
    <3> QED
      BY <1>4, <1>7, <3>1
  <2>2. \A c \in {"crypto", "fx"} : lastOk'[c].at \in Nat /\ lastOk[c].at \in Nat /\ health.at \in Nat
    BY <1>5 DEF NewsInv, NewsTyped, Key
  <2>3. health.ok \subseteq {"crypto", "fx"}
    BY DEF NewsInv, NewsTyped
  <2> QED
    BY <1>1, <2>1, <2>2, <2>3 DEF NewsInv, News!SentimentRecent, News!HealthTrue
<1>10. ScoredNow'
  <2>1. ASSUME NEW c \in scored'
        PROVE  /\ sentiment[c].at = cycleAt /\ lastOk'[c].at = cycleAt
               /\ sentiment[c].until - SentimentTtl >= tick - (Phase' - NewsInterval - MaxWait - Turn(c))
               /\ lastOk'[c].until - HealthTtl >= tick - (Phase' - NewsInterval - MaxWait - Turn(c))
    <3>1. c \in {"crypto", "fx"} /\ lastOk[c].until \in Nat /\ sentiment[c].until \in Nat /\ Turn(c) \in Int
      BY <1>1, <1>3, TurnType DEF NewsInv, NewsTyped, Key
    <3>2. CASE c = me
      <4>1. sentiment[c].at = cycleAt /\ sentiment[c].until = tick + SentimentTtl
        BY <1>1, <3>2 DEF NewsInv, ScoredNow, Working, me
      <4> QED
        BY <1>2, <1>4, <1>7, <3>1, <3>2, <4>1, MarketsAssumption
    <3>3. CASE c # me
      <4>1. /\ sentiment[c].at = cycleAt /\ lastOk[c].at = cycleAt
            /\ sentiment[c].until - SentimentTtl >= tick - (Phase - NewsInterval - MaxWait - Turn(c))
            /\ lastOk[c].until - HealthTtl >= tick - (Phase - NewsInterval - MaxWait - Turn(c))
        BY <1>1, <3>3 DEF NewsInv, ScoredNow, Working
      <4> QED
        BY <1>2, <1>4, <3>1, <3>3, <4>1
    <3> QED
      BY <3>2, <3>3
  <2> QED
    BY <1>1, <2>1 DEF ScoredNow
<1>11. GoodSince'
  <2>1. ASSUME good > 0, NEW c \in {"crypto", "fx"}
        PROVE  /\ sentiment[c].until - SentimentTtl >= tick - (2 * MaxWait - Turn(c) + Phase')
               /\ lastOk'[c].until - HealthTtl >= tick - (2 * MaxWait - Turn(c) + Phase')
    <3>1. lastOk[c].until \in Nat /\ sentiment[c].until \in Nat /\ Turn(c) \in Int /\ Turn(c) <= 2 * MaxWait
      BY TurnType DEF NewsInv, NewsTyped, Key
    <3>2. /\ sentiment[c].until - SentimentTtl >= tick - (2 * MaxWait - Turn(c) + Phase)
          /\ lastOk[c].until - HealthTtl >= tick - (2 * MaxWait - Turn(c) + Phase)
      BY <2>1 DEF NewsInv, GoodSince
    <3>3. CASE c = me
      BY <1>2, <1>4, <1>7, <3>1, <3>2, <3>3, MarketsAssumption
    <3>4. CASE c # me
      BY <1>2, <1>4, <3>2, <3>4
    <3> QED
      BY <3>3, <3>4
  <2>2. good > 0 => health.until - HealthTtl >= tick - Phase' /\ health.ok = {"crypto", "fx"}
    BY <1>2 DEF NewsInv, GoodSince
  <2>3. good > 0 => (stage' = "score" => "crypto" \in scored') /\ (stage' = "health" => scored' = {"crypto", "fx"})
    <3>1. CASE index = 1
      BY <1>1, <1>3, <3>1
    <3>2. CASE index = 2
      <4>1. me = "fx" /\ stage' = "health"
        BY <1>1, <3>2 DEF me
      <4>2. good > 0 => "crypto" \in scored
        BY <1>1, <3>2 DEF NewsInv, GoodSince
      <4>3. scored \subseteq {"crypto", "fx"}
        BY DEF NewsInv, NewsTyped
      <4> QED
        BY <1>1, <4>1, <4>2, <4>3
    <3> QED
      BY <1>1, <3>1, <3>2
  <2> QED
    BY <1>1, <2>1, <2>2, <2>3 DEF GoodSince
<1> QED
  BY <1>5, <1>6, <1>8, <1>9, <1>10, <1>11 DEF NewsInv

LEMMA StillWithin ==
    ASSUME NEW x \in Int, NEW p \in Int, NEW q \in Int, p <= q, NEW i \in Int, NEW w \in Int, x <= p - i - w
    PROVE  x <= q - i - w
OBVIOUS

LEMMA ScoreFailsNews == ASSUME NewsInv, News!ScoreFails PROVE NewsInv'
<1>1. /\ stage = "score" /\ waited' = 0 /\ used' = News!Nothing /\ good' = 0
      /\ \/ index = 2 /\ stage' = "health" /\ index' = index
         \/ index = 1 /\ stage' = "score" /\ index' = 2
      /\ UNCHANGED <<tick, sentiment, lastOk, health, cycleAt, scored>>
  BY TwoClasses DEF News!ScoreFails, News!NextClass, News!Goto, News!keys, NewsInv, NewsTyped
<1>2. Phase \in Int /\ Phase' \in Int /\ Phase <= Phase'
  <2>1. waited \in Nat /\ waited <= MaxWait
    BY <1>1 DEF NewsInv, NewsTyped, InItsTime
  <2>2. CASE index = 2
    BY <1>1, <2>1, <2>2, MarketsAssumption DEF Phase, Due
  <2>3. CASE index = 1
    BY <1>1, <2>1, <2>3, MarketsAssumption DEF Phase, Due
  <2> QED
    BY <1>1, <2>2, <2>3
<1>3. NewsTyped' /\ InItsTime'
  <2>1. NewsTyped'
    BY <1>1 DEF NewsInv, NewsTyped
  <2>2. tick - cycleAt <= Phase - NewsInterval - MaxWait /\ tick \in Nat /\ cycleAt \in Nat /\ cycleAt <= tick
    BY <1>1 DEF NewsInv, NewsTyped, InItsTime, Working
  <2>3. tick - cycleAt <= Phase' - NewsInterval - MaxWait
    <3>1. tick - cycleAt \in Int /\ NewsInterval \in Int /\ MaxWait \in Int
      BY <2>2, MarketsAssumption
    <3> QED
      BY <1>2, <2>2, <3>1, StillWithin
  <2>4. waited' = 0 /\ stage' \in {"score", "health"} /\ 0 <= MaxWait
    BY <1>1, MarketsAssumption
  <2>5. InItsTime'
    BY <1>1, <2>2, <2>3, <2>4 DEF InItsTime
  <2> QED
    BY <2>1, <2>5
<1>4. KeysOfCycles' /\ News!SentimentRecent' /\ News!HealthTrue'
  BY <1>1 DEF NewsInv, KeysOfCycles, News!SentimentRecent, News!HealthTrue
<1>5. ScoredNow'
  <2>1. \A c \in scored : c \in {"crypto", "fx"} /\ Turn(c) \in Int
    BY TurnType DEF NewsInv, NewsTyped
  <2> QED
    BY <1>1, <1>2, <2>1, MarketsAssumption DEF NewsInv, NewsTyped, Key, ScoredNow, Working
<1>6. GoodSince'
  BY <1>1 DEF GoodSince
<1> QED
  BY <1>3, <1>4, <1>5, <1>6 DEF NewsInv

LEMMA HealthNews == ASSUME NewsInv, News!WriteHealth PROVE NewsInv'
<1>1. /\ stage = "health" /\ stage' = "sleep" /\ waited' = 0 /\ used' = News!Nothing
      /\ health' = [at |-> cycleAt, ok |-> scored, until |-> tick + HealthTtl]
      /\ good' = IF scored = {"crypto", "fx"} THEN good + 1 ELSE 0
      /\ UNCHANGED <<tick, sentiment, lastOk, index, cycleAt, scored>>
  BY TwoClasses DEF News!WriteHealth, News!Goto
<1>2. Phase = NewsInterval + 3 * MaxWait /\ Phase' = 0
  BY <1>1 DEF Phase
<1>3. NewsTyped' /\ InItsTime'
  BY <1>1, <1>2, MarketsAssumption DEF NewsInv, NewsTyped, InItsTime, Working
<1>4. KeysOfCycles' /\ News!SentimentRecent'
  BY <1>1 DEF NewsInv, NewsTyped, Key, KeysOfCycles, News!SentimentRecent
<1>5. \A c \in scored : sentiment[c].at = cycleAt /\ lastOk[c].at = cycleAt /\ cycleAt \in Nat
  BY <1>1 DEF NewsInv, NewsTyped, ScoredNow, Working
<1>6. News!HealthTrue'
  BY <1>1, <1>5 DEF News!HealthTrue
<1>7. ScoredNow'
  BY <1>1 DEF ScoredNow, Working
<1>8. GoodSince'
  <2> SUFFICES ASSUME good' > 0 PROVE GoodSince'
    BY DEF GoodSince
  <2>1. scored = {"crypto", "fx"}
    BY <1>1
  <2>2. health'.until = tick + HealthTtl /\ health'.ok = {"crypto", "fx"} /\ tick \in Nat
    BY <1>1, <2>1 DEF NewsInv, NewsTyped
  <2>3. ASSUME NEW c \in {"crypto", "fx"}
        PROVE  /\ sentiment[c].until - SentimentTtl >= tick - (2 * MaxWait - Turn(c) + Phase')
               /\ lastOk[c].until - HealthTtl >= tick - (2 * MaxWait - Turn(c) + Phase')
    BY <1>1, <1>2, <2>1, TurnType, MarketsAssumption DEF NewsInv, ScoredNow, Working, NewsTyped
  <2>4. health'.until - HealthTtl >= tick - Phase'
    BY <1>2, <2>2, MarketsAssumption
  <2> QED
    BY <1>1, <2>2, <2>3, <2>4 DEF GoodSince
<1> QED
  BY <1>3, <1>4, <1>6, <1>7, <1>8 DEF NewsInv

LEMMA RestNews == ASSUME NewsInv, News!CycleRaises \/ News!Wake PROVE NewsInv'
<1>1. /\ waited' = 0 /\ used' = News!Nothing
      /\ \/ stage' = "sleep" /\ good' = 0
         \/ stage = "sleep" /\ waited = NewsInterval /\ stage' = "fetch" /\ good' = good
      /\ UNCHANGED <<tick, sentiment, lastOk, health, index, cycleAt, scored>>
  BY DEF News!CycleRaises, News!Wake, News!Goto, News!keys
<1>2. stage' = "fetch" => Phase' = Phase
  BY <1>1, MarketsAssumption DEF Phase
<1>3. NewsTyped' /\ InItsTime'
  BY <1>1, MarketsAssumption DEF NewsInv, NewsTyped, InItsTime, Working
<1>4. KeysOfCycles' /\ News!SentimentRecent' /\ News!HealthTrue'
  BY <1>1 DEF NewsInv, KeysOfCycles, News!SentimentRecent, News!HealthTrue
<1>5. ScoredNow'
  BY <1>1 DEF ScoredNow, Working
<1>6. GoodSince'
  BY <1>1, <1>2 DEF NewsInv, GoodSince
<1> QED
  BY <1>3, <1>4, <1>5, <1>6 DEF NewsInv

LEMMA UseNews == ASSUME NewsInv, NEW c \in News!AssetClass, News!Use(c) PROVE NewsInv'
<1>1. /\ tick < sentiment[c].until /\ used' = [class |-> c, at |-> sentiment[c].at]
      /\ UNCHANGED <<tick, sentiment, lastOk, health, stage, index, waited, cycleAt, scored, good>>
  BY DEF News!Use, News!Fresh, News!keys
<1>2. c \in {"crypto", "fx"} /\ used'.at = sentiment[c].at /\ tick \in Nat
      /\ sentiment[c].at \in Nat /\ sentiment[c].until \in Nat
      /\ sentiment[c].until <= sentiment[c].at + SentimentTtl + 2 * MaxWait
  BY <1>1, TwoClasses DEF NewsInv, NewsTyped, Key, KeysOfCycles
<1>3. News!SentimentRecent'
  BY <1>1, <1>2, TwoClasses, MarketsAssumption DEF News!SentimentRecent
<1>4. NewsTyped' /\ InItsTime' /\ KeysOfCycles' /\ ScoredNow' /\ GoodSince' /\ News!HealthTrue'
  BY <1>1 DEF NewsInv, NewsTyped, InItsTime, KeysOfCycles, ScoredNow, GoodSince, News!HealthTrue, Working, Phase, Due
<1> QED
  BY <1>3, <1>4 DEF NewsInv

LEMMA NewsStep == NewsInv /\ [News!Next]_(News!vars) => NewsInv'
<1> SUFFICES ASSUME NewsInv, [News!Next]_(News!vars) PROVE NewsInv'
  OBVIOUS
<1>1. CASE UNCHANGED News!vars
  <2>1. UNCHANGED <<tick, sentiment, lastOk, health, stage, index, waited, cycleAt, scored, good, used>>
    BY <1>1 DEF News!vars
  <2> QED
    BY <2>1 DEF NewsInv, NewsTyped, InItsTime, KeysOfCycles, ScoredNow, GoodSince, News!HealthTrue,
                News!SentimentRecent, Working, Phase, Due
<1> QED
  BY <1>1, NewsTicks, FetchedNews, ScoreNews, StampNews, ScoreFailsNews, HealthNews, RestNews, UseNews
     DEF News!Next

\* No key of a good cycle runs out before the next one writes it again.
LEMMA NewsHonest == NewsInv => News!SentimentHonest
<1> SUFFICES ASSUME NewsInv PROVE News!NoGapWhileGood
  BY DEF NewsInv, News!SentimentHonest
<1> SUFFICES ASSUME good > 0
             PROVE  /\ \A c \in {"crypto", "fx"} : tick < sentiment[c].until /\ tick < lastOk[c].until
                    /\ tick < health.until /\ health.ok = {"crypto", "fx"}
  BY TwoClasses DEF News!NoGapWhileGood, News!Fresh
<1>1. tick \in Nat /\ waited \in Nat /\ health.until \in Nat
  BY DEF NewsInv, NewsTyped
<1>2. Phase \in Int /\ Phase <= NewsInterval + 3 * MaxWait
  BY MarketsAssumption DEF NewsInv, NewsTyped, InItsTime, Phase, Due
<1>3. tick < health.until /\ health.ok = {"crypto", "fx"}
  BY <1>1, <1>2, MarketsAssumption DEF NewsInv, GoodSince
<1>4. ASSUME NEW c \in {"crypto", "fx"} PROVE tick < sentiment[c].until /\ tick < lastOk[c].until
  <2>1. sentiment[c].until \in Nat /\ lastOk[c].until \in Nat /\ Turn(c) \in Int /\ Turn(c) >= MaxWait
    BY TurnType DEF NewsInv, NewsTyped, Key
  <2>2. CASE Working /\ c \in scored
    BY <1>1, <1>2, <2>1, <2>2, MarketsAssumption DEF NewsInv, ScoredNow
  <2>3. CASE ~(Working /\ c \in scored)
    <3>1. 2 * MaxWait - Turn(c) + Phase <= NewsInterval + 3 * MaxWait
      <4>1. CASE ~Working
        BY <1>1, <2>1, <4>1, MarketsAssumption DEF NewsInv, NewsTyped, InItsTime, Working, Phase
      <4>2. CASE Working
        <5>1. stage # "health" /\ (index = 1 \/ c = "fx") /\ index \in {1, 2}
          BY <2>3, <4>2 DEF NewsInv, NewsTyped, GoodSince, Working
        <5> QED
          BY <1>1, <4>2, <5>1, MarketsAssumption DEF NewsInv, InItsTime, Working, Phase, Due, Turn
      <4> QED
        BY <4>1, <4>2
    <3>2. /\ sentiment[c].until - SentimentTtl >= tick - (2 * MaxWait - Turn(c) + Phase)
          /\ lastOk[c].until - HealthTtl >= tick - (2 * MaxWait - Turn(c) + Phase)
      BY DEF NewsInv, GoodSince
    <3> QED
      BY <1>1, <1>2, <2>1, <3>1, <3>2, MarketsAssumption
  <2> QED
    BY <2>2, <2>3
<1> QED
  BY <1>3, <1>4

-----------------------------------------------------------------------------
(* The agents.                                                             *)

Tool == Nat \X Nat
Result == [tool : Tool, error : BOOLEAN]
Message ==
    [role : {"assistant"}, stop : {"end_turn", "tool_use", "other"}, text : Nat, tools : Seq(Tool)]
        \cup [role : {"user"}, results : Seq(Result)]

AgentTyped ==
    /\ mode \in {"run", "stream"} /\ elapsed \in Int /\ agentPc \in {"ask", "tools", "done"}
    /\ iteration \in 0 .. MaxIterations /\ messages \in Seq(Message) /\ results \in Seq(Result)
    /\ called \in Seq(Tool)

Spoke(i) == messages[i].role = "assistant"

\* One reply per round, and none of them ended the turn.
RoundsCounted ==
    /\ agentPc = "ask" => Cardinality(Agent!Replies) = iteration
    /\ agentPc = "tools" => iteration < MaxIterations /\ Cardinality(Agent!Replies) = iteration + 1
    /\ agentPc = "done" => Cardinality(Agent!Replies) <= MaxIterations
    /\ agentPc # "done" => \A i \in Agent!Replies : messages[i].stop # "end_turn"

\* The tools a reply asked for have their results in the next message.
Answered(i) ==
    /\ i < Len(messages) /\ messages[i + 1].role = "user"
    /\ [k \in DOMAIN messages[i + 1].results |-> messages[i + 1].results[k].tool] = messages[i].tools

\* Where the tools of a round stand.
RoundHeard ==
    /\ agentPc = "ask" => \A i \in Agent!Replies : messages[i].tools # <<>> => Answered(i)
    /\ agentPc = "tools" =>
          /\ \A i \in Agent!Replies : i # Len(messages) /\ messages[i].tools # <<>> => Answered(i)
          /\ Len(messages) \in Agent!Replies
          /\ \E n \in 1 .. MaxTools :
                /\ messages[Len(messages)].tools = [k \in 1 .. n |-> <<iteration, k>>]
                /\ Len(results) < n
          /\ \A k \in 1 .. Len(results) : results[k].tool = <<iteration, k>>
    /\ agentPc = "ask" => results = <<>>

\* What a list of tools holds, and what replies ask for.
Members(tools) == { tools[i] : i \in DOMAIN tools }
AskedBy(S, history) == UNION { Members(history[i].tools) : i \in S }

\* The order of tools_called, for whichever list of them.
InOrderOf(tools) ==
    \A i, j \in DOMAIN tools : i < j =>
        tools[i][1] < tools[j][1] \/ (tools[i][1] = tools[j][1] /\ tools[i][2] < tools[j][2])

\* What has been called: all that was asked for before, and of this round what has a result.
CalledInOrder ==
    /\ InOrderOf(called)
    /\ agentPc = "ask" =>
          /\ Members(called) = AskedBy(Agent!Replies, messages)
          /\ \A i \in DOMAIN called : called[i][1] < iteration
    /\ agentPc = "tools" =>
          /\ Members(called) = AskedBy(Agent!Replies \ {Len(messages)}, messages)
                                  \cup { <<iteration, k>> : k \in 1 .. Len(results) }
          /\ \A i \in DOMAIN called :
                called[i][1] < iteration \/ (called[i][1] = iteration /\ called[i][2] <= Len(results))

\* A round begins in time, and each tool takes its limit at most.
Clocked ==
    /\ mode = "stream" => elapsed = 0
    /\ agentPc # "tools" => elapsed <= Timeout - Slack + MaxTools * ToolCap
    /\ agentPc = "tools" => elapsed <= Timeout - Slack + Len(results) * ToolCap

AgentInv ==
    AgentTyped /\ RoundsCounted /\ RoundHeard /\ CalledInOrder /\ Clocked /\ Agent!OutcomeTrue

LEMMA MessagesTyped ==
    ASSUME AgentTyped
    PROVE  /\ Len(messages) \in Nat /\ DOMAIN messages = 1 .. Len(messages)
           /\ Len(results) \in Nat /\ DOMAIN results = 1 .. Len(results)
           /\ Len(called) \in Nat /\ DOMAIN called = 1 .. Len(called)
           /\ Agent!Replies \subseteq 1 .. Len(messages) /\ IsFiniteSet(Agent!Replies)
           /\ \A i \in Agent!Replies : Spoke(i)
<1>1. Len(messages) \in Nat /\ DOMAIN messages = 1 .. Len(messages)
  BY DEF AgentTyped
<1>2. Len(results) \in Nat /\ DOMAIN results = 1 .. Len(results) /\ Len(called) \in Nat /\ DOMAIN called = 1 .. Len(called)
  BY DEF AgentTyped
<1>3. Agent!Replies \subseteq 1 .. Len(messages)
  BY <1>1 DEF Agent!Replies
<1>4. IsFiniteSet(1 .. Len(messages))
  BY <1>1, FS_Interval
<1>5. IsFiniteSet(Agent!Replies)
  BY <1>3, <1>4, FS_Subset
<1>6. \A i \in Agent!Replies : Spoke(i)
  BY DEF Agent!Replies, Agent!Said, Spoke
<1> QED
  BY <1>1, <1>2, <1>3, <1>5, <1>6

\* A message more, at the end.
LEMMA MessageAdded ==
    ASSUME AgentTyped, NEW m \in Message, messages' = Append(messages, m)
    PROVE  /\ messages' \in Seq(Message) /\ Len(messages') = Len(messages) + 1
           /\ DOMAIN messages' = 1 .. Len(messages) + 1 /\ messages'[Len(messages) + 1] = m
           /\ \A i \in 1 .. Len(messages) : messages'[i] = messages[i]
           /\ Agent!Replies' = IF m.role = "assistant" THEN Agent!Replies \cup {Len(messages) + 1} ELSE Agent!Replies
           /\ Len(messages) + 1 \notin Agent!Replies
<1>1. messages \in Seq(Message)
  BY DEF AgentTyped
<1>2. /\ messages' \in Seq(Message) /\ Len(messages') = Len(messages) + 1
      /\ DOMAIN messages' = 1 .. Len(messages) + 1 /\ messages'[Len(messages) + 1] = m
      /\ \A i \in 1 .. Len(messages) : messages'[i] = messages[i]
      /\ Len(messages) \in Nat /\ DOMAIN messages = 1 .. Len(messages)
  BY <1>1
<1>3. \A i \in 1 .. Len(messages) + 1 : i \in 1 .. Len(messages) \/ i = Len(messages) + 1
  BY <1>2
<1>4. Agent!Replies' = { i \in DOMAIN messages' : messages'[i].role = "assistant" }
  BY DEF Agent!Replies, Agent!Said
<1>5. Agent!Replies = { i \in DOMAIN messages : messages[i].role = "assistant" }
  BY DEF Agent!Replies, Agent!Said
<1>6. Agent!Replies' = IF m.role = "assistant" THEN Agent!Replies \cup {Len(messages) + 1} ELSE Agent!Replies
  BY <1>2, <1>3, <1>4, <1>5
<1> QED
  BY <1>2, <1>5, <1>6

\* The instance's Cardinality is the library's.
LEMMA AgentCardinality == \A S : Agent!Cardinality(S) = Cardinality(S)
BY DEF Agent!Cardinality, Cardinality

LEMMA AskedForMeans ==
    Agent!AskedFor(called) <=> InOrderOf(called) /\ Members(called) = AskedBy(Agent!Replies, messages)
BY DEF Agent!AskedFor, Agent!ToSet, InOrderOf, Members, AskedBy

LEMMA AskedSame ==
    ASSUME NEW S, NEW a, NEW b, \A i \in S : a[i] = b[i]
    PROVE  AskedBy(S, a) = AskedBy(S, b)
BY DEF AskedBy

LEMMA AskedMore ==
    ASSUME NEW S, NEW l, NEW a
    PROVE  AskedBy(S \cup {l}, a) = AskedBy(S, a) \cup Members(a[l].tools)
BY DEF AskedBy

LEMMA CalledAsAsked == ASSUME AgentInv, agentPc = "ask" PROVE Agent!AskedFor(called)
BY AskedForMeans DEF AgentInv, CalledInOrder

LEMMA MinOfTwo ==
    ASSUME NEW x \in Int, NEW y \in Int
    PROVE  /\ Agent!Min({x, y}) \in {x, y} /\ Agent!Min({x, y}) \in Int
           /\ Agent!Min({x, y}) <= x /\ Agent!Min({x, y}) <= y
<1>1. \E z \in {x, y} : \A w \in {x, y} : z =< w
  <2>1. CASE x >= y
    BY <2>1
  <2>2. CASE y >= x
    BY <2>2
  <2> QED
    BY <2>1, <2>2
<1> QED
  BY <1>1 DEF Agent!Min

\* How long a call of the model can take.
LEMMA CallInTime ==
    ASSUME AgentInv, Agent!TimeLeft, agentPc = "ask", NEW d \in Int, d <= Agent!ApiLimit, Agent!Pass(d)
    PROVE  elapsed' \in Int /\ elapsed' <= Timeout - Slack /\ (mode = "stream" => elapsed' = 0)
<1>1. CASE mode = "stream"
  BY <1>1, MarketsAssumption DEF Agent!Pass, AgentInv, Clocked
<1>2. CASE mode = "run"
  <2>1. Timeout - elapsed - Slack \in Int /\ elapsed \in Int /\ elapsed' = elapsed + d
    BY <1>2, MarketsAssumption DEF Agent!Pass, AgentInv, AgentTyped
  <2>2. Agent!ApiLimit <= Timeout - elapsed - Slack /\ Agent!ApiLimit \in Int
    <3> DEFINE x == Timeout - elapsed - Slack
    <3>1. Agent!ApiLimit = Agent!Min({x, ApiCap})
      BY <1>2 DEF Agent!ApiLimit
    <3>2. x \in Int /\ ApiCap \in Int
      BY <2>1, MarketsAssumption
    <3> HIDE DEF x
    <3>3. Agent!Min({x, ApiCap}) <= x /\ Agent!Min({x, ApiCap}) \in Int
      BY <3>2, MinOfTwo
    <3> QED
      BY <3>1, <3>2, <3>3 DEF x
  <2>3. elapsed' \in Int /\ elapsed' <= Timeout - Slack
    BY <2>1, <2>2, MarketsAssumption
  <2> QED
    BY <1>2, <2>3
<1> QED
  BY <1>1, <1>2 DEF AgentInv, AgentTyped

LEMMA Overshoot == MaxTools * ToolCap \in Nat
BY MarketsAssumption

\* A run that ends with an error leaves the history as it is.
LEMMA EndsInError ==
    ASSUME AgentInv, Agent!TooLate \/ Agent!CallTimesOut \/ Agent!CallFails \/ Agent!Exhausted
    PROVE  AgentInv'
<1>1. /\ agentPc = "ask" /\ agentPc' = "done"
      /\ UNCHANGED <<mode, iteration, messages, results, called>>
      /\ outcome'.answer = Agent!LastText(messages) /\ outcome'.tools = called /\ outcome'.error = TRUE
      /\ elapsed' = elapsed \/ \E d \in Int : d <= Agent!ApiLimit /\ Agent!TimeLeft /\ Agent!Pass(d)
  <2>1. CASE Agent!TooLate
    BY <2>1 DEF Agent!TooLate, Agent!Return, Agent!Asking
  <2>2. CASE Agent!Exhausted
    BY <2>2 DEF Agent!Exhausted, Agent!Return
  <2>3. CASE Agent!CallFails
    <3>1. \E d \in 0 .. Agent!ApiLimit : Agent!Pass(d)
      BY <2>3 DEF Agent!CallFails
    <3>2. Agent!ApiLimit \in Int
      <4>1. ApiCap \in Int /\ Timeout - elapsed - Slack \in Int
        BY MarketsAssumption DEF AgentInv, AgentTyped
      <4> QED
        BY <4>1, MinOfTwo DEF Agent!ApiLimit
    <3>3. Agent!TimeLeft /\ \E d \in Int : d <= Agent!ApiLimit /\ Agent!TimeLeft /\ Agent!Pass(d)
      BY <2>3, <3>1, <3>2 DEF Agent!CallFails
    <3> QED
      BY <2>3, <3>3 DEF Agent!CallFails, Agent!Return, Agent!Asking
  <2>4. CASE Agent!CallTimesOut
    <3>2. Agent!ApiLimit \in Int
      <4>1. ApiCap \in Int /\ Timeout - elapsed - Slack \in Int
        BY MarketsAssumption DEF AgentInv, AgentTyped
      <4> QED
        BY <4>1, MinOfTwo DEF Agent!ApiLimit
    <3>3. \E d \in Int : d <= Agent!ApiLimit /\ Agent!TimeLeft /\ Agent!Pass(d)
      BY <2>4, <3>2 DEF Agent!CallTimesOut
    <3>4. outcome'.answer = Agent!LastText(messages) /\ outcome'.tools = called /\ outcome'.error = TRUE
      BY <2>4 DEF Agent!CallTimesOut, Agent!Return
    <3>5. agentPc = "ask" /\ agentPc' = "done" /\ UNCHANGED <<mode, iteration, messages, results, called>>
      BY <2>4 DEF Agent!CallTimesOut, Agent!Return, Agent!Asking
    <3> QED
      BY <3>3, <3>4, <3>5
  <2> QED
    BY <2>1, <2>2, <2>3, <2>4
<1>2. elapsed' \in Int /\ (elapsed' <= Timeout - Slack \/ elapsed' = elapsed) /\ (mode = "stream" => elapsed' = 0)
  BY <1>1, CallInTime DEF AgentInv, AgentTyped, Clocked
<1>3. AgentTyped'
  BY <1>1, <1>2 DEF AgentInv, AgentTyped
<1>4. Agent!Replies' = Agent!Replies
  BY <1>1 DEF Agent!Replies, Agent!Said
<1>5. RoundsCounted'
  BY <1>1, <1>4 DEF AgentInv, AgentTyped, RoundsCounted
<1>6. RoundHeard' /\ CalledInOrder'
  BY <1>1 DEF AgentInv, RoundHeard, CalledInOrder
<1>7. Clocked'
  BY <1>1, <1>2, Overshoot, MarketsAssumption DEF AgentInv, AgentTyped, Clocked
<1>8. Agent!OutcomeTrue'
  <2>1. /\ outcome'.error = TRUE /\ outcome'.answer = Agent!LastText(messages) /\ outcome'.tools = called
    BY <1>1
  <2>2. ~(messages # <<>> /\ Agent!Said(Agent!Last(messages)) /\ Agent!Last(messages).stop = "end_turn")
    <3> SUFFICES ASSUME messages # <<>>, Agent!Said(Agent!Last(messages)) PROVE Agent!Last(messages).stop # "end_turn"
      OBVIOUS
    <3>1. Len(messages) \in DOMAIN messages
      BY DEF AgentInv, AgentTyped
    <3>2. Len(messages) \in Agent!Replies
      BY <3>1 DEF Agent!Replies, Agent!Last
    <3> QED
      BY <1>1, <3>2 DEF AgentInv, RoundsCounted, Agent!Last
  <2>3. Agent!AskedFor(called)
    BY <1>1, CalledAsAsked
  <2>4. Agent!AskedFor(called)'
    BY <1>1, <1>4, <2>3 DEF Agent!AskedFor
  <2>5. Agent!LastText(messages') = Agent!LastText(messages)
    BY <1>1
  <2> QED
    BY <1>1, <2>1, <2>2, <2>4, <2>5 DEF Agent!OutcomeTrue
<1> QED
  BY <1>3, <1>5, <1>6, <1>7, <1>8 DEF AgentInv

LEMMA ToolsOfRound ==
    ASSUME NEW n \in Nat, NEW r \in Nat
    PROVE  /\ [k \in 1 .. n |-> <<r, k>>] \in Seq(Tool) /\ (n = 0 => [k \in 1 .. n |-> <<r, k>>] = <<>>)
<1> DEFINE f == [k \in 1 .. n |-> <<r, k>>]
<1>1. f \in [1 .. n -> Tool]
  BY DEF Tool
<1>2. f \in Seq(Tool)
  <2> HIDE DEF f
  <2> QED
    BY <1>1, SeqDef
<1>3. n = 0 => f = <<>>
  OBVIOUS
<1> QED
  BY <1>2, <1>3

\* An answered reply stays one, whatever is added to the history.
LEMMA AnsweredStays ==
    ASSUME AgentTyped, NEW m \in Message, messages' = Append(messages, m), NEW i \in 1 .. Len(messages), Answered(i)
    PROVE  Answered(i)'
<1>1. Len(messages) \in Nat
  BY MessagesTyped
<1>2. i < Len(messages) /\ i + 1 \in 1 .. Len(messages)
  BY <1>1 DEF Answered
<1>3. messages'[i] = messages[i] /\ messages'[i + 1] = messages[i + 1] /\ Len(messages') = Len(messages) + 1
  BY <1>2, MessageAdded
<1> QED
  BY <1>1, <1>2, <1>3 DEF Answered

LEMMA ReplyEffect ==
    ASSUME AgentInv, NEW stop \in {"end_turn", "tool_use", "other"}, NEW talks \in BOOLEAN, NEW n \in 0 .. MaxTools,
           Agent!Reply(stop, talks, n)
    PROVE  \E m \in Message :
              /\ agentPc = "ask" /\ iteration < MaxIterations /\ (stop = "tool_use" <=> n > 0)
              /\ messages' = Append(messages, m) /\ m.role = "assistant" /\ m.stop = stop
              /\ m.tools = [k \in 1 .. n |-> <<iteration, k>>]
              /\ \/ /\ stop = "end_turn" /\ agentPc' = "done" /\ iteration' = iteration
                    /\ outcome'.answer = m.text /\ outcome'.tools = called /\ outcome'.error = FALSE
                    /\ outcome'.late = FALSE /\ outcome'.iterations = iteration + 1
                 \/ stop = "tool_use" /\ agentPc' = "tools" /\ iteration' = iteration
                 \/ /\ stop = "other" /\ agentPc' = "done" /\ iteration' = iteration
                    /\ outcome'.answer = Agent!LastText(messages') /\ outcome'.tools = called /\ outcome'.error = TRUE
                 \/ stop = "other" /\ agentPc' = "ask" /\ iteration' = iteration + 1
              /\ UNCHANGED <<mode, results, called>>
              /\ elapsed' \in Int /\ elapsed' <= Timeout - Slack /\ (mode = "stream" => elapsed' = 0)
<1> DEFINE m == [role |-> "assistant", stop |-> stop, text |-> IF talks THEN iteration + 1 ELSE Agent!NoText,
                 tools |-> [k \in 1 .. n |-> <<iteration, k>>]]
<1>1. n \in Nat /\ iteration \in Nat
  BY MarketsAssumption DEF AgentInv, AgentTyped
<1>2. m \in Message
  <2>1. (IF talks THEN iteration + 1 ELSE Agent!NoText) \in Nat
    BY <1>1 DEF Agent!NoText
  <2> QED
    BY <1>1, <2>1, ToolsOfRound DEF Message
<1>3. m.role = "assistant" /\ m.stop = stop /\ m.tools = [k \in 1 .. n |-> <<iteration, k>>]
  OBVIOUS
<1>4. /\ agentPc = "ask" /\ iteration < MaxIterations /\ (stop = "tool_use" <=> n > 0)
      /\ messages' = Append(messages, m) /\ UNCHANGED <<mode, results, called>>
      /\ Agent!TimeLeft /\ \E d \in 0 .. Agent!ApiLimit : Agent!Pass(d)
  BY DEF Agent!Reply, Agent!Asking
<1>5. elapsed' \in Int /\ elapsed' <= Timeout - Slack /\ (mode = "stream" => elapsed' = 0)
  <2>1. Agent!ApiLimit \in Int
    <3>1. ApiCap \in Int /\ Timeout - elapsed - Slack \in Int
      BY MarketsAssumption DEF AgentInv, AgentTyped
    <3> QED
      BY <3>1, MinOfTwo DEF Agent!ApiLimit
  <2> QED
    BY <1>4, <2>1, CallInTime
<1>6. messages'[Len(messages')] = m
  <2>1. messages \in Seq(Message)
    BY DEF AgentInv, AgentTyped
  <2> HIDE DEF m
  <2> QED
    BY <1>2, <1>4, <2>1
<1> HIDE DEF m
<1>7. CASE stop = "end_turn"
  <2>1. Agent!Return(Agent!Last(messages').text, iteration + 1, FALSE, FALSE) /\ iteration' = iteration
    BY <1>7 DEF Agent!Reply
  <2>2. Agent!Last(messages') = m
    BY <1>6 DEF Agent!Last
  <2> QED
    BY <1>2, <1>3, <1>4, <1>5, <1>7, <2>1, <2>2 DEF Agent!Return
<1>8. CASE stop = "tool_use"
  <2>1. agentPc' = "tools" /\ iteration' = iteration
    BY <1>8 DEF Agent!Reply
  <2> QED
    BY <1>2, <1>3, <1>4, <1>5, <1>8, <2>1
<1>9. CASE stop = "other" /\ mode = "run"
  <2>1. Agent!Return(Agent!LastText(messages'), MaxIterations, FALSE, TRUE) /\ iteration' = iteration
    BY <1>9 DEF Agent!Reply
  <2> QED
    BY <1>2, <1>3, <1>4, <1>5, <1>9, <2>1 DEF Agent!Return
<1>10. CASE stop = "other" /\ mode = "stream"
  <2>1. iteration' = iteration + 1 /\ agentPc' = agentPc
    BY <1>10 DEF Agent!Reply
  <2> QED
    BY <1>2, <1>3, <1>4, <1>5, <1>10, <2>1
<1> QED
  BY <1>7, <1>8, <1>9, <1>10 DEF AgentInv, AgentTyped

LEMMA ReplyKeeps ==
    ASSUME AgentInv, NEW stop \in {"end_turn", "tool_use", "other"}, NEW talks \in BOOLEAN,
           NEW n \in 0 .. MaxTools, Agent!Reply(stop, talks, n)
    PROVE  AgentInv'
<1>1. PICK m \in Message :
              /\ agentPc = "ask" /\ iteration < MaxIterations /\ (stop = "tool_use" <=> n > 0)
              /\ messages' = Append(messages, m) /\ m.role = "assistant" /\ m.stop = stop
              /\ m.tools = [k \in 1 .. n |-> <<iteration, k>>]
              /\ \/ /\ stop = "end_turn" /\ agentPc' = "done" /\ iteration' = iteration
                    /\ outcome'.answer = m.text /\ outcome'.tools = called /\ outcome'.error = FALSE
                    /\ outcome'.late = FALSE /\ outcome'.iterations = iteration + 1
                 \/ stop = "tool_use" /\ agentPc' = "tools" /\ iteration' = iteration
                 \/ /\ stop = "other" /\ agentPc' = "done" /\ iteration' = iteration
                    /\ outcome'.answer = Agent!LastText(messages') /\ outcome'.tools = called /\ outcome'.error = TRUE
                 \/ stop = "other" /\ agentPc' = "ask" /\ iteration' = iteration + 1
              /\ UNCHANGED <<mode, results, called>>
              /\ elapsed' \in Int /\ elapsed' <= Timeout - Slack /\ (mode = "stream" => elapsed' = 0)
  BY ReplyEffect
<1> DEFINE L == Len(messages) + 1
<1>2. /\ Len(messages) \in Nat /\ iteration \in Nat /\ iteration <= MaxIterations /\ n \in Nat /\ n <= MaxTools
      /\ Agent!Replies \subseteq 1 .. Len(messages) /\ IsFiniteSet(Agent!Replies)
  BY MessagesTyped, MarketsAssumption DEF AgentInv, AgentTyped
<1>3. /\ messages' \in Seq(Message) /\ Len(messages') = L /\ messages'[L] = m
      /\ \A i \in 1 .. Len(messages) : messages'[i] = messages[i]
      /\ Agent!Replies' = Agent!Replies \cup {L} /\ L \notin Agent!Replies
  BY <1>1, MessageAdded DEF AgentInv
<1>4. Cardinality(Agent!Replies') = iteration + 1
  <2>1. Cardinality(Agent!Replies) = iteration
    BY <1>1 DEF AgentInv, RoundsCounted
  <2> QED
    BY <1>2, <1>3, <2>1, FS_AddElement
<1>5. \A i \in Agent!Replies : i # L /\ i \in 1 .. Len(messages) /\ messages'[i] = messages[i]
  BY <1>2, <1>3
<1> HIDE DEF L
<1>6. n = 0 => DOMAIN m.tools = {} /\ m.tools = <<>>
  BY <1>1, <1>2, ToolsOfRound
<1>7. AgentTyped'
  BY <1>1, <1>2, <1>3, MarketsAssumption DEF AgentInv, AgentTyped
<1>8. RoundsCounted'
  <2>1. \A i \in Agent!Replies : messages[i].stop # "end_turn"
    BY <1>1 DEF AgentInv, RoundsCounted
  <2>2. agentPc' # "done" => \A i \in Agent!Replies' : messages'[i].stop # "end_turn"
    BY <1>1, <1>3, <1>5, <2>1
  <2>3. iteration + 1 <= MaxIterations
    BY <1>1, <1>2, MarketsAssumption
  <2> QED
    BY <1>1, <1>4, <2>2, <2>3 DEF RoundsCounted
<1>9. RoundHeard'
  <2>1. \A i \in Agent!Replies : messages'[i].tools # <<>> => Answered(i)'
    <3>1. \A i \in Agent!Replies : messages[i].tools # <<>> => Answered(i)
      BY <1>1 DEF AgentInv, RoundHeard
    <3> QED
      BY <1>1, <1>5, <3>1, AnsweredStays DEF AgentInv
  <2>2. results = <<>> /\ Len(results) = 0
    BY <1>1 DEF AgentInv, RoundHeard
  <2>3. CASE agentPc' = "tools"
    <3>1. n > 0 /\ L \in Agent!Replies' /\ messages'[L].tools = [k \in 1 .. n |-> <<iteration', k>>]
          /\ n \in 1 .. MaxTools /\ Len(results') < n /\ 1 .. Len(results') = {}
      BY <1>1, <1>2, <1>3, <2>2, <2>3, MarketsAssumption
    <3>2. \A i \in Agent!Replies' : i # L /\ messages'[i].tools # <<>> => Answered(i)'
      BY <1>3, <2>1
    <3> QED
      BY <1>3, <2>3, <3>1, <3>2 DEF RoundHeard
  <2>4. CASE agentPc' = "ask"
    <3>1. n = 0 /\ messages'[L].tools = <<>>
      BY <1>1, <1>2, <1>3, <1>6, <2>4
    <3> QED
      BY <1>1, <1>3, <2>1, <2>2, <2>4, <3>1 DEF RoundHeard
  <2>5. CASE agentPc' = "done"
    BY <2>5 DEF RoundHeard
  <2> QED
    BY <1>1, <2>3, <2>4, <2>5
<1>10. AskedBy(Agent!Replies, messages') = AskedBy(Agent!Replies, messages)
  BY <1>5, AskedSame
<1>11. AskedBy(Agent!Replies', messages') = AskedBy(Agent!Replies, messages) \cup Members(m.tools)
  <2>1. AskedBy(Agent!Replies \cup {L}, messages') = AskedBy(Agent!Replies, messages') \cup Members(messages'[L].tools)
    BY AskedMore
  <2> QED
    BY <1>3, <1>10, <2>1
<1>15. n = 0 => Members(m.tools) = {}
  BY <1>6 DEF Members
<1>12. CalledInOrder'
  <2>1. /\ InOrderOf(called) /\ \A i \in DOMAIN called : called[i][1] < iteration
        /\ Members(called) = AskedBy(Agent!Replies, messages)
    BY <1>1 DEF AgentInv, CalledInOrder
  <2>2. InOrderOf(called')
    BY <1>1, <2>1
  <2>3. CASE agentPc' = "tools"
    <3>1. Len(results') = 0 /\ 1 .. Len(results') = {} /\ iteration' = iteration
      BY <1>1, <2>3 DEF AgentInv, RoundHeard
    <3>2. Agent!Replies' \ {Len(messages')} = Agent!Replies
      BY <1>3
    <3>3. { <<iteration', k>> : k \in 1 .. Len(results') } = {}
      BY <3>1
    <3>4. Members(called') = AskedBy(Agent!Replies' \ {Len(messages')}, messages')
                                  \cup { <<iteration', k>> : k \in 1 .. Len(results') }
      BY <1>1, <1>10, <2>1, <3>2, <3>3
    <3>5. \A i \in DOMAIN called' : called'[i][1] < iteration'
      BY <1>1, <2>1, <3>1
    <3> QED
      BY <2>2, <2>3, <3>4, <3>5 DEF CalledInOrder
  <2>4. CASE agentPc' = "ask"
    <3>1. n = 0 /\ iteration' = iteration + 1
      BY <1>1, <1>2, <2>4
    <3>2. \A i \in DOMAIN called : called[i][1] < iteration + 1
      <4>1. \A i \in DOMAIN called : called[i][1] \in Nat
        BY DEF AgentInv, AgentTyped, Tool
      <4> QED
        BY <1>2, <2>1, <4>1
    <3>3. Members(called') = AskedBy(Agent!Replies', messages')
      BY <1>1, <1>11, <1>15, <2>1, <3>1
    <3>4. \A i \in DOMAIN called' : called'[i][1] < iteration'
      BY <1>1, <3>1, <3>2
    <3> QED
      BY <2>2, <2>4, <3>3, <3>4 DEF CalledInOrder
  <2>5. CASE agentPc' = "done"
    BY <2>2, <2>5 DEF CalledInOrder
  <2> QED
    BY <1>1, <2>3, <2>4, <2>5
<1>13. Clocked'
  <2>1. Len(results') * ToolCap = 0
    <3>1. Len(results') = 0
      BY <1>1 DEF AgentInv, RoundHeard
    <3> QED
      BY <3>1, MarketsAssumption
  <2> QED
    BY <1>1, <2>1, Overshoot, MarketsAssumption DEF Clocked
<1>14. Agent!OutcomeTrue'
  <2> SUFFICES ASSUME agentPc' = "done" PROVE Agent!OutcomeTrue'
    BY DEF Agent!OutcomeTrue
  <2>1. n = 0
    BY <1>1, <1>2
  <2>2. Agent!AskedFor(called)'
    <3>1. InOrderOf(called) /\ called' = called /\ Members(called) = AskedBy(Agent!Replies, messages)
      BY <1>1 DEF AgentInv, CalledInOrder
    <3>2. InOrderOf(called') /\ Members(called') = AskedBy(Agent!Replies', messages')
      BY <1>11, <1>15, <2>1, <3>1
    <3> QED
      BY <3>2 DEF Agent!AskedFor, Agent!ToSet, InOrderOf, Members, AskedBy
  <2>3. Agent!Last(messages') = m /\ messages' # <<>>
    BY <1>2, <1>3 DEF Agent!Last, L
  <2>4. CASE stop = "end_turn"
    <3>1. /\ outcome'.answer = m.text /\ outcome'.tools = called /\ outcome'.error = FALSE
          /\ outcome'.late = FALSE /\ outcome'.iterations = iteration + 1
      BY <1>1, <2>4
    <3> QED
      BY <1>1, <1>4, <2>2, <2>3, <2>4, <3>1, AgentCardinality DEF Agent!OutcomeTrue, Agent!Said
  <2>5. CASE stop = "other"
    <3>1. outcome'.answer = Agent!LastText(messages') /\ outcome'.tools = called /\ outcome'.error = TRUE
      BY <1>1, <2>5
    <3> QED
      BY <1>1, <2>2, <2>3, <2>5, <3>1 DEF Agent!OutcomeTrue, Agent!Said
  <2> QED
    BY <1>1, <2>4, <2>5
<1> QED
  BY <1>7, <1>8, <1>9, <1>12, <1>13, <1>14 DEF AgentInv

\* Nothing after tool `k' of round `r'.
Until(tools, r, k) == \A i \in DOMAIN tools : tools[i][1] < r \/ (tools[i][1] = r /\ tools[i][2] <= k)

\* One tool more is called.
LEMMA OneCalled ==
    ASSUME NEW run \in Seq(Tool), NEW r \in Nat, NEW before \in Nat, NEW k \in Nat, NEW more,
           InOrderOf(run), Until(run, r, before), k = before + 1, more = Append(run, <<r, k>>)
    PROVE  /\ more \in Seq(Tool) /\ InOrderOf(more) /\ Members(more) = Members(run) \cup {<<r, k>>}
           /\ Until(more, r, k)
<1>1. <<r, k>> \in Tool
  BY DEF Tool
<1>2. /\ Len(run) \in Nat /\ DOMAIN run = 1 .. Len(run) /\ \A i \in 1 .. Len(run) : run[i] \in Tool
      /\ more \in Seq(Tool) /\ Len(more) = Len(run) + 1 /\ DOMAIN more = 1 .. Len(run) + 1
      /\ more[Len(run) + 1] = <<r, k>> /\ \A i \in 1 .. Len(run) : more[i] = run[i]
  BY <1>1
<1>3. \A i \in 1 .. Len(run) + 1 : i \in 1 .. Len(run) \/ i = Len(run) + 1
  BY <1>2
<1>4. \A i \in 1 .. Len(run) : i \in 1 .. Len(run) + 1 /\ i < Len(run) + 1
  BY <1>2
<1>5. Len(run) + 1 \in 1 .. Len(run) + 1
  BY <1>2
<1>6. Members(more) = Members(run) \cup {<<r, k>>}
  BY <1>2, <1>3, <1>4, <1>5 DEF Members
<1>7. \A i \in 1 .. Len(run) : run[i][1] \in Nat /\ run[i][2] \in Nat
  BY <1>2 DEF Tool
<1>10. \A i \in DOMAIN run : run[i][1] < r \/ (run[i][1] = r /\ run[i][2] < k)
  BY <1>2, <1>7 DEF Until
<1>8. \A i \in DOMAIN more : more[i][1] < r \/ (more[i][1] = r /\ more[i][2] <= k)
  <2> SUFFICES ASSUME NEW i \in 1 .. Len(run) + 1
               PROVE  more[i][1] < r \/ (more[i][1] = r /\ more[i][2] <= k)
    BY <1>2
  <2>1. CASE i \in 1 .. Len(run)
    BY <1>2, <1>10, <1>7, <2>1
  <2>2. CASE i = Len(run) + 1
    BY <1>2, <2>2
  <2> QED
    BY <1>3, <2>1, <2>2
<1>9. InOrderOf(more)
  <2> SUFFICES ASSUME NEW i \in 1 .. Len(run) + 1, NEW j \in 1 .. Len(run) + 1, i < j
               PROVE  more[i][1] < more[j][1] \/ (more[i][1] = more[j][1] /\ more[i][2] < more[j][2])
    BY <1>2 DEF InOrderOf
  <2>1. i \in 1 .. Len(run)
    BY <1>2
  <2>2. CASE j \in 1 .. Len(run)
    <3>1. run[i][1] < run[j][1] \/ (run[i][1] = run[j][1] /\ run[i][2] < run[j][2])
      BY <1>2, <2>1, <2>2 DEF InOrderOf
    <3>2. more[i] = run[i] /\ more[j] = run[j]
      BY <1>2, <2>1, <2>2
    <3> QED
      BY <3>1, <3>2
  <2>3. CASE j = Len(run) + 1
    <3>1. run[i][1] < r \/ (run[i][1] = r /\ run[i][2] < k)
      BY <1>2, <1>10, <2>1
    <3>2. more[i] = run[i] /\ more[j][1] = r /\ more[j][2] = k
      BY <1>2, <2>1, <2>3
    <3> QED
      BY <3>1, <3>2
  <2> QED
    BY <1>3, <2>2, <2>3
<1> QED
  BY <1>2, <1>6, <1>8, <1>9 DEF Until

LEMMA OneResult ==
    ASSUME NEW so \in Seq(Result), NEW r \in Result, NEW more, more = Append(so, r)
    PROVE  /\ more \in Seq(Result) /\ Len(so) \in Nat /\ Len(more) = Len(so) + 1 /\ DOMAIN more = 1 .. Len(so) + 1
           /\ more[Len(so) + 1] = r /\ \A i \in 1 .. Len(so) : more[i] = so[i]
OBVIOUS

LEMMA OneMoreTimes == \A n \in Nat, c \in Nat : (n + 1) * c = n * c + c
OBVIOUS

LEMMA TimesAtMost ==
    ASSUME NEW n \in Nat, NEW m \in Nat, NEW c \in Nat, n <= m
    PROVE  n * c <= m * c /\ n * c \in Nat /\ m * c \in Nat
<1>1. PICK e \in Nat : m = n + e
  <2>1. m - n \in Nat /\ m = n + (m - n)
    OBVIOUS
  <2> QED
    BY <2>1
<1>2. m * c = n * c + e * c /\ n * c \in Nat /\ e * c \in Nat
  BY <1>1
<1> QED
  BY <1>2

\* What a tool does to the run: `w' tools were asked for.
LEMMA ToolEffect ==
    ASSUME AgentInv, Agent!RunTool
    PROVE  \E w \in 1 .. MaxTools, error \in BOOLEAN : \E all :
              /\ agentPc = "tools" /\ messages[Len(messages)].tools = [k \in 1 .. w |-> <<iteration, k>>]
              /\ Len(results) < w
              /\ all = Append(results, [tool |-> <<iteration, Len(results) + 1>>, error |-> error])
              /\ called' = Append(called, <<iteration, Len(results) + 1>>)
              /\ elapsed' \in Int /\ elapsed' <= elapsed + ToolCap /\ (mode = "stream" => elapsed' = elapsed)
              /\ UNCHANGED <<mode, outcome>>
              /\ \/ /\ Len(results) + 1 # w /\ agentPc' = "tools" /\ results' = all
                    /\ UNCHANGED <<messages, iteration>>
                 \/ /\ Len(results) + 1 = w /\ agentPc' = "ask" /\ results' = <<>>
                    /\ messages' = Append(messages, [role |-> "user", results |-> all])
                    /\ iteration' = iteration + 1
<1>1. agentPc = "tools"
  BY DEF Agent!RunTool
<1>2. PICK w \in 1 .. MaxTools :
         messages[Len(messages)].tools = [k \in 1 .. w |-> <<iteration, k>>] /\ Len(results) < w
  BY <1>1 DEF AgentInv, RoundHeard
<1>3. Len(results) \in Nat /\ w \in Nat /\ Len(results) + 1 \in 1 .. w
  BY <1>2, MessagesTyped, MarketsAssumption DEF AgentInv
<1>4. Len([k \in 1 .. w |-> <<iteration, k>>]) = w
  BY <1>3
<1> DEFINE asked == Agent!Last(messages).tools
           tool == asked[Len(results) + 1]
           done == Len(results) + 1 = Len(asked)
<1>5. asked = [k \in 1 .. w |-> <<iteration, k>>]
  BY <1>2 DEF Agent!Last
<1>6. tool = <<iteration, Len(results) + 1>> /\ (done <=> Len(results) + 1 = w)
  BY <1>3, <1>4, <1>5
<1>7. PICK d \in 0 .. ToolCap, error \in BOOLEAN :
         /\ Agent!Pass(d)
         /\ results' = IF done THEN <<>> ELSE Append(results, [tool |-> tool, error |-> error])
         /\ messages' = IF done THEN Append(messages, [role |-> "user",
                                               results |-> Append(results, [tool |-> tool, error |-> error])])
                        ELSE messages
  BY DEF Agent!RunTool
<1>8. /\ called' = Append(called, tool) /\ agentPc' = (IF done THEN "ask" ELSE "tools")
      /\ iteration' = (IF done THEN iteration + 1 ELSE iteration) /\ UNCHANGED <<mode, outcome>>
  BY DEF Agent!RunTool
<1>9. elapsed' \in Int /\ elapsed' <= elapsed + ToolCap /\ (mode = "stream" => elapsed' = elapsed)
  BY <1>7, MarketsAssumption DEF Agent!Pass, AgentInv, AgentTyped
<1> DEFINE all == Append(results, [tool |-> <<iteration, Len(results) + 1>>, error |-> error])
<1>10. CASE done
  <2>1. /\ Len(results) + 1 = w /\ agentPc' = "ask" /\ results' = <<>> /\ iteration' = iteration + 1
        /\ messages' = Append(messages, [role |-> "user", results |-> all])
    BY <1>6, <1>7, <1>8, <1>10
  <2> HIDE DEF asked, done
  <2> QED
    BY <1>1, <1>2, <1>6, <1>8, <1>9, <2>1
<1>11. CASE ~done
  <2>1. /\ Len(results) + 1 # w /\ agentPc' = "tools" /\ results' = all /\ UNCHANGED <<messages, iteration>>
    BY <1>6, <1>7, <1>8, <1>11
  <2> HIDE DEF asked, done
  <2> QED
    BY <1>1, <1>2, <1>6, <1>8, <1>9, <2>1
<1> QED
  BY <1>10, <1>11

\* A round's tools and results, while it lasts.
LEMMA ToolKeeps == ASSUME AgentInv, Agent!RunTool PROVE AgentInv'
<1>0. PICK w \in 1 .. MaxTools, error \in BOOLEAN : \E all :
              /\ agentPc = "tools" /\ messages[Len(messages)].tools = [k \in 1 .. w |-> <<iteration, k>>]
              /\ Len(results) < w
              /\ all = Append(results, [tool |-> <<iteration, Len(results) + 1>>, error |-> error])
              /\ called' = Append(called, <<iteration, Len(results) + 1>>)
              /\ elapsed' \in Int /\ elapsed' <= elapsed + ToolCap /\ (mode = "stream" => elapsed' = elapsed)
              /\ UNCHANGED <<mode, outcome>>
              /\ \/ /\ Len(results) + 1 # w /\ agentPc' = "tools" /\ results' = all
                    /\ UNCHANGED <<messages, iteration>>
                 \/ /\ Len(results) + 1 = w /\ agentPc' = "ask" /\ results' = <<>>
                    /\ messages' = Append(messages, [role |-> "user", results |-> all])
                    /\ iteration' = iteration + 1
  BY ToolEffect
<1>1. PICK all :
              /\ agentPc = "tools" /\ messages[Len(messages)].tools = [k \in 1 .. w |-> <<iteration, k>>]
              /\ Len(results) < w
              /\ all = Append(results, [tool |-> <<iteration, Len(results) + 1>>, error |-> error])
              /\ called' = Append(called, <<iteration, Len(results) + 1>>)
              /\ elapsed' \in Int /\ elapsed' <= elapsed + ToolCap /\ (mode = "stream" => elapsed' = elapsed)
              /\ UNCHANGED <<mode, outcome>>
              /\ \/ /\ Len(results) + 1 # w /\ agentPc' = "tools" /\ results' = all
                    /\ UNCHANGED <<messages, iteration>>
                 \/ /\ Len(results) + 1 = w /\ agentPc' = "ask" /\ results' = <<>>
                    /\ messages' = Append(messages, [role |-> "user", results |-> all])
                    /\ iteration' = iteration + 1
  BY <1>0
<1> DEFINE R == Len(results) + 1
           L == Len(messages)
<1>2. /\ Len(results) \in Nat /\ R \in Nat /\ R \in 1 .. w /\ w \in Nat /\ w <= MaxTools
      /\ L \in Nat /\ L \in 1 .. L /\ L \in Agent!Replies /\ Agent!Replies \subseteq 1 .. L
      /\ iteration \in Nat /\ iteration < MaxIterations
  <2>1. L \in Agent!Replies /\ Agent!Replies \subseteq 1 .. L /\ L \in Nat /\ Len(results) \in Nat
    BY <1>1, MessagesTyped DEF AgentInv, RoundHeard
  <2>2. iteration \in Nat /\ iteration < MaxIterations
    BY <1>1, MarketsAssumption DEF AgentInv, AgentTyped, RoundsCounted
  <2>3. w \in Nat /\ w <= MaxTools /\ R \in Nat /\ R \in 1 .. w
    BY <1>1, <2>1, MarketsAssumption
  <2> QED
    BY <2>1, <2>2, <2>3
<1>3. [tool |-> <<iteration, R>>, error |-> error] \in Result
  <2>1. <<iteration, R>> \in Tool
    BY <1>2 DEF Tool
  <2> QED
    BY <2>1 DEF Result
<1>4. /\ all \in Seq(Result) /\ Len(all) = R /\ DOMAIN all = 1 .. R
      /\ all[R].tool = <<iteration, R>> /\ \A i \in 1 .. Len(results) : all[i] = results[i]
  <2>1. results \in Seq(Result)
    BY DEF AgentInv, AgentTyped
  <2> QED
    BY <1>1, <1>3, <2>1, OneResult
<1>5. \A k \in 1 .. R : all[k].tool = <<iteration, k>>
  <2>1. \A k \in 1 .. Len(results) : results[k].tool = <<iteration, k>>
    BY <1>1 DEF AgentInv, RoundHeard
  <2>2. \A k \in 1 .. R : k \in 1 .. Len(results) \/ k = R
    BY <1>2
  <2> QED
    BY <1>4, <2>1, <2>2
<1>6. /\ called' \in Seq(Tool) /\ InOrderOf(called') /\ Members(called') = Members(called) \cup {<<iteration, R>>}
      /\ \A i \in DOMAIN called' : called'[i][1] < iteration \/ (called'[i][1] = iteration /\ called'[i][2] <= R)
  <2>1. called \in Seq(Tool) /\ InOrderOf(called)
    BY DEF AgentInv, AgentTyped, CalledInOrder
  <2>2. Until(called, iteration, Len(results))
    BY <1>1 DEF AgentInv, CalledInOrder, Until
  <2>3. called' = Append(called, <<iteration, R>>)
    BY <1>1
  <2>4. R \in Nat /\ iteration \in Nat /\ Len(results) \in Nat /\ R = Len(results) + 1
    BY <1>2
  <2> HIDE DEF R
  <2> DEFINE more == Append(called, <<iteration, R>>)
  <2>5. /\ more \in Seq(Tool) /\ InOrderOf(more) /\ Members(more) = Members(called) \cup {<<iteration, R>>}
        /\ Until(more, iteration, R)
    <3>1. more = Append(called, <<iteration, R>>)
      OBVIOUS
    <3> HIDE DEF more
    <3>2. \A before \in Nat : \A k \in Nat : \A q :
             InOrderOf(called) /\ Until(called, iteration, before) /\ k = before + 1
             /\ q = Append(called, <<iteration, k>>)
                => /\ q \in Seq(Tool) /\ InOrderOf(q) /\ Members(q) = Members(called) \cup {<<iteration, k>>}
                   /\ Until(q, iteration, k)
      BY <2>1, <2>4, OneCalled
    <3>3. InOrderOf(called) /\ Until(called, iteration, Len(results))
      BY <2>1, <2>2
    <3>4. Len(results) \in Nat /\ R \in Nat /\ R = Len(results) + 1 /\ more = Append(called, <<iteration, R>>)
      BY <2>4, <3>1
    <3> QED
      BY <3>2, <3>3, <3>4
  <2> HIDE DEF more
  <2>6. called' = more
    BY <2>3 DEF more
  <2> QED
    BY <2>5, <2>6 DEF Until
<1>7. Members(called') = AskedBy(Agent!Replies \ {L}, messages) \cup { <<iteration, k>> : k \in 1 .. R }
  <2>1. Members(called) = AskedBy(Agent!Replies \ {L}, messages) \cup { <<iteration, k>> : k \in 1 .. Len(results) }
    BY <1>1 DEF AgentInv, CalledInOrder
  <2>2. 1 .. R = 1 .. Len(results) \cup {R}
    BY <1>2
  <2>3. { <<iteration, k>> : k \in 1 .. R } = { <<iteration, k>> : k \in 1 .. Len(results) } \cup {<<iteration, R>>}
    BY <2>2
  <2> QED
    BY <1>6, <2>1, <2>3
<1>8. /\ (mode = "stream" => elapsed = 0) /\ elapsed \in Int
      /\ elapsed' <= Timeout - Slack + R * ToolCap /\ R * ToolCap \in Nat
  <2>1. elapsed <= Timeout - Slack + Len(results) * ToolCap /\ elapsed \in Int /\ (mode = "stream" => elapsed = 0)
    BY <1>1 DEF AgentInv, AgentTyped, Clocked
  <2>2. R * ToolCap = Len(results) * ToolCap + ToolCap
    BY <1>2, MarketsAssumption, OneMoreTimes
  <2>3. Len(results) * ToolCap \in Nat
    BY <1>2, MarketsAssumption, TimesAtMost
  <2> QED
    BY <1>1, <2>1, <2>2, <2>3, MarketsAssumption
<1>9. \A i \in Agent!Replies : i # L /\ messages[i].tools # <<>> => Answered(i)
  BY <1>1 DEF AgentInv, RoundHeard
<1>10. \A i \in Agent!Replies : messages[i].stop # "end_turn"
  BY <1>1 DEF AgentInv, RoundsCounted
<1>11. Cardinality(Agent!Replies) = iteration + 1
  BY <1>1 DEF AgentInv, RoundsCounted
<1>12. Agent!OutcomeTrue'
  BY <1>1 DEF Agent!OutcomeTrue
<1>13. mode' \in {"run", "stream"} /\ elapsed' \in Int /\ messages \in Seq(Message)
  BY <1>1 DEF AgentInv, AgentTyped
<1>14. CASE /\ R # w /\ agentPc' = "tools" /\ results' = all /\ UNCHANGED <<messages, iteration>>
  <2>1. Agent!Replies' = Agent!Replies /\ Len(results') = R
    BY <1>4, <1>14 DEF Agent!Replies, Agent!Said
  <2>2. AgentTyped'
    BY <1>4, <1>6, <1>13, <1>14 DEF AgentInv, AgentTyped
  <2>3. RoundsCounted'
    BY <1>2, <1>10, <1>11, <1>14, <2>1 DEF RoundsCounted
  <2>4. RoundHeard'
    <3>1. \A i \in Agent!Replies' : i # Len(messages') /\ messages'[i].tools # <<>> => Answered(i)'
      BY <1>9, <1>14, <2>1 DEF Answered
    <3>2. Len(messages') \in Agent!Replies'
      BY <1>2, <1>14, <2>1
    <3>3. messages'[Len(messages')].tools = [k \in 1 .. w |-> <<iteration', k>>] /\ Len(results') < w
      BY <1>1, <1>2, <1>14, <2>1
    <3>4. \A k \in 1 .. Len(results') : results'[k].tool = <<iteration', k>>
      BY <1>5, <1>14, <2>1
    <3> QED
      BY <1>14, <3>1, <3>2, <3>3, <3>4 DEF RoundHeard
  <2>5. CalledInOrder'
    <3>1. AskedBy(Agent!Replies' \ {Len(messages')}, messages') = AskedBy(Agent!Replies \ {L}, messages)
      BY <1>14, <2>1
    <3>2. { <<iteration', k>> : k \in 1 .. Len(results') } = { <<iteration, k>> : k \in 1 .. R }
      BY <1>14, <2>1
    <3>3. \A i \in DOMAIN called' : called'[i][1] < iteration' \/ (called'[i][1] = iteration' /\ called'[i][2] <= Len(results'))
      BY <1>6, <1>14, <2>1
    <3> QED
      BY <1>6, <1>7, <1>14, <3>1, <3>2, <3>3 DEF CalledInOrder
  <2>6. Clocked'
    BY <1>1, <1>8, <1>14, <2>1 DEF Clocked
  <2> QED
    BY <1>12, <2>2, <2>3, <2>4, <2>5, <2>6 DEF AgentInv
<1>15. CASE /\ R = w /\ agentPc' = "ask" /\ results' = <<>> /\ iteration' = iteration + 1
            /\ messages' = Append(messages, [role |-> "user", results |-> all])
  <2> DEFINE m == [role |-> "user", results |-> all]
  <2>1. m \in Message /\ m.role = "user" /\ m.results = all
    BY <1>4 DEF Message
  <2> HIDE DEF m
  <2>2. messages' = Append(messages, m)
    BY <1>15 DEF m
  <2>3. /\ messages' \in Seq(Message) /\ Len(messages') = L + 1 /\ messages'[L + 1] = m
        /\ \A i \in 1 .. L : messages'[i] = messages[i]
        /\ Agent!Replies' = Agent!Replies
    BY <2>1, <2>2, MessageAdded DEF AgentInv
  <2>4. \A i \in Agent!Replies : i \in 1 .. L /\ messages'[i] = messages[i]
    BY <1>2, <2>3
  <2>5. messages[L].tools = [k \in 1 .. R |-> <<iteration, k>>]
    BY <1>1, <1>15
  <2>6. iteration' \in 0 .. MaxIterations
    BY <1>2, <1>15, MarketsAssumption
  <2>7. AgentTyped'
    <3>1. results' \in Seq(Result)
      BY <1>15
    <3> QED
      BY <1>6, <1>13, <1>15, <2>3, <2>6, <3>1 DEF AgentTyped
  <2>8. RoundsCounted'
    BY <1>10, <1>11, <1>15, <2>3, <2>4 DEF RoundsCounted
  <2>9. RoundHeard'
    <3>1. ASSUME NEW i \in Agent!Replies, i = L PROVE Answered(i)'
      <4>1. i < Len(messages') /\ messages'[i + 1].role = "user" /\ messages'[i + 1].results = all
        BY <1>2, <2>1, <2>3, <3>1
      <4>2. messages'[i].tools = [k \in 1 .. R |-> <<iteration, k>>]
        BY <1>2, <2>3, <2>5, <3>1
      <4>3. [k \in DOMAIN all |-> all[k].tool] = [k \in 1 .. R |-> <<iteration, k>>]
        BY <1>4, <1>5
      <4>4. /\ i < Len(messages') /\ messages'[i + 1].role = "user"
            /\ [k \in DOMAIN messages'[i + 1].results |-> messages'[i + 1].results[k].tool] = messages'[i].tools
        BY <4>1, <4>2, <4>3
      <4> QED
        BY <4>4 DEF Answered
    <3>2. ASSUME NEW i \in Agent!Replies, i # L, messages'[i].tools # <<>> PROVE Answered(i)'
      <4>1. Answered(i)
        BY <1>9, <2>4, <3>2
      <4> QED
        BY <2>1, <2>2, <2>4, <4>1, AnsweredStays DEF AgentInv
    <3>3. \A i \in Agent!Replies' : messages'[i].tools # <<>> => Answered(i)'
      BY <2>3, <3>1, <3>2
    <3> QED
      BY <1>15, <3>3 DEF RoundHeard
  <2>10. CalledInOrder'
    <3>1. AskedBy(Agent!Replies, messages') = AskedBy(Agent!Replies, messages)
      BY <2>4, AskedSame
    <3>2. Agent!Replies = (Agent!Replies \ {L}) \cup {L}
      BY <1>2
    <3>3. AskedBy((Agent!Replies \ {L}) \cup {L}, messages) = AskedBy(Agent!Replies \ {L}, messages) \cup Members(messages[L].tools)
      BY AskedMore
    <3>4. Members(messages[L].tools) = { <<iteration, k>> : k \in 1 .. R }
      BY <2>5 DEF Members
    <3>5. Members(called') = AskedBy(Agent!Replies', messages')
      BY <1>7, <2>3, <3>1, <3>2, <3>3, <3>4
    <3>6. \A i \in DOMAIN called' : called'[i][1] < iteration'
      <4>1. \A i \in DOMAIN called' : called'[i][1] \in Nat
        BY <1>6 DEF Tool
      <4> QED
        BY <1>2, <1>6, <1>15, <4>1
    <3> QED
      BY <1>6, <1>15, <3>5, <3>6 DEF CalledInOrder
  <2>11. Clocked'
    <3>1. R * ToolCap <= MaxTools * ToolCap /\ MaxTools * ToolCap \in Nat
      BY <1>2, MarketsAssumption, TimesAtMost
    <3> HIDE DEF R
    <3>2. elapsed' <= Timeout - Slack + MaxTools * ToolCap
      BY <1>8, <1>13, <3>1, MarketsAssumption
    <3> QED
      BY <1>1, <1>8, <1>15, <3>2 DEF Clocked
  <2> QED
    BY <1>12, <2>7, <2>8, <2>9, <2>10, <2>11 DEF AgentInv
<1> QED
  BY <1>1, <1>14, <1>15

LEMMA AgentStart == Agent!Init => AgentInv
<1> SUFFICES ASSUME Agent!Init PROVE AgentInv
  OBVIOUS
<1>1. /\ mode \in {"run", "stream"} /\ elapsed = 0 /\ agentPc = "ask" /\ iteration = 0
      /\ messages = <<>> /\ results = <<>> /\ called = <<>>
  BY DEF Agent!Init
<1>2. AgentTyped
  BY <1>1, MarketsAssumption DEF AgentTyped
<1>3. Agent!Replies = {}
  BY <1>1 DEF Agent!Replies
<1>4. Cardinality(Agent!Replies) = 0
  BY <1>3, FS_EmptySet
<1>5. RoundsCounted /\ RoundHeard
  BY <1>1, <1>3, <1>4 DEF RoundsCounted, RoundHeard
<1>6. CalledInOrder
  BY <1>1, <1>3 DEF CalledInOrder, InOrderOf, Members, AskedBy
<1>7. Clocked
  BY <1>1, Overshoot, MarketsAssumption DEF Clocked
<1>8. Agent!OutcomeTrue
  BY <1>1 DEF Agent!OutcomeTrue
<1> QED
  BY <1>2, <1>5, <1>6, <1>7, <1>8 DEF AgentInv

LEMMA AgentStep == AgentInv /\ [Agent!Next]_(Agent!vars) => AgentInv'
<1> SUFFICES ASSUME AgentInv, [Agent!Next]_(Agent!vars) PROVE AgentInv'
  OBVIOUS
<1>1. CASE Agent!TooLate \/ Agent!CallTimesOut \/ Agent!CallFails \/ Agent!Exhausted
  BY <1>1, EndsInError
<1>2. CASE Agent!RunTool
  BY <1>2, ToolKeeps
<1>3. CASE \E stop \in {"end_turn", "tool_use", "other"}, talks \in BOOLEAN, n \in 0 .. MaxTools :
              Agent!Reply(stop, talks, n)
  BY <1>3, ReplyKeeps
<1>4. CASE UNCHANGED Agent!vars
  <2>1. UNCHANGED <<mode, elapsed, agentPc, iteration, messages, results, called, outcome>>
    BY <1>4 DEF Agent!vars
  <2>2. Agent!Replies' = Agent!Replies
    BY <2>1 DEF Agent!Replies, Agent!Said
  <2>3. AgentTyped' /\ RoundsCounted' /\ Clocked'
    BY <2>1, <2>2 DEF AgentInv, AgentTyped, RoundsCounted, Clocked
  <2>4. RoundHeard'
    BY <2>1, <2>2 DEF AgentInv, RoundHeard, Answered
  <2>5. CalledInOrder'
    BY <2>1, <2>2 DEF AgentInv, CalledInOrder
  <2>6. Agent!OutcomeTrue'
    BY <2>1, <2>2 DEF AgentInv, Agent!OutcomeTrue, Agent!AskedFor, Agent!Said, Agent!Last
  <2> QED
    BY <2>3, <2>4, <2>5, <2>6 DEF AgentInv
<1> QED
  BY <1>1, <1>2, <1>3, <1>4 DEF Agent!Next

\* What the invariant says of a run of an agent.
LEMMA AgentHonest == AgentInv => Agent!AgentAccounted
<1> SUFFICES ASSUME AgentInv PROVE Agent!AgentAccounted
  OBVIOUS
<1>1. Agent!EveryToolAnswered
  <2>1. ASSUME NEW i \in DOMAIN messages, Agent!Said(messages[i]), messages[i].tools # <<>>, agentPc = "ask"
        PROVE  /\ i < Len(messages) /\ ~Agent!Said(messages[i + 1])
               /\ [k \in DOMAIN messages[i + 1].results |-> messages[i + 1].results[k].tool] = messages[i].tools
    <3>1. i \in Agent!Replies
      BY <2>1 DEF Agent!Replies
    <3>2. Answered(i)
      BY <2>1, <3>1 DEF AgentInv, RoundHeard
    <3> QED
      BY <3>2 DEF Answered, Agent!Said
  <2> QED
    BY <2>1, CalledAsAsked DEF Agent!EveryToolAnswered
<1>2. Agent!InTime
  <2>1. Cardinality(Agent!Replies) <= MaxIterations
    BY MarketsAssumption DEF AgentInv, AgentTyped, RoundsCounted
  <2>2. elapsed <= Timeout - Slack + MaxTools * ToolCap
    <3>1. CASE agentPc # "tools"
      BY <3>1 DEF AgentInv, Clocked
    <3>2. CASE agentPc = "tools"
      <4>1. elapsed <= Timeout - Slack + Len(results) * ToolCap /\ elapsed \in Int
        BY <3>2 DEF AgentInv, AgentTyped, Clocked
      <4>2. Len(results) \in Nat /\ Len(results) <= MaxTools
        <5>1. Len(results) \in Nat
          BY MessagesTyped DEF AgentInv
        <5>2. PICK n \in 1 .. MaxTools : Len(results) < n
          BY <3>2 DEF AgentInv, RoundHeard
        <5> QED
          BY <5>1, <5>2, MarketsAssumption
      <4>3. /\ Len(results) * ToolCap <= MaxTools * ToolCap
            /\ Len(results) * ToolCap \in Nat /\ MaxTools * ToolCap \in Nat
        BY <4>2, MarketsAssumption, TimesAtMost
      <4> QED
        BY <4>1, <4>3, MarketsAssumption
    <3> QED
      BY <3>1, <3>2
  <2> QED
    BY <2>1, <2>2, AgentCardinality DEF Agent!InTime
<1> QED
  BY <1>1, <1>2 DEF AgentInv, Agent!AgentAccounted

-----------------------------------------------------------------------------
(* The documents.                                                          *)

Read == { [confidence |-> 3, rules |-> {"a"}, limit |-> 0], [confidence |-> 1, rules |-> {"a", "b"}, limit |-> 2] }
CallState == {"new", "embed", "analyse", "sadd", "get", "srem", "done"}
Point == [by : Uploads, vector : Nat]

DocTyped ==
    /\ callPc \in [Uploads \cup Lists \cup Deletes -> CallState]
    /\ chunks \in [Uploads -> Nat] /\ sections \in [Uploads -> Nat]
    /\ vectors \in [Uploads -> Seq(Nat)] /\ found \in [Uploads -> Seq(Read \cup {Doc!Failed})]
    /\ points \in Seq(Point) /\ listed \in BOOLEAN /\ newest \in Uploads \cup {"nobody"}

\* What has been embedded is each its own chunk's, or nothing.
VectorsOwn ==
    /\ \A u \in Uploads : /\ Len(vectors[u]) <= chunks[u]
                          /\ \A i \in 1 .. Len(vectors[u]) : vectors[u][i] \in {0, i}
                          /\ callPc[u] = "new" => vectors[u] = <<>>
    /\ \A i \in 1 .. Len(points) : points[i].vector \in {0, i}

\* A section is analysed once, of a text that has any.
SectionsRead ==
    \A u \in Uploads : /\ Len(found[u]) <= sections[u]
                       /\ callPc[u] = "new" => found[u] = <<>>
                       /\ callPc[u] \in {"analyse", "sadd"} => sections[u] > 0

\* The profile is one that an upload made, which makes no other.
ProfileMade ==
    profile # Doc!Nothing =>
        \E u \in Uploads : /\ profile = Doc!ProfileOf(u) /\ callPc[u] \in {"sadd", "done"}
                           /\ Len(found[u]) = sections[u] /\ sections[u] > 0

\* How far the upload is that nothing came between.
NewestAlone ==
    newest # "nobody" =>
        /\ callPc[newest] # "new"
        /\ \A v \in Uploads : v # newest => ~Doc!Running(v)
        /\ callPc[newest] # "embed" => /\ chunks[newest] <= Len(points)
                                       /\ \A i \in 1 .. chunks[newest] : points[i].by = newest
        /\ callPc[newest] = "sadd" => profile # Doc!Nothing /\ profile.by = newest
        /\ callPc[newest] = "done" /\ sections[newest] > 0 =>
              profile # Doc!Nothing /\ profile.by = newest /\ listed /\ ~Doc!Removing

DocInv == DocTyped /\ VectorsOwn /\ SectionsRead /\ ProfileMade /\ NewestAlone

LEMMA ReadTyped ==
    /\ \A a \in Read : a # Doc!Failed /\ a.confidence \in Nat /\ a.limit \in Nat
    /\ Doc!NotStated = 0
<1>1. \A a \in Read : a.confidence \in {1, 3} /\ a.limit \in {0, 2}
  BY DEF Read
<1>2. Doc!Failed.confidence = 0
  BY DEF Doc!Failed
<1>3. \A a \in Read : a # Doc!Failed /\ a.confidence \in Nat /\ a.limit \in Nat
  BY <1>1, <1>2
<1> QED
  BY <1>3 DEF Doc!NotStated

LEMMA DocCardinality == \A S : Doc!Cardinality(S) = Cardinality(S)
BY DEF Doc!Cardinality, Cardinality

LEMMA AnsweredTyped ==
    ASSUME DocTyped, NEW u \in Uploads
    PROVE  /\ Len(found[u]) \in Nat /\ DOMAIN found[u] = 1 .. Len(found[u])
           /\ Doc!Answered(u) \subseteq 1 .. Len(found[u]) /\ IsFiniteSet(Doc!Answered(u))
           /\ IsFiniteSet(1 .. Len(found[u])) /\ Cardinality(1 .. Len(found[u])) = Len(found[u])
           /\ \A i \in Doc!Answered(u) : found[u][i] \in Read /\ i \in Int
           /\ \A i \in 1 .. Len(found[u]) : i \notin Doc!Answered(u) => found[u][i] = Doc!Failed
<1>1. found[u] \in Seq(Read \cup {Doc!Failed})
  BY DEF DocTyped
<1>2. /\ Len(found[u]) \in Nat /\ DOMAIN found[u] = 1 .. Len(found[u])
      /\ \A i \in 1 .. Len(found[u]) : found[u][i] \in Read \cup {Doc!Failed}
  BY <1>1
<1>3. Doc!Answered(u) \subseteq 1 .. Len(found[u])
  BY <1>2 DEF Doc!Answered
<1>4. IsFiniteSet(1 .. Len(found[u])) /\ Cardinality(1 .. Len(found[u])) = Len(found[u])
  BY <1>2, FS_Interval
<1>5. IsFiniteSet(Doc!Answered(u))
  BY <1>3, <1>4, FS_Subset
<1>6. \A i \in Doc!Answered(u) : found[u][i] \in Read /\ i \in Int
  BY <1>2 DEF Doc!Answered
<1>7. \A i \in 1 .. Len(found[u]) : i \notin Doc!Answered(u) => found[u][i] = Doc!Failed
  BY <1>2 DEF Doc!Answered
<1> QED
  BY <1>2, <1>3, <1>4, <1>5, <1>6, <1>7

\* The first of some sections.
LEMMA FirstOf ==
    ASSUME NEW S, S \subseteq Int, IsFiniteSet(S), S # {}
    PROVE  Doc!Min(S) \in S
<1>1. \E x \in S : \A y \in S : x <= y
  BY Smallest
<1> QED
  BY <1>1 DEF Doc!Min

\* There is a surest of some findings.
LEMMA Surest ==
    ASSUME NEW S, IsFiniteSet(S), S # {}, NEW f, \A i \in S : f[i].confidence \in Nat
    PROVE  \E i \in S : \A j \in S : f[j].confidence <= f[i].confidence
<1> DEFINE C == { f[i].confidence : i \in S }
           sure == [i \in S |-> f[i].confidence]
<1>1. sure \in Surjection(S, C)
  BY DEF Surjection
<1>2. IsFiniteSet(C)
  <2> HIDE DEF C, sure
  <2> QED
    BY <1>1, FS_Surjection
<1>3. C \subseteq Int /\ C # {}
  OBVIOUS
<1>4. PICK c \in C : \A d \in C : c >= d
  <2> HIDE DEF C
  <2> QED
    BY <1>2, <1>3, Greatest
<1>5. PICK i \in S : c = f[i].confidence
  OBVIOUS
<1>6. \A j \in S : f[j].confidence \in C
  OBVIOUS
<1>7. \A j \in S : f[j].confidence <= f[i].confidence
  BY <1>4, <1>5, <1>6
<1> QED
  BY <1>7

LEMMA LeadingIsSurest ==
    ASSUME DocTyped, NEW u \in Uploads, Doc!Answered(u) # {}
    PROVE  \E i \in Doc!Answered(u) :
              /\ Doc!Leading(u) = found[u][i]
              /\ \A j \in Doc!Answered(u) : found[u][j].confidence <= found[u][i].confidence
<1> DEFINE S == Doc!Answered(u)
           B == { i \in S : \A j \in S : found[u][j].confidence <= found[u][i].confidence }
<1>1. IsFiniteSet(S) /\ S \subseteq Int /\ \A i \in S : found[u][i].confidence \in Nat
  BY AnsweredTyped, ReadTyped
<1>2. B # {}
  <2> HIDE DEF S
  <2>1. \E i \in S : \A j \in S : found[u][j].confidence <= found[u][i].confidence
    BY <1>1, Surest DEF S
  <2> QED
    BY <2>1
<1>3. IsFiniteSet(B) /\ B \subseteq Int
  <2>1. B \in SUBSET S
    OBVIOUS
  <2> HIDE DEF B, S
  <2> QED
    BY <1>1, <2>1, FS_Subset
<1>4. Doc!Min(B) \in B
  <2> HIDE DEF B
  <2> QED
    BY <1>2, <1>3, FirstOf
<1>5. Doc!Leading(u) = found[u][Doc!Min(B)]
  BY DEF Doc!Leading
<1> QED
  BY <1>4, <1>5

LEMMA LimitIsStated ==
    ASSUME DocTyped, NEW u \in Uploads
    PROVE  \/ Doc!FirstStated(u) = 0 /\ \A i \in Doc!Answered(u) : found[u][i].limit = 0
           \/ Doc!FirstStated(u) # 0 /\ \E i \in Doc!Answered(u) : Doc!FirstStated(u) = found[u][i].limit
<1> DEFINE S == { i \in Doc!Answered(u) : found[u][i].limit # Doc!NotStated }
<1>1. Doc!FirstStated(u) = IF S = {} THEN Doc!NotStated ELSE found[u][Doc!Min(S)].limit
  BY DEF Doc!FirstStated
<1>2. CASE S = {}
  BY <1>1, <1>2, ReadTyped
<1>3. CASE S # {}
  <2>1. IsFiniteSet(S) /\ S \subseteq Int
    <3>1. S \in SUBSET Doc!Answered(u)
      OBVIOUS
    <3>2. IsFiniteSet(Doc!Answered(u)) /\ Doc!Answered(u) \subseteq Int
      BY AnsweredTyped
    <3> HIDE DEF S
    <3> QED
      BY <3>1, <3>2, FS_Subset
  <2>2. Doc!Min(S) \in S
    <3> HIDE DEF S
    <3> QED
      BY <1>3, <2>1, FirstOf
  <2> QED
    BY <1>1, <1>3, <2>2, ReadTyped
<1> QED
  BY <1>2, <1>3

\* What the invariant says of the profile.
LEMMA ProfilesAreHonest == ASSUME DocTyped, ProfileMade PROVE Doc!ProfileHonest
<1> SUFFICES ASSUME profile # Doc!Nothing PROVE Doc!ProfileHonest
  BY DEF Doc!ProfileHonest
<1>1. PICK u \in Uploads : profile = Doc!ProfileOf(u) /\ Len(found[u]) = sections[u] /\ sections[u] > 0
  BY DEF ProfileMade
<1> DEFINE S == Doc!Answered(u)
           A == Doc!ToSet(found[u]) \ {Doc!Failed}
<1>2. /\ profile.by = u
      /\ profile.confidence = (IF S = {} THEN 1 ELSE Doc!Leading(u).confidence)
      /\ profile.rules = UNION { found[u][i].rules : i \in S }
      /\ profile.limit = Doc!FirstStated(u)
      /\ profile.complete = (S # {} /\ Cardinality(S) = sections[u])
  BY <1>1, DocCardinality DEF Doc!ProfileOf
<1>3. /\ Len(found[u]) \in Nat /\ DOMAIN found[u] = 1 .. Len(found[u])
      /\ S \subseteq 1 .. Len(found[u]) /\ IsFiniteSet(S)
      /\ IsFiniteSet(1 .. Len(found[u])) /\ Cardinality(1 .. Len(found[u])) = Len(found[u])
      /\ \A i \in S : found[u][i] \in Read /\ i \in Int
      /\ \A i \in 1 .. Len(found[u]) : i \notin S => found[u][i] = Doc!Failed
  BY AnsweredTyped
<1>4. A = { found[u][i] : i \in S }
  BY <1>3 DEF Doc!ToSet, Doc!Answered
<1>5. Doc!Failed \notin Doc!ToSet(found[u]) <=> S = 1 .. Len(found[u])
  BY <1>3 DEF Doc!ToSet, Doc!Answered
<1>6. profile.complete <=> Doc!Failed \notin Doc!ToSet(found[u])
  <2>1. Cardinality(S) = sections[u] <=> S = 1 .. Len(found[u])
    <3> HIDE DEF S
    <3> QED
      BY <1>1, <1>3, FS_Subset
  <2>2. S = 1 .. Len(found[u]) => S # {}
    BY <1>1, <1>3
  <2> HIDE DEF S
  <2>3. (S # {} /\ Cardinality(S) = sections[u]) <=> Doc!Failed \notin Doc!ToSet(found[u])
    BY <1>5, <2>1, <2>2
  <2> QED
    BY <1>2, <2>3
<1>7. \A a \in A : a.confidence <= profile.confidence
  <2>1. CASE S = {}
    BY <1>4, <2>1
  <2>2. CASE S # {}
    BY <1>2, <1>4, <2>2, LeadingIsSurest
  <2> QED
    BY <2>1, <2>2
<1>8. A # {} => \E a \in A : a.confidence = profile.confidence
  <2> SUFFICES ASSUME A # {} PROVE \E a \in A : a.confidence = profile.confidence
    OBVIOUS
  <2>1. S # {}
    BY <1>4
  <2> QED
    BY <1>2, <1>4, <2>1, LeadingIsSurest
<1>9. profile.rules = UNION { a.rules : a \in A }
  BY <1>2, <1>4
<1>10. profile.limit \in { a.limit : a \in A } \cup {Doc!NotStated}
       /\ (profile.limit = Doc!NotStated => \A a \in A : a.limit = Doc!NotStated)
  BY <1>2, <1>4, LimitIsStated, ReadTyped
<1> HIDE DEF A
<1>11. \A a \in A : a.rules \subseteq profile.rules
  BY <1>9
<1>12. profile.rules \subseteq UNION { a.rules : a \in A }
  BY <1>9
<1> QED
  BY <1>2, <1>6, <1>7, <1>8, <1>10, <1>11, <1>12 DEF Doc!ProfileHonest, A

LEMMA DocumentsHonest == DocInv => Doc!DocumentKept
<1> SUFFICES ASSUME DocInv PROVE Doc!DocumentKept
  OBVIOUS
<1>1. DOMAIN points = 1 .. Len(points) /\ Len(points) \in Nat
  BY DEF DocInv, DocTyped
<1>2. Doc!VectorsTheirOwn
  BY <1>1 DEF DocInv, VectorsOwn, Doc!VectorsTheirOwn
<1>3. Doc!ProfileHonest
  BY ProfilesAreHonest DEF DocInv
<1>4. Doc!UploadStored
  <2> SUFFICES ASSUME newest # "nobody", callPc[newest] = "done"
               PROVE  /\ \A i \in 1 .. chunks[newest] : i \in DOMAIN points /\ points[i].by = newest
                      /\ sections[newest] > 0 => profile.by = newest /\ listed
    BY DEF Doc!UploadStored, Doc!Nobody
  <2>1. newest \in Uploads /\ chunks[newest] \in Nat
    BY DEF DocInv, DocTyped
  <2> QED
    BY <1>1, <2>1 DEF DocInv, NewestAlone
<1> QED
  BY <1>2, <1>3, <1>4 DEF Doc!DocumentKept

\* An answer of the embedding service in order names the texts one by one.
LEMMA OrderedAnswer ==
    ASSUME NEW first \in Nat, NEW size \in Nat, NEW s \in Doc!Bijection(1 .. size, { first + i : i \in 1 .. size })
    PROVE  Doc!InOrder(s) = [i \in 1 .. size |-> first + i]
<1>1. DOMAIN s = 1 .. size /\ Doc!ToSet(s) = (first + 1) .. (first + size)
  <2>1. s \in Doc!Surjection(1 .. size, { first + i : i \in 1 .. size })
    BY DEF Doc!Bijection
  <2>2. { first + i : i \in 1 .. size } = (first + 1) .. (first + size)
    <3>1. \A t \in (first + 1) .. (first + size) : t - first \in 1 .. size /\ t = first + (t - first)
      OBVIOUS
    <3>2. \A i \in 1 .. size : first + i \in (first + 1) .. (first + size)
      OBVIOUS
    <3> QED
      BY <3>1, <3>2
  <2> QED
    BY <2>1, <2>2 DEF Doc!Surjection, Doc!ToSet
<1> DEFINE T == Doc!ToSet(s)
<1>2. ASSUME NEW x \in T PROVE Doc!Cardinality({ t \in T : t <= x }) = x - first
  <2>1. { t \in T : t <= x } = (first + 1) .. x
    BY <1>1
  <2>2. x \in Int /\ first + 1 \in Int /\ ~(first + 1 > x) /\ x - (first + 1) + 1 = x - first
    BY <1>1
  <2> HIDE DEF T
  <2> QED
    BY <2>1, <2>2, FS_Interval, DocCardinality
<1>3. ASSUME NEW i \in 1 .. size
      PROVE  (CHOOSE x \in T : Doc!Cardinality({ t \in T : t <= x }) = i) = first + i
  <2>1. first + i \in T /\ (first + i) - first = i
    BY <1>1
  <2>2. \A x \in T : x - first = i => x = first + i
    BY <1>1
  <2> HIDE DEF T
  <2> QED
    BY <1>2, <2>1, <2>2
<1>4. Doc!InOrder(s) = [i \in DOMAIN s |-> CHOOSE x \in T : Doc!Cardinality({ t \in T : t <= x }) = i]
  BY DEF Doc!InOrder
<1> HIDE DEF T
<1>5. Doc!InOrder(s) = [i \in 1 .. size |-> CHOOSE x \in T : Doc!Cardinality({ t \in T : t <= x }) = i]
  BY <1>1, <1>4
<1> QED
  BY <1>3, <1>5

LEMMA DocMinOfTwo ==
    ASSUME NEW x \in Nat, NEW y \in Nat
    PROVE  Doc!Min({x, y}) \in Nat /\ Doc!Min({x, y}) <= x /\ Doc!Min({x, y}) <= y
<1>1. \E z \in {x, y} : \A w \in {x, y} : z <= w
  <2>1. CASE x >= y
    BY <2>1
  <2>2. CASE y >= x
    BY <2>2
  <2> QED
    BY <2>1, <2>2
<1> QED
  BY <1>1 DEF Doc!Min

LEMMA DocMaxOfTwo ==
    ASSUME NEW x \in Nat, NEW y \in Nat
    PROVE  Doc!Max({x, y}) \in {x, y} /\ x <= Doc!Max({x, y}) /\ y <= Doc!Max({x, y})
<1>1. \E z \in {x, y} : \A w \in {x, y} : z >= w
  <2>1. CASE x >= y
    BY <2>1
  <2>2. CASE y >= x
    BY <2>2
  <2> QED
    BY <2>1, <2>2
<1> QED
  BY <1>1 DEF Doc!Max

\* A list of numbers, made by a function.
LEMMA ListOf ==
    ASSUME NEW n \in Nat, NEW S, NEW f \in [1 .. n -> S]
    PROVE  f \in Seq(S) /\ Len(f) = n
<1>1. f \in Seq(S)
  BY SeqDef
<1> QED
  BY <1>1

LEMMA Joined ==
    ASSUME NEW a \in Seq(Nat), NEW b \in Seq(Nat), NEW n \in Nat, n = Len(a), NEW m \in Nat, m = Len(b)
    PROVE  /\ a \o b \in Seq(Nat) /\ Len(a \o b) = n + m
           /\ \A i \in 1 .. n : (a \o b)[i] = a[i]
           /\ \A i \in (n + 1) .. (n + m) : (a \o b)[i] = b[i - n]
OBVIOUS

\* What one batch adds.
LEMMA BatchAdds ==
    ASSUME DocInv, NEW u \in Uploads, Doc!EmbedBatch(u)
    PROVE  /\ callPc[u] = "embed"
           /\ UNCHANGED <<callPc, chunks, sections, found, points, profile, listed, newest>>
           /\ \E more : /\ vectors' = [vectors EXCEPT ![u] = more] /\ more \in Seq(Nat)
                        /\ Len(more) <= chunks[u] /\ \A i \in 1 .. Len(more) : more[i] \in {0, i}
<1> DEFINE first == Len(vectors[u])
           size == Doc!Min({BatchSize, chunks[u] - first})
           texts == { first + i : i \in 1 .. size }
           None == [i \in 1 .. size |-> 0]
<1>1. /\ callPc[u] = "embed" /\ first < chunks[u]
      /\ UNCHANGED <<callPc, chunks, sections, found, points, profile, listed, newest>>
  BY DEF Doc!EmbedBatch
<1>2. PICK batch \in { Doc!InOrder(s) : s \in Doc!Bijection(1 .. size, texts) } \cup {None} :
         vectors' = [vectors EXCEPT ![u] = @ \o batch]
  BY DEF Doc!EmbedBatch
<1>3. /\ vectors[u] \in Seq(Nat) /\ first \in Nat /\ chunks[u] \in Nat
      /\ \A i \in 1 .. first : vectors[u][i] \in {0, i}
  BY DEF DocInv, DocTyped, VectorsOwn
<1>4. size \in Nat /\ first + size <= chunks[u]
  <2>1. BatchSize \in Nat /\ chunks[u] - first \in Nat
    BY <1>1, <1>3, MarketsAssumption
  <2> DEFINE rest == chunks[u] - first
  <2>2. rest \in Nat /\ rest = chunks[u] - first
    BY <2>1
  <2>3. Doc!Min({BatchSize, rest}) \in Nat /\ Doc!Min({BatchSize, rest}) <= rest
    <3> HIDE DEF rest
    <3> QED
      BY <2>1, <2>2, DocMinOfTwo
  <2> HIDE DEF rest
  <2>4. size = Doc!Min({BatchSize, rest})
    BY DEF rest
  <2> HIDE DEF size
  <2> QED
    BY <1>3, <2>2, <2>3, <2>4
<1> HIDE DEF first, size
<1>5. batch \in [1 .. size -> Nat] /\ \A i \in 1 .. size : batch[i] \in {0, first + i}
  <2>1. CASE batch = None
    BY <2>1
  <2>2. CASE batch \in { Doc!InOrder(s) : s \in Doc!Bijection(1 .. size, texts) }
    <3>1. PICK s \in Doc!Bijection(1 .. size, texts) : batch = Doc!InOrder(s)
      BY <2>2
    <3>2. batch = [i \in 1 .. size |-> first + i]
      BY <1>3, <1>4, <3>1, OrderedAnswer
    <3>3. \A i \in 1 .. size : first + i \in Nat
      BY <1>3, <1>4
    <3> QED
      BY <3>2, <3>3
  <2> QED
    BY <1>2, <2>1, <2>2
<1>6. batch \in Seq(Nat) /\ Len(batch) = size
  BY <1>4, <1>5, ListOf
<1> DEFINE more == vectors[u] \o batch
<1>7. /\ more \in Seq(Nat) /\ Len(more) = first + size
      /\ \A i \in 1 .. first : more[i] = vectors[u][i]
      /\ \A i \in (first + 1) .. (first + size) : more[i] = batch[i - first]
  <2> DEFINE old == vectors[u]
  <2>1. old \in Seq(Nat) /\ first = Len(old) /\ first \in Nat
    BY <1>3 DEF first
  <2>2. size \in Nat /\ size = Len(batch) /\ batch \in Seq(Nat)
    BY <1>4, <1>6
  <2>3. more = old \o batch
    OBVIOUS
  <2> HIDE DEF old, more, texts, None
  <2>4. /\ old \o batch \in Seq(Nat) /\ Len(old \o batch) = first + size
        /\ \A i \in 1 .. first : (old \o batch)[i] = old[i]
        /\ \A i \in (first + 1) .. (first + size) : (old \o batch)[i] = batch[i - first]
    BY ONLY <2>1, <2>2, Joined
  <2> QED
    BY <2>3, <2>4 DEF old
<1> HIDE DEF more
<1>8. \A i \in 1 .. Len(more) : more[i] \in {0, i}
  <2> SUFFICES ASSUME NEW i \in 1 .. (first + size) PROVE more[i] \in {0, i}
    BY <1>7
  <2>1. CASE i \in 1 .. first
    BY <1>3, <1>7, <2>1
  <2>2. CASE i \in (first + 1) .. (first + size)
    <3>1. i - first \in 1 .. size /\ first + (i - first) = i
      BY <1>3, <1>4, <2>2
    <3> QED
      BY <1>5, <1>7, <2>2, <3>1
  <2> QED
    BY <1>3, <1>4, <2>1, <2>2
<1>9. vectors' = [vectors EXCEPT ![u] = more]
  BY <1>2 DEF more
<1> QED
  BY <1>1, <1>4, <1>7, <1>8, <1>9

\* The points of a document after those of an upload.
LEMMA PointsAfter ==
    ASSUME DocInv, NEW u \in Uploads, Len(vectors[u]) = chunks[u]
    PROVE  LET more == Doc!Upserted(u)
           IN  /\ more \in Seq(Point) /\ chunks[u] <= Len(more)
               /\ \A i \in 1 .. Len(more) : more[i].vector \in {0, i}
               /\ \A i \in 1 .. chunks[u] : more[i].by = u
<1> DEFINE more == Doc!Upserted(u)
           n == Doc!Max({chunks[u], Len(points)})
<1>1. /\ chunks[u] \in Nat /\ Len(points) \in Nat /\ \A i \in 1 .. Len(points) : points[i] \in Point
      /\ \A i \in 1 .. Len(points) : points[i].vector \in {0, i}
      /\ \A i \in 1 .. chunks[u] : vectors[u][i] \in {0, i} /\ vectors[u][i] \in Nat
  BY DEF DocInv, DocTyped, VectorsOwn
<1>2. n \in {chunks[u], Len(points)} /\ chunks[u] <= n /\ n \in Nat
  BY <1>1, DocMaxOfTwo
<1> HIDE DEF n
<1>3. more = [i \in 1 .. n |-> IF i <= chunks[u] THEN [by |-> u, vector |-> vectors[u][i]] ELSE points[i]]
  BY DEF Doc!Upserted, n
<1>4. ASSUME NEW i \in 1 .. n
      PROVE  /\ more[i] \in Point /\ more[i].vector \in {0, i} /\ (i <= chunks[u] => more[i].by = u)
  <2>1. CASE i <= chunks[u]
    <3>1. i \in 1 .. chunks[u]
      BY <1>1, <2>1
    <3> QED
      BY <1>1, <1>3, <2>1, <3>1 DEF Point
  <2>2. CASE ~(i <= chunks[u])
    <3>1. i \in 1 .. Len(points)
      BY <1>1, <1>2, <2>2
    <3> QED
      BY <1>1, <1>3, <2>2, <3>1
  <2> QED
    BY <2>1, <2>2
<1>5. more \in [1 .. n -> Point]
  BY <1>3, <1>4
<1> HIDE DEF more
<1>6. more \in Seq(Point) /\ Len(more) = n
  BY <1>2, <1>5, ListOf
<1>7. \A i \in 1 .. chunks[u] : i \in 1 .. n
  BY <1>1, <1>2
<1> QED
  BY <1>2, <1>4, <1>6, <1>7 DEF more

LEMMA SameProfile ==
    ASSUME NEW u \in Uploads, found'[u] = found[u], sections'[u] = sections[u]
    PROVE  Doc!ProfileOf(u)' = Doc!ProfileOf(u)
<1>1. Doc!Answered(u)' = Doc!Answered(u)
  BY DEF Doc!Answered
<1>2. Doc!Leading(u)' = Doc!Leading(u)
  BY <1>1 DEF Doc!Leading
<1>3. Doc!FirstStated(u)' = Doc!FirstStated(u)
  BY <1>1 DEF Doc!FirstStated
<1> QED
  BY <1>1, <1>2, <1>3 DEF Doc!ProfileOf

\* A profile stays what an upload made as long as that upload's own findings do.
LEMMA ProfileStays ==
    ASSUME DocInv, profile' = profile \/ profile' = Doc!Nothing,
           \A u \in Uploads : callPc[u] \in {"sadd", "done"} =>
              found'[u] = found[u] /\ sections'[u] = sections[u] /\ callPc'[u] \in {"sadd", "done"}
    PROVE  ProfileMade'
<1> SUFFICES ASSUME profile' = profile, profile # Doc!Nothing PROVE ProfileMade'
  BY DEF ProfileMade
<1>1. PICK u \in Uploads : /\ profile = Doc!ProfileOf(u) /\ callPc[u] \in {"sadd", "done"}
                           /\ Len(found[u]) = sections[u] /\ sections[u] > 0
  BY DEF DocInv, ProfileMade
<1>2. found'[u] = found[u] /\ sections'[u] = sections[u] /\ callPc'[u] \in {"sadd", "done"}
  BY <1>1
<1>3. Doc!ProfileOf(u)' = Doc!ProfileOf(u)
  BY <1>2, SameProfile
<1> QED
  BY <1>1, <1>2, <1>3 DEF ProfileMade

\* A call takes a step of its own.
LEMMA OneStep ==
    ASSUME DocTyped, NEW c \in Uploads \cup Lists \cup Deletes, NEW from, NEW to \in CallState, Doc!Step(c, from, to)
    PROVE  /\ callPc[c] = from /\ callPc' \in [Uploads \cup Lists \cup Deletes -> CallState] /\ callPc'[c] = to
           /\ \A d \in Uploads \cup Lists \cup Deletes : d # c => callPc'[d] = callPc[d]
BY DEF DocTyped, Doc!Step

LEMMA BeginKeeps == ASSUME DocInv, NEW u \in Uploads, Doc!Begin(u) PROVE DocInv'
<1>1. /\ Doc!Step(u, "new", "embed") /\ UNCHANGED <<vectors, found, points, profile, listed>>
      /\ newest' = (IF \E v \in Uploads : Doc!Running(v) THEN "nobody" ELSE u)
  BY DEF Doc!Begin, Doc!Nobody
<1>2. PICK t \in {<<3, 2>>, <<1, 1>>, <<2, 0>>} :
         chunks' = [chunks EXCEPT ![u] = t[1]] /\ sections' = [sections EXCEPT ![u] = t[2]]
  BY DEF Doc!Begin
<1>3. t[1] \in Nat /\ t[2] \in Nat
  BY <1>2
<1>4. /\ callPc[u] = "new" /\ callPc' \in [Uploads \cup Lists \cup Deletes -> CallState] /\ callPc'[u] = "embed"
      /\ \A d \in Uploads \cup Lists \cup Deletes : d # u => callPc'[d] = callPc[d]
  BY <1>1, OneStep DEF DocInv, CallState
<1>5. /\ chunks' \in [Uploads -> Nat] /\ sections' \in [Uploads -> Nat]
      /\ \A v \in Uploads : v # u => chunks'[v] = chunks[v] /\ sections'[v] = sections[v]
  BY <1>2, <1>3 DEF DocInv, DocTyped
<1>6. DocTyped'
  BY <1>1, <1>4, <1>5 DEF DocInv, DocTyped
<1>7. VectorsOwn'
  <2>1. vectors[u] = <<>> /\ Len(vectors[u]) = 0 /\ chunks'[u] \in Nat
    BY <1>4, <1>5 DEF DocInv, VectorsOwn
  <2>2. \A v \in Uploads : Len(vectors[v]) <= chunks'[v]
    BY <1>5, <2>1 DEF DocInv, VectorsOwn
  <2> QED
    BY <1>1, <1>4, <2>2 DEF DocInv, VectorsOwn
<1>8. SectionsRead'
  <2>1. found[u] = <<>> /\ Len(found[u]) = 0 /\ sections'[u] \in Nat
    BY <1>4, <1>5 DEF DocInv, SectionsRead
  <2> QED
    BY <1>1, <1>4, <1>5, <2>1 DEF DocInv, SectionsRead
<1>9. ProfileMade'
  BY <1>1, <1>4, <1>5, ProfileStays DEF DocInv
<1>10. NewestAlone'
  <2> SUFFICES ASSUME newest' # "nobody" PROVE NewestAlone'
    BY DEF NewestAlone
  <2>1. newest' = u /\ \A v \in Uploads : ~Doc!Running(v)
    BY <1>1
  <2>2. \A v \in Uploads : v # u => ~Doc!Running(v)'
    BY <1>4, <2>1 DEF Doc!Running
  <2>3. \A v \in Uploads : v # newest' => ~Doc!Running(v)'
    BY <2>1, <2>2
  <2> QED
    BY <1>4, <2>1, <2>3 DEF NewestAlone
<1> QED
  BY <1>6, <1>7, <1>8, <1>9, <1>10 DEF DocInv

LEMMA EmbedKeeps == ASSUME DocInv, NEW u \in Uploads, Doc!EmbedBatch(u) PROVE DocInv'
<1>1. /\ callPc[u] = "embed"
      /\ UNCHANGED <<callPc, chunks, sections, found, points, profile, listed, newest>>
  BY BatchAdds
<1>2. PICK more : /\ vectors' = [vectors EXCEPT ![u] = more] /\ more \in Seq(Nat)
                  /\ Len(more) <= chunks[u] /\ \A i \in 1 .. Len(more) : more[i] \in {0, i}
  BY BatchAdds
<1>3. /\ vectors' \in [Uploads -> Seq(Nat)] /\ vectors'[u] = more
      /\ \A v \in Uploads : v # u => vectors'[v] = vectors[v]
  BY <1>2 DEF DocInv, DocTyped
<1>4. DocTyped'
  BY <1>1, <1>3 DEF DocInv, DocTyped
<1>5. VectorsOwn'
  <2>1. \A v \in Uploads : /\ Len(vectors'[v]) <= chunks[v]
                           /\ \A i \in 1 .. Len(vectors'[v]) : vectors'[v][i] \in {0, i}
                           /\ callPc[v] = "new" => vectors'[v] = <<>>
    BY <1>1, <1>2, <1>3 DEF DocInv, VectorsOwn
  <2> QED
    BY <1>1, <2>1 DEF DocInv, VectorsOwn
<1>6. SectionsRead'
  BY <1>1 DEF DocInv, SectionsRead
<1>7. ProfileMade'
  BY <1>1, ProfileStays
<1>8. NewestAlone'
  BY <1>1 DEF DocInv, NewestAlone, Doc!Running, Doc!Removing
<1> QED
  BY <1>4, <1>5, <1>6, <1>7, <1>8 DEF DocInv

LEMMA UpsertKeeps == ASSUME DocInv, NEW u \in Uploads, Doc!Upsert(u) PROVE DocInv'
<1> DEFINE to == IF sections[u] = 0 THEN "done" ELSE "analyse"
<1>1. /\ Len(vectors[u]) = chunks[u] /\ Doc!Step(u, "embed", to)
      /\ vectors' = [vectors EXCEPT ![u] = <<>>] /\ UNCHANGED <<chunks, sections, found, profile, listed>>
      /\ \/ points' = Doc!Upserted(u) /\ newest' = newest
         \/ points' = points /\ newest' = "nobody"
  BY DEF Doc!Upsert, Doc!Undisturbed, Doc!Nobody
<1>2. /\ callPc[u] = "embed" /\ callPc' \in [Uploads \cup Lists \cup Deletes -> CallState] /\ callPc'[u] = to
      /\ \A d \in Uploads \cup Lists \cup Deletes : d # u => callPc'[d] = callPc[d]
  <2>1. to \in CallState
    BY DEF CallState
  <2> HIDE DEF to
  <2> QED
    BY <1>1, <2>1, OneStep DEF DocInv
<1>3. /\ points' \in Seq(Point) /\ \A i \in 1 .. Len(points') : points'[i].vector \in {0, i}
      /\ \/ newest' = "nobody"
         \/ newest' = newest /\ chunks[u] <= Len(points') /\ \A i \in 1 .. chunks[u] : points'[i].by = u
  BY <1>1, PointsAfter DEF DocInv, DocTyped, VectorsOwn
<1>4. vectors' \in [Uploads -> Seq(Nat)] /\ vectors'[u] = <<>> /\ \A v \in Uploads : v # u => vectors'[v] = vectors[v]
  BY <1>1 DEF DocInv, DocTyped
<1>5. DocTyped'
  BY <1>1, <1>2, <1>3, <1>4 DEF DocInv, DocTyped
<1>6. VectorsOwn'
  <2>1. \A v \in Uploads : /\ Len(vectors'[v]) <= chunks[v]
                           /\ \A i \in 1 .. Len(vectors'[v]) : vectors'[v][i] \in {0, i}
                           /\ callPc'[v] = "new" => vectors'[v] = <<>>
    <3> SUFFICES ASSUME NEW v \in Uploads
                 PROVE  /\ Len(vectors'[v]) <= chunks[v]
                        /\ \A i \in 1 .. Len(vectors'[v]) : vectors'[v][i] \in {0, i}
                        /\ callPc'[v] = "new" => vectors'[v] = <<>>
      OBVIOUS
    <3>1. CASE v = u
      <4>1. Len(vectors'[u]) = 0 /\ chunks[u] \in Nat /\ 1 .. 0 = {} /\ vectors'[u] = <<>>
        BY <1>4 DEF DocInv, DocTyped
      <4> QED
        BY <3>1, <4>1
    <3>2. CASE v # u
      <4>1. vectors'[v] = vectors[v] /\ callPc'[v] = callPc[v]
        BY <1>2, <1>4, <3>2
      <4>2. /\ Len(vectors[v]) <= chunks[v]
            /\ \A i \in 1 .. Len(vectors[v]) : vectors[v][i] \in {0, i}
            /\ callPc[v] = "new" => vectors[v] = <<>>
        BY DEF DocInv, VectorsOwn
      <4> QED
        BY <4>1, <4>2
    <3> QED
      BY <3>1, <3>2
  <2> QED
    BY <1>1, <1>3, <2>1 DEF VectorsOwn
<1>7. SectionsRead'
  <2>1. callPc'[u] \in {"analyse", "sadd"} => sections[u] > 0
    BY <1>2 DEF DocInv, DocTyped
  <2>2. callPc'[u] # "new"
    BY <1>2
  <2> QED
    BY <1>1, <1>2, <2>1, <2>2 DEF DocInv, SectionsRead
<1>8. ProfileMade'
  BY <1>1, <1>2, ProfileStays DEF DocInv
<1>9. NewestAlone'
  <2> SUFFICES ASSUME newest' # "nobody" PROVE NewestAlone'
    BY DEF NewestAlone
  <2>1. newest' = newest /\ newest \in Uploads
    BY <1>3 DEF DocInv, DocTyped
  <2>2. newest = u
    BY <1>2, <2>1 DEF DocInv, NewestAlone, Doc!Running
  <2>3. \A v \in Uploads : v # u => ~Doc!Running(v)'
    BY <1>2, <2>1, <2>2 DEF DocInv, NewestAlone, Doc!Running
  <2>4. callPc'[u] \notin {"new", "sadd"} /\ (callPc'[u] = "done" => ~(sections[u] > 0))
    BY <1>2 DEF DocInv, DocTyped
  <2> QED
    BY <1>1, <1>3, <2>1, <2>2, <2>3, <2>4 DEF NewestAlone
<1> QED
  BY <1>5, <1>6, <1>7, <1>8, <1>9 DEF DocInv

LEMMA AnalyseKeeps == ASSUME DocInv, NEW u \in Uploads, Doc!AnalyseSection(u) PROVE DocInv'
<1>1. /\ callPc[u] = "analyse" /\ Len(found[u]) < sections[u]
      /\ UNCHANGED <<callPc, chunks, sections, vectors, points, profile, listed, newest>>
  BY DEF Doc!AnalyseSection
<1>2. PICK a \in Read \cup {Doc!Failed} : found' = [found EXCEPT ![u] = Append(@, a)]
  BY DEF Doc!AnalyseSection, Read
<1>3. found[u] \in Seq(Read \cup {Doc!Failed}) /\ sections[u] \in Nat
  BY DEF DocInv, DocTyped
<1>4. Append(found[u], a) \in Seq(Read \cup {Doc!Failed}) /\ Len(Append(found[u], a)) <= sections[u]
  BY <1>1, <1>3
<1>5. /\ found' \in [Uploads -> Seq(Read \cup {Doc!Failed})] /\ found'[u] = Append(found[u], a)
      /\ \A v \in Uploads : v # u => found'[v] = found[v]
  BY <1>2, <1>4 DEF DocInv, DocTyped
<1>6. DocTyped'
  BY <1>1, <1>5 DEF DocInv, DocTyped
<1>7. VectorsOwn'
  BY <1>1 DEF DocInv, VectorsOwn
<1>8. SectionsRead'
  BY <1>1, <1>4, <1>5 DEF DocInv, SectionsRead
<1>9. ProfileMade'
  BY <1>1, <1>5, ProfileStays
<1>10. NewestAlone'
  BY <1>1 DEF DocInv, NewestAlone, Doc!Running, Doc!Removing
<1> QED
  BY <1>6, <1>7, <1>8, <1>9, <1>10 DEF DocInv

LEMMA SetKeeps == ASSUME DocInv, NEW u \in Uploads, Doc!SetProfile(u) PROVE DocInv'
<1>1. /\ Len(found[u]) = sections[u] /\ UNCHANGED <<chunks, sections, found, vectors, points, listed>>
      /\ \/ Doc!Step(u, "analyse", "sadd") /\ profile' = Doc!ProfileOf(u) /\ newest' = newest
         \/ Doc!Step(u, "analyse", "done") /\ profile' \in {Doc!ProfileOf(u), profile} /\ newest' = "nobody"
  BY DEF Doc!SetProfile, Doc!Undisturbed, Doc!Nobody, Doc!rest
<1>2. PICK to \in {"sadd", "done"} :
         /\ Doc!Step(u, "analyse", to) /\ profile' \in {Doc!ProfileOf(u), profile}
         /\ newest' = "nobody" \/ (newest' = newest /\ to = "sadd" /\ profile' = Doc!ProfileOf(u))
  BY <1>1
<1>3. /\ callPc[u] = "analyse" /\ callPc' \in [Uploads \cup Lists \cup Deletes -> CallState] /\ callPc'[u] = to
      /\ \A d \in Uploads \cup Lists \cup Deletes : d # u => callPc'[d] = callPc[d]
  <2>1. to \in CallState
    BY DEF CallState
  <2> QED
    BY <1>2, <2>1, OneStep DEF DocInv
<1>4. DocTyped'
  <2>1. newest' \in Uploads \cup {"nobody"}
    BY <1>2 DEF DocInv, DocTyped
  <2> QED
    BY <1>1, <1>3, <2>1 DEF DocInv, DocTyped
<1>5. VectorsOwn'
  BY <1>1, <1>3 DEF DocInv, VectorsOwn
<1>6. sections[u] > 0
  BY <1>3 DEF DocInv, SectionsRead
<1>7. SectionsRead'
  BY <1>1, <1>3, <1>6 DEF DocInv, SectionsRead
<1>8. ProfileMade'
  <2>1. CASE profile' = profile
    BY <1>1, <1>2, <1>3, <2>1, ProfileStays
  <2>2. CASE profile' = Doc!ProfileOf(u)
    <3>1. Doc!ProfileOf(u)' = Doc!ProfileOf(u)
      BY <1>1, SameProfile
    <3>2. callPc'[u] \in {"sadd", "done"} /\ Len(found'[u]) = sections'[u] /\ sections'[u] > 0
      BY <1>1, <1>3, <1>6
    <3> QED
      BY <2>2, <3>1, <3>2 DEF ProfileMade
  <2> QED
    BY <1>2, <2>1, <2>2
<1>9. NewestAlone'
  <2> SUFFICES ASSUME newest' # "nobody" PROVE NewestAlone'
    BY DEF NewestAlone
  <2>1. newest' = newest /\ newest \in Uploads /\ to = "sadd" /\ profile' = Doc!ProfileOf(u)
    BY <1>2 DEF DocInv, DocTyped
  <2>2. newest = u
    BY <1>3, <2>1 DEF DocInv, NewestAlone, Doc!Running
  <2>3. \A v \in Uploads : v # u => ~Doc!Running(v)'
    BY <1>3, <2>1, <2>2 DEF DocInv, NewestAlone, Doc!Running
  <2>4. profile'.by = u /\ profile' # Doc!Nothing
    <3>1. profile'.by = u
      BY <2>1 DEF Doc!ProfileOf
    <3>2. Doc!Nothing.by = "nobody"
      BY DEF Doc!Nothing, Doc!Nobody
    <3> QED
      BY <3>1, <3>2, MarketsAssumption
  <2>5. chunks[u] <= Len(points) /\ \A i \in 1 .. chunks[u] : points[i].by = u
    BY <1>3, <2>1, <2>2 DEF DocInv, NewestAlone
  <2> QED
    BY <1>1, <1>3, <2>1, <2>2, <2>3, <2>4, <2>5 DEF NewestAlone
<1> QED
  BY <1>4, <1>5, <1>7, <1>8, <1>9 DEF DocInv

LEMMA AddKeeps == ASSUME DocInv, NEW u \in Uploads, Doc!AddToIndex(u) PROVE DocInv'
<1>1. /\ Doc!Step(u, "sadd", "done") /\ UNCHANGED <<chunks, sections, found, vectors, points, profile>>
      /\ \/ listed' = TRUE /\ ~Doc!Removing /\ newest' = newest
         \/ listed' \in {TRUE, listed} /\ newest' = "nobody"
  BY DEF Doc!AddToIndex, Doc!Undisturbed, Doc!Nobody, Doc!rest
<1>2. /\ callPc[u] = "sadd" /\ callPc' \in [Uploads \cup Lists \cup Deletes -> CallState] /\ callPc'[u] = "done"
      /\ \A d \in Uploads \cup Lists \cup Deletes : d # u => callPc'[d] = callPc[d]
  BY <1>1, OneStep DEF DocInv, CallState
<1>3. DocTyped'
  <2>1. newest' \in Uploads \cup {"nobody"} /\ listed' \in BOOLEAN
    BY <1>1 DEF DocInv, DocTyped
  <2> QED
    BY <1>1, <1>2, <2>1 DEF DocInv, DocTyped
<1>4. VectorsOwn'
  BY <1>1, <1>2 DEF DocInv, VectorsOwn
<1>5. SectionsRead'
  BY <1>1, <1>2 DEF DocInv, SectionsRead
<1>6. ProfileMade'
  BY <1>1, <1>2, ProfileStays
<1>7. NewestAlone'
  <2> SUFFICES ASSUME newest' # "nobody" PROVE NewestAlone'
    BY DEF NewestAlone
  <2>1. newest' = newest /\ newest \in Uploads /\ listed' = TRUE /\ ~Doc!Removing
    BY <1>1 DEF DocInv, DocTyped
  <2>2. newest = u
    BY <1>2, <2>1 DEF DocInv, NewestAlone, Doc!Running
  <2>3. \A v \in Uploads : v # u => ~Doc!Running(v)'
    BY <1>2, <2>1, <2>2 DEF DocInv, NewestAlone, Doc!Running
  <2>4. ~Doc!Removing'
    <3>1. \A c \in Lists \cup Deletes : callPc'[c] # "srem"
      BY <1>2, <2>1 DEF Doc!Removing
    <3> QED
      BY <3>1 DEF Doc!Removing
  <2>5. /\ chunks[u] <= Len(points) /\ \A i \in 1 .. chunks[u] : points[i].by = u
        /\ profile # Doc!Nothing /\ profile.by = u
    BY <1>2, <2>1, <2>2 DEF DocInv, NewestAlone
  <2> QED
    BY <1>1, <1>2, <2>1, <2>2, <2>3, <2>4, <2>5 DEF NewestAlone
<1> QED
  BY <1>3, <1>4, <1>5, <1>6, <1>7 DEF DocInv

\* A list or a deletion: it says of itself when something has come between, or it finds no
\* profile, or it takes the document from the index when no upload is through.
LEMMA OtherKeeps ==
    ASSUME DocInv, NEW c \in Lists \cup Deletes, NEW from, NEW to \in CallState, Doc!Step(c, from, to),
           UNCHANGED <<chunks, sections, found, vectors, points>>,
           \/ newest' = "nobody" /\ profile' \in {profile, Doc!Nothing} /\ listed' \in {listed, FALSE}
           \/ UNCHANGED <<newest, profile, listed>> /\ (to = "srem" => profile = Doc!Nothing)
           \/ UNCHANGED <<newest, profile>> /\ from = "srem" /\ to = "done" /\ listed' = FALSE
    PROVE  DocInv'
<1>1. c \notin Uploads
  BY MarketsAssumption
<1>2. /\ callPc[c] = from /\ callPc' \in [Uploads \cup Lists \cup Deletes -> CallState] /\ callPc'[c] = to
      /\ \A d \in Uploads \cup Lists \cup Deletes : d # c => callPc'[d] = callPc[d]
  BY OneStep DEF DocInv
<1>3. \A u \in Uploads : callPc'[u] = callPc[u]
  BY <1>1, <1>2
<1>4. DocTyped'
  <2>1. newest' \in Uploads \cup {"nobody"}
    BY DEF DocInv, DocTyped
  <2>2. listed' \in BOOLEAN
    BY DEF DocInv, DocTyped
  <2> QED
    BY <1>2, <2>1, <2>2 DEF DocInv, DocTyped
<1>5. VectorsOwn'
  BY <1>3 DEF DocInv, VectorsOwn
<1>6. SectionsRead'
  BY <1>3 DEF DocInv, SectionsRead
<1>7. ProfileMade'
  <2>1. profile' = profile \/ profile' = Doc!Nothing
    OBVIOUS
  <2> QED
    BY <1>3, <2>1, ProfileStays
<1>8. NewestAlone'
  <2> SUFFICES ASSUME newest' # "nobody" PROVE NewestAlone'
    BY DEF NewestAlone
  <2>1. newest' = newest /\ newest \in Uploads /\ profile' = profile
    BY DEF DocInv, DocTyped
  <2>2. \A v \in Uploads : v # newest => ~Doc!Running(v)'
    BY <1>3, <2>1 DEF DocInv, NewestAlone, Doc!Running
  <2>3. /\ callPc'[newest] # "new"
        /\ callPc'[newest] # "embed" => /\ chunks[newest] <= Len(points)
                                        /\ \A i \in 1 .. chunks[newest] : points[i].by = newest
        /\ callPc'[newest] = "sadd" => profile # Doc!Nothing /\ profile.by = newest
    BY <1>3, <2>1 DEF DocInv, NewestAlone
  <2>4. ASSUME callPc'[newest] = "done", sections[newest] > 0
        PROVE  profile # Doc!Nothing /\ profile.by = newest /\ listed' = TRUE /\ ~Doc!Removing'
    <3>1. profile # Doc!Nothing /\ profile.by = newest /\ listed /\ ~Doc!Removing
      BY <1>3, <2>1, <2>4 DEF DocInv, NewestAlone
    <3>2. from # "srem"
      BY <1>2, <3>1 DEF Doc!Removing
    <3>3. listed' = listed /\ to # "srem"
      BY <2>1, <3>1, <3>2
    <3>4. \A d \in Lists \cup Deletes : callPc'[d] # "srem"
      BY <1>2, <3>1, <3>3 DEF Doc!Removing
    <3>5. listed' = TRUE
      BY <3>1, <3>3 DEF DocInv, DocTyped
    <3> QED
      BY <3>1, <3>4, <3>5 DEF Doc!Removing
  <2> QED
    BY <2>1, <2>2, <2>3, <2>4 DEF NewestAlone
<1> QED
  BY <1>4, <1>5, <1>6, <1>7, <1>8 DEF DocInv

LEMMA ListsKeep ==
    ASSUME DocInv, NEW c \in Lists \cup Deletes,
           Doc!List(c) \/ Doc!GetListed(c) \/ Doc!Delete(c) \/ Doc!RemoveFromIndex(c) \/ Doc!CallFails(c)
    PROVE  DocInv'
<1>1. CASE Doc!List(c)
  <2> DEFINE to == IF listed THEN "get" ELSE "done"
  <2>1. /\ Doc!Step(c, "new", to) /\ UNCHANGED <<chunks, sections, found, vectors, points, profile, listed, newest>>
        /\ to \in CallState /\ to # "srem"
    BY <1>1 DEF Doc!List, Doc!rest, CallState
  <2> HIDE DEF to
  <2> QED
    BY <2>1, OtherKeeps
<1>2. CASE Doc!GetListed(c)
  <2> DEFINE to == IF profile = Doc!Nothing THEN "srem" ELSE "done"
  <2>1. /\ Doc!Step(c, "get", to) /\ UNCHANGED <<chunks, sections, found, vectors, points, profile, listed, newest>>
        /\ to \in CallState /\ (to = "srem" => profile = Doc!Nothing)
    BY <1>2 DEF Doc!GetListed, Doc!rest, CallState
  <2> HIDE DEF to
  <2> QED
    BY <2>1, OtherKeeps
<1>3. CASE Doc!Delete(c)
  <2>1. /\ Doc!Step(c, "new", "srem") /\ profile' = Doc!Nothing /\ newest' = "nobody"
        /\ UNCHANGED <<chunks, sections, found, vectors, points, listed>> /\ "srem" \in CallState
    BY <1>3 DEF Doc!Delete, Doc!Undisturbed, Doc!Nobody, Doc!rest, CallState
  <2> QED
    BY <2>1, OtherKeeps
<1>4. CASE Doc!RemoveFromIndex(c)
  <2>1. /\ Doc!Step(c, "srem", "done") /\ listed' = FALSE
        /\ UNCHANGED <<chunks, sections, found, vectors, points, profile, newest>> /\ "done" \in CallState
    BY <1>4 DEF Doc!RemoveFromIndex, Doc!rest, CallState
  <2> QED
    BY <2>1, OtherKeeps
<1>5. CASE Doc!CallFails(c)
  <2>1. PICK from : /\ Doc!Step(c, from, "done")
                    /\ UNCHANGED <<chunks, sections, found, vectors, points, profile, listed, newest>>
    BY <1>5 DEF Doc!CallFails, Doc!Step, Doc!rest
  <2>2. "done" \in CallState
    BY DEF CallState
  <2> QED
    BY <2>1, <2>2, OtherKeeps
<1> QED
  BY <1>1, <1>2, <1>3, <1>4, <1>5

LEMMA EvictKeeps == ASSUME DocInv, Doc!Evict PROVE DocInv'
<1>1. /\ profile' = profile \/ profile' = Doc!Nothing
      /\ newest' = "nobody" /\ UNCHANGED <<callPc, chunks, sections, found, vectors, points>>
  BY DEF Doc!Evict, Doc!Undisturbed, Doc!Nobody, Doc!rest
<1>2. listed' \in BOOLEAN
  BY DEF DocInv, DocTyped, Doc!Evict
<1>3. DocTyped'
  BY <1>1, <1>2 DEF DocInv, DocTyped
<1>4. VectorsOwn' /\ SectionsRead'
  BY <1>1 DEF DocInv, VectorsOwn, SectionsRead
<1>5. ProfileMade'
  BY <1>1, ProfileStays
<1>6. NewestAlone'
  BY <1>1 DEF NewestAlone
<1> QED
  BY <1>3, <1>4, <1>5, <1>6 DEF DocInv

LEMMA RestartKeeps == ASSUME DocInv, Doc!Restart PROVE DocInv'
<1>1. /\ callPc' = [c \in Uploads \cup Lists \cup Deletes |-> IF callPc[c] = "new" THEN "new" ELSE "done"]
      /\ vectors' = [u \in Uploads |-> <<>>] /\ UNCHANGED <<chunks, sections, found, points, profile, listed>>
      /\ newest' = IF \A u \in Uploads : ~Doc!Running(u) THEN newest ELSE "nobody"
  BY DEF Doc!Restart, Doc!Undisturbed, Doc!Nobody, Doc!Calls
<1>2. \A c \in Uploads \cup Lists \cup Deletes : callPc'[c] = IF callPc[c] = "new" THEN "new" ELSE "done"
  BY <1>1
<1>3. DocTyped'
  <2>1. callPc' \in [Uploads \cup Lists \cup Deletes -> CallState]
    BY <1>1 DEF CallState
  <2>2. vectors' \in [Uploads -> Seq(Nat)]
    BY <1>1
  <2>3. newest' \in Uploads \cup {"nobody"}
    BY <1>1 DEF DocInv, DocTyped
  <2> QED
    BY <1>1, <2>1, <2>2, <2>3 DEF DocInv, DocTyped
<1>4. VectorsOwn'
  <2>1. \A u \in Uploads : vectors'[u] = <<>> /\ Len(vectors'[u]) = 0 /\ chunks[u] \in Nat
    BY <1>1 DEF DocInv, DocTyped
  <2>2. \A u \in Uploads : Len(vectors'[u]) <= chunks'[u] /\ 1 .. Len(vectors'[u]) = {}
    BY <1>1, <2>1
  <2> QED
    BY <1>1, <2>1, <2>2 DEF DocInv, VectorsOwn
<1>5. SectionsRead'
  BY <1>1, <1>2 DEF DocInv, SectionsRead
<1>6. ProfileMade'
  BY <1>1, <1>2, ProfileStays
<1>7. NewestAlone'
  <2> SUFFICES ASSUME newest' # "nobody" PROVE NewestAlone'
    BY DEF NewestAlone
  <2>1. newest' = newest /\ newest \in Uploads /\ \A u \in Uploads : ~Doc!Running(u)
    BY <1>1 DEF DocInv, DocTyped
  <2>2. callPc[newest] = "done" /\ callPc'[newest] = "done"
    BY <1>2, <2>1 DEF DocInv, NewestAlone, Doc!Running
  <2>3. \A v \in Uploads : ~Doc!Running(v)'
    BY <1>2 DEF Doc!Running
  <2>4. ~Doc!Removing'
    <3>1. \A c \in Lists \cup Deletes : callPc'[c] # "srem"
      BY <1>2
    <3> QED
      BY <3>1 DEF Doc!Removing
  <2>5. /\ chunks[newest] <= Len(points) /\ \A i \in 1 .. chunks[newest] : points[i].by = newest
        /\ sections[newest] > 0 => profile # Doc!Nothing /\ profile.by = newest /\ listed
    BY <2>1, <2>2 DEF DocInv, NewestAlone
  <2> QED
    BY <1>1, <2>1, <2>2, <2>3, <2>4, <2>5 DEF NewestAlone
<1> QED
  BY <1>3, <1>4, <1>5, <1>6, <1>7 DEF DocInv

LEMMA DocStart == Doc!Init => DocInv
<1> SUFFICES ASSUME Doc!Init PROVE DocInv
  OBVIOUS
<1>1. /\ callPc = [c \in Uploads \cup Lists \cup Deletes |-> "new"]
      /\ chunks = [u \in Uploads |-> 0] /\ sections = [u \in Uploads |-> 0]
      /\ vectors = [u \in Uploads |-> <<>>] /\ found = [u \in Uploads |-> <<>>]
      /\ points = <<>> /\ profile = Doc!Nothing /\ listed = FALSE /\ newest = "nobody"
  BY DEF Doc!Init, Doc!Calls, Doc!Nobody
<1>2. DocTyped
  <2>1. callPc \in [Uploads \cup Lists \cup Deletes -> CallState]
    BY <1>1 DEF CallState
  <2>2. vectors \in [Uploads -> Seq(Nat)] /\ found \in [Uploads -> Seq(Read \cup {Doc!Failed})]
    BY <1>1
  <2>3. chunks \in [Uploads -> Nat] /\ sections \in [Uploads -> Nat]
    <3>1. chunks = [u \in Uploads |-> 0] /\ sections = [u \in Uploads |-> 0]
      BY <1>1
    <3>2. [u \in Uploads |-> 0] \in [Uploads -> Nat]
      OBVIOUS
    <3> QED
      BY <3>1, <3>2
  <2>4. points \in Seq(Point) /\ listed \in BOOLEAN /\ newest \in Uploads \cup {"nobody"}
    <3>1. points = <<>> /\ listed = FALSE /\ newest = "nobody"
      BY <1>1
    <3>2. <<>> \in Seq(Point)
      OBVIOUS
    <3> QED
      BY <3>1, <3>2
  <2> QED
    BY <2>1, <2>2, <2>3, <2>4 DEF DocTyped
<1>3. VectorsOwn
  <2>1. \A u \in Uploads : vectors[u] = <<>> /\ chunks[u] = 0
    BY <1>1
  <2>2. Len(points) = 0
    BY <1>1
  <2> QED
    BY <2>1, <2>2 DEF VectorsOwn
<1>4. SectionsRead
  <2>1. \A u \in Uploads : found[u] = <<>> /\ Len(found[u]) = 0 /\ sections[u] = 0 /\ callPc[u] = "new"
    BY <1>1
  <2> QED
    BY <2>1 DEF SectionsRead
<1>5. ProfileMade /\ NewestAlone
  BY <1>1 DEF ProfileMade, NewestAlone
<1> QED
  BY <1>2, <1>3, <1>4, <1>5 DEF DocInv

LEMMA DocStep == DocInv /\ [Doc!Next]_(Doc!vars) => DocInv'
<1> SUFFICES ASSUME DocInv, [Doc!Next]_(Doc!vars) PROVE DocInv'
  OBVIOUS
<1>1. CASE \E u \in Uploads : \/ Doc!Begin(u) \/ Doc!EmbedBatch(u) \/ Doc!Upsert(u)
                              \/ Doc!AnalyseSection(u) \/ Doc!SetProfile(u) \/ Doc!AddToIndex(u)
  BY <1>1, BeginKeeps, EmbedKeeps, UpsertKeeps, AnalyseKeeps, SetKeeps, AddKeeps
<1>2. CASE \E c \in Lists \cup Deletes :
              Doc!List(c) \/ Doc!GetListed(c) \/ Doc!Delete(c) \/ Doc!RemoveFromIndex(c) \/ Doc!CallFails(c)
  BY <1>2, ListsKeep
<1>3. CASE Doc!Evict
  BY <1>3, EvictKeeps
<1>4. CASE Doc!Restart
  BY <1>4, RestartKeeps
<1>5. CASE UNCHANGED Doc!vars
  <2>1. UNCHANGED <<callPc, chunks, sections, vectors, found, points, profile, listed, newest>>
    BY <1>5 DEF Doc!vars
  <2>2. DocTyped' /\ VectorsOwn' /\ SectionsRead'
    BY <2>1 DEF DocInv, DocTyped, VectorsOwn, SectionsRead
  <2>3. ProfileMade'
    BY <2>1, ProfileStays
  <2>4. NewestAlone'
    BY <2>1 DEF DocInv, NewestAlone, Doc!Running, Doc!Removing
  <2> QED
    BY <2>2, <2>3, <2>4 DEF DocInv
<1> QED
  BY <1>1, <1>2, <1>3, <1>4, <1>5 DEF Doc!Next

(* What is kept and told of a model's work is what the model answered: the *)
(* news in a score are recent, and the health record claims no more than   *)
(* is cached (_run_cycle); a document's points, profile and index entry    *)
(* are those of its upload, whatever fails (ingest_pdf, analyse_document); *)
(* each tool an agent's model asked for is answered once and in order,     *)
(* within a round's time of the clock, and the outcome says how the run    *)
(* went (run_agent, and the streaming endpoint).                           *)
THEOREM AnswersAreHonest == Spec => []AnswersHonest
<1>1. NewsInv /\ DocInv /\ AgentInv => AnswersHonest
  BY NewsHonest, DocumentsHonest, AgentHonest DEF AnswersHonest
<1>2. News!Spec => []NewsInv
  BY NewsInit, NewsStep, PTL DEF News!Spec
<1>3. Doc!Spec => []DocInv
  BY DocStart, DocStep, PTL DEF Doc!Spec
<1>4. Agent!Spec => []AgentInv
  BY AgentStart, AgentStep, PTL DEF Agent!Spec
<1> QED
  BY <1>1, <1>2, <1>3, <1>4, PartsRun, PTL
=============================================================================
