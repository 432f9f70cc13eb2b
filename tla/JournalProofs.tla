--------------------------- MODULE JournalProofs ----------------------------
(***************************************************************************)
(* Proofs about the journal as MCGateway runs it beside the gateway: for   *)
(* any strategies, results, fees and thresholds, and any number of trades. *)
(***************************************************************************)
EXTENDS MCGateway, FoldProofs

-----------------------------------------------------------------------------
(* The high of a series of daily results, and its deepest fall.            *)

Start == [cum |-> 0, peak |-> 0, fall |-> <<0, 1>>]

AreCurves(q, curve) ==
    curve = [s \in SUBSET DOMAIN q |->
                IF s = {} THEN Start ELSE Jour!Peaked(curve[s \ {Jour!Max(s)}], q[Jour!Max(s)])]

Curves(q) == CHOOSE curve : AreCurves(q, curve)

LEMMA DrawdownOfCurve ==
    ASSUME NEW q PROVE Jour!MaxDrawdown(q) = Curves(q)[DOMAIN q].fall
BY Zenon DEF Jour!MaxDrawdown, Jour!FoldLeft, Jour!MapThenFoldSet, Curves, AreCurves, Start

LEMMA SumIs == ASSUME NEW q PROVE Jour!Sum(q) = SumIn(q, DOMAIN q)
BY Zenon DEF Jour!Sum, Jour!SumFunction, Jour!SumFunctionOnSet, Jour!FoldFunctionOnSet, Jour!MapThenFoldSet, SumIn, Sums, AreSums, One

LEMMA TotalIs == ASSUME NEW r PROVE Jour!Total(r) = SumIn([i \in DOMAIN trades |-> Jour!Pnl(i)], r)
BY Zenon DEF Jour!Total, Jour!SumFunctionOnSet, Jour!FoldFunctionOnSet, Jour!MapThenFoldSet, SumIn, Sums, AreSums, One

LEMMA Divides ==
    ASSUME NEW d \in Int, d > 0, NEW m \in Int, NEW n \in Int, d * m >= d * n
    PROVE  m >= n
OBVIOUS

LEMMA TimesNat ==
    ASSUME NEW m \in Int, NEW n \in Int, m >= n, NEW d \in Int, d >= 0
    PROVE  d * m >= d * n
OBVIOUS

Falls == Int \X Int
Curve == [cum : Int, peak : Int, fall : Falls]

\* From i, the high of the first j days, to j.
FallTo(height, i, j) == i <= j /\ height[i] > 0 /\ \A m \in 1 .. j : height[m] <= height[i]

\* What a curve of k days says of their heights.
Describes(c, height, k) ==
    /\ c \in Curve /\ c.cum = height[k] /\ c.peak >= 0
    /\ \A j \in 1 .. k : height[j] <= c.peak
    /\ c.peak > 0 => \E j \in 1 .. k : height[j] = c.peak
    /\ c.fall[1] >= 0 /\ c.fall[2] > 0
    /\ \A i, j \in 1 .. k :
          FallTo(height, i, j) => (height[i] - height[j]) * c.fall[2] <= c.fall[1] * height[i]
    /\ c.fall[1] > 0 =>
          \E i, j \in 1 .. k :
             FallTo(height, i, j) /\ (height[i] - height[j]) * c.fall[2] = c.fall[1] * height[i]

LEMMA LargerTyped ==
    ASSUME NEW f \in Falls, NEW g \in Falls
    PROVE  Jour!Larger(f, g) \in Falls
BY DEF Jour!Larger, Falls

LEMMA PeakedTyped ==
    ASSUME NEW c \in Curve, NEW x \in Int
    PROVE  Jour!Peaked(c, x) \in Curve
<1> DEFINE cum == c.cum + x
           peak == IF cum > c.peak THEN cum ELSE c.peak
           fall == IF peak > 0 THEN Jour!Larger(<<peak - cum, peak>>, c.fall) ELSE c.fall
<1>1. cum \in Int /\ peak \in Int
  BY DEF Curve
<1>2. <<peak - cum, peak>> \in Falls /\ c.fall \in Falls
  BY <1>1 DEF Falls, Curve
<1>3. fall \in Falls
  BY <1>2, LargerTyped
<1>4. Jour!Peaked(c, x) = [cum |-> cum, peak |-> peak, fall |-> fall]
  BY DEF Jour!Peaked
<1> HIDE DEF cum, peak, fall
<1> QED
  BY <1>1, <1>3, <1>4 DEF Curve

\* A fraction above another is above what the other is above.
LEMMA AboveBoth ==
    ASSUME NEW a \in Int, NEW b \in Int, b > 0, NEW n \in Int, NEW d \in Int, d > 0,
           NEW u \in Int, NEW v \in Int, v > 0, a * d <= n * b, n * v <= u * d
    PROVE  a * v <= u * b
<1>1. v * (n * b) >= v * (a * d) /\ b * (u * d) >= b * (n * v)
  <2>1. n * b \in Int /\ a * d \in Int /\ u * d \in Int /\ n * v \in Int
    OBVIOUS
  <2> QED
    BY <2>1, TimesNat
<1>2. v * (n * b) = b * (n * v)
  OBVIOUS
<1>3. b * (u * d) = d * (u * b) /\ v * (a * d) = d * (a * v)
  OBVIOUS
<1>4. d * (u * b) >= d * (a * v) /\ u * b \in Int /\ a * v \in Int
  BY <1>1, <1>2, <1>3
<1> QED
  BY <1>4, Divides

LEMMA PeakedStep ==
    ASSUME NEW n \in Nat, NEW height \in [0 .. n -> Int], NEW k \in Nat, k < n,
           NEW c, Describes(c, height, k), NEW x \in Int, height[k + 1] = height[k] + x
    PROVE  Describes(Jour!Peaked(c, x), height, k + 1)
<1> DEFINE cum == c.cum + x
           peak == IF cum > c.peak THEN cum ELSE c.peak
           new == <<peak - cum, peak>>
           fall == IF peak > 0 THEN Jour!Larger(new, c.fall) ELSE c.fall
           N == Jour!Peaked(c, x)
<1>1. /\ N \in Curve /\ c \in Curve /\ N.cum = cum /\ N.peak = peak /\ N.fall = fall
  BY PeakedTyped DEF Describes, Jour!Peaked
<1>2. /\ cum = height[k + 1] /\ cum \in Int /\ peak \in Int /\ peak >= 0 /\ peak >= cum /\ peak >= c.peak
      /\ peak = cum \/ peak = c.peak
  BY DEF Describes, Curve
<1>3. \A j \in 1 .. (k + 1) : j \in 1 .. k \/ j = k + 1
  OBVIOUS
<1>4. \A j \in 1 .. (k + 1) : height[j] <= peak
  <2> SUFFICES ASSUME NEW j \in 1 .. (k + 1) PROVE height[j] <= peak
    OBVIOUS
  <2>1. CASE j = k + 1
    <3> HIDE DEF cum, peak
    <3> QED
      BY <1>2, <2>1
  <2>2. CASE j \in 1 .. k
    <3>1. height[j] <= c.peak /\ height[j] \in Int /\ c.peak \in Int
      BY <2>2 DEF Describes, Curve
    <3> HIDE DEF cum, peak
    <3> QED
      BY <1>2, <3>1
  <2> QED
    BY <1>3, <2>1, <2>2
<1>5. peak > 0 => \E j \in 1 .. (k + 1) : height[j] = peak
  <2>1. CASE peak = cum
    <3>1. k + 1 \in 1 .. (k + 1)
      OBVIOUS
    <3> HIDE DEF cum, peak
    <3> QED
      BY <1>2, <2>1, <3>1
  <2>2. CASE peak = c.peak
    <3>1. c.peak > 0 => \E j \in 1 .. k : height[j] = c.peak
      BY DEF Describes
    <3> HIDE DEF cum, peak
    <3> QED
      BY <2>2, <3>1
  <2> QED
    BY <1>2, <2>1, <2>2
<1>6. c.fall \in Falls /\ c.fall[1] \in Int /\ c.fall[2] \in Int /\ c.fall[1] >= 0 /\ c.fall[2] > 0
  BY DEF Describes, Curve, Falls
<1> DEFINE Deeper == peak > 0 /\ (peak - cum) * c.fall[2] > c.fall[1] * peak
<1>7. fall = IF Deeper THEN new ELSE c.fall
  <2> HIDE DEF cum, peak
  <2>1. new[1] = peak - cum /\ new[2] = peak
    OBVIOUS
  <2> QED
    BY <2>1 DEF Jour!Larger
<1>12. new[1] = peak - cum /\ new[2] = peak /\ peak - cum \in Int /\ peak - cum >= 0
  <2> HIDE DEF cum, peak
  <2> QED
    BY <1>2
<1> HIDE DEF new, fall
<1>8. fall[1] >= 0 /\ fall[2] > 0 /\ fall[1] \in Int /\ fall[2] \in Int
  <2> HIDE DEF cum, peak
  <2> QED
    BY <1>2, <1>6, <1>7, <1>12
<1>9. /\ Deeper => fall[1] = peak - cum /\ fall[2] = peak /\ peak > 0 /\ c.fall[1] * peak <= (peak - cum) * c.fall[2]
      /\ ~Deeper => fall = c.fall /\ (peak > 0 => (peak - cum) * c.fall[2] <= c.fall[1] * peak)
  <2> HIDE DEF cum, peak
  <2>1. (peak - cum) * c.fall[2] \in Int /\ c.fall[1] * peak \in Int
    <3>1. \A m, d \in Int : m * d \in Int
      OBVIOUS
    <3>2. peak - cum \in Int /\ peak \in Int
      BY <1>2
    <3> QED
      BY <1>6, <3>1, <3>2
  <2>2. ASSUME Deeper
        PROVE  fall[1] = peak - cum /\ fall[2] = peak /\ peak > 0 /\ c.fall[1] * peak <= (peak - cum) * c.fall[2]
    <3>1. fall[1] = peak - cum /\ fall[2] = peak
      BY <1>7, <1>12, <2>2
    <3>2. peak > 0 /\ c.fall[1] * peak <= (peak - cum) * c.fall[2]
      BY <2>1, <2>2
    <3> QED
      BY <3>1, <3>2
  <2>3. ASSUME ~Deeper
        PROVE  fall = c.fall /\ (peak > 0 => (peak - cum) * c.fall[2] <= c.fall[1] * peak)
    <3>1. fall = c.fall
      BY <1>7, <2>3
    <3>2. peak > 0 => (peak - cum) * c.fall[2] <= c.fall[1] * peak
      BY <2>1, <2>3
    <3> QED
      BY <3>1, <3>2
  <2> QED
    BY <2>2, <2>3
<1> HIDE DEF cum, peak, fall, Deeper, N
<1>10. ASSUME NEW i \in 1 .. (k + 1), NEW j \in 1 .. (k + 1), FallTo(height, i, j)
       PROVE  (height[i] - height[j]) * fall[2] <= fall[1] * height[i]
  <2>0. height[i] \in Int /\ height[j] \in Int /\ height[i] > 0
    BY <1>10 DEF FallTo
  <2>1. CASE j = k + 1
    <3>1. height[i] = peak
      <4>1. height[i] <= peak
        BY <1>4
      <4>2. peak > 0
        BY <1>2, <2>0, <4>1
      <4>3. PICK m \in 1 .. (k + 1) : height[m] = peak
        BY <1>5, <4>2
      <4>4. height[m] <= height[i]
        BY <1>10, <2>1 DEF FallTo
      <4> QED
        BY <1>2, <2>0, <4>1, <4>3, <4>4
    <3>2. height[j] = cum
      BY <1>2, <2>1
    <3>3. CASE Deeper
      <4>1. fall[1] = peak - cum /\ fall[2] = peak
        BY <1>9, <3>3
      <4>2. (peak - cum) * peak <= (peak - cum) * peak
        BY <1>2
      <4> QED
        BY <3>1, <3>2, <4>1, <4>2
    <3>4. CASE ~Deeper
      BY <1>9, <2>0, <3>1, <3>2, <3>4
    <3> QED
      BY <3>3, <3>4
  <2>2. CASE j \in 1 .. k
    <3>1. i \in 1 .. k
      BY <1>10, <2>2 DEF FallTo
    <3>2. (height[i] - height[j]) * c.fall[2] <= c.fall[1] * height[i]
      BY <1>10, <2>2, <3>1 DEF Describes
    <3>3. CASE Deeper
      <4> DEFINE a == height[i] - height[j]
      <4>1. a \in Int
        BY <2>0
      <4>2. a * c.fall[2] <= c.fall[1] * height[i]
        BY <3>2
      <4> HIDE DEF a
      <4>3. a * peak <= (peak - cum) * height[i]
        <5> DEFINE b == height[i]
                   m == c.fall[1]
                   d == c.fall[2]
                   u == peak - cum
        <5>1. u \in Int /\ b \in Int /\ b > 0 /\ m \in Int /\ d \in Int /\ d > 0 /\ peak \in Int /\ peak > 0
          BY <1>2, <1>6, <1>9, <2>0, <3>3
        <5>2. a * d <= m * b /\ m * peak <= u * d
          BY <1>9, <3>3, <4>2
        <5> HIDE DEF b, m, d, u
        <5>3. a * peak <= u * b
          BY <4>1, <5>1, <5>2, AboveBoth
        <5> QED
          BY <5>3 DEF u, b
      <4> QED
        BY <1>9, <3>3, <4>3 DEF a
    <3>4. CASE ~Deeper
      BY <1>9, <3>2, <3>4
    <3> QED
      BY <3>3, <3>4
  <2> QED
    BY <1>3, <2>1, <2>2
<1>11. ASSUME fall[1] > 0
       PROVE  \E i, j \in 1 .. (k + 1) :
                 FallTo(height, i, j) /\ (height[i] - height[j]) * fall[2] = fall[1] * height[i]
  <2>1. CASE Deeper
    <3>1. peak > 0
      BY <1>9, <2>1
    <3>2. PICK i \in 1 .. (k + 1) : height[i] = peak
      BY <1>5, <3>1
    <3>3. FallTo(height, i, k + 1)
      BY <1>4, <3>1, <3>2 DEF FallTo
    <3>4. (height[i] - height[k + 1]) * fall[2] = fall[1] * height[i]
      BY <1>2, <1>9, <2>1, <3>2
    <3>5. k + 1 \in 1 .. (k + 1)
      OBVIOUS
    <3> QED
      BY <3>3, <3>4, <3>5
  <2>2. CASE ~Deeper
    <3>1. c.fall[1] > 0
      BY <1>9, <1>11, <2>2
    <3>2. PICK i \in 1 .. k, j \in 1 .. k :
             FallTo(height, i, j) /\ (height[i] - height[j]) * c.fall[2] = c.fall[1] * height[i]
      BY <3>1 DEF Describes
    <3>3. i \in 1 .. (k + 1) /\ j \in 1 .. (k + 1)
      OBVIOUS
    <3> QED
      BY <1>9, <2>2, <3>2, <3>3
  <2> QED
    BY <2>1, <2>2
<1>13. /\ \A j \in 1 .. (k + 1) : height[j] <= N.peak
       /\ N.peak > 0 => \E j \in 1 .. (k + 1) : height[j] = N.peak
       /\ N \in Curve /\ N.cum = height[k + 1] /\ N.peak >= 0
  BY <1>1, <1>2, <1>4, <1>5
<1>14. /\ N.fall[1] >= 0 /\ N.fall[2] > 0
       /\ \A i, j \in 1 .. (k + 1) :
             FallTo(height, i, j) => (height[i] - height[j]) * N.fall[2] <= N.fall[1] * height[i]
       /\ N.fall[1] > 0 =>
             \E i, j \in 1 .. (k + 1) :
                FallTo(height, i, j) /\ (height[i] - height[j]) * N.fall[2] = N.fall[1] * height[i]
  BY <1>1, <1>8, <1>10, <1>11
<1>15. Describes(N, height, k + 1)
  BY <1>13, <1>14, Zenon DEF Describes
<1> QED
  BY <1>15 DEF N

\* A set of places in a sequence has a last one.
LEMMA LastPlace ==
    ASSUME NEW n \in Nat, NEW s \in SUBSET (1 .. n), s # {}
    PROVE  Jour!Max(s) \in s /\ \A i \in s : Jour!Max(s) >= i
<1> DEFINE B == {n - i : i \in s}
<1>1. B \in SUBSET Nat /\ B # {}
  <2>1. \A i \in s : n - i \in Nat
    OBVIOUS
  <2> QED
    BY <2>1
<1>2. PICK m \in B : \A j \in B : m <= j
  <2> HIDE DEF B
  <2> QED
    BY <1>1, LeastNumber
<1>3. PICK k \in s : m = n - k
  BY <1>2
<1>4. \A i \in s : k >= i
  <2> SUFFICES ASSUME NEW i \in s PROVE k >= i
    OBVIOUS
  <2>1. m <= n - i
    BY <1>2
  <2> QED
    BY <1>3, <2>1
<1> QED
  BY <1>4 DEF Jour!Max

LEMMA CurvesExist ==
    ASSUME NEW n \in Nat, NEW q \in [1 .. n -> Int]
    PROVE  AreCurves(q, Curves(q))
<1> DEFINE S == 1 .. n
           pick == [s \in SUBSET S |-> Jour!Max(s)]
           h == [s \in SUBSET S |-> [c \in Curve |-> IF s = {} THEN c ELSE Jour!Peaked(c, q[Jour!Max(s)])]]
<1>1. IsFiniteSet(S) /\ S = DOMAIN q
  BY FS_Interval
<1>2. \A s \in SUBSET S : s # {} => pick[s] \in s /\ pick[s] = Jour!Max(s)
  BY LastPlace
<1>3. Start \in Curve
  BY DEF Start, Curve, Falls
<1>4. h \in [SUBSET S -> [Curve -> Curve]]
  <2> SUFFICES ASSUME NEW s \in SUBSET S, NEW c \in Curve
               PROVE  (IF s = {} THEN c ELSE Jour!Peaked(c, q[Jour!Max(s)])) \in Curve
    OBVIOUS
  <2>1. s # {} => q[Jour!Max(s)] \in Int
    BY LastPlace
  <2> QED
    BY <2>1, PeakedTyped
<1>5. PICK g \in [SUBSET S -> Curve] : IsFold(S, Start, pick, h, g)
  <2> HIDE DEF h, pick, S
  <2> QED
    BY <1>1, <1>2, <1>3, <1>4, FoldExists
<1>6. ASSUME NEW s \in SUBSET S
      PROVE  g[s] = IF s = {} THEN Start ELSE Jour!Peaked(g[s \ {Jour!Max(s)}], q[Jour!Max(s)])
  <2>1. g[s] = IF s = {} THEN Start ELSE h[s][g[s \ {pick[s]}]]
    BY <1>5 DEF IsFold
  <2>2. s \ {Jour!Max(s)} \in SUBSET S
    OBVIOUS
  <2>3. g[s \ {Jour!Max(s)}] \in Curve
    <3> HIDE DEF S
    <3> QED
      BY <1>5, <2>2
  <2>4. s # {} => h[s][g[s \ {Jour!Max(s)}]] = Jour!Peaked(g[s \ {Jour!Max(s)}], q[Jour!Max(s)])
    <3> HIDE DEF S, pick
    <3> QED
      BY <2>3
  <2> HIDE DEF h
  <2> QED
    BY <1>2, <2>1, <2>4
<1>7. AreCurves(q, g)
  <2> DEFINE k == [s \in SUBSET S |-> IF s = {} THEN Start ELSE Jour!Peaked(g[s \ {Jour!Max(s)}], q[Jour!Max(s)])]
  <2> HIDE DEF S, h, pick
  <2>1. g = k
    BY <1>5, <1>6
  <2> QED
    BY <1>1, <2>1 DEF AreCurves
<1> QED
  BY <1>7, Zenon DEF Curves

\* The high water of a series of daily results, and how deep it has fallen.
LEMMA CurveRight ==
    ASSUME NEW n \in Nat, NEW q \in [1 .. n -> Int], NEW height, height = [k \in 0 .. n |-> SumIn(q, 1 .. k)]
    PROVE  Describes(Curves(q)[DOMAIN q], height, n)
<1> DEFINE c == Curves(q)
           Good == {k \in Nat : k <= n => Describes(c[1 .. k], height, k)}
<1>1. DOMAIN q = 1 .. n
  OBVIOUS
<1>2. \A s \in SUBSET (1 .. n) : c[s] = IF s = {} THEN Start ELSE Jour!Peaked(c[s \ {Jour!Max(s)}], q[Jour!Max(s)])
  BY <1>1, CurvesExist DEF AreCurves
<1> HIDE DEF c
<1>3. \A k \in 0 .. n : SumIn(q, 1 .. k) \in Int /\ height[k] = SumIn(q, 1 .. k)
  <2> SUFFICES ASSUME NEW k \in 0 .. n PROVE SumIn(q, 1 .. k) \in Int
    OBVIOUS
  <2>1. IsFiniteSet(1 .. k) /\ \A i \in 1 .. k : q[i] \in Int
    BY FS_Interval
  <2> QED
    BY <2>1, SumInt
<1>4. height \in [0 .. n -> Int]
  BY <1>3
<1>5. 0 \in Good
  <2>1. 1 .. 0 = {}
    OBVIOUS
  <2>2. c[1 .. 0] = Start
    <3>1. {} \in SUBSET (1 .. n)
      OBVIOUS
    <3>2. c[{}] = Start
      BY <1>2, <3>1
    <3> QED
      BY <2>1, <3>2, Zenon
  <2>3. height[0] = 0
    BY <1>3, SumFirst
  <2>4. Describes(Start, height, 0)
    BY <2>3 DEF Describes, Start, Curve, Falls
  <2>5. Describes(c[1 .. 0], height, 0)
    BY <2>2, <2>4, Zenon
  <2> QED
    BY <2>5
<1>6. ASSUME NEW k \in Good PROVE k + 1 \in Good
  <2> SUFFICES ASSUME k + 1 <= n PROVE Describes(c[1 .. (k + 1)], height, k + 1)
    OBVIOUS
  <2>1. k \in Nat /\ k < n /\ Describes(c[1 .. k], height, k)
    OBVIOUS
  <2> DEFINE s == 1 .. (k + 1)
  <2>2. s \in SUBSET (1 .. n) /\ s # {}
    <3>1. k + 1 \in s /\ \A i \in s : i \in 1 .. n
      BY <2>1
    <3> HIDE DEF s
    <3> QED
      BY <3>1
  <2>3. Jour!Max(s) = k + 1
    <3>1. Jour!Max(s) \in s /\ \A i \in s : Jour!Max(s) >= i
      BY <2>2, LastPlace
    <3>2. k + 1 \in s
      BY <2>1
    <3> QED
      BY <2>1, <3>1, <3>2
  <2>4. s \ {k + 1} = 1 .. k
    BY <2>1
  <2>5. c[s] = Jour!Peaked(c[1 .. k], q[k + 1])
    <3> HIDE DEF s
    <3>1. c[s] = Jour!Peaked(c[s \ {Jour!Max(s)}], q[Jour!Max(s)])
      BY <1>2, <2>2
    <3> QED
      BY <2>3, <2>4, <3>1, Zenon
  <2>6. height[k + 1] = height[k] + q[k + 1] /\ q[k + 1] \in Int
    <3>1. \A i \in 1 .. n : q[i] \in Int
      OBVIOUS
    <3>2. SumIn(q, 1 .. (k + 1)) = SumIn(q, 1 .. k) + q[k + 1]
      BY <2>1, <3>1, SumNext
    <3>3. k \in 0 .. n /\ k + 1 \in 0 .. n /\ k + 1 \in 1 .. n
      BY <2>1
    <3> HIDE DEF s, Good
    <3> QED
      BY <1>3, <3>2, <3>3
  <2>7. Describes(Jour!Peaked(c[1 .. k], q[k + 1]), height, k + 1)
    <3> HIDE DEF s, Good
    <3> QED
      BY <1>4, <2>1, <2>6, PeakedStep
  <2> QED
    BY <2>5, <2>7, Zenon
<1>7. Good \in SUBSET Nat
  OBVIOUS
<1>8. Good = Nat
  <2> HIDE DEF Good
  <2> QED
    BY <1>5, <1>6, <1>7, CountUp
<1>9. \A k \in Good : k <= n => Describes(c[1 .. k], height, k)
  OBVIOUS
<1> HIDE DEF Good
<1>10. n \in Good /\ n <= n
  BY <1>8
<1>11. Describes(c[1 .. n], height, n)
  BY <1>9, <1>10, Zenon
<1> QED
  BY <1>1, <1>11, Zenon DEF c

-----------------------------------------------------------------------------
(* The arithmetic of the tangency portfolio.                               *)

LEMMA SquareNat == ASSUME NEW n \in Int PROVE n * n >= 0
OBVIOUS

\* One more observation: k * m >= s^2 of the first k, t the next one.
LEMMA OneMore ==
    ASSUME NEW k \in Nat, NEW m \in Int, NEW s \in Int, k * m >= s * s, k = 0 => m = 0, NEW t \in Int
    PROVE  (k + 1) * (m + t * t) >= (s + t) * (s + t)
<1>1. CASE k = 0
  <2>1. m = 0 /\ s * s <= 0
    BY <1>1
  <2>2. s = 0
    BY <2>1
  <2> QED
    BY <1>1, <2>1, <2>2
<1>2. CASE k > 0
  <2>1. (s - k * t) * (s - k * t) >= 0
    BY SquareNat
  <2>2. (s - k * t) * (s - k * t) = s * s - 2 * (k * (s * t)) + k * (k * (t * t))
    OBVIOUS
  <2>3. k * (m + k * (t * t)) >= k * (2 * (s * t))
    <3>1. k * (m + k * (t * t)) = k * m + k * (k * (t * t))
      OBVIOUS
    <3>2. k * (2 * (s * t)) = 2 * (k * (s * t))
      OBVIOUS
    <3> QED
      BY <2>1, <2>2, <3>1, <3>2
  <2>4. m + k * (t * t) \in Int /\ 2 * (s * t) \in Int
    OBVIOUS
  <2>5. m + k * (t * t) >= 2 * (s * t)
    BY <1>2, <2>3, <2>4, Divides
  <2>6. (k + 1) * (m + t * t) = k * m + m + k * (t * t) + t * t
    OBVIOUS
  <2>7. (s + t) * (s + t) = s * s + 2 * (s * t) + t * t
    OBVIOUS
  <2> QED
    BY <2>5, <2>6, <2>7
<1> QED
  BY <1>1, <1>2

LEMMA FormStep ==
    ASSUME NEW k \in Nat, NEW p \in Int, NEW q \in Int, NEW r \in Int, NEW x \in Int, NEW y \in Int,
           NEW s \in Int, NEW t \in Int, NEW u \in Int, NEW v \in Int,
           k = 0 => p = 0 /\ q = 0 /\ r = 0,
           k * (u * u * p + 2 * u * v * q + v * v * r) >= (u * x + v * y) * (u * x + v * y)
    PROVE  (k + 1) * (u * u * (p + s * s) + 2 * u * v * (q + s * t) + v * v * (r + t * t))
             >= (u * (x + s) + v * (y + t)) * (u * (x + s) + v * (y + t))
<1> DEFINE m == u * u * p + 2 * u * v * q + v * v * r
           z == u * x + v * y
           e == u * s + v * t
<1>1. m \in Int /\ z \in Int /\ e \in Int /\ (k = 0 => m = 0)
  OBVIOUS
<1>2. u * u * (p + s * s) + 2 * u * v * (q + s * t) + v * v * (r + t * t) = m + e * e
  OBVIOUS
<1>3. u * (x + s) + v * (y + t) = z + e
  OBVIOUS
<1> HIDE DEF m, z, e
<1>4. k * m >= z * z
  BY DEF m, z
<1>5. (k + 1) * (m + e * e) >= (z + e) * (z + e)
  BY <1>1, <1>4, OneMore
<1> QED
  BY <1>2, <1>3, <1>5

\* A sum along a sequence.
\* The covariance form of two series is nowhere negative.
LEMMA CovarianceForm ==
    ASSUME NEW n \in Nat, NEW x, NEW y, \A i \in 1 .. n : x[i] \in Int /\ y[i] \in Int,
           NEW xx, \A i \in 1 .. n : xx[i] = x[i] * x[i],
           NEW xy, \A i \in 1 .. n : xy[i] = x[i] * y[i],
           NEW yy, \A i \in 1 .. n : yy[i] = y[i] * y[i]
    PROVE  \A u, v \in Int :
              n * (u * u * SumIn(xx, 1 .. n) + 2 * u * v * SumIn(xy, 1 .. n) + v * v * SumIn(yy, 1 .. n))
                >= (u * SumIn(x, 1 .. n) + v * SumIn(y, 1 .. n)) * (u * SumIn(x, 1 .. n) + v * SumIn(y, 1 .. n))
<1> DEFINE Form(k, u, v) ==
              k * (u * u * SumIn(xx, 1 .. k) + 2 * u * v * SumIn(xy, 1 .. k) + v * v * SumIn(yy, 1 .. k))
                >= (u * SumIn(x, 1 .. k) + v * SumIn(y, 1 .. k)) * (u * SumIn(x, 1 .. k) + v * SumIn(y, 1 .. k))
           Good == {k \in Nat : k <= n => \A u, v \in Int : Form(k, u, v)}
<1>1. /\ \A i \in 1 .. n : xx[i] \in Int /\ xy[i] \in Int /\ yy[i] \in Int
      /\ \A i \in 1 .. n : x[i] \in Int /\ y[i] \in Int
  OBVIOUS
<1>2. 0 \in Good
  <2>1. \A u, v \in Int : Form(0, u, v)
    BY SumFirst
  <2> HIDE DEF Form
  <2> QED
    BY <2>1
<1>3. ASSUME NEW k \in Good PROVE k + 1 \in Good
  <2> SUFFICES ASSUME k + 1 <= n, NEW u \in Int, NEW v \in Int PROVE Form(k + 1, u, v)
    <3> HIDE DEF Form
    <3> QED
      OBVIOUS
  <2>1. k \in Nat /\ k < n /\ Form(k, u, v)
    <3> HIDE DEF Form
    <3> QED
      OBVIOUS
  <2>2. /\ SumIn(xx, 1 .. k) \in Int /\ SumIn(xx, 1 .. (k + 1)) = SumIn(xx, 1 .. k) + xx[k + 1]
        /\ SumIn(xy, 1 .. k) \in Int /\ SumIn(xy, 1 .. (k + 1)) = SumIn(xy, 1 .. k) + xy[k + 1]
        /\ SumIn(yy, 1 .. k) \in Int /\ SumIn(yy, 1 .. (k + 1)) = SumIn(yy, 1 .. k) + yy[k + 1]
        /\ SumIn(x, 1 .. k) \in Int /\ SumIn(x, 1 .. (k + 1)) = SumIn(x, 1 .. k) + x[k + 1]
        /\ SumIn(y, 1 .. k) \in Int /\ SumIn(y, 1 .. (k + 1)) = SumIn(y, 1 .. k) + y[k + 1]
    <3> HIDE DEF Form, Good
    <3> QED
      BY <1>1, <2>1, SumNext
  <2>3. k = 0 => SumIn(xx, 1 .. k) = 0 /\ SumIn(xy, 1 .. k) = 0 /\ SumIn(yy, 1 .. k) = 0
    <3> HIDE DEF Form, Good
    <3> QED
      BY SumFirst
  <2> DEFINE p == SumIn(xx, 1 .. k)
             q == SumIn(xy, 1 .. k)
             r == SumIn(yy, 1 .. k)
             s == SumIn(x, 1 .. k)
             t == SumIn(y, 1 .. k)
             a == x[k + 1]
             b == y[k + 1]
  <2>4. a \in Int /\ b \in Int /\ xx[k + 1] = a * a /\ xy[k + 1] = a * b /\ yy[k + 1] = b * b
    <3>1. k + 1 \in 1 .. n
      BY <2>1
    <3> HIDE DEF Form, Good
    <3> QED
      BY <3>1
  <2>5. k * (u * u * p + 2 * u * v * q + v * v * r) >= (u * s + v * t) * (u * s + v * t)
    BY <2>1
  <2>6. p \in Int /\ q \in Int /\ r \in Int /\ s \in Int /\ t \in Int
    BY <2>2
  <2>7. k = 0 => p = 0 /\ q = 0 /\ r = 0
    BY <2>3
  <2> HIDE DEF p, q, r, s, t, a, b
  <2>8. (k + 1) * (u * u * (p + a * a) + 2 * u * v * (q + a * b) + v * v * (r + b * b))
          >= (u * (s + a) + v * (t + b)) * (u * (s + a) + v * (t + b))
    <3> HIDE DEF Form, Good
    <3> QED
      BY <2>1, <2>4, <2>5, <2>6, <2>7, FormStep
  <2>9. /\ SumIn(xx, 1 .. (k + 1)) = p + a * a /\ SumIn(xy, 1 .. (k + 1)) = q + a * b
        /\ SumIn(yy, 1 .. (k + 1)) = r + b * b
        /\ SumIn(x, 1 .. (k + 1)) = s + a /\ SumIn(y, 1 .. (k + 1)) = t + b
    BY <2>2, <2>4 DEF p, q, r, s, t, a, b
  <2> HIDE DEF Good
  <2>10. k + 1 \in Nat
    BY <2>1
  <2> QED
    BY <2>8, <2>9, Zenon
<1>4. Good \in SUBSET Nat
  OBVIOUS
<1>5. Good = Nat
  <2> HIDE DEF Good
  <2> QED
    BY <1>2, <1>3, <1>4, CountUp
<1> HIDE DEF Form
<1>6. \A k \in Good : k <= n => \A u, v \in Int : Form(k, u, v)
  OBVIOUS
<1> HIDE DEF Good
<1>7. n \in Good /\ n <= n
  BY <1>5
<1>8. \A u, v \in Int : Form(n, u, v)
  BY <1>6, <1>7, Zenon
<1> QED
  BY <1>8 DEF Form

\* The two weights of the unclipped tangency portfolio solve a linear system.
LEMMA Unclipped ==
    ASSUME NEW a \in Int, NEW b \in Int, NEW c \in Int, NEW x \in Int, NEW y \in Int,
           NEW p \in Int, NEW q \in Int, p = c * x - b * y, q = a * y - b * x,
           NEW D \in Int, D = a * c - b * b
    PROVE  x * D = a * p + b * q /\ y * D = b * p + c * q
<1>1. a * p = a * c * x - a * b * y /\ b * q = a * b * y - b * b * x
  OBVIOUS
<1>2. b * p = b * c * x - b * b * y /\ c * q = a * c * y - b * c * x
  OBVIOUS
<1>3. x * D = a * c * x - b * b * x /\ y * D = a * c * y - b * b * y
  OBVIOUS
<1> QED
  BY <1>1, <1>2, <1>3

LEMMA FormProduct ==
    ASSUME NEW a \in Int, NEW b \in Int, NEW c \in Int, NEW D \in Int, D = a * c - b * b,
           NEW p \in Int, NEW q \in Int, NEW u \in Int, NEW v \in Int,
           NEW rw \in Int, rw = p * p * a + 2 * p * q * b + q * q * c,
           NEW rv \in Int, rv = u * u * a + 2 * u * v * b + v * v * c,
           NEW B \in Int, B = u * (a * p + b * q) + v * (b * p + c * q)
    PROVE  rv * rw - B * B = D * ((u * q - v * p) * (u * q - v * p))
OBVIOUS

\* A positive definite form is not negative.
LEMMA FormNat ==
    ASSUME NEW a \in Int, a > 0, NEW b \in Int, NEW c \in Int, NEW D \in Int, D = a * c - b * b, D > 0,
           NEW p \in Int, NEW q \in Int, NEW r \in Int, r = p * p * a + 2 * p * q * b + q * q * c
    PROVE  r >= 0 /\ a * r >= (a * p + b * q) * (a * p + b * q)
<1>1. a * r = (a * p + b * q) * (a * p + b * q) + D * (q * q)
  OBVIOUS
<1>2. (a * p + b * q) * (a * p + b * q) >= 0 /\ q * q >= 0 /\ q * q \in Int
  BY SquareNat
<1>3. D * (q * q) >= D * 0
  BY <1>2, TimesNat
<1>4. a * r >= (a * p + b * q) * (a * p + b * q)
  BY <1>1, <1>3
<1>5. a * r >= a * 0
  BY <1>2, <1>4
<1> QED
  BY <1>4, <1>5, Divides

LEMMA BestUnclipped ==
    ASSUME NEW a \in Int, a > 0, NEW b \in Int, NEW c \in Int, a * c - b * b > 0,
           NEW x \in Int, NEW y \in Int,
           NEW p \in Int, NEW q \in Int, p = c * x - b * y, q = a * y - b * x,
           NEW u \in Int, NEW v \in Int
    PROVE  (p * x + q * y) * (p * x + q * y) * (u * u * a + 2 * u * v * b + v * v * c)
             >= (u * x + v * y) * (u * x + v * y) * (p * p * a + 2 * p * q * b + q * q * c)
<1> DEFINE D == a * c - b * b
           mw == p * x + q * y
           mv == u * x + v * y
           rw == p * p * a + 2 * p * q * b + q * q * c
           rv == u * u * a + 2 * u * v * b + v * v * c
<1>0. /\ D \in Int /\ D > 0 /\ mw \in Int /\ mv \in Int /\ rw \in Int /\ rv \in Int
      /\ D = a * c - b * b /\ mw = p * x + q * y /\ mv = u * x + v * y
      /\ rw = p * p * a + 2 * p * q * b + q * q * c /\ rv = u * u * a + 2 * u * v * b + v * v * c
  OBVIOUS
<1> SUFFICES mw * mw * rv >= mv * mv * rw
  OBVIOUS
<1> HIDE DEF D, mw, mv, rw, rv
<1> USE <1>0
<1> DEFINE B == u * (a * p + b * q) + v * (b * p + c * q)
           e == u * q - v * p
<1>1. B \in Int /\ e \in Int
  OBVIOUS
<1>2. x * D = a * p + b * q /\ y * D = b * p + c * q
  BY Unclipped
<1>3. mw * D = rw
  <2>1. mw * D = p * (x * D) + q * (y * D)
    OBVIOUS
  <2>2. p * (a * p + b * q) + q * (b * p + c * q) = rw
    OBVIOUS
  <2> QED
    BY <1>2, <2>1, <2>2
<1>4. mv * D = B
  <2>1. mv * D = u * (x * D) + v * (y * D)
    OBVIOUS
  <2> QED
    BY <1>2, <2>1
<1>5. rv * rw - B * B = D * (e * e)
  BY FormProduct
<1> HIDE DEF B, e
<1>6. rw >= 0
  BY FormNat
<1>7. rv * rw >= B * B
  <2>1. e * e >= 0 /\ e * e \in Int
    BY <1>1, SquareNat
  <2>2. D * (e * e) >= D * 0
    BY <2>1, TimesNat
  <2>3. rv * rw \in Int /\ B * B \in Int /\ D * (e * e) \in Int
    BY <1>1
  <2> QED
    BY <1>5, <2>2, <2>3
<1>8. rw * (rv * rw) >= rw * (B * B)
  <2>1. rv * rw \in Int /\ B * B \in Int
    BY <1>1
  <2> QED
    BY <1>6, <1>7, <2>1, TimesNat
<1>9. (D * D) * (mw * mw * rv) = rw * (rv * rw)
  <2>1. (D * D) * (mw * mw * rv) = (mw * D) * ((mw * D) * rv)
    OBVIOUS
  <2>2. (mw * D) * ((mw * D) * rv) = rw * (rw * rv)
    BY <1>3
  <2>3. rw * (rw * rv) = rw * (rv * rw)
    OBVIOUS
  <2> QED
    BY <2>1, <2>2, <2>3
<1>10. (D * D) * (mv * mv * rw) = rw * (B * B)
  <2>1. (D * D) * (mv * mv * rw) = rw * ((mv * D) * (mv * D))
    OBVIOUS
  <2> QED
    BY <1>4, <2>1
<1>11. D * D > 0 /\ D * D \in Int
  OBVIOUS
<1>12. mw * mw * rv \in Int /\ mv * mv * rw \in Int
  OBVIOUS
<1>13. (D * D) * (mw * mw * rv) >= (D * D) * (mv * mv * rw)
  BY <1>8, <1>9, <1>10
<1> QED
  BY <1>11, <1>12, <1>13, Divides

\* Where one of the weights is clipped, the other strategy alone is best.
LEMMA BestClipped ==
    ASSUME NEW a \in Int, a > 0, NEW b \in Int, NEW c \in Int, NEW D \in Int, D = a * c - b * b, D > 0,
           NEW x \in Int, NEW y \in Int, a * y - b * x <= 0,
           NEW p \in Int, p > 0, p * x > 0,
           NEW u \in Nat, NEW v \in Nat,
           NEW mv \in Int, mv = u * x + v * y, mv > 0,
           NEW rv \in Int, rv = u * u * a + 2 * u * v * b + v * v * c
    PROVE  (p * x) * (p * x) * rv >= mv * mv * (p * p * a)
<1> DEFINE B == a * u + b * v
<1>1. B \in Int
  OBVIOUS
<1>2. x * B - a * mv = v * (b * x - a * y)
  OBVIOUS
<1>3. a * rv >= B * B
  BY FormNat
<1> HIDE DEF B
<1>4. x * B >= a * mv
  <2>1. b * x - a * y >= 0 /\ b * x - a * y \in Int /\ v \in Int
    OBVIOUS
  <2>2. v * (b * x - a * y) >= v * 0
    BY <2>1, TimesNat
  <2>3. x * B \in Int /\ a * mv \in Int
    BY <1>1
  <2> QED
    BY <1>2, <2>2, <2>3
<1>5. a * mv > 0
  OBVIOUS
<1>6. (x * B) * (x * B) >= (a * mv) * (a * mv)
  <2>1. \A s, t \in Int : s >= t /\ t > 0 => s * s >= t * t
    OBVIOUS
  <2>2. x * B \in Int /\ a * mv \in Int
    BY <1>1
  <2> QED
    BY <1>4, <1>5, <2>1, <2>2
<1>7. (x * x) * (a * rv) >= (x * x) * (B * B)
  <2>1. x * x >= 0 /\ x * x \in Int /\ a * rv \in Int /\ B * B \in Int
    BY <1>1, SquareNat
  <2> QED
    BY <1>3, <2>1, TimesNat
<1>8. a * (x * x * rv) >= a * (a * (mv * mv))
  <2>1. a * (x * x * rv) = (x * x) * (a * rv)
    OBVIOUS
  <2>2. (x * x) * (B * B) = (x * B) * (x * B)
    BY <1>1
  <2>3. (a * mv) * (a * mv) = a * (a * (mv * mv))
    OBVIOUS
  <2>4. (x * x) * (a * rv) \in Int /\ (x * x) * (B * B) \in Int /\ (a * mv) * (a * mv) \in Int
    BY <1>1
  <2> QED
    BY <1>6, <1>7, <2>1, <2>2, <2>3, <2>4
<1>9. x * x * rv \in Int /\ a * (mv * mv) \in Int
  OBVIOUS
<1>10. x * x * rv >= a * (mv * mv)
  BY <1>8, <1>9, Divides
<1>11. (p * p) * (x * x * rv) >= (p * p) * (a * (mv * mv))
  <2>1. p * p >= 0 /\ p * p \in Int
    BY SquareNat
  <2> QED
    BY <1>9, <1>10, <2>1, TimesNat
<1>12. (p * x) * (p * x) * rv = (p * p) * (x * x * rv)
  OBVIOUS
<1>13. mv * mv * (p * p * a) = (p * p) * (a * (mv * mv))
  OBVIOUS
<1> QED
  BY <1>11, <1>12, <1>13

-----------------------------------------------------------------------------
(* The rows and what they come to.                                         *)

Traders == PaperTraders \cup LiveTraders

Trade == [strategy : Traders, paper : BOOLEAN, status : {"filled", "rejected"}, pnl : Int, fee : Int, at : Nat]

TradesTyped == day \in Nat /\ trades \in Seq(Trade)

Pnls == [i \in DOMAIN trades |-> Jour!Pnl(i)]
Fees == [i \in DOMAIN trades |-> trades[i].fee]

LEMMA TradersAre == Jour!Strategy = Traders
<1>1. ASSUME NEW s \in Traders PROVE s \in Jour!Strategy
  <2> DEFINE Who == [strategy : PaperTraders, paper : {TRUE}] \cup [strategy : LiveTraders, paper : {FALSE}]
  <2>1. CASE s \in PaperTraders
    <3> DEFINE a == [strategy |-> s, paper |-> TRUE]
    <3>1. a \in Who /\ a.strategy = s
      BY <2>1
    <3> HIDE DEF a
    <3> QED
      BY <3>1 DEF Jour!Strategy
  <2>2. CASE s \in LiveTraders
    <3> DEFINE a == [strategy |-> s, paper |-> FALSE]
    <3>1. a \in Who /\ a.strategy = s
      BY <2>2
    <3> HIDE DEF a
    <3> QED
      BY <3>1 DEF Jour!Strategy
  <2> QED
    BY <2>1, <2>2 DEF Traders
<1>2. ASSUME NEW s \in Jour!Strategy PROVE s \in Traders
  BY DEF Jour!Strategy, Traders
<1> QED
  BY <1>1, <1>2

LEMMA FeesAre == ASSUME NEW r PROVE Jour!TotalFees(r) = SumIn(Fees, r)
BY Zenon DEF Jour!TotalFees, Jour!SumFunctionOnSet, Jour!FoldFunctionOnSet, Jour!MapThenFoldSet, SumIn, Sums, AreSums, One, Fees

LEMMA TotalOf == ASSUME NEW r PROVE Jour!Total(r) = SumIn(Pnls, r)
BY TotalIs, Zenon DEF Pnls

LEMMA TradeFields ==
    ASSUME TradesTyped
    PROVE  /\ IsFiniteSet(DOMAIN trades) /\ Jour!Recent \in SUBSET DOMAIN trades
           /\ Jour!Filled \in SUBSET DOMAIN trades
           /\ \A i \in DOMAIN trades :
                 /\ Pnls[i] \in Int /\ Fees[i] \in Int /\ Pnls[i] = Jour!Pnl(i) /\ Fees[i] = trades[i].fee
                 /\ trades[i].strategy \in Traders /\ trades[i].paper \in BOOLEAN /\ Jour!Date(i) \in Int
<1>1. DOMAIN trades = 1 .. Len(trades) /\ Len(trades) \in Nat /\ \A i \in DOMAIN trades : trades[i] \in Trade
  BY DEF TradesTyped
<1>2. IsFiniteSet(DOMAIN trades)
  BY <1>1, FS_Interval
<1>3. \A i \in DOMAIN trades : Jour!Date(i) \in Int
  <2>1. \A n \in Nat : n \div DayLength \in Int
    BY GatewayAssumption DEF GatewayAssumption
  <2> QED
    BY <1>1, <2>1 DEF Trade, Jour!Date
<1>4. Jour!Recent \in SUBSET DOMAIN trades /\ Jour!Filled \in SUBSET DOMAIN trades
  BY DEF Jour!Recent, Jour!Filled
<1> QED
  BY <1>1, <1>2, <1>3, <1>4 DEF Trade, Pnls, Fees, Jour!Pnl

\* A part of the trades is finite and comes to a number.
LEMMA PartTotal ==
    ASSUME TradesTyped, NEW r \in SUBSET DOMAIN trades
    PROVE  IsFiniteSet(r) /\ Jour!Total(r) \in Int /\ Jour!Total(r) = SumIn(Pnls, r)
<1>1. IsFiniteSet(r) /\ \A i \in r : Pnls[i] \in Int
  BY TradeFields, FS_Subset
<1> QED
  BY <1>1, SumInt, TotalOf

\* The rows split the recent fills by day, strategy and mode.
LEMMA RowsSplit ==
    ASSUME TradesTyped
    PROVE  /\ \A r \in Jour!Rows : /\ r.ids \in SUBSET Jour!Recent /\ r.ids # {}
                                   /\ r.strategy \in Traders
                                   /\ \A i \in r.ids : Jour!Date(i) = r.date /\ trades[i].strategy = r.strategy
           /\ \A i \in Jour!Recent : \E r \in Jour!Rows :
                 i \in r.ids /\ r.date = Jour!Date(i) /\ r.strategy = trades[i].strategy
<1> DEFINE Row(d, s, p) == [date |-> d, strategy |-> s, paper |-> p,
                            ids |-> { i \in Jour!Of(s, Jour!Recent) : Jour!Date(i) = d /\ trades[i].paper = p }]
           D == { Jour!Date(i) : i \in Jour!Recent }
<1>1. \A r : r \in Jour!Rows <=> r.ids # {} /\ \E d \in D, s \in Traders, p \in BOOLEAN : r = Row(d, s, p)
  BY TradersAre DEF Jour!Rows, Jour!DailyRows
<1>2. ASSUME NEW r \in Jour!Rows
      PROVE  /\ r.ids \in SUBSET Jour!Recent /\ r.ids # {} /\ r.strategy \in Traders
             /\ \A i \in r.ids : Jour!Date(i) = r.date /\ trades[i].strategy = r.strategy
  <2>1. PICK d \in D, s \in Traders, p \in BOOLEAN : r = Row(d, s, p)
    BY <1>1
  <2> HIDE DEF D
  <2>2. /\ r.ids = { i \in Jour!Of(s, Jour!Recent) : Jour!Date(i) = d /\ trades[i].paper = p }
        /\ r.date = d /\ r.strategy = s
    BY <2>1
  <2> QED
    BY <1>1, <2>2 DEF Jour!Of
<1>3. ASSUME NEW i \in Jour!Recent
      PROVE  \E r \in Jour!Rows : i \in r.ids /\ r.date = Jour!Date(i) /\ r.strategy = trades[i].strategy
  <2> DEFINE r == Row(Jour!Date(i), trades[i].strategy, trades[i].paper)
  <2>1. trades[i].strategy \in Traders /\ trades[i].paper \in BOOLEAN /\ Jour!Date(i) \in D
    BY TradeFields
  <2>2. i \in r.ids /\ r.date = Jour!Date(i) /\ r.strategy = trades[i].strategy
    BY DEF Jour!Of
  <2>3. r \in Jour!Rows
    <3>1. \E d \in D, s \in Traders, p \in BOOLEAN : r = Row(d, s, p)
      BY <2>1
    <3>2. r.ids # {}
      BY <2>2
    <3> HIDE DEF r, Row, D
    <3> QED
      BY <1>1, <3>1, <3>2
  <2> HIDE DEF r
  <2> QED
    BY <2>2, <2>3
<1> QED
  BY <1>2, <1>3

-----------------------------------------------------------------------------
(* The days.                                                               *)

LEMMA SameSize == \A S : Jour!Cardinality(S) = Cardinality(S)
BY DEF Jour!Cardinality, Cardinality

DatesOf(rows) == { r.date : r \in rows }

LEMMA DatesAre ==
    ASSUME TradesTyped, NEW rows \in SUBSET Jour!Rows
    PROVE  \E m \in Nat :
              /\ Jour!Dates(rows) \in [1 .. m -> Int]
              /\ \A j, k \in 1 .. m : j # k => Jour!Dates(rows)[j] # Jour!Dates(rows)[k]
              /\ \A r \in rows : \E k \in 1 .. m : Jour!Dates(rows)[k] = r.date
<1> DEFINE D == DatesOf(rows)
           m == Cardinality(D)
           q == Jour!Dates(rows)
<1>1. D \in SUBSET Int /\ IsFiniteSet(D)
  <2> DEFINE f == [i \in Jour!Recent |-> Jour!Date(i)]
             E == {f[i] : i \in Jour!Recent}
  <2>1. IsFiniteSet(Jour!Recent)
    BY TradeFields, PartTotal
  <2>2. f \in Surjection(Jour!Recent, E)
    BY DEF Surjection
  <2>3. IsFiniteSet(E)
    BY <2>1, <2>2, FS_Surjection
  <2>4. E \in SUBSET Int
    BY TradeFields
  <2>5. D \in SUBSET E
    <3> SUFFICES ASSUME NEW r \in rows PROVE r.date \in E
      BY DEF DatesOf
    <3>1. r.ids # {} /\ r.ids \in SUBSET Jour!Recent /\ \A i \in r.ids : Jour!Date(i) = r.date
      BY RowsSplit
    <3>2. PICK i \in r.ids : i \in Jour!Recent /\ Jour!Date(i) = r.date
      BY <3>1
    <3> QED
      BY <3>2
  <2> HIDE DEF D, E
  <2> QED
    BY <2>3, <2>4, <2>5, FS_Subset
<1>2. m \in Nat
  BY <1>1, FS_CardinalityType
<1>3. \E p \in [1 .. m -> D] : Ascends(p)
  BY <1>1, CanBeSorted
<1>4. q = CHOOSE p \in [1 .. m -> D] : Ascends(p)
  <2>1. Jour!Cardinality(D) = m
    BY SameSize
  <2> QED
    BY <2>1, Zenon DEF Jour!Dates, Ascends, DatesOf
<1>5. q \in [1 .. m -> D] /\ Ascends(q)
  <2> HIDE DEF D, m, q
  <2> QED
    BY <1>3, <1>4, Zenon
<1>6. /\ \A j, k \in 1 .. m : j # k => q[j] # q[k]
      /\ \A x \in D : \E k \in 1 .. m : q[k] = x
  <2> HIDE DEF q, D
  <2> QED
    BY <1>1, <1>5, SortedPlaces
<1>7. \A r \in rows : r.date \in D
  BY DEF DatesOf
<1> HIDE DEF q, D, m
<1>8. q \in [1 .. m -> Int]
  BY <1>1, <1>5
<1> QED
  BY <1>2, <1>6, <1>7, <1>8 DEF q

\* What the days of some rows come to is what the rows come to.
LEMMA DaysAddUp ==
    ASSUME TradesTyped, NEW rows \in SUBSET Jour!Rows, NEW m \in Nat, NEW dates \in [1 .. m -> Int],
           \A j, k \in 1 .. m : j # k => dates[j] # dates[k],
           \A r \in rows : \E k \in 1 .. m : dates[k] = r.date
    PROVE  /\ Jour!PerDay(rows, dates) \in [1 .. m -> Int]
           /\ Jour!Sum(Jour!PerDay(rows, dates)) = Jour!Total(UNION { r.ids : r \in rows })
<1> DEFINE K == 1 .. m
           Piece(k) == UNION { r.ids : r \in { x \in rows : x.date = dates[k] } }
           G == [k \in K |-> Piece(k)]
           e == Jour!PerDay(rows, dates)
           whole == UNION { r.ids : r \in rows }
<1>1. whole \in SUBSET DOMAIN trades /\ \A k \in K : G[k] \in SUBSET DOMAIN trades
  BY RowsSplit, TradeFields
<1>2. \A k \in K : \A i \in G[k] : Jour!Date(i) = dates[k]
  BY RowsSplit
<1>3. \A j, k \in K : j # k => G[j] \cap G[k] = {}
  <2> HIDE DEF G
  <2> QED
    BY <1>2
<1>4. UNION { G[k] : k \in K } = whole
  <2>1. \A k \in K : G[k] \in SUBSET whole
    OBVIOUS
  <2>2. ASSUME NEW i \in whole PROVE \E k \in K : i \in G[k]
    <3>1. PICK r \in rows : i \in r.ids
      OBVIOUS
    <3>2. PICK k \in K : dates[k] = r.date
      OBVIOUS
    <3>3. i \in G[k]
      BY <3>1, <3>2
    <3> QED
      BY <3>3
  <2> HIDE DEF G, whole
  <2> QED
    BY <2>1, <2>2
<1>5. e = [k \in K |-> Jour!Total(G[k])]
  BY DEF Jour!PerDay
<1>6. \A k \in K : IsFiniteSet(G[k]) /\ Jour!Total(G[k]) \in Int /\ Jour!Total(G[k]) = SumIn(Pnls, G[k])
  <2> HIDE DEF G
  <2> QED
    BY <1>1, PartTotal
<1>7. e \in [K -> Int] /\ DOMAIN e = K /\ \A k \in K : e[k] = SumIn(Pnls, G[k])
  <2> HIDE DEF G, e
  <2> QED
    BY <1>5, <1>6
<1>8. \A k \in K : \A i \in G[k] : Pnls[i] \in Int
  <2> HIDE DEF G
  <2> QED
    BY <1>1, TradeFields
<1>9. SumIn(e, K) = SumIn(Pnls, UNION { G[k] : k \in K })
  <2> HIDE DEF G, e
  <2>1. IsFiniteSet(K)
    BY FS_Interval
  <2> HIDE DEF K
  <2> QED
    BY <1>3, <1>6, <1>7, <1>8, <2>1, SumGroups
<1>10. Jour!Sum(e) = SumIn(e, K)
  <2> HIDE DEF e, K
  <2>1. Jour!Sum(e) = SumIn(e, DOMAIN e)
    BY SumIs
  <2> QED
    BY <1>7, <2>1, Zenon
<1>11. Jour!Total(whole) = SumIn(Pnls, whole)
  <2> HIDE DEF whole
  <2> QED
    BY TotalOf
<1> HIDE DEF G, whole, e
<1>12. Jour!Sum(e) = Jour!Total(whole)
  BY <1>4, <1>9, <1>10, <1>11, Zenon
<1> QED
  BY <1>7, <1>12 DEF e, whole

\* The curve's days.
LEMMA DailyIs ==
    ASSUME TradesTyped
    PROVE  \E m \in Nat : Jour!Daily(Jour!Rows) \in [1 .. m -> Int]
<1>1. PICK m \in Nat : /\ Jour!Dates(Jour!Rows) \in [1 .. m -> Int]
                       /\ \A j, k \in 1 .. m : j # k => Jour!Dates(Jour!Rows)[j] # Jour!Dates(Jour!Rows)[k]
                       /\ \A r \in Jour!Rows : \E k \in 1 .. m : Jour!Dates(Jour!Rows)[k] = r.date
  BY DatesAre
<1>2. Jour!PerDay(Jour!Rows, Jour!Dates(Jour!Rows)) \in [1 .. m -> Int]
  BY <1>1, DaysAddUp
<1> QED
  BY <1>2 DEF Jour!Daily

LEMMA DailySum ==
    ASSUME TradesTyped
    PROVE  Jour!Sum(Jour!Daily(Jour!Rows)) = Jour!Total(Jour!Recent)
<1>1. PICK m \in Nat : /\ Jour!Dates(Jour!Rows) \in [1 .. m -> Int]
                       /\ \A j, k \in 1 .. m : j # k => Jour!Dates(Jour!Rows)[j] # Jour!Dates(Jour!Rows)[k]
                       /\ \A r \in Jour!Rows : \E k \in 1 .. m : Jour!Dates(Jour!Rows)[k] = r.date
  BY DatesAre
<1>2. Jour!Sum(Jour!PerDay(Jour!Rows, Jour!Dates(Jour!Rows))) = Jour!Total(UNION { r.ids : r \in Jour!Rows })
  BY <1>1, DaysAddUp
<1>3. UNION { r.ids : r \in Jour!Rows } = Jour!Recent
  BY RowsSplit
<1> QED
  BY <1>2, <1>3, Zenon DEF Jour!Daily

-----------------------------------------------------------------------------
(* Every view of the trades comes to the same sums.                        *)

FillsOf(s) == Jour!Of(s, Jour!Recent)
Active == { s \in Traders : FillsOf(s) # {} }

LEMMA ActiveAre == IsFiniteSet(Traders) /\ IsFiniteSet(Active)
<1>1. IsFiniteSet(Traders) /\ Active \in SUBSET Traders
  BY GatewayAssumption DEF GatewayAssumption, Traders, Active
<1> QED
  BY <1>1, FS_Subset

LEMMA SeriesAre ==
    ASSUME TradesTyped
    PROVE  /\ DOMAIN Jour!Aligned(Jour!Rows) = Active
           /\ \A s \in Active : Jour!Sum(Jour!Aligned(Jour!Rows)[s]) = Jour!Total(FillsOf(s))
           /\ \E m \in Nat : \A s \in Active : Jour!Aligned(Jour!Rows)[s] \in [1 .. m -> Int]
<1> DEFINE dates == Jour!Dates(Jour!Rows)
           mine(s) == { q \in Jour!Rows : q.strategy = s }
           A == Jour!Aligned(Jour!Rows)
<1>1. PICK m \in Nat : /\ dates \in [1 .. m -> Int]
                       /\ \A j, k \in 1 .. m : j # k => dates[j] # dates[k]
                       /\ \A r \in Jour!Rows : \E k \in 1 .. m : dates[k] = r.date
  BY DatesAre
<1>2. A = [s \in { r.strategy : r \in Jour!Rows } |-> Jour!PerDay(mine(s), dates)]
  BY Zenon DEF Jour!Aligned
<1>3. { r.strategy : r \in Jour!Rows } = Active
  <2>1. ASSUME NEW r \in Jour!Rows PROVE r.strategy \in Active
    <3>1. /\ r.ids \in SUBSET Jour!Recent /\ r.ids # {} /\ r.strategy \in Traders
          /\ \A i \in r.ids : trades[i].strategy = r.strategy
      BY RowsSplit
    <3> QED
      BY <3>1 DEF Active, FillsOf, Jour!Of
  <2>2. ASSUME NEW s \in Active PROVE \E r \in Jour!Rows : r.strategy = s
    <3>1. PICK i \in Jour!Recent : trades[i].strategy = s
      BY DEF Active, FillsOf, Jour!Of
    <3> QED
      BY <3>1, RowsSplit
  <2> QED
    BY <2>1, <2>2
<1>4. \A s : mine(s) \in SUBSET Jour!Rows
  OBVIOUS
<1>5. ASSUME NEW s
      PROVE  /\ Jour!PerDay(mine(s), dates) \in [1 .. m -> Int]
             /\ Jour!Sum(Jour!PerDay(mine(s), dates)) = Jour!Total(UNION { r.ids : r \in mine(s) })
  <2>1. \A r \in mine(s) : \E k \in 1 .. m : dates[k] = r.date
    BY <1>1
  <2> HIDE DEF mine, dates
  <2> QED
    BY <1>1, <1>4, <2>1, DaysAddUp
<1>6. ASSUME NEW s PROVE UNION { r.ids : r \in mine(s) } = FillsOf(s)
  <2>1. ASSUME NEW r \in mine(s), NEW i \in r.ids PROVE i \in FillsOf(s)
    BY RowsSplit DEF FillsOf, Jour!Of
  <2>2. ASSUME NEW i \in FillsOf(s) PROVE \E r \in mine(s) : i \in r.ids
    BY RowsSplit DEF FillsOf, Jour!Of
  <2> HIDE DEF mine
  <2> QED
    BY <2>1, <2>2
<1> HIDE DEF mine, dates, A
<1>7. DOMAIN A = Active /\ \A s \in Active : A[s] = Jour!PerDay(mine(s), dates)
  BY <1>2, <1>3
<1>8. \A s \in Active : A[s] \in [1 .. m -> Int]
  BY <1>5, <1>7
<1>9. \A s \in Active : Jour!Sum(A[s]) = Jour!Total(FillsOf(s))
  BY <1>5, <1>6, <1>7
<1> QED
  BY <1>7, <1>8, <1>9 DEF A

\* Fills gain, lose or do neither.
LEMMA WonLost ==
    ASSUME TradesTyped, NEW r \in SUBSET DOMAIN trades
    PROVE  /\ Cardinality(r) \in Nat /\ Cardinality(Jour!Won(r)) \in Nat /\ Cardinality(Jour!Lost(r)) \in Nat
           /\ Cardinality(Jour!Won(r)) + Cardinality(Jour!Lost(r)) <= Cardinality(r)
           /\ Jour!Total(r) = Jour!Total(Jour!Won(r)) + Jour!Total(Jour!Lost(r))
           /\ Jour!Total(Jour!Won(r)) \in Int /\ Jour!Total(Jour!Lost(r)) \in Int
<1> DEFINE W == Jour!Won(r)  L == Jour!Lost(r)  N == r \ (W \cup L)
<1>1. IsFiniteSet(r) /\ \A i \in r : Pnls[i] \in Int /\ Pnls[i] = Jour!Pnl(i)
  BY PartTotal, TradeFields
<1>2. W \in SUBSET r /\ L \in SUBSET r /\ N \in SUBSET r /\ W \cap L = {}
  BY <1>1 DEF Jour!Won, Jour!Lost
<1>3. \A i \in N : Pnls[i] = 0
  BY <1>1 DEF Jour!Won, Jour!Lost
<1> HIDE DEF W, L
<1>4. (W \cup L) \cap N = {} /\ (W \cup L) \cup N = r
  BY <1>2
<1> HIDE DEF N
<1>5. IsFiniteSet(W) /\ IsFiniteSet(L) /\ IsFiniteSet(N) /\ IsFiniteSet(W \cup L)
  BY <1>1, <1>2, FS_Subset, FS_Union
<1>6. /\ Cardinality(r) \in Nat /\ Cardinality(W) \in Nat /\ Cardinality(L) \in Nat
      /\ Cardinality(W \cup L) \in Nat /\ Cardinality(W \cup L) <= Cardinality(r)
  BY <1>1, <1>2, <1>5, FS_CardinalityType, FS_Subset
<1>7. Cardinality(W \cup L) = Cardinality(W) + Cardinality(L)
  <2>1. Cardinality(W \cup L) = Cardinality(W) + Cardinality(L) - Cardinality(W \cap L)
    BY <1>5, FS_Union
  <2>2. Cardinality(W \cap L) = 0
    BY <1>2, FS_EmptySet
  <2> QED
    BY <1>6, <2>1, <2>2
<1>8. /\ \A i \in W \cup L : Pnls[i] \in Int
      /\ \A i \in (W \cup L) \cup N : Pnls[i] \in Int
  BY <1>1, <1>2
<1>9. SumIn(Pnls, W \cup L) = SumIn(Pnls, W) + SumIn(Pnls, L)
  BY <1>2, <1>5, <1>8, SumUnion
<1>10. SumIn(Pnls, (W \cup L) \cup N) = SumIn(Pnls, W \cup L) + SumIn(Pnls, N)
  BY <1>4, <1>5, <1>8, SumUnion
<1>11. SumIn(Pnls, N) = 0
  BY <1>3, <1>5, SumZero
<1>12. /\ Jour!Total(W) = SumIn(Pnls, W) /\ Jour!Total(L) = SumIn(Pnls, L) /\ Jour!Total(r) = SumIn(Pnls, r)
       /\ Jour!Total(W) \in Int /\ Jour!Total(L) \in Int /\ Jour!Total(r) \in Int
  <2>1. W \in SUBSET DOMAIN trades /\ L \in SUBSET DOMAIN trades
    BY <1>2
  <2> QED
    BY <2>1, PartTotal
<1>13. SumIn(Pnls, r) = SumIn(Pnls, W \cup L) + SumIn(Pnls, N)
  BY <1>4, <1>10, Zenon
<1>14. Jour!Total(r) = Jour!Total(W) + Jour!Total(L)
  BY <1>9, <1>11, <1>12, <1>13
<1> QED
  BY <1>6, <1>7, <1>12, <1>14 DEF W, L

LEMMA ViewsHold ==
    ASSUME TradesTyped, Jour!SumFunction(positions) = Jour!Total(Jour!Filled)
    PROVE  Jour!ViewsAgree
<1> DEFINE rows == Jour!Rows
           series == Jour!Aligned(rows)
           perf == Jour!Performance
           kelly == Jour!KellyStats
           pnls == [s \in DOMAIN perf |-> perf[s].pnl]
<1>1. UNION { r.ids : r \in rows } = Jour!Recent
  BY RowsSplit
<1>2. { t \in Jour!Strategy : Jour!Of(t, Jour!Recent) # {} } = Active
  BY TradersAre DEF Active, FillsOf
<1>3. /\ DOMAIN perf = Active
      /\ \A s \in Active : /\ perf[s].fills = Cardinality(FillsOf(s))
                           /\ perf[s].wins = Cardinality(Jour!Won(FillsOf(s)))
                           /\ perf[s].losses = Cardinality(Jour!Lost(FillsOf(s)))
                           /\ perf[s].pnl = Jour!Total(FillsOf(s))
                           /\ perf[s].fees = Jour!TotalFees(FillsOf(s))
  BY <1>2, SameSize DEF Jour!Performance, FillsOf
<1>4. DOMAIN series = DOMAIN perf
  BY <1>3, SeriesAre
<1>5. \A s \in DOMAIN perf : Jour!Sum(series[s]) = perf[s].pnl
  BY <1>3, SeriesAre
<1>6. \A s \in DOMAIN perf : Jour!Tca[s] = perf[s].fees
  BY <1>2, <1>3 DEF Jour!Tca, FillsOf
<1>7. \A s : FillsOf(s) \in SUBSET Jour!Recent /\ Jour!Recent \in SUBSET DOMAIN trades
  BY TradeFields DEF FillsOf, Jour!Of
<1>8. \A s \in DOMAIN perf : perf[s].wins + perf[s].losses <= perf[s].fills
  <2> SUFFICES ASSUME NEW s \in Active PROVE perf[s].wins + perf[s].losses <= perf[s].fills
    BY <1>3
  <2>1. FillsOf(s) \in SUBSET DOMAIN trades
    BY <1>7
  <2> HIDE DEF perf
  <2> QED
    BY <1>3, <2>1, WonLost
<1>9. Jour!SumFunction(pnls) = Jour!Total(Jour!Recent)
  <2> DEFINE G == [s \in Active |-> FillsOf(s)]
  <2>1. Jour!SumFunction(pnls) = SumIn(pnls, DOMAIN pnls)
    BY SumIs, Zenon DEF Jour!Sum
  <2> HIDE DEF perf
  <2>2. DOMAIN pnls = Active /\ \A s \in Active : pnls[s] = Jour!Total(FillsOf(s))
    BY <1>3
  <2>3. \A s \in Active : G[s] \in SUBSET DOMAIN trades /\ G[s] = FillsOf(s)
    BY <1>7
  <2>4. \A s, t \in Active : s # t => G[s] \cap G[t] = {}
    BY DEF FillsOf, Jour!Of
  <2> HIDE DEF G, pnls
  <2>5. \A s \in Active : IsFiniteSet(G[s]) /\ pnls[s] = SumIn(Pnls, G[s]) /\ \A i \in G[s] : Pnls[i] \in Int
    BY <2>2, <2>3, PartTotal, TradeFields
  <2>6. SumIn(pnls, Active) = SumIn(Pnls, UNION { G[s] : s \in Active })
    BY <2>4, <2>5, ActiveAre, SumGroups
  <2>7. UNION { G[s] : s \in Active } = Jour!Recent
    <3>1. \A s \in Active : G[s] \in SUBSET Jour!Recent
      BY <1>7, <2>3
    <3>2. ASSUME NEW i \in Jour!Recent PROVE \E s \in Active : i \in G[s]
      <4>1. i \in FillsOf(trades[i].strategy) /\ trades[i].strategy \in Traders
        BY TradeFields DEF FillsOf, Jour!Of
      <4>2. trades[i].strategy \in Active
        BY <4>1 DEF Active
      <4> QED
        BY <2>3, <4>1, <4>2
    <3> QED
      BY <3>1, <3>2
  <2>8. Jour!Total(Jour!Recent) = SumIn(Pnls, Jour!Recent)
    BY TotalOf
  <2> QED
    BY <2>1, <2>2, <2>6, <2>7, <2>8, Zenon
<1>10. kelly.pnl = Jour!Total(Jour!Recent)
  BY DEF Jour!KellyStats
<1>11. kelly.pnl = kelly.won - kelly.lost
  <2>1. /\ Jour!Total(Jour!Recent) = Jour!Total(Jour!Won(Jour!Recent)) + Jour!Total(Jour!Lost(Jour!Recent))
        /\ Jour!Total(Jour!Won(Jour!Recent)) \in Int /\ Jour!Total(Jour!Lost(Jour!Recent)) \in Int
    BY <1>7, WonLost
  <2>2. kelly.won = Jour!Total(Jour!Won(Jour!Recent)) /\ kelly.lost = -Jour!Total(Jour!Lost(Jour!Recent))
    BY DEF Jour!KellyStats
  <2> HIDE DEF kelly
  <2> QED
    BY <1>10, <2>1, <2>2
<1>12. Jour!SumFunction(pnls) = kelly.pnl
  <2> HIDE DEF pnls, kelly
  <2> QED
    BY <1>9, <1>10
<1> QED
  <2> DEFINE same(s) == /\ Jour!Sum(series[s]) = perf[s].pnl /\ Jour!Tca[s] = perf[s].fees
                        /\ perf[s].wins + perf[s].losses <= perf[s].fills
  <2>1. \A s \in DOMAIN perf : same(s)
    BY <1>5, <1>6, <1>8
  <2> QED
    BY <1>1, <1>4, <1>11, <1>12, <2>1, Zenon DEF Jour!ViewsAgree

-----------------------------------------------------------------------------
(* The drawdown.                                                           *)

LEMMA DrawdownHolds ==
    ASSUME TradesTyped
    PROVE  Jour!DrawdownIsWorst
<1> DEFINE daily == Jour!Daily(Jour!Rows)
           cum(k) == Jour!Sum(SubSeq(daily, 1, k))
           falls == { p \in (1 .. Len(daily)) \X (1 .. Len(daily)) :
                          /\ p[1] <= p[2] /\ cum(p[1]) > 0
                          /\ \A k \in 1 .. p[2] : cum(k) <= cum(p[1]) }
           worst == Jour!MaxDrawdown(daily)
           first == \A p \in falls : (cum(p[1]) - cum(p[2])) * worst[2] <= worst[1] * cum(p[1])
           second == worst[1] > 0 => \E p \in falls : (cum(p[1]) - cum(p[2])) * worst[2] = worst[1] * cum(p[1])
<1>1. PICK n \in Nat : daily \in [1 .. n -> Int]
  BY DailyIs
<1> DEFINE height == [k \in 0 .. n |-> SumIn(daily, 1 .. k)]
<1>2. Jour!DrawdownIsWorst <=> first /\ second
  BY Zenon DEF Jour!DrawdownIsWorst
<1> HIDE DEF daily
<1>3. Len(daily) = n /\ DOMAIN daily = 1 .. n
  BY <1>1
<1>4. ASSUME NEW k \in 1 .. n PROVE cum(k) = height[k]
  <2> DEFINE q == SubSeq(daily, 1, k)
  <2>1. DOMAIN q = 1 .. k /\ \A i \in 1 .. k : daily[i] \in Int /\ q[i] = daily[i]
    BY <1>1
  <2> HIDE DEF q
  <2>2. SumIn(daily, 1 .. k) = SumIn(q, 1 .. k)
    <3> DEFINE d == 1 .. k
    <3>1. IsFiniteSet(d)
      BY FS_Interval
    <3>2. \A i \in d : daily[i] \in Int /\ q[i] = daily[i]
      BY <2>1
    <3> HIDE DEF d
    <3>3. SumIn(daily, d) = SumIn(q, d)
      BY <3>1, <3>2, SumSame
    <3> QED
      BY <3>3 DEF d
  <2>3. Jour!Sum(q) = SumIn(q, 1 .. k)
    BY <2>1, SumIs, Zenon
  <2>4. height[k] = SumIn(daily, 1 .. k)
    OBVIOUS
  <2> HIDE DEF height
  <2> QED
    BY <2>2, <2>3, <2>4, Zenon DEF q
<1>5. worst = Curves(daily)[DOMAIN daily].fall
  BY DrawdownOfCurve
<1>6. Describes(Curves(daily)[DOMAIN daily], height, n)
  BY <1>1, CurveRight
<1> DEFINE c == Curves(daily)[DOMAIN daily]
<1> HIDE DEF cum, worst, c, height
<1>7. worst = c.fall /\ Describes(c, height, n)
  BY <1>5, <1>6 DEF c
<1>8. \A p : p \in falls <=> p \in (1 .. n) \X (1 .. n) /\ FallTo(height, p[1], p[2])
  <2> SUFFICES ASSUME NEW p \in (1 .. n) \X (1 .. n)
               PROVE  (p[1] <= p[2] /\ cum(p[1]) > 0 /\ \A k \in 1 .. p[2] : cum(k) <= cum(p[1]))
                        <=> FallTo(height, p[1], p[2])
    BY <1>3
  <2>1. p[1] \in 1 .. n /\ p[2] \in 1 .. n /\ \A k \in 1 .. p[2] : k \in 1 .. n
    OBVIOUS
  <2> QED
    BY <1>4, <2>1 DEF FallTo
<1> HIDE DEF falls
<1>9. first
  <2> SUFFICES ASSUME NEW p \in falls
               PROVE  (cum(p[1]) - cum(p[2])) * worst[2] <= worst[1] * cum(p[1])
    OBVIOUS
  <2>1. p[1] \in 1 .. n /\ p[2] \in 1 .. n /\ FallTo(height, p[1], p[2])
    BY <1>8
  <2>2. (height[p[1]] - height[p[2]]) * c.fall[2] <= c.fall[1] * height[p[1]]
    BY <1>7, <2>1 DEF Describes
  <2>3. cum(p[1]) = height[p[1]] /\ cum(p[2]) = height[p[2]]
    BY <1>4, <2>1
  <2> QED
    BY <1>7, <2>2, <2>3, Zenon
<1>10. second
  <2> SUFFICES ASSUME worst[1] > 0
               PROVE  \E p \in falls : (cum(p[1]) - cum(p[2])) * worst[2] = worst[1] * cum(p[1])
    OBVIOUS
  <2>1. PICK i \in 1 .. n, j \in 1 .. n :
            FallTo(height, i, j) /\ (height[i] - height[j]) * c.fall[2] = c.fall[1] * height[i]
    BY <1>7 DEF Describes
  <2> DEFINE p == <<i, j>>
  <2>2. p \in falls /\ p[1] = i /\ p[2] = j
    BY <1>8, <2>1
  <2>3. cum(i) = height[i] /\ cum(j) = height[j]
    BY <1>4
  <2>4. (cum(i) - cum(j)) * worst[2] = worst[1] * cum(i)
    BY <1>7, <2>1, <2>3, Zenon
  <2> HIDE DEF p
  <2> QED
    BY <2>2, <2>4, Zenon
<1> QED
  BY <1>2, <1>9, <1>10

LEMMA CovIs ==
    ASSUME NEW m \in Nat, NEW xs \in [1 .. m -> Int], NEW ys \in [1 .. m -> Int]
    PROVE  /\ Jour!Cov(xs, ys) = m * SumIn([k \in 1 .. m |-> xs[k] * ys[k]], 1 .. m)
                                  - SumIn(xs, 1 .. m) * SumIn(ys, 1 .. m)
           /\ SumIn([k \in 1 .. m |-> xs[k] * ys[k]], 1 .. m) \in Int
           /\ SumIn(xs, 1 .. m) \in Int /\ SumIn(ys, 1 .. m) \in Int
           /\ Jour!Sum(xs) = SumIn(xs, 1 .. m) /\ Jour!Sum(ys) = SumIn(ys, 1 .. m)
<1> DEFINE xy == [k \in DOMAIN xs |-> xs[k] * ys[k]]
           days == 1 .. m
<1>1. DOMAIN xs = days /\ DOMAIN ys = days /\ DOMAIN xy = days /\ Len(xs) = m
  OBVIOUS
<1>2. IsFiniteSet(days) /\ \A k \in days : xs[k] \in Int /\ ys[k] \in Int /\ xy[k] \in Int
  BY FS_Interval
<1>3. xy = [k \in 1 .. m |-> xs[k] * ys[k]]
  OBVIOUS
<1> HIDE DEF xy, days
<1>4. SumIn(xs, days) \in Int /\ SumIn(ys, days) \in Int /\ SumIn(xy, days) \in Int
  BY <1>2, SumInt
<1>5. Jour!Sum(xs) = SumIn(xs, days) /\ Jour!Sum(ys) = SumIn(ys, days) /\ Jour!Sum(xy) = SumIn(xy, days)
  BY <1>1, SumIs, Zenon
<1>6. Jour!Cov(xs, ys) = Len(xs) * Jour!Sum(xy) - Jour!Sum(xs) * Jour!Sum(ys)
  BY DEF Jour!Cov, xy
<1>7. Jour!Cov(xs, ys) = m * SumIn(xy, days) - SumIn(xs, days) * SumIn(ys, days)
  BY <1>1, <1>5, <1>6, Zenon
<1> QED
  BY <1>3, <1>4, <1>5, <1>7 DEF days

\* What two series of results come to, and how they vary.
LEMMA Varies ==
    ASSUME NEW m \in Nat, NEW xs \in [1 .. m -> Int], NEW ys \in [1 .. m -> Int]
    PROVE  /\ Jour!Sum(xs) \in Int /\ Jour!Sum(ys) \in Int
           /\ Jour!Cov(xs, xs) \in Int /\ Jour!Cov(xs, ys) \in Int /\ Jour!Cov(ys, ys) \in Int
           /\ \A u, v \in Int : u * u * Jour!Cov(xs, xs) + 2 * u * v * Jour!Cov(xs, ys) + v * v * Jour!Cov(ys, ys) >= 0
<1> DEFINE xx == [k \in 1 .. m |-> xs[k] * xs[k]]
           xy == [k \in 1 .. m |-> xs[k] * ys[k]]
           yy == [k \in 1 .. m |-> ys[k] * ys[k]]
           sx == SumIn(xs, 1 .. m)  sy == SumIn(ys, 1 .. m)
           p == SumIn(xx, 1 .. m)  q == SumIn(xy, 1 .. m)  r == SumIn(yy, 1 .. m)
           a == Jour!Cov(xs, xs)  b == Jour!Cov(xs, ys)  c == Jour!Cov(ys, ys)
<1>1. a = m * p - sx * sx /\ b = m * q - sx * sy /\ c = m * r - sy * sy
  BY CovIs
<1>2. p \in Int /\ q \in Int /\ r \in Int /\ sx \in Int /\ sy \in Int /\ Jour!Sum(xs) = sx /\ Jour!Sum(ys) = sy
  BY CovIs
<1>3. /\ \A k \in 1 .. m : xs[k] \in Int /\ ys[k] \in Int
      /\ \A k \in 1 .. m : xx[k] = xs[k] * xs[k]
      /\ \A k \in 1 .. m : xy[k] = xs[k] * ys[k]
      /\ \A k \in 1 .. m : yy[k] = ys[k] * ys[k]
  OBVIOUS
<1> HIDE DEF xx, xy, yy
<1>4. \A u, v \in Int : m * (u * u * p + 2 * u * v * q + v * v * r) >= (u * sx + v * sy) * (u * sx + v * sy)
  BY <1>3, CovarianceForm
<1> HIDE DEF sx, sy, p, q, r, a, b, c
<1>5. a \in Int /\ b \in Int /\ c \in Int
  BY <1>1, <1>2
<1>6. ASSUME NEW u \in Int, NEW v \in Int PROVE u * u * a + 2 * u * v * b + v * v * c >= 0
  <2>1. m * (u * u * p + 2 * u * v * q + v * v * r) - (u * sx + v * sy) * (u * sx + v * sy)
          = u * u * (m * p - sx * sx) + 2 * u * v * (m * q - sx * sy) + v * v * (m * r - sy * sy)
    BY <1>2
  <2>2. m * (u * u * p + 2 * u * v * q + v * v * r) >= (u * sx + v * sy) * (u * sx + v * sy)
    BY <1>4
  <2> DEFINE big == m * (u * u * p + 2 * u * v * q + v * v * r)
             sq == (u * sx + v * sy) * (u * sx + v * sy)
  <2>3. big \in Int /\ sq \in Int
    BY <1>2
  <2>4. big - sq = u * u * a + 2 * u * v * b + v * v * c
    BY <1>1, <2>1
  <2> HIDE DEF big, sq
  <2>5. big >= sq
    BY <2>2 DEF big, sq
  <2> QED
    BY <2>3, <2>4, <2>5
<1> QED
  BY <1>2, <1>5, <1>6 DEF a, b, c

\* Two series that are not multiples of each other.
LEMMA Definite ==
    ASSUME NEW a \in Int, a > 0, NEW b \in Int, NEW c \in Int, a * c # b * b,
           \A u, v \in Int : u * u * a + 2 * u * v * b + v * v * c >= 0
    PROVE  a * c - b * b > 0
<1> DEFINE D == a * c - b * b
<1>1. b * b * a + 2 * b * (-a) * b + (-a) * (-a) * c >= 0
  <2> DEFINE e == -a
  <2>1. e \in Int
    OBVIOUS
  <2> HIDE DEF e
  <2>2. b * b * a + 2 * b * e * b + e * e * c >= 0
    BY <2>1, Zenon
  <2> QED
    BY <2>2 DEF e
<1>2. b * b * a + 2 * b * (-a) * b + (-a) * (-a) * c = a * D
  OBVIOUS
<1>3. D \in Int /\ a * D >= a * 0
  BY <1>1, <1>2
<1>4. D # 0
  OBVIOUS
<1> HIDE DEF D
<1>5. D >= 0
  BY <1>3, Divides
<1> QED
  BY <1>3, <1>4, <1>5 DEF D

LEMMA TangencyHolds ==
    ASSUME TradesTyped
    PROVE  Jour!TangencyIsBest
<1> DEFINE series == Jour!Aligned(Jour!Rows)
<1>1. DOMAIN series = Active
  BY SeriesAre
<1>2. PICK m \in Nat : \A s \in Active : series[s] \in [1 .. m -> Int]
  BY SeriesAre
<1> HIDE DEF series
<1>3. ASSUME NEW xs \in [1 .. m -> Int], NEW ys \in [1 .. m -> Int]
      PROVE  LET w == Jour!MaxSharpe(xs, ys)  tangency == Jour!Tangency(xs, ys)
                 mean(v) == v[1] * Jour!Sum(xs) + v[2] * Jour!Sum(ys)
                 risk(v) == v[1] * v[1] * Jour!Cov(xs, xs) + 2 * v[1] * v[2] * Jour!Cov(xs, ys)
                              + v[2] * v[2] * Jour!Cov(ys, ys)
             IN  Jour!Usable(xs) /\ Jour!Usable(ys) /\ ~Jour!Singular(xs, ys)
                    /\ tangency[1] + tangency[2] > 0 /\ mean(w) > 0
                 => \A v \in (0 .. 2) \X (0 .. 2) :
                       mean(v) > 0 => mean(w) * mean(w) * risk(v) >= mean(v) * mean(v) * risk(w)
  <2> DEFINE a == Jour!Cov(xs, xs)  b == Jour!Cov(xs, ys)  c == Jour!Cov(ys, ys)
             x == Jour!Sum(xs)  y == Jour!Sum(ys)
             w == Jour!MaxSharpe(xs, ys)  tangency == Jour!Tangency(xs, ys)
             mean(v) == v[1] * x + v[2] * y
             risk(v) == v[1] * v[1] * a + 2 * v[1] * v[2] * b + v[2] * v[2] * c
             p == c * x - b * y  q == a * y - b * x
             D == a * c - b * b
  <2> SUFFICES ASSUME Jour!Usable(xs), Jour!Usable(ys), ~Jour!Singular(xs, ys),
                      tangency[1] + tangency[2] > 0, mean(w) > 0,
                      NEW v \in (0 .. 2) \X (0 .. 2), mean(v) > 0
               PROVE  mean(w) * mean(w) * risk(v) >= mean(v) * mean(v) * risk(w)
    OBVIOUS
  <2>1. /\ x \in Int /\ y \in Int /\ a \in Int /\ b \in Int /\ c \in Int
        /\ \A i, j \in Int : i * i * a + 2 * i * j * b + j * j * c >= 0
    BY Varies
  <2>2. a > 0 /\ c > 0 /\ a * c # b * b
    BY DEF Jour!Usable, Jour!Singular
  <2>3. tangency[1] = Jour!Clipped(c * x + (-b) * y) /\ tangency[2] = Jour!Clipped((-b) * x + a * y)
    BY DEF Jour!Tangency, Jour!Invert
  <2>4. w = IF tangency[1] + tangency[2] = 0 THEN [i \in {1, 2} |-> 1] ELSE tangency
    BY DEF Jour!MaxSharpe
  <2> HIDE DEF a, b, c, x, y, tangency, w
  <2>5. D \in Int /\ D > 0
    <3>1. D > 0
      BY <2>1, <2>2, Definite
    <3> QED
      BY <2>1, <3>1
  <2>6. p \in Int /\ q \in Int /\ c * x + (-b) * y = p /\ (-b) * x + a * y = q
    BY <2>1
  <2>7. /\ tangency[1] = IF p > 0 THEN p ELSE 0
        /\ tangency[2] = IF q > 0 THEN q ELSE 0
    <3> HIDE DEF p, q
    <3> QED
      BY <2>3, <2>6, Zenon DEF Jour!Clipped
  <2>8. w = tangency
    <3> HIDE DEF p, q
    <3>1. tangency[1] \in Int /\ tangency[2] \in Int
      BY <2>6, <2>7
    <3> QED
      BY <2>4, <3>1
  <2> DEFINE f == w[1]  g == w[2]  i == v[1]  j == v[2]
  <2>9. f = (IF p > 0 THEN p ELSE 0) /\ g = (IF q > 0 THEN q ELSE 0) /\ f + g > 0
    BY <2>7, <2>8, Zenon
  <2>10. i \in Nat /\ j \in Nat
    OBVIOUS
  <2>11. f * x + g * y > 0 /\ i * x + j * y > 0
    OBVIOUS
  <2> SUFFICES (f * x + g * y) * (f * x + g * y) * (i * i * a + 2 * i * j * b + j * j * c)
                 >= (i * x + j * y) * (i * x + j * y) * (f * f * a + 2 * f * g * b + g * g * c)
    OBVIOUS
  <2> HIDE DEF f, g, i, j
  <2> DEFINE mv == i * x + j * y
             rv == i * i * a + 2 * i * j * b + j * j * c
             mw == f * x + g * y
             rw == f * f * a + 2 * f * g * b + g * g * c
  <2>12. f \in Int /\ g \in Int
    <3> HIDE DEF p, q
    <3> QED
      BY <2>6, <2>9
  <2>13. mv \in Int /\ rv \in Int /\ mw \in Int /\ rw \in Int /\ mv > 0
    BY <2>1, <2>10, <2>11, <2>12
  <2> SUFFICES mw * mw * rv >= mv * mv * rw
    OBVIOUS
  <2>14. CASE p > 0 /\ q > 0
    <3>1. f = p /\ g = q
      BY <2>9, <2>14
    <3>2. /\ mw = p * x + q * y /\ rw = p * p * a + 2 * p * q * b + q * q * c
          /\ mv = i * x + j * y /\ rv = i * i * a + 2 * i * j * b + j * j * c
          /\ p = c * x - b * y /\ q = a * y - b * x /\ D = a * c - b * b /\ i \in Int /\ j \in Int
      BY <2>10, <3>1
    <3> HIDE DEF p, q
    <3>3. (p * x + q * y) * (p * x + q * y) * rv >= mv * mv * (p * p * a + 2 * p * q * b + q * q * c)
      BY <2>1, <2>2, <2>5, <2>6, <3>2, BestUnclipped
    <3> HIDE DEF mw, rw, mv, rv
    <3> QED
      BY <3>2, <3>3, Zenon
  <2>15. CASE p > 0 /\ ~(q > 0)
    <3>1. f = p /\ g = 0
      BY <2>9, <2>15
    <3>2. mw = p * x /\ rw = p * p * a /\ p * x > 0
      BY <2>1, <2>6, <2>11, <3>1
    <3>3. a * y - b * x <= 0 /\ mv = i * x + j * y /\ rv = i * i * a + 2 * i * j * b + j * j * c /\ D = a * c - b * b
      BY <2>6, <2>15
    <3> HIDE DEF p, D, mv, rv, mw, rw
    <3>4. (p * x) * (p * x) * rv >= mv * mv * (p * p * a)
      BY <2>1, <2>2, <2>5, <2>6, <2>10, <2>13, <2>15, <3>2, <3>3, BestClipped
    <3> QED
      BY <3>2, <3>4, Zenon
  <2>16. CASE ~(p > 0) /\ q > 0
    <3>1. f = 0 /\ g = q
      BY <2>9, <2>16
    <3>2. mw = q * y /\ rw = q * q * c /\ q * y > 0
      BY <2>1, <2>6, <2>11, <3>1
    <3>3. c * x - b * y <= 0 /\ mv = j * y + i * x /\ rv = j * j * c + 2 * j * i * b + i * i * a /\ D = c * a - b * b
      BY <2>1, <2>6, <2>10, <2>16
    <3> HIDE DEF q, D, mv, rv, mw, rw
    <3>4. (q * y) * (q * y) * rv >= mv * mv * (q * q * c)
      BY <2>1, <2>2, <2>5, <2>6, <2>10, <2>13, <2>16, <3>2, <3>3, BestClipped
    <3> QED
      BY <3>2, <3>4, Zenon
  <2>17. p > 0 \/ q > 0
    <3> HIDE DEF p, q
    <3> QED
      BY <2>6, <2>9
  <2> QED
    BY <2>14, <2>15, <2>16, <2>17
<1> QED
  BY <1>1, <1>2, <1>3 DEF Jour!TangencyIsBest, series

-----------------------------------------------------------------------------
(* The journal's state.                                                    *)

LEMMA DivisionGrows ==
    ASSUME NEW t \in Nat, NEW u \in Nat, t <= u, NEW w \in Nat \ {0}
    PROVE  t \div w <= u \div w /\ t \div w \in Nat /\ u \div w \in Nat
OBVIOUS

Noted == [event : Events, at : Nat]

InThePast ==
    /\ \A i \in DOMAIN trades : trades[i].at <= day
    /\ events \in Seq(Noted)
    /\ \A j \in DOMAIN events : events[j].at <= day

\* Every fill has moved its position by its result.
Books == Traders \X BOOLEAN
PositionsAddUp ==
    /\ positions \in [Books -> Int]
    /\ SumIn(positions, Books) = SumIn(Pnls, Jour!Filled)

\* Between its two queries, the summary shows what was there at the first.
Shown(since) == { i \in Jour!Recent : i <= since }
SummaryTrue ==
    \/ summary = Jour!Idle
    \/ /\ summary.busy = TRUE /\ summary.since \in 0 .. Len(trades)
       /\ summary.fills = Cardinality(Shown(summary.since))
       /\ summary.pnl = SumIn(Pnls, Shown(summary.since))

JourInv == TradesTyped /\ InThePast /\ PositionsAddUp /\ SummaryTrue

LEMMA BooksAreFinite == IsFiniteSet(Books)
<1>1. IsFiniteSet(BOOLEAN)
  <2>1. BOOLEAN = {TRUE} \cup {FALSE}
    OBVIOUS
  <2>2. IsFiniteSet({TRUE}) /\ IsFiniteSet({FALSE})
    BY FS_Singleton
  <2> QED
    BY <2>1, <2>2, FS_Union
<1> QED
  BY <1>1, ActiveAre, FS_Product DEF Books

LEMMA JourInit == Jour!Init => JourInv
<1> SUFFICES ASSUME Jour!Init PROVE JourInv
  OBVIOUS
<1>1. /\ day = 0 /\ trades = <<>> /\ events = <<>> /\ summary = Jour!Idle
      /\ positions = [x \in Traders \X BOOLEAN |-> 0]
  BY TradersAre DEF Jour!Init
<1>2. TradesTyped /\ InThePast /\ SummaryTrue
  BY <1>1 DEF TradesTyped, InThePast, SummaryTrue
<1>3. positions \in [Books -> Int] /\ \A x \in Books : positions[x] = 0
  BY <1>1 DEF Books
<1>4. SumIn(positions, Books) = 0
  BY <1>3, BooksAreFinite, SumZero
<1>5. Jour!Filled = {}
  BY <1>1 DEF Jour!Filled
<1>6. SumIn(Pnls, Jour!Filled) = 0
  BY <1>5, SumEmpty, Zenon
<1> QED
  BY <1>2, <1>3, <1>4, <1>6 DEF JourInv, PositionsAddUp

\* One more trade.
LEMMA Appended ==
    ASSUME JourInv, NEW t \in Trade, trades' = Append(trades, t), t.at = day, day' = day
    PROVE  LET n == Len(trades)
           IN  /\ n \in Nat /\ DOMAIN trades = 1 .. n /\ DOMAIN trades' = 1 .. (n + 1) /\ Len(trades') = n + 1
               /\ trades'[n + 1] = t /\ \A i \in 1 .. n : trades'[i] = trades[i]
               /\ TradesTyped' /\ \A i \in DOMAIN trades' : trades'[i].at <= day'
               /\ Jour!Filled \in SUBSET (1 .. n) /\ Jour!Recent \in SUBSET (1 .. n)
               /\ Jour!Filled' = Jour!Filled \cup (IF t.status = "filled" THEN {n + 1} ELSE {})
               /\ \A k \in 0 .. n : Shown(k)' = Shown(k)
               /\ \A i \in 1 .. n : Pnls[i] \in Int /\ Pnls'[i] = Pnls[i]
               /\ Pnls'[n + 1] = t.pnl /\ t.pnl \in Int
<1> DEFINE n == Len(trades)
<1>1. /\ n \in Nat /\ DOMAIN trades = 1 .. n /\ \A i \in 1 .. n : trades[i] \in Trade
      /\ day \in Nat /\ \A i \in 1 .. n : trades[i].at <= day
  BY DEF JourInv, TradesTyped, InThePast
<1>2. trades' \in Seq(Trade)
  BY DEF JourInv, TradesTyped
<1>3. /\ DOMAIN trades' = 1 .. (n + 1) /\ Len(trades') = n + 1 /\ trades'[n + 1] = t
      /\ \A i \in 1 .. n : trades'[i] = trades[i]
  BY <1>1 DEF JourInv, TradesTyped
<1> HIDE DEF n
<1>4. \A i \in 1 .. (n + 1) : i \in 1 .. n \/ i = n + 1
  BY <1>1
<1>5. TradesTyped' /\ \A i \in DOMAIN trades' : trades'[i].at <= day'
  BY <1>1, <1>2, <1>3, <1>4 DEF TradesTyped, Trade
<1>6. Jour!Filled \in SUBSET (1 .. n) /\ Jour!Recent \in SUBSET (1 .. n)
  BY <1>1 DEF Jour!Filled, Jour!Recent
<1>7. Jour!Filled' = Jour!Filled \cup (IF t.status = "filled" THEN {n + 1} ELSE {})
  BY <1>1, <1>3, <1>4 DEF Jour!Filled
<1>8. ASSUME NEW k \in 0 .. n PROVE Shown(k)' = Shown(k)
  <2>1. \A i \in 1 .. n : i \in Jour!Filled' <=> i \in Jour!Filled
    BY <1>1, <1>3 DEF Jour!Filled
  <2>2. \A i \in 1 .. n : i \in Jour!Recent' <=> i \in Jour!Recent
    BY <1>1, <1>3, <2>1 DEF Jour!Recent
  <2>3. Jour!Recent' \in SUBSET (1 .. (n + 1))
    BY <1>3 DEF Jour!Filled, Jour!Recent
  <2>4. \A i \in 1 .. (n + 1) : i <= k => i \in 1 .. n
    BY <1>1
  <2> QED
    BY <1>6, <2>2, <2>3, <2>4 DEF Shown
<1>9. /\ \A i \in 1 .. n : Pnls[i] \in Int /\ Pnls'[i] = Pnls[i]
      /\ Pnls'[n + 1] = t.pnl /\ t.pnl \in Int
  BY <1>1, <1>3 DEF Pnls, Jour!Pnl, Trade
<1> QED
  BY <1>1, <1>3, <1>5, <1>6, <1>7, <1>8, <1>9 DEF n

\* What is shown stays true.
LEMMA ShownStays ==
    ASSUME JourInv, NEW t \in Trade, trades' = Append(trades, t), t.at = day, day' = day, summary' = summary
    PROVE  SummaryTrue'
<1> DEFINE n == Len(trades)
<1>1. /\ n \in Nat /\ Len(trades') = n + 1 /\ \A k \in 0 .. n : Shown(k)' = Shown(k)
      /\ \A i \in 1 .. n : Pnls[i] \in Int /\ Pnls'[i] = Pnls[i]
      /\ Jour!Recent \in SUBSET (1 .. n)
  BY Appended
<1> HIDE DEF n
<1>2. CASE summary = Jour!Idle
  BY <1>2 DEF SummaryTrue, Jour!Idle
<1>3. CASE summary # Jour!Idle
  <2>1. PICK k \in 0 .. n : /\ summary.busy = TRUE /\ summary.since = k
                            /\ summary.fills = Cardinality(Shown(k)) /\ summary.pnl = SumIn(Pnls, Shown(k))
    BY <1>3 DEF JourInv, SummaryTrue, n
  <2> DEFINE shown == Shown(k)
  <2>2. Shown(k)' = shown
    BY <1>1
  <2>3. shown \in SUBSET (1 .. n)
    BY <1>1 DEF Shown
  <2>4. summary.fills = Cardinality(shown) /\ summary.pnl = SumIn(Pnls, shown)
    BY <2>1
  <2> HIDE DEF shown
  <2>5. IsFiniteSet(shown)
    <3>1. IsFiniteSet(1 .. n)
      BY <1>1, FS_Interval
    <3> QED
      BY <2>3, <3>1, FS_Subset
  <2>6. \A i \in shown : Pnls[i] \in Int /\ Pnls'[i] = Pnls[i]
    BY <1>1, <2>3
  <2>7. SumIn(Pnls, shown) = SumIn(Pnls', shown)
    BY <2>5, <2>6, SumSame
  <2>8. { i \in Jour!Recent' : i <= k } = shown
    BY <2>2 DEF Shown
  <2>9. /\ summary'.busy = TRUE /\ summary'.since = k /\ k \in 0 .. Len(trades')
        /\ summary'.fills = Cardinality({ i \in Jour!Recent' : i <= k })
        /\ summary'.pnl = SumIn(Pnls', { i \in Jour!Recent' : i <= k })
    <3>1. summary'.busy = TRUE /\ summary'.since = k /\ k \in 0 .. Len(trades')
      BY <1>1, <2>1
    <3>2. summary'.fills = summary.fills /\ summary'.pnl = summary.pnl
      OBVIOUS
    <3>3. /\ summary'.fills = Cardinality({ i \in Jour!Recent' : i <= k })
          /\ summary'.pnl = SumIn(Pnls', { i \in Jour!Recent' : i <= k })
      BY <2>4, <2>7, <2>8, <3>2, Zenon
    <3> QED
      BY <3>1, <3>3
  <2> QED
    BY <2>9 DEF SummaryTrue, Shown
<1> QED
  BY <1>2, <1>3

LEMMA TimeStep == ASSUME JourInv, Jour!Time PROVE JourInv'
<1>1. /\ day' = day + 1 /\ trades' = trades /\ positions' = positions /\ events' = events
      /\ summary' = summary /\ summary = Jour!Idle
  BY DEF Jour!Time, JourInv, SummaryTrue
<1>2. TradesTyped'
  BY <1>1 DEF JourInv, TradesTyped
<1>3. InThePast'
  <2>1. /\ \A i \in DOMAIN trades : trades[i].at \in Nat
        /\ \A j \in DOMAIN events : events[j].at \in Nat
    <3>1. trades \in Seq(Trade) /\ events \in Seq(Noted)
      BY DEF JourInv, TradesTyped, InThePast
    <3>2. \A i \in DOMAIN trades : trades[i] \in Trade
      BY <3>1
    <3>3. \A j \in DOMAIN events : events[j] \in Noted
      BY <3>1
    <3> QED
      BY <3>2, <3>3 DEF Trade, Noted
  <2>2. day \in Nat
    BY DEF JourInv, TradesTyped
  <2> QED
    BY <1>1, <2>1, <2>2 DEF JourInv, InThePast
<1>4. PositionsAddUp'
  <2>1. Pnls' = Pnls /\ Jour!Filled' = Jour!Filled
    BY <1>1 DEF Pnls, Jour!Pnl, Jour!Filled
  <2>2. SumIn(positions', Books) = SumIn(Pnls', Jour!Filled')
    BY <1>1, <2>1, Zenon DEF JourInv, PositionsAddUp
  <2> QED
    BY <1>1, <2>2 DEF JourInv, PositionsAddUp
<1>5. SummaryTrue'
  BY <1>1 DEF SummaryTrue, Jour!Idle
<1> QED
  BY <1>2, <1>3, <1>4, <1>5 DEF JourInv

\* A trade that moves its position by its result, or neither.
LEMMA TradeStep ==
    ASSUME JourInv, NEW t \in Trade, trades' = Append(trades, t), t.at = day,
           UNCHANGED <<day, events, summary>>,
           \/ /\ t.status = "filled"
              /\ positions' = [positions EXCEPT ![<<t.strategy, t.paper>>] = @ + t.pnl]
           \/ /\ t.status = "filled" => t.pnl = 0
              /\ positions' = positions
    PROVE  JourInv'
<1> DEFINE n == Len(trades)
           F == Jour!Filled
<1>1. /\ n \in Nat /\ TradesTyped' /\ \A i \in DOMAIN trades' : trades'[i].at <= day'
      /\ F \in SUBSET (1 .. n)
      /\ Jour!Filled' = F \cup (IF t.status = "filled" THEN {n + 1} ELSE {})
      /\ \A i \in 1 .. n : Pnls[i] \in Int /\ Pnls'[i] = Pnls[i]
      /\ Pnls'[n + 1] = t.pnl /\ t.pnl \in Int
  BY Appended
<1> HIDE DEF n, F
<1>2. InThePast'
  BY <1>1 DEF JourInv, InThePast
<1>3. SummaryTrue'
  BY ShownStays
<1>4. IsFiniteSet(F) /\ n + 1 \notin F
  <2>1. IsFiniteSet(1 .. n) /\ n + 1 \notin 1 .. n
    BY <1>1, FS_Interval
  <2> QED
    BY <1>1, <2>1, FS_Subset
<1>5. SumIn(Pnls, F) \in Int /\ SumIn(Pnls', F) = SumIn(Pnls, F)
  <2>1. \A i \in F : Pnls[i] \in Int /\ Pnls'[i] = Pnls[i]
    BY <1>1
  <2>2. SumIn(Pnls, F) = SumIn(Pnls', F)
    BY <1>4, <2>1, SumSame
  <2> QED
    BY <1>4, <2>1, <2>2, SumInt
<1>6. SumIn(Pnls', Jour!Filled') = SumIn(Pnls, F) + (IF t.status = "filled" THEN t.pnl ELSE 0)
  <2>1. CASE t.status = "filled"
    <3>1. \A i \in F \cup {n + 1} : Pnls'[i] \in Int
      BY <1>1
    <3>2. SumIn(Pnls', F \cup {n + 1}) = Pnls'[n + 1] + SumIn(Pnls', F)
      BY <1>4, <3>1, SumAdd
    <3>3. Jour!Filled' = F \cup {n + 1}
      BY <1>1, <2>1
    <3>4. SumIn(Pnls', Jour!Filled') = Pnls'[n + 1] + SumIn(Pnls', F)
      BY <3>2, <3>3, Zenon
    <3> QED
      BY <1>1, <1>5, <2>1, <3>4
  <2>2. CASE t.status # "filled"
    <3>1. Jour!Filled' = F
      BY <1>1, <2>2
    <3>2. SumIn(Pnls', Jour!Filled') = SumIn(Pnls, F)
      BY <1>5, <3>1, Zenon
    <3> QED
      BY <1>5, <2>2, <3>2
  <2> QED
    BY <2>1, <2>2
<1>7. positions \in [Books -> Int] /\ SumIn(positions, Books) = SumIn(Pnls, F)
  BY DEF JourInv, PositionsAddUp, F
<1>8. PositionsAddUp'
  <2>1. CASE t.status = "filled" /\ positions' = [positions EXCEPT ![<<t.strategy, t.paper>>] = @ + t.pnl]
    <3> DEFINE b == <<t.strategy, t.paper>>
    <3>1. b \in Books
      BY DEF Trade, Books
    <3> HIDE DEF b
    <3>2. /\ positions' \in [Books -> Int] /\ positions'[b] = positions[b] + t.pnl
          /\ \A x \in Books \ {b} : positions'[x] = positions[x]
          /\ \A x \in Books : positions[x] \in Int
      <4>1. positions' = [positions EXCEPT ![b] = @ + t.pnl]
        BY <2>1 DEF b
      <4> QED
        BY <1>1, <1>7, <3>1, <4>1
    <3>3. SumIn(positions', Books) = SumIn(positions, Books) + t.pnl
      <4> HIDE DEF Books
      <4> DEFINE new == positions'
      <4>1. /\ t.pnl \in Int /\ new[b] = positions[b] + t.pnl
            /\ \A x \in Books \ {b} : new[x] = positions[x]
            /\ \A x \in Books : positions[x] \in Int
        BY <1>1, <3>2
      <4> HIDE DEF new
      <4>2. SumIn(new, Books) = SumIn(positions, Books) + t.pnl
        BY <3>1, <4>1, BooksAreFinite, SumExcept
      <4> QED
        BY <4>2 DEF new
    <3>4. SumIn(positions', Books) = SumIn(Pnls', Jour!Filled')
      BY <1>6, <1>7, <2>1, <3>3
    <3> QED
      BY <3>2, <3>4 DEF PositionsAddUp
  <2>2. CASE (t.status = "filled" => t.pnl = 0) /\ positions' = positions
    <3>1. SumIn(Pnls', Jour!Filled') = SumIn(Pnls, F)
      BY <1>5, <1>6, <2>2
    <3>2. SumIn(positions', Books) = SumIn(Pnls', Jour!Filled')
      BY <1>7, <2>2, <3>1, Zenon
    <3> QED
      BY <1>7, <2>2, <3>2 DEF PositionsAddUp
  <2> QED
    BY <2>1, <2>2
<1> QED
  BY <1>1, <1>2, <1>3, <1>8 DEF JourInv

LEMMA PersistTradeStep == ASSUME JourInv, Jour!PersistTrade PROVE JourInv'
<1> DEFINE Who == [strategy : PaperTraders, paper : {TRUE}] \cup [strategy : LiveTraders, paper : {FALSE}]
<1>1. UNCHANGED <<day, events, summary>> /\ day \in Nat
  BY DEF Jour!PersistTrade, JourInv, TradesTyped
<1>2. PICK a \in Who :
         \/ \E pnl \in Gains \cup {-x : x \in Losses}, fee \in Costs : Jour!Fill(a.strategy, a.paper, pnl, fee)
         \/ Jour!Unpriced(a.strategy, a.paper) \/ Jour!NotFilled(a.strategy, a.paper)
  BY DEF Jour!PersistTrade
<1>3. a.strategy \in Traders /\ a.paper \in BOOLEAN
  BY DEF Traders
<1> DEFINE T(status, pnl, fee) ==
        [strategy |-> a.strategy, paper |-> a.paper, status |-> status, pnl |-> pnl, fee |-> fee, at |-> day]
<1>4. ASSUME NEW status \in {"filled", "rejected"}, NEW pnl \in Int, NEW fee \in Int
      PROVE  /\ T(status, pnl, fee) \in Trade /\ T(status, pnl, fee).at = day
             /\ T(status, pnl, fee).strategy = a.strategy /\ T(status, pnl, fee).paper = a.paper
             /\ T(status, pnl, fee).status = status /\ T(status, pnl, fee).pnl = pnl
  BY <1>1, <1>3 DEF Trade
<1>5. CASE \E pnl \in Gains \cup {-x : x \in Losses}, fee \in Costs : Jour!Fill(a.strategy, a.paper, pnl, fee)
  <2>1. \A x \in Gains \cup {-y : y \in Losses} : x \in Int
    BY GatewayAssumption DEF GatewayAssumption
  <2>2. PICK pnl \in Int, fee \in Int : Jour!Fill(a.strategy, a.paper, pnl, fee)
    BY <1>5, <2>1, GatewayAssumption DEF GatewayAssumption
  <2> DEFINE t == T("filled", pnl, fee)
  <2>3. /\ trades' = Append(trades, t)
        /\ positions' = [positions EXCEPT ![<<a.strategy, a.paper>>] = @ + pnl]
    BY <2>2 DEF Jour!Fill
  <2> HIDE DEF T
  <2>4. /\ t \in Trade /\ t.at = day /\ t.strategy = a.strategy /\ t.paper = a.paper
        /\ t.status = "filled" /\ t.pnl = pnl
    BY <1>4
  <2> HIDE DEF t
  <2>5. positions' = [positions EXCEPT ![<<t.strategy, t.paper>>] = @ + t.pnl]
    BY <2>3, <2>4
  <2> QED
    BY <1>1, <2>3, <2>4, <2>5, TradeStep
<1>6. CASE Jour!Unpriced(a.strategy, a.paper)
  <2> DEFINE t == T("filled", 0, 0)
  <2>1. trades' = Append(trades, t) /\ positions' = positions
    BY <1>6 DEF Jour!Unpriced
  <2> HIDE DEF T
  <2>2. t \in Trade /\ t.at = day /\ t.status = "filled" /\ t.pnl = 0
    BY <1>4
  <2> HIDE DEF t
  <2> QED
    BY <1>1, <2>1, <2>2, TradeStep
<1>7. CASE Jour!NotFilled(a.strategy, a.paper)
  <2> DEFINE t == T("rejected", 0, 0)
  <2>1. trades' = Append(trades, t) /\ positions' = positions
    BY <1>7 DEF Jour!NotFilled
  <2> HIDE DEF T
  <2>2. t \in Trade /\ t.at = day /\ t.status # "filled" /\ t.pnl = 0
    BY <1>4
  <2> HIDE DEF t
  <2> QED
    BY <1>1, <2>1, <2>2, TradeStep
<1> QED
  BY <1>2, <1>5, <1>6, <1>7

LEMMA RecordStep == ASSUME JourInv, NEW e \in Events, Jour!Record(e) PROVE JourInv'
<1>1. /\ events' = Append(events, [event |-> e, at |-> day]) /\ day' = day /\ trades' = trades
      /\ positions' = positions /\ summary' = summary /\ day \in Nat
  BY DEF Jour!Record, JourInv, TradesTyped
<1>2. events \in Seq(Noted) /\ [event |-> e, at |-> day] \in Noted
  BY <1>1 DEF JourInv, InThePast, Noted
<1>3. TradesTyped'
  BY <1>1 DEF JourInv, TradesTyped
<1>4. InThePast'
  <2> DEFINE r == [event |-> e, at |-> day]
  <2>1. r \in Noted /\ r.at = day
    BY <1>2
  <2> HIDE DEF r
  <2>2. events' \in Seq(Noted)
    BY <1>1, <1>2
  <2>3. events' = Append(events, r)
    BY <1>1 DEF r
  <2>4. \A j \in DOMAIN events' : events'[j] = r \/ (j \in DOMAIN events /\ events'[j] = events[j])
    <3> DEFINE m == Len(events)
    <3>1. m \in Nat /\ DOMAIN events = 1 .. m
      BY <1>2
    <3>2. DOMAIN events' = 1 .. (m + 1) /\ events'[m + 1] = r /\ \A j \in 1 .. m : events'[j] = events[j]
      BY <1>2, <2>1, <2>3
    <3> HIDE DEF m
    <3>3. \A j \in 1 .. (m + 1) : j \in 1 .. m \/ j = m + 1
      BY <3>1
    <3> SUFFICES ASSUME NEW j \in DOMAIN events' PROVE events'[j] = r \/ (j \in DOMAIN events /\ events'[j] = events[j])
      OBVIOUS
    <3>4. CASE j = m + 1
      <4>1. events'[j] = events'[m + 1]
        BY <3>4
      <4> QED
        BY <3>2, <4>1, Zenon
    <3>5. CASE j \in 1 .. m
      BY <3>1, <3>2, <3>5, Zenon
    <3> QED
      BY <3>2, <3>3, <3>4, <3>5, Zenon
  <2> QED
    BY <1>1, <2>1, <2>2, <2>4 DEF JourInv, InThePast
<1>5. Pnls' = Pnls /\ Jour!Filled' = Jour!Filled /\ Jour!Recent' = Jour!Recent
  BY <1>1 DEF Pnls, Jour!Pnl, Jour!Filled, Jour!Recent
<1>6. PositionsAddUp'
  <2>1. SumIn(positions', Books) = SumIn(Pnls', Jour!Filled')
    BY <1>1, <1>5, Zenon DEF JourInv, PositionsAddUp
  <2> QED
    BY <1>1, <2>1 DEF JourInv, PositionsAddUp
<1>7. SummaryTrue'
  BY <1>1, <1>5, Zenon DEF JourInv, SummaryTrue, Shown
<1> QED
  BY <1>3, <1>4, <1>6, <1>7 DEF JourInv

\* What the summary's first query shows is all there is.
LEMMA ReadDailyStep == ASSUME JourInv, Jour!ReadDaily PROVE JourInv'
<1> DEFINE n == Len(trades)
<1>1. UNCHANGED <<day, trades, positions, events>>
  BY DEF Jour!ReadDaily
<1>2. TradesTyped /\ TradesTyped' /\ InThePast'
  BY <1>1 DEF JourInv, TradesTyped, InThePast
<1>3. /\ Pnls' = Pnls /\ Jour!Filled' = Jour!Filled /\ Jour!Recent' = Jour!Recent
      /\ DOMAIN trades = 1 .. n /\ n \in Nat /\ Jour!Recent \in SUBSET (1 .. n)
  <2>1. Pnls' = Pnls /\ Jour!Filled' = Jour!Filled /\ Jour!Recent' = Jour!Recent
    BY <1>1 DEF Pnls, Jour!Pnl, Jour!Filled, Jour!Recent
  <2>2. DOMAIN trades = 1 .. n /\ n \in Nat
    BY <1>2 DEF TradesTyped
  <2> HIDE DEF n
  <2> QED
    BY <1>2, <2>1, <2>2, TradeFields
<1>4. PositionsAddUp'
  <2>1. SumIn(positions', Books) = SumIn(Pnls', Jour!Filled')
    BY <1>1, <1>3, Zenon DEF JourInv, PositionsAddUp
  <2> QED
    BY <1>1, <2>1 DEF JourInv, PositionsAddUp
<1>5. { i \in Jour!Recent : i <= n } = Jour!Recent
  <2> HIDE DEF n
  <2>1. \A i \in Jour!Recent : i <= n
    <3>1. \A i \in 1 .. n : i <= n
      BY <1>3
    <3> QED
      BY <1>3, <3>1, Zenon
  <2> QED
    BY <2>1, Zenon
<1>6. SummaryTrue'
  <2>1. summary' = [busy |-> TRUE, fills |-> Jour!Cardinality(UNION { r.ids : r \in Jour!Rows }),
                    pnl |-> Jour!Sum(Jour!Daily(Jour!Rows)), since |-> n]
    BY DEF Jour!ReadDaily
  <2>2. /\ summary'.busy = TRUE /\ summary'.since = n
        /\ summary'.fills = Jour!Cardinality(UNION { r.ids : r \in Jour!Rows })
        /\ summary'.pnl = Jour!Sum(Jour!Daily(Jour!Rows))
    BY <2>1
  <2>3. UNION { r.ids : r \in Jour!Rows } = Jour!Recent
    BY <1>2, RowsSplit
  <2>4. Jour!Cardinality(Jour!Recent) = Cardinality(Jour!Recent)
    BY SameSize
  <2>5. Jour!Sum(Jour!Daily(Jour!Rows)) = SumIn(Pnls, Jour!Recent)
    BY <1>2, DailySum, TotalOf
  <2> HIDE DEF n
  <2>6. /\ summary'.fills = Cardinality({ i \in Jour!Recent' : i <= n })
        /\ summary'.pnl = SumIn(Pnls', { i \in Jour!Recent' : i <= n })
    BY <1>3, <1>5, <2>2, <2>3, <2>4, <2>5, Zenon
  <2>7. n \in 0 .. Len(trades')
    BY <1>1, <1>3 DEF n
  <2> QED
    BY <2>2, <2>6, <2>7 DEF SummaryTrue, Shown
<1> QED
  BY <1>2, <1>4, <1>6 DEF JourInv

LEMMA JourUnchanged == ASSUME JourInv, UNCHANGED <<day, trades, positions, events>>,
                              summary' = summary \/ summary' = Jour!Idle
                       PROVE  JourInv'
<1>1. TradesTyped' /\ InThePast'
  BY DEF JourInv, TradesTyped, InThePast
<1>2. Pnls' = Pnls /\ Jour!Filled' = Jour!Filled /\ Jour!Recent' = Jour!Recent
  BY DEF Pnls, Jour!Pnl, Jour!Filled, Jour!Recent
<1>3. PositionsAddUp'
  <2>1. SumIn(positions', Books) = SumIn(Pnls', Jour!Filled')
    BY <1>2, Zenon DEF JourInv, PositionsAddUp
  <2> QED
    BY <2>1 DEF JourInv, PositionsAddUp
<1>4. SummaryTrue'
  <2>1. CASE summary' = summary
    BY <1>2, <2>1, Zenon DEF JourInv, SummaryTrue, Shown
  <2>2. CASE summary' = Jour!Idle
    BY <2>2 DEF SummaryTrue, Jour!Idle
  <2> QED
    BY <2>1, <2>2
<1> QED
  BY <1>1, <1>3, <1>4 DEF JourInv

LEMMA JourStep == JourInv /\ [Jour!Next]_(Jour!vars) => JourInv'
<1> SUFFICES ASSUME JourInv, [Jour!Next]_(Jour!vars) PROVE JourInv'
  OBVIOUS
<1>1. CASE Jour!Time
  BY <1>1, TimeStep
<1>2. CASE Jour!PersistTrade
  BY <1>2, PersistTradeStep
<1>3. CASE Jour!ReadDaily
  BY <1>3, ReadDailyStep
<1>4. CASE Jour!ReadStats
  BY <1>4, JourUnchanged DEF Jour!ReadStats
<1>5. CASE \E event \in Events : Jour!Record(event)
  BY <1>5, RecordStep
<1>6. CASE UNCHANGED Jour!vars
  BY <1>6, JourUnchanged DEF Jour!vars
<1> QED
  BY <1>1, <1>2, <1>3, <1>4, <1>5, <1>6 DEF Jour!Next

LEMMA FiguresHold == JourInv => Jour!FiguresAgree
<1> SUFFICES ASSUME JourInv PROVE Jour!FiguresAgree
  OBVIOUS
<1>1. TradesTyped /\ PositionsAddUp
  BY DEF JourInv
<1>2. Jour!SumFunction(positions) = Jour!Total(Jour!Filled)
  <2>1. DOMAIN positions = Books
    BY <1>1 DEF PositionsAddUp
  <2>2. Jour!SumFunction(positions) = SumIn(positions, DOMAIN positions)
    BY SumIs, Zenon DEF Jour!Sum
  <2>3. Jour!Total(Jour!Filled) = SumIn(Pnls, Jour!Filled)
    BY TotalOf
  <2> QED
    BY <1>1, <2>1, <2>2, <2>3, Zenon DEF PositionsAddUp
<1> QED
  BY <1>1, <1>2, ViewsHold, DrawdownHolds, TangencyHolds DEF Jour!FiguresAgree

\* In the composition the journal runs as it does alone.
LEMMA JournalRuns == AllSpec => Jour!Spec
<1>1. AllInit => Jour!Init
  BY DEF AllInit
<1>2. [AllNext]_allVars => [Jour!Next]_(Jour!vars)
  BY DEF AllNext, allVars, journal, Jour!vars
<1> QED
  BY <1>1, <1>2, PTL DEF AllSpec, Jour!Spec

(* The daily rows, each strategy's figures and its series, the Kelly       *)
(* inputs, the cost report and the positions are figures of the same       *)
(* trades; the drawdown is the worst fall of the curve; and no other       *)
(* long-only split beats the tangency weights (queries.py, allocation.py). *)
THEOREM FiguresAlwaysAgree == AllSpec => []FiguresAgree
<1>1. JourInv => FiguresAgree
  BY FiguresHold DEF FiguresAgree
<1> QED
  BY <1>1, JourInit, JourStep, JournalRuns, PTL DEF Jour!Spec

-----------------------------------------------------------------------------
(* Two answers.                                                            *)

\* What the second query finds is what the first one found, or newer.
LEMMA SummaryStep ==
    ASSUME JourInv, summary.busy, ~summary'.busy
    PROVE  LET k == Jour!KellyStats
               later == Len(trades) - summary.since
           IN  /\ k.wins + k.losses <= summary.fills + later
               /\ later = 0 => k.won - k.lost = summary.pnl
<1> DEFINE n == Len(trades)
           R == Jour!Recent
           k == Jour!KellyStats
<1>1. TradesTyped /\ n \in Nat /\ DOMAIN trades = 1 .. n
  BY DEF JourInv, TradesTyped
<1>2. R \in SUBSET (1 .. n)
  <2> HIDE DEF n
  <2> QED
    BY <1>1, TradeFields
<1> HIDE DEF n
<1>3. PICK s \in 0 .. n : /\ summary.since = s /\ summary.fills = Cardinality(Shown(s))
                          /\ summary.pnl = SumIn(Pnls, Shown(s))
  BY DEF JourInv, SummaryTrue, Jour!Idle, n
<1>4. /\ k.wins = Cardinality(Jour!Won(R)) /\ k.losses = Cardinality(Jour!Lost(R))
      /\ k.won = Jour!Total(Jour!Won(R)) /\ k.lost = -Jour!Total(Jour!Lost(R))
  BY SameSize DEF Jour!KellyStats
<1>5. /\ Cardinality(Jour!Won(R)) \in Nat /\ Cardinality(Jour!Lost(R)) \in Nat /\ Cardinality(R) \in Nat
      /\ Cardinality(Jour!Won(R)) + Cardinality(Jour!Lost(R)) <= Cardinality(R)
      /\ Jour!Total(R) = Jour!Total(Jour!Won(R)) + Jour!Total(Jour!Lost(R))
      /\ Jour!Total(Jour!Won(R)) \in Int /\ Jour!Total(Jour!Lost(R)) \in Int
  BY <1>1, <1>2, WonLost
<1> DEFINE seen == Shown(s)  new == (s + 1) .. n
<1>6. R \in SUBSET (seen \cup new) /\ seen \in SUBSET R
  <2>1. \A i \in 1 .. n : i <= s \/ i \in (s + 1) .. n
    BY <1>1
  <2> QED
    BY <1>2, <2>1 DEF Shown
<1>7. IsFiniteSet(R)
  <2>1. IsFiniteSet(1 .. n)
    BY <1>1, FS_Interval
  <2> HIDE DEF R
  <2> QED
    BY <1>2, <2>1, FS_Subset
<1>8. IsFiniteSet(new) /\ Cardinality(new) = n - s
  <2>1. s + 1 \in Int /\ n \in Int /\ s <= n
    BY <1>1
  <2>2. IsFiniteSet((s + 1) .. n) /\ Cardinality((s + 1) .. n) = IF s + 1 > n THEN 0 ELSE n - (s + 1) + 1
    BY <2>1, FS_Interval
  <2>3. s \in Int /\ (IF s + 1 > n THEN 0 ELSE n - (s + 1) + 1) = n - s
    BY <2>1
  <2> QED
    BY <2>2, <2>3
<1> HIDE DEF seen, new, R, k
<1>9. IsFiniteSet(seen) /\ IsFiniteSet(seen \cup new) /\ Cardinality(seen) \in Nat /\ Cardinality(seen \cup new) \in Nat
  BY <1>6, <1>7, <1>8, FS_Subset, FS_Union, FS_CardinalityType
<1>10. Cardinality(R) <= Cardinality(seen \cup new)
  BY <1>6, <1>9, FS_Subset
<1>11. Cardinality(seen \cup new) <= Cardinality(seen) + (n - s)
  <2>1. Cardinality(seen \cup new) = Cardinality(seen) + Cardinality(new) - Cardinality(seen \cap new)
    BY <1>8, <1>9, FS_Union
  <2>2. IsFiniteSet(seen \cap new)
    BY <1>9, FS_Subset
  <2>3. Cardinality(seen \cap new) \in Nat
    BY <2>2, FS_CardinalityType
  <2> QED
    BY <1>1, <1>8, <1>9, <2>1, <2>3
<1>12. summary.fills = Cardinality(seen) /\ summary.pnl = SumIn(Pnls, seen) /\ summary.since = s
  BY <1>3 DEF seen
<1>13. k.wins + k.losses <= summary.fills + (n - s)
  BY <1>1, <1>4, <1>5, <1>9, <1>10, <1>11, <1>12 DEF k
<1>14. n - s = 0 => k.won - k.lost = summary.pnl
  <2> SUFFICES ASSUME n - s = 0 PROVE k.won - k.lost = summary.pnl
    OBVIOUS
  <2>1. seen = R
    <3>1. new = {}
      BY <1>1 DEF new
    <3> QED
      BY <1>6, <3>1
  <2>2. Jour!Total(R) = SumIn(Pnls, R)
    BY TotalOf
  <2>3. k.won - k.lost = Jour!Total(R)
    BY <1>4, <1>5
  <2> QED
    BY <1>12, <2>1, <2>2, <2>3, Zenon
<1> QED
  BY <1>12, <1>13, <1>14 DEF n, k

\* A step lets time pass, adds a trade or adds an event.
LEMMA OnlyMore ==
    ASSUME JourInv, [Jour!Next]_(Jour!vars)
    PROVE  /\ day \in Nat /\ day' \in Nat /\ day <= day'
           /\ \A i \in DOMAIN trades : i \in DOMAIN trades' /\ trades'[i] = trades[i]
           /\ \A i \in DOMAIN trades' : i \in DOMAIN trades \/ (i > Len(trades) /\ trades'[i].at = day)
           /\ \A j \in DOMAIN events : j \in DOMAIN events' /\ events'[j] = events[j]
           /\ \A j \in DOMAIN events' : j \in DOMAIN events \/ events'[j].at = day
<1> DEFINE n == Len(trades)  m == Len(events)
<1>1. day \in Nat /\ n \in Nat /\ DOMAIN trades = 1 .. n /\ m \in Nat /\ DOMAIN events = 1 .. m
  BY DEF JourInv, TradesTyped, InThePast
<1>2. CASE day' = day /\ events' = events /\ \E t : trades' = Append(trades, t) /\ t.at = day
  <2>1. PICK t : trades' = Append(trades, t) /\ t.at = day
    BY <1>2
  <2>2. DOMAIN trades' = 1 .. (n + 1) /\ trades'[n + 1] = t /\ \A i \in 1 .. n : trades'[i] = trades[i]
    BY <1>1, <2>1 DEF JourInv, TradesTyped
  <2>3. /\ \A k \in Nat : \A i \in 1 .. (k + 1) : i \in 1 .. k \/ (i = k + 1 /\ i > k)
        /\ \A k \in Nat : \A i \in 1 .. k : i \in 1 .. (k + 1)
    OBVIOUS
  <2> HIDE DEF n, m
  <2>4. /\ \A i \in 1 .. (n + 1) : i \in 1 .. n \/ (i = n + 1 /\ i > n)
        /\ \A i \in 1 .. n : i \in 1 .. (n + 1)
    BY <1>1, <2>3, Zenon
  <2>5. \A i \in DOMAIN trades : i \in DOMAIN trades' /\ trades'[i] = trades[i]
    BY <1>1, <2>2, <2>4, Zenon
  <2>6. \A i \in DOMAIN trades' : i \in DOMAIN trades \/ (i > n /\ trades'[i].at = day)
    BY <1>1, <2>1, <2>2, <2>4, Zenon
  <2>7. day \in Nat /\ day' \in Nat /\ day <= day'
    BY <1>1, <1>2
  <2>8. DOMAIN events' = DOMAIN events /\ events' = events
    BY <1>2
  <2> QED
    BY <2>5, <2>6, <2>7, <2>8, Zenon DEF n
<1>3. CASE day' = day /\ trades' = trades /\ \E e : events' = Append(events, e) /\ e.at = day
  <2>1. PICK e : events' = Append(events, e) /\ e.at = day
    BY <1>3
  <2>2. DOMAIN events' = 1 .. (m + 1) /\ events'[m + 1] = e /\ \A j \in 1 .. m : events'[j] = events[j]
    BY <1>1, <2>1 DEF JourInv, InThePast
  <2>3. /\ \A k \in Nat : \A j \in 1 .. (k + 1) : j \in 1 .. k \/ j = k + 1
        /\ \A k \in Nat : \A j \in 1 .. k : j \in 1 .. (k + 1)
    OBVIOUS
  <2> HIDE DEF n, m
  <2>4. /\ \A j \in 1 .. (m + 1) : j \in 1 .. m \/ j = m + 1
        /\ \A j \in 1 .. m : j \in 1 .. (m + 1)
    BY <1>1, <2>3, Zenon
  <2>5. \A j \in DOMAIN events : j \in DOMAIN events' /\ events'[j] = events[j]
    BY <1>1, <2>2, <2>4, Zenon
  <2>6. \A j \in DOMAIN events' : j \in DOMAIN events \/ events'[j].at = day
    BY <1>1, <2>1, <2>2, <2>4, Zenon
  <2>7. day \in Nat /\ day' \in Nat /\ day <= day'
    BY <1>1, <1>3
  <2>8. DOMAIN trades' = DOMAIN trades /\ trades' = trades
    BY <1>3
  <2> QED
    BY <2>5, <2>6, <2>7, <2>8, Zenon
<1>4. CASE trades' = trades /\ events' = events /\ day' \in {day, day + 1}
  <2>1. day \in Nat /\ day' \in Nat /\ day <= day'
    BY <1>1, <1>4
  <2>2. DOMAIN trades' = DOMAIN trades /\ DOMAIN events' = DOMAIN events
    BY <1>4
  <2> QED
    BY <1>4, <2>1, <2>2, Zenon
<1>5. CASE Jour!Time
  BY <1>4, <1>5 DEF Jour!Time
<1>6. CASE Jour!PersistTrade
  <2> DEFINE Grows(s, p, status, pnl, fee) ==
                trades' = Append(trades, [strategy |-> s, paper |-> p, status |-> status, pnl |-> pnl, fee |-> fee, at |-> day])
             Grown == \E s, p, status, pnl, fee : Grows(s, p, status, pnl, fee)
  <2>1. Grown
    <3>1. PICK a : \/ \E pnl, fee : Jour!Fill(a.strategy, a.paper, pnl, fee)
                   \/ Jour!Unpriced(a.strategy, a.paper)
                   \/ Jour!NotFilled(a.strategy, a.paper)
      BY <1>6, Zenon DEF Jour!PersistTrade
    <3>2. ASSUME NEW pnl, NEW fee, Jour!Fill(a.strategy, a.paper, pnl, fee) PROVE Grown
      <4>1. Grows(a.strategy, a.paper, "filled", pnl, fee)
        BY <3>2 DEF Jour!Fill
      <4> HIDE DEF Grows
      <4> QED
        BY <4>1, Zenon
    <3>3. ASSUME Jour!Unpriced(a.strategy, a.paper) PROVE Grown
      <4>1. Grows(a.strategy, a.paper, "filled", 0, 0)
        BY <3>3 DEF Jour!Unpriced
      <4> HIDE DEF Grows
      <4> QED
        BY <4>1, Zenon
    <3>4. ASSUME Jour!NotFilled(a.strategy, a.paper) PROVE Grown
      <4>1. Grows(a.strategy, a.paper, "rejected", 0, 0)
        BY <3>4 DEF Jour!NotFilled
      <4> HIDE DEF Grows
      <4> QED
        BY <4>1, Zenon
    <3> HIDE DEF Grown
    <3> QED
      BY <3>1, <3>2, <3>3, <3>4, Zenon
  <2>2. PICK s, p, status, pnl, fee : Grows(s, p, status, pnl, fee)
    BY <2>1, Zenon
  <2> DEFINE t == [strategy |-> s, paper |-> p, status |-> status, pnl |-> pnl, fee |-> fee, at |-> day]
  <2>3. trades' = Append(trades, t) /\ t.at = day
    BY <2>2
  <2>4. day' = day /\ events' = events
    BY <1>6 DEF Jour!PersistTrade
  <2> HIDE DEF t
  <2> QED
    BY <1>2, <2>3, <2>4
<1>7. CASE Jour!ReadDaily \/ Jour!ReadStats \/ UNCHANGED Jour!vars
  BY <1>4, <1>7 DEF Jour!ReadDaily, Jour!ReadStats, Jour!vars
<1>8. CASE \E event \in Events : Jour!Record(event)
  <2>1. PICK event \in Events : Jour!Record(event)
    BY <1>8
  <2> DEFINE e == [event |-> event, at |-> day]
  <2>2. events' = Append(events, e) /\ e.at = day /\ day' = day /\ trades' = trades
    BY <2>1 DEF Jour!Record
  <2> HIDE DEF e
  <2> QED
    BY <1>3, <2>2
<1> QED
  BY <1>5, <1>6, <1>7, <1>8 DEF Jour!Next

\* The first activity stays the first.
Moments == { trades[i].at : i \in Jour!Filled } \cup { events[j].at : j \in DOMAIN events }

LEMMA FirstStays ==
    ASSUME JourInv, [Jour!Next]_(Jour!vars), Jour!Filled # {}
    PROVE  /\ Jour!FirstActivity' = Jour!FirstActivity /\ Jour!FirstActivity \in Nat
           /\ Jour!FirstActivity <= day
<1>1. JourInv'
  BY JourStep
<1>2. /\ \A x \in Moments : x \in Nat /\ x <= day
      /\ \A x \in Moments' : x \in Nat
      /\ Moments # {}
  <2>1. /\ trades \in Seq(Trade) /\ events \in Seq(Noted) /\ trades' \in Seq(Trade) /\ events' \in Seq(Noted)
        /\ \A i \in DOMAIN trades : trades[i].at <= day
        /\ \A j \in DOMAIN events : events[j].at <= day
    BY <1>1 DEF JourInv, TradesTyped, InThePast
  <2>2. /\ \A i \in DOMAIN trades : trades[i] \in Trade
        /\ \A i \in DOMAIN trades' : trades'[i] \in Trade
        /\ \A j \in DOMAIN events : events[j] \in Noted
        /\ \A j \in DOMAIN events' : events'[j] \in Noted
    BY <2>1
  <2>3. /\ \A t \in Trade : t.at \in Nat
        /\ \A e \in Noted : e.at \in Nat
    BY DEF Trade, Noted
  <2>4. Jour!Filled \in SUBSET DOMAIN trades /\ Jour!Filled' \in SUBSET DOMAIN trades'
    BY DEF Jour!Filled
  <2> QED
    BY <2>1, <2>2, <2>3, <2>4 DEF Moments
<1>3. Moments \in SUBSET Moments' /\ \A x \in Moments' : x \in Moments \/ x = day
  <2>1. \A i \in Jour!Filled : i \in Jour!Filled' /\ trades'[i] = trades[i]
    BY OnlyMore DEF Jour!Filled
  <2>2. \A i \in Jour!Filled' : (i \in Jour!Filled /\ trades'[i] = trades[i]) \/ trades'[i].at = day
    BY OnlyMore DEF Jour!Filled
  <2> QED
    BY <2>1, <2>2, OnlyMore DEF Moments
<1>4. Jour!FirstActivity = Jour!Min(Moments) /\ Jour!FirstActivity' = Jour!Min(Moments')
  BY DEF Jour!FirstActivity, Moments
<1> DEFINE M == Moments  N == Moments'
<1>5. /\ M \in SUBSET N /\ M # {} /\ \A x \in M : x \in Nat /\ x <= day
      /\ \A x \in N : x \in Nat /\ (x \in M \/ x = day)
  BY <1>2, <1>3
<1> HIDE DEF M, N
<1>6. PICK x \in M : \A y \in M : x <= y
  BY <1>5, LeastNumber
<1>7. \A y \in N : x <= y
  BY <1>5, <1>6
<1>8. ASSUME NEW S, S \in SUBSET Nat, x \in S, \A y \in S : x <= y PROVE Jour!Min(S) = x
  <2>1. Jour!Min(S) \in S /\ \A y \in S : Jour!Min(S) <= y
    BY <1>8, Zenon DEF Jour!Min
  <2>2. x \in Nat /\ Jour!Min(S) \in Nat /\ x <= Jour!Min(S) /\ Jour!Min(S) <= x
    BY <1>8, <2>1
  <2> QED
    BY <2>2
<1>9. Jour!Min(M) = x /\ Jour!Min(N) = x
  BY <1>5, <1>6, <1>7, <1>8
<1> QED
  BY <1>4, <1>5, <1>9 DEF M, N

LEMMA ReadyStep ==
    ASSUME JourInv, [Jour!Next]_(Jour!vars)
    PROVE  /\ Jour!Ready /\ ~Jour!Ready' => \E i \in DOMAIN trades' : i > Len(trades) /\ ~trades'[i].paper
           /\ (\E i \in Jour!Filled : ~trades[i].paper) => ~Jour!Ready'
<1>1. \A i \in Jour!Filled : i \in Jour!Filled' /\ trades'[i] = trades[i]
  BY OnlyMore DEF Jour!Filled
<1>2. (\E i \in Jour!Filled : ~trades[i].paper) => ~Jour!Ready'
  <2> SUFFICES ASSUME NEW i \in Jour!Filled, ~trades[i].paper PROVE ~Jour!Ready'
    OBVIOUS
  <2>1. i \in Jour!Filled' /\ ~trades'[i].paper
    BY <1>1
  <2> QED
    BY <2>1 DEF Jour!Ready
<1>3. ASSUME Jour!Ready, \A i \in DOMAIN trades' : i > Len(trades) => trades'[i].paper
      PROVE  Jour!Ready'
  <2>1. /\ Jour!Filled # {} /\ Jour!Kills # {}
        /\ (day - Jour!FirstActivity) \div DayLength >= MinDays
        /\ Jour!Cardinality(Jour!Filled) >= MinTrades
        /\ \E i \in Jour!Filled : Jour!Pnl(i) # 0
        /\ \A i \in Jour!Filled : trades[i].paper
    BY <1>3 DEF Jour!Ready
  <2>2. Jour!Filled' # {} /\ Jour!Kills' # {}
    <3>1. \A j \in Jour!Kills : j \in Jour!Kills'
      BY OnlyMore DEF Jour!Kills
    <3> QED
      BY <1>1, <2>1, <3>1
  <2>3. (day' - Jour!FirstActivity') \div DayLength >= MinDays
    <3> DEFINE f == Jour!FirstActivity
    <3>1. f' = f /\ f \in Nat /\ f <= day /\ day \in Nat /\ day' \in Nat /\ day <= day'
      BY <2>1, FirstStays, OnlyMore
    <3> HIDE DEF f
    <3>2. DayLength \in Nat \ {0} /\ MinDays \in Nat
      BY GatewayAssumption DEF GatewayAssumption
    <3>3. day - f \in Nat /\ day' - f \in Nat /\ day - f <= day' - f
      <4>1. \A u, v, w \in Nat : w <= u /\ u <= v => u - w \in Nat /\ v - w \in Nat /\ u - w <= v - w
        OBVIOUS
      <4> QED
        BY <3>1, <4>1
    <3>4. /\ (day - f) \div DayLength <= (day' - f) \div DayLength
          /\ (day - f) \div DayLength \in Nat /\ (day' - f) \div DayLength \in Nat
      BY <3>2, <3>3, DivisionGrows
    <3>5. (day - f) \div DayLength >= MinDays
      BY <2>1 DEF f
    <3>6. (day' - f) \div DayLength >= MinDays
      BY <3>2, <3>4, <3>5
    <3> QED
      BY <3>1, <3>6, Zenon DEF f
  <2>4. Jour!Cardinality(Jour!Filled') >= MinTrades
    <3>1. IsFiniteSet(Jour!Filled')
      <4> DEFINE n == Len(trades')
      <4>1. JourInv'
        BY JourStep
      <4>2. n \in Nat /\ DOMAIN trades' = 1 .. n
        BY <4>1 DEF JourInv, TradesTyped
      <4>3. Jour!Filled' \in SUBSET (1 .. n)
        BY <4>2 DEF Jour!Filled
      <4> HIDE DEF n
      <4>4. IsFiniteSet(1 .. n)
        BY <4>2, FS_Interval
      <4> QED
        BY <4>3, <4>4, FS_Subset
    <3>2. Jour!Filled \in SUBSET Jour!Filled'
      BY <1>1
    <3>3. /\ Cardinality(Jour!Filled) <= Cardinality(Jour!Filled')
          /\ Cardinality(Jour!Filled) \in Nat /\ Cardinality(Jour!Filled') \in Nat
      BY <3>1, <3>2, FS_Subset, FS_CardinalityType
    <3>4. /\ Jour!Cardinality(Jour!Filled) = Cardinality(Jour!Filled)
          /\ Jour!Cardinality(Jour!Filled') = Cardinality(Jour!Filled')
      BY SameSize
    <3>5. MinTrades \in Nat
      BY GatewayAssumption DEF GatewayAssumption
    <3> QED
      BY <2>1, <3>3, <3>4, <3>5
  <2>5. \E i \in Jour!Filled' : trades'[i].pnl # 0
    BY <1>1, <2>1 DEF Jour!Pnl
  <2>6. \A i \in Jour!Filled' : trades'[i].paper
    <3> SUFFICES ASSUME NEW i \in Jour!Filled' PROVE trades'[i].paper
      OBVIOUS
    <3>1. i \in DOMAIN trades' /\ trades'[i].status = "filled"
      BY DEF Jour!Filled
    <3>2. CASE i > Len(trades)
      BY <1>3, <3>1, <3>2
    <3>3. CASE i \in DOMAIN trades
      <4>1. trades'[i] = trades[i]
        BY <3>3, OnlyMore
      <4>2. i \in Jour!Filled
        BY <3>1, <3>3, <4>1 DEF Jour!Filled
      <4> QED
        BY <2>1, <4>1, <4>2
    <3> QED
      BY <3>1, <3>2, <3>3, OnlyMore
  <2> QED
    BY <2>2, <2>3, <2>4, <2>5, <2>6 DEF Jour!Ready, Jour!Pnl
<1>4. Jour!Ready /\ ~Jour!Ready' => \E i \in DOMAIN trades' : i > Len(trades) /\ ~trades'[i].paper
  BY <1>3
<1> QED
  BY <1>2, <1>4

(* The cards of the summary differ by trades persisted between the two     *)
(* queries and by nothing else, and the go-live gate, once open, stays     *)
(* open until a live fill, which closes it for good (queries.py).          *)
THEOREM AnswersAlwaysExplained == AllSpec => AnswersExplained
<1> DEFINE Explained ==
        summary.busy /\ ~summary'.busy =>
            LET k == Jour!KellyStats
                later == Len(trades) - summary.since
            IN  /\ k.wins + k.losses <= summary.fills + later
                /\ later = 0 => k.won - k.lost = summary.pnl
           Gate ==
        /\ Jour!Ready /\ ~Jour!Ready' => \E i \in DOMAIN trades' : i > Len(trades) /\ ~trades'[i].paper
        /\ (\E i \in Jour!Filled : ~trades[i].paper) => ~Jour!Ready'
<1>1. JourInv /\ [Jour!Next]_(Jour!vars) => [Explained]_(Jour!vars) /\ [Gate]_(Jour!vars)
  <2>1. JourInv => Explained
    BY SummaryStep
  <2>2. JourInv /\ [Jour!Next]_(Jour!vars) => Gate
    BY ReadyStep
  <2> HIDE DEF Explained, Gate
  <2> QED
    BY <2>1, <2>2
<1>2. AllSpec => [][Explained]_(Jour!vars) /\ [][Gate]_(Jour!vars)
  <2> HIDE DEF Explained, Gate
  <2> QED
    BY <1>1, JourInit, JourStep, JournalRuns, PTL DEF Jour!Spec
<1> QED
  BY <1>2 DEF AnswersExplained, Jour!AnswersExplained, Jour!SummaryExplained, Jour!ReadyUntilLive
=============================================================================
