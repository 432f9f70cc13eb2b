------------------------- MODULE ComputationsProofs -------------------------
(***************************************************************************)
(* Proofs about the computations: for any prices, windows, thresholds,     *)
(* records, limits of a venue, fills, markets and documents.               *)
(***************************************************************************)
EXTENDS MCComputations, FoldProofs, SequenceTheorems

-----------------------------------------------------------------------------
(* The composition: each computation runs in it as it does alone.          *)

LEMMA PartsRun == Spec => Scan!Spec /\ Size!Spec /\ Acc!Spec /\ Test!Spec /\ Text!Spec
<1>1. Init => Scan!Init /\ Size!Init /\ Acc!Init /\ Test!Init /\ Text!Init
  BY DEF Init
<1>2. [Next]_vars => [Scan!Next]_(Scan!vars)
  BY DEF Next, vars, scans, Scan!vars
<1>3. [Next]_vars => [Size!Next]_(Size!vars)
  BY DEF Next, vars, sizes, Size!vars
<1>4. [Next]_vars => [Acc!Next]_(Acc!vars)
  BY DEF Next, vars, accounts, Acc!vars
<1>5. [Next]_vars => [Test!Next]_(Test!vars)
  BY DEF Next, vars, research, Test!vars
<1>6. [Next]_vars => [Text!Next]_(Text!vars)
  BY DEF Next, vars, text, Text!vars
<1> QED
  BY <1>1, <1>2, <1>3, <1>4, <1>5, <1>6, PTL
     DEF Spec, Scan!Spec, Size!Spec, Acc!Spec, Test!Spec, Text!Spec

-----------------------------------------------------------------------------
(* Quotients.                                                              *)

LEMMA Quotient ==
    ASSUME NEW a \in Int, NEW d \in Nat \ {0}
    PROVE  /\ a \div d \in Int /\ a % d \in 0 .. d - 1
           /\ a = d * (a \div d) + (a % d)
           /\ d * (a \div d) <= a /\ a < d * (a \div d) + d
OBVIOUS

LEMMA QuotientNat ==
    ASSUME NEW a \in Nat, NEW d \in Nat \ {0}
    PROVE  a \div d \in Nat
OBVIOUS

LEMMA TimesLess ==
    ASSUME NEW a \in Int, NEW b \in Int, NEW d \in Nat \ {0}, d * a < d * b
    PROVE  a < b
OBVIOUS

LEMMA TimesMost ==
    ASSUME NEW a \in Int, NEW b \in Int, NEW d \in Nat, a <= b
    PROVE  d * a <= d * b /\ a * d <= b * d
OBVIOUS

\* A quotient is the largest number that times the divisor fits.
LEMMA QuotientLargest ==
    ASSUME NEW a \in Int, NEW d \in Nat \ {0}, NEW q \in Int, d * q <= a
    PROVE  q <= a \div d
<1>1. d * q < d * (a \div d + 1) /\ a \div d + 1 \in Int
  BY Quotient
<1>2. q < a \div d + 1
  BY <1>1, TimesLess
<1> QED
  BY <1>2, Quotient

LEMMA QuotientMonotone ==
    ASSUME NEW a \in Int, NEW b \in Int, NEW d \in Nat \ {0}, a <= b
    PROVE  a \div d <= b \div d
BY Quotient, QuotientLargest

-----------------------------------------------------------------------------
(* The accounts (Pnl).                                                     *)

AccInv ==
    /\ net \in Int /\ avg \in Int /\ openFees \in Int /\ realized \in Int /\ cash \in Int
    /\ paid \in Int /\ low \in Int /\ high \in Int /\ lost \in Int
    /\ Acc!AccountsAddUp

LEMMA AccInit == Acc!Init => AccInv
BY DEF Acc!Init, AccInv, Acc!AccountsAddUp, Acc!CashExplained, Acc!AverageOfItsFills

\* An average of quantities lies between the prices, also when rounded down.
LEMMA AverageBetween ==
    ASSUME NEW n \in Nat, NEW a \in Nat \ {0}, NEW p \in Int, NEW x \in Int, NEW y \in Int, NEW r \in Int,
           NEW lo \in Int, NEW hi \in Int, x * n + p * a = (n + a) * y + r, r >= 0, r < n + a,
           n # 0 => lo <= x /\ x <= hi, lo <= p, p <= hi
    PROVE  lo <= y /\ y <= hi
<1>1. lo * n <= x * n /\ x * n <= hi * n /\ lo * a <= p * a /\ p * a <= hi * a
  <2>1. CASE n = 0
    BY <2>1, TimesMost
  <2>2. CASE n # 0
    BY <2>2, TimesMost
  <2> QED
    BY <2>1, <2>2
<1>2. /\ (n + a) * lo = lo * n + lo * a /\ (n + a) * hi = hi * n + hi * a
      /\ (n + a) * (y + 1) = (n + a) * y + n + a /\ (n + a) * (hi + 1) = (n + a) * hi + n + a
  OBVIOUS
<1>3. /\ lo * n \in Int /\ x * n \in Int /\ hi * n \in Int /\ lo * a \in Int /\ p * a \in Int /\ hi * a \in Int
      /\ (n + a) * y \in Int /\ (n + a) * hi \in Int /\ (n + a) * lo \in Int
  OBVIOUS
<1>4. (n + a) * lo < (n + a) * (y + 1) /\ (n + a) * y < (n + a) * (hi + 1)
  BY <1>1, <1>2, <1>3
<1> DEFINE N == n + a
<1>5. N \in Nat \ {0} /\ N * lo < N * (y + 1) /\ N * y < N * (hi + 1)
  BY <1>4
<1> HIDE DEF N
<1>6. lo < y + 1 /\ y < hi + 1
  BY <1>5, TimesLess
<1> QED
  BY <1>6

\* What one more fill in the same direction makes of the position.
LEMMA AddEffect ==
    ASSUME AccInv, NEW side \in {"buy", "sell"}, NEW a \in Quantities, NEW p \in FillPrices, NEW f \in FillFees,
           Acc!Add(side, a, p, f)
    PROVE  \E d, n, r :
               /\ d \in {-1, 1} /\ n \in Nat /\ r \in Int /\ a \in Nat \ {0} /\ p \in Nat /\ f \in Nat
               /\ net = d * n /\ net' = d * (n + a) /\ (n = 0 <=> net = 0)
               /\ avg' \in Int /\ avg * n + p * a = (n + a) * avg' + r
               /\ r >= 0 /\ r < n + a
               /\ lost' = lost - d * r /\ openFees' = openFees + f /\ realized' = realized
               /\ cash' = cash - d * a * p - f /\ paid' = paid + f
               /\ low' = IF net = 0 THEN p ELSE Acc!Least(low, p)
               /\ high' = IF net = 0 THEN p ELSE -Acc!Least(-high, -p)
<1> DEFINE d == Acc!Direction(side)
           n == Acc!Abs(net)
           S == avg * n + p * a
           N == n + a
<1>1. d \in {-1, 1} /\ a \in Nat \ {0} /\ p \in Nat /\ f \in Nat
  BY ComputationsAssumption DEF Acc!Direction, Acc!Add
<1>2. n \in Nat /\ net = d * n /\ (n = 0 <=> net = 0)
  BY DEF Acc!Add, Acc!Direction, Acc!Sign, Acc!Abs, AccInv
<1>3. S \in Int /\ N \in Nat \ {0}
  <2> HIDE DEF n, d
  <2> QED
    BY <1>1, <1>2 DEF AccInv
<1>4. /\ avg' = S \div N /\ lost' = lost - d * (S % N) /\ net' = net + d * a
      /\ openFees' = openFees + f /\ realized' = realized
      /\ cash' = cash - d * a * p - f /\ paid' = paid + f
      /\ low' = IF net = 0 THEN p ELSE Acc!Least(low, p)
      /\ high' = IF net = 0 THEN p ELSE -Acc!Least(-high, -p)
  BY DEF Acc!Add, Acc!Pays
<1>5. S % N \in Int /\ S % N >= 0 /\ S % N < N /\ S = N * avg' + (S % N) /\ avg' \in Int
  <2>1. avg' = S \div N
    BY <1>4
  <2> HIDE DEF S, N
  <2> QED
    BY <1>3, <2>1, Quotient
<1>6. net' = d * (n + a)
  <2> HIDE DEF n, d
  <2> QED
    BY <1>1, <1>2, <1>4
<1> HIDE DEF d, n, S, N
<1>7. /\ d \in {-1, 1} /\ n \in Nat /\ S % N \in Int /\ a \in Nat \ {0} /\ p \in Nat /\ f \in Nat
      /\ net = d * n /\ net' = d * (n + a) /\ (n = 0 <=> net = 0)
      /\ avg' \in Int /\ S = N * avg' + (S % N)
      /\ S % N >= 0 /\ S % N < N
      /\ lost' = lost - d * (S % N) /\ openFees' = openFees + f /\ realized' = realized
      /\ cash' = cash - d * a * p - f /\ paid' = paid + f
      /\ low' = IF net = 0 THEN p ELSE Acc!Least(low, p)
      /\ high' = IF net = 0 THEN p ELSE -Acc!Least(-high, -p)
  BY <1>1, <1>2, <1>4, <1>5, <1>6
<1> DEFINE r == S % N
<1> HIDE DEF r
<1>8. /\ d \in {-1, 1} /\ n \in Nat /\ r \in Int /\ a \in Nat \ {0} /\ p \in Nat /\ f \in Nat
      /\ net = d * n /\ net' = d * (n + a) /\ (n = 0 <=> net = 0)
      /\ avg' \in Int /\ avg * n + p * a = (n + a) * avg' + r
      /\ r >= 0 /\ r < n + a
      /\ lost' = lost - d * r /\ openFees' = openFees + f /\ realized' = realized
      /\ cash' = cash - d * a * p - f /\ paid' = paid + f
      /\ low' = IF net = 0 THEN p ELSE Acc!Least(low, p)
      /\ high' = IF net = 0 THEN p ELSE -Acc!Least(-high, -p)
  BY <1>7, Zenon DEF r, S, N
<1> QED
  BY <1>8, Zenon

LEMMA AddStep ==
    ASSUME AccInv, NEW side \in {"buy", "sell"}, NEW a \in Quantities, NEW p \in FillPrices, NEW f \in FillFees,
           Acc!Add(side, a, p, f)
    PROVE  AccInv'
<1>1. PICK d, n, r :
      /\ d \in {-1, 1} /\ n \in Nat /\ r \in Int /\ a \in Nat \ {0} /\ p \in Nat /\ f \in Nat
      /\ net = d * n /\ net' = d * (n + a) /\ (n = 0 <=> net = 0)
      /\ avg' \in Int /\ avg * n + p * a = (n + a) * avg' + r
      /\ r >= 0 /\ r < n + a
      /\ lost' = lost - d * r /\ openFees' = openFees + f /\ realized' = realized
      /\ cash' = cash - d * a * p - f /\ paid' = paid + f
      /\ low' = IF net = 0 THEN p ELSE Acc!Least(low, p)
      /\ high' = IF net = 0 THEN p ELSE -Acc!Least(-high, -p)
  BY AddEffect
<1>2. /\ net \in Int /\ avg \in Int /\ openFees \in Int /\ realized \in Int /\ cash \in Int
      /\ paid \in Int /\ low \in Int /\ high \in Int /\ lost \in Int
      /\ cash = realized - net * avg - openFees + lost
      /\ low <= avg /\ avg <= high /\ 0 <= openFees /\ openFees <= paid
  BY DEF AccInv, Acc!AccountsAddUp, Acc!CashExplained, Acc!AverageOfItsFills
<1>3. p \in Int /\ low' \in Int /\ high' \in Int
  BY <1>1, <1>2 DEF Acc!Least
<1>4. d * a * p \in Int /\ d * r \in Int /\ net' \in Int
  BY <1>1
<1>5. cash' = realized' - net' * avg' - openFees' + lost'
  <2>1. (d * (n + a)) * avg' = (d * n) * avg + d * a * p - d * r
    <3> DEFINE A == avg * n
               B == p * a
               C == (n + a) * avg'
    <3>1. A \in Int /\ B \in Int /\ C \in Int /\ r \in Int
      BY <1>1, <1>2
    <3>2. A + B = C + r
      BY <1>1
    <3>3. C = A + B - r /\ -C = -A + (-B) - (-r)
      <4> HIDE DEF A, B, C
      <4> QED
        BY <3>1, <3>2
    <3>4. CASE d = 1
      <4>1. (d * (n + a)) * avg' = C /\ (d * n) * avg = A /\ d * a * p = B /\ d * r = r
        BY <1>1, <1>2, <3>4
      <4> HIDE DEF A, B, C
      <4> QED
        BY <3>3, <4>1, Zenon
    <3>5. CASE d = -1
      <4>1. (d * (n + a)) * avg' = -C /\ (d * n) * avg = -A /\ d * a * p = -B /\ d * r = -r
        BY <1>1, <1>2, <3>5
      <4> HIDE DEF A, B, C
      <4> QED
        BY <3>3, <4>1, Zenon
    <3> QED
      BY <1>1, <3>4, <3>5
  <2>2. net' * avg' = (d * (n + a)) * avg' /\ net * avg = (d * n) * avg
    BY <1>1, Zenon
  <2>3. net' * avg' \in Int /\ net * avg \in Int
    BY <1>1, <1>2, <1>4
  <2> DEFINE before == net * avg
             after  == net' * avg'
             moved  == d * a * p
             left   == d * r
  <2>4. after = before + moved - left
    BY <2>1, <2>2, Zenon
  <2>5. cash = realized - before - openFees + lost /\ cash' = cash - moved - f /\ lost' = lost - left
    BY <1>1, <1>2, Zenon
  <2>6. after \in Int /\ before \in Int /\ moved \in Int /\ left \in Int /\ f \in Int
    BY <1>1, <1>4, <2>3
  <2> SUFFICES cash' = realized' - after - openFees' + lost'
    OBVIOUS
  <2>7. openFees' = openFees + f /\ realized' = realized
    BY <1>1
  <2> HIDE DEF before, after, moved, left
  <2> QED
    BY <1>2, <2>4, <2>5, <2>6, <2>7
<1>6. low' <= avg' /\ avg' <= high'
  <2>1. low' <= p /\ p <= high' /\ (n # 0 => low' <= avg /\ avg <= high')
    BY <1>1, <1>2, <1>3 DEF Acc!Least
  <2>2. n \in Nat /\ a \in Nat \ {0} /\ p \in Int /\ avg \in Int /\ avg' \in Int /\ r \in Int
    BY <1>1, <1>2
  <2>3. avg * n + p * a = (n + a) * avg' + r /\ r >= 0 /\ r < n + a
    BY <1>1
  <2> QED
    BY ONLY <1>3, <2>1, <2>2, <2>3, AverageBetween, ZenonT(30)
<1>7. net' # 0
  <2>1. n + a \in Nat \ {0}
    BY <1>1
  <2> QED
    BY <1>1, <2>1
<1>8. /\ openFees' \in Int /\ realized' \in Int /\ cash' \in Int /\ paid' \in Int /\ lost' \in Int
      /\ 0 <= openFees' /\ openFees' <= paid'
  BY <1>1, <1>2, <1>4
<1> QED
  BY <1>1, <1>3, <1>4, <1>5, <1>6, <1>7, <1>8
     DEF AccInv, Acc!AccountsAddUp, Acc!CashExplained, Acc!AverageOfItsFills

\* A share of everything is everything, and no share is more than the whole.
LEMMA Share ==
    ASSUME NEW x \in Nat, NEW k \in Nat, NEW n \in Nat \ {0}, k <= n
    PROVE  /\ (x * k) \div n \in Int /\ 0 <= (x * k) \div n /\ (x * k) \div n <= x
           /\ k = n => (x * k) \div n = x
<1> DEFINE y == x * k
<1>1. y \in Nat /\ y <= n * x
  <2>1. x * k <= x * n /\ x * n = n * x /\ x * k \in Nat
    BY TimesMost
  <2> QED
    BY <2>1
<1>2. k = n => y = n * x
  OBVIOUS
<1> HIDE DEF y
<1>3. y \div n \in Int /\ n * (y \div n) <= y /\ y < n * (y \div n) + n
  BY <1>1, Quotient
<1>4. 0 <= y \div n
  <2>1. n * 0 <= y
    BY <1>1
  <2> QED
    BY <1>1, <2>1, QuotientLargest
<1>5. y \div n < x + 1
  <2>1. n * (x + 1) = n * x + n /\ n * x \in Int /\ n * (y \div n) \in Int
    BY <1>3
  <2>2. n * (y \div n) < n * (x + 1)
    BY <1>1, <1>3, <2>1
  <2> QED
    BY <1>3, <2>2, TimesLess
<1>6. k = n => x <= y \div n
  BY <1>1, <1>2, QuotientLargest
<1> QED
  BY <1>3, <1>4, <1>5, <1>6 DEF y

(* A fill of a at p with fee f against a position of n in the direction -d: *)
(* it pays CF of its own fee and EF of the fees the position carries, and   *)
(* turns the position, closes it or makes it smaller.                       *)
Opposed(a, p, f, d, n, CF, EF) ==
    /\ d \in {-1, 1} /\ n \in Nat \ {0} /\ a \in Nat \ {0} /\ p \in Nat /\ f \in Nat
    /\ CF \in Int /\ 0 <= CF /\ CF <= f /\ EF \in Int /\ 0 <= EF /\ EF <= openFees
    /\ net = -(d * n) /\ net' = d * (a - n)
    /\ cash' = cash - d * a * p - f /\ paid' = paid + f /\ lost' = lost
    /\ \/ /\ a > n /\ EF = openFees
          /\ realized' = realized - d * (p - avg) * n - CF - EF
          /\ avg' = p /\ openFees' = f - CF /\ low' = p /\ high' = p
       \/ /\ a = n /\ EF = openFees /\ CF = f
          /\ realized' = realized - d * (p - avg) * n - CF - EF
          /\ avg' = 0 /\ openFees' = 0 /\ low' = 0 /\ high' = 0
       \/ /\ a < n /\ CF = f
          /\ realized' = realized - d * (p - avg) * a - CF - EF
          /\ openFees' = openFees - EF /\ UNCHANGED <<avg, low, high>>

LEMMA OpposeEffect ==
    ASSUME AccInv, NEW side \in {"buy", "sell"}, NEW a \in Quantities, NEW p \in FillPrices, NEW f \in FillFees,
           Acc!Oppose(side, a, p, f)
    PROVE  \E d, n, CF, EF : Opposed(a, p, f, d, n, CF, EF)
<1> DEFINE d == Acc!Direction(side)
           n == Acc!Abs(net)
           c == Acc!Least(a, n)
           CF == (f * c) \div a
           EF == (openFees * c) \div n
<1>1. d \in {-1, 1} /\ a \in Nat \ {0} /\ p \in Nat /\ f \in Nat /\ openFees \in Nat
  BY ComputationsAssumption DEF Acc!Direction, Acc!Oppose, AccInv, Acc!AccountsAddUp, Acc!AverageOfItsFills
<1>2. n \in Nat \ {0} /\ Acc!Sign(net) = -d /\ net = -(d * n)
  BY DEF Acc!Oppose, Acc!Direction, Acc!Sign, Acc!Abs, AccInv
<1>3. c \in Nat /\ c <= a /\ c <= n /\ (a > n => c = n) /\ (a = n => c = n /\ c = a) /\ (a < n => c = a)
  <2> HIDE DEF n
  <2> QED
    BY <1>1, <1>2 DEF Acc!Least
<1>4. CF \in Int /\ 0 <= CF /\ CF <= f /\ (c = a => CF = f)
  <2> HIDE DEF c
  <2> QED
    BY <1>1, <1>3, Share
<1>5. EF \in Int /\ 0 <= EF /\ EF <= openFees /\ (c = n => EF = openFees)
  <2> HIDE DEF c, n
  <2> QED
    BY <1>1, <1>2, <1>3, Share
<1>6. /\ cash' = cash - d * a * p - f /\ paid' = paid + f /\ lost' = lost
      /\ realized' = realized + Acc!Sign(net) * (p - avg) * c - CF - EF
      /\ net' = net + d * a
      /\ Acc!Remainder(a, p, f - CF, EF)
  BY DEF Acc!Oppose, Acc!Pays, Acc!CloseFee
<1>7. /\ a > n => avg' = p /\ openFees' = f - CF /\ low' = p /\ high' = p
      /\ a = n => avg' = 0 /\ openFees' = 0 /\ low' = 0 /\ high' = 0
      /\ a < n => openFees' = openFees - EF /\ avg' = avg /\ low' = low /\ high' = high
  <2>1. \/ a > n /\ avg' = p /\ openFees' = f - CF /\ low' = p /\ high' = p
        \/ a = n /\ avg' = 0 /\ openFees' = 0 /\ low' = 0 /\ high' = 0
        \/ a < n /\ openFees' = openFees - EF /\ avg' = avg /\ low' = low /\ high' = high
    <3> HIDE DEF CF, EF, c
    <3>1. n \in Nat
      BY <1>2
    <3>2. CASE a > n
      BY <1>1, <1>6, <3>1, <3>2 DEF Acc!Remainder
    <3>3. CASE a = n
      BY <1>1, <1>6, <3>1, <3>3 DEF Acc!Remainder
    <3>4. CASE a < n
      BY <1>1, <1>6, <3>1, <3>4 DEF Acc!Remainder
    <3> HIDE DEF n
    <3> QED
      BY <1>1, <3>1, <3>2, <3>3, <3>4
  <2> HIDE DEF CF, EF, c, n
  <2> QED
    BY <1>1, <1>2, <2>1
<1> HIDE DEF CF, EF, c, n, d
<1>8. net' = d * (a - n)
  BY <1>1, <1>2, <1>6
<1>9. realized' = realized - d * (p - avg) * c - CF - EF
  BY <1>1, <1>2, <1>3, <1>4, <1>5, <1>6 DEF AccInv
<1>10. a > n \/ a = n \/ a < n
  BY <1>1, <1>2
<1>11. \/ /\ a > n /\ EF = openFees
          /\ realized' = realized - d * (p - avg) * n - CF - EF
          /\ avg' = p /\ openFees' = f - CF /\ low' = p /\ high' = p
       \/ /\ a = n /\ EF = openFees /\ CF = f
          /\ realized' = realized - d * (p - avg) * n - CF - EF
          /\ avg' = 0 /\ openFees' = 0 /\ low' = 0 /\ high' = 0
       \/ /\ a < n /\ CF = f
          /\ realized' = realized - d * (p - avg) * a - CF - EF
          /\ openFees' = openFees - EF /\ avg' = avg /\ low' = low /\ high' = high
  BY <1>3, <1>4, <1>5, <1>7, <1>9, <1>10
<1>12. Opposed(a, p, f, d, n, CF, EF)
  BY <1>1, <1>2, <1>4, <1>5, <1>6, <1>8, <1>11 DEF Opposed
<1> QED
  BY <1>12, Zenon

LEMMA OpposeStep ==
    ASSUME AccInv, NEW side \in {"buy", "sell"}, NEW a \in Quantities, NEW p \in FillPrices, NEW f \in FillFees,
           Acc!Oppose(side, a, p, f)
    PROVE  AccInv'
<1>0. PICK d, n, CF, EF : Opposed(a, p, f, d, n, CF, EF)
  BY OpposeEffect
<1>1. /\ d \in {-1, 1} /\ n \in Nat \ {0} /\ a \in Nat \ {0} /\ p \in Nat /\ f \in Nat
      /\ CF \in Int /\ 0 <= CF /\ CF <= f /\ EF \in Int /\ 0 <= EF /\ EF <= openFees
      /\ net = -(d * n) /\ net' = d * (a - n)
      /\ cash' = cash - d * a * p - f /\ paid' = paid + f /\ lost' = lost
      /\ \/ /\ a > n /\ EF = openFees
            /\ realized' = realized - d * (p - avg) * n - CF - EF
            /\ avg' = p /\ openFees' = f - CF /\ low' = p /\ high' = p
         \/ /\ a = n /\ EF = openFees /\ CF = f
            /\ realized' = realized - d * (p - avg) * n - CF - EF
            /\ avg' = 0 /\ openFees' = 0 /\ low' = 0 /\ high' = 0
         \/ /\ a < n /\ CF = f
            /\ realized' = realized - d * (p - avg) * a - CF - EF
            /\ openFees' = openFees - EF /\ UNCHANGED <<avg, low, high>>
  BY <1>0 DEF Opposed
<1>2. /\ net \in Int /\ avg \in Int /\ openFees \in Int /\ realized \in Int /\ cash \in Int
      /\ paid \in Int /\ low \in Int /\ high \in Int /\ lost \in Int
      /\ cash = realized - net * avg - openFees + lost
      /\ low <= avg /\ avg <= high /\ 0 <= openFees /\ openFees <= paid
  BY DEF AccInv, Acc!AccountsAddUp, Acc!CashExplained, Acc!AverageOfItsFills
<1>3. d * n * avg \in Int /\ d * n * p \in Int /\ d * a * p \in Int /\ d * a * avg \in Int
  BY <1>1, <1>2
<1>4. net * avg = -(d * n * avg)
  <2>1. CASE d = 1
    BY <1>1, <1>2, <2>1
  <2>2. CASE d = -1
    BY <1>1, <1>2, <2>2
  <2> QED
    BY <1>1, <2>1, <2>2
<1>5. /\ d * (p - avg) * n = d * n * p - d * n * avg
      /\ d * (p - avg) * a = d * a * p - d * a * avg
      /\ d * (a - n) * p = d * a * p - d * n * p
      /\ d * (a - n) * avg = d * a * avg - d * n * avg
  <2>1. CASE d = 1
    BY <1>1, <1>2, <2>1
  <2>2. CASE d = -1
    BY <1>1, <1>2, <2>2
  <2> QED
    BY <1>1, <2>1, <2>2
<1> DEFINE dnA == d * n * avg
           dnp == d * n * p
           dap == d * a * p
           daA == d * a * avg
<1>6. /\ dnA \in Int /\ dnp \in Int /\ dap \in Int /\ daA \in Int
      /\ cash = realized + dnA - openFees + lost /\ cash' = cash - dap - f
      /\ d * (p - avg) * n = dnp - dnA /\ d * (p - avg) * a = dap - daA
      /\ d * (a - n) * p = dap - dnp /\ d * (a - n) * avg = daA - dnA
  <2>1. cash = realized - (-dnA) - openFees + lost
    BY <1>2, <1>4
  <2>2. dnA \in Int /\ dnp \in Int /\ dap \in Int /\ daA \in Int
    BY <1>3
  <2>3. cash' = cash - dap - f
    BY <1>1
  <2>4. d * (p - avg) * n = dnp - dnA /\ d * (p - avg) * a = dap - daA
        /\ d * (a - n) * p = dap - dnp /\ d * (a - n) * avg = daA - dnA
    BY <1>5
  <2> HIDE DEF dnA, dnp, dap, daA
  <2> QED
    BY <1>2, <2>1, <2>2, <2>3, <2>4
<1>7. net' \in Int /\ f \in Int /\ p \in Int
  BY <1>1
<1> HIDE DEF dnA, dnp, dap, daA
<1>8. CASE /\ a > n /\ EF = openFees
           /\ realized' = realized - d * (p - avg) * n - CF - EF
           /\ avg' = p /\ openFees' = f - CF /\ low' = p /\ high' = p
  <2>1. net' * avg' = dap - dnp /\ realized' = realized - (dnp - dnA) - CF - openFees
    <3>1. net' * avg' = d * (a - n) * p
      BY <1>1, <1>8
    <3> QED
      BY <1>6, <1>8, <3>1, Zenon
  <2>2. cash' = realized' - net' * avg' - openFees' + lost'
    <3>1. CF \in Int /\ openFees' = f - CF /\ lost' = lost
      BY <1>1, <1>8
    <3>2. cash' = realized' - (dap - dnp) - openFees' + lost'
      BY <1>2, <1>6, <1>7, <2>1, <3>1
    <3> QED
      BY <2>1, <3>2, Zenon
  <2>3. net' # 0
    <3>1. a - n \in Nat \ {0}
      BY <1>1, <1>8
    <3> QED
      BY <1>1, <3>1
  <2>4. /\ avg' \in Int /\ openFees' \in Int /\ realized' \in Int /\ cash' \in Int /\ paid' \in Int /\ lost' \in Int
        /\ low' \in Int /\ high' \in Int /\ low' <= avg' /\ avg' <= high' /\ 0 <= openFees' /\ openFees' <= paid'
    BY <1>1, <1>2, <1>6, <1>7, <1>8, <2>1
  <2> QED
    BY <1>7, <2>2, <2>3, <2>4 DEF AccInv, Acc!AccountsAddUp, Acc!CashExplained, Acc!AverageOfItsFills
<1>9. CASE /\ a = n /\ EF = openFees /\ CF = f
           /\ realized' = realized - d * (p - avg) * n - CF - EF
           /\ avg' = 0 /\ openFees' = 0 /\ low' = 0 /\ high' = 0
  <2>1. net' = 0 /\ dap = dnp /\ realized' = realized - (dnp - dnA) - f - openFees
    <3>1. net' = 0
      BY <1>1, <1>9
    <3>2. dap = dnp
      BY <1>9 DEF dap, dnp
    <3> QED
      BY <1>6, <1>9, <3>1, <3>2, Zenon
  <2>2. cash' = realized' + lost' /\ realized' \in Int /\ cash' \in Int /\ lost' \in Int
    BY <1>1, <1>2, <1>6, <1>7, <2>1
  <2>3. cash' = realized' - net' * avg' - openFees' + lost'
    BY <1>9, <2>1, <2>2
  <2>4. paid' \in Int /\ 0 <= paid'
    BY <1>1, <1>2
  <2> QED
    BY <1>9, <2>1, <2>2, <2>3, <2>4 DEF AccInv, Acc!AccountsAddUp, Acc!CashExplained, Acc!AverageOfItsFills
<1>10. CASE /\ a < n /\ CF = f
            /\ realized' = realized - d * (p - avg) * a - CF - EF
            /\ openFees' = openFees - EF /\ avg' = avg /\ low' = low /\ high' = high
  <2>1. net' * avg' = daA - dnA /\ realized' = realized - (dap - daA) - f - EF
    <3>1. net' * avg' = d * (a - n) * avg
      BY <1>1, <1>10
    <3> QED
      BY <1>6, <1>10, <3>1, Zenon
  <2>2. cash' = realized' - net' * avg' - openFees' + lost'
    <3>1. EF \in Int /\ openFees' = openFees - EF /\ lost' = lost
      BY <1>1, <1>10
    <3>2. cash' = realized' - (daA - dnA) - openFees' + lost'
      BY <1>2, <1>6, <1>7, <2>1, <3>1
    <3> QED
      BY <2>1, <3>2, Zenon
  <2>3. net' # 0
    <3>1. n - a \in Nat \ {0} /\ a - n = -(n - a)
      BY <1>1, <1>10
    <3> QED
      BY <1>1, <3>1
  <2>4. /\ avg' \in Int /\ openFees' \in Int /\ realized' \in Int /\ cash' \in Int /\ paid' \in Int /\ lost' \in Int
        /\ low' \in Int /\ high' \in Int /\ low' <= avg' /\ avg' <= high' /\ 0 <= openFees' /\ openFees' <= paid'
    BY <1>1, <1>2, <1>6, <1>7, <1>10, <2>1
  <2> QED
    BY <1>7, <2>2, <2>3, <2>4 DEF AccInv, Acc!AccountsAddUp, Acc!CashExplained, Acc!AverageOfItsFills
<1> QED
  BY <1>1, <1>8, <1>9, <1>10

LEMMA AccountsStep == AccInv /\ [Acc!Next]_(Acc!vars) => AccInv'
<1> SUFFICES ASSUME AccInv, [Acc!Next]_(Acc!vars) PROVE AccInv'
  OBVIOUS
<1>1. CASE UNCHANGED Acc!vars
  BY <1>1 DEF Acc!vars, AccInv, Acc!AccountsAddUp, Acc!CashExplained, Acc!AverageOfItsFills
<1>2. CASE Acc!Next
  <2>1. PICK side \in {"buy", "sell"}, a \in Quantities, p \in FillPrices, f \in FillFees :
           Acc!Ignore(a, p) \/ Acc!Add(side, a, p, f) \/ Acc!Oppose(side, a, p, f)
    BY <1>2 DEF Acc!Next
  <2>2. CASE Acc!Ignore(a, p)
    BY <1>1, <2>2 DEF Acc!Ignore
  <2> QED
    BY <2>1, <2>2, AddStep, OpposeStep
<1> QED
  BY <1>1, <1>2

(* What the accounts say adds up for any quantities, prices and fees and   *)
(* any sequence of fills: cash and fees paid explain what was realised,    *)
(* the cost of the open position and its fees, to the unit, through        *)
(* flips, partial closes and any rounding of the average (apply_fill).     *)
THEOREM AccountsAlwaysAddUp == Spec => []AccountsAddUp
<1>1. AccInv => AccountsAddUp
  BY DEF AccInv, AccountsAddUp
<1> QED
  BY <1>1, PartsRun, AccInit, AccountsStep, PTL DEF Acc!Spec

-----------------------------------------------------------------------------
(* The sizes (Sizing).                                                     *)

\* The legs the multipliers allow for the notional.
LegsMeant == {Size!Fill((notional * m) \div 100) : m \in VolMin .. VolMax}

SizeInv ==
    /\ settings \in [kelly : BOOLEAN, vol : BOOLEAN, equity : Equities, paper : BOOLEAN]
    /\ record \in [rate : WinRates, win : Amounts, loss : Amounts]
    /\ price \in SizedPrices
    /\ fraction \in Int
    /\ notional = Size!Unset \/ (notional \in Nat /\ notional <= Size!Budget)
    /\ legs # <<>> => notional # Size!Unset
    /\ legs \in Seq(LegsMeant)

LEMMA SizeInit == Size!Init => SizeInv
BY DEF Size!Init, Size!Unset, SizeInv

\* The budget is a number, and so is every fraction of Kelly.
LEMMA BudgetNat ==
    ASSUME settings \in [kelly : BOOLEAN, vol : BOOLEAN, equity : Equities, paper : BOOLEAN]
    PROVE  /\ (settings.equity * MaxPct) \div 100 \in Nat /\ Size!Budget \in Nat
           /\ Fixed <= Size!Budget /\ (settings.equity * MaxPct) \div 100 <= Size!Budget
<1> DEFINE e == settings.equity * MaxPct
<1>1. e \in Nat /\ Fixed \in Nat
  BY ComputationsAssumption
<1>2. Size!Budget = Size!Most(Fixed, e \div 100)
  BY DEF Size!Budget
<1> HIDE DEF e
<1>3. e \div 100 \in Nat
  BY <1>1, QuotientNat
<1>4. Size!Budget \in Nat /\ Fixed <= Size!Budget /\ e \div 100 <= Size!Budget
  BY <1>1, <1>2, <1>3 DEF Size!Most
<1> QED
  BY <1>3, <1>4 DEF e

LEMMA FractionInt ==
    ASSUME record \in [rate : WinRates, win : Amounts, loss : Amounts], Size!Known
    PROVE  Size!Fraction \in Int
<1>1. record.rate \in Int /\ record.win \in Int /\ record.loss \in Int
  BY ComputationsAssumption DEF Size!Known
<1> DEFINE e == 50 * (record.rate * record.win - (100 - record.rate) * record.loss)
<1>2. e \in Int /\ Size!HalfKelly = e \div record.win
  BY <1>1 DEF Size!HalfKelly
<1> HIDE DEF e
<1>3. record.win > 0 => Size!HalfKelly \in Int
  BY <1>1, <1>2, Quotient
<1> QED
  BY <1>1, <1>3 DEF Size!Fraction, Size!Least, Size!Most, Size!KellyMin, Size!KellyMax

\* The position of Kelly is no more than the configured share of the equity.
LEMMA KellyPositionCapped ==
    ASSUME settings \in [kelly : BOOLEAN, vol : BOOLEAN, equity : Equities, paper : BOOLEAN],
           fraction \in Int, Size!KellyPosition(fraction) > 0
    PROVE  Size!KellyPosition(fraction) \in Nat /\ Size!KellyPosition(fraction) <= Size!Budget
<1> DEFINE x == ((settings.equity \div 100) * fraction) \div 100
           cap == (settings.equity * MaxPct) \div 100
<1>1. x \in Int
  <2>1. settings.equity \in Nat
    BY ComputationsAssumption
  <2>2. settings.equity \div 100 \in Int
    BY <2>1, Quotient
  <2>3. (settings.equity \div 100) * fraction \in Int
    BY <2>2
  <2> QED
    BY <2>3, Quotient
<1>2. cap \in Nat /\ cap <= Size!Budget /\ Size!Budget \in Nat
  BY BudgetNat
<1>3. Size!KellyPosition(fraction) = IF Size!Least(x, cap) >= 1000 THEN Size!Least(x, cap) ELSE 0
  BY DEF Size!KellyPosition
<1> HIDE DEF x, cap
<1> QED
  BY <1>1, <1>2, <1>3 DEF Size!Least

LEMMA SizeStep == SizeInv /\ [Size!Next]_(Size!vars) => SizeInv'
<1> SUFFICES ASSUME SizeInv, [Size!Next]_(Size!vars) PROVE SizeInv'
  OBVIOUS
<1>1. CASE UNCHANGED Size!vars
  <2>1. UNCHANGED <<settings, record, venue, price, fraction, notional, legs>>
    BY <1>1 DEF Size!vars
  <2>2. Size!Budget' = Size!Budget /\ LegsMeant' = LegsMeant
    BY <2>1 DEF Size!Budget, Size!Most, LegsMeant, Size!Fill, Size!Quantity, Size!Lots, Size!Round, Size!Least, Size!Unset
  <2> QED
    BY <2>1, <2>2 DEF SizeInv, Size!Unset
<1>2. CASE Size!KellyFraction
  <2>1. UNCHANGED <<settings, record, venue, price, notional, legs>>
    BY <1>2 DEF Size!KellyFraction
  <2>2. Size!Budget' = Size!Budget /\ LegsMeant' = LegsMeant
    BY <2>1 DEF Size!Budget, Size!Most, LegsMeant, Size!Fill, Size!Quantity, Size!Lots, Size!Round, Size!Least, Size!Unset
  <2>3. fraction' \in Int
    BY <1>2, FractionInt DEF Size!KellyFraction, Size!Fallback, SizeInv
  <2> QED
    BY <2>1, <2>2, <2>3 DEF SizeInv, Size!Unset
<1>3. CASE Size!PositionUsd
  <2>1. UNCHANGED <<settings, record, venue, price, fraction, legs>> /\ notional = Size!Unset
    BY <1>3 DEF Size!PositionUsd
  <2>2. Size!Budget' = Size!Budget
    BY <2>1 DEF Size!Budget, Size!Most
  <2>3. legs = <<>>
    BY <2>1 DEF SizeInv
  <2>4. notional' \in Nat /\ notional' <= Size!Budget
    <3>1. Fixed \in Nat /\ Fixed <= Size!Budget
      BY ComputationsAssumption, BudgetNat DEF SizeInv
    <3>2. CASE notional' = Fixed
      BY <3>1, <3>2
    <3>3. CASE Size!KellyPosition(fraction) > 0 /\ notional' = Size!KellyPosition(fraction)
      BY <3>3, KellyPositionCapped DEF SizeInv
    <3> QED
      BY <1>3, <3>2, <3>3 DEF Size!PositionUsd
  <2> QED
    BY <2>1, <2>2, <2>3, <2>4 DEF SizeInv
<1>4. CASE Size!Leg
  <2>1. UNCHANGED <<settings, record, venue, price, fraction, notional>> /\ notional # Size!Unset
    BY <1>4 DEF Size!Leg
  <2>2. Size!Budget' = Size!Budget /\ LegsMeant' = LegsMeant
    BY <2>1 DEF Size!Budget, Size!Most, LegsMeant, Size!Fill, Size!Quantity, Size!Lots, Size!Round, Size!Least, Size!Unset
  <2>3. PICK m \in VolMin .. VolMax : legs' = Append(legs, Size!Fill((notional * m) \div 100))
    <3>1. (IF settings.vol THEN Multipliers ELSE {100}) \subseteq VolMin .. VolMax
      BY ComputationsAssumption
    <3> QED
      BY <1>4, <3>1, Zenon DEF Size!Leg
  <2>4. Size!Fill((notional * m) \div 100) \in LegsMeant
    BY DEF LegsMeant
  <2>5. legs' \in Seq(LegsMeant)
    BY <2>3, <2>4 DEF SizeInv
  <2> QED
    BY <2>1, <2>2, <2>5 DEF SizeInv, Size!Unset
<1> QED
  BY <1>1, <1>2, <1>3, <1>4 DEF Size!Next

-----------------------------------------------------------------------------
(* What a leg is worth.                                                    *)

\* A rounded quotient is the quotient and at most a half.
LEMMA Rounded ==
    ASSUME NEW x \in Nat, NEW y \in Nat \ {0}
    PROVE  Size!Round(x, y) \in Nat /\ 2 * (y * Size!Round(x, y)) <= 2 * x + y
<1> DEFINE a == 2 * x + y
           d == 2 * y
<1>1. a \in Nat /\ d \in Nat \ {0} /\ Size!Round(x, y) = a \div d
  BY DEF Size!Round
<1>2. a \div d \in Nat /\ d * (a \div d) <= a
  <2> HIDE DEF a, d
  <2>1. a \in Nat /\ a \in Int /\ d \in Nat \ {0}
    BY <1>1
  <2>2. a \div d \in Nat
    BY ONLY <2>1, QuotientNat
  <2>3. d * (a \div d) <= a
    BY ONLY <2>1, Quotient
  <2> QED
    BY <2>2, <2>3
<1> DEFINE q == a \div d
<1>3. q \in Nat /\ d * q <= a /\ Size!Round(x, y) = q
  BY <1>1, <1>2
<1> HIDE DEF q
<1>4. d * q = 2 * (y * q)
  BY <1>3
<1> QED
  BY <1>3, <1>4 DEF a

\* Whole units: at least one, else what was meant and half a unit.
LEMMA WholeUnits ==
    ASSUME NEW usd \in Nat, NEW p \in Nat \ {0}
    PROVE  ((Precision * Size!Most(1, Size!Round(usd, p))) * p) \div Precision <= usd + p
<1> DEFINE R == Size!Round(usd, p)
           M == Size!Most(1, R)
<1>1. R \in Nat /\ 2 * (p * R) <= 2 * usd + p
  BY Rounded
<1> HIDE DEF R
<1>2. M \in Nat /\ (M = 1 \/ M = R)
  BY <1>1 DEF Size!Most
<1> HIDE DEF M
<1>3. p * M \in Nat /\ p * M <= usd + p
  <2>1. CASE M = 1
    BY <2>1
  <2>2. CASE M = R
    <3> DEFINE t == p * R
    <3>1. t \in Nat /\ 2 * t <= 2 * usd + p
      BY <1>1
    <3>2. t <= usd + p
      <4> HIDE DEF t
      <4> QED
        BY <3>1
    <3> QED
      BY <2>2, <3>1, <3>2
  <2> QED
    BY <1>2, <2>1, <2>2
<1> DEFINE t == p * M
<1>4. t \in Nat /\ t <= usd + p /\ (Precision * M) * p = Precision * t
  <2>1. Precision \in Nat
    BY ComputationsAssumption
  <2> QED
    BY <1>2, <1>3, <2>1
<1> HIDE DEF t
<1>5. (Precision * t) \div Precision <= t
  <2> DEFINE a == Precision * t
  <2>1. Precision \in Nat \ {0} /\ a \in Int
    BY <1>4, ComputationsAssumption
  <2>2. a = Precision * t
    OBVIOUS
  <2> HIDE DEF a
  <2>3. a \div Precision \in Int /\ Precision * (a \div Precision) <= Precision * t
    BY <2>1, <2>2, Quotient
  <2> DEFINE q == a \div Precision
  <2> HIDE DEF q
  <2>4. q \in Int /\ Precision * q <= Precision * t
    BY <2>3 DEF q
  <2>5. q <= t
    BY <1>4, <2>1, <2>4
  <2> QED
    BY <2>5 DEF q, a
<1>6. (Precision * t) \div Precision \in Int
  <2> DEFINE a == Precision * t
  <2>1. Precision \in Nat \ {0} /\ a \in Int
    BY <1>4, ComputationsAssumption
  <2> HIDE DEF a
  <2>2. a \div Precision \in Int
    BY ONLY <2>1, Quotient
  <2> QED
    BY <2>2 DEF a
<1> QED
  BY <1>4, <1>5, <1>6 DEF M, R

\* Fractions of a unit: what was meant and half the smallest fraction.
LEMMA Fractions ==
    ASSUME NEW usd \in Nat, NEW p \in Nat \ {0}
    PROVE  (Size!Round(usd * Precision, p) * p) \div Precision <= usd + p \div (2 * Precision)
<1> DEFINE R == Size!Round(usd * Precision, p)
           b == R * p
<1>1. R \in Nat /\ 2 * (p * R) <= 2 * (usd * Precision) + p
  <2>1. usd * Precision \in Nat
    BY ComputationsAssumption
  <2> QED
    BY <2>1, Rounded
<1> HIDE DEF R
<1>2. b \in Nat /\ 2 * b <= 2 * (usd * Precision) + p
  BY <1>1
<1> HIDE DEF b
<1> DEFINE w == b \div Precision
<1>3. w \in Int /\ Precision * w <= b
  <2>1. b \in Int /\ Precision \in Nat \ {0}
    BY <1>2, ComputationsAssumption
  <2> QED
    BY ONLY <2>1, Quotient
<1> HIDE DEF w
<1> DEFINE d == 2 * Precision
           c == usd * Precision
           v == Precision * w
<1>4. d \in Nat \ {0} /\ c \in Nat /\ v \in Int /\ d * (w - usd) = 2 * v - 2 * c /\ v <= b /\ 2 * b <= 2 * c + p
  BY <1>2, <1>3, ComputationsAssumption
<1> HIDE DEF d, c, v
<1>5. d * (w - usd) <= p /\ w - usd \in Int
  BY <1>2, <1>3, <1>4
<1>6. w - usd <= p \div d /\ p \div d \in Int
  <2>1. p \in Int
    OBVIOUS
  <2>2. p \div d \in Int
    BY ONLY <1>4, <2>1, Quotient
  <2>3. w - usd <= p \div d
    BY ONLY <1>4, <1>5, <2>1, QuotientLargest
  <2> QED
    BY <2>2, <2>3
<1>7. w <= usd + p \div d
  BY <1>3, <1>6
<1> QED
  BY <1>7 DEF R, b, d, w

\* Lots: the smallest order, or what was meant and half a step.
LEMMA WholeLots ==
    ASSUME NEW usd \in Nat, NEW p \in Nat \ {0}
    PROVE  (Size!Most(MinLot, Size!Least(MaxLot, Size!Round(usd * LotsPerUnit, p * Contract))) * Contract * p) \div LotsPerUnit
              <= usd + ((MinLot * Contract * p) \div LotsPerUnit + (Contract * p) \div (2 * LotsPerUnit))
<1> DEFINE k == p * Contract
           x == usd * LotsPerUnit
<1>1. k \in Nat \ {0} /\ x \in Nat
  BY ComputationsAssumption
<1> HIDE DEF k, x
<1> DEFINE R == Size!Round(x, k)
           L == Size!Most(MinLot, Size!Least(MaxLot, R))
<1>2. R \in Nat /\ 2 * (k * R) <= 2 * x + k
  BY <1>1, Rounded
<1> HIDE DEF R
<1>3. L \in Nat /\ (L <= MinLot \/ L <= R)
  BY <1>2, ComputationsAssumption DEF Size!Most, Size!Least
<1> HIDE DEF L
<1> DEFINE u == LotsPerUnit
           h == (Contract * p) \div (2 * u)
           g == (MinLot * Contract * p) \div u
           w == (L * Contract * p) \div u
<1>4. u \in Nat \ {0} /\ MinLot \in Nat
  BY ComputationsAssumption
<1>5. Contract * p = k /\ MinLot * Contract * p = k * MinLot /\ L * Contract * p = k * L
  BY <1>3, <1>4, ComputationsAssumption DEF k
<1>6. h = k \div (2 * u) /\ g = (k * MinLot) \div u /\ w = (k * L) \div u
  BY <1>5
<1> HIDE DEF h, g, w
<1>7. h \in Nat
  <2>1. k \in Nat /\ 2 * u \in Nat \ {0}
    BY <1>1, <1>4
  <2> DEFINE d == 2 * u
  <2>2. d \in Nat \ {0} /\ h = k \div d
    BY <1>6, <2>1
  <2> HIDE DEF d
  <2> QED
    BY <2>1, <2>2, QuotientNat
<1> DEFINE kM == k * MinLot
           kL == k * L
           kR == k * R
<1>8. kM \in Nat /\ kL \in Nat /\ kR \in Nat
  BY <1>1, <1>2, <1>3, <1>4
<1>9. (L <= MinLot /\ kL <= kM) \/ (L <= R /\ kL <= kR)
  BY <1>1, <1>2, <1>3, <1>4, TimesMost
<1>10. g = kM \div u /\ w = kL \div u /\ 2 * kR <= 2 * x + k
  BY <1>2, <1>6
<1> HIDE DEF kM, kL, kR, u
<1>11. g \in Nat /\ w \in Nat /\ u * w <= kL
  <2>1. g \in Nat /\ w \in Nat
    BY <1>4, <1>8, <1>10, QuotientNat
  <2>2. kL \in Int
    BY <1>8
  <2>3. u * (kL \div u) <= kL
    BY ONLY <1>4, <2>2, Quotient
  <2> QED
    BY <1>10, <2>1, <2>3
<1>12. ASSUME kL <= kM PROVE w <= usd + (g + h)
  <2>1. w <= g
    BY <1>4, <1>8, <1>10, <1>12, QuotientMonotone
  <2>2. usd \in Nat
    OBVIOUS
  <2> QED
    BY ONLY <1>7, <1>11, <2>1, <2>2
<1>13. ASSUME kL <= kR PROVE w <= usd + (g + h)
  <2> DEFINE d == 2 * u
             v == u * w
  <2>1. d \in Nat \ {0} /\ v \in Nat /\ d * (w - usd) = 2 * v - 2 * x /\ v <= kL /\ h = k \div d
    BY <1>4, <1>6, <1>11 DEF x, u
  <2> HIDE DEF d, v
  <2>2. d * (w - usd) <= k /\ w - usd \in Int
    BY <1>1, <1>8, <1>10, <1>11, <1>13, <2>1
  <2>3. w - usd <= h
    <3>1. k \in Int
      BY <1>1
    <3>2. w - usd <= k \div d
      BY ONLY <2>1, <2>2, <3>1, QuotientLargest
    <3> QED
      BY <2>1, <3>2
  <2>4. usd \in Nat
    OBVIOUS
  <2> QED
    BY ONLY <1>7, <1>11, <2>3, <2>4
<1>14. w <= usd + (g + h)
  BY <1>9, <1>12, <1>13
<1> QED
  BY <1>14 DEF w, g, h, L, R, k, x, u

\* The dollars of a leg: a share of the notional within the multiplier's bounds.
LEMMA Dollars ==
    ASSUME NEW n \in Nat, NEW b \in Nat, n <= b, NEW m \in VolMin .. VolMax
    PROVE  /\ (n * m) \div 100 \in Nat
           /\ (n * m) \div 100 <= (b * VolMax) \div 100 /\ (b * VolMax) \div 100 \in Nat
           /\ 100 * ((n * m) \div 100) <= n * VolMax
           /\ n * VolMin < 100 * ((n * m) \div 100) + 100
<1> DEFINE x == n * m
           y == b * VolMax
           lo == n * VolMin
           hi == n * VolMax
<1>1. m \in Nat /\ VolMin \in Nat /\ VolMax \in Nat /\ VolMin <= m /\ m <= VolMax
  BY ComputationsAssumption
<1>2. x \in Nat /\ y \in Nat /\ lo \in Nat /\ hi \in Nat
  BY <1>1
<1>3. lo <= x /\ x <= hi /\ hi <= y
  BY <1>1, TimesMost
<1> HIDE DEF x, y, lo, hi
<1>4. 100 \in Nat \ {0} /\ x \in Int /\ y \in Int /\ x <= y
  BY <1>2, <1>3
<1>5. x \div 100 \in Nat /\ y \div 100 \in Nat
  BY ONLY <1>2, <1>4, QuotientNat
<1>6. x \div 100 <= y \div 100
  BY ONLY <1>4, QuotientMonotone
<1>7. 100 * (x \div 100) <= x /\ x < 100 * (x \div 100) + 100
  BY ONLY <1>4, Quotient
<1>8. 100 * (x \div 100) <= hi /\ lo < 100 * (x \div 100) + 100
  BY <1>2, <1>3, <1>5, <1>7
<1> QED
  BY <1>5, <1>6, <1>8 DEF x, y, lo, hi

\* Every quotient of an order is a number.
LEMMA OrderNat ==
    ASSUME price \in SizedPrices, NEW usd \in Nat
    PROVE  Size!Quantity(usd) \in Nat /\ Size!Lots(usd) \in Nat
<1>1. price \in Nat \ {0} /\ Precision \in Nat \ {0} /\ LotsPerUnit \in Nat \ {0} /\ Contract \in Nat \ {0}
      /\ MinLot \in Nat /\ MaxLot \in Nat
  BY ComputationsAssumption
<1>2. Size!Round(usd, price) \in Nat
  BY <1>1, Rounded
<1>3. Size!Round(usd * Precision, price) \in Nat
  <2>1. usd * Precision \in Nat
    BY <1>1
  <2> QED
    BY <1>1, <2>1, Rounded
<1>4. Size!Round(usd * LotsPerUnit, price * Contract) \in Nat
  <2>1. usd * LotsPerUnit \in Nat /\ price * Contract \in Nat \ {0}
    BY <1>1
  <2> QED
    BY <2>1, Rounded
<1>5. Precision * Size!Most(1, Size!Round(usd, price)) \in Nat
  <2>1. Size!Most(1, Size!Round(usd, price)) \in Nat
    BY <1>2 DEF Size!Most
  <2> QED
    BY <1>1, <2>1
<1>6. Size!Lots(usd) \in Nat
  BY <1>1, <1>4 DEF Size!Lots, Size!Most, Size!Least
<1> QED
  BY <1>3, <1>5, <1>6 DEF Size!Quantity

LEMMA WorthInt ==
    ASSUME price \in SizedPrices, NEW usd \in Nat
    PROVE  Size!Fill(usd).worth \in Int
<1>1. price \in Nat \ {0} /\ Precision \in Nat \ {0} /\ LotsPerUnit \in Nat \ {0} /\ Contract \in Nat \ {0}
  BY ComputationsAssumption
<1> DEFINE q == Size!Quantity(usd)
           x == q * price
           y == Size!Lots(q) * Contract * price
<1>2. q \in Nat
  BY OrderNat
<1>3. Size!Lots(q) \in Nat
  BY <1>2, OrderNat
<1>4. x \in Int /\ y \in Int
  <2> HIDE DEF q
  <2> QED
    BY <1>1, <1>2, <1>3
<1>5. Size!Fill(usd).worth \in {x \div Precision, y \div LotsPerUnit, 0}
  BY DEF Size!Fill
<1> HIDE DEF x, y
<1>6. x \div Precision \in Int
  BY ONLY <1>1, <1>4, Quotient
<1>7. y \div LotsPerUnit \in Int
  BY ONLY <1>1, <1>4, Quotient
<1> QED
  BY <1>5, <1>6, <1>7

\* What a leg is worth is what it was meant to cost, and at most the venue's grain more.
LEMMA Worth ==
    ASSUME price \in SizedPrices, NEW usd \in Nat
    PROVE  /\ Size!Fill(usd).intended = usd
           /\ Size!Fill(usd).worth <= usd + Size!Grain
           /\ Size!Grain \in Nat
<1>1. price \in Nat \ {0}
  BY ComputationsAssumption
<1>2. Size!Fill(usd).intended = usd
  BY DEF Size!Fill
<1>3. CASE venue = "oanda"
  <2>1. Size!Quantity(usd) = Precision * Size!Most(1, Size!Round(usd, price)) /\ Size!Grain = price
    BY <1>3 DEF Size!Quantity, Size!Grain
  <2>2. Size!Fill(usd).worth = (Size!Quantity(usd) * price) \div Precision
    BY <1>3 DEF Size!Fill
  <2>3. ((Precision * Size!Most(1, Size!Round(usd, price))) * price) \div Precision <= usd + price
    BY <1>1, WholeUnits
  <2>4. Size!Fill(usd).worth <= usd + price
    BY <2>1, <2>2, <2>3, Zenon
  <2> QED
    BY <1>1, <1>2, <2>1, <2>4
<1>4. CASE venue = "mt5"
  <2>1. Size!Quantity(usd) = usd
    BY <1>4 DEF Size!Quantity
  <2>2. Size!Grain = (MinLot * Contract * price) \div LotsPerUnit + (Contract * price) \div (2 * LotsPerUnit)
    BY <1>4 DEF Size!Grain
  <2>3. Size!Grain \in Nat
    <3> DEFINE x == MinLot * Contract * price
               y == Contract * price
               d == 2 * LotsPerUnit
    <3>1. x \in Nat /\ y \in Nat /\ d \in Nat \ {0} /\ LotsPerUnit \in Nat \ {0}
      <4>1. MinLot \in Nat /\ Contract \in Nat /\ LotsPerUnit \in Nat \ {0}
        BY ComputationsAssumption
      <4> QED
        BY <1>1, <4>1
    <3>2. Size!Grain = x \div LotsPerUnit + y \div d
      BY <2>2
    <3> HIDE DEF x, y, d
    <3>3. x \div LotsPerUnit \in Nat
      BY ONLY <3>1, QuotientNat
    <3>4. y \div d \in Nat
      BY ONLY <3>1, QuotientNat
    <3> QED
      BY <3>2, <3>3, <3>4
  <2>4. CASE settings.paper
    <3>1. Size!Fill(usd).worth = 0
      BY <1>4, <2>4 DEF Size!Fill
    <3> QED
      BY <1>2, <2>3, <3>1
  <2>5. CASE ~settings.paper
    <3>1. Size!Fill(usd).worth = (Size!Lots(usd) * Contract * price) \div LotsPerUnit
      BY <1>4, <2>1, <2>5 DEF Size!Fill
    <3>2. Size!Lots(usd) = Size!Most(MinLot, Size!Least(MaxLot, Size!Round(usd * LotsPerUnit, price * Contract)))
      BY DEF Size!Lots
    <3>3. (Size!Most(MinLot, Size!Least(MaxLot, Size!Round(usd * LotsPerUnit, price * Contract))) * Contract * price) \div LotsPerUnit
             <= usd + ((MinLot * Contract * price) \div LotsPerUnit + (Contract * price) \div (2 * LotsPerUnit))
      BY <1>1, WholeLots
    <3>4. Size!Fill(usd).worth <= usd + Size!Grain
      BY <2>2, <3>1, <3>2, <3>3, Zenon
    <3> QED
      BY <1>2, <2>3, <3>4
  <2> QED
    BY <2>4, <2>5
<1>5. CASE venue # "oanda" /\ venue # "mt5"
  <2>1. Size!Quantity(usd) = Size!Round(usd * Precision, price) /\ Size!Grain = price \div (2 * Precision)
    BY <1>5 DEF Size!Quantity, Size!Grain
  <2>2. Size!Fill(usd).worth = (Size!Quantity(usd) * price) \div Precision
    BY <1>5 DEF Size!Fill
  <2>3. (Size!Round(usd * Precision, price) * price) \div Precision <= usd + price \div (2 * Precision)
    BY <1>1, Fractions
  <2>4. Size!Fill(usd).worth <= usd + Size!Grain
    BY <2>1, <2>2, <2>3, Zenon
  <2>5. Size!Grain \in Nat
    <3> DEFINE d == 2 * Precision
    <3>1. d \in Nat \ {0} /\ price \in Nat
      BY <1>1, ComputationsAssumption
    <3> HIDE DEF d
    <3>2. price \div d \in Nat
      BY ONLY <3>1, QuotientNat
    <3> QED
      BY <2>1, <3>2 DEF d
  <2> QED
    BY <1>2, <2>4, <2>5
<1> QED
  BY <1>3, <1>4, <1>5

\* A leg whose worth is a number is no dearer than the budget allows.
LEMMA LegWithinBudget ==
    ASSUME SizeInv, NEW l \in LegsMeant, notional # Size!Unset
    PROVE  l.worth <= (Size!Budget * VolMax) \div 100 + Size!Grain
<1>1. PICK m \in VolMin .. VolMax : l = Size!Fill((notional * m) \div 100)
  BY DEF LegsMeant
<1>2. notional \in Nat /\ notional <= Size!Budget /\ Size!Budget \in Nat /\ price \in SizedPrices
  BY BudgetNat DEF SizeInv
<1> DEFINE usd == (notional * m) \div 100
           most == (Size!Budget * VolMax) \div 100
<1>3. usd \in Nat /\ usd <= most /\ most \in Nat
  <2>1. notional \in Nat /\ Size!Budget \in Nat /\ notional <= Size!Budget
    BY <1>2
  <2> QED
    BY ONLY <2>1, Dollars, ZenonT(30)
<1> HIDE DEF usd, most
<1>4. l = Size!Fill(usd)
  BY <1>1 DEF usd
<1>5. l.worth <= usd + Size!Grain /\ Size!Grain \in Nat
  BY <1>2, <1>3, <1>4, Worth
<1>6. l.worth \in Int
  BY <1>2, <1>3, <1>4, WorthInt
<1>7. l.worth <= most + Size!Grain
  BY ONLY <1>3, <1>5, <1>6
<1> QED
  BY <1>7 DEF most

\* The two legs are within the range of the multiplier of one another.
LEMMA LegsAlike ==
    ASSUME SizeInv, NEW l \in LegsMeant, NEW k \in LegsMeant, notional # Size!Unset
    PROVE  l.intended * VolMin <= k.intended * VolMax + VolMax
<1>1. PICK m \in VolMin .. VolMax : l = Size!Fill((notional * m) \div 100)
  BY DEF LegsMeant
<1>2. PICK o \in VolMin .. VolMax : k = Size!Fill((notional * o) \div 100)
  BY DEF LegsMeant
<1>3. notional \in Nat /\ Size!Budget \in Nat /\ notional <= Size!Budget
  BY BudgetNat DEF SizeInv
<1>4. VolMin \in Nat /\ VolMax \in Nat /\ VolMax > 0
  BY ComputationsAssumption
<1> DEFINE x == (notional * m) \div 100
           y == (notional * o) \div 100
<1>5. l.intended = x /\ k.intended = y
  BY <1>1, <1>2 DEF Size!Fill
<1>6. x \in Nat /\ 100 * x <= notional * VolMax
  BY <1>3, Dollars
<1>7. y \in Nat /\ notional * VolMin < 100 * y + 100
  BY <1>3, Dollars
<1> HIDE DEF x, y
<1> DEFINE nM == notional * VolMax
           nm == notional * VolMin
           A == x * VolMin
           B == (y + 1) * VolMax
<1>8. nM \in Nat /\ nm \in Nat /\ A \in Nat /\ B \in Nat
  BY <1>3, <1>4, <1>6, <1>7
<1>9. (100 * x) * VolMin <= nM * VolMin
  <2>1. 100 * x \in Int /\ nM \in Int /\ 100 * x <= nM
    BY <1>6, <1>8
  <2> QED
    BY ONLY <1>4, <2>1, TimesMost
<1>10. nm * VolMax <= (100 * y + 100) * VolMax
  <2>1. nm \in Int /\ 100 * y + 100 \in Int /\ nm <= 100 * y + 100
    BY <1>7, <1>8
  <2> QED
    BY ONLY <1>4, <2>1, TimesMost
<1>11. /\ (100 * x) * VolMin = 100 * A /\ (100 * y + 100) * VolMax = 100 * B
       /\ nM * VolMin = nm * VolMax /\ nm * VolMax \in Nat
  BY <1>3, <1>4, <1>6, <1>7
<1>12. A <= B
  <2> DEFINE z == nm * VolMax
  <2>1. 100 * A <= z /\ z <= 100 * B /\ z \in Nat
    BY <1>9, <1>10, <1>11, Zenon
  <2> HIDE DEF z, A, B
  <2> QED
    BY ONLY <1>8, <2>1
<1>13. B = y * VolMax + VolMax
  BY <1>4, <1>7
<1>14. x * VolMin <= y * VolMax + VolMax
  BY <1>12, <1>13, Zenon
<1> QED
  BY <1>5, <1>14, Zenon

(* For any equity, record, price and venue, whatever the configured limits *)
(* and multipliers: no leg spends more than the budget times the cap of    *)
(* the multiplier and the venue's grain, and the two legs of a spread stay *)
(* within the multiplier's range (_resolve_position_usd, _calc_quantity).  *)
THEOREM SpentAlwaysAsBudgeted == Spec => []SpentAsBudgeted
<1>1. SizeInv => SpentAsBudgeted
  <2> SUFFICES ASSUME SizeInv, NEW i \in DOMAIN legs
               PROVE  /\ legs[i].worth <= (Size!Budget * VolMax) \div 100 + Size!Grain
                      /\ \A j \in DOMAIN legs : legs[i].intended * VolMin <= legs[j].intended * VolMax + VolMax
    BY DEF SpentAsBudgeted, Size!SpentAsBudgeted
  <2>1. legs \in Seq(LegsMeant) /\ legs # <<>>
    BY DEF SizeInv
  <2>2. notional # Size!Unset /\ \A j \in DOMAIN legs : legs[j] \in LegsMeant
    BY <2>1 DEF SizeInv
  <2>3. legs[i].worth <= (Size!Budget * VolMax) \div 100 + Size!Grain
    BY <2>2, LegWithinBudget
  <2>4. ASSUME NEW j \in DOMAIN legs PROVE legs[i].intended * VolMin <= legs[j].intended * VolMax + VolMax
    BY <2>2, LegsAlike
  <2> QED
    BY <2>3, <2>4
<1> QED
  BY <1>1, PartsRun, SizeInit, SizeStep, PTL DEF Size!Spec

-----------------------------------------------------------------------------
(* Sets of numbers, and sums along a sequence.                             *)

\* A finite set of numbers has a largest and a smallest member.
LEMMA Extremes ==
    ASSUME NEW S \in SUBSET Int, IsFiniteSet(S), S # {}
    PROVE  /\ Scan!Max(S) \in S /\ \A x \in S : x <= Scan!Max(S)
           /\ Scan!Min(S) \in S /\ \A x \in S : Scan!Min(S) <= x
<1>1. \E x \in S : \A y \in S : x >= y
  BY HasLargest
<1>2. \E x \in S : \A y \in S : x <= y
  BY HasSmallest
<1>3. Scan!Max(S) \in S /\ \A y \in S : Scan!Max(S) >= y
  BY <1>1 DEF Scan!Max
<1>4. Scan!Min(S) \in S /\ \A y \in S : Scan!Min(S) <= y
  BY <1>2 DEF Scan!Min
<1> QED
  BY <1>3, <1>4

LEMMA TotalIs == ASSUME NEW q PROVE Scan!Total(q) = SumIn(q, DOMAIN q)
BY Zenon DEF Scan!Total, Scan!FoldSeq, Scan!FoldFunction, Scan!FoldFunctionOnSet, Scan!MapThenFoldSet, SumIn, Sums, AreSums, One

LEMMA TotalInt == ASSUME NEW q \in Seq(Int) PROVE Scan!Total(q) \in Int
<1>1. DOMAIN q = 1 .. Len(q) /\ Len(q) \in Nat /\ \A i \in DOMAIN q : q[i] \in Int
  OBVIOUS
<1>2. IsFiniteSet(DOMAIN q)
  BY <1>1, FS_Interval
<1> QED
  BY <1>1, <1>2, TotalIs, SumInt

-----------------------------------------------------------------------------
(* The scans (Strategies).                                                 *)

\* The members of TradeAsMeant and of ScansPay, of one opportunity.
TradedRight(o) ==
    /\ Scan!BuildOrderPlan(o) # <<>>
    /\ o.tv_action \in {"buy", "sell"} /\ o.strategy # "funding_arb" =>
          (Scan!Buys(o, "spot") <=> o.tv_action = "buy") /\ (Scan!Sells(o, "spot") <=> o.tv_action = "sell")
    /\ o.tv_action = "none" =>
          CASE o.strategy \in {"breakout", "momentum"} ->
                  \A n \in IF o.strategy = "breakout" THEN 1 .. Lookback ELSE Horizons :
                      IF Scan!Buys(o, "spot") THEN Scan!Now > Scan!Spot[n + 1] ELSE Scan!Now < Scan!Spot[n + 1]
            [] o.strategy = "mean_reversion_scalp" ->
                  IF Scan!Buys(o, "spot")
                  THEN Scan!Now * BbPeriod < Scan!Mean(Scan!Newest(Scan!Spot, BbPeriod))
                  ELSE Scan!Now * BbPeriod > Scan!Mean(Scan!Newest(Scan!Spot, BbPeriod))
            [] o.strategy = "stat_arb" ->
                  IF Head(Scan!Spreads) * Scan!Both > Scan!Mean(Scan!Spreads)
                  THEN Scan!Sells(o, "spot") /\ Scan!Buys(o, "perp")
                  ELSE Scan!Sells(o, "perp") /\ Scan!Buys(o, "spot")
            [] OTHER -> Scan!Buys(o, "spot") /\ Scan!Sells(o, "perp")

Pays(o) ==
    /\ o.net >= MinEdge
    /\ o.stop > 0 => o.target * RrDen >= RrNum * o.stop
    /\ o.strategy # "momentum" => o.expected - ScanFee = o.net

\* Trend strategies do not publish in a quiet regime, nor reversion in a trend.
InItsRegime(o) ==
    o.tv_action = "none" =>
        /\ o.strategy \in {"breakout", "momentum"} => inForce \notin {"ranging", "low_volatility"}
        /\ o.strategy = "mean_reversion_scalp" => inForce \notin {"trending_bull", "trending_bear", "high_volatility"}

Right(o) == TradedRight(o) /\ Pays(o) /\ InItsRegime(o)

Ticks == Nat \ {0}

ScanInv ==
    /\ cache \in [{"spot", "perp"} -> Seq(Ticks)]
    /\ rate \in Int
    /\ inForce \in Regimes \cup {"unknown"}
    /\ \A o \in published : Right(o)

LEMMA ScanInit == Scan!Init => ScanInv
<1> SUFFICES ASSUME Scan!Init PROVE ScanInv
  OBVIOUS
<1>1. cache \in [{"spot", "perp"} -> Seq(Ticks)]
  <2>1. <<>> \in Seq(Ticks)
    OBVIOUS
  <2> QED
    BY <2>1 DEF Scan!Init, Scan!Symbols
<1> QED
  BY <1>1, ComputationsAssumption DEF Scan!Init, ScanInv

LEMMA RightIsMeant == ScanInv => PublishedAsMeant
<1> SUFFICES ASSUME ScanInv PROVE PublishedAsMeant
  OBVIOUS
<1>1. Scan!TradeAsMeant
  <2>1. \A o \in published : TradedRight(o)
    BY DEF ScanInv, Right
  <2> QED
    BY <2>1, Zenon DEF TradedRight, Scan!TradeAsMeant
<1>2. Scan!ScansPay
  <2>1. ASSUME inForce # "unknown", NEW o \in published, NEW w \in published,
               o.tv_action = "none", w.tv_action = "none",
               o.strategy \in {"breakout", "momentum"}, w.strategy = "mean_reversion_scalp"
        PROVE FALSE
    <3>1. inForce \in {"ranging", "low_volatility", "high_volatility", "trending_bull", "trending_bear"}
      BY <2>1, ComputationsAssumption DEF ScanInv
    <3>2. inForce \notin {"ranging", "low_volatility"} /\ inForce \notin {"trending_bull", "trending_bear", "high_volatility"}
      BY <2>1 DEF ScanInv, Right, InItsRegime
    <3> QED
      BY <3>1, <3>2
  <2>2. \A o \in published : Pays(o)
    BY DEF ScanInv, Right
  <2> QED
    BY <2>1, <2>2, Zenon DEF Pays, Scan!ScansPay
<1> QED
  BY <1>1, <1>2 DEF PublishedAsMeant, Scan!PublishedAsMeant

\* What is known of a published opportunity is about prices, rate and regime only.
LEMMA StaysRight ==
    ASSUME UNCHANGED <<cache, rate, inForce>>, NEW o, Right(o)
    PROVE  Right(o)'
<1>1. /\ Scan!Spot' = Scan!Spot /\ Scan!Now' = Scan!Now
      /\ Scan!Spreads' = Scan!Spreads /\ Scan!Both' = Scan!Both
  BY DEF Scan!Now, Scan!Spot, Scan!Spreads, Scan!Both
<1>2. /\ Scan!Mean(Scan!Spreads)' = Scan!Mean(Scan!Spreads)
      /\ Scan!Mean(Scan!Newest(Scan!Spot, BbPeriod))' = Scan!Mean(Scan!Newest(Scan!Spot, BbPeriod))
  BY <1>1 DEF Scan!Mean, Scan!Newest
<1>3. Pays(o)' /\ InItsRegime(o)'
  BY DEF Right, Pays, InItsRegime
<1>4. TradedRight(o)'
  BY <1>1, <1>2, Zenon DEF Right, TradedRight
<1> QED
  BY <1>3, <1>4 DEF Right

LEMMA PublishStep ==
    ASSUME ScanInv, NEW o, Right(o), Scan!Publish(o)
    PROVE  ScanInv'
<1>1. published' = published \cup {o} /\ UNCHANGED <<cache, rate, inForce>>
  BY DEF Scan!Publish
<1>2. \A w \in published' : Right(w)'
  BY <1>1, StaysRight DEF ScanInv
<1> QED
  BY <1>1, <1>2 DEF ScanInv

LEMMA MarketStep ==
    ASSUME ScanInv,
           (\E s \in Scan!Symbols : \E p \in MCPrices[s] : Scan!Tick(s, p)) \/ (\E r \in Regimes : Scan!NewRegime(r))
    PROVE  ScanInv'
<1>1. ASSUME NEW r \in Regimes, Scan!NewRegime(r) PROVE ScanInv'
  BY <1>1 DEF Scan!NewRegime, ScanInv
<1>2. ASSUME NEW s \in Scan!Symbols, NEW p \in MCPrices[s], Scan!Tick(s, p) PROVE ScanInv'
  <2>1. s \in {"spot", "perp"} /\ p \in Ticks
    BY ComputationsAssumption DEF Scan!Symbols, MCPrices, Ticks
  <2> DEFINE q == <<p>> \o cache[s]
             n == IF Len(cache[s]) < Length THEN Len(cache[s]) + 1 ELSE Length
  <2>2. cache[s] \in Seq(Ticks) /\ Length \in Nat
    BY <2>1, ComputationsAssumption DEF ScanInv
  <2>3. q \in Seq(Ticks) /\ Len(q) = Len(cache[s]) + 1 /\ n \in Nat /\ n <= Len(q)
    BY <2>1, <2>2
  <2>4. cache' = [cache EXCEPT ![s] = SubSeq(q, 1, n)] /\ published' = {} /\ UNCHANGED <<rate, inForce>>
    BY <1>2 DEF Scan!Tick
  <2> HIDE DEF q, n
  <2>5. SubSeq(q, 1, n) \in Seq(Ticks)
    BY <2>3
  <2> QED
    BY <2>1, <2>4, <2>5 DEF ScanInv
<1> QED
  BY <1>1, <1>2

LEMMA Settings ==
    /\ Length \in Nat \ {0} /\ Lookback \in 1 .. Length - 1 /\ AtrPeriod \in 1 .. Length - 1
    /\ BbPeriod \in 1 .. Length /\ Horizons \subseteq 1 .. Length - 1 /\ Horizons # {}
    /\ Scale \in Nat \ {0} /\ StopNum \in Nat \ {0} /\ StopDen \in Nat \ {0}
    /\ RrNum \in Nat \ {0} /\ RrDen \in Nat \ {0}
    /\ RocThreshold \in Nat /\ ScanFee \in Nat /\ MinEdge \in Nat
BY ComputationsAssumption

\* The plan of a trade with one leg, and of one with two.
LEMMA OneLeg ==
    ASSUME NEW o, o.strategy \in Scan!Directional, o.primary = "spot", Scan!ResolveSide(o) \in {"buy", "sell"}
    PROVE  /\ Scan!BuildOrderPlan(o) # <<>>
           /\ Scan!Buys(o, "spot") <=> Scan!ResolveSide(o) = "buy"
           /\ Scan!Sells(o, "spot") <=> Scan!ResolveSide(o) = "sell"
<1>1. Scan!BuildOrderPlan(o) = << [symbol |-> "spot", side |-> Scan!ResolveSide(o)] >>
  BY DEF Scan!BuildOrderPlan
<1> QED
  BY <1>1 DEF Scan!Buys, Scan!Sells

LEMMA TwoLegs ==
    ASSUME NEW o, o.strategy \in {"funding_arb", "stat_arb"}
    PROVE  /\ Scan!BuildOrderPlan(o) # <<>>
           /\ \A s : Scan!Buys(o, s) <=> s = (IF o.strategy = "funding_arb" THEN o.primary ELSE o.secondary)
           /\ \A s : Scan!Sells(o, s) <=> s = (IF o.strategy = "funding_arb" THEN o.secondary ELSE o.primary)
<1> DEFINE first == Scan!LegDirections[o.strategy][1]
           second == Scan!LegDirections[o.strategy][2]
<1>1. Scan!BuildOrderPlan(o) = << [symbol |-> o.primary, side |-> first], [symbol |-> o.secondary, side |-> second] >>
  BY DEF Scan!BuildOrderPlan, Scan!Directional
<1>2. IF o.strategy = "funding_arb" THEN first = "buy" /\ second = "sell" ELSE first = "sell" /\ second = "buy"
  BY DEF Scan!LegDirections
<1> HIDE DEF first, second
<1> QED
  BY <1>1, <1>2 DEF Scan!Buys, Scan!Sells

LEMMA SignalDirectionalStep ==
    ASSUME ScanInv, NEW name \in Scan!Directional, NEW action \in Scan!Actions, Scan!SignalDirectional(name, action)
    PROVE  ScanInv'
<1>1. PICK d \in {"none", "long", "short"} :
          /\ action \in {"buy", "sell"}
          /\ Scan!Publish(Scan!Opportunity(name, "spot", "none", action, d, MinEdge + ScanFee, MinEdge))
  BY DEF Scan!SignalDirectional
<1> DEFINE o == Scan!Opportunity(name, "spot", "none", action, d, MinEdge + ScanFee, MinEdge)
<1>2. /\ o.strategy = name /\ o.primary = "spot" /\ o.tv_action = action
      /\ o.expected = MinEdge + ScanFee /\ o.net = MinEdge /\ o.stop = 0
  BY DEF Scan!Opportunity
<1> HIDE DEF o
<1>3. Scan!ResolveSide(o) = action
  <2>1. CASE action = "buy"
    BY <1>2, <2>1 DEF Scan!ResolveSide, Scan!SideOf
  <2>2. CASE action = "sell"
    BY <1>2, <2>2 DEF Scan!ResolveSide, Scan!SideOf
  <2> QED
    BY <1>1, <2>1, <2>2
<1>4. TradedRight(o)
  BY <1>1, <1>2, <1>3, OneLeg DEF TradedRight
<1>5. Pays(o) /\ InItsRegime(o)
  BY <1>1, <1>2, ComputationsAssumption DEF Pays, InItsRegime
<1> QED
  BY <1>1, <1>4, <1>5, PublishStep DEF Right, o

LEMMA FundingStep ==
    ASSUME ScanInv, NEW action \in Scan!Actions \cup {"none"},
           Scan!SignalFunding(action) \/ (action = "none" /\ Scan!ScanFunding)
    PROVE  ScanInv'
<1> DEFINE o == Scan!Opportunity("funding_arb", "spot", "perp", action, "none", rate, rate - ScanFee)
<1>1. Scan!Publish(o) /\ rate - ScanFee >= MinEdge
  BY DEF Scan!SignalFunding, Scan!ScanFunding
<1>2. /\ o.strategy = "funding_arb" /\ o.primary = "spot" /\ o.secondary = "perp" /\ o.tv_action = action
      /\ o.expected = rate /\ o.net = rate - ScanFee /\ o.stop = 0
  BY DEF Scan!Opportunity
<1> HIDE DEF o
<1>3. TradedRight(o)
  BY <1>2, TwoLegs DEF TradedRight
<1>4. Pays(o) /\ InItsRegime(o)
  BY <1>1, <1>2 DEF Pays, InItsRegime
<1> QED
  BY <1>1, <1>3, <1>4, PublishStep DEF Right

\* Where both caches hold a tick, the spreads are a sequence of numbers.
LEMMA SpreadsTyped ==
    ASSUME ScanInv
    PROVE  /\ Scan!Both \in Nat /\ Scan!Spreads \in Seq(Int) /\ Len(Scan!Spreads) = Scan!Both
           /\ Scan!Total(Scan!Spreads) \in Int
<1>1. Scan!Spot \in Seq(Ticks) /\ cache["perp"] \in Seq(Ticks)
  BY DEF ScanInv, Scan!Spot
<1>2. Scan!Both \in Nat /\ Scan!Both <= Len(Scan!Spot) /\ Scan!Both <= Len(cache["perp"])
  BY <1>1 DEF Scan!Both
<1>3. \A i \in 1 .. Scan!Both : Scan!Spot[i] - cache["perp"][i] \in Int
  <2> SUFFICES ASSUME NEW i \in 1 .. Scan!Both PROVE Scan!Spot[i] - cache["perp"][i] \in Int
    OBVIOUS
  <2>1. i \in 1 .. Len(Scan!Spot) /\ i \in 1 .. Len(cache["perp"])
    BY <1>1, <1>2
  <2>2. Scan!Spot[i] \in Ticks /\ cache["perp"][i] \in Ticks
    BY <1>1, <2>1
  <2> QED
    BY <2>2 DEF Ticks
<1>4. Scan!Spreads \in Seq(Int) /\ Len(Scan!Spreads) = Scan!Both
  BY <1>2, <1>3 DEF Scan!Spreads
<1> QED
  BY <1>2, <1>4, TotalInt

LEMMA PairStep ==
    ASSUME ScanInv, NEW action \in Scan!Actions \cup {"none"},
           Scan!SignalPair(action) \/ (action = "none" /\ Scan!ScanPair)
    PROVE  ScanInv'
<1> DEFINE sold == CASE action = "buy" -> "perp" [] action = "sell" -> "spot" [] OTHER -> Scan!Overpriced
           o == Scan!Opportunity("stat_arb", sold, Scan!OtherLeg(sold), action, "none",
                                 Scan!SpreadEdge, Scan!SpreadEdge - ScanFee)
<1>1. Scan!Publish(o) /\ Scan!SpreadEdge - ScanFee >= MinEdge /\ Scan!Both = Length
  BY DEF Scan!SignalPair, Scan!ScanPair
<1>2. sold \in {"spot", "perp"} /\ (action = "buy" => sold = "perp") /\ (action = "sell" => sold = "spot")
      /\ (action = "none" => sold = Scan!Overpriced)
  BY DEF Scan!Overpriced
<1> HIDE DEF sold
<1>3. /\ o.strategy = "stat_arb" /\ o.primary = sold /\ o.secondary = Scan!OtherLeg(sold) /\ o.tv_action = action
      /\ o.expected = Scan!SpreadEdge /\ o.net = Scan!SpreadEdge - ScanFee /\ o.stop = 0
  BY DEF Scan!Opportunity
<1> HIDE DEF o
<1>4. /\ Scan!BuildOrderPlan(o) # <<>>
      /\ \A s : Scan!Sells(o, s) <=> s = sold
      /\ \A s : Scan!Buys(o, s) <=> s = Scan!OtherLeg(sold)
  BY <1>3, TwoLegs
<1>5. Scan!OtherLeg(sold) = IF sold = "spot" THEN "perp" ELSE "spot"
  BY DEF Scan!OtherLeg
<1>6. action = "none" => (sold = "spot" <=> Head(Scan!Spreads) * Scan!Both > Scan!Mean(Scan!Spreads))
  <2>1. Scan!Both \in Nat \ {0} /\ Scan!Spreads \in Seq(Int) /\ Len(Scan!Spreads) = Scan!Both
        /\ Scan!Total(Scan!Spreads) \in Int
    BY <1>1, SpreadsTyped, Settings
  <2>2. Head(Scan!Spreads) \in Int
    BY <2>1
  <2> DEFINE x == Scan!Both * Head(Scan!Spreads)
  <2>3. x \in Int /\ Head(Scan!Spreads) * Scan!Both = x /\ Scan!Deviation = x - Scan!Total(Scan!Spreads)
    BY <2>1, <2>2 DEF Scan!Deviation
  <2> HIDE DEF x
  <2> QED
    BY <1>2, <2>1, <2>3 DEF Scan!Overpriced, Scan!Mean
<1>7. TradedRight(o)
  <2>1. action \in {"buy", "sell"} =>
            (Scan!Buys(o, "spot") <=> action = "buy") /\ (Scan!Sells(o, "spot") <=> action = "sell")
    BY <1>2, <1>4, <1>5
  <2>2. action = "none" => IF Head(Scan!Spreads) * Scan!Both > Scan!Mean(Scan!Spreads)
                           THEN Scan!Sells(o, "spot") /\ Scan!Buys(o, "perp")
                           ELSE Scan!Sells(o, "perp") /\ Scan!Buys(o, "spot")
    BY <1>2, <1>4, <1>5, <1>6
  <2> QED
    BY <1>3, <1>4, <2>1, <2>2 DEF TradedRight
<1>8. Pays(o) /\ InItsRegime(o)
  BY <1>1, <1>3 DEF Pays, InItsRegime
<1> QED
  BY <1>1, <1>7, <1>8, PublishStep DEF Right

LEMMA FiniteImage ==
    ASSUME NEW f, IsFiniteSet(DOMAIN f)
    PROVE  IsFiniteSet({f[x] : x \in DOMAIN f})
<1> DEFINE T == {f[x] : x \in DOMAIN f}
           g == [x \in DOMAIN f |-> f[x]]
<1>1. g \in Surjection(DOMAIN f, T)
  BY DEF Surjection
<1> HIDE DEF g
<1> QED
  BY <1>1, FS_Surjection

\* A whole window of ticks: each is a price, and so is the newest.
LEMMA Window ==
    ASSUME ScanInv, Len(Scan!Spot) = Length
    PROVE  /\ Scan!Spot \in Seq(Ticks)
           /\ \A i \in 1 .. Length : Scan!Spot[i] \in Int /\ Scan!Spot[i] > 0
           /\ Scan!Now = Scan!Spot[1] /\ Scan!Now \in Int /\ Scan!Now > 0
<1>1. Scan!Spot \in Seq(Ticks)
  BY DEF ScanInv, Scan!Spot
<1>2. \A i \in 1 .. Length : Scan!Spot[i] \in Ticks
  BY <1>1
<1>3. Scan!Now = Scan!Spot[1] /\ 1 \in 1 .. Length
  BY <1>1, Settings DEF Scan!Now
<1> QED
  BY <1>1, <1>2, <1>3 DEF Ticks

LEMMA AtrsAreInt ==
    ASSUME ScanInv, Len(Scan!Spot) = Length, NEW atr \in Scan!Atrs
    PROVE  atr \in Int
<1> DEFINE f == [i \in 1 .. AtrPeriod |-> Scan!AbsDiff(Scan!Spot[i], Scan!Spot[i + 1])]
<1>1. AtrPeriod \in Nat \ {0}
  BY Settings
<1>2. Scan!TrueRanges = {f[i] : i \in DOMAIN f}
  BY DEF Scan!TrueRanges
<1>3. \A i \in DOMAIN f : f[i] \in Int
  <2> SUFFICES ASSUME NEW i \in 1 .. AtrPeriod PROVE f[i] \in Int
    OBVIOUS
  <2>1. i \in 1 .. Length /\ i + 1 \in 1 .. Length
    BY Settings
  <2>2. Scan!Spot[i] \in Int /\ Scan!Spot[i + 1] \in Int
    BY <2>1, Window
  <2> QED
    BY <2>2 DEF Scan!AbsDiff
<1>4. DOMAIN f = 1 .. AtrPeriod /\ IsFiniteSet(DOMAIN f) /\ 1 \in DOMAIN f
  BY <1>1, FS_Interval
<1> HIDE DEF f
<1>5. Scan!TrueRanges \in SUBSET Int /\ Scan!TrueRanges # {}
  BY <1>2, <1>3, <1>4
<1>6. IsFiniteSet(Scan!TrueRanges)
  BY <1>2, <1>4, FiniteImage
<1>7. Scan!Min(Scan!TrueRanges) \in Int /\ Scan!Max(Scan!TrueRanges) \in Int
  BY <1>5, <1>6, Extremes
<1> QED
  BY <1>7 DEF Scan!Atrs

LEMMA EarlierExtremes ==
    ASSUME ScanInv, Len(Scan!Spot) = Length
    PROVE  /\ Scan!Max(Scan!Earlier) \in Int /\ Scan!Min(Scan!Earlier) \in Int
           /\ \A n \in 1 .. Lookback : /\ Scan!Spot[n + 1] \in Int
                                       /\ Scan!Spot[n + 1] <= Scan!Max(Scan!Earlier)
                                       /\ Scan!Min(Scan!Earlier) <= Scan!Spot[n + 1]
<1> DEFINE f == [i \in 2 .. Lookback + 1 |-> Scan!Spot[i]]
<1>1. Lookback \in Nat \ {0}
  BY Settings
<1>2. Scan!Earlier = {f[i] : i \in DOMAIN f}
  BY DEF Scan!Earlier
<1>3. \A i \in DOMAIN f : f[i] \in Int /\ f[i] = Scan!Spot[i]
  <2> SUFFICES ASSUME NEW i \in 2 .. Lookback + 1 PROVE Scan!Spot[i] \in Int
    OBVIOUS
  <2>1. i \in 1 .. Length
    BY Settings
  <2> QED
    BY <2>1, Window
<1>4. DOMAIN f = 2 .. Lookback + 1 /\ IsFiniteSet(DOMAIN f) /\ 2 \in DOMAIN f
  BY <1>1, FS_Interval
<1> HIDE DEF f
<1>5. Scan!Earlier \in SUBSET Int /\ Scan!Earlier # {}
  BY <1>2, <1>3, <1>4
<1>6. IsFiniteSet(Scan!Earlier)
  BY <1>2, <1>4, FiniteImage
<1>7. /\ Scan!Max(Scan!Earlier) \in Int /\ Scan!Min(Scan!Earlier) \in Int
      /\ \A x \in Scan!Earlier : x <= Scan!Max(Scan!Earlier) /\ Scan!Min(Scan!Earlier) <= x
  BY <1>5, <1>6, Extremes
<1>8. ASSUME NEW n \in 1 .. Lookback PROVE Scan!Spot[n + 1] \in Scan!Earlier
  <2>1. n + 1 \in DOMAIN f
    BY <1>1, <1>4
  <2> QED
    BY <1>2, <1>3, <2>1
<1> QED
  BY <1>5, <1>7, <1>8

\* A single-leg trade of a scan: its side is its direction.
LEMMA ScannedSide ==
    ASSUME NEW o, o.strategy \in Scan!Directional, o.primary = "spot", o.tv_action = "none",
           o.direction \in {"buy", "sell"}
    PROVE  /\ Scan!BuildOrderPlan(o) # <<>>
           /\ Scan!Buys(o, "spot") <=> o.direction = "buy"
<1>1. Scan!ResolveSide(o) = o.direction
  BY DEF Scan!ResolveSide, Scan!SideOf
<1> QED
  BY <1>1, OneLeg

LEMMA BreakoutStep == ScanInv /\ Scan!ScanBreakout => ScanInv'
<1> SUFFICES ASSUME ScanInv, Scan!ScanBreakout PROVE ScanInv'
  OBVIOUS
<1> DEFINE edge == (Scan!BreakoutDistance * Scale) \div Scan!Now
           O(atr, direction) == [Scan!Opportunity("breakout", "spot", "none", "none", direction, edge, edge - ScanFee)
                                 EXCEPT !.stop = atr, !.target = 2 * atr]
<1>1. PICK atr \in Scan!Atrs : \E direction \in {Scan!Breakout(atr), Scan!BreakoutBars(atr)} :
          /\ direction # "none" /\ edge - ScanFee >= MinEdge /\ Scan!Worth(2 * atr, atr)
          /\ Scan!Publish(O(atr, direction))
  BY Zenon DEF Scan!ScanBreakout
<1>2. PICK direction : /\ direction = Scan!Breakout(atr) /\ direction # "none"
                       /\ edge - ScanFee >= MinEdge /\ Scan!Worth(2 * atr, atr)
                       /\ Scan!Publish(O(atr, direction))
  BY <1>1 DEF Scan!BreakoutBars
<1>3. Len(Scan!Spot) = Length /\ inForce \notin {"ranging", "low_volatility"}
  BY DEF Scan!ScanBreakout
<1>4. atr \in Int /\ atr > 0 /\ (2 * atr) * RrDen >= RrNum * atr
  BY <1>2, <1>3, AtrsAreInt DEF Scan!Worth
<1>5. /\ direction \in {"buy", "sell"}
      /\ direction = "buy" => 2 * Scan!Now > 2 * Scan!Max(Scan!Earlier) + atr
      /\ direction = "sell" => 2 * Scan!Now < 2 * Scan!Min(Scan!Earlier) - atr
  BY <1>2 DEF Scan!Breakout
<1> DEFINE o == O(atr, direction)
<1> HIDE DEF edge
<1>6. /\ o.strategy = "breakout" /\ o.primary = "spot" /\ o.tv_action = "none" /\ o.direction = direction
      /\ o.expected = edge /\ o.net = edge - ScanFee /\ o.stop = atr /\ o.target = 2 * atr
  BY DEF Scan!Opportunity
<1> HIDE DEF o
<1>7. Scan!BuildOrderPlan(o) # <<>> /\ (Scan!Buys(o, "spot") <=> direction = "buy")
  BY <1>5, <1>6, ScannedSide DEF Scan!Directional
<1>8. \A n \in 1 .. Lookback : IF direction = "buy" THEN Scan!Now > Scan!Spot[n + 1] ELSE Scan!Now < Scan!Spot[n + 1]
  <2>1. Scan!Now \in Int
    BY <1>3, Window
  <2> SUFFICES ASSUME NEW n \in 1 .. Lookback
               PROVE  IF direction = "buy" THEN Scan!Now > Scan!Spot[n + 1] ELSE Scan!Now < Scan!Spot[n + 1]
    OBVIOUS
  <2>2. /\ Scan!Max(Scan!Earlier) \in Int /\ Scan!Min(Scan!Earlier) \in Int /\ Scan!Spot[n + 1] \in Int
        /\ Scan!Spot[n + 1] <= Scan!Max(Scan!Earlier) /\ Scan!Min(Scan!Earlier) <= Scan!Spot[n + 1]
    BY <1>3, EarlierExtremes
  <2> QED
    BY <1>4, <1>5, <2>1, <2>2
<1>9. TradedRight(o)
  BY <1>6, <1>7, <1>8 DEF TradedRight
<1>10. Pays(o) /\ InItsRegime(o)
  BY <1>2, <1>3, <1>4, <1>6 DEF Pays, InItsRegime
<1> QED
  BY <1>2, <1>9, <1>10, PublishStep DEF Right, o

LEMMA TimesOrder ==
    ASSUME NEW a \in Int, NEW b \in Int, NEW d \in Nat \ {0}
    PROVE  a <= b <=> d * a <= d * b
<1>1. a <= b => d * a <= d * b
  OBVIOUS
<1>2. b < a => d * b < d * a
  OBVIOUS
<1> DEFINE x == d * a
           y == d * b
<1>3. x \in Int /\ y \in Int
  OBVIOUS
<1>4. (a <= b => x <= y) /\ (b < a => y < x)
  BY <1>1, <1>2
<1> HIDE DEF x, y
<1>5. a <= b <=> x <= y
  BY <1>3, <1>4
<1> QED
  BY <1>5 DEF x, y

\* The stop is rounded down, so the reward for it stays at least what was asked.
LEMMA StopPays ==
    ASSUME NEW atr \in Int, Scan!Worth(2 * atr * StopDen, atr * StopNum)
    PROVE  2 * atr * RrDen >= RrNum * ((atr * StopNum) \div StopDen)
<1>1. StopNum \in Nat \ {0} /\ StopDen \in Nat \ {0} /\ RrNum \in Nat \ {0} /\ RrDen \in Nat \ {0}
  BY Settings
<1> DEFINE risk == atr * StopNum
           stop == risk \div StopDen
           gain == 2 * atr * RrDen
<1>2. risk \in Int /\ gain \in Int
  BY <1>1
<1>3. RrNum * risk <= (2 * atr * StopDen) * RrDen /\ (2 * atr * StopDen) * RrDen = StopDen * gain
  <2>1. RrNum * risk <= (2 * atr * StopDen) * RrDen
    BY <1>1 DEF Scan!Worth
  <2>2. (2 * atr * StopDen) * RrDen = StopDen * gain
    BY <1>1
  <2> QED
    BY <2>1, <2>2
<1> HIDE DEF risk, gain
<1>4. stop \in Int /\ StopDen * stop <= risk
  BY <1>1, <1>2, Quotient
<1> HIDE DEF stop
<1>5. RrNum * (StopDen * stop) <= RrNum * risk
  <2>1. StopDen * stop \in Int
    BY <1>1, <1>4
  <2> QED
    BY <1>1, <1>2, <1>4, <2>1, TimesOrder
<1>6. RrNum * (StopDen * stop) = StopDen * (RrNum * stop) /\ RrNum * stop \in Int
  BY <1>1, <1>4
<1>7. StopDen * (RrNum * stop) <= StopDen * gain
  <2>1. StopDen * (RrNum * stop) \in Int /\ RrNum * risk \in Int /\ StopDen * gain \in Int
    BY <1>1, <1>2, <1>6
  <2> QED
    BY <1>3, <1>5, <1>6, <2>1
<1>8. RrNum * stop <= gain
  BY <1>1, <1>2, <1>6, <1>7, TimesOrder
<1> QED
  BY <1>2, <1>6, <1>8 DEF stop, risk, gain

LEMMA StrengthInt == ScanInv /\ Len(Scan!Spot) = Length => Scan!Strength \in Int
<1> SUFFICES ASSUME ScanInv, Len(Scan!Spot) = Length PROVE Scan!Strength \in Int
  OBVIOUS
<1> DEFINE q == [n \in Horizons |-> Scan!Roc(n)]
<1>1. \A n \in Horizons : Scan!Roc(n) \in Int
  <2> SUFFICES ASSUME NEW n \in Horizons PROVE Scan!Roc(n) \in Int
    OBVIOUS
  <2>1. n + 1 \in 1 .. Length /\ Scale \in Nat
    BY Settings
  <2>2. Scan!Spot[n + 1] \in Nat \ {0} /\ Scan!Now \in Int
    BY <2>1, Window
  <2>3. (Scan!Now - Scan!Spot[n + 1]) * Scale \in Int
    BY <2>1, <2>2
  <2> QED
    BY <2>2, <2>3, Quotient DEF Scan!Roc
<1>2. IsFiniteSet(Horizons) /\ Cardinality(Horizons) \in Nat \ {0}
  <2>1. IsFiniteSet(1 .. Length - 1)
    BY Settings, FS_Interval
  <2>2. IsFiniteSet(Horizons)
    BY <2>1, Settings, FS_Subset
  <2> QED
    BY <2>2, Settings, FS_CardinalityType, FS_EmptySet
<1>3. DOMAIN q = Horizons /\ \A n \in Horizons : q[n] \in Int
  BY <1>1
<1>4. Scan!SumFunction(q) = SumIn(q, DOMAIN q)
  <2> HIDE DEF q
  <2> QED
    BY Zenon DEF Scan!SumFunction, Scan!SumFunctionOnSet, Scan!FoldFunctionOnSet, Scan!MapThenFoldSet, SumIn, Sums, AreSums, One
<1> HIDE DEF q
<1>5. Scan!SumFunction(q) \in Int
  BY <1>2, <1>3, <1>4, SumInt
<1>6. Scan!AbsDiff(0, Scan!SumFunction(q)) \in Int
  BY <1>5 DEF Scan!AbsDiff
<1>7. Scan!AbsDiff(0, Scan!SumFunction(q)) \div Cardinality(Horizons) \in Int
  BY <1>2, <1>6, Quotient
<1>8. Scan!Cardinality(Horizons) = Cardinality(Horizons)
  BY Zenon DEF Scan!Cardinality, Cardinality
<1> QED
  BY <1>7, <1>8 DEF q, Scan!Strength

\* A rise or a fall beyond the threshold is one.
LEMMA HorizonsMoved ==
    ASSUME ScanInv, Len(Scan!Spot) = Length, NEW n \in Horizons
    PROVE  /\ Scan!Rising(n) => Scan!Now > Scan!Spot[n + 1]
           /\ Scan!Falling(n) => Scan!Now < Scan!Spot[n + 1]
<1>1. n + 1 \in 1 .. Length /\ Scale \in Nat \ {0} /\ RocThreshold \in Nat
  BY Settings
<1>2. Scan!Spot[n + 1] \in Nat /\ Scan!Now \in Int
  BY <1>1, Window
<1>3. RocThreshold * Scan!Spot[n + 1] \in Nat
  BY <1>1, <1>2
<1>4. ASSUME NEW a \in Int, NEW b \in Int, (a - b) * Scale > RocThreshold * Scan!Spot[n + 1]
      PROVE  a > b
  <2>1. (a - b) * Scale > 0 /\ a - b \in Int
    BY <1>1, <1>3, <1>4
  <2>2. Scale * 0 < Scale * (a - b)
    BY <1>1, <2>1
  <2>3. 0 < a - b
    BY <1>1, <2>1, <2>2, TimesLess
  <2> QED
    BY <2>3
<1> DEFINE past == Scan!Spot[n + 1]
           now == Scan!Now
<1>5. now \in Int /\ past \in Int
  BY <1>2
<1>6. Scan!Rising(n) => (now - past) * Scale > RocThreshold * past
  BY DEF Scan!Rising
<1>7. Scan!Falling(n) => (past - now) * Scale > RocThreshold * past
  BY DEF Scan!Falling
<1>8. (now - past) * Scale > RocThreshold * past => now > past
  BY <1>4, <1>5
<1>9. (past - now) * Scale > RocThreshold * past => past > now
  BY <1>4, <1>5
<1> QED
  BY <1>5, <1>6, <1>7, <1>8, <1>9

LEMMA MomentumStep == ScanInv /\ Scan!ScanMomentum => ScanInv'
<1> SUFFICES ASSUME ScanInv, Scan!ScanMomentum PROVE ScanInv'
  OBVIOUS
<1> DEFINE claim == IF Scan!Strength - ScanFee > MinEdge THEN Scan!Strength - ScanFee ELSE MinEdge
           O(atr, direction) == [Scan!Opportunity("momentum", "spot", "none", "none", direction,
                                                  (2 * atr * Scale) \div Scan!Now, claim)
                                 EXCEPT !.stop = (atr * StopNum) \div StopDen, !.target = 2 * atr]
<1>1. PICK atr \in Scan!Atrs : \E direction \in {Scan!Momentum, Scan!MomentumBars} :
          /\ direction # "none" /\ Scan!Worth(2 * atr * StopDen, atr * StopNum)
          /\ Scan!Publish(O(atr, direction))
  BY Zenon DEF Scan!ScanMomentum
<1>2. PICK direction : /\ direction = Scan!Momentum /\ direction # "none"
                       /\ Scan!Worth(2 * atr * StopDen, atr * StopNum)
                       /\ Scan!Publish(O(atr, direction))
  BY <1>1 DEF Scan!MomentumBars
<1>3. Len(Scan!Spot) = Length /\ inForce \notin {"ranging", "low_volatility"}
  BY DEF Scan!ScanMomentum
<1>4. atr \in Int
  BY <1>3, AtrsAreInt
<1>5. 2 * atr * RrDen >= RrNum * ((atr * StopNum) \div StopDen)
  BY <1>2, <1>4, StopPays
<1>6. /\ direction \in {"buy", "sell"}
      /\ direction = "buy" => \A n \in Horizons : Scan!Rising(n)
      /\ direction = "sell" => \A n \in Horizons : Scan!Falling(n)
  BY <1>2 DEF Scan!Momentum
<1>7. claim >= MinEdge
  BY <1>3, StrengthInt, Settings
<1> DEFINE o == O(atr, direction)
<1> HIDE DEF claim
<1>8. /\ o.strategy = "momentum" /\ o.primary = "spot" /\ o.tv_action = "none" /\ o.direction = direction
      /\ o.net = claim /\ o.stop = (atr * StopNum) \div StopDen /\ o.target = 2 * atr
  BY DEF Scan!Opportunity
<1> HIDE DEF o
<1>9. Scan!BuildOrderPlan(o) # <<>> /\ (Scan!Buys(o, "spot") <=> direction = "buy")
  BY <1>6, <1>8, ScannedSide DEF Scan!Directional
<1>10. \A n \in Horizons : IF direction = "buy" THEN Scan!Now > Scan!Spot[n + 1] ELSE Scan!Now < Scan!Spot[n + 1]
  BY <1>3, <1>6, HorizonsMoved
<1>11. TradedRight(o)
  BY <1>8, <1>9, <1>10 DEF TradedRight
<1>12. Pays(o) /\ InItsRegime(o)
  BY <1>3, <1>5, <1>7, <1>8 DEF Pays, InItsRegime
<1> QED
  BY <1>2, <1>11, <1>12, PublishStep DEF Right, o

\* The band, and the distance to the mean, are numbers.
LEMMA BandTyped ==
    ASSUME ScanInv, Len(Scan!Spot) = Length
    PROVE  /\ Scan!Total(Scan!Newest(Scan!Spot, BbPeriod)) \in Int
           /\ Scan!Gap \in Int /\ Scan!Band \in Int
           /\ Scan!Now * BbPeriod \in Int
           /\ Scan!Gap = Scan!Total(Scan!Newest(Scan!Spot, BbPeriod)) - Scan!Now * BbPeriod
<1> DEFINE q == Scan!Newest(Scan!Spot, BbPeriod)
           squares == [i \in DOMAIN q |-> q[i] * q[i]]
<1>1. Scan!Spot \in Seq(Ticks) /\ Scan!Now \in Int
  BY Window
<1>2. BbPeriod \in Nat /\ BbPeriod <= Len(Scan!Spot)
  BY Settings
<1>3. q \in Seq(Int)
  <2>1. Scan!Spot \in Seq(Int)
    BY <1>1 DEF Ticks
  <2> QED
    BY <1>2, <2>1 DEF Scan!Newest
<1> HIDE DEF q
<1>4. squares \in Seq(Int)
  <2>1. DOMAIN q = 1 .. Len(q) /\ Len(q) \in Nat /\ \A i \in DOMAIN q : q[i] \in Int
    BY <1>3
  <2>2. \A i \in DOMAIN q : q[i] * q[i] \in Int
    BY <2>1
  <2> QED
    BY <2>1, <2>2
<1>5. Scan!Total(q) \in Int /\ Scan!Total(squares) \in Int /\ Len(q) \in Nat
  BY <1>3, <1>4, TotalInt
<1>6. Scan!Squares(q) \in Int
  BY <1>5, Zenon DEF Scan!Squares
<1>7. Scan!Variance(q) \in Int
  <2>1. Len(q) * Scan!Squares(q) \in Int /\ Scan!Total(q) * Scan!Total(q) \in Int
    BY <1>5, <1>6
  <2> QED
    BY <2>1 DEF Scan!Variance
<1>8. Scan!Now * BbPeriod \in Int /\ Scan!Now * BbPeriod = BbPeriod * Scan!Now
  BY <1>1, <1>2
<1> QED
  BY <1>5, <1>7, <1>8 DEF q, Scan!Gap, Scan!Band

LEMMA ReversionStep == ScanInv /\ Scan!ScanReversion => ScanInv'
<1> SUFFICES ASSUME ScanInv, Scan!ScanReversion PROVE ScanInv'
  OBVIOUS
<1> DEFINE O(direction) == Scan!Opportunity("mean_reversion_scalp", "spot", "none", "none", direction,
                                            Scan!RevertEdge, Scan!RevertEdge - ScanFee)
<1>1. /\ Len(Scan!Spot) = Length /\ inForce \notin {"trending_bull", "trending_bear", "high_volatility"}
      /\ Scan!RevertEdge - ScanFee >= MinEdge /\ Scan!Band > 0
  BY DEF Scan!ScanReversion
<1>2. PICK direction : direction = Scan!Reversion /\ direction # "none" /\ Scan!Publish(O(direction))
  BY DEF Scan!ScanReversion, Scan!ReversionBars
<1>3. /\ direction \in {"buy", "sell"} /\ Scan!Gap * Scan!Gap >= Scan!Band
      /\ direction = "buy" => Scan!Gap >= 0
      /\ direction = "sell" => Scan!Gap <= 0
  BY <1>2 DEF Scan!Reversion
<1> DEFINE o == O(direction)
<1>4. /\ o.strategy = "mean_reversion_scalp" /\ o.primary = "spot" /\ o.tv_action = "none" /\ o.direction = direction
      /\ o.expected = Scan!RevertEdge /\ o.net = Scan!RevertEdge - ScanFee /\ o.stop = 0
  BY DEF Scan!Opportunity
<1> HIDE DEF o
<1>5. Scan!BuildOrderPlan(o) # <<>> /\ (Scan!Buys(o, "spot") <=> direction = "buy")
  BY <1>3, <1>4, ScannedSide DEF Scan!Directional
<1>6. IF direction = "buy"
      THEN Scan!Now * BbPeriod < Scan!Mean(Scan!Newest(Scan!Spot, BbPeriod))
      ELSE Scan!Now * BbPeriod > Scan!Mean(Scan!Newest(Scan!Spot, BbPeriod))
  <2> DEFINE sum == Scan!Total(Scan!Newest(Scan!Spot, BbPeriod))
             now == Scan!Now * BbPeriod
             gap == Scan!Gap
  <2>1. sum \in Int /\ now \in Int /\ gap \in Int /\ Scan!Band \in Int /\ gap = sum - now
    BY <1>1, BandTyped
  <2>2. gap # 0
    BY <1>1, <1>3, <2>1
  <2>3. IF direction = "buy" THEN gap >= 0 ELSE gap <= 0
    BY <1>3
  <2> HIDE DEF sum, now, gap
  <2>4. IF direction = "buy" THEN now < sum ELSE now > sum
    BY <2>1, <2>2, <2>3
  <2> QED
    BY <2>4 DEF sum, now, Scan!Mean
<1>7. TradedRight(o)
  BY <1>4, <1>5, <1>6 DEF TradedRight
<1>8. Pays(o) /\ InItsRegime(o)
  BY <1>1, <1>4 DEF Pays, InItsRegime
<1> QED
  BY <1>2, <1>7, <1>8, PublishStep DEF Right, o

LEMMA ScanStep == ScanInv /\ [Scan!Next]_(Scan!vars) => ScanInv'
<1> SUFFICES ASSUME ScanInv, [Scan!Next]_(Scan!vars) PROVE ScanInv'
  OBVIOUS
<1>1. CASE UNCHANGED Scan!vars
  <2>1. UNCHANGED <<cache, rate, inForce, published>>
    BY <1>1 DEF Scan!vars
  <2>2. \A o \in published' : Right(o)'
    BY <2>1, StaysRight DEF ScanInv
  <2> QED
    BY <2>1, <2>2 DEF ScanInv
<1>2. CASE (\E s \in Scan!Symbols : \E p \in MCPrices[s] : Scan!Tick(s, p)) \/ (\E r \in Regimes : Scan!NewRegime(r))
  BY <1>2, MarketStep
<1>3. CASE Scan!ScanBreakout
  BY <1>3, BreakoutStep
<1>4. CASE Scan!ScanMomentum
  BY <1>4, MomentumStep
<1>5. CASE Scan!ScanReversion
  BY <1>5, ReversionStep
<1>6. CASE Scan!ScanFunding
  <2>1. "none" \in Scan!Actions \cup {"none"}
    OBVIOUS
  <2> QED
    BY <1>6, <2>1, FundingStep
<1>7. CASE Scan!ScanPair
  <2>1. "none" \in Scan!Actions \cup {"none"}
    OBVIOUS
  <2> QED
    BY <1>7, <2>1, PairStep
<1>8. ASSUME NEW a \in Scan!Actions,
             Scan!SignalFunding(a) \/ Scan!SignalPair(a) \/ \E n \in Scan!Directional : Scan!SignalDirectional(n, a)
      PROVE  ScanInv'
  BY <1>8, FundingStep, PairStep, SignalDirectionalStep
<1> QED
  BY <1>1, <1>2, <1>3, <1>4, <1>5, <1>6, <1>7, <1>8, Zenon DEF Scan!Next

(* What a strategy publishes pays by its own rule and in its regime, and   *)
(* the executor's order plan trades it the way the strategy meant, for     *)
(* any prices, rates and windows (scan, run_from_signal, _resolve_side,    *)
(* _LEG_DIRECTIONS).                                                       *)
THEOREM PublishedAlwaysAsMeant == Spec => []PublishedAsMeant
<1>1. Scan!Init => ScanInv
  BY ScanInit
<1>2. ScanInv /\ [Scan!Next]_(Scan!vars) => ScanInv'
  BY ScanStep
<1>3. ScanInv => PublishedAsMeant
  BY RightIsMeant
<1>4. Spec => Scan!Spec
  BY PartsRun
<1> QED
  BY <1>1, <1>2, <1>3, <1>4, PTL DEF Scan!Spec

-----------------------------------------------------------------------------
(* The research (Backtest).                                                *)

LEMMA SameOrder == ASSUME NEW S PROVE Test!Ordered(S) = Ordered(S)
BY Zenon DEF Test!Ordered, Ordered, Test!Cardinality, Cardinality

LEMMA SameLargest == ASSUME NEW S PROVE Test!Max(S) = Largest(S)
BY Zenon DEF Test!Max, Largest

LEMMA SumOfAll == ASSUME NEW q PROVE Test!Sum(q) = SumIn(q, DOMAIN q)
BY Zenon DEF Test!Sum, Test!FoldSeq, Test!FoldFunction, Test!FoldFunctionOnSet, Test!MapThenFoldSet, SumIn, Sums, AreSums, One

\* r goes on where q ends.
Extends(q, r) == Len(q) <= Len(r) /\ \A i \in 1 .. Len(q) : r[i] = q[i]

LEMMA PrefixIs ==
    ASSUME NEW S, NEW q \in Seq(S), NEW r \in Seq(S)
    PROVE  Test!IsPrefix(q, r) <=> Extends(q, r)
<1>1. Len(q) \in Nat /\ Len(r) \in Nat
  OBVIOUS
<1>2. SubSeq(q, 1, Len(q)) = [i \in 1 .. Len(q) |-> q[i]]
  OBVIOUS
<1>3. SubSeq(r, 1, Len(q)) = [i \in 1 .. Len(q) |-> r[i]]
  OBVIOUS
<1>4. ([i \in 1 .. Len(q) |-> q[i]] = [i \in 1 .. Len(q) |-> r[i]]) <=> \A i \in 1 .. Len(q) : r[i] = q[i]
  OBVIOUS
<1> QED
  BY <1>1, <1>2, <1>3, <1>4 DEF Test!IsPrefix, Extends

LEMMA CountIs ==
    ASSUME NEW n \in Nat
    PROVE  /\ DOMAIN Test!Count(n) = 1 .. n
           /\ \A i \in 1 .. n : Test!Count(n)[i] = i
BY DEF Test!Count

-----------------------------------------------------------------------------
(* run_funding_arb.                                                        *)

Candles == [close : Nat, mid : Nat, perp : Nat, rate : Int]
Trade == [entry : Nat, exit : Nat, gross : Int, fee : Int, net : Int]

Start == [entry |-> 0, trades |-> <<>>]

AreFundings(q, edge, fee, c) ==
    c = [s \in SUBSET DOMAIN Test!Count(Len(q)) |->
            IF s = {} THEN Start
            ELSE Test!FundingStep(q, edge, fee, c[s \ {Test!Max(s)}], Test!Count(Len(q))[Test!Max(s)])]

Fundings(q, edge, fee) == CHOOSE c : AreFundings(q, edge, fee, c)

LEMMA FundingsFold ==
    ASSUME NEW q, NEW edge, NEW fee
    PROVE  Test!FundingTrades(q, edge, fee) = Fundings(q, edge, fee)[DOMAIN Test!Count(Len(q))].trades
BY Zenon DEF Test!FundingTrades, Test!FoldLeft, Test!MapThenFoldSet, Fundings, AreFundings, Start

\* What a simulation knows after some of n candles: where it is in, and its trades.
Known(q) == {acc \in [entry : 0 .. Len(q), trades : Seq(Trade)] : acc.entry # 0 => q[acc.entry].close # 0}

LEMMA FundingTradeTyped ==
    ASSUME NEW q \in Seq(Candles), NEW fee \in Int, NEW i \in 1 .. Len(q), NEW j \in 1 .. Len(q), q[i].close # 0
    PROVE  Test!FundingTrade(q, i, j, fee) \in Trade
<1>1. q[i] \in Candles /\ q[j] \in Candles /\ i \in Nat /\ j \in Nat
  OBVIOUS
<1>2. q[i].close \in Nat \ {0} /\ q[j].close \in Nat /\ q[i].rate \in Int /\ Position \in Int
  BY <1>1, ResearchAssumption DEF Candles
<1> DEFINE gain == (q[i].rate * Position) \div 10000
           move == ((q[j].close - q[i].close) * Position) \div q[i].close
           fees == (4 * fee * Position) \div 10000
<1>3. gain \in Int /\ fees \in Int
  BY <1>2
<1>4. move \in Int
  <2>1. (q[j].close - q[i].close) * Position \in Int
    BY <1>2
  <2> QED
    BY <1>2, <2>1, Quotient
<1>5. gain + move \in Int
  <2> HIDE DEF gain, move
  <2> QED
    BY <1>3, <1>4
<1>6. \A x, y \in Int : [entry |-> i, exit |-> j, gross |-> x, fee |-> y, net |-> x - y] \in Trade
  BY <1>1 DEF Trade
<1>7. [entry |-> i, exit |-> j, gross |-> gain + move, fee |-> fees, net |-> (gain + move) - fees] \in Trade
  <2> HIDE DEF gain, move, fees
  <2> QED
    BY <1>3, <1>5, <1>6
<1> QED
  BY <1>7 DEF Test!FundingTrade

LEMMA FundingStepTyped ==
    ASSUME NEW q \in Seq(Candles), NEW edge, NEW fee \in Int, NEW acc \in Known(q), NEW i \in 1 .. Len(q)
    PROVE  Test!FundingStep(q, edge, fee, acc, i) \in Known(q)
<1>1. acc \in [entry : 0 .. Len(q), trades : Seq(Trade)] /\ (acc.entry # 0 => q[acc.entry].close # 0)
  BY DEF Known
<1>2. CASE q[i].close = 0
  BY <1>2 DEF Test!FundingStep
<1>3. CASE q[i].close # 0 /\ acc.entry # 0
  <2> DEFINE t == Test!FundingTrade(q, acc.entry, i, fee)
  <2>1. t \in Trade
    <3>1. acc.entry \in 1 .. Len(q)
      BY <1>1, <1>3
    <3> QED
      BY <1>1, <1>3, <3>1, FundingTradeTyped
  <2>2. Test!FundingStep(q, edge, fee, acc, i) = [entry |-> 0, trades |-> Append(acc.trades, t)]
    BY <1>3 DEF Test!FundingStep
  <2> HIDE DEF t
  <2> QED
    BY <1>1, <2>1, <2>2 DEF Known
<1>4. CASE q[i].close # 0 /\ acc.entry = 0 /\ q[i].rate > edge + 2 * fee
  <2>1. Test!FundingStep(q, edge, fee, acc, i) = [acc EXCEPT !.entry = i]
    BY <1>4 DEF Test!FundingStep
  <2> QED
    BY <1>1, <1>4, <2>1 DEF Known
<1>5. CASE q[i].close # 0 /\ acc.entry = 0 /\ ~(q[i].rate > edge + 2 * fee)
  BY <1>5 DEF Test!FundingStep
<1> QED
  BY <1>2, <1>3, <1>4, <1>5

LEMMA FundingsExist ==
    ASSUME NEW q \in Seq(Candles), NEW edge, NEW fee \in Int
    PROVE  AreFundings(q, edge, fee, Fundings(q, edge, fee))
<1> DEFINE n == Len(q)
           h == [i \in 1 .. n |-> [acc \in Known(q) |-> Test!FundingStep(q, edge, fee, acc, i)]]
<1>1. n \in Nat /\ Start \in Known(q)
  BY DEF Known, Start
<1>2. h \in [1 .. n -> [Known(q) -> Known(q)]]
  BY FundingStepTyped
<1>3. PICK g \in [SUBSET (1 .. n) -> Known(q)] : IsLoop(n, Known(q), Start, h, g)
  <2> HIDE DEF h, n
  <2> QED
    BY <1>1, <1>2, LoopExists
<1> DEFINE k == [s \in SUBSET (1 .. n) |->
                    IF s = {} THEN Start
                    ELSE Test!FundingStep(q, edge, fee, g[s \ {Test!Max(s)}], Test!Count(Len(q))[Test!Max(s)])]
<1>4. ASSUME NEW s \in SUBSET (1 .. n) PROVE g[s] = k[s]
  <2>1. CASE s = {}
    BY <1>3, <2>1 DEF IsLoop
  <2>2. CASE s # {}
    <3>1. Test!Max(s) = Largest(s) /\ Test!Count(n)[Largest(s)] = Largest(s)
      BY <1>1, <1>3, <2>2, SameLargest, CountIs DEF IsLoop
    <3>2. g[s] = Test!FundingStep(q, edge, fee, g[s \ {Largest(s)}], Largest(s))
      <4>1. Largest(s) \in 1 .. n /\ g[s \ {Largest(s)}] \in Known(q) /\ g[s] = h[Largest(s)][g[s \ {Largest(s)}]]
        BY <1>3, <2>2 DEF IsLoop
      <4> HIDE DEF n, k
      <4> QED
        BY <4>1
    <3> QED
      BY <2>2, <3>1, <3>2
  <2> QED
    BY <2>1, <2>2
<1>5. AreFundings(q, edge, fee, g)
  <2>1. g = k
    <3> HIDE DEF k
    <3>1. k = [s \in SUBSET (1 .. n) |-> k[s]]
      BY DEF k
    <3> QED
      BY <1>3, <1>4, <3>1
  <2>2. DOMAIN Test!Count(Len(q)) = 1 .. n
    BY <1>1, CountIs
  <2> QED
    BY <2>1, <2>2 DEF AreFundings
<1> QED
  BY <1>5, Zenon DEF Fundings

\* The simulation, candle by candle.
LEMMA FundingsRun ==
    ASSUME NEW q \in Seq(Candles), NEW edge, NEW fee \in Int
    PROVE  LET c == Fundings(q, edge, fee)
           IN  /\ Test!FundingTrades(q, edge, fee) = c[1 .. Len(q)].trades
               /\ c[1 .. 0] = Start
               /\ \A k \in Nat : k < Len(q) =>
                      c[1 .. (k + 1)] = Test!FundingStep(q, edge, fee, c[1 .. k], k + 1)
<1> DEFINE c == Fundings(q, edge, fee)
<1>1. Len(q) \in Nat /\ DOMAIN Test!Count(Len(q)) = 1 .. Len(q)
  BY CountIs
<1>2. AreFundings(q, edge, fee, c)
  BY FundingsExist
<1>5. Test!FundingTrades(q, edge, fee) = c[1 .. Len(q)].trades
  BY <1>1, FundingsFold
<1> HIDE DEF c
<1>6. \A s \in SUBSET (1 .. Len(q)) :
         c[s] = IF s = {} THEN Start
                ELSE Test!FundingStep(q, edge, fee, c[s \ {Test!Max(s)}], Test!Count(Len(q))[Test!Max(s)])
  BY <1>1, <1>2 DEF AreFundings
<1>3. c[1 .. 0] = Start
  <2>1. 1 .. 0 = {} /\ {} \in SUBSET (1 .. Len(q))
    OBVIOUS
  <2> QED
    BY <1>6, <2>1
<1>4. ASSUME NEW k \in Nat, k < Len(q)
      PROVE  c[1 .. (k + 1)] = Test!FundingStep(q, edge, fee, c[1 .. k], k + 1)
  <2>1. 1 .. (k + 1) \in SUBSET (1 .. Len(q)) /\ k + 1 \in 1 .. Len(q)
    BY <1>1, <1>4
  <2>2. Test!Max(1 .. (k + 1)) = k + 1 /\ (1 .. (k + 1)) \ {k + 1} = 1 .. k /\ 1 .. (k + 1) # {}
    BY LargestUpTo, SameLargest
  <2>3. Test!Count(Len(q))[k + 1] = k + 1
    BY <1>1, <2>1, CountIs
  <2> QED
    BY <1>6, <2>1, <2>2, <2>3
<1> QED
  BY <1>3, <1>4, <1>5 DEF c

LEMMA GoesOn ==
    ASSUME NEW S, NEW q \in Seq(S), NEW r \in Seq(S), NEW t \in Seq(S)
    PROVE  /\ Extends(q, q)
           /\ Extends(<<>>, q)
           /\ Extends(q, r) /\ Extends(r, t) => Extends(q, t)
           /\ \A x \in S : Extends(q, Append(q, x))
<1>1. Len(q) \in Nat /\ Len(r) \in Nat /\ Len(t) \in Nat /\ Len(<<>>) = 0
  OBVIOUS
<1>2. Extends(q, q) /\ Extends(<<>>, q)
  BY <1>1 DEF Extends
<1>3. ASSUME Extends(q, r), Extends(r, t) PROVE Extends(q, t)
  BY <1>1, <1>3 DEF Extends
<1>4. ASSUME NEW x \in S PROVE Extends(q, Append(q, x))
  BY <1>1 DEF Extends
<1> QED
  BY <1>2, <1>3, <1>4

\* Where a simulation is in was a candle seen; no trade is taken back.
LEMMA FundingsTyped ==
    ASSUME NEW q \in Seq(Candles), NEW edge, NEW fee \in Int, NEW k \in 0 .. Len(q)
    PROVE  /\ Fundings(q, edge, fee)[1 .. k] \in Known(q)
           /\ Fundings(q, edge, fee)[1 .. k].entry <= k
<1> DEFINE c == Fundings(q, edge, fee)
           Good == {m \in Nat : m <= Len(q) => c[1 .. m] \in Known(q) /\ c[1 .. m].entry <= m}
<1>1. /\ c[1 .. 0] = Start
      /\ \A m \in Nat : m < Len(q) => c[1 .. (m + 1)] = Test!FundingStep(q, edge, fee, c[1 .. m], m + 1)
  BY FundingsRun
<1> HIDE DEF c
<1>2. 0 \in Good
  <2>1. Start \in Known(q) /\ Start.entry <= 0
    BY DEF Known, Start
  <2>2. c[1 .. 0] \in Known(q) /\ c[1 .. 0].entry <= 0
    BY <1>1, <2>1
  <2> QED
    BY <2>2
<1>3. ASSUME NEW m \in Good PROVE m + 1 \in Good
  <2> SUFFICES ASSUME m + 1 <= Len(q) PROVE c[1 .. (m + 1)] \in Known(q) /\ c[1 .. (m + 1)].entry <= m + 1
    OBVIOUS
  <2>1. m \in Nat /\ Len(q) \in Nat /\ m < Len(q) /\ m + 1 \in 1 .. Len(q)
    OBVIOUS
  <2>2. c[1 .. m] \in Known(q) /\ c[1 .. m].entry <= m
    BY <2>1
  <2>3. c[1 .. (m + 1)] = Test!FundingStep(q, edge, fee, c[1 .. m], m + 1)
    BY <1>1, <2>1
  <2>4. Test!FundingStep(q, edge, fee, c[1 .. m], m + 1).entry \in {c[1 .. m].entry, 0, m + 1}
    BY <2>2 DEF Test!FundingStep, Known
  <2>5. c[1 .. (m + 1)] \in Known(q)
    BY <2>1, <2>2, <2>3, FundingStepTyped
  <2>6. c[1 .. (m + 1)].entry \in {c[1 .. m].entry, 0, m + 1}
    BY <2>3, <2>4
  <2>7. c[1 .. m].entry \in Int
    BY <2>2 DEF Known
  <2> QED
    BY <2>1, <2>2, <2>5, <2>6, <2>7
<1>4. Good \in SUBSET Nat
  OBVIOUS
<1>5. Good = Nat
  <2> HIDE DEF Good
  <2> QED
    BY <1>2, <1>3, <1>4, CountUp
<1>6. k \in Good /\ k <= Len(q)
  BY <1>5
<1> QED
  BY <1>6 DEF c

LEMMA TradesGrow ==
    ASSUME NEW n \in Nat, NEW a, \A m \in 0 .. n : a[m] \in Seq(Trade),
           \A m \in Nat : m < n => a[m + 1] = a[m] \/ \E t \in Trade : a[m + 1] = Append(a[m], t),
           NEW j \in Nat, NEW k \in Nat, j <= k, k <= n
    PROVE  Extends(a[j], a[k])
<1> DEFINE Good == {d \in Nat : j + d <= n => Extends(a[j], a[j + d])}
<1>1. 0 \in Good
  BY GoesOn
<1>2. ASSUME NEW d \in Good PROVE d + 1 \in Good
  <2> SUFFICES ASSUME j + (d + 1) <= n PROVE Extends(a[j], a[j + (d + 1)])
    OBVIOUS
  <2>1. /\ j + d \in Nat /\ j + d < n /\ j + d \in 0 .. n /\ j + d + 1 \in 0 .. n /\ j \in 0 .. n
        /\ j + (d + 1) = j + d + 1
    OBVIOUS
  <2>2. Extends(a[j], a[j + d])
    BY <2>1
  <2>3. Extends(a[j + d], a[j + d + 1])
    <3>1. a[j + d] \in Seq(Trade)
      BY <2>1
    <3>2. a[j + d + 1] = a[j + d] \/ \E t \in Trade : a[j + d + 1] = Append(a[j + d], t)
      BY <2>1
    <3>3. CASE a[j + d + 1] = a[j + d]
      BY <3>1, <3>3, GoesOn
    <3>4. ASSUME NEW t \in Trade, a[j + d + 1] = Append(a[j + d], t) PROVE Extends(a[j + d], a[j + d + 1])
      BY <3>1, <3>4, GoesOn
    <3> QED
      BY <3>2, <3>3, <3>4
  <2>4. a[j] \in Seq(Trade) /\ a[j + d] \in Seq(Trade) /\ a[j + d + 1] \in Seq(Trade)
    BY <2>1
  <2>5. Extends(a[j], a[j + d + 1])
    BY <2>2, <2>3, <2>4, GoesOn
  <2> QED
    BY <2>1, <2>5
<1>3. Good \in SUBSET Nat
  OBVIOUS
<1>4. Good = Nat
  <2> HIDE DEF Good
  <2> QED
    BY <1>1, <1>2, <1>3, CountUp
<1>5. k - j \in Nat /\ j + (k - j) = k
  OBVIOUS
<1>6. k - j \in Good
  BY <1>4, <1>5
<1> QED
  BY <1>5, <1>6

LEMMA FundingsGrow ==
    ASSUME NEW q \in Seq(Candles), NEW edge, NEW fee \in Int, NEW j \in Nat, NEW k \in Nat, j <= k, k <= Len(q)
    PROVE  Extends(Fundings(q, edge, fee)[1 .. j].trades, Fundings(q, edge, fee)[1 .. k].trades)
<1> DEFINE c == Fundings(q, edge, fee)
           n == Len(q)
           a == [m \in 0 .. n |-> c[1 .. m].trades]
<1>1. \A m \in Nat : m < n => c[1 .. (m + 1)] = Test!FundingStep(q, edge, fee, c[1 .. m], m + 1)
  BY FundingsRun
<1>2. \A m \in 0 .. n : c[1 .. m] \in Known(q)
  BY FundingsTyped
<1> HIDE DEF c
<1>3. ASSUME NEW m \in Nat, m < n PROVE a[m + 1] = a[m] \/ \E t \in Trade : a[m + 1] = Append(a[m], t)
  <2>1. n \in Nat /\ m \in 0 .. n /\ m + 1 \in 0 .. n /\ m + 1 \in 1 .. n
    BY <1>3
  <2>2. c[1 .. (m + 1)] = Test!FundingStep(q, edge, fee, c[1 .. m], m + 1) /\ c[1 .. m] \in Known(q)
    BY <1>1, <1>2, <1>3, <2>1
  <2>3. a[m] = c[1 .. m].trades /\ a[m + 1] = c[1 .. (m + 1)].trades
    BY <2>1
  <2> HIDE DEF a
  <2>4. CASE q[m + 1].close # 0 /\ c[1 .. m].entry # 0
    <3> DEFINE t == Test!FundingTrade(q, c[1 .. m].entry, m + 1, fee)
    <3>1. t \in Trade
      <4>1. c[1 .. m].entry \in 1 .. Len(q) /\ q[c[1 .. m].entry].close # 0
        BY <2>2, <2>4 DEF Known
      <4> QED
        BY <2>1, <4>1, FundingTradeTyped
    <3>2. c[1 .. (m + 1)].trades = Append(c[1 .. m].trades, t)
      BY <2>2, <2>4 DEF Test!FundingStep
    <3> HIDE DEF t
    <3> QED
      BY <2>3, <3>1, <3>2
  <2>5. CASE ~(q[m + 1].close # 0 /\ c[1 .. m].entry # 0)
    BY <2>2, <2>3, <2>5 DEF Test!FundingStep, Known
  <2> QED
    BY <2>4, <2>5
<1>4. \A m \in 0 .. n : a[m] \in Seq(Trade)
  BY <1>2 DEF Known
<1>5. n \in Nat /\ j \in 0 .. n /\ k \in 0 .. n
  OBVIOUS
<1>6. Extends(a[j], a[k])
  <2> HIDE DEF a
  <2> QED
    BY <1>3, <1>4, <1>5, TradesGrow
<1> QED
  BY <1>5, <1>6 DEF c

\* On a market that goes on, the simulation has done the same.
LEMMA FundingsExtend ==
    ASSUME NEW q \in Seq(Candles), NEW r \in Seq(Candles), Extends(q, r), NEW edge, NEW fee \in Int
    PROVE  /\ Test!FundingTrades(q, edge, fee) \in Seq(Trade)
           /\ Test!FundingTrades(r, edge, fee) \in Seq(Trade)
           /\ Extends(Test!FundingTrades(q, edge, fee), Test!FundingTrades(r, edge, fee))
<1> DEFINE c == Fundings(q, edge, fee)
           d == Fundings(r, edge, fee)
           Good == {m \in Nat : m <= Len(q) => d[1 .. m] = c[1 .. m]}
<1>1. /\ Test!FundingTrades(q, edge, fee) = c[1 .. Len(q)].trades
      /\ c[1 .. 0] = Start
      /\ \A m \in Nat : m < Len(q) => c[1 .. (m + 1)] = Test!FundingStep(q, edge, fee, c[1 .. m], m + 1)
  BY FundingsRun
<1>2. /\ Test!FundingTrades(r, edge, fee) = d[1 .. Len(r)].trades
      /\ d[1 .. 0] = Start
      /\ \A m \in Nat : m < Len(r) => d[1 .. (m + 1)] = Test!FundingStep(r, edge, fee, d[1 .. m], m + 1)
  BY FundingsRun
<1>3. \A m \in 0 .. Len(q) : c[1 .. m] \in Known(q) /\ c[1 .. m].entry <= m
  BY FundingsTyped
<1>4. \A m \in 0 .. Len(r) : d[1 .. m] \in Known(r)
  BY FundingsTyped
<1>5. Len(q) \in Nat /\ Len(r) \in Nat /\ Len(q) <= Len(r) /\ \A i \in 1 .. Len(q) : r[i] = q[i]
  BY DEF Extends
<1>6. Extends(d[1 .. Len(q)].trades, d[1 .. Len(r)].trades)
  BY <1>5, FundingsGrow
<1> HIDE DEF c, d
<1>7. 0 \in Good
  BY <1>1, <1>2
<1>8. ASSUME NEW m \in Good PROVE m + 1 \in Good
  <2> SUFFICES ASSUME m + 1 <= Len(q) PROVE d[1 .. (m + 1)] = c[1 .. (m + 1)]
    OBVIOUS
  <2>1. m \in Nat /\ m < Len(q) /\ m < Len(r) /\ m \in 0 .. Len(q) /\ m + 1 \in 1 .. Len(q)
    BY <1>5
  <2>2. d[1 .. m] = c[1 .. m]
    BY <2>1
  <2>3. c[1 .. m] \in Known(q) /\ c[1 .. m].entry <= m
    BY <1>3, <2>1
  <2>4. r[m + 1] = q[m + 1]
    BY <1>5, <2>1
  <2>5. c[1 .. m].entry # 0 => r[c[1 .. m].entry] = q[c[1 .. m].entry]
    <3>1. c[1 .. m].entry # 0 => c[1 .. m].entry \in 1 .. Len(q)
      BY <2>3 DEF Known
    <3> QED
      BY <1>5, <3>1
  <2>6. Test!FundingStep(r, edge, fee, c[1 .. m], m + 1) = Test!FundingStep(q, edge, fee, c[1 .. m], m + 1)
    <3>1. c[1 .. m].entry # 0 =>
             Test!FundingTrade(r, c[1 .. m].entry, m + 1, fee) = Test!FundingTrade(q, c[1 .. m].entry, m + 1, fee)
      BY <2>4, <2>5 DEF Test!FundingTrade
    <3> QED
      BY <2>4, <3>1 DEF Test!FundingStep
  <2> QED
    BY <1>1, <1>2, <2>1, <2>2, <2>6
<1>9. Good \in SUBSET Nat
  OBVIOUS
<1>10. Good = Nat
  <2> HIDE DEF Good
  <2> QED
    BY <1>7, <1>8, <1>9, CountUp
<1>11. d[1 .. Len(q)] = c[1 .. Len(q)]
  BY <1>5, <1>10
<1>12. c[1 .. Len(q)].trades \in Seq(Trade) /\ d[1 .. Len(r)].trades \in Seq(Trade)
  <2>1. c[1 .. Len(q)] \in Known(q) /\ d[1 .. Len(r)] \in Known(r)
    BY <1>3, <1>4, <1>5
  <2> QED
    BY <2>1 DEF Known
<1> QED
  BY <1>1, <1>2, <1>6, <1>11, <1>12

-----------------------------------------------------------------------------
(* run_stat_arb.                                                           *)

\* The candles both legs have.
Aligned == {m \in Candles : m.close # 0 /\ m.mid # 0 /\ m.perp # 0}

Rules == [window : Nat, z : Nat]

LEMMA SpreadInt ==
    ASSUME NEW q \in Seq(Candles), NEW i \in 1 .. Len(q)
    PROVE  Test!Spread(q, i) \in Int
<1>1. q[i] \in Candles
  OBVIOUS
<1> QED
  BY <1>1 DEF Test!Spread, Candles

LEMMA BeforeInt ==
    ASSUME NEW q \in Seq(Candles), NEW w \in Nat, NEW i \in w + 1 .. Len(q)
    PROVE  /\ Test!Before(q, i, w) \in [1 .. w -> Int]
           /\ Test!Sum(Test!Before(q, i, w)) \in Int
<1>1. ASSUME NEW k \in 1 .. w PROVE Test!Spread(q, i - w + k - 1) \in Int
  <2>1. i - w + k - 1 \in 1 .. Len(q)
    OBVIOUS
  <2> QED
    BY <2>1, SpreadInt
<1>2. Test!Before(q, i, w) \in [1 .. w -> Int]
  BY <1>1 DEF Test!Before
<1> DEFINE b == Test!Before(q, i, w)
<1>3. Test!Sum(b) = SumIn(b, 1 .. w)
  BY <1>2, SumOfAll
<1>4. IsFiniteSet(1 .. w) /\ \A x \in 1 .. w : b[x] \in Int
  BY <1>2, FS_Interval
<1>5. SumIn(b, 1 .. w) \in Int
  <2> HIDE DEF b
  <2> QED
    BY <1>4, SumInt
<1> QED
  BY <1>2, <1>3, <1>5

LEMMA StatTradeTyped ==
    ASSUME NEW q \in Seq(Aligned), NEW w \in Nat, NEW i \in w + 1 .. Len(q), NEW j \in 1 .. Len(q)
    PROVE  Test!StatTrade(q, i, j, w) \in Trade
<1>1. q \in Seq(Candles) /\ i \in 1 .. Len(q) /\ q[i] \in Aligned /\ i \in Nat /\ j \in Nat
  BY DEF Aligned
<1>2. q[i].mid \in Nat \ {0} /\ Position \in Int /\ Fee \in Int
  BY <1>1, ResearchAssumption DEF Aligned, Candles
<1> DEFINE change == Test!Spread(q, i) - Test!Spread(q, j)
           way == IF Test!Rich(q, i, w) THEN change ELSE -change
           gross == (way * Position) \div q[i].mid
           fees == (4 * Fee * Position) \div 10000
<1>3. fees \in Int
  BY <1>2
<1>4. way \in Int
  <2>1. Test!Spread(q, i) \in Int /\ Test!Spread(q, j) \in Int
    BY <1>1, SpreadInt
  <2> QED
    BY <2>1
<1>5. gross \in Int
  <2> HIDE DEF way
  <2>1. way * Position \in Int
    BY <1>2, <1>4
  <2> QED
    BY <1>2, <2>1, Quotient
<1>6. \A x, y \in Int : [entry |-> i, exit |-> j, gross |-> x, fee |-> y, net |-> x - y] \in Trade
  BY <1>1 DEF Trade
<1>7. [entry |-> i, exit |-> j, gross |-> gross, fee |-> fees, net |-> gross - fees] \in Trade
  <2> HIDE DEF gross, fees
  <2> QED
    BY <1>3, <1>5, <1>6
<1> QED
  BY <1>7 DEF Test!StatTrade

\* What the simulation knows: where it is in, after a whole window, and its trades.
Held(q, w) == {acc \in [entry : Nat, trades : Seq(Trade)] : acc.entry # 0 => acc.entry \in w + 1 .. Len(q)}

LEMMA StatStepTyped ==
    ASSUME NEW q \in Seq(Aligned), NEW p \in Rules, NEW acc \in Held(q, p.window),
           NEW i \in p.window + 1 .. Len(q)
    PROVE  LET after == Test!StatStep(q, p, acc, i)
           IN  /\ after \in Held(q, p.window)
               /\ after.entry \in {0, i, acc.entry}
               /\ after.trades = acc.trades \/ \E t \in Trade : after.trades = Append(acc.trades, t)
<1> DEFINE after == Test!StatStep(q, p, acc, i)
<1>1. /\ acc \in [entry : Nat, trades : Seq(Trade)] /\ (acc.entry # 0 => acc.entry \in p.window + 1 .. Len(q))
      /\ p.window \in Nat /\ i \in Nat
  BY DEF Held, Rules
<1>2. CASE after = acc
  BY <1>1, <1>2
<1>3. CASE acc.entry = 0 /\ after = [acc EXCEPT !.entry = i]
  BY <1>1, <1>3 DEF Held
<1>4. CASE acc.entry # 0 /\ after = [entry |-> 0, trades |-> Append(acc.trades, Test!StatTrade(q, acc.entry, i, p.window))]
  <2> DEFINE t == Test!StatTrade(q, acc.entry, i, p.window)
  <2>1. t \in Trade
    <3>1. acc.entry \in p.window + 1 .. Len(q) /\ i \in 1 .. Len(q)
      BY <1>1, <1>4
    <3> QED
      BY <1>1, <3>1, StatTradeTyped
  <2>2. after = [entry |-> 0, trades |-> Append(acc.trades, t)]
    BY <1>4
  <2> HIDE DEF t, after
  <2>3. after.entry = 0 /\ after.trades = Append(acc.trades, t) /\ after \in Held(q, p.window)
    BY <1>1, <2>1, <2>2 DEF Held
  <2>4. /\ after \in Held(q, p.window)
        /\ after.entry \in {0, i, acc.entry}
        /\ \E x \in Trade : after.trades = Append(acc.trades, x)
    BY <2>1, <2>3
  <2> QED
    BY <2>4 DEF after
<1>5. \/ after = acc
      \/ acc.entry = 0 /\ after = [acc EXCEPT !.entry = i]
      \/ acc.entry # 0 /\ after = [entry |-> 0, trades |-> Append(acc.trades, Test!StatTrade(q, acc.entry, i, p.window))]
  BY Zenon DEF Test!StatStep
<1> QED
  BY <1>2, <1>3, <1>4, <1>5

\* The candles the rules are applied to, one after the other.
Tried(q, w) == [k \in 1 .. Len(q) - w |-> w + k]

AreStats(q, p, c) ==
    c = [s \in SUBSET DOMAIN Tried(q, p.window) |->
            IF s = {} THEN Start
            ELSE Test!StatStep(q, p, c[s \ {Test!Max(s)}], Tried(q, p.window)[Test!Max(s)])]

Stats(q, p) == CHOOSE c : AreStats(q, p, c)

LEMMA StatsFold ==
    ASSUME NEW q, NEW p
    PROVE  Test!StatTrades(q, p) =
               IF Len(q) < p.window + Extra THEN <<>> ELSE Stats(q, p)[DOMAIN Tried(q, p.window)].trades
BY Zenon DEF Test!StatTrades, Test!FoldLeft, Test!MapThenFoldSet, Stats, AreStats, Start, Tried

LEMMA StatsExist ==
    ASSUME NEW q \in Seq(Aligned), NEW p \in Rules, NEW n \in Nat, n = Len(q) - p.window
    PROVE  AreStats(q, p, Stats(q, p))
<1> DEFINE w == p.window
           V == Held(q, w)
           h == [k \in 1 .. n |-> [acc \in V |-> Test!StatStep(q, p, acc, w + k)]]
<1>1. w \in Nat /\ n \in Nat /\ Len(q) - w = n /\ Start \in V
  BY DEF Held, Start, Rules
<1>2. h \in [1 .. n -> [V -> V]]
  <2> SUFFICES ASSUME NEW k \in 1 .. n, NEW acc \in V PROVE Test!StatStep(q, p, acc, w + k) \in V
    OBVIOUS
  <2>1. w + k \in p.window + 1 .. Len(q)
    BY <1>1
  <2> QED
    BY <2>1, StatStepTyped
<1>3. PICK g \in [SUBSET (1 .. n) -> V] : IsLoop(n, V, Start, h, g)
  <2> HIDE DEF h, V
  <2> QED
    BY <1>1, <1>2, LoopExists
<1>4. DOMAIN Tried(q, w) = 1 .. n /\ \A k \in 1 .. n : Tried(q, w)[k] = w + k
  BY <1>1 DEF Tried
<1> DEFINE k == [s \in SUBSET (1 .. n) |->
                    IF s = {} THEN Start ELSE Test!StatStep(q, p, g[s \ {Test!Max(s)}], Tried(q, w)[Test!Max(s)])]
<1>5. ASSUME NEW s \in SUBSET (1 .. n) PROVE g[s] = k[s]
  <2>1. CASE s = {}
    BY <1>3, <2>1 DEF IsLoop
  <2>2. CASE s # {}
    <3>1. Test!Max(s) = Largest(s) /\ Tried(q, w)[Largest(s)] = w + Largest(s)
      BY <1>3, <1>4, <2>2, SameLargest DEF IsLoop
    <3>2. g[s] = Test!StatStep(q, p, g[s \ {Largest(s)}], w + Largest(s))
      <4>1. Largest(s) \in 1 .. n /\ g[s \ {Largest(s)}] \in V /\ g[s] = h[Largest(s)][g[s \ {Largest(s)}]]
        BY <1>3, <2>2 DEF IsLoop
      <4> HIDE DEF k, V
      <4> QED
        BY <4>1
    <3> QED
      BY <2>2, <3>1, <3>2
  <2> QED
    BY <2>1, <2>2
<1>6. AreStats(q, p, g)
  <2>1. g = k
    <3> HIDE DEF k
    <3>1. k = [s \in SUBSET (1 .. n) |-> k[s]]
      BY DEF k
    <3> QED
      BY <1>3, <1>5, <3>1
  <2> QED
    BY <1>4, <2>1 DEF AreStats
<1> QED
  BY <1>6, Zenon DEF Stats

LEMMA StatsRun ==
    ASSUME NEW q \in Seq(Aligned), NEW p \in Rules, NEW n \in Nat, n = Len(q) - p.window
    PROVE  LET c == Stats(q, p)
           IN  /\ DOMAIN Tried(q, p.window) = 1 .. n
               /\ c[1 .. 0] = Start
               /\ \A k \in Nat : k < n =>
                      c[1 .. (k + 1)] = Test!StatStep(q, p, c[1 .. k], p.window + (k + 1))
<1> DEFINE c == Stats(q, p)
<1>1. DOMAIN Tried(q, p.window) = 1 .. n /\ \A k \in 1 .. n : Tried(q, p.window)[k] = p.window + k
  BY DEF Tried, Rules
<1>2. AreStats(q, p, c)
  BY StatsExist
<1> HIDE DEF c
<1>3. \A s \in SUBSET (1 .. n) :
         c[s] = IF s = {} THEN Start
                ELSE Test!StatStep(q, p, c[s \ {Test!Max(s)}], Tried(q, p.window)[Test!Max(s)])
  BY <1>1, <1>2 DEF AreStats
<1>4. c[1 .. 0] = Start
  <2>1. 1 .. 0 = {} /\ {} \in SUBSET (1 .. n)
    OBVIOUS
  <2> QED
    BY <1>3, <2>1
<1>5. ASSUME NEW k \in Nat, k < n
      PROVE  c[1 .. (k + 1)] = Test!StatStep(q, p, c[1 .. k], p.window + (k + 1))
  <2>1. 1 .. (k + 1) \in SUBSET (1 .. n) /\ k + 1 \in 1 .. n
    BY <1>5
  <2>2. Test!Max(1 .. (k + 1)) = k + 1 /\ (1 .. (k + 1)) \ {k + 1} = 1 .. k /\ 1 .. (k + 1) # {}
    BY LargestUpTo, SameLargest
  <2>3. Tried(q, p.window)[k + 1] = p.window + (k + 1)
    BY <1>1, <2>1
  <2>4. c[1 .. (k + 1)] = Test!StatStep(q, p, c[(1 .. (k + 1)) \ {k + 1}], Tried(q, p.window)[k + 1])
    BY <1>3, <2>1, <2>2
  <2> QED
    BY <2>2, <2>3, <2>4
<1> QED
  BY <1>1, <1>4, <1>5 DEF c

\* It is in after a whole window of candles it has seen, and takes no trade back.
LEMMA StatsTyped ==
    ASSUME NEW q \in Seq(Aligned), NEW p \in Rules, NEW n \in Nat, n = Len(q) - p.window, NEW k \in 0 .. n
    PROVE  /\ Stats(q, p)[1 .. k] \in Held(q, p.window)
           /\ Stats(q, p)[1 .. k].entry <= p.window + k
<1> DEFINE c == Stats(q, p)
           w == p.window
           Good == {m \in Nat : m <= n => c[1 .. m] \in Held(q, w) /\ c[1 .. m].entry <= w + m}
<1>1. /\ c[1 .. 0] = Start
      /\ \A m \in Nat : m < n => c[1 .. (m + 1)] = Test!StatStep(q, p, c[1 .. m], w + (m + 1))
  BY StatsRun
<1>2. w \in Nat /\ Len(q) = w + n
  BY DEF Rules
<1> HIDE DEF c
<1>3. 0 \in Good
  <2>1. Start \in Held(q, w) /\ Start.entry = 0
    BY DEF Held, Start
  <2>2. c[1 .. 0] \in Held(q, w) /\ c[1 .. 0].entry = 0
    BY <1>1, <2>1
  <2> QED
    BY <1>2, <2>2
<1>4. ASSUME NEW m \in Good PROVE m + 1 \in Good
  <2> SUFFICES ASSUME m + 1 <= n PROVE c[1 .. (m + 1)] \in Held(q, w) /\ c[1 .. (m + 1)].entry <= w + (m + 1)
    OBVIOUS
  <2>0. m \in Nat
    OBVIOUS
  <2>1. m \in Nat /\ m < n /\ w + (m + 1) \in w + 1 .. Len(q)
    <3> HIDE DEF w, Good
    <3>1. m < n /\ w + (m + 1) \in w + 1 .. w + n
      BY <1>2, <2>0
    <3> QED
      BY <1>2, <2>0, <3>1
  <2>2. c[1 .. m] \in Held(q, w) /\ c[1 .. m].entry <= w + m
    BY <2>1
  <2>3. c[1 .. (m + 1)] = Test!StatStep(q, p, c[1 .. m], w + (m + 1))
    BY <1>1, <2>1
  <2>4. c[1 .. (m + 1)] \in Held(q, w) /\ c[1 .. (m + 1)].entry \in {0, w + (m + 1), c[1 .. m].entry}
    BY <2>1, <2>2, <2>3, StatStepTyped
  <2>5. c[1 .. m].entry \in Nat
    BY <2>2 DEF Held
  <2>6. c[1 .. (m + 1)].entry <= w + (m + 1)
    <3> DEFINE x == c[1 .. m].entry
               y == c[1 .. (m + 1)].entry
    <3>1. x \in Nat /\ x <= w + m /\ y \in {0, w + (m + 1), x} /\ w \in Nat /\ m \in Nat
      BY <1>2, <2>0, <2>2, <2>4, <2>5
    <3> HIDE DEF w, Good, x, y
    <3>2. y <= w + (m + 1)
      BY ONLY <3>1
    <3> QED
      BY <3>2 DEF x, y
  <2> QED
    BY <2>4, <2>6
<1>5. Good \in SUBSET Nat
  OBVIOUS
<1>6. Good = Nat
  <2> HIDE DEF Good
  <2> QED
    BY <1>3, <1>4, <1>5, CountUp
<1>7. k \in Good /\ k <= n
  BY <1>6
<1> QED
  BY <1>7 DEF c

LEMMA StatsGrow ==
    ASSUME NEW q \in Seq(Aligned), NEW p \in Rules, NEW n \in Nat, n = Len(q) - p.window,
           NEW j \in Nat, NEW k \in Nat, j <= k, k <= n
    PROVE  Extends(Stats(q, p)[1 .. j].trades, Stats(q, p)[1 .. k].trades)
<1> DEFINE c == Stats(q, p)
           w == p.window
           a == [m \in 0 .. n |-> c[1 .. m].trades]
<1>1. \A m \in Nat : m < n => c[1 .. (m + 1)] = Test!StatStep(q, p, c[1 .. m], w + (m + 1))
  BY StatsRun
<1>2. \A m \in 0 .. n : c[1 .. m] \in Held(q, w)
  BY StatsTyped
<1>3. w \in Nat /\ Len(q) = w + n
  BY DEF Rules
<1> HIDE DEF c
<1>4. ASSUME NEW m \in Nat, m < n PROVE a[m + 1] = a[m] \/ \E t \in Trade : a[m + 1] = Append(a[m], t)
  <2>1. m \in 0 .. n /\ m + 1 \in 0 .. n /\ w + (m + 1) \in w + 1 .. Len(q)
    BY <1>3, <1>4
  <2>2. c[1 .. (m + 1)] = Test!StatStep(q, p, c[1 .. m], w + (m + 1)) /\ c[1 .. m] \in Held(q, w)
    BY <1>1, <1>2, <1>4, <2>1
  <2>3. a[m] = c[1 .. m].trades /\ a[m + 1] = c[1 .. (m + 1)].trades
    BY <2>1
  <2> HIDE DEF a
  <2> DEFINE after == Test!StatStep(q, p, c[1 .. m], w + (m + 1))
  <2>4. after.trades = c[1 .. m].trades \/ \E t \in Trade : after.trades = Append(c[1 .. m].trades, t)
    BY <2>1, <2>2, StatStepTyped
  <2> QED
    BY <2>2, <2>3, <2>4
<1>5. \A m \in 0 .. n : a[m] \in Seq(Trade)
  BY <1>2 DEF Held
<1>6. j \in 0 .. n /\ k \in 0 .. n
  OBVIOUS
<1>7. Extends(a[j], a[k])
  <2> HIDE DEF a
  <2> QED
    BY <1>4, <1>5, <1>6, TradesGrow
<1> QED
  BY <1>6, <1>7 DEF c

LEMMA StatStepSame ==
    ASSUME NEW q \in Seq(Aligned), NEW r \in Seq(Aligned), Extends(q, r), NEW p \in Rules,
           NEW acc \in Held(q, p.window), NEW i \in p.window + 1 .. Len(q)
    PROVE  Test!StatStep(r, p, acc, i) = Test!StatStep(q, p, acc, i)
<1> DEFINE w == p.window
<1>1. /\ w \in Nat /\ Len(q) \in Nat /\ i \in 1 .. Len(q)
      /\ \A k \in 1 .. Len(q) : r[k] = q[k]
      /\ acc.entry # 0 => acc.entry \in w + 1 .. Len(q)
  BY DEF Rules, Extends, Held
<1>2. \A k \in 1 .. Len(q) : Test!Spread(r, k) = Test!Spread(q, k)
  BY <1>1 DEF Test!Spread
<1>3. ASSUME NEW k \in w + 1 .. Len(q) PROVE Test!Before(r, k, w) = Test!Before(q, k, w)
  <2>1. \A m \in 1 .. w : k - w + m - 1 \in 1 .. Len(q)
    BY <1>1
  <2> QED
    BY <1>2, <2>1 DEF Test!Before
<1>4. /\ Test!Beyond(r, i, w, p.z) = Test!Beyond(q, i, w, p.z)
      /\ Test!Within(r, i, w, ExitZ) = Test!Within(q, i, w, ExitZ)
  <2>1. \A z : Test!ZSquared(r, i, w, z) = Test!ZSquared(q, i, w, z)
    <3>1. Test!Before(r, i, w) = Test!Before(q, i, w) /\ Test!Spread(r, i) = Test!Spread(q, i)
      BY <1>1, <1>2, <1>3
    <3> QED
      BY <3>1, Zenon DEF Test!ZSquared
  <2> QED
    BY <2>1, Zenon DEF Test!Beyond, Test!Within
<1>5. acc.entry # 0 => Test!StatTrade(r, acc.entry, i, w) = Test!StatTrade(q, acc.entry, i, w)
  <2> SUFFICES ASSUME acc.entry # 0 PROVE Test!StatTrade(r, acc.entry, i, w) = Test!StatTrade(q, acc.entry, i, w)
    OBVIOUS
  <2> DEFINE e == acc.entry
  <2>1. e \in w + 1 .. Len(q) /\ e \in 1 .. Len(q)
    BY <1>1
  <2>2. /\ Test!Before(r, e, w) = Test!Before(q, e, w) /\ Test!Spread(r, e) = Test!Spread(q, e)
        /\ Test!Spread(r, i) = Test!Spread(q, i) /\ r[e] = q[e]
    BY <1>1, <1>2, <1>3, <2>1
  <2>3. Test!Rich(r, e, w) <=> Test!Rich(q, e, w)
    BY <2>2, Zenon DEF Test!Rich
  <2> QED
    BY <2>2, <2>3 DEF Test!StatTrade
<1> QED
  BY <1>4, <1>5, Zenon DEF Test!StatStep

LEMMA StatsExtend ==
    ASSUME NEW q \in Seq(Aligned), NEW r \in Seq(Aligned), Extends(q, r), NEW p \in Rules
    PROVE  /\ Test!StatTrades(q, p) \in Seq(Trade)
           /\ Test!StatTrades(r, p) \in Seq(Trade)
           /\ Extends(Test!StatTrades(q, p), Test!StatTrades(r, p))
<1> DEFINE w == p.window
<1>1. /\ w \in Nat /\ Len(q) \in Nat /\ Len(r) \in Nat /\ Len(q) <= Len(r) /\ Extra \in Nat
  BY ResearchAssumption DEF Rules, Extends
<1>2. ASSUME NEW t \in Seq(Aligned), Len(t) < w + Extra PROVE Test!StatTrades(t, p) = <<>>
  BY <1>2, StatsFold
<1>3. ASSUME NEW t \in Seq(Aligned), NEW n \in Nat, n = Len(t) - w, ~(Len(t) < w + Extra)
      PROVE  /\ Test!StatTrades(t, p) = Stats(t, p)[1 .. n].trades
             /\ Stats(t, p)[1 .. n] \in Held(t, w)
             /\ Test!StatTrades(t, p) \in Seq(Trade)
  <2>1. Test!StatTrades(t, p) = Stats(t, p)[1 .. n].trades
    BY <1>3, StatsFold, StatsRun
  <2>2. Stats(t, p)[1 .. n] \in Held(t, w)
    BY <1>3, StatsTyped
  <2> QED
    BY <2>1, <2>2 DEF Held
<1>4. ASSUME NEW t \in Seq(Aligned) PROVE Test!StatTrades(t, p) \in Seq(Trade)
  <2>1. CASE Len(t) < w + Extra
    <3>1. Test!StatTrades(t, p) = <<>>
      BY <1>2, <2>1
    <3> QED
      BY <3>1
  <2>2. CASE ~(Len(t) < w + Extra)
    <3>1. Len(t) - w \in Nat
      BY <1>1, <2>2
    <3> QED
      BY <1>3, <2>2, <3>1
  <2> QED
    BY <2>1, <2>2
<1>5. CASE Len(q) < w + Extra
  BY <1>2, <1>4, <1>5, GoesOn
<1>6. CASE ~(Len(q) < w + Extra)
  <2> DEFINE n == Len(q) - w
             o == Len(r) - w
             c == Stats(q, p)
             d == Stats(r, p)
             Good == {m \in Nat : m <= n => d[1 .. m] = c[1 .. m]}
  <2>1. n \in Nat /\ o \in Nat /\ n <= o /\ ~(Len(r) < w + Extra) /\ Len(q) = w + n
    <3> HIDE DEF w, c, d, Good
    <3> QED
      BY <1>1, <1>6
  <2>2. Test!StatTrades(q, p) = c[1 .. n].trades /\ Test!StatTrades(r, p) = d[1 .. o].trades
    BY <1>3, <1>6, <2>1
  <2>3. Extends(d[1 .. n].trades, d[1 .. o].trades)
    BY <2>1, StatsGrow
  <2>4. /\ c[1 .. 0] = Start
        /\ \A m \in Nat : m < n => c[1 .. (m + 1)] = Test!StatStep(q, p, c[1 .. m], w + (m + 1))
    BY <2>1, StatsRun
  <2>5. /\ d[1 .. 0] = Start
        /\ \A m \in Nat : m < o => d[1 .. (m + 1)] = Test!StatStep(r, p, d[1 .. m], w + (m + 1))
    BY <2>1, StatsRun
  <2>6. \A m \in 0 .. n : c[1 .. m] \in Held(q, w)
    BY <2>1, StatsTyped
  <2> HIDE DEF c, d
  <2>7. 0 \in Good
    BY <2>4, <2>5
  <2>8. ASSUME NEW m \in Good PROVE m + 1 \in Good
    <3> SUFFICES ASSUME m + 1 <= n PROVE d[1 .. (m + 1)] = c[1 .. (m + 1)]
      OBVIOUS
    <3>1. m \in Nat
      OBVIOUS
    <3>2. m < n /\ m < o /\ m \in 0 .. n /\ w + (m + 1) \in w + 1 .. Len(q)
      <4> HIDE DEF w, n, o, Good
      <4>1. m < n /\ m < o
        BY <2>1, <3>1
      <4>2. m \in 0 .. n
        BY <2>1, <3>1, <4>1
      <4>3. w + (m + 1) \in w + 1 .. w + n
        BY <1>1, <2>1, <3>1
      <4> QED
        BY <2>1, <4>1, <4>2, <4>3
    <3>3. d[1 .. m] = c[1 .. m]
      BY <3>1, <3>2
    <3> HIDE DEF w, n, o, Good
    <3>4. c[1 .. m] \in Held(q, w)
      BY <2>6, <3>2
    <3>5. Test!StatStep(r, p, c[1 .. m], w + (m + 1)) = Test!StatStep(q, p, c[1 .. m], w + (m + 1))
      <4> USE DEF w
      <4> QED
        BY <3>2, <3>4, StatStepSame
    <3>6. /\ c[1 .. (m + 1)] = Test!StatStep(q, p, c[1 .. m], w + (m + 1))
          /\ d[1 .. (m + 1)] = Test!StatStep(r, p, d[1 .. m], w + (m + 1))
      BY <2>4, <2>5, <3>1, <3>2
    <3> QED
      BY <3>3, <3>5, <3>6
  <2>9. Good \in SUBSET Nat
    OBVIOUS
  <2>10. Good = Nat
    <3> HIDE DEF Good
    <3> QED
      BY <2>7, <2>8, <2>9, CountUp
  <2>11. d[1 .. n] = c[1 .. n]
    BY <2>1, <2>10
  <2> QED
    BY <1>4, <2>2, <2>3, <2>11
<1> QED
  BY <1>5, <1>6

-----------------------------------------------------------------------------
(* Members in order.                                                       *)

\* First the smaller ones, then the larger ones.
LEMMA OrderedSplit ==
    ASSUME NEW T \in SUBSET Int, NEW U \in SUBSET Int, IsFiniteSet(T), IsFiniteSet(U),
           \A t \in T, u \in U : t < u
    PROVE  /\ Cardinality(T) \in Nat /\ Cardinality(U) \in Nat
           /\ Cardinality(T \cup U) = Cardinality(T) + Cardinality(U)
           /\ \A k \in 1 .. Cardinality(T) : Ordered(T \cup U)[k] = Ordered(T)[k] /\ Ordered(T)[k] \in T
           /\ \A k \in 1 .. Cardinality(U) :
                 Ordered(T \cup U)[Cardinality(T) + k] = Ordered(U)[k] /\ Ordered(U)[k] \in U
<1> DEFINE a == Cardinality(T)
           b == Cardinality(U)
           t == Ordered(T)
           u == Ordered(U)
           q == [k \in 1 .. a + b |-> IF k <= a THEN t[k] ELSE u[k - a]]
<1>1. a \in Nat /\ t \in [1 .. a -> T] /\ Ascends(t) /\ \A x \in T : \E k \in 1 .. a : t[k] = x
  BY OrderedRight
<1>2. b \in Nat /\ u \in [1 .. b -> U] /\ Ascends(u) /\ \A x \in U : \E k \in 1 .. b : u[k] = x
  BY OrderedRight
<1> HIDE DEF a, b, t, u
<1>3. /\ \A k \in 1 .. a : k \in 1 .. a + b /\ q[k] = t[k] /\ t[k] \in T
      /\ \A k \in 1 .. b : a + k \in 1 .. a + b /\ q[a + k] = u[k] /\ u[k] \in U
      /\ \A k \in 1 .. a + b : k \in 1 .. a \/ (k - a \in 1 .. b /\ a + (k - a) = k)
  BY <1>1, <1>2
<1>4. q \in [1 .. a + b -> T \cup U]
  BY <1>1, <1>2
<1> HIDE DEF q
<1>5. \A x \in T \cup U : \E k \in 1 .. a + b : q[k] = x
  BY <1>1, <1>2, <1>3
<1>6. Ascends(q)
  <2> SUFFICES ASSUME NEW j \in 1 .. a + b, NEW k \in 1 .. a + b, j < k PROVE q[j] < q[k]
    BY <1>4 DEF Ascends
  <2>1. CASE k \in 1 .. a
    <3>1. j \in 1 .. a
      BY <1>1, <2>1
    <3>2. t[j] < t[k]
      BY <1>1, <2>1, <3>1 DEF Ascends
    <3> QED
      BY <1>3, <2>1, <3>1, <3>2
  <2>2. CASE j \in 1 .. a /\ k - a \in 1 .. b /\ a + (k - a) = k
    <3>1. q[j] \in T /\ q[a + (k - a)] \in U
      BY <1>3, <2>2
    <3> QED
      BY <2>2, <3>1
  <2>3. CASE j - a \in 1 .. b /\ a + (j - a) = j /\ k - a \in 1 .. b /\ a + (k - a) = k
    <3>1. j - a < k - a
      BY <1>1
    <3>2. u[j - a] < u[k - a]
      BY <1>2, <2>3, <3>1 DEF Ascends
    <3>3. q[a + (j - a)] = u[j - a] /\ q[a + (k - a)] = u[k - a]
      BY <1>3, <2>3
    <3> QED
      BY <2>3, <3>2, <3>3
  <2>4. j \in 1 .. a \/ (j - a \in 1 .. b /\ a + (j - a) = j)
    BY <1>3
  <2>5. k \in 1 .. a \/ (k - a \in 1 .. b /\ a + (k - a) = k)
    BY <1>3
  <2> QED
    BY <2>1, <2>2, <2>3, <2>4, <2>5
<1>7. a + b \in Nat /\ T \cup U \in SUBSET Int
  BY <1>1, <1>2
<1>8. Ordered(T \cup U) = q /\ Cardinality(T \cup U) = a + b
  BY <1>4, <1>5, <1>6, <1>7, OrderedIs
<1> QED
  BY <1>1, <1>2, <1>3, <1>8 DEF a, b, t, u

\* Those after the k-th one are the rest.
LEMMA OrderedAfter ==
    ASSUME NEW S \in SUBSET Int, IsFiniteSet(S), NEW k \in 1 .. Cardinality(S)
    PROVE  Ordered({x \in S : x > Ordered(S)[k]}) = SubSeq(Ordered(S), k + 1, Cardinality(S))
<1> DEFINE o == Ordered(S)
           n == Cardinality(S)
           R == {x \in S : x > o[k]}
           r == [i \in 1 .. n - k |-> o[k + i]]
<1>1. n \in Nat /\ o \in [1 .. n -> S] /\ Ascends(o) /\ \A x \in S : \E i \in 1 .. n : o[i] = x
  BY OrderedRight
<1>12. k \in 1 .. n
  OBVIOUS
<1> HIDE DEF o, n
<1>2. k \in 1 .. n /\ k \in Nat /\ \A i \in 1 .. n : o[i] \in Int
  <2> HIDE DEF R, r
  <2>1. \A i \in 1 .. n : o[i] \in Int
    BY <1>1
  <2>2. k \in Nat
    BY <1>1, <1>12
  <2> QED
    BY <1>12, <2>1, <2>2
<1>3. \A i, j \in 1 .. n : (o[i] < o[j]) <=> (i < j)
  <2> SUFFICES ASSUME NEW i \in 1 .. n, NEW j \in 1 .. n PROVE (o[i] < o[j]) <=> (i < j)
    OBVIOUS
  <2>1. o[i] \in Int /\ o[j] \in Int /\ (i < j => o[i] < o[j]) /\ (j < i => o[j] < o[i])
    BY <1>1, <1>2 DEF Ascends
  <2> QED
    BY <2>1
<1>4. \A i \in 1 .. n - k : k + i \in 1 .. n /\ k < k + i
  BY <1>1, <1>2
<1>5. r \in [1 .. n - k -> R]
  BY <1>1, <1>2, <1>3, <1>4
<1>6. Ascends(r)
  BY <1>1, <1>3, <1>4 DEF Ascends
<1>7. \A x \in R : \E i \in 1 .. n - k : r[i] = x
  <2> SUFFICES ASSUME NEW x \in R PROVE \E i \in 1 .. n - k : r[i] = x
    OBVIOUS
  <2>1. PICK j \in 1 .. n : o[j] = x
    BY <1>1
  <2>2. o[k] < o[j]
    BY <1>2, <2>1
  <2>3. k < j
    BY <1>2, <1>3, <2>2
  <2>4. j - k \in 1 .. n - k /\ k + (j - k) = j
    BY <1>1, <1>2, <2>3
  <2> QED
    BY <2>1, <2>4
<1>8. n - k \in Nat /\ R \in SUBSET Int
  <2>1. n - k \in Nat
    BY <1>1, <1>2
  <2>2. R \in SUBSET Int
    OBVIOUS
  <2> QED
    BY <2>1, <2>2
<1>9. Ordered(R) = r
  <2> HIDE DEF R, r
  <2> QED
    BY <1>5, <1>6, <1>7, <1>8, OrderedIs
<1>10. SubSeq(o, k + 1, n) = r
  <2>1. SubSeq(o, k + 1, n) = [i \in 1 .. n - (k + 1) + 1 |-> o[i + (k + 1) - 1]]
    <3>1. o \in Seq(S) /\ Len(o) = n
      BY <1>1
    <3> QED
      BY <1>1, <1>2, <3>1
  <2>2. 1 .. n - (k + 1) + 1 = 1 .. n - k /\ \A i \in 1 .. n - k : i + (k + 1) - 1 = k + i
    BY <1>1, <1>2
  <2> QED
    BY <2>1, <2>2
<1> QED
  BY <1>9, <1>10 DEF o, n

-----------------------------------------------------------------------------
(* fetch_candles.                                                          *)

\* How many candles the pages can bring: the last of them goes past the bound.
Cap == PageSize * ((MaxCandles + PageSize - 1) \div PageSize)

LEMMA CapRight ==
    /\ Cap \in Nat /\ MaxCandles <= Cap
    /\ \A j \in Nat : PageSize * j < MaxCandles => PageSize * j + PageSize <= Cap
    /\ \A j \in Nat : MaxCandles <= PageSize * j => Cap <= PageSize * j
<1> DEFINE d == PageSize
           a == MaxCandles + d - 1
           c == a \div d
<1>1. d \in Nat \ {0} /\ MaxCandles \in Nat \ {0} /\ a \in Nat
  BY ResearchAssumption
<1>2. c \in Nat /\ d * c <= a /\ a < d * c + d /\ d * c \in Nat
  <2>1. c \in Int /\ d * c <= a /\ a < d * c + d
    <3> HIDE DEF a, d
    <3> QED
      BY <1>1, Quotient
  <2>2. c \in Nat
    <3> HIDE DEF a, d
    <3> QED
      BY <1>1, QuotientNat
  <2> HIDE DEF c
  <2> QED
    BY <1>1, <2>1, <2>2
<1> HIDE DEF c
<1>3. MaxCandles <= d * c
  BY <1>1, <1>2
<1>4. ASSUME NEW j \in Nat, d * j < MaxCandles PROVE d * j + d <= d * c
  <2>1. d * j < d * c
    BY <1>1, <1>2, <1>3, <1>4
  <2>2. j < c
    BY <1>1, <1>2, <2>1, TimesLess
  <2>3. j + 1 <= c /\ j + 1 \in Int
    BY <1>2, <2>2
  <2>4. d * (j + 1) <= d * c
    BY <1>1, <1>2, <2>3, TimesMost
  <2>5. d * (j + 1) = d * j + d
    BY <1>1
  <2> QED
    BY <2>4, <2>5
<1>5. ASSUME NEW j \in Nat, MaxCandles <= d * j PROVE d * c <= d * j
  <2>1. d * (j + 1) = d * j + d /\ d * j \in Nat
    BY <1>1
  <2>2. d * c < d * (j + 1)
    BY <1>1, <1>2, <1>5, <2>1
  <2>3. c < j + 1
    BY <1>1, <1>2, <2>2, TimesLess
  <2>4. c <= j
    BY <1>2, <2>3
  <2> QED
    BY <1>1, <1>2, <2>4, TimesMost
<1> QED
  BY <1>2, <1>3, <1>4, <1>5 DEF Cap, c

\* The places with a candle, how many there are and how many are fetched.
Quoted(q) == {i \in 1 .. Len(q) : q[i].close # 0}
Candled(q) == Cardinality(Quoted(q))
Got(q) == IF Candled(q) <= Cap THEN Candled(q) ELSE Cap

LEMMA QuotedRight ==
    ASSUME NEW q, Len(q) \in Nat
    PROVE  /\ Quoted(q) \in SUBSET Int /\ IsFiniteSet(Quoted(q)) /\ Candled(q) \in Nat
           /\ Ordered(Quoted(q)) \in [1 .. Candled(q) -> Quoted(q)]
           /\ Ascends(Ordered(Quoted(q)))
           /\ \A i \in Quoted(q) : \E k \in 1 .. Candled(q) : Ordered(Quoted(q))[k] = i
           /\ Got(q) \in 0 .. Candled(q)
<1>1. Quoted(q) \in SUBSET Int
  BY DEF Quoted
<1>2. IsFiniteSet(Quoted(q))
  <2>1. IsFiniteSet(1 .. Len(q))
    BY FS_Interval
  <2>2. Quoted(q) \in SUBSET (1 .. Len(q))
    BY DEF Quoted
  <2> QED
    BY <2>1, <2>2, FS_Subset
<1>3. /\ Candled(q) \in Nat
      /\ Ordered(Quoted(q)) \in [1 .. Candled(q) -> Quoted(q)] /\ Ascends(Ordered(Quoted(q)))
      /\ \A i \in Quoted(q) : \E k \in 1 .. Candled(q) : Ordered(Quoted(q))[k] = i
  BY <1>1, <1>2, OrderedRight DEF Candled
<1> QED
  BY <1>1, <1>2, <1>3, CapRight DEF Got

PageLength(q, m) == IF Candled(q) - m > PageSize THEN PageSize ELSE Candled(q) - m

\* What the pages after the first m candles have to bring.
LEMMA PageIs ==
    ASSUME NEW q, Len(q) \in Nat, NEW m \in 0 .. Candled(q), NEW from \in Nat,
           from = IF m = 0 THEN 1 ELSE Ordered(Quoted(q))[m] + 1
    PROVE  Test!Page(q, from) = [k \in 1 .. PageLength(q, m) |-> Ordered(Quoted(q))[m + k]]
<1> DEFINE P == Ordered(Quoted(q))
           n == Candled(q)
           rest == n - m
           long == IF rest > PageSize THEN PageSize ELSE rest
           all == [k \in 1 .. rest |-> P[m + k]]
           S == {i \in from .. Len(q) : q[i].close # 0}
<1>1. /\ Quoted(q) \in SUBSET Int /\ IsFiniteSet(Quoted(q)) /\ n \in Nat
      /\ P \in [1 .. n -> Quoted(q)]
  BY QuotedRight
<1>2. PageSize \in Nat \ {0}
  BY ResearchAssumption
<1>3. m \in Nat /\ m <= n /\ rest \in Nat /\ long \in Nat /\ long <= rest
  BY <1>1, <1>2
<1>4. Test!Present(q, from) = Ordered(S)
  BY SameOrder DEF Test!Present
<1>5. Ordered(S) = all
  <2>1. CASE m = 0
    <3>1. S = Quoted(q)
      BY <2>1 DEF Quoted
    <3>2. P = [k \in 1 .. n |-> P[k]] /\ \A k \in 1 .. n : m + k = k
      BY <1>1, <2>1
    <3>3. n - m = n
      BY <1>1, <2>1
    <3> HIDE DEF P, n, S
    <3>4. all = [k \in 1 .. n |-> P[k]]
      BY <3>2, <3>3
    <3> QED
      BY <3>1, <3>2, <3>4 DEF P
  <2>2. CASE m # 0
    <3>1. m \in 1 .. n /\ P[m] \in 1 .. Len(q) /\ from = P[m] + 1
      <4>1. m \in 1 .. n
        BY <1>3, <2>2
      <4>2. P[m] \in Quoted(q)
        BY <1>1, <4>1
      <4> QED
        BY <2>2, <4>1, <4>2 DEF Quoted
    <3>2. S = {x \in Quoted(q) : x > P[m]}
      <4>1. \A i \in Int : i \in from .. Len(q) <=> i \in 1 .. Len(q) /\ i > P[m]
        <5> HIDE DEF P
        <5> QED
          BY <3>1
      <4> HIDE DEF P
      <4>2. from .. Len(q) \subseteq Int /\ 1 .. Len(q) \subseteq Int
        OBVIOUS
      <4>3. \A i : i \in S <=> i \in {x \in Quoted(q) : x > P[m]}
        BY <4>1, <4>2 DEF Quoted
      <4> HIDE DEF S
      <4> QED
        BY <4>3
    <3>3. Ordered({x \in Quoted(q) : x > P[m]}) = SubSeq(P, m + 1, n)
      BY <1>1, <3>1, OrderedAfter DEF Candled
    <3>4. SubSeq(P, m + 1, n) = all
      <4>1. P \in Seq(Quoted(q)) /\ Len(P) = n
        BY <1>1
      <4> HIDE DEF P, n, all
      <4>2. SubSeq(P, m + 1, n) = [i \in 1 .. n - (m + 1) + 1 |-> P[i + (m + 1) - 1]]
        BY <1>1, <3>1, <4>1
      <4>3. 1 .. n - (m + 1) + 1 = 1 .. rest /\ \A i \in 1 .. rest : i + (m + 1) - 1 = m + i
        BY <1>1, <1>3
      <4> QED
        BY <4>2, <4>3 DEF all
    <3> QED
      BY <3>2, <3>3, <3>4
  <2> QED
    BY <2>1, <2>2
<1>6. all \in Seq(Int) /\ Len(all) = rest
  <2>1. ASSUME NEW k \in 1 .. rest PROVE P[m + k] \in Int
    <3>1. m + k \in 1 .. n
      BY <1>1, <1>3
    <3> HIDE DEF P
    <3>2. P[m + k] \in Quoted(q)
      BY <1>1, <3>1
    <3> QED
      BY <1>1, <3>2
  <2>2. all \in [1 .. rest -> Int]
    BY <2>1
  <2> HIDE DEF all, rest
  <2> QED
    BY <1>3, <2>2
<1>7. rest > PageSize => SubSeq(all, 1, PageSize) = [k \in 1 .. PageSize |-> P[m + k]]
  <2> HAVE rest > PageSize
  <2>1. SubSeq(all, 1, PageSize) = [k \in 1 .. PageSize |-> all[k]]
    <3> HIDE DEF all, rest
    <3> QED
      BY <1>2, <1>3, <1>6
  <2>2. \A k \in 1 .. PageSize : k \in 1 .. rest
    BY <1>2, <1>3
  <2> QED
    BY <2>1, <2>2
<1>8. Test!Page(q, from) = IF rest > PageSize THEN SubSeq(all, 1, PageSize) ELSE all
  <2> HIDE DEF all, rest
  <2> QED
    BY <1>4, <1>5, <1>6 DEF Test!Page
<1> QED
  <2> HIDE DEF P, n
  <2> QED
    BY <1>7, <1>8 DEF P, n, PageLength

FirstPage == [got |-> <<>>, from |-> 1]

\* What there is after a round: the first candles, and the page after them, if any.
Fetching(q) ==
    {acc \in [got : Seq(Int), from : Nat] :
        \E m \in 0 .. Got(q) :
            /\ acc.got = [k \in 1 .. m |-> Ordered(Quoted(q))[k]]
            /\ acc.from = 0 => m = Candled(q)
            /\ acc.from # 0 => /\ \E j \in Nat : m = PageSize * j
                               /\ acc.from = IF m = 0 THEN 1 ELSE Ordered(Quoted(q))[m] + 1}

\* There is no round left, or the next page begins after the i-th period.
Past(q, acc, i) == acc.from = 0 \/ Len(acc.got) >= MaxCandles \/ acc.from > i

LEMMA FirstPageRight ==
    ASSUME NEW q, Len(q) \in Nat
    PROVE  FirstPage \in Fetching(q) /\ Past(q, FirstPage, 0)
<1>1. 0 \in 0 .. Got(q)
  BY QuotedRight
<1>2. <<>> = [k \in 1 .. 0 |-> Ordered(Quoted(q))[k]]
  OBVIOUS
<1>3. 0 = PageSize * 0
  BY ResearchAssumption
<1>4. <<>> \in Seq(Int)
  OBVIOUS
<1>5. FirstPage \in [got : Seq(Int), from : Nat] /\ FirstPage.got = <<>> /\ FirstPage.from = 1
  BY <1>4 DEF FirstPage
<1>6. Past(q, FirstPage, 0)
  BY <1>5 DEF Past
<1> QED
  BY <1>1, <1>2, <1>3, <1>5, <1>6 DEF Fetching

LEMMA FetchStepRight ==
    ASSUME NEW q, Len(q) \in Nat, NEW acc \in Fetching(q)
    PROVE  LET after == Test!FetchStep(q, acc)
           IN  /\ after \in Fetching(q)
               /\ \A i \in Nat : i < Len(q) /\ Past(q, acc, i) => Past(q, after, i + 1)
<1> DEFINE P == Ordered(Quoted(q))
           n == Candled(q)
           page == Test!Page(q, acc.from)
           after == Test!FetchStep(q, acc)
<1>1. n \in Nat /\ P \in [1 .. n -> Quoted(q)] /\ Ascends(P) /\ Got(q) \in 0 .. n
      /\ Quoted(q) \subseteq 1 .. Len(q)
  BY QuotedRight DEF Quoted
<1>2. PageSize \in Nat \ {0} /\ MaxCandles \in Nat \ {0} /\ Cap \in Nat /\ MaxCandles <= Cap
  BY ResearchAssumption, CapRight
<1>3. acc \in [got : Seq(Int), from : Nat]
  BY DEF Fetching
<1>4. PICK m \in 0 .. Got(q) :
            /\ acc.got = [k \in 1 .. m |-> P[k]]
            /\ acc.from = 0 => m = n
            /\ acc.from # 0 => /\ \E j \in Nat : m = PageSize * j
                               /\ acc.from = IF m = 0 THEN 1 ELSE P[m] + 1
  BY DEF Fetching
<1>5. m \in Nat /\ m <= n /\ Len(acc.got) = m /\ Got(q) \in Nat
  BY <1>1, <1>4
<1> HIDE DEF P, n
<1>6. CASE acc.from \notin 1 .. Len(q) \/ m >= MaxCandles
  <2>1. after = acc
    BY <1>5, <1>6 DEF Test!FetchStep
  <2>2. \A i \in Nat : i < Len(q) /\ Past(q, acc, i) => Past(q, acc, i + 1)
    BY <1>3, <1>5, <1>6 DEF Past
  <2> QED
    BY <2>1, <2>2
<1>7. CASE acc.from \in 1 .. Len(q) /\ m < MaxCandles
  <2> DEFINE rest == n - m
             long == IF rest > PageSize THEN PageSize ELSE rest
             next == IF long < PageSize THEN 0 ELSE P[m + long] + 1
             more == [k \in 1 .. m + long |-> P[k]]
  <2>1. PICK j \in Nat : m = PageSize * j
    BY <1>4, <1>7
  <2>2. acc.from = IF m = 0 THEN 1 ELSE P[m] + 1
    BY <1>4, <1>7
  <2>3. rest \in Nat /\ long \in Nat /\ long <= rest /\ long <= PageSize
        /\ m + long \in Nat /\ m + long <= n /\ (long < PageSize => m + long = n)
    BY <1>1, <1>2, <1>5
  <2>4. page = [k \in 1 .. long |-> P[m + k]]
    <3>1. m \in 0 .. n
      BY <1>1, <1>5
    <3> QED
      <4>1. acc.from \in Nat /\ m \in 0 .. Candled(q)
            /\ acc.from = IF m = 0 THEN 1 ELSE Ordered(Quoted(q))[m] + 1
        BY <1>3, <2>2, <3>1 DEF P, n
      <4>2. Test!Page(q, acc.from)
               = [k \in 1 .. PageLength(q, m) |-> Ordered(Quoted(q))[m + k]]
        BY <4>1, PageIs
      <4> QED
        BY <4>2 DEF P, n, page, rest, long, PageLength
  <2> HIDE DEF rest, long, page
  <2>5. page \in Seq(Int) /\ Len(page) = long
    <3>1. \A k \in 1 .. long : m + k \in 1 .. n
      BY <1>1, <1>5, <2>3
    <3>2. \A k \in 1 .. long : P[m + k] \in Int
      BY <1>1, <3>1
    <3> QED
      BY <2>3, <2>4, <3>2
  <2>6. acc.got \o page = more
    <3>1. \A k \in 1 .. m + long : k \in 1 .. m \/ (k - m \in 1 .. long /\ m + (k - m) = k)
      BY <1>5, <2>3
    <3>2. \A k \in 1 .. m + long : (acc.got \o page)[k] = P[k]
      <4> SUFFICES ASSUME NEW k \in 1 .. m + long PROVE (acc.got \o page)[k] = P[k]
        OBVIOUS
      <4>1. (acc.got \o page)[k] = IF k <= m THEN acc.got[k] ELSE page[k - m]
        <5>1. \A a, b \in Seq(Int) : \A i \in 1 .. Len(a) + Len(b) :
                 (a \o b)[i] = IF i <= Len(a) THEN a[i] ELSE b[i - Len(a)]
          OBVIOUS
        <5>2. acc.got \in Seq(Int)
          BY <1>3
        <5> QED
          BY <1>5, <2>5, <5>1, <5>2
      <4>2. CASE k \in 1 .. m
        BY <1>4, <1>5, <4>1, <4>2
      <4>3. CASE k \notin 1 .. m /\ k - m \in 1 .. long /\ m + (k - m) = k
        <5>1. ~(k <= m)
          BY <1>5, <4>3
        <5> QED
          BY <2>4, <4>1, <4>3, <5>1
      <4> QED
        BY <3>1, <4>2, <4>3
    <3>3. Len(acc.got \o page) = m + long /\ acc.got \o page \in Seq(Int)
      <4>1. acc.got \in Seq(Int)
        BY <1>3
      <4>2. \A a, b \in Seq(Int) : Len(a \o b) = Len(a) + Len(b) /\ a \o b \in Seq(Int)
        OBVIOUS
      <4> QED
        BY <1>5, <2>5, <4>1, <4>2
    <3>4. acc.got \o page = [k \in 1 .. m + long |-> (acc.got \o page)[k]]
      <4> HIDE DEF more
      <4>1. \A z \in Seq(Int) : z = [k \in 1 .. Len(z) |-> z[k]]
        OBVIOUS
      <4> QED
        BY ONLY <3>3, <4>1
    <3> QED
      BY <3>2, <3>4
  <2>7. long = PageSize => page[Len(page)] = P[m + long] /\ m + long \in 1 .. n
    BY <1>1, <1>2, <1>5, <2>3, <2>4, <2>5
  <2>8. after = [got |-> more, from |-> next]
    <3>1. ~(acc.from \notin 1 .. Len(q) \/ Len(acc.got) >= MaxCandles)
      BY <1>2, <1>5, <1>7
    <3>2. (IF Len(page) < PageSize THEN 0 ELSE Test!NextStart(page)) = next
      <4>1. CASE long < PageSize
        BY <2>5, <4>1
      <4>2. CASE ~(long < PageSize)
        <5>1. long = PageSize
          BY <1>2, <2>3, <4>2
        <5> QED
          BY <2>5, <2>7, <4>2, <5>1 DEF Test!NextStart, Test!Last
      <4> QED
        BY <4>1, <4>2
    <3>3. after = [got |-> acc.got \o page, from |-> IF Len(page) < PageSize THEN 0 ELSE Test!NextStart(page)]
      BY <3>1 DEF Test!FetchStep, page
    <3> HIDE DEF after, more, next
    <3> QED
      BY <2>6, <3>2, <3>3
  <2>9. m + long \in 0 .. Got(q)
    <3>1. PageSize * j + PageSize <= Cap
      BY <1>2, <1>7, <2>1, CapRight
    <3>2. m + long <= Cap
      BY <1>2, <1>5, <2>1, <2>3, <3>1
    <3> QED
      BY <1>1, <1>2, <2>3, <3>2 DEF Got, n
  <2>10. next \in Nat /\ (next = 0 => long < PageSize) /\ (long < PageSize => next = 0)
         /\ (~(long < PageSize) => next = P[m + long] + 1 /\ m + long \in 1 .. n)
    <3>1. CASE long < PageSize
      BY <3>1
    <3>2. CASE ~(long < PageSize)
      <4>1. long = PageSize
        BY <1>2, <2>3, <3>2
      <4>2. m + long \in 1 .. n
        BY <2>7, <4>1
      <4>3. P[m + long] \in Nat
        BY <1>1, <4>2
      <4> HIDE DEF P, n
      <4> QED
        BY <3>2, <4>2, <4>3
    <3> QED
      BY <3>1, <3>2
  <2>11. more \in Seq(Int)
    <3>1. \A k \in 1 .. m + long : k \in 1 .. n
      BY <1>1, <2>3
    <3>2. \A k \in 1 .. m + long : P[k] \in Int
      BY <1>1, <3>1
    <3> QED
      BY <2>3, <3>2
  <2> HIDE DEF after, more, next
  <2>12. next # 0 => \E i \in Nat : m + long = PageSize * i
    <3> HAVE next # 0
    <3>1. long = PageSize
      BY <1>2, <2>3, <2>10
    <3>2. m + long = PageSize * (j + 1)
      BY <1>2, <2>1, <3>1
    <3> QED
      BY <3>2
  <2>13. after \in Fetching(q)
    <3>1. after \in [got : Seq(Int), from : Nat] /\ after.got = more /\ after.from = next
      BY <2>8, <2>10, <2>11
    <3>2. next = 0 => m + long = n
      BY <2>3, <2>10
    <3>3. next # 0 => next = IF m + long = 0 THEN 1 ELSE P[m + long] + 1
      <4>1. next # 0 => next = P[m + long] + 1 /\ m + long \in 1 .. n
        BY <2>3, <2>10
      <4>2. m + long \in 1 .. n => m + long # 0
        OBVIOUS
      <4> QED
        BY <4>1, <4>2
    <3>4. after.got = [k \in 1 .. m + long |-> P[k]]
      BY <3>1 DEF more
    <3> QED
      BY <2>9, <2>12, <3>1, <3>2, <3>3, <3>4 DEF Fetching, P, n
  <2>14. ASSUME NEW i \in Nat, i < Len(q), Past(q, acc, i) PROVE Past(q, after, i + 1)
    <3>1. acc.from > i
      BY <1>2, <1>5, <1>7, <2>14 DEF Past
    <3>2. CASE next = 0
      BY <2>8, <3>2 DEF Past
    <3>3. CASE next # 0
      <4>1. next = P[m + long] + 1 /\ m + long \in 1 .. n /\ long = PageSize
        BY <1>2, <2>3, <2>10, <3>3
      <4>2. P[m + long] > i
        <5>1. CASE m = 0
          BY <1>1, <2>2, <3>1, <4>1, <5>1
        <5>2. CASE m # 0
          <6>1. m \in 1 .. n /\ m < m + long
            BY <1>1, <1>2, <1>5, <4>1, <5>2
          <6>2. P[m] < P[m + long]
            BY <1>1, <4>1, <6>1 DEF Ascends
          <6>3. P[m] \in Nat /\ P[m + long] \in Nat
            BY <1>1, <4>1, <6>1
          <6> QED
            BY <2>2, <3>1, <5>2, <6>2, <6>3
        <5> QED
          BY <5>1, <5>2
      <4>3. P[m + long] \in Nat
        BY <1>1, <4>1
      <4>4. next > i + 1
        BY <4>1, <4>2, <4>3
      <4>5. after.from = next
        BY <2>8
      <4> QED
        BY <4>4, <4>5 DEF Past
    <3> QED
      BY <3>2, <3>3
  <2> QED
    BY <2>13, <2>14 DEF after
<1>8. acc.from \notin 1 .. Len(q) \/ m >= MaxCandles \/ (acc.from \in 1 .. Len(q) /\ m < MaxCandles)
  BY <1>2, <1>5
<1>9. /\ after \in Fetching(q)
      /\ \A i \in Nat : i < Len(q) /\ Past(q, acc, i) => Past(q, after, i + 1)
  BY <1>6, <1>7, <1>8
<1> QED
  BY <1>9

AreFetches(q, c) ==
    c = [s \in SUBSET DOMAIN Test!Count(Len(q)) |->
            IF s = {} THEN FirstPage ELSE Test!FetchStep(q, c[s \ {Test!Max(s)}])]

Fetches(q) == CHOOSE c : AreFetches(q, c)

LEMMA FetchesFold ==
    ASSUME NEW q
    PROVE  Test!Fetched(q) = Fetches(q)[DOMAIN Test!Count(Len(q))].got
BY Zenon DEF Test!Fetched, Test!FoldLeft, Test!MapThenFoldSet, Fetches, AreFetches, FirstPage

LEMMA FetchesExist ==
    ASSUME NEW q, Len(q) \in Nat
    PROVE  AreFetches(q, Fetches(q))
<1> DEFINE n == Len(q)
           h == [i \in 1 .. n |-> [acc \in Fetching(q) |-> Test!FetchStep(q, acc)]]
<1>1. n \in Nat /\ FirstPage \in Fetching(q)
  BY FirstPageRight
<1>2. h \in [1 .. n -> [Fetching(q) -> Fetching(q)]]
  BY FetchStepRight
<1>3. PICK g \in [SUBSET (1 .. n) -> Fetching(q)] : IsLoop(n, Fetching(q), FirstPage, h, g)
  <2> HIDE DEF h, n
  <2> QED
    BY <1>1, <1>2, LoopExists
<1> DEFINE k == [s \in SUBSET (1 .. n) |->
                    IF s = {} THEN FirstPage ELSE Test!FetchStep(q, g[s \ {Test!Max(s)}])]
<1>4. ASSUME NEW s \in SUBSET (1 .. n) PROVE g[s] = k[s]
  <2>1. CASE s = {}
    BY <1>3, <2>1 DEF IsLoop
  <2>2. CASE s # {}
    <3>1. Test!Max(s) = Largest(s)
      BY SameLargest
    <3>2. g[s] = Test!FetchStep(q, g[s \ {Largest(s)}])
      <4>1. Largest(s) \in 1 .. n /\ g[s \ {Largest(s)}] \in Fetching(q) /\ g[s] = h[Largest(s)][g[s \ {Largest(s)}]]
        BY <1>3, <2>2 DEF IsLoop
      <4> HIDE DEF n, k
      <4> QED
        BY <4>1
    <3> QED
      BY <2>2, <3>1, <3>2
  <2> QED
    BY <2>1, <2>2
<1>5. AreFetches(q, g)
  <2>1. g = k
    <3> HIDE DEF k
    <3>1. k = [s \in SUBSET (1 .. n) |-> k[s]]
      BY DEF k
    <3> QED
      BY <1>3, <1>4, <3>1
  <2>2. DOMAIN Test!Count(Len(q)) = 1 .. n
    BY <1>1, CountIs
  <2> QED
    BY <2>1, <2>2 DEF AreFetches
<1> QED
  BY <1>5, Zenon DEF Fetches

LEMMA FetchesRun ==
    ASSUME NEW q, Len(q) \in Nat
    PROVE  /\ Fetches(q)[1 .. 0] = FirstPage
           /\ \A k \in Nat : k < Len(q) =>
                  Fetches(q)[1 .. (k + 1)] = Test!FetchStep(q, Fetches(q)[1 .. k])
<1> DEFINE c == Fetches(q)
<1>1. DOMAIN Test!Count(Len(q)) = 1 .. Len(q)
  BY CountIs
<1>2. AreFetches(q, c)
  BY FetchesExist
<1> HIDE DEF c
<1>3. \A s \in SUBSET (1 .. Len(q)) :
         c[s] = IF s = {} THEN FirstPage ELSE Test!FetchStep(q, c[s \ {Test!Max(s)}])
  BY <1>1, <1>2 DEF AreFetches
<1>4. c[1 .. 0] = FirstPage
  <2>1. 1 .. 0 = {} /\ {} \in SUBSET (1 .. Len(q))
    OBVIOUS
  <2> QED
    BY <1>3, <2>1
<1>5. ASSUME NEW k \in Nat, k < Len(q)
      PROVE  c[1 .. (k + 1)] = Test!FetchStep(q, c[1 .. k])
  <2>1. 1 .. (k + 1) \in SUBSET (1 .. Len(q))
    BY <1>5
  <2>2. Test!Max(1 .. (k + 1)) = k + 1 /\ (1 .. (k + 1)) \ {k + 1} = 1 .. k /\ 1 .. (k + 1) # {}
    BY LargestUpTo, SameLargest
  <2> QED
    BY <1>3, <2>1, <2>2
<1> QED
  BY <1>4, <1>5 DEF c

\* What is fetched are the first candles, all or as many as the pages can bring.
LEMMA FetchedIs ==
    ASSUME NEW q, Len(q) \in Nat
    PROVE  Test!Fetched(q) = [k \in 1 .. Got(q) |-> Ordered(Quoted(q))[k]]
<1> DEFINE c == Fetches(q)
           P == Ordered(Quoted(q))
           n == Candled(q)
           Good == {i \in Nat : i <= Len(q) => c[1 .. i] \in Fetching(q) /\ Past(q, c[1 .. i], i)}
           acc == c[1 .. Len(q)]
<1>1. /\ c[1 .. 0] = FirstPage
      /\ \A k \in Nat : k < Len(q) => c[1 .. (k + 1)] = Test!FetchStep(q, c[1 .. k])
  BY FetchesRun
<1>2. Test!Fetched(q) = acc.got
  BY FetchesFold, CountIs
<1> HIDE DEF c
<1>3. 0 \in Good
  BY <1>1, FirstPageRight
<1>4. ASSUME NEW i \in Good PROVE i + 1 \in Good
  <2> SUFFICES ASSUME i + 1 <= Len(q) PROVE c[1 .. (i + 1)] \in Fetching(q) /\ Past(q, c[1 .. (i + 1)], i + 1)
    OBVIOUS
  <2>1. i \in Nat /\ i < Len(q) /\ i <= Len(q)
    OBVIOUS
  <2>2. c[1 .. i] \in Fetching(q) /\ Past(q, c[1 .. i], i)
    BY <2>1
  <2>3. c[1 .. (i + 1)] = Test!FetchStep(q, c[1 .. i])
    BY <1>1, <2>1
  <2> HIDE DEF Good
  <2> QED
    BY <2>1, <2>2, <2>3, FetchStepRight
<1>5. Good \in SUBSET Nat
  OBVIOUS
<1>6. Good = Nat
  <2> HIDE DEF Good
  <2> QED
    BY <1>3, <1>4, <1>5, CountUp
<1>7. acc \in Fetching(q) /\ Past(q, acc, Len(q))
  <2>1. Len(q) \in Good
    BY <1>6
  <2> QED
    BY <2>1
<1> HIDE DEF acc, Good
<1>8. PICK m \in 0 .. Got(q) :
            /\ acc.got = [k \in 1 .. m |-> P[k]]
            /\ acc.from = 0 => m = n
            /\ acc.from # 0 => /\ \E j \in Nat : m = PageSize * j
                               /\ acc.from = IF m = 0 THEN 1 ELSE P[m] + 1
  BY <1>7 DEF Fetching
<1>9. n \in Nat /\ P \in [1 .. n -> Quoted(q)] /\ Ascends(P) /\ Got(q) \in 0 .. n
      /\ Quoted(q) \subseteq 1 .. Len(q) /\ Cap \in Nat
  BY QuotedRight, CapRight DEF Quoted
<1> HIDE DEF P, n
<1>10. m = Got(q)
  <2>1. CASE m = n
    BY <1>9, <2>1
  <2>2. CASE acc.from # 0 /\ m >= MaxCandles
    <3>1. Cap <= m
      BY <1>8, <2>2, CapRight, ResearchAssumption
    <3>2. Got(q) <= Cap
      BY <1>9 DEF Got, n
    <3> QED
      BY <1>8, <1>9, <3>1, <3>2
  <2>3. CASE m # n /\ acc.from # 0 /\ acc.from > Len(q)
    <3>1. m + 1 \in 1 .. n
      BY <1>8, <1>9, <2>3
    <3>2. P[m + 1] \in 1 .. Len(q)
      BY <1>9, <3>1
    <3>3. m # 0 => P[m] < P[m + 1] /\ P[m] \in Nat
      <4> HAVE m # 0
      <4>1. m \in 1 .. n /\ m < m + 1
        BY <1>8, <1>9, <3>1
      <4> QED
        BY <1>9, <3>1, <4>1 DEF Ascends
    <3>4. m = 0 => acc.from = 1
      BY <1>8, <2>3
    <3>5. m # 0 => acc.from = P[m] + 1
      BY <1>8, <2>3
    <3> QED
      BY <2>3, <3>2, <3>3, <3>4, <3>5
  <2>4. Len(acc.got) = m
    BY <1>8, <1>9
  <2> QED
    BY <1>7, <1>8, <2>1, <2>2, <2>3, <2>4 DEF Past
<1> QED
  BY <1>2, <1>8, <1>10 DEF P

\* Every candle of the range is fetched once and in order, up to the cap.
LEMMA AllFetched ==
    ASSUME NEW q \in Seq(Candles)
    PROVE  /\ Test!IsPrefix(Test!Fetched(q), Test!Present(q, 1))
           /\ Len(Test!Fetched(q)) < MaxCandles => Test!Fetched(q) = Test!Present(q, 1)
<1> DEFINE P == Ordered(Quoted(q))
           n == Candled(q)
           got == [k \in 1 .. Got(q) |-> P[k]]
<1>1. Len(q) \in Nat
  OBVIOUS
<1>2. Test!Present(q, 1) = P
  BY SameOrder DEF Test!Present, Quoted
<1>3. n \in Nat /\ P \in [1 .. n -> Quoted(q)] /\ Got(q) \in 0 .. n /\ Quoted(q) \subseteq Int
  BY <1>1, QuotedRight
<1>4. Test!Fetched(q) = got
  BY <1>1, FetchedIs
<1>5. MaxCandles \in Nat /\ MaxCandles <= Cap /\ Cap \in Nat
  BY CapRight, ResearchAssumption
<1> HIDE DEF P, n
<1>6. P \in Seq(Int) /\ Len(P) = n
  BY <1>3
<1>7. got \in Seq(Int) /\ Len(got) = Got(q)
  <2>1. \A k \in 1 .. Got(q) : k \in 1 .. n
    BY <1>3
  <2>2. \A k \in 1 .. Got(q) : P[k] \in Int
    BY <1>3, <2>1
  <2> QED
    BY <1>3, <2>2
<1>8. Extends(got, P)
  BY <1>3, <1>6, <1>7 DEF Extends
<1>9. Got(q) < MaxCandles => got = P
  <2> HAVE Got(q) < MaxCandles
  <2>1. Got(q) = n
    BY <1>3, <1>5 DEF Got, n
  <2>2. P = [k \in 1 .. n |-> P[k]]
    BY <1>3
  <2> QED
    BY <2>1, <2>2
<1> HIDE DEF got
<1>10. Test!IsPrefix(got, P)
  BY <1>6, <1>7, <1>8, PrefixIs
<1> QED
  BY <1>2, <1>4, <1>7, <1>9, <1>10

\* A market as it is drawn: a candle has a mid price.
Sound == {m \in Candles : m.close # 0 => m.mid # 0}

LEMMA SoundIs ==
    ASSUME NEW q \in Seq(Sound)
    PROVE  q \in Seq(Candles) /\ Len(q) \in Nat /\ DOMAIN q = 1 .. Len(q) /\ \A i \in 1 .. Len(q) : q[i] \in Sound
BY DEF Sound

FetchedPlaces(q) == {Ordered(Quoted(q))[k] : k \in 1 .. Got(q)}

\* The candles that came early are fetched, or not, whatever comes after them.
LEMMA FetchedSame ==
    ASSUME NEW q \in Seq(Sound), NEW r \in Seq(Sound), Extends(q, r), NEW i \in 1 .. Len(q)
    PROVE  i \in FetchedPlaces(q) <=> i \in FetchedPlaces(r)
<1> DEFINE T == Quoted(q)
           U == {x \in Len(q) + 1 .. Len(r) : r[x].close # 0}
           P == Ordered(Quoted(q))
           R == Ordered(Quoted(r))
           a == Candled(q)
           b == Cardinality(U)
<1>1. Len(q) \in Nat /\ Len(r) \in Nat /\ Len(q) <= Len(r) /\ \A k \in 1 .. Len(q) : r[k] = q[k]
  BY SoundIs DEF Extends
<1>2. /\ T \in SUBSET Int /\ IsFiniteSet(T) /\ a \in Nat /\ Got(q) \in 0 .. a
      /\ Candled(r) \in Nat /\ Got(r) \in 0 .. Candled(r) /\ Cap \in Nat
  BY <1>1, QuotedRight, CapRight
<1>3. Quoted(r) = T \cup U
  <2>1. \A x : x \in 1 .. Len(r) <=> x \in 1 .. Len(q) \/ x \in Len(q) + 1 .. Len(r)
    BY <1>1
  <2>2. \A x : x \in Quoted(r) <=> x \in 1 .. Len(r) /\ r[x].close # 0
    BY DEF Quoted
  <2>3. \A x : x \in T <=> x \in 1 .. Len(q) /\ r[x].close # 0
    BY <1>1 DEF Quoted
  <2> QED
    BY <2>1, <2>2, <2>3
<1>4. U \in SUBSET Int /\ IsFiniteSet(U)
  <2>1. IsFiniteSet(Len(q) + 1 .. Len(r)) /\ U \in SUBSET (Len(q) + 1 .. Len(r))
    BY <1>1, FS_Interval
  <2>2. IsFiniteSet(U)
    <3> HIDE DEF U
    <3> QED
      BY <2>1, FS_Subset
  <2> QED
    BY <2>2
<1>5. \A t \in T, u \in U : t < u
  BY <1>1 DEF Quoted
<1>6. /\ b \in Nat /\ Candled(r) = a + b
      /\ \A k \in 1 .. a : R[k] = P[k]
      /\ \A k \in 1 .. b : R[a + k] \in U
  <2> HIDE DEF T, U
  <2>1. /\ b \in Nat /\ Cardinality(T \cup U) = a + b
        /\ \A k \in 1 .. a : Ordered(T \cup U)[k] = Ordered(T)[k]
        /\ \A k \in 1 .. b : Ordered(T \cup U)[a + k] = Ordered(U)[k] /\ Ordered(U)[k] \in U
    BY <1>2, <1>4, <1>5, OrderedSplit DEF Candled, T
  <2>2. \A k \in 1 .. b : Ordered(T \cup U)[a + k] \in U
    BY <2>1
  <2> QED
    BY <1>3, <2>1, <2>2 DEF Candled, T
<1>7. \A x \in U : x > Len(q)
  BY <1>1
<1> HIDE DEF P, R, a, b, U, T
<1>8. ASSUME i \in FetchedPlaces(q) PROVE i \in FetchedPlaces(r)
  <2>1. PICK k \in 1 .. Got(q) : P[k] = i
    BY <1>8 DEF FetchedPlaces, P
  <2>2. k \in 1 .. a /\ k \in 1 .. Got(r)
    BY <1>2, <1>6 DEF Got, a
  <2>3. R[k] = i
    BY <1>6, <2>1, <2>2
  <2> QED
    BY <2>2, <2>3 DEF FetchedPlaces, R
<1>9. ASSUME i \in FetchedPlaces(r) PROVE i \in FetchedPlaces(q)
  <2>1. PICK k \in 1 .. Got(r) : R[k] = i
    BY <1>9 DEF FetchedPlaces, R
  <2>2. k \in 1 .. a
    <3> SUFFICES ASSUME k \notin 1 .. a PROVE FALSE
      OBVIOUS
    <3>1. k - a \in 1 .. b /\ a + (k - a) = k
      BY <1>2, <1>6
    <3>2. R[a + (k - a)] \in U
      BY <1>6, <3>1
    <3>3. i \in U
      BY <2>1, <3>1, <3>2
    <3> QED
      BY <1>1, <1>7, <3>3
  <2>3. k \in 1 .. Got(q)
    <3>1. k <= Cap
      BY <1>2 DEF Got
    <3> QED
      BY <1>2, <2>2, <3>1 DEF Got, a
  <2>4. P[k] = i
    BY <1>6, <2>1, <2>2
  <2> QED
    BY <2>3, <2>4 DEF FetchedPlaces, P
<1> QED
  BY <1>8, <1>9

LEMMA SeenIs ==
    ASSUME NEW q \in Seq(Sound)
    PROVE  /\ Test!Seen(q) \in Seq(Sound) /\ Len(Test!Seen(q)) = Len(q)
           /\ \A i \in 1 .. Len(q) :
                 Test!Seen(q)[i] = IF i \in FetchedPlaces(q) THEN q[i] ELSE [q[i] EXCEPT !.close = 0]
<1> DEFINE s == [i \in DOMAIN q |-> IF i \in FetchedPlaces(q) THEN q[i] ELSE [q[i] EXCEPT !.close = 0]]
<1>1. Len(q) \in Nat /\ DOMAIN q = 1 .. Len(q) /\ \A i \in 1 .. Len(q) : q[i] \in Sound
  BY SoundIs
<1>2. Test!ToSet(Test!Fetched(q)) = FetchedPlaces(q)
  <2>1. Test!Fetched(q) = [k \in 1 .. Got(q) |-> Ordered(Quoted(q))[k]]
    BY <1>1, FetchedIs
  <2> QED
    BY <2>1 DEF Test!ToSet, FetchedPlaces
<1>3. Test!Seen(q) = s
  BY <1>2 DEF Test!Seen
<1>4. ASSUME NEW m \in Sound PROVE [m EXCEPT !.close = 0] \in Sound
  BY DEF Sound, Candles
<1>5. s \in [1 .. Len(q) -> Sound]
  BY <1>1, <1>4
<1> HIDE DEF s
<1>6. s \in Seq(Sound) /\ Len(s) = Len(q)
  BY <1>1, <1>5
<1> QED
  BY <1>1, <1>3, <1>6 DEF s

LEMMA SeenExtends ==
    ASSUME NEW q \in Seq(Sound), NEW r \in Seq(Sound), Extends(q, r)
    PROVE  Extends(Test!Seen(q), Test!Seen(r))
<1>1. Len(q) \in Nat /\ Len(r) \in Nat /\ Len(q) <= Len(r) /\ \A i \in 1 .. Len(q) : r[i] = q[i]
  BY SoundIs DEF Extends
<1>2. ASSUME NEW i \in 1 .. Len(q) PROVE Test!Seen(r)[i] = Test!Seen(q)[i]
  <2>1. i \in 1 .. Len(r)
    BY <1>1
  <2>2. i \in FetchedPlaces(q) <=> i \in FetchedPlaces(r)
    BY FetchedSame
  <2>3. r[i] = q[i]
    BY <1>1
  <2>4. Test!Seen(q)[i] = IF i \in FetchedPlaces(q) THEN q[i] ELSE [q[i] EXCEPT !.close = 0]
    BY SeenIs
  <2>5. Test!Seen(r)[i] = IF i \in FetchedPlaces(r) THEN r[i] ELSE [r[i] EXCEPT !.close = 0]
    BY <2>1, SeenIs
  <2> QED
    BY <2>2, <2>3, <2>4, <2>5
<1>3. Len(Test!Seen(q)) = Len(q) /\ Len(Test!Seen(r)) = Len(r)
  BY SeenIs
<1> QED
  BY <1>1, <1>2, <1>3 DEF Extends

-----------------------------------------------------------------------------
(* The candles both legs have.                                             *)

Pairs(q) == {i \in 1 .. Len(q) : q[i].close # 0 /\ q[i].perp # 0}

LEMMA PairsRight ==
    ASSUME NEW q, Len(q) \in Nat
    PROVE  /\ Pairs(q) \in SUBSET Int /\ IsFiniteSet(Pairs(q)) /\ Cardinality(Pairs(q)) \in Nat
           /\ Ordered(Pairs(q)) \in [1 .. Cardinality(Pairs(q)) -> Pairs(q)]
<1>1. Pairs(q) \in SUBSET Int
  BY DEF Pairs
<1>2. IsFiniteSet(Pairs(q))
  <2>1. IsFiniteSet(1 .. Len(q))
    BY FS_Interval
  <2>2. Pairs(q) \in SUBSET (1 .. Len(q))
    BY DEF Pairs
  <2> QED
    BY <2>1, <2>2, FS_Subset
<1> QED
  BY <1>1, <1>2, OrderedRight

LEMMA AlignIs ==
    ASSUME NEW q \in Seq(Sound)
    PROVE  /\ Test!Align(q) \in Seq(Aligned)
           /\ Len(Test!Align(q)) = Cardinality(Pairs(q))
           /\ \A k \in 1 .. Cardinality(Pairs(q)) : Test!Align(q)[k] = q[Ordered(Pairs(q))[k]]
<1> DEFINE n == Cardinality(Pairs(q))
           o == Ordered(Pairs(q))
           a == [k \in 1 .. n |-> q[o[k]]]
<1>1. Len(q) \in Nat /\ DOMAIN q = 1 .. Len(q) /\ \A i \in 1 .. Len(q) : q[i] \in Sound
  BY SoundIs
<1>2. n \in Nat /\ o \in [1 .. n -> Pairs(q)]
  BY <1>1, PairsRight
<1>3. Test!Align(q) = a
  <2>1. Pairs(q) = {i \in DOMAIN q : q[i].close # 0 /\ q[i].perp # 0}
    BY <1>1 DEF Pairs
  <2>2. Test!Align(q) = Test!Taken(q, Pairs(q))
    BY <2>1 DEF Test!Align
  <2>3. DOMAIN o = 1 .. n
    BY <1>2
  <2> HIDE DEF n, o
  <2>4. Test!Taken(q, Pairs(q)) = [k \in DOMAIN o |-> q[o[k]]]
    BY SameOrder DEF Test!Taken, o
  <2> QED
    BY <2>2, <2>3, <2>4
<1> HIDE DEF n, o
<1>4. \A k \in 1 .. n : q[o[k]] \in Aligned
  <2> SUFFICES ASSUME NEW k \in 1 .. n PROVE q[o[k]] \in Aligned
    OBVIOUS
  <2>1. o[k] \in Pairs(q)
    BY <1>2
  <2> QED
    BY <1>1, <2>1 DEF Pairs, Sound, Aligned
<1>5. a \in [1 .. n -> Aligned]
  BY <1>4
<1> HIDE DEF a
<1>6. a \in Seq(Aligned) /\ Len(a) = n
  BY <1>2, <1>5
<1> QED
  BY <1>2, <1>3, <1>6 DEF a, n, o

LEMMA AlignExtends ==
    ASSUME NEW q \in Seq(Sound), NEW r \in Seq(Sound), Extends(q, r)
    PROVE  Extends(Test!Align(q), Test!Align(r))
<1> DEFINE T == Pairs(q)
           U == {x \in Len(q) + 1 .. Len(r) : r[x].close # 0 /\ r[x].perp # 0}
           a == Cardinality(T)
           b == Cardinality(U)
<1>1. Len(q) \in Nat /\ Len(r) \in Nat /\ Len(q) <= Len(r) /\ \A k \in 1 .. Len(q) : r[k] = q[k]
  BY SoundIs DEF Extends
<1>2. T \in SUBSET Int /\ IsFiniteSet(T) /\ a \in Nat /\ Ordered(T) \in [1 .. a -> T]
  BY <1>1, PairsRight
<1>3. Pairs(r) = T \cup U
  <2>1. \A x : x \in 1 .. Len(r) <=> x \in 1 .. Len(q) \/ x \in Len(q) + 1 .. Len(r)
    BY <1>1
  <2>2. \A x : x \in Pairs(r) <=> x \in 1 .. Len(r) /\ r[x].close # 0 /\ r[x].perp # 0
    BY DEF Pairs
  <2>3. \A x : x \in T <=> x \in 1 .. Len(q) /\ r[x].close # 0 /\ r[x].perp # 0
    BY <1>1 DEF Pairs
  <2> QED
    BY <2>1, <2>2, <2>3
<1>4. U \in SUBSET Int /\ IsFiniteSet(U)
  <2>1. IsFiniteSet(Len(q) + 1 .. Len(r)) /\ U \in SUBSET (Len(q) + 1 .. Len(r))
    BY <1>1, FS_Interval
  <2>2. IsFiniteSet(U)
    <3> HIDE DEF U
    <3> QED
      BY <2>1, FS_Subset
  <2> QED
    BY <2>2
<1>5. \A t \in T, u \in U : t < u
  BY <1>1 DEF Pairs
<1>6. /\ b \in Nat /\ Cardinality(Pairs(r)) = a + b
      /\ \A k \in 1 .. a : Ordered(Pairs(r))[k] = Ordered(T)[k]
  <2> HIDE DEF T, U
  <2>1. /\ b \in Nat /\ Cardinality(T \cup U) = a + b
        /\ \A k \in 1 .. a : Ordered(T \cup U)[k] = Ordered(T)[k]
    BY <1>2, <1>4, <1>5, OrderedSplit
  <2> QED
    BY <1>3, <2>1
<1>7. ASSUME NEW k \in 1 .. a PROVE Test!Align(r)[k] = Test!Align(q)[k]
  <2>1. k \in 1 .. Cardinality(Pairs(r))
    BY <1>2, <1>6
  <2>2. Ordered(T)[k] \in 1 .. Len(q)
    BY <1>2 DEF Pairs
  <2>3. Test!Align(r)[k] = r[Ordered(Pairs(r))[k]]
    BY <2>1, AlignIs
  <2>4. Test!Align(q)[k] = q[Ordered(T)[k]]
    BY AlignIs
  <2>5. Ordered(Pairs(r))[k] = Ordered(T)[k]
    BY <1>6
  <2>6. r[Ordered(T)[k]] = q[Ordered(T)[k]]
    BY <1>1, <2>2
  <2> QED
    BY <2>3, <2>4, <2>5, <2>6
<1>8. Len(Test!Align(q)) = a /\ Len(Test!Align(r)) = a + b
  BY <1>6, AlignIs
<1> QED
  BY <1>2, <1>6, <1>7, <1>8 DEF Extends

-----------------------------------------------------------------------------
(* walk_forward.py.                                                        *)

\* The windows of a market are windows of it when it has gone on.
LEMMA WindowsGrow ==
    ASSUME NEW n \in Nat, NEW m \in Nat, n <= m,
           NEW train \in Nat \ {0}, NEW test \in Nat \ {0}, NEW step \in Nat \ {0}
    PROVE  /\ Test!Windows(n, train, test, step) \subseteq Test!Windows(m, train, test, step)
           /\ \A w \in Test!Windows(n, train, test, step) :
                 \E s \in Nat : w = <<s, s + train, s + train, s + train + test>> /\ s + train + test <= n
<1> DEFINE S(k) == {t \in {j * step : j \in 0 .. k} : t + train + test <= k}
<1>1. S(n) \subseteq S(m) /\ S(n) \subseteq Nat
  <2> SUFFICES ASSUME NEW t \in S(n) PROVE t \in S(m) /\ t \in Nat
    OBVIOUS
  <2>1. PICK j \in 0 .. n : t = j * step
    OBVIOUS
  <2>2. j \in 0 .. m /\ t + train + test <= n
    OBVIOUS
  <2>3. j * step \in Nat
    BY <2>2
  <2>4. t + train + test <= m
    BY <2>1, <2>2, <2>3
  <2> QED
    BY <2>1, <2>2, <2>3, <2>4
<1>2. \A k : Test!Windows(k, train, test, step) = {<<s, s + train, s + train, s + train + test>> : s \in S(k)}
  BY DEF Test!Windows
<1>3. \A s \in S(n) : s + train + test <= n
  OBVIOUS
<1> HIDE DEF S
<1> QED
  BY <1>1, <1>2, <1>3

LEMMA SliceSame ==
    ASSUME NEW S, NEW q \in Seq(S), NEW r \in Seq(S), Extends(q, r), NEW a \in Nat, NEW b \in Nat, b <= Len(q)
    PROVE  Test!Slice(r, a, b) = Test!Slice(q, a, b)
<1>1. Len(q) \in Nat /\ Len(r) \in Nat /\ Len(q) <= Len(r) /\ \A k \in 1 .. Len(q) : r[k] = q[k]
  BY DEF Extends
<1>2. /\ SubSeq(q, a + 1, b) = [i \in 1 .. b - (a + 1) + 1 |-> q[i + (a + 1) - 1]]
      /\ SubSeq(r, a + 1, b) = [i \in 1 .. b - (a + 1) + 1 |-> r[i + (a + 1) - 1]]
  BY <1>1
<1>3. \A i \in 1 .. b - (a + 1) + 1 : i + (a + 1) - 1 \in 1 .. Len(q)
  BY <1>1
<1>4. \A i \in 1 .. b - (a + 1) + 1 : r[i + (a + 1) - 1] = q[i + (a + 1) - 1]
  BY <1>1, <1>3
<1> QED
  BY <1>2, <1>4 DEF Test!Slice

LEMMA WalkExtends ==
    ASSUME NEW S, NEW q \in Seq(S), NEW r \in Seq(S), Extends(q, r)
    PROVE  Test!WalkForward(q) \subseteq Test!WalkForward(r)
<1>1. Len(q) \in Nat /\ Len(r) \in Nat /\ Len(q) <= Len(r)
  BY DEF Extends
<1>2. InSample \in Nat \ {0} /\ OutSample \in Nat \ {0} /\ Step \in Nat \ {0}
  BY ResearchAssumption
<1>3. SUFFICES ASSUME NEW w \in Test!Windows(Len(q), InSample, OutSample, Step)
               PROVE  w \in Test!Windows(Len(r), InSample, OutSample, Step)
                      /\ Test!WalkFold(r, w) = Test!WalkFold(q, w)
  BY <1>3 DEF Test!WalkForward
<1>4. w \in Test!Windows(Len(r), InSample, OutSample, Step)
  BY <1>1, <1>2, WindowsGrow
<1>5. PICK s \in Nat : w = <<s, s + InSample, s + InSample, s + InSample + OutSample>> /\ s + InSample + OutSample <= Len(q)
  BY <1>1, <1>2, WindowsGrow
<1>6. /\ w[1] \in Nat /\ w[2] \in Nat /\ w[3] \in Nat /\ w[4] \in Nat
      /\ w[2] <= Len(q) /\ w[4] <= Len(q)
  BY <1>1, <1>2, <1>5
<1>7. Test!Slice(r, w[1], w[2]) = Test!Slice(q, w[1], w[2]) /\ Test!Slice(r, w[3], w[4]) = Test!Slice(q, w[3], w[4])
  BY <1>6, SliceSame
<1>8. Test!WalkFold(r, w) = Test!WalkFold(q, w)
  BY <1>7, Zenon DEF Test!WalkFold
<1> QED
  BY <1>4, <1>8

\* The research depends on what has come so far only.
LEMMA MarketGoesOn ==
    ASSUME NEW q \in Seq(Moments), NEW r \in Seq(Moments), Extends(q, r)
    PROVE  /\ Test!IsPrefix(Test!Funding(q), Test!Funding(r))
           /\ Test!IsPrefix(Test!Statistical(q), Test!Statistical(r))
           /\ Test!WalkForward(Test!Align(q)) \subseteq Test!WalkForward(Test!Align(r))
<1>1. Moments \subseteq Sound
  BY ResearchAssumption DEF Sound, Candles
<1>2. q \in Seq(Sound) /\ r \in Seq(Sound)
  BY <1>1
<1>3. /\ Test!Seen(q) \in Seq(Sound) /\ Test!Seen(r) \in Seq(Sound)
      /\ Extends(Test!Seen(q), Test!Seen(r))
  BY <1>2, SeenIs, SeenExtends
<1>4. Test!Seen(q) \in Seq(Candles) /\ Test!Seen(r) \in Seq(Candles)
  BY <1>3, SoundIs
<1>5. Edge \in Int /\ Fee \in Int /\ Head(Grid) \in Rules
  <2>1. Grid \in Seq(Rules) /\ Grid # <<>>
    BY ResearchAssumption DEF Rules
  <2>2. Head(Grid) \in Rules
    BY <2>1
  <2> QED
    BY <2>2, ResearchAssumption
<1>6. Test!IsPrefix(Test!Funding(q), Test!Funding(r))
  BY <1>3, <1>4, <1>5, FundingsExtend, PrefixIs DEF Test!Funding
<1>7. /\ Test!Align(Test!Seen(q)) \in Seq(Aligned) /\ Test!Align(Test!Seen(r)) \in Seq(Aligned)
      /\ Extends(Test!Align(Test!Seen(q)), Test!Align(Test!Seen(r)))
  BY <1>3, AlignIs, AlignExtends
<1>8. Test!IsPrefix(Test!Statistical(q), Test!Statistical(r))
  BY <1>5, <1>7, StatsExtend, PrefixIs DEF Test!Statistical
<1>9. Test!WalkForward(Test!Align(q)) \subseteq Test!WalkForward(Test!Align(r))
  BY <1>2, AlignIs, AlignExtends, WalkExtends
<1> QED
  BY <1>6, <1>8, <1>9

-----------------------------------------------------------------------------
(* The research in the composition.                                        *)

MarketTyped == market \in Seq(Moments)

LEMMA PeriodStep ==
    ASSUME MarketTyped, [Test!Next]_(Test!vars)
    PROVE  MarketTyped' /\ Extends(market, market')
<1>1. \A m \in Moments : Append(market, m) \in Seq(Moments) /\ Extends(market, Append(market, m))
  BY GoesOn DEF MarketTyped
<1>2. Extends(market, market)
  BY GoesOn DEF MarketTyped
<1>3. CASE \E m \in Moments : Test!Period(m)
  BY <1>1, <1>3 DEF Test!Period, MarketTyped
<1>4. CASE Test!Draw
  <2>1. market' = market
    BY <1>4 DEF Test!Draw
  <2> QED
    BY <1>2, <2>1 DEF MarketTyped
<1>5. CASE UNCHANGED Test!vars
  BY <1>2, <1>5 DEF MarketTyped, Test!vars
<1> QED
  BY <1>3, <1>4, <1>5 DEF Test!Next

\* What comes later changes no trade made and no window tested.
OnlyGoesOn ==
    /\ Test!IsPrefix(Test!Funding(market), Test!Funding(market'))
    /\ Test!IsPrefix(Test!Statistical(market), Test!Statistical(market'))
    /\ Test!WalkForward(Test!Align(market)) \subseteq Test!WalkForward(Test!Align(market'))

(* A simulation makes no use of what comes later: on a market that goes on *)
(* in any way both simulations have made the same trades, and a            *)
(* walk-forward test has the same folds (run_funding_arb, run_stat_arb,    *)
(* walk_forward_stat_arb).                                                 *)
THEOREM NeverLooksAhead == Spec => NoLookAhead
<1>1. Test!Init => MarketTyped
  BY DEF Test!Init, MarketTyped
<1>2. MarketTyped /\ [Test!Next]_(Test!vars) => MarketTyped'
  BY PeriodStep
<1>3. MarketTyped /\ MarketTyped' /\ [Test!Next]_(Test!vars) => OnlyGoesOn
  BY PeriodStep, MarketGoesOn DEF MarketTyped, OnlyGoesOn
<1>4. Spec => Test!Spec
  BY PartsRun
<1>5. (Spec => [][OnlyGoesOn]_(Test!vars)) => (Spec => NoLookAhead)
  BY DEF NoLookAhead, Test!NoLookAhead, OnlyGoesOn
<1> QED
  BY <1>1, <1>2, <1>3, <1>4, <1>5, PTL DEF Test!Spec

-----------------------------------------------------------------------------
(* The figures of a run of trades (_compute_metrics).                      *)

\* The equity after each trade, one after the other.
LEMMA CurveIs ==
    ASSUME NEW q \in Seq(Int)
    PROVE  /\ Test!EquityCurve(q) \in [0 .. Len(q) -> Int]
           /\ Test!EquityCurve(q)[0] = Capital
           /\ \A k \in Nat : k < Len(q) =>
                  Test!EquityCurve(q)[k + 1] = Test!EquityCurve(q)[k] + q[k + 1]
<1> DEFINE n == Len(q)
           curve == [k \in 0 .. n |-> Capital + SumIn(q, 1 .. k)]
<1>1. n \in Nat /\ Capital \in Nat \ {0} /\ \A i \in 1 .. n : q[i] \in Int
  BY ResearchAssumption
<1>2. ASSUME NEW k \in 0 .. n PROVE Test!Sum(SubSeq(q, 1, k)) = SumIn(q, 1 .. k) /\ SumIn(q, 1 .. k) \in Int
  <2>1. k \in Nat /\ IsFiniteSet(1 .. k) /\ \A i \in 1 .. k : i \in 1 .. n
    BY <1>1, FS_Interval
  <2>2. SubSeq(q, 1, k) = [i \in 1 .. k |-> q[i]]
    BY <1>1, <2>1
  <2> DEFINE s == [i \in 1 .. k |-> q[i]]
  <2>3. DOMAIN s = 1 .. k /\ \A i \in 1 .. k : s[i] \in Int /\ q[i] = s[i]
    BY <1>1, <2>1
  <2> HIDE DEF s
  <2>4. SumIn(s, 1 .. k) = SumIn(q, 1 .. k) /\ SumIn(s, 1 .. k) \in Int
    BY <2>1, <2>3, SumSame, SumInt
  <2>5. Test!Sum(SubSeq(q, 1, k)) = SumIn(s, 1 .. k)
    BY <2>2, <2>3, SumOfAll DEF s
  <2> QED
    BY <2>4, <2>5
<1>3. Test!EquityCurve(q) = curve
  BY <1>2 DEF Test!EquityCurve
<1>4. curve \in [0 .. n -> Int]
  BY <1>1, <1>2
<1>5. curve[0] = Capital
  BY <1>1, SumFirst
<1>6. ASSUME NEW k \in Nat, k < n PROVE curve[k + 1] = curve[k] + q[k + 1]
  <2>1. /\ SumIn(q, 1 .. k) \in Int /\ q[k + 1] \in Int
        /\ SumIn(q, 1 .. (k + 1)) = SumIn(q, 1 .. k) + q[k + 1]
    BY <1>1, <1>6, SumNext
  <2>2. k \in 0 .. n /\ k + 1 \in 0 .. n
    BY <1>1, <1>6
  <2> QED
    BY <1>1, <2>1, <2>2
<1> HIDE DEF curve
<1> QED
  BY <1>3, <1>4, <1>5, <1>6

\* The highest point up to k.
Peak(curve, k) == Largest({curve[i] : i \in 0 .. k})

LEMMA PeakIs ==
    ASSUME NEW n \in Nat, NEW curve \in [0 .. n -> Int]
    PROVE  /\ \A k \in 0 .. n : Peak(curve, k) \in Int /\ curve[0] <= Peak(curve, k) /\ curve[k] <= Peak(curve, k)
           /\ Peak(curve, 0) = curve[0]
           /\ \A k \in Nat : k < n =>
                 Peak(curve, k + 1) = IF curve[k + 1] > Peak(curve, k) THEN curve[k + 1] ELSE Peak(curve, k)
<1> DEFINE S(k) == {curve[i] : i \in 0 .. k}
<1>1. ASSUME NEW k \in 0 .. n PROVE Peak(curve, k) \in S(k) /\ (\A y \in S(k) : y <= Peak(curve, k)) /\ S(k) \subseteq Int
  <2>1. \A i \in 0 .. k : i \in 0 .. n
    OBVIOUS
  <2>2. S(k) \in SUBSET Int
    BY <2>1
  <2>3. IsFiniteSet(S(k))
    <3> DEFINE f == [i \in 0 .. k |-> curve[i]]
    <3>1. IsFiniteSet(0 .. k) /\ DOMAIN f = 0 .. k
      BY FS_Interval
    <3>2. S(k) = {f[i] : i \in DOMAIN f}
      BY <3>1
    <3> HIDE DEF f, S
    <3> QED
      BY <3>1, <3>2, FiniteImage
  <2>4. curve[0] \in S(k)
    OBVIOUS
  <2>5. S(k) # {}
    BY <2>4
  <2> HIDE DEF S
  <2>6. Largest(S(k)) \in S(k) /\ \A y \in S(k) : y <= Largest(S(k))
    BY <2>2, <2>3, <2>5, LargestOf
  <2> QED
    BY <2>2, <2>6 DEF Peak, S
<1>2. ASSUME NEW k \in 0 .. n PROVE curve[0] \in S(k) /\ curve[k] \in S(k)
  OBVIOUS
<1>3. S(0) = {curve[0]}
  OBVIOUS
<1>4. ASSUME NEW k \in Nat, k < n
      PROVE  Peak(curve, k + 1) = IF curve[k + 1] > Peak(curve, k) THEN curve[k + 1] ELSE Peak(curve, k)
  <2>1. k \in 0 .. n /\ k + 1 \in 0 .. n
    BY <1>4
  <2>2. S(k + 1) = S(k) \cup {curve[k + 1]}
    <3>1. \A i : i \in 0 .. k + 1 <=> i \in 0 .. k \/ i = k + 1
      BY <1>4
    <3> QED
      BY <3>1
  <2>3. curve[k + 1] \in Int
    BY <2>1
  <2> DEFINE x == IF curve[k + 1] > Peak(curve, k) THEN curve[k + 1] ELSE Peak(curve, k)
  <2>4. Peak(curve, k) \in S(k) /\ (\A y \in S(k) : y <= Peak(curve, k)) /\ S(k) \subseteq Int
    BY <1>1, <2>1
  <2> HIDE DEF S
  <2>5. Peak(curve, k) \in Int
    BY <2>4
  <2>6. x \in S(k + 1) /\ S(k + 1) \in SUBSET Int
    BY <2>2, <2>3, <2>4
  <2>7. \A y \in S(k + 1) : y <= x
    <3> SUFFICES ASSUME NEW y \in S(k + 1) PROVE y <= x
      OBVIOUS
    <3>1. CASE y \in S(k)
      <4>1. y <= Peak(curve, k) /\ y \in Int
        BY <2>4, <3>1
      <4> QED
        BY <2>3, <2>5, <4>1
    <3>2. CASE y = curve[k + 1]
      BY <2>3, <2>5, <3>2
    <3> QED
      BY <2>2, <3>1, <3>2
  <2> HIDE DEF x
  <2>8. Largest(S(k + 1)) = x
    BY <2>6, <2>7, LargestIs
  <2> QED
    BY <2>8 DEF Peak, S, x
<1>5. Peak(curve, 0) = curve[0]
  <2>1. 0 \in 0 .. n
    OBVIOUS
  <2> QED
    BY <1>1, <1>3, <2>1
<1>6. ASSUME NEW k \in 0 .. n PROVE Peak(curve, k) \in Int /\ curve[0] <= Peak(curve, k) /\ curve[k] <= Peak(curve, k)
  <2> HIDE DEF S
  <2> QED
    BY <1>1, <1>2
<1> QED
  BY <1>4, <1>5, <1>6

\* A share a / b that is no more than f / d is no more than the larger g / e.
LEMMA SharesOrder ==
    ASSUME NEW a \in Int, NEW b \in Nat, NEW f \in Int, NEW d \in Nat \ {0}, NEW g \in Int, NEW e \in Nat,
           a * d <= f * b, f * e < g * d
    PROVE  a * e <= g * b
<1>1. /\ a * d \in Int /\ f * b \in Int /\ f * e \in Int /\ g * d \in Int /\ a * e \in Int /\ g * b \in Int
  OBVIOUS
<1>2. (a * d) * e <= (f * b) * e
  BY <1>1, TimesMost
<1>3. (f * e) * b <= (g * d) * b
  BY <1>1, TimesMost
<1>4. (a * d) * e = d * (a * e) /\ (f * b) * e = (f * e) * b /\ (g * d) * b = d * (g * b)
  OBVIOUS
<1>5. d * (a * e) <= d * (g * b) /\ d * (a * e) \in Int /\ d * (g * b) \in Int
  BY <1>2, <1>3, <1>4
<1>6. ~(g * b < a * e)
  <2> SUFFICES ASSUME g * b < a * e PROVE FALSE
    OBVIOUS
  <2>1. g * b + 1 <= a * e /\ g * b + 1 \in Int
    BY <1>1
  <2>2. d * (g * b + 1) <= d * (a * e)
    BY <1>1, <2>1, TimesMost
  <2>3. \A x \in Int : d * (x + 1) = d * x + d
    OBVIOUS
  <2>4. d * (g * b + 1) = d * (g * b) + d
    BY <1>1, <2>3
  <2> QED
    BY <1>5, <2>2, <2>4
<1> QED
  BY <1>1, <1>6

Figures == [equity : Int, peak : Int, fall : Int, from : Int]

Opening == [equity |-> Capital, peak |-> Capital, fall |-> 0, from |-> Capital]

AreMetrics(q, c) ==
    c = [s \in SUBSET DOMAIN q |->
            IF s = {} THEN Opening ELSE Test!WorstStep(c[s \ {Test!Max(s)}], q[Test!Max(s)])]

Runs(q) == CHOOSE c : AreMetrics(q, c)

LEMMA MetricsFold == ASSUME NEW q PROVE Test!Metrics(q) = Runs(q)[DOMAIN q]
BY Zenon DEF Test!Metrics, Test!FoldLeft, Test!MapThenFoldSet, Runs, AreMetrics, Opening

LEMMA WorstStepTyped ==
    ASSUME NEW acc \in Figures, NEW x \in Int
    PROVE  Test!WorstStep(acc, x) \in Figures
<1> DEFINE equity == acc.equity + x
           peak == IF equity > acc.peak THEN equity ELSE acc.peak
           worse == peak > 0 /\ (peak - equity) * acc.from > acc.fall * peak
           fall == IF worse THEN peak - equity ELSE acc.fall
           from == IF worse THEN peak ELSE acc.from
<1>1. acc.equity \in Int /\ acc.peak \in Int /\ acc.fall \in Int /\ acc.from \in Int
  BY DEF Figures
<1>2. equity \in Int /\ peak \in Int
  BY <1>1
<1> HIDE DEF equity, peak
<1>3. fall \in Int /\ from \in Int
  <2> HIDE DEF worse
  <2> QED
    BY <1>1, <1>2
<1>4. Test!WorstStep(acc, x) = [equity |-> equity, peak |-> peak, fall |-> fall, from |-> from]
  BY DEF Test!WorstStep, equity, peak
<1> HIDE DEF fall, from
<1> QED
  BY <1>2, <1>3, <1>4 DEF Figures

LEMMA RunsExist ==
    ASSUME NEW q \in Seq(Int)
    PROVE  AreMetrics(q, Runs(q))
<1> DEFINE n == Len(q)
           h == [i \in 1 .. n |-> [acc \in Figures |-> Test!WorstStep(acc, q[i])]]
<1>1. n \in Nat /\ Opening \in Figures /\ DOMAIN q = 1 .. n
  BY ResearchAssumption DEF Opening, Figures
<1>2. h \in [1 .. n -> [Figures -> Figures]]
  <2>1. \A i \in 1 .. n : q[i] \in Int
    OBVIOUS
  <2> QED
    BY <2>1, WorstStepTyped
<1>3. PICK g \in [SUBSET (1 .. n) -> Figures] : IsLoop(n, Figures, Opening, h, g)
  <2> HIDE DEF h, n
  <2> QED
    BY <1>1, <1>2, LoopExists
<1> DEFINE k == [s \in SUBSET (1 .. n) |->
                    IF s = {} THEN Opening ELSE Test!WorstStep(g[s \ {Test!Max(s)}], q[Test!Max(s)])]
<1>4. ASSUME NEW s \in SUBSET (1 .. n) PROVE g[s] = k[s]
  <2>1. CASE s = {}
    BY <1>3, <2>1 DEF IsLoop
  <2>2. CASE s # {}
    <3>1. Test!Max(s) = Largest(s)
      BY SameLargest
    <3>2. g[s] = Test!WorstStep(g[s \ {Largest(s)}], q[Largest(s)])
      <4>1. Largest(s) \in 1 .. n /\ g[s \ {Largest(s)}] \in Figures /\ g[s] = h[Largest(s)][g[s \ {Largest(s)}]]
        BY <1>3, <2>2 DEF IsLoop
      <4> HIDE DEF n, k
      <4> QED
        BY <4>1
    <3> QED
      BY <2>2, <3>1, <3>2
  <2> QED
    BY <2>1, <2>2
<1>5. AreMetrics(q, g)
  <2>1. g = k
    <3> HIDE DEF k
    <3>1. k = [s \in SUBSET (1 .. n) |-> k[s]]
      BY DEF k
    <3> QED
      BY <1>3, <1>4, <3>1
  <2> HIDE DEF n
  <2> QED
    BY <1>1, <2>1 DEF AreMetrics
<1> QED
  BY <1>5, Zenon DEF Runs

LEMMA RunsRun ==
    ASSUME NEW q \in Seq(Int)
    PROVE  /\ Test!Metrics(q) = Runs(q)[1 .. Len(q)]
           /\ Runs(q)[1 .. 0] = Opening
           /\ \A k \in Nat : k < Len(q) =>
                  Runs(q)[1 .. (k + 1)] = Test!WorstStep(Runs(q)[1 .. k], q[k + 1])
<1> DEFINE c == Runs(q)
<1>1. DOMAIN q = 1 .. Len(q) /\ Len(q) \in Nat
  OBVIOUS
<1>2. AreMetrics(q, c)
  BY RunsExist
<1>6. Test!Metrics(q) = c[1 .. Len(q)]
  BY <1>1, MetricsFold
<1> HIDE DEF c
<1>3. \A s \in SUBSET (1 .. Len(q)) :
         c[s] = IF s = {} THEN Opening ELSE Test!WorstStep(c[s \ {Test!Max(s)}], q[Test!Max(s)])
  BY <1>1, <1>2 DEF AreMetrics
<1>4. c[1 .. 0] = Opening
  <2>1. 1 .. 0 = {} /\ {} \in SUBSET (1 .. Len(q))
    OBVIOUS
  <2> QED
    BY <1>3, <2>1
<1>5. ASSUME NEW k \in Nat, k < Len(q)
      PROVE  c[1 .. (k + 1)] = Test!WorstStep(c[1 .. k], q[k + 1])
  <2>1. 1 .. (k + 1) \in SUBSET (1 .. Len(q))
    BY <1>1, <1>5
  <2>2. Test!Max(1 .. (k + 1)) = k + 1 /\ (1 .. (k + 1)) \ {k + 1} = 1 .. k /\ 1 .. (k + 1) # {}
    BY LargestUpTo, SameLargest
  <2> QED
    BY <1>3, <2>1, <2>2
<1> QED
  BY <1>4, <1>5, <1>6 DEF c

\* What one pass knows after k trades.
Tracked(curve, k, acc) ==
    /\ acc \in Figures
    /\ acc.equity = curve[k] /\ acc.peak = Peak(curve, k) /\ acc.from > 0
    /\ \E i \in 0 .. k : curve[i] = acc.from - acc.fall
    /\ \A i \in 0 .. k : (Peak(curve, i) - curve[i]) * acc.from <= acc.fall * Peak(curve, i)

LEMMA TrackedStep ==
    ASSUME NEW n \in Nat, NEW curve \in [0 .. n -> Int], curve[0] > 0, NEW k \in Nat, k < n,
           NEW acc, Tracked(curve, k, acc), NEW x \in Int, curve[k + 1] = curve[k] + x
    PROVE  Tracked(curve, k + 1, Test!WorstStep(acc, x))
<1> DEFINE equity == curve[k + 1]
           peak == Peak(curve, k + 1)
           worse == peak > 0 /\ (peak - equity) * acc.from > acc.fall * peak
           fall == IF worse THEN peak - equity ELSE acc.fall
           from == IF worse THEN peak ELSE acc.from
           after == Test!WorstStep(acc, x)
<1>1. acc \in Figures /\ acc.equity = curve[k] /\ acc.peak = Peak(curve, k) /\ acc.from > 0
  BY DEF Tracked
<1>2. acc.equity \in Int /\ acc.peak \in Int /\ acc.fall \in Int /\ acc.from \in Nat \ {0}
  BY <1>1 DEF Figures
<1>3. k \in 0 .. n /\ k + 1 \in 0 .. n
  OBVIOUS
<1>4. /\ peak = IF equity > Peak(curve, k) THEN equity ELSE Peak(curve, k)
      /\ peak \in Int /\ equity \in Int /\ peak > 0 /\ equity <= peak
      /\ \A i \in 0 .. k : Peak(curve, i) \in Nat /\ curve[i] \in Int
  <2>1. curve[0] \in Int
    OBVIOUS
  <2>2. \A i \in 0 .. k : i \in 0 .. n
    OBVIOUS
  <2>3. ASSUME NEW i \in 0 .. n PROVE Peak(curve, i) \in Int /\ curve[0] <= Peak(curve, i) /\ curve[i] <= Peak(curve, i)
    BY PeakIs
  <2> HIDE DEF peak
  <2>4. \A i \in 0 .. n : Peak(curve, i) \in Nat /\ Peak(curve, i) > 0 /\ curve[i] \in Int /\ curve[i] <= Peak(curve, i)
    BY <2>1, <2>3
  <2>5. peak = IF equity > Peak(curve, k) THEN equity ELSE Peak(curve, k)
    BY PeakIs DEF peak
  <2>6. peak \in Nat /\ peak > 0 /\ equity \in Int /\ equity <= peak
    BY <1>3, <2>4 DEF peak
  <2> QED
    BY <2>2, <2>4, <2>5, <2>6
<1>5. after = [equity |-> equity, peak |-> peak, fall |-> fall, from |-> from]
  <2>1. acc.equity + x = equity
    BY <1>1
  <2>2. (IF acc.equity + x > acc.peak THEN acc.equity + x ELSE acc.peak) = peak
    BY <1>1, <1>4, <2>1
  <2> HIDE DEF equity, peak
  <2> QED
    BY <2>1, <2>2, Zenon DEF Test!WorstStep
<1> HIDE DEF equity, peak, after
<1>6. fall \in Int /\ from \in Int /\ from > 0
  <2>1. CASE worse
    BY <1>4, <2>1
  <2>2. CASE ~worse
    BY <1>2, <2>2
  <2> QED
    BY <2>1, <2>2
<1>7. after \in Figures /\ after.equity = equity /\ after.peak = peak /\ after.fall = fall /\ after.from = from
  <2> HIDE DEF fall, from
  <2> QED
    BY <1>4, <1>5, <1>6 DEF Figures
<1>8. \E i \in 0 .. k + 1 : curve[i] = from - fall
  <2>1. CASE worse
    <3>1. curve[k + 1] = from - fall
      BY <1>4, <2>1 DEF equity
    <3> QED
      BY <3>1
  <2>2. CASE ~worse
    <3>1. PICK i \in 0 .. k : curve[i] = acc.from - acc.fall
      BY DEF Tracked
    <3>2. i \in 0 .. k + 1
      OBVIOUS
    <3> QED
      BY <2>2, <3>1, <3>2
  <2> QED
    BY <2>1, <2>2
<1>9. ASSUME NEW i \in 0 .. k PROVE (Peak(curve, i) - curve[i]) * from <= fall * Peak(curve, i)
  <2>1. (Peak(curve, i) - curve[i]) * acc.from <= acc.fall * Peak(curve, i)
    BY DEF Tracked
  <2>2. CASE worse
    <3>1. acc.fall * peak < fall * acc.from
      <4>1. (peak - equity) * acc.from > acc.fall * peak /\ fall = peak - equity
        BY <2>2
      <4>2. acc.fall * peak \in Int /\ (peak - equity) * acc.from \in Int
        <5>1. \A a, b \in Int : a * b \in Int
          OBVIOUS
        <5>2. peak \in Int /\ peak - equity \in Int /\ acc.from \in Int
          BY <1>2, <1>4
        <5> QED
          BY <1>2, <5>1, <5>2
      <4> QED
        BY <4>1, <4>2
    <3>2. from = peak
      BY <2>2
    <3>3. Peak(curve, i) \in Nat /\ Peak(curve, i) - curve[i] \in Int /\ peak \in Nat
      BY <1>4
    <3> HIDE DEF fall, from, worse
    <3>4. (Peak(curve, i) - curve[i]) * peak <= fall * Peak(curve, i)
      BY <1>2, <1>6, <2>1, <3>1, <3>3, SharesOrder
    <3> QED
      BY <3>2, <3>4
  <2>3. CASE ~worse
    BY <2>1, <2>3
  <2> QED
    BY <2>2, <2>3
<1>10. (peak - equity) * from <= fall * peak
  <2>1. CASE worse
    <3>1. from = peak /\ fall = peak - equity
      BY <2>1
    <3>2. (peak - equity) * peak \in Int
      BY <1>4
    <3> QED
      BY <3>1, <3>2
  <2>2. CASE ~worse
    <3>1. from = acc.from /\ fall = acc.fall /\ ~((peak - equity) * acc.from > acc.fall * peak)
      BY <1>4, <2>2
    <3>2. acc.fall * peak \in Int /\ (peak - equity) * acc.from \in Int
      <4>1. \A a, b \in Int : a * b \in Int
        OBVIOUS
      <4>2. peak \in Int /\ peak - equity \in Int /\ acc.from \in Int
        BY <1>2, <1>4
      <4> QED
        BY <1>2, <4>1, <4>2
    <3> QED
      BY <3>1, <3>2
  <2> QED
    BY <2>1, <2>2
<1> HIDE DEF fall, from
<1>11. \A i \in 0 .. k + 1 : (Peak(curve, i) - curve[i]) * from <= fall * Peak(curve, i)
  <2>1. \A i \in 0 .. k + 1 : i \in 0 .. k \/ i = k + 1
    OBVIOUS
  <2> QED
    BY <1>9, <1>10, <2>1 DEF equity, peak
<1> QED
  BY <1>6, <1>7, <1>8, <1>11 DEF Tracked, after, equity, peak

\* The deepest fall, the fall it was, and where the equity ends.
LEMMA FallRight ==
    ASSUME NEW q \in Seq(Int)
    PROVE  /\ Test!Deepest(q)
           /\ \E k \in DOMAIN Test!EquityCurve(q) : Test!EquityCurve(q)[k] = Test!Metrics(q).from - Test!Metrics(q).fall
           /\ Test!Metrics(q).equity = Test!EquityCurve(q)[Len(q)]
<1> DEFINE n == Len(q)
           curve == Test!EquityCurve(q)
           c == Runs(q)
           m == Test!Metrics(q)
           Good == {k \in Nat : k <= n => Tracked(curve, k, c[1 .. k])}
<1>1. n \in Nat /\ Capital \in Nat \ {0} /\ \A i \in 1 .. n : q[i] \in Int
  BY ResearchAssumption
<1>2. /\ curve \in [0 .. n -> Int] /\ curve[0] = Capital
      /\ \A k \in Nat : k < n => curve[k + 1] = curve[k] + q[k + 1]
  BY CurveIs
<1>3. /\ m = c[1 .. n] /\ c[1 .. 0] = Opening
      /\ \A k \in Nat : k < n => c[1 .. (k + 1)] = Test!WorstStep(c[1 .. k], q[k + 1])
  BY RunsRun
<1> HIDE DEF curve, c, n, m
<1>4. 0 \in Good
  <2>1. Peak(curve, 0) = curve[0]
    BY <1>1, <1>2, PeakIs
  <2>2. /\ Opening \in Figures /\ Opening.equity = Capital /\ Opening.peak = Capital
        /\ Opening.from = Capital /\ Opening.fall = 0
    BY <1>1 DEF Opening, Figures
  <2>3. 0 .. 0 = {0}
    OBVIOUS
  <2>4. (Capital - Capital) * Capital <= 0 * Capital /\ Capital = Capital - 0 /\ Capital > 0
    BY <1>1
  <2>5. Tracked(curve, 0, Opening)
    BY <1>2, <2>1, <2>2, <2>3, <2>4 DEF Tracked
  <2> QED
    BY <1>3, <2>5
<1>5. ASSUME NEW k \in Good PROVE k + 1 \in Good
  <2> SUFFICES ASSUME k + 1 <= n PROVE Tracked(curve, k + 1, c[1 .. (k + 1)])
    OBVIOUS
  <2>1. k \in Nat /\ k < n /\ k + 1 \in 1 .. n
    BY <1>1
  <2>2. Tracked(curve, k, c[1 .. k])
    BY <1>1, <2>1
  <2>3. q[k + 1] \in Int /\ curve[k + 1] = curve[k] + q[k + 1] /\ curve[0] > 0
    BY <1>1, <1>2, <2>1
  <2>4. Tracked(curve, k + 1, Test!WorstStep(c[1 .. k], q[k + 1]))
    BY <1>1, <1>2, <2>1, <2>2, <2>3, TrackedStep
  <2> QED
    BY <1>3, <2>1, <2>4
<1>6. Good \in SUBSET Nat
  OBVIOUS
<1>7. Good = Nat
  <2> HIDE DEF Good
  <2> QED
    BY <1>4, <1>5, <1>6, CountUp
<1>8. Tracked(curve, n, m)
  <2>1. n \in Good /\ n <= n
    BY <1>1, <1>7
  <2> QED
    BY <1>3, <2>1
<1> HIDE DEF Good
<1>9. DOMAIN curve = 0 .. n
  BY <1>2
<1>10. Test!Deepest(q)
  <2>1. \A k : Test!Max({curve[i] : i \in 0 .. k}) = Peak(curve, k)
    BY SameLargest DEF Peak
  <2>2. \A k \in 0 .. n : (Peak(curve, k) - curve[k]) * m.from <= m.fall * Peak(curve, k)
    BY <1>8 DEF Tracked
  <2> QED
    BY <1>9, <2>1, <2>2 DEF Test!Deepest, curve, m
<1>11. \E k \in DOMAIN curve : curve[k] = m.from - m.fall
  BY <1>8, <1>9 DEF Tracked
<1>12. m.equity = curve[n]
  BY <1>8 DEF Tracked
<1> QED
  BY <1>10, <1>11, <1>12 DEF curve, m, n

-----------------------------------------------------------------------------
(* Winners and losers.                                                     *)

LEMMA TakenIs ==
    ASSUME NEW V, NEW q \in Seq(V), NEW S \in SUBSET DOMAIN q
    PROVE  /\ IsFiniteSet(S) /\ Cardinality(S) \in Nat
           /\ Test!Taken(q, S) \in Seq(V) /\ Len(Test!Taken(q, S)) = Cardinality(S)
           /\ \A k \in 1 .. Cardinality(S) : \E i \in S : Test!Taken(q, S)[k] = q[i]
<1> DEFINE n == Cardinality(S)
           o == Ordered(S)
           t == [k \in 1 .. n |-> q[o[k]]]
<1>1. DOMAIN q = 1 .. Len(q) /\ Len(q) \in Nat /\ \A i \in DOMAIN q : q[i] \in V
  OBVIOUS
<1>2. IsFiniteSet(S) /\ S \in SUBSET Int
  <2>1. IsFiniteSet(1 .. Len(q))
    BY <1>1, FS_Interval
  <2> QED
    BY <1>1, <2>1, FS_Subset
<1>3. n \in Nat /\ o \in [1 .. n -> S]
  BY <1>2, OrderedRight
<1> HIDE DEF n, o
<1>4. Test!Taken(q, S) = t
  <2>1. Test!Taken(q, S) = [k \in DOMAIN o |-> q[o[k]]]
    BY SameOrder DEF Test!Taken, o
  <2> QED
    BY <1>3, <2>1
<1>5. t \in [1 .. n -> V] /\ \A k \in 1 .. n : \E i \in S : t[k] = q[i]
  BY <1>1, <1>3
<1> HIDE DEF t
<1>6. t \in Seq(V) /\ Len(t) = n
  BY <1>3, <1>5
<1> QED
  BY <1>2, <1>3, <1>4, <1>5, <1>6 DEF n

LEMMA SumPositive ==
    ASSUME NEW q \in Seq(Int), \A i \in 1 .. Len(q) : q[i] > 0
    PROVE  Test!Sum(q) \in Int /\ Len(q) <= Test!Sum(q)
<1> DEFINE n == Len(q)
           Good == {k \in Nat : k <= n => SumIn(q, 1 .. k) \in Int /\ k <= SumIn(q, 1 .. k)}
<1>1. n \in Nat /\ DOMAIN q = 1 .. n /\ \A i \in 1 .. n : q[i] \in Int
  OBVIOUS
<1>2. 0 \in Good
  BY SumFirst
<1>3. ASSUME NEW k \in Good PROVE k + 1 \in Good
  <2> SUFFICES ASSUME k + 1 <= n PROVE SumIn(q, 1 .. (k + 1)) \in Int /\ k + 1 <= SumIn(q, 1 .. (k + 1))
    OBVIOUS
  <2>1. k \in Nat /\ k < n /\ k + 1 \in 1 .. n /\ k <= n
    BY <1>1
  <2>2. SumIn(q, 1 .. k) \in Int /\ k <= SumIn(q, 1 .. k)
    BY <2>1
  <2>3. q[k + 1] \in Int /\ SumIn(q, 1 .. (k + 1)) = SumIn(q, 1 .. k) + q[k + 1]
    BY <1>1, <2>1, SumNext
  <2>4. q[k + 1] > 0
    BY <2>1
  <2> QED
    BY <2>1, <2>2, <2>3, <2>4
<1>4. Good \in SUBSET Nat
  OBVIOUS
<1>5. Good = Nat
  <2> HIDE DEF Good
  <2> QED
    BY <1>2, <1>3, <1>4, CountUp
<1>6. SumIn(q, 1 .. n) \in Int /\ n <= SumIn(q, 1 .. n)
  <2>1. n \in Good /\ n <= n
    BY <1>1, <1>5
  <2> QED
    BY <2>1
<1> QED
  BY <1>1, <1>6, SumOfAll

LEMMA SumTyped ==
    ASSUME NEW q \in Seq(Int)
    PROVE  Test!Sum(q) \in Int
<1>1. IsFiniteSet(DOMAIN q) /\ \A i \in DOMAIN q : q[i] \in Int
  <2>1. DOMAIN q = 1 .. Len(q) /\ Len(q) \in Nat
    OBVIOUS
  <2> QED
    BY <2>1, FS_Interval
<1> QED
  BY <1>1, SumInt, SumOfAll

LEMMA WonOrLost ==
    ASSUME NEW q \in Seq(Int)
    PROVE  /\ Test!Winners(q) \in Seq(Int) /\ Test!Losers(q) \in Seq(Int)
           /\ Len(Test!Winners(q)) \in Nat /\ Len(Test!Losers(q)) \in Nat
           /\ Len(Test!Winners(q)) + Len(Test!Losers(q)) = Len(q)
           /\ Len(Test!Winners(q)) <= Test!Sum(Test!Winners(q))
           /\ Test!Sum(Test!Winners(q)) \in Int /\ Test!Sum(Test!Losers(q)) \in Int
<1> DEFINE W == {k \in DOMAIN q : q[k] > 0}
           L == {k \in DOMAIN q : q[k] <= 0}
<1>1. DOMAIN q = 1 .. Len(q) /\ Len(q) \in Nat /\ \A k \in DOMAIN q : q[k] \in Int
  OBVIOUS
<1>2. Test!Winners(q) = Test!Taken(q, W) /\ Test!Losers(q) = Test!Taken(q, L)
  BY DEF Test!Winners, Test!Losers
<1>3. W \in SUBSET DOMAIN q /\ L \in SUBSET DOMAIN q
  OBVIOUS
<1>4. W \cap L = {} /\ W \cup L = DOMAIN q
  BY <1>1
<1>5. \A i \in W : q[i] > 0
  OBVIOUS
<1> HIDE DEF W, L
<1>6. /\ IsFiniteSet(W) /\ Cardinality(W) \in Nat
      /\ Test!Taken(q, W) \in Seq(Int) /\ Len(Test!Taken(q, W)) = Cardinality(W)
      /\ \A k \in 1 .. Cardinality(W) : \E i \in W : Test!Taken(q, W)[k] = q[i]
  BY <1>3, TakenIs
<1>7. /\ IsFiniteSet(L) /\ Cardinality(L) \in Nat
      /\ Test!Taken(q, L) \in Seq(Int) /\ Len(Test!Taken(q, L)) = Cardinality(L)
  BY <1>3, TakenIs
<1>8. Cardinality(W) + Cardinality(L) = Len(q)
  <2>1. Cardinality(W \cup L) = Cardinality(W) + Cardinality(L) - Cardinality({})
    <3>1. IsFiniteSet(W) /\ IsFiniteSet(L)
      BY <1>6, <1>7
    <3>2. Cardinality(W \cup L) = Cardinality(W) + Cardinality(L) - Cardinality(W \cap L)
      BY <3>1, FS_Union, Zenon
    <3> QED
      BY <1>4, <3>2, Zenon
  <2>2. \A n \in Nat : Cardinality(1 .. n) = n
    BY FS_Interval
  <2>3. Cardinality({}) = 0
    BY FS_EmptySet
  <2>4. Cardinality(DOMAIN q) = Len(q)
    BY <1>1, <2>2
  <2>5. Cardinality(DOMAIN q) = Cardinality(W) + Cardinality(L) - 0
    BY <1>4, <2>1, <2>3
  <2> QED
    BY <1>6, <1>7, <2>4, <2>5
<1>9. Test!Sum(Test!Taken(q, W)) \in Int /\ Cardinality(W) <= Test!Sum(Test!Taken(q, W))
  <2>1. \A k \in 1 .. Len(Test!Taken(q, W)) : Test!Taken(q, W)[k] > 0
    BY <1>5, <1>6
  <2> QED
    BY <1>6, <2>1, SumPositive
<1>10. Test!Sum(Test!Taken(q, L)) \in Int
  BY <1>7, SumTyped
<1> QED
  BY <1>2, <1>6, <1>7, <1>8, <1>9, <1>10

InKellyBounds(x) == x \in -1 .. 2500

LEMMA KellyBounded ==
    ASSUME NEW q, q \in Seq(Int)
    PROVE  InKellyBounds(Test!Kelly(q))
<1> DEFINE w == Test!Winners(q)
           l == Test!Losers(q)
           a == (10000 * Len(w)) \div Len(q)
           b == (10000 * (-Test!Sum(l)) * Len(w)) \div (Len(q) * Test!Sum(w))
           full == a - b
           half == Test!Max({full, 0}) \div 2
<1>1. /\ w \in Seq(Int) /\ l \in Seq(Int) /\ Len(w) \in Nat /\ Len(l) \in Nat
      /\ Len(w) + Len(l) = Len(q) /\ Len(w) <= Test!Sum(w)
      /\ Test!Sum(w) \in Int /\ Test!Sum(l) \in Int
  BY WonOrLost
<1> HIDE DEF w, l
<1>2. CASE w = <<>> \/ l = <<>>
  <2>1. Test!Kelly(q) = 0
    BY <1>2 DEF Test!Kelly, w, l
  <2> QED
    BY <2>1 DEF InKellyBounds
<1>3. CASE ~(w = <<>> \/ l = <<>>) /\ Test!Sum(l) = 0
  <2>1. Test!Kelly(q) = -1
    BY <1>3 DEF Test!Kelly, w, l, Test!Raises
  <2> QED
    BY <2>1 DEF InKellyBounds
<1>4. CASE ~(w = <<>> \/ l = <<>>) /\ Test!Sum(l) # 0
  <2>1. Len(w) \in Nat \ {0}
    BY <1>1, <1>4
  <2>2. Len(q) \in Nat \ {0} /\ Test!Sum(w) \in Nat \ {0}
    BY <1>1, <2>1
  <2>3. \A x, y \in Nat \ {0} : x * y \in Nat \ {0}
    OBVIOUS
  <2>4. Len(q) * Test!Sum(w) \in Nat \ {0}
    BY <2>2, <2>3
  <2>5. \A x, y \in Int : 10000 * x \in Int /\ 10000 * (-x) * y \in Int
    OBVIOUS
  <2>6. a \in Int
    BY <2>1, <2>2, <2>5, Quotient
  <2>7. b \in Int
    <3>1. 10000 * (-Test!Sum(l)) * Len(w) \in Int
      BY <1>1, <2>1, <2>5
    <3> DEFINE x == 10000 * (-Test!Sum(l)) * Len(w)
               y == Len(q) * Test!Sum(w)
    <3>2. x \in Int /\ y \in Nat \ {0} /\ b = x \div y
      BY <2>4, <3>1
    <3> HIDE DEF x, y, b
    <3> QED
      BY <3>2, Quotient
  <2> HIDE DEF a, b
  <2>8. full \in Int
    BY <2>6, <2>7
  <2> HIDE DEF full
  <2>9. Test!Max({full, 0}) \in Nat
    <3> DEFINE x == IF full > 0 THEN full ELSE 0
    <3>1. x \in {full, 0} /\ \A y \in {full, 0} : y <= x
      BY <2>8
    <3>2. {full, 0} \in SUBSET Int /\ x \in Nat
      BY <2>8
    <3> HIDE DEF x
    <3>3. Largest({full, 0}) = x
      BY <3>1, <3>2, LargestIs
    <3> QED
      BY <3>2, <3>3, SameLargest
  <2>10. half \in Nat
    BY <2>9
  <2> HIDE DEF half
  <2> DEFINE least == Test!Min({half, 2500})
  <2>11. least \in Int /\ 0 <= least /\ least <= 2500
    <3>1. \E x \in {half, 2500} : \A y \in {half, 2500} : x <= y
      BY <2>10
    <3>2. least \in {half, 2500} /\ \A y \in {half, 2500} : least <= y
      BY <3>1 DEF Test!Min
    <3> HIDE DEF least
    <3> QED
      BY <2>10, <3>2
  <2>12. Test!Kelly(q) = least
    BY <1>4, SMT DEF Test!Kelly, half, full, a, b, w, l
  <2> DEFINE kelly == Test!Kelly(q)
  <2> HIDE DEF least, kelly
  <2>13. kelly \in Int /\ -1 <= kelly /\ kelly <= 2500
    BY ONLY <2>11, <2>12, SMT DEF kelly
  <2> QED
    BY ONLY <2>13, SMT DEF InKellyBounds, kelly
<1> QED
  BY <1>2, <1>3, <1>4

\* The figures of a run of trades are those of their definitions.
FiguresRight(q) ==
    /\ Test!Deepest(q)
    /\ \E k \in DOMAIN Test!EquityCurve(q) : Test!EquityCurve(q)[k] = Test!Metrics(q).from - Test!Metrics(q).fall
    /\ Test!Metrics(q).equity = Test!EquityCurve(q)[Len(q)]
    /\ Len(Test!Winners(q)) + Len(Test!Losers(q)) = Len(q)
    /\ InKellyBounds(Test!Kelly(q))

LEMMA FiguresAreRight == ASSUME NEW q \in Seq(Int) PROVE FiguresRight(q)
<1>1. /\ Test!Deepest(q)
      /\ \E k \in DOMAIN Test!EquityCurve(q) : Test!EquityCurve(q)[k] = Test!Metrics(q).from - Test!Metrics(q).fall
      /\ Test!Metrics(q).equity = Test!EquityCurve(q)[Len(q)]
  BY FallRight
<1>2. Len(Test!Winners(q)) + Len(Test!Losers(q)) = Len(q)
  BY WonOrLost
<1>3. InKellyBounds(Test!Kelly(q))
  BY KellyBounded
<1> QED
  BY <1>1, <1>2, <1>3, Zenon DEF FiguresRight

\* The trades of both simulations.
LEMMA TradesTyped ==
    ASSUME NEW q \in Seq(Moments)
    PROVE  /\ Test!Funding(q) \in Seq(Trade) /\ Test!Statistical(q) \in Seq(Trade)
<1>1. Moments \subseteq Sound
  BY ResearchAssumption DEF Sound, Candles
<1>2. q \in Seq(Sound)
  BY <1>1
<1>3. Test!Seen(q) \in Seq(Sound) /\ Test!Seen(q) \in Seq(Candles)
  BY <1>2, SeenIs, SoundIs
<1>4. Edge \in Int /\ Fee \in Int
  BY ResearchAssumption
<1>5. Head(Grid) \in Rules
  <2>1. Grid \in Seq(Rules) /\ Grid # <<>>
    BY ResearchAssumption DEF Rules
  <2> QED
    BY <2>1
<1>6. Test!Align(Test!Seen(q)) \in Seq(Aligned)
  BY <1>3, AlignIs
<1>7. Extends(Test!Seen(q), Test!Seen(q)) /\ Extends(Test!Align(Test!Seen(q)), Test!Align(Test!Seen(q)))
  BY <1>3, <1>6, GoesOn
<1>8. Test!Funding(q) \in Seq(Trade)
  BY <1>3, <1>4, <1>7, FundingsExtend DEF Test!Funding
<1>9. Test!Statistical(q) \in Seq(Trade)
  BY <1>5, <1>6, <1>7, StatsExtend DEF Test!Statistical
<1> QED
  BY <1>8, <1>9

LEMMA NetsTyped ==
    ASSUME NEW q \in Seq(Trade)
    PROVE  Test!Nets(q) \in Seq(Int) /\ Len(Test!Nets(q)) = Len(q)
<1>1. DOMAIN q = 1 .. Len(q) /\ Len(q) \in Nat /\ \A k \in 1 .. Len(q) : q[k].net \in Int
  <2>1. \A t \in Trade : t.net \in Int
    BY DEF Trade
  <2>2. DOMAIN q = 1 .. Len(q) /\ Len(q) \in Nat /\ \A k \in 1 .. Len(q) : q[k] \in Trade
    OBVIOUS
  <2> QED
    BY <2>1, <2>2
<1> DEFINE s == [k \in 1 .. Len(q) |-> q[k].net]
<1>2. Test!Nets(q) = s
  BY <1>1 DEF Test!Nets
<1>3. s \in [1 .. Len(q) -> Int]
  BY <1>1
<1> HIDE DEF s
<1> QED
  BY <1>1, <1>2, <1>3

LEMMA MetricsMatched ==
    ASSUME market \in Seq(Moments), path \in Seq(Int)
    PROVE  Test!MetricsMatch
<1>1. Test!Funding(market) \in Seq(Trade) /\ Test!Statistical(market) \in Seq(Trade)
  BY TradesTyped
<1>2. \A q \in {Test!Nets(Test!Funding(market)), Test!Nets(Test!Statistical(market)), path} : q \in Seq(Int)
  BY <1>1, NetsTyped
<1>3. \A q \in {Test!Nets(Test!Funding(market)), Test!Nets(Test!Statistical(market)), path} : FiguresRight(q)
  BY <1>2, FiguresAreRight
<1> QED
  BY <1>3, Zenon DEF Test!MetricsMatch, FiguresRight, InKellyBounds

-----------------------------------------------------------------------------
(* Tables and splits.                                                      *)

\* A row of a table with the setting of the run has its trades.
LEMMA RowsAgree ==
    ASSUME NEW q
    PROVE  /\ \A row \in Test!SearchFunding(q) \cup Test!SweepFunding(q) :
                 row.edge = Edge /\ row.fee = Fee => row.trades = Test!Funding(q)
           /\ \A row \in Test!SearchStat(q) \cup Test!SweepStat(q) :
                 row.params = Head(Grid) => row.trades = Test!Statistical(q)
<1>1. ASSUME NEW row \in Test!SearchFunding(q), row.edge = Edge, row.fee = Fee
      PROVE  row.trades = Test!Funding(q)
  BY <1>1 DEF Test!SearchFunding, Test!Funding
<1>2. ASSUME NEW row \in Test!SweepFunding(q), row.edge = Edge, row.fee = Fee
      PROVE  row.trades = Test!Funding(q)
  BY <1>2 DEF Test!SweepFunding, Test!Funding
<1>3. ASSUME NEW row \in Test!SearchStat(q), row.params = Head(Grid)
      PROVE  row.trades = Test!Statistical(q)
  BY <1>3 DEF Test!SearchStat, Test!Statistical
<1>4. ASSUME NEW row \in Test!SweepStat(q), row.params = Head(Grid)
      PROVE  row.trades = Test!Statistical(q)
  BY <1>4 DEF Test!SweepStat, Test!Statistical
<1> QED
  BY <1>1, <1>2, <1>3, <1>4

\* No candle has the field a trade is filed by: all trades are in the middle.
LEMMA AllInTheMiddle ==
    ASSUME NEW q, NEW trades \in Seq(Trade)
    PROVE  Test!Classes(q, trades) = [low_vol |-> <<>>, mid_vol |-> trades, high_vol |-> <<>>]
<1>1. \A t : Test!VolAtEntry(q, t) = {}
  BY DEF Test!VolAtEntry, Test!OpenTime
<1> DEFINE placed == {k \in DOMAIN trades : Test!VolAtEntry(q, trades[k]) # {}}
<1>2. placed = {}
  BY <1>1
<1>3. Test!Taken(trades, {}) \in Seq(Trade) /\ Len(Test!Taken(trades, {})) = 0
  BY TakenIs, FS_EmptySet
<1>4. Len(Test!Taken(trades, {k \in DOMAIN trades : Test!VolAtEntry(q, trades[k]) # {}})) < 2
  <2> HIDE DEF placed
  <2>1. Len(Test!Taken(trades, placed)) < 2
    BY <1>2, <1>3
  <2> QED
    BY <2>1 DEF placed
<1> QED
  BY <1>4, Zenon DEF Test!Classes

LEMMA Aggregates ==
    ASSUME NEW trades \in Seq(Trade)
    PROVE  /\ DOMAIN Test!Aggregate(trades) = {"count", "wins", "net"}
           /\ \A f \in {"count", "wins", "net"} : Test!Aggregate(trades)[f] \in Int
           /\ trades = <<>> => \A f \in {"count", "wins", "net"} : Test!Aggregate(trades)[f] = 0
<1> DEFINE nets == Test!Nets(trades)
           x == Len(trades)
           y == Len(Test!Winners(nets))
           z == Test!Sum(nets)
<1>1. nets \in Seq(Int) /\ Len(nets) = Len(trades) /\ x \in Nat
  BY NetsTyped
<1>2. y \in Nat /\ z \in Int /\ y <= Len(nets)
  <2> HIDE DEF nets
  <2>1. z \in Int
    BY <1>1, SumTyped
  <2>2. Len(Test!Winners(nets)) \in Nat /\ Len(Test!Losers(nets)) \in Nat
        /\ Len(Test!Winners(nets)) + Len(Test!Losers(nets)) = Len(nets)
    BY <1>1, WonOrLost
  <2> QED
    BY <2>1, <2>2
<1>3. trades = <<>> => x = 0 /\ y = 0 /\ z = 0
  <2> HAVE trades = <<>>
  <2>1. x = 0
    OBVIOUS
  <2> HIDE DEF nets, x
  <2>2. y = 0
    BY <1>1, <1>2, <2>1 DEF x
  <2>3. DOMAIN nets = {}
    BY <1>1, <2>1 DEF x
  <2>4. z = 0
    BY <2>3, SumOfAll, SumEmpty
  <2> QED
    BY <2>1, <2>2, <2>4
<1>4. Test!Aggregate(trades) = [count |-> x, wins |-> y, net |-> z]
  BY DEF Test!Aggregate
<1> HIDE DEF x, y, z
<1> QED
  BY <1>1, <1>2, <1>3, <1>4

LEMMA SplitsAddUp ==
    ASSUME market \in Seq(Moments)
    PROVE  Test!SplitAddsUp
<1>1. Test!Funding(market) \in Seq(Trade) /\ Test!Statistical(market) \in Seq(Trade)
  BY TradesTyped
<1>2. ASSUME NEW trades \in Seq(Trade), NEW f \in {"count", "wins", "net"}
      PROVE  LET split == Test!RegimeSplit(Test!Seen(market), trades)
             IN  split.low_vol[f] + split.mid_vol[f] + split.high_vol[f] = Test!Aggregate(trades)[f]
  <2> DEFINE c == [low_vol |-> <<>>, mid_vol |-> trades, high_vol |-> <<>>]
             s == Test!RegimeSplit(Test!Seen(market), trades)
  <2>1. Test!Classes(Test!Seen(market), trades) = c
    BY AllInTheMiddle
  <2>2. s = [x \in DOMAIN c |-> Test!Aggregate(c[x])]
    BY <2>1 DEF Test!RegimeSplit
  <2>3. s.low_vol = Test!Aggregate(<<>>) /\ s.mid_vol = Test!Aggregate(trades) /\ s.high_vol = Test!Aggregate(<<>>)
    <3> HIDE DEF s
    <3> QED
      BY <2>2
  <2>4. Test!Aggregate(<<>>)[f] = 0
    <3>1. <<>> \in Seq(Trade)
      OBVIOUS
    <3> QED
      BY <3>1, Aggregates
  <2>5. Test!Aggregate(trades)[f] \in Int
    BY Aggregates
  <2> HIDE DEF s
  <2>6. s.low_vol[f] + s.mid_vol[f] + s.high_vol[f] = Test!Aggregate(trades)[f]
    BY <2>3, <2>4, <2>5
  <2> QED
    BY <2>6 DEF s
<1>3. \A trades \in {Test!Funding(market), Test!Statistical(market)} : trades \in Seq(Trade)
  BY <1>1
<1> QED
  BY <1>2, <1>3, RowsAgree, Zenon DEF Test!SplitAddsUp

ResearchTyped == market \in Seq(Moments) /\ path \in Seq(Int)

LEMMA ResearchStep ==
    ASSUME ResearchTyped, [Test!Next]_(Test!vars)
    PROVE  ResearchTyped'
<1>1. market \in Seq(Moments) /\ path \in Seq(Int)
  BY DEF ResearchTyped
<1>2. CASE \E m \in Moments : Test!Period(m)
  <2>1. PICK m \in Moments : Test!Period(m)
    BY <1>2
  <2>2. market' = Append(market, m) /\ path' = <<>>
    BY <2>1 DEF Test!Period
  <2> QED
    BY <1>1, <2>2 DEF ResearchTyped
<1>3. CASE Test!Draw
  <2>1. PICK k \in DOMAIN Test!Funding(market) : path' = Append(path, Test!Funding(market)[k].net)
    BY <1>3 DEF Test!Draw
  <2>2. market' = market
    BY <1>3 DEF Test!Draw
  <2>3. Test!Funding(market) \in Seq(Trade)
    BY <1>1, TradesTyped
  <2>4. Test!Funding(market)[k] \in Trade
    BY <2>3
  <2>5. Test!Funding(market)[k].net \in Int
    BY <2>4 DEF Trade
  <2> QED
    BY <1>1, <2>1, <2>2, <2>5 DEF ResearchTyped
<1>4. CASE UNCHANGED Test!vars
  BY <1>1, <1>4 DEF ResearchTyped, Test!vars
<1> QED
  BY <1>2, <1>3, <1>4 DEF Test!Next

(* Every figure of a result is that of its trades, for any market and any  *)
(* capital, fees, thresholds and pages: the drawdown of one pass is the    *)
(* deepest fall from any earlier peak, every trade has won or lost, the    *)
(* Kelly share is at most a quarter, and a table or a split is about the   *)
(* trades of the run (_compute_metrics, run_monte_carlo,                   *)
(* grid_search_stat_arb, funding_arb_sweep, regime_split).                 *)
THEOREM ResultsAlwaysMatch == Spec => []ResultsMatch
<1>1. Test!Init => ResearchTyped
  BY DEF Test!Init, ResearchTyped
<1>2. ResearchTyped /\ [Test!Next]_(Test!vars) => ResearchTyped'
  BY ResearchStep
<1>3. ResearchTyped => ResultsMatch
  BY MetricsMatched, SplitsAddUp DEF ResearchTyped, ResultsMatch, Test!ResultsMatch
<1>4. Spec => Test!Spec
  BY PartsRun
<1> QED
  BY <1>1, <1>2, <1>3, <1>4, PTL DEF Test!Spec

-----------------------------------------------------------------------------
(* Windows that follow one another.                                        *)

LEMMA WindowIs ==
    ASSUME NEW n \in Nat, NEW train \in Nat \ {0}, NEW test \in Nat \ {0}, NEW step \in Nat \ {0}
    PROVE  /\ \A w \in Test!Windows(n, train, test, step) : \E k \in 0 .. n :
                 /\ w = <<k * step, k * step + train, k * step + train, k * step + train + test>>
                 /\ k * step + train + test <= n
           /\ \A k \in 0 .. n : k * step + train + test <= n =>
                 <<k * step, k * step + train, k * step + train, k * step + train + test>>
                     \in Test!Windows(n, train, test, step)
<1>1. ASSUME NEW w \in Test!Windows(n, train, test, step)
      PROVE  \E k \in 0 .. n :
                 /\ w = <<k * step, k * step + train, k * step + train, k * step + train + test>>
                 /\ k * step + train + test <= n
  <2>1. PICK s \in {t \in {k * step : k \in 0 .. n} : t + train + test <= n} :
                w = <<s, s + train, s + train, s + train + test>>
    BY DEF Test!Windows
  <2>2. PICK k \in 0 .. n : s = k * step
    BY <2>1
  <2> QED
    BY <2>1, <2>2
<1>2. ASSUME NEW k \in 0 .. n, k * step + train + test <= n
      PROVE  <<k * step, k * step + train, k * step + train, k * step + train + test>>
                 \in Test!Windows(n, train, test, step)
  <2>1. k * step \in {t \in {j * step : j \in 0 .. n} : t + train + test <= n}
    BY <1>2
  <2> QED
    BY <2>1, Zenon DEF Test!Windows
<1> QED
  BY <1>1, <1>2

LEMMA WindowsFollow ==
    ASSUME NEW n \in Nat, NEW train \in Nat \ {0}, NEW test \in Nat \ {0}, NEW step \in Nat \ {0},
           NEW w \in Test!Windows(n, train, test, step)
    PROVE  /\ w[3] >= w[2] /\ w[4] <= n
           /\ step = test =>
                 \A v \in Test!Windows(n, train, test, step) : v[3] > w[3] =>
                     v[3] >= w[4] /\ \E u \in Test!Windows(n, train, test, step) : u[3] = w[4]
<1> DEFINE all == Test!Windows(n, train, test, step)
<1>1. PICK k \in 0 .. n :
          /\ w = <<k * step, k * step + train, k * step + train, k * step + train + test>>
          /\ k * step + train + test <= n
  BY WindowIs
<1> DEFINE s == k * step
<1>2. s \in Int /\ w = <<s, s + train, s + train, s + train + test>> /\ s + train + test <= n
  BY <1>1
<1>3. w[2] = s + train /\ w[3] = s + train /\ w[4] = s + train + test
  BY <1>2
<1>4. w[3] >= w[2] /\ w[4] <= n
  BY <1>2, <1>3
<1>5. ASSUME step = test, NEW v \in all, v[3] > w[3]
      PROVE  v[3] >= w[4] /\ \E u \in all : u[3] = w[4]
  <2>1. PICK j \in 0 .. n :
            /\ v = <<j * step, j * step + train, j * step + train, j * step + train + test>>
            /\ j * step + train + test <= n
    BY WindowIs
  <2>2. v[3] = j * step + train /\ j * step \in Int /\ k * step \in Int
    BY <2>1
  <2>3. j * step > k * step
    BY <1>3, <1>5, <2>2
  <2>4. \A a, b \in Nat : \A c \in Nat \ {0} : a <= b => a * c <= b * c
    OBVIOUS
  <2>5. j \in Nat /\ k \in Nat
    OBVIOUS
  <2>6. k < j
    BY <2>2, <2>3, <2>4, <2>5
  <2>7. k + 1 <= j /\ k + 1 \in Nat
    BY <2>5, <2>6
  <2>8. (k + 1) * step <= j * step
    BY <2>4, <2>5, <2>7
  <2>9. (k + 1) * step = s + step
    BY <2>5
  <2>10. v[3] >= w[4]
    BY <1>2, <1>3, <1>5, <2>2, <2>8, <2>9
  <2> DEFINE m == k + 1
             u == <<m * step, m * step + train, m * step + train, m * step + train + test>>
  <2>11. m \in 0 .. n /\ m * step + train + test <= n
    <3>1. m \in 0 .. n
      BY <2>1, <2>7
    <3>2. (k + 1) * step \in Int
      BY <1>2, <2>9
    <3> QED
      BY <2>1, <2>2, <2>8, <3>1, <3>2
  <2>12. u \in all
    <3> HIDE DEF m
    <3> QED
      BY <2>11, WindowIs
  <2>13. u[3] = w[4]
    BY <1>2, <1>3, <1>5, <2>9
  <2> QED
    BY <2>10, <2>12, <2>13
<1> QED
  BY <1>4, <1>5

LEMMA CandlesAreUsedOnce ==
    ASSUME NEW q \in Seq(Sound), market = q
    PROVE  Test!CandlesUsedOnce
<1>1. Test!FetchedOnce
  <2>1. q \in Seq(Candles)
    BY SoundIs
  <2> QED
    BY <2>1, AllFetched DEF Test!FetchedOnce
<1>2. Test!TestedOutOfSample
  <2>1. Test!Align(q) \in Seq(Aligned)
    BY AlignIs
  <2>2. Len(Test!Align(q)) \in Nat
    BY <2>1
  <2>3. ASSUME NEW train \in Lengths, NEW test \in Lengths, NEW step \in Lengths
        PROVE  train \in Nat \ {0} /\ test \in Nat \ {0} /\ step \in Nat \ {0}
    BY ResearchAssumption
  <2> DEFINE n == Len(Test!Align(market))
  <2>4. n \in Nat
    BY <2>2
  <2> HIDE DEF n
  <2>5. ASSUME NEW train \in Lengths, NEW test \in Lengths, NEW step \in Lengths,
               NEW w \in Test!Windows(n, train, test, step)
        PROVE  /\ w[3] >= w[2] /\ w[4] <= n
               /\ step = test =>
                     \A v \in Test!Windows(n, train, test, step) : v[3] > w[3] =>
                         v[3] >= w[4] /\ \E u \in Test!Windows(n, train, test, step) : u[3] = w[4]
    BY <2>3, <2>4, WindowsFollow
  <2> QED
    BY <2>5, Zenon DEF Test!TestedOutOfSample, n
<1> QED
  BY <1>1, <1>2 DEF Test!CandlesUsedOnce

-----------------------------------------------------------------------------
(* The text (Chunker).                                                     *)

LEMMA SameTaken == ASSUME NEW q, NEW S PROVE Text!Taken(q, S) = Taken(q, S) /\ Text!Ordered(S) = Ordered(S)
BY Zenon DEF Text!Taken, Taken, Text!Ordered, Ordered, Text!Cardinality, Cardinality

LEMMA SameEnds == ASSUME NEW S PROVE Text!Max(S) = Largest(S) /\ Text!Min(S) = Smallest(S)
BY Zenon DEF Text!Max, Largest, Text!Min, Smallest

LEMMA Members ==
    ASSUME NEW V, NEW a \in Seq(V), NEW b \in Seq(V)
    PROVE  /\ a \o b \in Seq(V) /\ Len(a \o b) = Len(a) + Len(b)
           /\ Text!ToSet(a \o b) = Text!ToSet(a) \cup Text!ToSet(b)
           /\ a # <<>> => (a \o b)[1] = a[1] /\ a \o b # <<>>
<1>1. /\ a \o b \in Seq(V) /\ Len(a \o b) = Len(a) + Len(b) /\ Len(a) \in Nat /\ Len(b) \in Nat
      /\ DOMAIN (a \o b) = 1 .. Len(a) + Len(b) /\ DOMAIN a = 1 .. Len(a) /\ DOMAIN b = 1 .. Len(b)
      /\ \A i \in 1 .. Len(a) : (a \o b)[i] = a[i]
      /\ \A i \in 1 .. Len(b) : (a \o b)[Len(a) + i] = b[i]
  OBVIOUS
<1> DEFINE c == a \o b
           m == Len(a)
           n == Len(b)
<1>2. \A i \in 1 .. m + n : i \in 1 .. m \/ (i - m \in 1 .. n /\ i = m + (i - m))
  BY <1>1
<1>3. a # <<>> => m > 0
  BY <1>1
<1>4. c \in Seq(V) /\ Len(c) = m + n
  BY <1>1
<1> HIDE DEF c, m, n
<1>5. {c[i] : i \in 1 .. m + n} = {a[i] : i \in 1 .. m} \cup {b[i] : i \in 1 .. n}
  <2>1. \A i \in 1 .. m : c[i] = a[i] /\ i \in 1 .. m + n
    BY <1>1 DEF c, m, n
  <2>2. \A i \in 1 .. n : c[m + i] = b[i] /\ m + i \in 1 .. m + n
    BY <1>1 DEF c, m, n
  <2> QED
    BY <1>2, <2>1, <2>2
<1>6. Text!ToSet(c) = Text!ToSet(a) \cup Text!ToSet(b)
  BY <1>1, <1>5 DEF Text!ToSet, c, m, n
<1>7. a # <<>> => c[1] = a[1] /\ c # <<>>
  BY <1>1, <1>3, <1>4 DEF c, m, n
<1> QED
  BY <1>4, <1>6, <1>7 DEF c, m, n

\* FlattenSeq joins one sequence after the other.
AreJoins(q, f) ==
    f = [i \in 1 .. Len(q) |-> IF i = 1 THEN q[i] ELSE f[i - 1] \o q[i]]

Joins(q) == CHOOSE f : AreJoins(q, f)

LEMMA FlattenIs == ASSUME NEW q PROVE Text!FlattenSeq(q) = IF Len(q) = 0 THEN q ELSE Joins(q)[Len(q)]
BY Zenon DEF Text!FlattenSeq, Joins, AreJoins

LEMMA JoinsExist ==
    ASSUME NEW V, NEW q \in Seq(Seq(V))
    PROVE  AreJoins(q, Joins(q)) /\ \A k \in 1 .. Len(q) : Joins(q)[k] \in Seq(V)
<1> DEFINE n == Len(q)
           h == [i \in 1 .. n |-> [s \in Seq(V) |-> s \o q[i]]]
           base == <<>>
<1>1. n \in Nat /\ \A i \in 1 .. n : q[i] \in Seq(V)
  OBVIOUS
<1>2. h \in [1 .. n -> [Seq(V) -> Seq(V)]] /\ base \in Seq(V)
  <2> HIDE DEF n
  <2> QED
    BY <1>1
<1>3. PICK g \in [SUBSET (1 .. n) -> Seq(V)] : IsLoop(n, Seq(V), base, h, g)
  <2> HIDE DEF h, n, base
  <2> QED
    BY <1>1, <1>2, LoopExists
<1> DEFINE f == [i \in 1 .. n |-> g[1 .. i]]
           k(i) == IF i = 1 THEN q[i] ELSE f[i - 1] \o q[i]
<1>4. ASSUME NEW i \in 1 .. n PROVE f[i] = k(i) /\ f[i] \in Seq(V)
  <2> DEFINE j == i - 1
  <2>1. j \in Nat /\ j + 1 = i /\ 1 .. i \in SUBSET (1 .. n) /\ 1 .. j \in SUBSET (1 .. n)
    BY <1>1
  <2>2. Largest(1 .. i) = i /\ (1 .. i) \ {i} = 1 .. j /\ 1 .. i # {}
    BY <2>1, LargestUpTo
  <2>3. g[1 .. i] = h[i][g[1 .. j]] /\ g[1 .. j] \in Seq(V)
    <3> HIDE DEF n, h, f, k, j, base
    <3>1. /\ g[(1 .. i) \ {Largest(1 .. i)}] \in Seq(V)
          /\ g[1 .. i] = h[Largest(1 .. i)][g[(1 .. i) \ {Largest(1 .. i)}]]
      BY <1>3, <2>1, <2>2, Zenon DEF IsLoop
    <3> QED
      BY <2>2, <3>1, Zenon
  <2>4. f[i] = g[1 .. j] \o q[i]
    <3> HIDE DEF n, j
    <3> QED
      BY <2>3
  <2>5. CASE j = 0
    <3>1. 1 .. j = {} /\ i = 1
      BY <2>1, <2>5
    <3>2. g[1 .. j] = <<>>
      BY <1>3, <2>1, <3>1 DEF IsLoop
    <3>3. <<>> \o q[i] = q[i]
      BY <1>1
    <3> QED
      BY <1>1, <2>4, <3>1, <3>2, <3>3
  <2>6. CASE j # 0
    <3>1. f[i - 1] = g[1 .. j] /\ i # 1
      BY <1>1, <2>1, <2>6
    <3>2. f[i] = k(i)
      <4> HIDE DEF n, f, j
      <4> QED
        BY <2>4, <3>1
    <3>3. g[1 .. j] \o q[i] \in Seq(V)
      <4> HIDE DEF n, f, j
      <4> QED
        BY <1>1, <2>3
    <3> QED
      BY <2>4, <3>2, <3>3
  <2> QED
    BY <2>5, <2>6
<1>5. f = [i \in 1 .. n |-> k(i)]
  <2> HIDE DEF k
  <2>1. f = [i \in 1 .. n |-> f[i]]
    OBVIOUS
  <2> HIDE DEF f
  <2> QED
    BY <1>4, <2>1
<1>6. AreJoins(q, f)
  <2>1. f = [i \in 1 .. Len(q) |-> IF i = 1 THEN q[i] ELSE f[i - 1] \o q[i]]
    BY <1>5 DEF n
  <2> HIDE DEF f
  <2> QED
    BY <2>1 DEF AreJoins
<1>7. AreJoins(q, Joins(q))
  <2> HIDE DEF f
  <2> QED
    BY <1>6, Zenon DEF Joins
<1> DEFINE r == Joins(q)
<1>8. \A i \in 1 .. n : r[i] = IF i = 1 THEN q[i] ELSE r[i - 1] \o q[i]
  <2> HIDE DEF r, f
  <2> QED
    BY <1>7 DEF AreJoins, r
<1>9. \A i \in Nat : i + 1 \in 1 .. n => r[i + 1] \in Seq(V)
  <2> DEFINE Good == {i \in Nat : i + 1 \in 1 .. n => r[i + 1] \in Seq(V)}
  <2>1. 0 \in Good
    <3> HIDE DEF r
    <3> QED
      BY <1>1, <1>8
  <2>2. ASSUME NEW i \in Good PROVE i + 1 \in Good
    <3> SUFFICES ASSUME i + 2 \in 1 .. n PROVE r[i + 2] \in Seq(V)
      <4> HIDE DEF r, n
      <4> QED
        OBVIOUS
    <3>1. i + 1 \in 1 .. n /\ i + 2 # 1 /\ (i + 2) - 1 = i + 1
      OBVIOUS
    <3>2. r[i + 1] \in Seq(V)
      BY <3>1
    <3>3. r[i + 2] = r[i + 1] \o q[i + 2]
      <4> HIDE DEF r
      <4> QED
        BY <1>8, <3>1
    <3> HIDE DEF r
    <3> QED
      BY <1>1, <3>2, <3>3
  <2>3. Good = Nat
    <3> HIDE DEF Good
    <3>1. Good \in SUBSET Nat
      BY DEF Good
    <3> QED
      BY <2>1, <2>2, <3>1, CountUp
  <2> QED
    BY <2>3
<1>10. \A k0 \in 1 .. n : k0 - 1 \in Nat /\ (k0 - 1) + 1 = k0
  BY <1>1
<1> HIDE DEF f, r, n
<1> QED
  BY <1>7, <1>9, <1>10 DEF r, n

LEMMA JoinsRun ==
    ASSUME NEW V, NEW q \in Seq(Seq(V)), Len(q) > 0
    PROVE  /\ Text!FlattenSeq(q) = Joins(q)[Len(q)] /\ Joins(q)[1] = q[1]
           /\ \A k \in 1 .. Len(q) : Joins(q)[k] \in Seq(V)
           /\ \A k \in Nat \ {0} : k < Len(q) => Joins(q)[k + 1] = Joins(q)[k] \o q[k + 1]
<1> DEFINE f == Joins(q)
<1>1. AreJoins(q, f) /\ \A k \in 1 .. Len(q) : f[k] \in Seq(V)
  BY JoinsExist
<1>2. Text!FlattenSeq(q) = f[Len(q)]
  BY FlattenIs
<1> HIDE DEF f
<1>3. \A i \in 1 .. Len(q) : f[i] = IF i = 1 THEN q[i] ELSE f[i - 1] \o q[i]
  BY <1>1 DEF AreJoins
<1>4. ASSUME NEW k \in Nat \ {0}, k < Len(q) PROVE f[k + 1] = f[k] \o q[k + 1]
  <2>1. k + 1 \in 1 .. Len(q) /\ k + 1 # 1 /\ (k + 1) - 1 = k
    BY <1>4
  <2> QED
    BY <1>3, <2>1
<1>5. f[1] = q[1]
  BY <1>3
<1> QED
  BY <1>1, <1>2, <1>4, <1>5 DEF f

\* What is joined is all there is in the parts, the first part first.
LEMMA FlattenRight ==
    ASSUME NEW V, NEW q \in Seq(Seq(V))
    PROVE  /\ Text!FlattenSeq(q) \in Seq(V)
           /\ \A x : x \in Text!ToSet(Text!FlattenSeq(q)) <=> \E i \in 1 .. Len(q) : x \in Text!ToSet(q[i])
           /\ Len(q) > 0 /\ q[1] # <<>> =>
                 Text!FlattenSeq(q) # <<>> /\ Text!FlattenSeq(q)[1] = q[1][1]
<1>1. Len(q) \in Nat /\ \A i \in 1 .. Len(q) : q[i] \in Seq(V)
  OBVIOUS
<1>2. CASE Len(q) = 0
  <2>1. q = <<>> /\ 1 .. Len(q) = {}
    BY <1>2
  <2>2. Text!FlattenSeq(q) = <<>>
    BY <1>2, <2>1, FlattenIs
  <2>3. Text!ToSet(<<>>) = {}
    BY DEF Text!ToSet
  <2>4. <<>> \in Seq(V)
    OBVIOUS
  <2>5. \A x : x \notin Text!ToSet(Text!FlattenSeq(q))
    BY <2>2, <2>3
  <2>6. Text!FlattenSeq(q) \in Seq(V)
    BY <2>2, <2>4
  <2> QED
    BY <1>2, <2>1, <2>5, <2>6
<1>3. CASE Len(q) > 0
  <2> DEFINE f == Joins(q)
             n == Len(q)
             IsJoin(k) == /\ \A x : x \in Text!ToSet(f[k]) <=> \E i \in 1 .. k : x \in Text!ToSet(q[i])
                          /\ q[1] # <<>> => f[k] # <<>> /\ f[k][1] = q[1][1]
             Good == {m \in Nat : m + 1 \in 1 .. n => IsJoin(m + 1)}
  <2>1. /\ Text!FlattenSeq(q) = f[n] /\ f[1] = q[1] /\ \A k \in 1 .. n : f[k] \in Seq(V)
        /\ \A k \in Nat \ {0} : k < n => f[k + 1] = f[k] \o q[k + 1]
    BY <1>3, JoinsRun
  <2>2. n \in Nat /\ n > 0 /\ \A i \in 1 .. n : q[i] \in Seq(V)
    BY <1>1, <1>3
  <2> HIDE DEF f, n
  <2>3. 0 \in Good
    <3>1. 1 .. 1 = {1}
      OBVIOUS
    <3>2. IsJoin(1)
      BY <2>1, <3>1
    <3> QED
      BY <3>2
  <2>4. ASSUME NEW m \in Good PROVE m + 1 \in Good
    <3> DEFINE k == m + 1
    <3>1. k \in Nat \ {0} /\ (m + 1) + 1 = k + 1
      OBVIOUS
    <3> SUFFICES ASSUME k + 1 \in 1 .. n PROVE IsJoin(k + 1)
      BY <3>1
    <3>2. k \in 1 .. n /\ k < n
      BY <2>2, <3>1
    <3>3. IsJoin(k)
      BY <3>2
    <3> HIDE DEF k, Good
    <3>4. f[k + 1] = f[k] \o q[k + 1] /\ f[k] \in Seq(V) /\ q[k + 1] \in Seq(V)
      BY <2>1, <2>2, <3>1, <3>2
    <3> DEFINE a == f[k]
               b == q[k + 1]
    <3>5. /\ Text!ToSet(a \o b) = Text!ToSet(a) \cup Text!ToSet(b)
          /\ a # <<>> => (a \o b)[1] = a[1] /\ a \o b # <<>>
      <4> HIDE DEF a, b
      <4>1. a \in Seq(V) /\ b \in Seq(V)
        BY <3>4 DEF a, b
      <4> QED
        BY <4>1, Members
    <3>6. 1 .. (k + 1) = (1 .. k) \cup {k + 1}
      BY <3>1
    <3>7. \A x : x \in Text!ToSet(f[k + 1]) <=> \E i \in 1 .. (k + 1) : x \in Text!ToSet(q[i])
      <4>1. \A x : x \in Text!ToSet(f[k]) <=> \E i \in 1 .. k : x \in Text!ToSet(q[i])
        BY <3>3
      <4>2. Text!ToSet(f[k + 1]) = Text!ToSet(f[k]) \cup Text!ToSet(q[k + 1])
        BY <3>4, <3>5
      <4> QED
        BY <3>6, <4>1, <4>2, Zenon
    <3>8. q[1] # <<>> => f[k + 1] # <<>> /\ f[k + 1][1] = q[1][1]
      BY <3>3, <3>4, <3>5
    <3> QED
      BY <3>7, <3>8, Zenon
  <2>5. Good = Nat
    <3> HIDE DEF Good
    <3>1. Good \in SUBSET Nat
      BY DEF Good
    <3> QED
      BY <2>3, <2>4, <3>1, CountUp
  <2>6. n - 1 \in Nat /\ (n - 1) + 1 = n
    BY <2>2
  <2>7. IsJoin(n)
    <3>1. n - 1 \in Good
      <4> HIDE DEF Good
      <4> QED
        BY <2>5, <2>6
    <3>2. (n - 1) + 1 \in 1 .. n => IsJoin((n - 1) + 1)
      BY <3>1, Zenon
    <3> QED
      BY <2>2, <2>6, <3>2
  <2> QED
    BY <2>1, <2>2, <2>7 DEF n
<1> QED
  BY <1>1, <1>2, <1>3

\* A first part is joined to what the others are joined to.
LEMMA FlattenFirst ==
    ASSUME NEW V, NEW a \in Seq(V), NEW q \in Seq(Seq(V))
    PROVE  /\ <<a>> \o q \in Seq(Seq(V))
           /\ Text!FlattenSeq(<<a>> \o q) = a \o Text!FlattenSeq(q)
           /\ Text!FlattenSeq(<<a>>) = a
<1> DEFINE r == <<a>> \o q
           f == Joins(q)
           g == Joins(r)
           n == Len(q)
<1>1. /\ r \in Seq(Seq(V)) /\ Len(r) = n + 1 /\ n \in Nat /\ r[1] = a
      /\ \A k \in 1 .. n : r[k + 1] = q[k] /\ q[k] \in Seq(V)
  <2>1. <<a>> \in Seq(Seq(V)) /\ Len(<<a>>) = 1
    OBVIOUS
  <2>2. \A k \in 1 .. n : r[k + 1] = q[k]
    BY <2>1
  <2> QED
    BY <2>1, <2>2
<1>2. /\ Text!FlattenSeq(r) = g[n + 1] /\ g[1] = a
      /\ \A k \in Nat \ {0} : k < n + 1 => g[k + 1] = g[k] \o r[k + 1]
  <2> HIDE DEF r
  <2>1. Len(r) > 0
    BY <1>1
  <2> QED
    BY <1>1, <2>1, JoinsRun
<1>3. Text!FlattenSeq(<<a>>) = a
  <2> DEFINE s == <<a>>
  <2>1. s \in Seq(Seq(V)) /\ Len(s) = 1 /\ s[1] = a
    OBVIOUS
  <2> HIDE DEF s, r, f, g, n
  <2>3. Len(s) > 0
    BY <2>1
  <2>4. Text!FlattenSeq(s) = Joins(s)[Len(s)] /\ Joins(s)[1] = s[1]
    BY <2>1, <2>3, JoinsRun
  <2>2. Text!FlattenSeq(s) = Joins(s)[1] /\ Joins(s)[1] = s[1]
    BY <2>1, <2>4
  <2> QED
    BY <2>1, <2>2 DEF s
<1>4. CASE n = 0
  <2>1. q = <<>>
    BY <1>4
  <2>2. Text!FlattenSeq(q) = <<>>
    BY <1>4, <2>1, FlattenIs
  <2>3. a \o <<>> = a
    OBVIOUS
  <2> HIDE DEF r
  <2> QED
    BY <1>1, <1>2, <1>3, <1>4, <2>2, <2>3 DEF r
<1>5. CASE n > 0
  <2>1. /\ Text!FlattenSeq(q) = f[n] /\ f[1] = q[1] /\ \A k \in 1 .. n : f[k] \in Seq(V)
        /\ \A k \in Nat \ {0} : k < n => f[k + 1] = f[k] \o q[k + 1]
    BY <1>5, JoinsRun
  <2> HIDE DEF f, g, r, n
  <2> DEFINE Good == {m \in Nat : m + 1 \in 1 .. n => g[m + 2] = a \o f[m + 1]}
  <2>2. 0 \in Good
    <3>1. 1 \in Nat \ {0} /\ 1 < n + 1 /\ 1 \in 1 .. n /\ 1 + 1 = 2
      BY <1>1, <1>5
    <3>2. g[2] = g[1] \o r[2]
      <4>1. g[1 + 1] = g[1] \o r[1 + 1]
        BY <1>2, <3>1
      <4> QED
        BY <3>1, <4>1
    <3>3. r[2] = q[1]
      <4>1. r[1 + 1] = q[1]
        BY <1>1, <3>1
      <4> QED
        BY <3>1, <4>1
    <3>4. g[2] = a \o f[1]
      BY <1>2, <2>1, <3>2, <3>3
    <3>5. 0 + 2 = 2 /\ 0 + 1 = 1 /\ 0 \in Nat
      OBVIOUS
    <3> QED
      BY <3>4, <3>5
  <2>3. ASSUME NEW m \in Good PROVE m + 1 \in Good
    <3> DEFINE k == m + 1
    <3>1. k \in Nat \ {0} /\ (m + 1) + 1 = k + 1 /\ (m + 1) + 2 = (k + 1) + 1 /\ m + 2 = k + 1
      OBVIOUS
    <3> SUFFICES ASSUME k + 1 \in 1 .. n PROVE g[(k + 1) + 1] = a \o f[k + 1]
      BY <3>1
    <3>2. k \in 1 .. n /\ k < n /\ k + 1 \in Nat \ {0} /\ k + 1 < n + 1
      BY <1>1, <3>1
    <3>3. g[k + 1] = a \o f[k]
      BY <3>1, <3>2
    <3> HIDE DEF k, Good
    <3>4. g[(k + 1) + 1] = g[k + 1] \o q[k + 1]
      BY <1>1, <1>2, <3>2
    <3>5. f[k + 1] = f[k] \o q[k + 1] /\ f[k] \in Seq(V) /\ q[k + 1] \in Seq(V)
      BY <1>1, <2>1, <3>1, <3>2
    <3>6. (a \o f[k]) \o q[k + 1] = a \o (f[k] \o q[k + 1])
      <4> DEFINE b == f[k]
                 c == q[k + 1]
      <4>1. b \in Seq(V) /\ c \in Seq(V)
        BY <3>5
      <4> HIDE DEF b, c
      <4>2. (a \o b) \o c = a \o (b \o c)
        BY <4>1, ConcatAssociative
      <4> QED
        BY <4>2 DEF b, c
    <3> QED
      BY <3>3, <3>4, <3>5, <3>6
  <2>4. Good = Nat
    <3> HIDE DEF Good
    <3>1. Good \in SUBSET Nat
      BY DEF Good
    <3> QED
      BY <2>2, <2>3, <3>1, CountUp
  <2>5. n - 1 \in Nat /\ (n - 1) + 1 = n /\ (n - 1) + 2 = n + 1 /\ n \in 1 .. n
    BY <1>1, <1>5
  <2>6. n - 1 \in Good
    <3> HIDE DEF Good
    <3> QED
      BY <2>4, <2>5
  <2>7. g[n + 1] = a \o f[n]
    BY <2>5, <2>6
  <2> QED
    BY <1>1, <1>2, <1>3, <2>1, <2>7 DEF r
<1> QED
  BY <1>1, <1>4, <1>5

-----------------------------------------------------------------------------
(* Units.                                                                  *)

Lines == { l \in [kind : {"head", "row", "word", "stop", "blank", "page"}, len : Nat, page : Nat] :
              l.kind = "blank" <=> l.len = 0 }

Units(ls) == {Text!Space} \cup ((1 .. Len(ls)) \X (Nat \ {0}))

\* What is in a text besides white space.
Content(s) == Text!ToSet(s) \ {Text!Space}

LEMMA UnitIs ==
    ASSUME NEW ls, NEW u \in Units(ls)
    PROVE  u = Text!Space \/ (u[1] \in 1 .. Len(ls) /\ u[2] \in Nat \ {0} /\ u = <<u[1], u[2]>> /\ u # Text!Space)
BY DEF Units, Text!Space

LEMMA ContentAt ==
    ASSUME NEW V, NEW s \in Seq(V)
    PROVE  /\ \A u : u \in Content(s) <=> u # Text!Space /\ \E k \in 1 .. Len(s) : s[k] = u
           /\ Content(s) \subseteq V
<1>1. DOMAIN s = 1 .. Len(s) /\ \A k \in 1 .. Len(s) : s[k] \in V
  OBVIOUS
<1>2. \A u : u \in Text!ToSet(s) <=> \E k \in 1 .. Len(s) : s[k] = u
  BY <1>1 DEF Text!ToSet
<1> QED
  BY <1>1, <1>2 DEF Content

LEMMA ContentOfBoth ==
    ASSUME NEW V, NEW a \in Seq(V), NEW b \in Seq(V)
    PROVE  a \o b \in Seq(V) /\ Content(a \o b) = Content(a) \cup Content(b)
BY Members DEF Content

LEMMA ContentOfNone == Content(<<>>) = {}
BY DEF Content, Text!ToSet

LEMMA JoinedRight ==
    ASSUME NEW ls \in Seq(Lines), NEW numbers \in Seq(1 .. Len(ls))
    PROVE  /\ Text!Joined(ls, numbers) \in Seq(Units(ls))
           /\ \A u : u \in Content(Text!Joined(ls, numbers)) <=>
                        \E i \in 1 .. Len(numbers) : \E k \in 1 .. ls[numbers[i]].len : u = <<numbers[i], k>>
<1> DEFINE n == Len(numbers)
           V == Units(ls)
           units(i) == Text!UnitsOf(ls, numbers[i])
           bit(i) == <<Text!Space>> \o units(i)
           parts == [i \in 1 .. n |-> bit(i)]
           all == Text!FlattenSeq(parts)
           Of(u, i) == \E k \in 1 .. ls[numbers[i]].len : u = <<numbers[i], k>>
<1>1. n \in Nat /\ DOMAIN numbers = 1 .. n /\ \A i \in 1 .. n : numbers[i] \in 1 .. Len(ls)
  OBVIOUS
<1>2. \A i \in 1 .. n : ls[numbers[i]].len \in Nat
  <2>1. \A l \in 1 .. Len(ls) : ls[l] \in Lines
    OBVIOUS
  <2> QED
    BY <1>1, <2>1 DEF Lines
<1>3. Text!Space \in V
  BY DEF Units
<1> HIDE DEF n
<1>4. ASSUME NEW i \in 1 .. n
      PROVE  /\ bit(i) \in Seq(V) /\ bit(i) # <<>> /\ bit(i)[1] = Text!Space
             /\ \A u : u # Text!Space => (u \in Text!ToSet(bit(i)) <=> Of(u, i))
  <2> DEFINE l == numbers[i]
             m == ls[l].len
  <2>1. l \in 1 .. Len(ls) /\ m \in Nat
    BY <1>1, <1>2
  <2> HIDE DEF l, m
  <2>2. units(i) = [k \in 1 .. m |-> <<l, k>>]
    BY DEF Text!UnitsOf, l, m
  <2>3. \A k \in 1 .. m : <<l, k>> \in V
    BY <2>1 DEF Units
  <2> DEFINE s == [k \in 1 .. m |-> <<l, k>>]
  <2>4. s \in Seq(V) /\ DOMAIN s = 1 .. m /\ \A k \in 1 .. m : s[k] = <<l, k>>
    <3> HIDE DEF V
    <3> QED
      BY <2>1, <2>3
  <2>5. \A u : u \in Text!ToSet(s) <=> \E k \in 1 .. m : u = <<l, k>>
    <3> HIDE DEF s, V
    <3> QED
      BY <2>4 DEF Text!ToSet
  <2> DEFINE a == <<Text!Space>>
  <2>6. a \in Seq(V) /\ a # <<>> /\ a[1] = Text!Space /\ DOMAIN a = {1}
    BY <1>3
  <2>7. Text!ToSet(a) = {Text!Space}
    BY <2>6 DEF Text!ToSet
  <2>8. bit(i) = a \o s
    BY <2>2
  <2> HIDE DEF a, s, bit, units, V
  <2>9. /\ a \o s \in Seq(V) /\ Text!ToSet(a \o s) = Text!ToSet(a) \cup Text!ToSet(s)
        /\ (a \o s)[1] = a[1] /\ a \o s # <<>>
    BY <2>4, <2>6, Members
  <2> QED
    BY <2>5, <2>6, <2>7, <2>8, <2>9 DEF l, m
<1> HIDE DEF bit, V, Of
<1>5. parts \in Seq(Seq(V)) /\ Len(parts) = n /\ \A i \in 1 .. n : parts[i] = bit(i)
  BY <1>1, <1>4
<1> HIDE DEF parts
<1>6. /\ all \in Seq(V)
      /\ \A u : u \in Text!ToSet(all) <=> \E i \in 1 .. n : u \in Text!ToSet(parts[i])
      /\ n > 0 => all # <<>> /\ all[1] = Text!Space
  <2>1. Len(parts) > 0 => parts[1] # <<>> /\ parts[1][1] = Text!Space
    <3>1. n > 0 => 1 \in 1 .. n
      BY <1>1
    <3>2. 1 \in 1 .. n => bit(1) # <<>> /\ bit(1)[1] = Text!Space
      BY <1>4
    <3> QED
      BY <1>5, <3>1, <3>2
  <2>2. /\ all \in Seq(V)
        /\ \A u : u \in Text!ToSet(all) <=> \E i \in 1 .. Len(parts) : u \in Text!ToSet(parts[i])
        /\ Len(parts) > 0 /\ parts[1] # <<>> => all # <<>> /\ all[1] = parts[1][1]
    BY <1>5, FlattenRight
  <2> HIDE DEF all
  <2> QED
    BY <1>1, <1>5, <2>1, <2>2
<1>7. \A u : u # Text!Space => (u \in Text!ToSet(all) <=> \E i \in 1 .. n : Of(u, i))
  BY <1>4, <1>5, <1>6
<1>8. \A u : u \in Content(all) <=> \E i \in 1 .. n : Of(u, i)
  <2>1. \A i \in 1 .. n : ~Of(Text!Space, i)
    <3>1. \A i \in 1 .. n : \A k : <<numbers[i], k>> # Text!Space
      BY <1>1 DEF Text!Space
    <3> QED
      BY <3>1 DEF Of
  <2> QED
    BY <1>7, <2>1 DEF Content
<1>9. Text!Joined(ls, numbers) = IF all = <<>> THEN <<>> ELSE Tail(all)
  BY <1>1 DEF Text!Joined, all, parts, bit
<1> HIDE DEF all
<1>10. CASE all = <<>>
  <2>1. Text!Joined(ls, numbers) = <<>> /\ Text!Joined(ls, numbers) = all
    BY <1>9, <1>10
  <2> QED
    BY <1>6, <1>8, <2>1 DEF V, Of, n
<1>11. CASE all # <<>>
  <2> DEFINE t == Tail(all)
             m == Len(all)
  <2>1. /\ t \in Seq(V) /\ Len(t) = m - 1 /\ \A i \in 1 .. m - 1 : t[i] = all[i + 1]
        /\ m \in Nat /\ m > 0
    BY <1>6, <1>11
  <2>2. all[1] = Text!Space
    <3>1. n # 0
      <4> SUFFICES ASSUME n = 0 PROVE FALSE
        OBVIOUS
      <4>1. Len(parts) = 0
        BY <1>5
      <4>2. parts = <<>>
        BY <1>5, <4>1
      <4>3. all = <<>>
        BY <4>1, <4>2, FlattenIs DEF all
      <4> QED
        BY <1>11, <4>3
    <3> QED
      BY <1>1, <1>6, <3>1
  <2> HIDE DEF t, m
  <2>3. \A u : u \in Content(t) <=> u \in Content(all)
    <3>1. \A u : u \in Content(t) <=> u # Text!Space /\ \E k \in 1 .. m - 1 : t[k] = u
      BY <2>1, ContentAt
    <3>2. \A u : u \in Content(all) <=> u # Text!Space /\ \E k \in 1 .. m : all[k] = u
      BY <1>6, ContentAt DEF m
    <3>3. \A k \in 1 .. m : k = 1 \/ (k - 1 \in 1 .. m - 1 /\ all[k] = t[k - 1])
      <4> SUFFICES ASSUME NEW k \in 1 .. m, k # 1 PROVE k - 1 \in 1 .. m - 1 /\ all[k] = t[k - 1]
        OBVIOUS
      <4>1. k - 1 \in 1 .. m - 1 /\ (k - 1) + 1 = k
        BY <2>1
      <4> QED
        BY <2>1, <4>1
    <3>4. \A k \in 1 .. m - 1 : k + 1 \in 1 .. m /\ t[k] = all[k + 1]
      BY <2>1
    <3> QED
      BY <2>2, <3>1, <3>2, <3>3, <3>4
  <2>4. Text!Joined(ls, numbers) = t
    BY <1>9, <1>11 DEF t
  <2> QED
    BY <1>8, <2>1, <2>3, <2>4 DEF V, Of, n
<1> QED
  BY <1>10, <1>11

LEMMA StripRight ==
    ASSUME NEW V, NEW s \in Seq(V)
    PROVE  Text!Strip(s) \in Seq(V) /\ Content(Text!Strip(s)) = Content(s)
<1> DEFINE kept == {i \in DOMAIN s : s[i] # Text!Space}
           n == Len(s)
           a == Smallest(kept)
           b == Largest(kept)
           t == SubSeq(s, a, b)
<1>1. n \in Nat /\ DOMAIN s = 1 .. n /\ \A i \in 1 .. n : s[i] \in V
  OBVIOUS
<1>2. Text!Strip(s) = IF kept = {} THEN <<>> ELSE t
  BY SameEnds DEF Text!Strip
<1>3. \A u : u \in Content(s) <=> \E i \in kept : s[i] = u
  BY <1>1, ContentAt
<1>4. CASE kept = {}
  <2>1. Content(s) = {} /\ Text!Strip(s) = <<>>
    <3> HIDE DEF kept
    <3> QED
      BY <1>2, <1>3, <1>4
  <2>2. <<>> \in Seq(V)
    OBVIOUS
  <2> QED
    BY <2>1, <2>2, ContentOfNone
<1>5. CASE kept # {}
  <2>1. IsFiniteSet(1 .. n) /\ kept \in SUBSET (1 .. n)
    BY <1>1, FS_Interval
  <2>2. IsFiniteSet(kept) /\ kept \in SUBSET Int
    BY <2>1, FS_Subset
  <2>3. a \in kept /\ b \in kept /\ \A i \in kept : a <= i /\ i <= b
    <3> HIDE DEF kept
    <3> QED
      BY <1>5, <2>2, SmallestOf, LargestOf
  <2>4. a \in 1 .. n /\ b \in 1 .. n /\ a <= b
    BY <2>1, <2>3
  <2> HIDE DEF a, b
  <2> DEFINE m == b - a + 1
  <2>5. t \in Seq(V) /\ Len(t) = m /\ \A k \in 1 .. m : t[k] = s[a + k - 1]
    BY <1>1, <2>4
  <2> HIDE DEF t
  <2>6. \A u : u \in Content(t) <=> u # Text!Space /\ \E k \in 1 .. m : t[k] = u
    BY <2>5, ContentAt
  <2>7. \A u : u \in Content(t) => u \in Content(s)
    <3>1. \A k \in 1 .. m : a + k - 1 \in 1 .. n
      BY <2>4
    <3> QED
      BY <1>1, <1>3, <2>5, <2>6, <3>1
  <2>8. \A u : u \in Content(s) => u \in Content(t)
    <3> SUFFICES ASSUME NEW i \in kept PROVE s[i] \in Content(t)
      BY <1>3
    <3>1. i \in Int /\ a <= i /\ i <= b
      BY <1>1, <2>3
    <3>2. i - a + 1 \in 1 .. m /\ a + (i - a + 1) - 1 = i
      BY <2>4, <3>1
    <3>3. t[i - a + 1] = s[i]
      BY <2>5, <3>2
    <3> QED
      BY <2>6, <3>2, <3>3
  <2>9. Text!Strip(s) = t
    BY <1>2, <1>5
  <2> QED
    BY <2>5, <2>7, <2>8, <2>9
<1> QED
  BY <1>4, <1>5

-----------------------------------------------------------------------------
(* The document.                                                           *)

DocPages == [body : Bodies, rows : TableRows, broken : BOOLEAN]

TextTyped == size \in Sizes /\ overlap \in Overlaps /\ pages \in Seq(DocPages)

LEMMA PagesTyped ==
    ASSUME TextTyped
    PROVE  /\ Len(pages) \in Nat /\ DOMAIN pages = 1 .. Len(pages)
           /\ \A i \in 1 .. Len(pages) : pages[i].body \in Bodies /\ pages[i].rows \in TableRows
<1>1. /\ Len(pages) \in Nat /\ DOMAIN pages = 1 .. Len(pages)
      /\ \A i \in 1 .. Len(pages) : pages[i] \in DocPages
  BY DEF TextTyped
<1>2. \A p \in DocPages : p.body \in Bodies /\ p.rows \in TableRows
  BY DEF DocPages
<1> QED
  BY <1>1, <1>2

LEMMA BodiesTyped == ASSUME NEW b \in Bodies PROVE b \in Seq(Lines)
<1> DEFINE Written == { l \in [kind : {"head", "row", "word", "stop", "blank"}, len : Nat, page : Nat] :
                           l.kind = "blank" <=> l.len = 0 }
<1>1. b \in Seq(Written)
  BY TextAssumption
<1>2. Written \subseteq Lines
  <2> SUFFICES ASSUME NEW l \in Written PROVE l \in Lines
    OBVIOUS
  <2>1. /\ l \in [kind : {"head", "row", "word", "stop", "blank"}, len : Nat, page : Nat]
        /\ l.kind = "blank" <=> l.len = 0
    OBVIOUS
  <2> HIDE DEF Written
  <2> QED
    BY <2>1 DEF Lines
<1> HIDE DEF Written
<1> QED
  BY <1>1, <1>2

LEMMA LineIs ==
    /\ Text!Blank \in Lines /\ Text!Line("word", 1) \in Lines /\ Text!Line("row", 1) \in Lines
    /\ \A i \in Nat : [kind |-> "page", len |-> 1, page |-> i] \in Lines
BY DEF Lines, Text!Blank, Text!Line

LEMMA PageTextTyped ==
    ASSUME TextTyped, NEW i \in DOMAIN pages
    PROVE  Text!PageText(i) \in Seq(Lines)
<1>1. pages[i].body \in Bodies /\ pages[i].rows \in TableRows
  BY PagesTyped
<1>2. pages[i].body \in Seq(Lines) /\ pages[i].rows \in Nat
  BY <1>1, BodiesTyped, TextAssumption
<1> DEFINE unbound == \A j \in 1 .. i : pages[j].broken
           m == pages[i].rows
           rows == [r \in 1 .. m |-> Text!Line("row", 1)]
           caption == <<Text!Blank, Text!Line("word", 1)>>
           table == caption \o rows
           body == IF source = "pdfplumber" /\ unbound THEN <<>> ELSE pages[i].body
<1>3. body \in Seq(Lines)
  <2>1. <<>> \in Seq(Lines)
    OBVIOUS
  <2> QED
    BY <1>2, <2>1
<1>4. table \in Seq(Lines)
  <2>1. m \in Nat
    BY <1>2
  <2> HIDE DEF m
  <2>2. rows \in Seq(Lines) /\ caption \in Seq(Lines)
    BY <2>1, LineIs
  <2> HIDE DEF rows, caption
  <2> QED
    BY <2>2
<1>5. body \o table \in Seq(Lines)
  <2> HIDE DEF body, table
  <2> QED
    BY <1>3, <1>4
<1>6. Text!PageText(i) = IF source # "pdfplumber" \/ pages[i].broken \/ pages[i].rows = 0
                         THEN body ELSE body \o table
  BY DEF Text!PageText
<1> HIDE DEF body, table
<1> QED
  BY <1>3, <1>5, <1>6

LEMMA FullTextTyped ==
    ASSUME TextTyped
    PROVE  Text!FullText \in Seq(Lines)
<1> DEFINE n == Len(pages)
           bodies == [i \in DOMAIN pages |-> pages[i].body]
           marker(i) == <<[kind |-> "page", len |-> 1, page |-> i]>>
           bit(i) == IF Text!PageText(i) = <<>> THEN <<>>
                      ELSE <<Text!Blank>> \o marker(i) \o Text!PageText(i)
           parts == [i \in DOMAIN pages |-> bit(i)]
           all == Text!FlattenSeq(parts)
<1>1. n \in Nat /\ DOMAIN pages = 1 .. n /\ \A i \in 1 .. n : pages[i].body \in Bodies
  BY PagesTyped
<1>2. Text!FlattenSeq(bodies) \in Seq(Lines)
  <2>1. \A i \in 1 .. n : bodies[i] \in Seq(Lines)
    BY <1>1, BodiesTyped
  <2>2. bodies \in Seq(Seq(Lines))
    <3> HIDE DEF n
    <3> QED
      BY <1>1, <2>1
  <2> HIDE DEF bodies
  <2> QED
    BY <2>2, FlattenRight
<1>3. ASSUME NEW i \in 1 .. n PROVE bit(i) \in Seq(Lines)
  <2>1. Text!PageText(i) \in Seq(Lines)
    BY <1>1, PageTextTyped
  <2>2. marker(i) \in Seq(Lines)
    BY <1>1, LineIs
  <2>3. <<Text!Blank>> \in Seq(Lines) /\ <<>> \in Seq(Lines)
    BY LineIs
  <2> DEFINE a == <<Text!Blank>>
             b == marker(i)
             c == Text!PageText(i)
  <2>4. a \o b \o c \in Seq(Lines)
    <3>1. a \in Seq(Lines) /\ b \in Seq(Lines) /\ c \in Seq(Lines)
      BY <2>1, <2>2, <2>3
    <3> HIDE DEF a, b, c
    <3> QED
      BY <3>1
  <2>5. bit(i) = IF c = <<>> THEN <<>> ELSE a \o b \o c
    OBVIOUS
  <2> HIDE DEF bit, a, b, c
  <2> QED
    BY <2>3, <2>4, <2>5
<1>4. all \in Seq(Lines)
  <2> HIDE DEF bit, n
  <2>1. parts \in Seq(Seq(Lines))
    BY <1>1, <1>3
  <2> HIDE DEF parts
  <2> QED
    BY <2>1, FlattenRight
<1>5. Text!FullText = IF source = "text" THEN Text!FlattenSeq(bodies)
                      ELSE IF all = <<>> THEN <<>> ELSE Tail(all)
  BY Zenon DEF Text!FullText
<1> HIDE DEF bodies, all
<1>6. all # <<>> => Tail(all) \in Seq(Lines)
  BY <1>4
<1> QED
  BY <1>2, <1>5, <1>6

LEMMA NumbersRight ==
    ASSUME NEW ls \in Seq(Lines)
    PROVE  /\ Text!Numbers(1, Len(ls)) \in Seq(1 .. Len(ls))
           /\ Len(Text!Numbers(1, Len(ls))) = Len(ls)
           /\ \A k \in 1 .. Len(ls) : Text!Numbers(1, Len(ls))[k] = k
<1>1. Len(ls) \in Nat
  OBVIOUS
<1> DEFINE n == Len(ls)
<1> HIDE DEF n
<1>2. n - 1 + 1 = n /\ \A k \in 1 .. n : 1 + k - 1 = k
  BY <1>1 DEF n
<1>3. Text!Numbers(1, n) = [k \in 1 .. n |-> 1 + k - 1]
  BY <1>2 DEF Text!Numbers
<1>4. Text!Numbers(1, n) = [k \in 1 .. n |-> k]
  BY <1>2, <1>3
<1> QED
  BY <1>1, <1>4 DEF n

\* The units of the whole document.
LEMMA FlatRight ==
    ASSUME NEW ls \in Seq(Lines)
    PROVE  /\ Text!Flat(ls) \in Seq(Units(ls))
           /\ \A u \in Content(Text!Flat(ls)) :
                 \E l \in 1 .. Len(ls) : \E k \in 1 .. ls[l].len : u = <<l, k>>
<1> DEFINE q == Text!Numbers(1, Len(ls))
<1>1. q \in Seq(1 .. Len(ls)) /\ Len(q) = Len(ls) /\ \A k \in 1 .. Len(ls) : q[k] = k
  BY NumbersRight
<1> HIDE DEF q
<1>2. /\ Text!Joined(ls, q) \in Seq(Units(ls))
      /\ \A u : u \in Content(Text!Joined(ls, q)) <=>
                   \E i \in 1 .. Len(q) : \E k \in 1 .. ls[q[i]].len : u = <<q[i], k>>
  BY <1>1, JoinedRight
<1> QED
  BY <1>1, <1>2 DEF Text!Flat, q

-----------------------------------------------------------------------------
(* Pieces of a text.                                                       *)

LEMMA LargerIs ==
    ASSUME NEW a \in Int, NEW b \in Int
    PROVE  Text!Max({a, b}) = IF a >= b THEN a ELSE b
<1>1. Text!Max({a, b}) = Largest({a, b})
  BY SameEnds
<1>2. CASE a >= b
  <2>1. \A y \in {a, b} : y <= a
    BY <1>2
  <2>2. Largest({a, b}) = a
    BY <2>1, LargestIs
  <2> QED
    BY <1>1, <1>2, <2>2
<1>3. CASE ~(a >= b)
  <2>1. \A y \in {a, b} : y <= b
    BY <1>3
  <2>2. Largest({a, b}) = b
    BY <2>1, LargestIs
  <2> QED
    BY <1>1, <1>3, <2>2
<1> QED
  BY <1>2, <1>3

LEMMA LargestBetween ==
    ASSUME NEW a \in Int, NEW b \in Int, NEW S \in SUBSET (a .. b), S # {}
    PROVE  Text!Max(S) \in S /\ Text!Max(S) \in a .. b
<1>1. IsFiniteSet(a .. b)
  BY FS_Interval
<1>2. IsFiniteSet(S) /\ S \in SUBSET Int
  <2>1. IsFiniteSet(S)
    BY <1>1, FS_Subset
  <2>2. S \in SUBSET Int
    OBVIOUS
  <2> QED
    BY <2>1, <2>2
<1>3. Largest(S) \in S
  BY <1>2, LargestOf
<1> QED
  BY <1>3, SameEnds

\* A boundary is found where it is looked for.
LEMMA BoundaryRight ==
    ASSUME NEW ls, NEW s, NEW from \in Int, NEW to \in Int
    PROVE  Text!Boundary(ls, s, from, to) = 0 \/ Text!Boundary(ls, s, from, to) \in from .. to
<1> DEFINE P == {i \in from .. to - 1 : s[i] = Text!Space /\ s[i + 1] = Text!Space}
           paragraphs == {i + 1 : i \in P}
           newlines == {i \in from .. to : s[i] = Text!Space}
           stops == {i \in from + 1 .. to : Text!EndsSentence(ls, s[i])}
<1>1. paragraphs \in SUBSET (from .. to) /\ newlines \in SUBSET (from .. to) /\ stops \in SUBSET (from .. to)
  <2>1. P \subseteq from .. to - 1
    OBVIOUS
  <2> HIDE DEF P
  <2>2. \A i \in P : i + 1 \in from .. to
    BY <2>1
  <2> QED
    BY <2>2
<1>2. Text!Boundary(ls, s, from, to) =
          IF paragraphs # {} THEN Text!Max(paragraphs)
          ELSE IF newlines # {} THEN Text!Max(newlines)
          ELSE IF stops # {} THEN Text!Max(stops) ELSE 0
  BY Zenon DEF Text!Boundary
<1> HIDE DEF paragraphs, newlines, stops
<1>3. \A S \in SUBSET (from .. to) : S # {} => Text!Max(S) \in from .. to
  BY LargestBetween
<1> QED
  BY <1>1, <1>2, <1>3

CutAt(ls, s, start) ==
    LET end  == start + size - 1
        last == Text!Boundary(ls, s, Text!Max({start, start + size - Reach}), end)
    IN  IF last = 0 THEN end ELSE last

NextAt(ls, s, start) == Text!Max({CutAt(ls, s, start) - overlap, start}) + 1

AreRests(ls, s, f) ==
    f = [start \in 1 .. Len(s) + 1 |->
            IF start + size > Len(s) THEN <<Text!Strip(SubSeq(s, start, Len(s)))>>
            ELSE <<Text!Strip(SubSeq(s, start, CutAt(ls, s, start)))>> \o f[NextAt(ls, s, start)]]

Rests(ls, s) == CHOOSE f : AreRests(ls, s, f)

LEMMA PiecesAre == ASSUME NEW ls, NEW s PROVE Text!Pieces(ls, s) = Rests(ls, s)[1]
BY Zenon DEF Text!Pieces, Rests, AreRests, CutAt, NextAt

\* A piece is cut behind its beginning, and the next begins behind that and not
\* behind the cut.
LEMMA CutRight ==
    ASSUME TextTyped, NEW ls, NEW s, NEW start \in Nat \ {0}
    PROVE  /\ CutAt(ls, s, start) \in start .. start + size - 1
           /\ NextAt(ls, s, start) \in start + 1 .. CutAt(ls, s, start) + 1
<1>1. size \in Nat \ {0} /\ overlap \in Nat /\ Reach \in Nat
  BY TextAssumption DEF TextTyped
<1> DEFINE cut == CutAt(ls, s, start)
           a == start + size - Reach
           from == Text!Max({start, a})
           end == start + size - 1
           last == Text!Boundary(ls, s, from, end)
<1>2. from \in Int /\ from >= start
  <2>1. a \in Int
    BY <1>1
  <2> HIDE DEF a
  <2> QED
    BY <2>1, LargerIs
<1>3. end \in Int /\ end >= start
  BY <1>1
<1>4. cut = IF last = 0 THEN end ELSE last
  BY DEF CutAt
<1> HIDE DEF from, end, a
<1>5. last = 0 \/ last \in from .. end
  BY <1>2, <1>3, BoundaryRight
<1> HIDE DEF last
<1>6. cut \in start .. end
  <2> HIDE DEF cut
  <2> QED
    BY <1>2, <1>3, <1>4, <1>5
<1> HIDE DEF cut
<1> DEFINE next == Text!Max({cut - overlap, start})
<1>7. cut \in Int /\ cut - overlap \in Int /\ cut - overlap <= cut
  BY <1>1, <1>3, <1>6
<1>8. next \in start .. cut
  <2> DEFINE b == cut - overlap
  <2>1. b \in Int /\ b <= cut /\ start <= cut
    BY <1>3, <1>6, <1>7
  <2> HIDE DEF b
  <2>2. Text!Max({b, start}) = IF b >= start THEN b ELSE start
    BY <2>1, LargerIs
  <2>3. Text!Max({b, start}) \in start .. cut
    BY <1>7, <2>1, <2>2
  <2> QED
    BY <2>3 DEF b
<1>9. NextAt(ls, s, start) = next + 1
  BY DEF NextAt, cut
<1> HIDE DEF next
<1>10. NextAt(ls, s, start) \in start + 1 .. cut + 1
  BY <1>7, <1>8, <1>9
<1> QED
  BY <1>6, <1>10 DEF cut, end

LEMMA PartOf ==
    ASSUME NEW V, NEW s \in Seq(V), NEW a \in Nat \ {0}, NEW b \in Nat, b <= Len(s)
    PROVE  /\ SubSeq(s, a, b) \in Seq(V)
           /\ \A p \in a .. b : s[p] = Text!Space \/ s[p] \in Content(SubSeq(s, a, b))
<1> DEFINE t == SubSeq(s, a, b)
           m == IF a <= b THEN b - a + 1 ELSE 0
<1>1. t \in Seq(V) /\ Len(t) = m /\ \A i \in 1 .. b - a + 1 : t[i] = s[a + i - 1]
  OBVIOUS
<1> HIDE DEF t
<1>2. ASSUME NEW p \in a .. b, s[p] # Text!Space PROVE s[p] \in Content(t)
  <2>1. p - a + 1 \in 1 .. b - a + 1 /\ a + (p - a + 1) - 1 = p /\ p - a + 1 \in 1 .. m
    OBVIOUS
  <2>2. t[p - a + 1] = s[p]
    BY <1>1, <2>1
  <2> HIDE DEF m
  <2> QED
    BY <1>1, <1>2, <2>1, <2>2, ContentAt
<1> QED
  BY <1>1, <1>2 DEF t

LEMMA RestsExist ==
    ASSUME TextTyped, NEW ls, NEW V, NEW s \in Seq(V)
    PROVE  /\ AreRests(ls, s, Rests(ls, s))
           /\ \A start \in 1 .. Len(s) + 1 : Rests(ls, s)[start] \in Seq(Seq(V))
<1> DEFINE n == Len(s) + 1
           N == Len(s)
           more == {i \in 1 .. n : ~(i + size > N)}
           next == [i \in more |-> NextAt(ls, s, i)]
           piece(i) == Text!Strip(SubSeq(s, i, CutAt(ls, s, i)))
           end(i) == Text!Strip(SubSeq(s, i, N))
           h == [i \in more |-> [q \in Seq(Seq(V)) |-> <<piece(i)>> \o q]]
           last == [i \in (0 .. n) \ more |-> IF i = 0 THEN <<>> ELSE <<end(i)>>]
           W == Seq(Seq(V))
<1>1. n \in Nat /\ N \in Nat /\ n = N + 1 /\ size \in Nat \ {0}
  BY TextAssumption DEF TextTyped
<1> HIDE DEF n, N
<1>2. more \in SUBSET (0 .. n) /\ \A i \in more : i \in Nat \ {0} /\ i \in 1 .. n
  BY <1>1
<1>3. ASSUME NEW i \in more
      PROVE  /\ CutAt(ls, s, i) \in Nat /\ CutAt(ls, s, i) <= N
             /\ NextAt(ls, s, i) > i /\ NextAt(ls, s, i) \in 1 .. n
  <2>1. i \in Nat \ {0} /\ i + size <= N
    BY <1>1, <1>2
  <2>2. /\ CutAt(ls, s, i) \in i .. i + size - 1
        /\ NextAt(ls, s, i) \in i + 1 .. CutAt(ls, s, i) + 1
    BY <2>1, CutRight
  <2> QED
    BY <1>1, <2>1, <2>2
<1>4. \A i \in more : piece(i) \in Seq(V)
  <2> SUFFICES ASSUME NEW i \in more PROVE piece(i) \in Seq(V)
    OBVIOUS
  <2>1. SubSeq(s, i, CutAt(ls, s, i)) \in Seq(V)
    BY <1>2, <1>3, PartOf DEF N
  <2> QED
    BY <2>1, StripRight
<1>5. \A i \in 1 .. n : end(i) \in Seq(V)
  <2> SUFFICES ASSUME NEW i \in 1 .. n PROVE end(i) \in Seq(V)
    OBVIOUS
  <2>1. i \in Nat \ {0} /\ N <= Len(s)
    BY <1>1 DEF N
  <2>2. SubSeq(s, i, N) \in Seq(V)
    BY <1>1, <2>1, PartOf
  <2> QED
    BY <2>2, StripRight
<1> HIDE DEF piece, end, more
<1>6. next \in [more -> 0 .. n] /\ \A i \in more : next[i] > i
  <2>1. 1 .. n \subseteq 0 .. n
    BY <1>1
  <2> QED
    BY <1>3, <2>1
<1>7. h \in [more -> [W -> W]]
  <2> SUFFICES ASSUME NEW i \in more, NEW q \in Seq(Seq(V)) PROVE <<piece(i)>> \o q \in Seq(Seq(V))
    BY DEF W
  <2>1. <<piece(i)>> \in Seq(Seq(V))
    BY <1>4
  <2> QED
    BY <2>1
<1>8. last \in [(0 .. n) \ more -> W]
  <2>1. <<>> \in Seq(Seq(V)) /\ \A i \in 1 .. n : <<end(i)>> \in Seq(Seq(V))
    BY <1>5
  <2>2. \A i \in 0 .. n : i # 0 => i \in 1 .. n
    BY <1>1
  <2> QED
    BY <2>1, <2>2
<1> HIDE DEF W
<1>9. PICK g \in [0 .. n -> W] : GoesUp(n, more, next, h, last, g)
  <2> HIDE DEF next, h, last
  <2> QED
    BY <1>1, <1>2, <1>6, <1>7, <1>8, GoesUpExists
<1> DEFINE f == [i \in 1 .. n |-> g[i]]
           k(i) == IF i + size > N THEN <<end(i)>> ELSE <<piece(i)>> \o f[NextAt(ls, s, i)]
<1>10. ASSUME NEW i \in 1 .. n PROVE f[i] = k(i)
  <2>1. i \in 0 .. n /\ f[i] = g[i] /\ i # 0
    BY <1>1
  <2>2. g[i] = IF i \in more THEN h[i][g[next[i]]] ELSE last[i]
    <3> HIDE DEF h, next, last
    <3> QED
      BY <1>9, <2>1 DEF GoesUp
  <2>3. CASE i \in more
    <3>1. ~(i + size > N) /\ NextAt(ls, s, i) \in 1 .. n /\ next[i] = NextAt(ls, s, i)
      BY <1>3, <2>3 DEF more
    <3>2. g[next[i]] \in W /\ g[next[i]] = f[NextAt(ls, s, i)]
      <4> HIDE DEF h, last
      <4> QED
        BY <1>1, <1>9, <3>1
    <3>3. h[i][g[next[i]]] = <<piece(i)>> \o g[next[i]]
      <4> HIDE DEF f, last, next
      <4> QED
        BY <2>3, <3>2 DEF W
    <3> HIDE DEF f, h, last
    <3> QED
      BY <2>1, <2>2, <2>3, <3>1, <3>2, <3>3
  <2>4. CASE i \notin more
    <3>1. i + size > N
      BY <2>4 DEF more
    <3>2. last[i] = <<end(i)>>
      BY <2>1, <2>4
    <3> HIDE DEF f, h, last
    <3> QED
      BY <2>1, <2>2, <2>4, <3>1, <3>2
  <2> QED
    BY <2>3, <2>4
<1>11. f = [i \in 1 .. n |-> k(i)]
  <2> HIDE DEF k
  <2>1. f = [i \in 1 .. n |-> f[i]]
    OBVIOUS
  <2> HIDE DEF f
  <2> QED
    BY <1>10, <2>1
<1>12. AreRests(ls, s, f)
  <2>1. f = [start \in 1 .. Len(s) + 1 |->
            IF start + size > Len(s) THEN <<Text!Strip(SubSeq(s, start, Len(s)))>>
            ELSE <<Text!Strip(SubSeq(s, start, CutAt(ls, s, start)))>> \o f[NextAt(ls, s, start)]]
    <3> HIDE DEF f
    <3> QED
      BY <1>11, Zenon DEF n, N, k, piece, end
  <2> HIDE DEF f
  <2> QED
    BY <2>1, Zenon DEF AreRests
<1>13. AreRests(ls, s, Rests(ls, s))
  <2> HIDE DEF f
  <2> QED
    BY <1>12, Zenon DEF Rests
<1> DEFINE r == Rests(ls, s)
<1>14. \A i \in 1 .. n : r[i] = IF i + size > N THEN <<end(i)>> ELSE <<piece(i)>> \o r[NextAt(ls, s, i)]
  <2>1. r = [start \in 1 .. Len(s) + 1 |->
            IF start + size > Len(s) THEN <<Text!Strip(SubSeq(s, start, Len(s)))>>
            ELSE <<Text!Strip(SubSeq(s, start, CutAt(ls, s, start)))>> \o r[NextAt(ls, s, start)]]
    BY <1>13, Zenon DEF AreRests
  <2> HIDE DEF r
  <2> QED
    BY <2>1 DEF n, N, piece, end
<1> HIDE DEF f, r, h, last, next
<1> DEFINE Good == {i \in 0 .. n : i # 0 => r[i] \in Seq(Seq(V))}
<1>15. ASSUME NEW i \in 0 .. n, \A j \in 0 .. n : j > i => j \in Good
       PROVE  i \in Good
  <2> SUFFICES ASSUME i # 0 PROVE r[i] \in Seq(Seq(V))
    OBVIOUS
  <2>1. i \in 1 .. n
    BY <1>1
  <2>2. CASE i + size > N
    <3>1. r[i] = <<end(i)>> /\ end(i) \in Seq(V)
      BY <1>5, <1>14, <2>1, <2>2
    <3> QED
      BY <3>1
  <2>3. CASE ~(i + size > N)
    <3>1. i \in more
      BY <2>1, <2>3 DEF more
    <3> DEFINE j == NextAt(ls, s, i)
    <3>2. j > i /\ j \in 0 .. n /\ j # 0
      BY <1>1, <1>3, <3>1
    <3>3. r[i] = <<piece(i)>> \o r[j]
      BY <1>14, <2>1, <2>3
    <3>4. r[j] \in Seq(Seq(V)) /\ <<piece(i)>> \in Seq(Seq(V))
      BY <1>4, <1>15, <3>1, <3>2
    <3> HIDE DEF j, Good
    <3> QED
      BY <3>3, <3>4
  <2> QED
    BY <2>2, <2>3
<1>16. Good = 0 .. n
  <2> HIDE DEF Good
  <2>1. Good \in SUBSET (0 .. n)
    BY DEF Good
  <2> QED
    BY <1>1, <1>15, <2>1, CountDown
<1>17. \A i \in 1 .. n : r[i] \in Seq(Seq(V))
  <2> SUFFICES ASSUME NEW i \in 1 .. n PROVE r[i] \in Seq(Seq(V))
    OBVIOUS
  <2>1. i \in 0 .. n /\ i # 0
    BY <1>1
  <2>2. i \in Good
    <3> HIDE DEF Good
    <3> QED
      BY <1>16, <2>1
  <2> QED
    BY <2>1, <2>2
<1> QED
  BY <1>13, <1>17 DEF n, r

LEMMA PiecesCover ==
    ASSUME TextTyped, NEW ls, NEW V, NEW s \in Seq(V)
    PROVE  /\ Text!Pieces(ls, s) \in Seq(Seq(V))
           /\ \A u \in Content(s) : \E j \in 1 .. Len(Text!Pieces(ls, s)) : u \in Content(Text!Pieces(ls, s)[j])
<1> DEFINE n == Len(s) + 1
           r == Rests(ls, s)
           piece(i) == Text!Strip(SubSeq(s, i, CutAt(ls, s, i)))
           end(i) == Text!Strip(SubSeq(s, i, Len(s)))
           Found(i, p) == s[p] = Text!Space \/ \E j \in 1 .. Len(r[i]) : s[p] \in Content(r[i][j])
           Good == {i \in 0 .. n : i # 0 => \A p \in i .. Len(s) : Found(i, p)}
<1>1. n \in Nat /\ Len(s) \in Nat /\ n = Len(s) + 1 /\ size \in Nat \ {0}
  BY TextAssumption DEF TextTyped
<1>2. /\ r = [start \in 1 .. Len(s) + 1 |->
            IF start + size > Len(s) THEN <<Text!Strip(SubSeq(s, start, Len(s)))>>
            ELSE <<Text!Strip(SubSeq(s, start, CutAt(ls, s, start)))>> \o r[NextAt(ls, s, start)]]
      /\ \A i \in 1 .. Len(s) + 1 : r[i] \in Seq(Seq(V))
  BY RestsExist, Zenon DEF AreRests
<1> HIDE DEF r
<1>3. \A i \in 1 .. n : r[i] = IF i + size > Len(s) THEN <<end(i)>> ELSE <<piece(i)>> \o r[NextAt(ls, s, i)]
  BY <1>2
<1>4. \A i \in 1 .. n : r[i] \in Seq(Seq(V))
  BY <1>2
<1> HIDE DEF n
<1>5. ASSUME NEW i \in 0 .. n, \A j \in 0 .. n : j > i => j \in Good
      PROVE  i \in Good
  <2> SUFFICES ASSUME i # 0, NEW p \in i .. Len(s) PROVE Found(i, p)
    OBVIOUS
  <2>1. i \in 1 .. n /\ i \in Nat \ {0}
    BY <1>1
  <2>2. CASE i + size > Len(s)
    <3>1. r[i] = <<end(i)>>
      BY <1>3, <2>1, <2>2
    <3> DEFINE t == SubSeq(s, i, Len(s))
    <3>2. t \in Seq(V) /\ (s[p] = Text!Space \/ s[p] \in Content(t))
      BY <1>1, <2>1, PartOf
    <3> HIDE DEF t
    <3>3. Content(Text!Strip(t)) = Content(t)
      BY <3>2, StripRight
    <3>4. end(i) = Text!Strip(t)
      BY DEF t
    <3> HIDE DEF end
    <3>5. Len(r[i]) = 1 /\ r[i][1] = end(i)
      BY <3>1
    <3> HIDE DEF Good
    <3> QED
      BY <3>2, <3>3, <3>4, <3>5
  <2>3. CASE ~(i + size > Len(s))
    <3> DEFINE cut == CutAt(ls, s, i)
               j == NextAt(ls, s, i)
    <3>1. cut \in i .. i + size - 1 /\ j \in i + 1 .. cut + 1
      BY <2>1, CutRight
    <3>2. r[i] = <<piece(i)>> \o r[j]
      BY <1>3, <2>1, <2>3
    <3> DEFINE t == SubSeq(s, i, cut)
    <3>3. piece(i) = Text!Strip(t)
      OBVIOUS
    <3> HIDE DEF cut, j, t
    <3>4. cut \in Nat /\ cut <= Len(s) /\ j \in 1 .. n /\ j \in 0 .. n /\ j > i /\ j # 0
      BY <1>1, <2>1, <2>3, <3>1
    <3>5. t \in Seq(V) /\ (p <= cut => s[p] = Text!Space \/ s[p] \in Content(t))
      BY <2>1, <3>4, PartOf DEF t
    <3>6. Text!Strip(t) \in Seq(V) /\ Content(Text!Strip(t)) = Content(t)
      BY <3>5, StripRight
    <3> HIDE DEF piece
    <3> DEFINE a == piece(i)
               b == r[j]
    <3>7. a \in Seq(V) /\ b \in Seq(Seq(V))
      BY <1>4, <3>3, <3>4, <3>6
    <3> HIDE DEF a
    <3>8. r[i] = <<a>> \o b
      BY <3>2 DEF a
    <3> HIDE DEF b
    <3>9. /\ Len(r[i]) = 1 + Len(b) /\ Len(b) \in Nat
          /\ r[i][1] = a /\ \A m \in 1 .. Len(b) : r[i][m + 1] = b[m]
      <4>1. <<a>> \in Seq(Seq(V)) /\ Len(<<a>>) = 1 /\ <<a>>[1] = a
        BY <3>7
      <4> QED
        BY <3>7, <3>8, <4>1
    <3>10. CASE p <= cut
      <4>1. 1 \in 1 .. Len(r[i])
        BY <3>9
      <4>2. Content(r[i][1]) = Content(t)
        BY <3>3, <3>6, <3>9 DEF a
      <4> HIDE DEF Good
      <4> QED
        BY <3>5, <3>10, <4>1, <4>2
    <3>11. CASE ~(p <= cut)
      <4>1. p \in j .. Len(s)
        BY <3>1, <3>4, <3>11
      <4>2. Found(j, p)
        BY <1>5, <3>4, <4>1
      <4>3. s[p] = Text!Space \/ \E m \in 1 .. Len(b) : s[p] \in Content(b[m])
        BY <4>2 DEF b
      <4>4. \A m \in 1 .. Len(b) : m + 1 \in 1 .. Len(r[i])
        BY <3>9
      <4> HIDE DEF Good
      <4> QED
        BY <3>9, <4>3, <4>4
    <3> QED
      BY <3>10, <3>11
  <2> QED
    BY <2>2, <2>3
<1>6. Good = 0 .. n
  <2> HIDE DEF Good
  <2>1. Good \in SUBSET (0 .. n)
    BY DEF Good
  <2> QED
    BY <1>1, <1>5, <2>1, CountDown
<1>7. 1 \in Good /\ 1 \in 1 .. n
  <2> HIDE DEF Good
  <2> QED
    BY <1>1, <1>6
<1>8. \A p \in 1 .. Len(s) : Found(1, p)
  BY <1>7
<1>9. Text!Pieces(ls, s) = r[1]
  BY PiecesAre DEF r
<1>10. \A u \in Content(s) : u # Text!Space /\ \E p \in 1 .. Len(s) : s[p] = u
  BY ContentAt
<1> HIDE DEF Good
<1>11. \A u \in Content(s) : \E j \in 1 .. Len(r[1]) : u \in Content(r[1][j])
  BY <1>8, <1>10
<1> QED
  BY <1>4, <1>7, <1>9, <1>11

LEMMA NonemptyRight ==
    ASSUME NEW V, NEW q \in Seq(Seq(V))
    PROVE  /\ Text!Nonempty(q) \in Seq(Seq(V))
           /\ \A k \in 1 .. Len(Text!Nonempty(q)) :
                 \E i \in 1 .. Len(q) : Text!Nonempty(q)[k] = q[i] /\ q[i] # <<>>
           /\ \A i \in 1 .. Len(q) : q[i] # <<>> =>
                 \E k \in 1 .. Len(Text!Nonempty(q)) : Text!Nonempty(q)[k] = q[i]
<1> DEFINE S == {i \in DOMAIN q : q[i] # <<>>}
<1>1. S \in SUBSET DOMAIN q /\ \A i : i \in S <=> i \in 1 .. Len(q) /\ q[i] # <<>>
  OBVIOUS
<1>2. Text!Nonempty(q) = Taken(q, S)
  BY SameTaken DEF Text!Nonempty
<1> HIDE DEF S
<1> DEFINE t == Taken(q, S)
           W == Seq(V)
<1>3. q \in Seq(W)
  OBVIOUS
<1> HIDE DEF W
<1>4. /\ t \in Seq(W) /\ Len(t) = Cardinality(S)
      /\ \A k \in 1 .. Cardinality(S) : \E i \in S : t[k] = q[i]
      /\ \A i \in S : \E k \in 1 .. Cardinality(S) : t[k] = q[i]
  BY <1>1, <1>3, TakenRight
<1> HIDE DEF t
<1>5. t = Text!Nonempty(q)
  BY <1>2 DEF t
<1> QED
  BY <1>1, <1>4, <1>5 DEF W

LEMMA SplitRight ==
    ASSUME TextTyped, NEW ls, NEW V, NEW s \in Seq(V)
    PROVE  /\ Text!Split(ls, s) \in Seq(Seq(V))
           /\ \A u \in Content(s) : \E k \in 1 .. Len(Text!Split(ls, s)) : u \in Content(Text!Split(ls, s)[k])
<1> DEFINE q == IF Len(s) <= size THEN <<s>> ELSE Text!Pieces(ls, s)
<1>1. q \in Seq(Seq(V)) /\ \A u \in Content(s) : \E j \in 1 .. Len(q) : u \in Content(q[j])
  <2>1. CASE Len(s) <= size
    <3> DEFINE one == <<s>>
    <3>1. one \in Seq(Seq(V)) /\ 1 \in 1 .. Len(one) /\ one[1] = s
      OBVIOUS
    <3>2. q = one
      BY <2>1
    <3> HIDE DEF one, q
    <3> QED
      BY <3>1, <3>2
  <2>2. CASE ~(Len(s) <= size)
    <3>1. q = Text!Pieces(ls, s)
      BY <2>2
    <3> HIDE DEF q
    <3> QED
      BY <3>1, PiecesCover
  <2> QED
    BY <2>1, <2>2
<1>2. Text!Split(ls, s) = Text!Nonempty(q)
  BY DEF Text!Split
<1> HIDE DEF q
<1>3. \A t : Content(t) # {} => t # <<>>
  BY ContentOfNone
<1> DEFINE r == Text!Nonempty(q)
<1>4. /\ r \in Seq(Seq(V))
      /\ \A i \in 1 .. Len(q) : q[i] # <<>> => \E k \in 1 .. Len(r) : r[k] = q[i]
  BY <1>1, NonemptyRight
<1> HIDE DEF r
<1>5. \A u \in Content(s) : \E k \in 1 .. Len(r) : u \in Content(r[k])
  BY <1>1, <1>3, <1>4
<1> QED
  BY <1>2, <1>4, <1>5 DEF r

-----------------------------------------------------------------------------
(* Sections.                                                               *)

Heads(ls) == {l \in DOMAIN ls : l = 1 \/ ls[l].kind = "head"}
UpTo(ls, i) == IF i = Len(Ordered(Heads(ls))) THEN Len(ls) ELSE Ordered(Heads(ls))[i + 1] - 1
Written(ls, i) == {l \in Ordered(Heads(ls))[i] .. UpTo(ls, i) : ls[l].kind # "blank"}
LinesOf(ls, i) ==
    IF Written(ls, i) = {} THEN <<>>
    ELSE [k \in 1 .. Largest(Written(ls, i)) - Smallest(Written(ls, i)) + 1 |-> Smallest(Written(ls, i)) + k - 1]

LEMMA SectionsAre ==
    ASSUME NEW ls
    PROVE  Text!Sections(ls) = Text!Nonempty([i \in DOMAIN Ordered(Heads(ls)) |-> LinesOf(ls, i)])
<1> DEFINE starts == Text!Ordered({l \in DOMAIN ls : l = 1 \/ ls[l].kind = "head"})
           upto(i) == IF i = Len(starts) THEN Len(ls) ELSE starts[i + 1] - 1
           content(i) == {l \in starts[i] .. upto(i) : ls[l].kind # "blank"}
           lines(i) == IF content(i) = {} THEN <<>>
                       ELSE [k \in 1 .. Text!Max(content(i)) - Text!Min(content(i)) + 1 |-> Text!Min(content(i)) + k - 1]
<1>1. Text!Sections(ls) = Text!Nonempty([i \in DOMAIN starts |-> lines(i)])
  BY Zenon DEF Text!Sections
<1>2. starts = Ordered(Heads(ls))
  BY SameTaken DEF Heads
<1> HIDE DEF starts
<1>3. \A i : content(i) = Written(ls, i)
  BY <1>2, Zenon DEF Written, UpTo
<1> HIDE DEF content
<1>4. \A i : lines(i) = LinesOf(ls, i)
  <2> SUFFICES ASSUME NEW i PROVE lines(i) = LinesOf(ls, i)
    OBVIOUS
  <2>1. Text!Max(content(i)) = Largest(Written(ls, i)) /\ Text!Min(content(i)) = Smallest(Written(ls, i))
    BY <1>3, SameEnds
  <2> QED
    BY <1>3, <2>1, Zenon DEF LinesOf
<1> HIDE DEF lines
<1> QED
  BY <1>1, <1>2, <1>4

\* The heads of a text begin with its first line and ascend.
LEMMA HeadsRight ==
    ASSUME NEW ls \in Seq(Lines)
    PROVE  /\ Len(Ordered(Heads(ls))) = Cardinality(Heads(ls)) /\ Cardinality(Heads(ls)) \in Nat
           /\ DOMAIN Ordered(Heads(ls)) = 1 .. Cardinality(Heads(ls))
           /\ \A k \in 1 .. Cardinality(Heads(ls)) : Ordered(Heads(ls))[k] \in Heads(ls)
           /\ \A j, k \in 1 .. Cardinality(Heads(ls)) : j < k => Ordered(Heads(ls))[j] < Ordered(Heads(ls))[k]
           /\ \A x \in Heads(ls) : \E k \in 1 .. Cardinality(Heads(ls)) : Ordered(Heads(ls))[k] = x
           /\ Heads(ls) \subseteq 1 .. Len(ls)
<1> DEFINE H == Heads(ls)
           n == Cardinality(H)
           o == Ordered(H)
<1>1. Len(ls) \in Nat /\ H \subseteq 1 .. Len(ls)
  BY DEF Heads
<1>2. IsFiniteSet(1 .. Len(ls))
  BY <1>1, FS_Interval
<1> HIDE DEF H
<1>3. IsFiniteSet(H)
  BY <1>1, <1>2, FS_Subset
<1>4. H \in SUBSET Int
  BY <1>1
<1>5. /\ n \in Nat /\ o \in [1 .. n -> H] /\ Ascends(o)
      /\ \A x \in H : \E k \in 1 .. n : o[k] = x
  BY <1>3, <1>4, OrderedRight
<1> HIDE DEF o, n
<1>6. DOMAIN o = 1 .. n /\ Len(o) = n
  BY <1>5
<1>7. \A j, k \in 1 .. n : j < k => o[j] < o[k]
  BY <1>5, <1>6 DEF Ascends
<1>8. \A k \in 1 .. n : o[k] \in H
  BY <1>5
<1> QED
  BY <1>1, <1>5, <1>6, <1>7, <1>8 DEF o, n, H

\* A section's lines follow one another, from its first to its last that is written.
LEMMA LinesOfRight ==
    ASSUME NEW ls \in Seq(Lines), NEW i \in 1 .. Cardinality(Heads(ls))
    PROVE  /\ LinesOf(ls, i) \in Seq(1 .. Len(ls))
           /\ \A l \in Written(ls, i) : \E k \in 1 .. Len(LinesOf(ls, i)) :
                 /\ LinesOf(ls, i)[k] = l
                 /\ l + 1 \in Written(ls, i) => k + 1 \in 1 .. Len(LinesOf(ls, i)) /\ LinesOf(ls, i)[k + 1] = l + 1
<1> DEFINE n == Cardinality(Heads(ls))
           o == Ordered(Heads(ls))
           w == Written(ls, i)
           N == Len(ls)
           a == Smallest(w)
           b == Largest(w)
           q == [k \in 1 .. b - a + 1 |-> a + k - 1]
<1>1. N \in Nat /\ n \in Nat /\ Len(o) = n /\ \A k \in 1 .. n : o[k] \in 1 .. N
  BY HeadsRight
<1>2. w \subseteq 1 .. N
  <2>1. o[i] \in 1 .. N
    BY <1>1
  <2>2. UpTo(ls, i) \in Int /\ UpTo(ls, i) <= N
    <3>1. i # n => i + 1 \in 1 .. n
      BY <1>1
    <3>2. i # n => o[i + 1] \in 1 .. N
      BY <1>1, <3>1
    <3> HIDE DEF n, o
    <3> QED
      BY <1>1, <3>2 DEF UpTo, o
  <2>3. \A l \in w : l \in o[i] .. UpTo(ls, i)
    BY DEF Written
  <2> HIDE DEF w, o, N
  <2> QED
    BY <1>1, <2>1, <2>2, <2>3
<1>3. LinesOf(ls, i) = IF w = {} THEN <<>> ELSE q
  BY DEF LinesOf
<1>4. CASE w = {}
  <2>1. LinesOf(ls, i) = <<>>
    BY <1>3, <1>4
  <2>2. <<>> \in Seq(1 .. N)
    OBVIOUS
  <2> QED
    BY <1>4, <2>1, <2>2
<1>5. CASE w # {}
  <2>1. IsFiniteSet(1 .. N)
    BY <1>1, FS_Interval
  <2>2. IsFiniteSet(w)
    BY <1>2, <2>1, FS_Subset
  <2>3. w \in SUBSET Int
    BY <1>1, <1>2
  <2>4. a \in w /\ b \in w /\ \A l \in w : a <= l /\ l <= b
    <3> HIDE DEF w
    <3> QED
      BY <1>5, <2>2, <2>3, SmallestOf, LargestOf
  <2>5. a \in 1 .. N /\ b \in 1 .. N /\ a <= b
    <3> HIDE DEF w
    <3> QED
      BY <1>2, <2>4
  <2> HIDE DEF a, b, w, N
  <2>6. q \in Seq(1 .. N) /\ Len(q) = b - a + 1 /\ \A k \in 1 .. b - a + 1 : q[k] = a + k - 1
    <3>1. b - a + 1 \in Nat
      BY <2>5
    <3>2. \A k \in 1 .. b - a + 1 : a + k - 1 \in 1 .. N
      BY <1>1, <2>5
    <3> DEFINE e == b - a + 1
               V == 1 .. N
    <3>3. e \in Nat /\ \A k \in 1 .. e : a + k - 1 \in V
      BY <3>1, <3>2
    <3> HIDE DEF e, V
    <3>4. q = [k \in 1 .. e |-> a + k - 1]
      BY DEF e
    <3> HIDE DEF q
    <3>6. q \in [1 .. e -> V] /\ \A k \in 1 .. e : q[k] = a + k - 1
      BY <3>3, <3>4
    <3>5. q \in Seq(V) /\ Len(q) = e /\ \A k \in 1 .. e : q[k] = a + k - 1
      BY <3>3, <3>6
    <3> QED
      BY <3>5 DEF e, V
  <2> HIDE DEF q
  <2>7. ASSUME NEW l \in w
        PROVE  \E k \in 1 .. Len(q) : q[k] = l /\ (l + 1 \in w => k + 1 \in 1 .. Len(q) /\ q[k + 1] = l + 1)
    <3>1. l \in Int /\ a <= l /\ l <= b /\ (l + 1 \in w => l + 1 <= b)
      BY <2>3, <2>4
    <3> DEFINE k == l - a + 1
    <3>2. k \in 1 .. b - a + 1 /\ a + k - 1 = l
      BY <2>5, <3>1
    <3>3. l + 1 \in w => k + 1 \in 1 .. b - a + 1 /\ a + (k + 1) - 1 = l + 1
      BY <2>5, <3>1
    <3> HIDE DEF k
    <3>4. k \in 1 .. Len(q) /\ q[k] = l
      BY <2>6, <3>2
    <3>5. l + 1 \in w => k + 1 \in 1 .. Len(q) /\ q[k + 1] = l + 1
      BY <2>6, <3>3
    <3> QED
      BY <3>4, <3>5
  <2>8. LinesOf(ls, i) = q
    BY <1>3, <1>5
  <2> QED
    BY <2>6, <2>7, <2>8 DEF w, N
<1> QED
  BY <1>4, <1>5

\* Every line that is written is in a section, with the next if that is written
\* and no heading.
LEMMA SectionsRight ==
    ASSUME NEW ls \in Seq(Lines)
    PROVE  /\ Text!Sections(ls) \in Seq(Seq(1 .. Len(ls)))
           /\ \A l \in 1 .. Len(ls) : ls[l].kind # "blank" =>
                 \E n \in 1 .. Len(Text!Sections(ls)) : \E k \in 1 .. Len(Text!Sections(ls)[n]) :
                     /\ Text!Sections(ls)[n][k] = l
                     /\ l + 1 \in 1 .. Len(ls) /\ ls[l + 1].kind \notin {"blank", "head"} =>
                           k + 1 \in 1 .. Len(Text!Sections(ls)[n]) /\ Text!Sections(ls)[n][k + 1] = l + 1
<1> DEFINE c == Cardinality(Heads(ls))
           o == Ordered(Heads(ls))
           N == Len(ls)
           q == [i \in 1 .. c |-> LinesOf(ls, i)]
           secs == Text!Nonempty(q)
           Next1(l) == l + 1 \in 1 .. N /\ ls[l + 1].kind \notin {"blank", "head"}
<1>1. /\ N \in Nat /\ c \in Nat /\ Len(o) = c /\ DOMAIN o = 1 .. c /\ \A k \in 1 .. c : o[k] \in 1 .. N /\ o[k] \in Heads(ls)
      /\ \A j, k \in 1 .. c : j < k => o[j] < o[k]
      /\ \A x \in Heads(ls) : \E k \in 1 .. c : o[k] = x
  BY HeadsRight
<1>2. Text!Sections(ls) = secs
  <2>1. Text!Sections(ls) = Text!Nonempty([i \in DOMAIN o |-> LinesOf(ls, i)])
    BY SectionsAre
  <2> HIDE DEF o, c
  <2> QED
    BY <1>1, <2>1
<1>3. ASSUME NEW l \in 1 .. N, ls[l].kind # "blank"
      PROVE  \E i \in 1 .. c : l \in Written(ls, i) /\ (Next1(l) => l + 1 \in Written(ls, i))
  <2> DEFINE K == {k \in 1 .. c : o[k] <= l}
             m == Largest(K)
  <2>1. 1 \in Heads(ls)
    BY <1>1 DEF Heads
  <2>2. K # {}
    <3>1. PICK k \in 1 .. c : o[k] = 1
      BY <1>1, <2>1
    <3> QED
      BY <3>1
  <2>3. IsFiniteSet(1 .. c) /\ K \subseteq 1 .. c
    BY <1>1, FS_Interval
  <2>4. IsFiniteSet(K)
    BY <2>3, FS_Subset
  <2>5. K \in SUBSET Int
    BY <1>1
  <2>6. m \in K /\ \A k \in K : k <= m
    <3> HIDE DEF K
    <3> QED
      BY <2>2, <2>4, <2>5, LargestOf
  <2> HIDE DEF m, c, o, N
  <2>7. m \in 1 .. c /\ o[m] <= l /\ (m # c => m + 1 \in 1 .. c /\ o[m + 1] > l)
    <3>1. m \in 1 .. c /\ o[m] <= l /\ (m # c => m + 1 \in 1 .. c)
      BY <1>1, <2>6
    <3>2. m + 1 \notin K
      BY <1>1, <2>6
    <3>3. m # c => o[m + 1] > l
      BY <1>1, <3>1, <3>2
    <3> QED
      BY <3>1, <3>3
  <2> HIDE DEF K
  <2>8. UpTo(ls, m) = IF m = c THEN N ELSE o[m + 1] - 1
    BY <1>1 DEF UpTo, o, N
  <2>9. l \in o[m] .. UpTo(ls, m)
    BY <1>1, <2>7, <2>8
  <2>10. l \in Written(ls, m)
    BY <1>3, <2>9 DEF Written, o
  <2>11. ASSUME Next1(l) PROVE l + 1 \in Written(ls, m)
    <3>1. l + 1 \notin Heads(ls)
      BY <2>11 DEF Heads
    <3>2. m # c => o[m + 1] > l + 1
      <4> SUFFICES ASSUME m # c PROVE o[m + 1] > l + 1
        OBVIOUS
      <4>1. m + 1 \in 1 .. c /\ o[m + 1] > l
        BY <2>7
      <4>2. o[m + 1] \in Heads(ls) /\ o[m + 1] \in 1 .. N
        BY <1>1, <4>1
      <4>3. o[m + 1] # l + 1
        BY <3>1, <4>2
      <4> HIDE DEF Next1
      <4> QED
        BY <1>1, <4>1, <4>2, <4>3
    <3>3. l + 1 \in o[m] .. UpTo(ls, m)
      BY <1>1, <2>7, <2>8, <2>11, <3>2
    <3> QED
      BY <2>11, <3>3 DEF Written, o
  <2> QED
    BY <2>7, <2>10, <2>11
<1> DEFINE V == 1 .. N
<1>4. q \in Seq(Seq(V)) /\ Len(q) = c /\ \A i \in 1 .. c : q[i] = LinesOf(ls, i)
  <2>1. \A i \in 1 .. c : LinesOf(ls, i) \in Seq(V)
    BY LinesOfRight
  <2> HIDE DEF c, V
  <2> QED
    BY <1>1, <2>1
<1> HIDE DEF V, q, N, c
<1>5. /\ secs \in Seq(Seq(V))
      /\ \A i \in 1 .. Len(q) : q[i] # <<>> => \E n \in 1 .. Len(secs) : secs[n] = q[i]
  BY <1>4, NonemptyRight
<1> HIDE DEF secs
<1>6. ASSUME NEW l \in 1 .. N, ls[l].kind # "blank"
      PROVE  \E n \in 1 .. Len(secs) : \E k \in 1 .. Len(secs[n]) :
                 secs[n][k] = l /\ (Next1(l) => k + 1 \in 1 .. Len(secs[n]) /\ secs[n][k + 1] = l + 1)
  <2>1. PICK i \in 1 .. c : l \in Written(ls, i) /\ (Next1(l) => l + 1 \in Written(ls, i))
    BY <1>3, <1>6
  <2> DEFINE r == LinesOf(ls, i)
  <2>2. PICK k \in 1 .. Len(r) :
            r[k] = l /\ (l + 1 \in Written(ls, i) => k + 1 \in 1 .. Len(r) /\ r[k + 1] = l + 1)
    BY <2>1, LinesOfRight DEF c
  <2>3. r \in Seq(V)
    BY LinesOfRight DEF c, V, N
  <2> HIDE DEF r
  <2>4. r # <<>>
    BY <2>2
  <2>5. q[i] = r
    BY <1>4 DEF r
  <2>6. PICK n \in 1 .. Len(secs) : secs[n] = r
    BY <1>4, <1>5, <2>4, <2>5
  <2> HIDE DEF Next1
  <2> QED
    BY <2>1, <2>2, <2>6
<1> QED
  BY <1>2, <1>5, <1>6 DEF V, N

-----------------------------------------------------------------------------
(* Tables.                                                                 *)

Firsts(ls, sec) == {i \in DOMAIN sec : Text!InTable(ls, sec, i) /\ (i = 1 \/ ~Text!InTable(ls, sec, i - 1))}
Run(ls, sec, i) == {k \in i .. Len(sec) : \A j \in i .. k : Text!InTable(ls, sec, j)}

LEMMA TablesAre ==
    ASSUME NEW ls, NEW sec
    PROVE  Text!Tables(ls, sec) = [n \in DOMAIN Ordered(Firsts(ls, sec)) |->
               <<Ordered(Firsts(ls, sec))[n], Largest(Run(ls, sec, Ordered(Firsts(ls, sec))[n]))>>]
<1> DEFINE first == Text!Ordered({i \in DOMAIN sec : Text!InTable(ls, sec, i) /\ (i = 1 \/ ~Text!InTable(ls, sec, i - 1))})
           last(i) == Text!Max({k \in i .. Len(sec) : \A j \in i .. k : Text!InTable(ls, sec, j)})
<1>1. Text!Tables(ls, sec) = [n \in DOMAIN first |-> <<first[n], last(first[n])>>]
  BY Zenon DEF Text!Tables
<1>2. first = Ordered(Firsts(ls, sec))
  BY SameTaken DEF Firsts
<1>3. \A i : last(i) = Largest(Run(ls, sec, i))
  BY SameEnds DEF Run
<1> HIDE DEF first, last
<1> QED
  BY <1>1, <1>2, <1>3

\* Every line of a table is in a block, with the next if that is one too.
LEMMA TablesRight ==
    ASSUME NEW N \in Nat, NEW ls, NEW sec \in Seq(1 .. N)
    PROVE  /\ Len(Text!Tables(ls, sec)) \in Nat
           /\ DOMAIN Text!Tables(ls, sec) = 1 .. Len(Text!Tables(ls, sec))
           /\ \A n \in 1 .. Len(Text!Tables(ls, sec)) :
                 /\ Text!Tables(ls, sec)[n][1] \in 1 .. Len(sec)
                 /\ Text!Tables(ls, sec)[n][2] \in 1 .. Len(sec)
           /\ \A i \in 1 .. Len(sec) : Text!InTable(ls, sec, i) =>
                 \E n \in 1 .. Len(Text!Tables(ls, sec)) :
                     /\ Text!Tables(ls, sec)[n][1] <= i /\ i <= Text!Tables(ls, sec)[n][2]
                     /\ i + 1 \in 1 .. Len(sec) /\ Text!InTable(ls, sec, i + 1) =>
                            i + 1 <= Text!Tables(ls, sec)[n][2]
<1> DEFINE m == Len(sec)
           F == Firsts(ls, sec)
           o == Ordered(F)
           c == Cardinality(F)
           In(i) == Text!InTable(ls, sec, i)
           R(i) == Run(ls, sec, i)
           t == [n \in 1 .. c |-> <<o[n], Largest(R(o[n]))>>]
<1>1. m \in Nat /\ DOMAIN sec = 1 .. m
  OBVIOUS
<1>2. F \subseteq 1 .. m /\ \A i \in F : In(i)
  BY DEF Firsts
<1>3. IsFiniteSet(1 .. m)
  BY <1>1, FS_Interval
<1> HIDE DEF F
<1>4. IsFiniteSet(F)
  BY <1>2, <1>3, FS_Subset
<1>5. F \in SUBSET Int
  BY <1>1, <1>2
<1>6. c \in Nat /\ o \in [1 .. c -> F] /\ \A x \in F : \E n \in 1 .. c : o[n] = x
  BY <1>4, <1>5, OrderedRight
<1> HIDE DEF o, c
<1>7. Text!Tables(ls, sec) = t
  <2>1. Text!Tables(ls, sec) = [n \in DOMAIN o |-> <<o[n], Largest(R(o[n]))>>]
    BY TablesAre DEF o, F
  <2> HIDE DEF R
  <2> QED
    BY <1>6, <2>1
<1>8. ASSUME NEW i \in 1 .. m, In(i)
      PROVE  /\ i \in R(i)
             /\ Largest(R(i)) \in R(i) /\ \A k \in R(i) : k <= Largest(R(i))
             /\ R(i) \subseteq i .. m
  <2>1. i \in R(i)
    <3>1. i .. i = {i}
      BY <1>1
    <3> QED
      BY <1>1, <1>8, <3>1 DEF Run
  <2>2. R(i) \subseteq i .. m
    BY DEF Run
  <2> HIDE DEF R
  <2>3. IsFiniteSet(i .. m)
    BY <1>1, FS_Interval
  <2>4. IsFiniteSet(R(i))
    BY <2>2, <2>3, FS_Subset
  <2>5. R(i) \in SUBSET Int
    BY <1>1, <2>2
  <2>6. R(i) # {}
    BY <2>1
  <2> QED
    BY <2>1, <2>2, <2>4, <2>5, <2>6, LargestOf
<1> HIDE DEF R
<1>9. Len(t) = c /\ DOMAIN t = 1 .. c /\ \A n \in 1 .. c : t[n][1] = o[n] /\ t[n][2] = Largest(R(o[n]))
  BY <1>6
<1> HIDE DEF t
<1>10. ASSUME NEW n \in 1 .. c PROVE t[n][1] \in 1 .. m /\ t[n][2] \in 1 .. m
  <2>1. o[n] \in F
    BY <1>6
  <2>2. o[n] \in 1 .. m /\ In(o[n])
    BY <1>2, <2>1
  <2>3. Largest(R(o[n])) \in o[n] .. m
    BY <1>8, <2>2
  <2> QED
    BY <1>1, <1>9, <2>2, <2>3
<1>11. ASSUME NEW i \in 1 .. m, In(i)
       PROVE  \E n \in 1 .. c : /\ t[n][1] <= i /\ i <= t[n][2]
                                /\ i + 1 \in 1 .. m /\ In(i + 1) => i + 1 <= t[n][2]
  <2> DEFINE B == {j \in 1 .. i : \A k \in j .. i : In(k)}
             f == Smallest(B)
  <2>1. i \in B
    <3>1. i .. i = {i} /\ i \in 1 .. i
      BY <1>1
    <3> HIDE DEF In
    <3> QED
      BY <1>11, <3>1
  <2>2. IsFiniteSet(1 .. i) /\ B \subseteq 1 .. i
    BY <1>1, FS_Interval
  <2>3. IsFiniteSet(B)
    BY <2>2, FS_Subset
  <2>4. B \in SUBSET Int
    BY <1>1, <2>2
  <2>5. f \in B /\ \A j \in B : f <= j
    <3> HIDE DEF B
    <3> QED
      BY <2>1, <2>3, <2>4, SmallestOf
  <2> HIDE DEF f, In, m
  <2>6. f \in 1 .. i /\ \A k \in f .. i : In(k)
    BY <2>5
  <2>7. f \in F
    <3>1. f \in 1 .. m /\ In(f)
      BY <1>1, <2>6
    <3>2. ASSUME f # 1, In(f - 1) PROVE FALSE
      <4>1. f - 1 \in 1 .. i
        BY <2>6, <3>2
      <4>2. \A k \in f - 1 .. i : k = f - 1 \/ k \in f .. i
        BY <2>6
      <4>3. \A k \in f - 1 .. i : In(k)
        BY <2>6, <3>2, <4>2
      <4>4. f - 1 \in B
        BY <4>1, <4>3
      <4> QED
        BY <2>5, <2>6, <4>4
    <3> QED
      BY <1>1, <3>1, <3>2 DEF F, Firsts, In
  <2>8. PICK n \in 1 .. c : o[n] = f
    BY <1>6, <2>7
  <2>9. t[n][1] = f /\ t[n][2] = Largest(R(f))
    BY <1>9, <2>8
  <2>10. f \in 1 .. m /\ In(f)
    BY <1>1, <2>6
  <2>11. \A k \in R(f) : k <= Largest(R(f))
    BY <1>8, <2>10
  <2>12. i \in R(f)
    BY <1>1, <2>6 DEF R, Run, In, m
  <2>13. ASSUME i + 1 \in 1 .. m, In(i + 1) PROVE i + 1 \in R(f)
    <3>1. \A k \in f .. i + 1 : k = i + 1 \/ k \in f .. i
      BY <2>6
    <3>2. \A k \in f .. i + 1 : In(k)
      BY <2>6, <2>13, <3>1
    <3>3. i + 1 \in f .. m
      BY <2>6, <2>13
    <3> QED
      BY <3>2, <3>3 DEF R, Run, In, m
  <2>14. f <= i
    BY <2>6
  <2> QED
    BY <2>9, <2>11, <2>12, <2>13, <2>14
<1> HIDE DEF In
<1> QED
  BY <1>6, <1>7, <1>9, <1>10, <1>11 DEF m, In

-----------------------------------------------------------------------------
(* The chunks of a section.                                                *)

Chunks(ls) == [text : Seq(Units(ls)), first : Nat, last : Nat, table : BOOLEAN]

LEMMA PageAtTyped ==
    ASSUME NEW ls \in Seq(Lines), NEW offset
    PROVE  Text!PageAt(ls, offset) \in Nat
<1> DEFINE before(l) == IF l = 1 THEN 0 ELSE Len(Text!Joined(ls, Text!Numbers(1, l - 1))) + 1
           passed == {l \in DOMAIN ls : ls[l].kind = "page" /\ before(l) <= offset}
<1>1. Text!PageAt(ls, offset) = IF passed = {} THEN 1 ELSE ls[Text!Max(passed)].page
  BY Zenon DEF Text!PageAt
<1>2. passed \in SUBSET (1 .. Len(ls)) /\ Len(ls) \in Int
  OBVIOUS
<1> HIDE DEF passed
<1>3. passed # {} => Text!Max(passed) \in 1 .. Len(ls)
  <2> DEFINE n == Len(ls)
             a == 1
  <2>1. a \in Int /\ n \in Int /\ passed \in SUBSET (a .. n)
    BY <1>2
  <2> HIDE DEF n, a
  <2>2. passed # {} => Text!Max(passed) \in a .. n
    BY <2>1, LargestBetween
  <2> QED
    BY <2>2 DEF n, a
<1>4. \A l \in 1 .. Len(ls) : ls[l].page \in Nat
  <2>1. \A l \in 1 .. Len(ls) : ls[l] \in Lines
    OBVIOUS
  <2> QED
    BY <2>1 DEF Lines
<1> QED
  BY <1>1, <1>3, <1>4

LEMMA ChunkIs ==
    ASSUME NEW ls, NEW s \in Seq(Units(ls)), NEW page \in Nat, NEW table \in BOOLEAN
    PROVE  Text!Chunk(s, page, table) \in Chunks(ls) /\ Text!Chunk(s, page, table).text = s
BY DEF Text!Chunk, Chunks

\* The page of a piece is that of a marker in it, or that of its section.
FirstPageOf(ls, offset, p) ==
    LET marks == {i \in DOMAIN p : Text!IsMarker(ls, p[i])}
    IN  IF marks # {} THEN ls[p[Text!Min(marks)][1]].page ELSE Text!PageAt(ls, offset)

LEMMA FirstPageTyped ==
    ASSUME NEW ls \in Seq(Lines), NEW offset, NEW p \in Seq(Units(ls))
    PROVE  FirstPageOf(ls, offset, p) \in Nat
<1> DEFINE marks == {i \in DOMAIN p : Text!IsMarker(ls, p[i])}
           first == Text!Min(marks)
<1>1. FirstPageOf(ls, offset, p) = IF marks # {} THEN ls[p[first][1]].page ELSE Text!PageAt(ls, offset)
  BY DEF FirstPageOf
<1>2. CASE marks = {}
  <2> HIDE DEF marks, first
  <2> QED
    BY <1>1, <1>2, PageAtTyped
<1>3. CASE marks # {}
  <2>1. Len(p) \in Nat /\ DOMAIN p = 1 .. Len(p) /\ \A i \in 1 .. Len(p) : p[i] \in Units(ls)
    OBVIOUS
  <2>2. IsFiniteSet(1 .. Len(p)) /\ marks \subseteq 1 .. Len(p)
    BY <2>1, FS_Interval
  <2>3. IsFiniteSet(marks)
    BY <2>2, FS_Subset
  <2>4. marks \in SUBSET Int
    BY <2>1, <2>2
  <2>5. first \in marks
    <3> HIDE DEF marks
    <3>1. Smallest(marks) \in marks
      BY <1>3, <2>3, <2>4, SmallestOf
    <3> QED
      BY <3>1, SameEnds
  <2> HIDE DEF first
  <2>6. p[first] \in Units(ls) /\ p[first] # Text!Space
    BY <2>1, <2>5 DEF Text!IsMarker
  <2>7. p[first][1] \in 1 .. Len(ls)
    BY <2>6, UnitIs
  <2>8. \A l \in 1 .. Len(ls) : ls[l].page \in Nat
    <3>1. \A l \in 1 .. Len(ls) : ls[l] \in Lines
      OBVIOUS
    <3> QED
      BY <3>1 DEF Lines
  <2> HIDE DEF marks
  <2> QED
    BY <1>1, <1>3, <2>7, <2>8
<1> QED
  BY <1>2, <1>3

\* The lines of a part of a section are in what is joined of it.
LEMMA JoinedPart ==
    ASSUME NEW ls \in Seq(Lines), NEW sec \in Seq(1 .. Len(ls)),
           NEW a \in 1 .. Len(sec), NEW b \in 1 .. Len(sec)
    PROVE  /\ Text!Joined(ls, SubSeq(sec, a, b)) \in Seq(Units(ls))
           /\ \A i \in a .. b : \A k \in 1 .. ls[sec[i]].len :
                 <<sec[i], k>> \in Content(Text!Joined(ls, SubSeq(sec, a, b)))
<1> DEFINE t == SubSeq(sec, a, b)
           m == IF a <= b THEN b - a + 1 ELSE 0
           V == 1 .. Len(ls)
<1>1. t \in Seq(V) /\ Len(t) = m /\ \A i \in 1 .. b - a + 1 : t[i] = sec[a + i - 1]
  OBVIOUS
<1> HIDE DEF t
<1>2. /\ Text!Joined(ls, t) \in Seq(Units(ls))
      /\ \A u : u \in Content(Text!Joined(ls, t)) <=>
                   \E i \in 1 .. Len(t) : \E k \in 1 .. ls[t[i]].len : u = <<t[i], k>>
  BY <1>1, JoinedRight
<1>3. ASSUME NEW i \in a .. b, NEW k \in 1 .. ls[sec[i]].len
      PROVE  <<sec[i], k>> \in Content(Text!Joined(ls, t))
  <2> DEFINE j == i - a + 1
  <2>1. j \in 1 .. b - a + 1 /\ a + j - 1 = i /\ j \in 1 .. m
    OBVIOUS
  <2> HIDE DEF j, m
  <2>2. t[j] = sec[i] /\ j \in 1 .. Len(t)
    BY <1>1, <2>1
  <2> QED
    BY <1>2, <2>2
<1> QED
  BY <1>2, <1>3 DEF t

TableOf(ls, sec, offset, b) ==
    LET before == Text!Joined(ls, SubSeq(sec, 1, b[1] - 1))
    IN  Text!Chunk(Text!Strip(Text!Joined(ls, SubSeq(sec, b[1], b[2]))), Text!PageAt(ls, offset + Len(before)), TRUE)

Others(ls, sec) == Text!Taken(sec, {i \in DOMAIN sec : ~Text!InTable(ls, sec, i)})

PiecesOf(ls, sec) == Text!Split(ls, Text!Strip(Text!Joined(ls, Others(ls, sec))))

LEMMA SectionChunksAre ==
    ASSUME NEW ls, NEW sec, NEW offset
    PROVE  Text!SectionChunks(ls, sec, offset) =
               [n \in DOMAIN Text!Tables(ls, sec) |-> TableOf(ls, sec, offset, Text!Tables(ls, sec)[n])]
               \o [n \in DOMAIN PiecesOf(ls, sec) |->
                      Text!Chunk(PiecesOf(ls, sec)[n], FirstPageOf(ls, offset, PiecesOf(ls, sec)[n]), FALSE)]
BY Zenon DEF Text!SectionChunks, TableOf, Others, PiecesOf, FirstPageOf

LEMMA TableChunks ==
    ASSUME NEW ls \in Seq(Lines), NEW sec \in Seq(1 .. Len(ls)), NEW offset,
           NEW n \in 1 .. Len(Text!Tables(ls, sec))
    PROVE  /\ TableOf(ls, sec, offset, Text!Tables(ls, sec)[n]) \in Chunks(ls)
           /\ \A i \in 1 .. Len(sec) : \A k \in 1 .. ls[sec[i]].len :
                 Text!Tables(ls, sec)[n][1] <= i /\ i <= Text!Tables(ls, sec)[n][2] =>
                     <<sec[i], k>> \in Content(TableOf(ls, sec, offset, Text!Tables(ls, sec)[n]).text)
<1> DEFINE b == Text!Tables(ls, sec)[n]
           s == Text!Joined(ls, SubSeq(sec, b[1], b[2]))
           page == Text!PageAt(ls, offset + Len(Text!Joined(ls, SubSeq(sec, 1, b[1] - 1))))
<1>1. Len(ls) \in Nat
  OBVIOUS
<1>2. b[1] \in 1 .. Len(sec) /\ b[2] \in 1 .. Len(sec)
  BY <1>1, TablesRight
<1> HIDE DEF b
<1>3. /\ s \in Seq(Units(ls))
      /\ \A i \in b[1] .. b[2] : \A k \in 1 .. ls[sec[i]].len : <<sec[i], k>> \in Content(s)
  BY <1>2, JoinedPart
<1>4. page \in Nat
  BY PageAtTyped
<1>5. TableOf(ls, sec, offset, b) = Text!Chunk(Text!Strip(s), page, TRUE)
  BY DEF TableOf
<1> HIDE DEF s, page
<1>6. Text!Strip(s) \in Seq(Units(ls)) /\ Content(Text!Strip(s)) = Content(s)
  BY <1>3, StripRight
<1>7. TableOf(ls, sec, offset, b) \in Chunks(ls) /\ TableOf(ls, sec, offset, b).text = Text!Strip(s)
  BY <1>4, <1>5, <1>6, ChunkIs
<1>8. ASSUME NEW i \in 1 .. Len(sec), NEW k \in 1 .. ls[sec[i]].len, b[1] <= i, i <= b[2]
      PROVE  <<sec[i], k>> \in Content(s)
  <2>1. i \in b[1] .. b[2]
    BY <1>2, <1>8
  <2> QED
    BY <1>3, <2>1
<1> QED
  BY <1>6, <1>7, <1>8 DEF b

LEMMA PieceChunks ==
    ASSUME TextTyped, NEW ls \in Seq(Lines), NEW sec \in Seq(1 .. Len(ls)), NEW offset
    PROVE  /\ PiecesOf(ls, sec) \in Seq(Seq(Units(ls)))
           /\ \A n \in 1 .. Len(PiecesOf(ls, sec)) :
                 /\ Text!Chunk(PiecesOf(ls, sec)[n], FirstPageOf(ls, offset, PiecesOf(ls, sec)[n]), FALSE) \in Chunks(ls)
                 /\ Text!Chunk(PiecesOf(ls, sec)[n], FirstPageOf(ls, offset, PiecesOf(ls, sec)[n]), FALSE).text
                        = PiecesOf(ls, sec)[n]
           /\ \A i \in 1 .. Len(sec) : \A k \in 1 .. ls[sec[i]].len : ~Text!InTable(ls, sec, i) =>
                 \E n \in 1 .. Len(PiecesOf(ls, sec)) : <<sec[i], k>> \in Content(PiecesOf(ls, sec)[n])
<1> DEFINE S == {i \in DOMAIN sec : ~Text!InTable(ls, sec, i)}
           rest == Others(ls, sec)
           s == Text!Joined(ls, rest)
           t == Text!Strip(s)
           q == PiecesOf(ls, sec)
           V == 1 .. Len(ls)
<1>1. S \in SUBSET DOMAIN sec /\ \A i \in 1 .. Len(sec) : ~Text!InTable(ls, sec, i) => i \in S
  OBVIOUS
<1>2. rest = Taken(sec, S)
  BY SameTaken DEF Others
<1>3. q = Text!Split(ls, t)
  BY DEF PiecesOf
<1> HIDE DEF S, rest
<1>4. /\ Taken(sec, S) \in Seq(V) /\ Len(Taken(sec, S)) = Cardinality(S)
      /\ \A i \in S : \E k \in 1 .. Cardinality(S) : Taken(sec, S)[k] = sec[i]
  BY <1>1, TakenRight
<1>5. rest \in Seq(V) /\ \A i \in S : \E k \in 1 .. Len(rest) : rest[k] = sec[i]
  BY <1>2, <1>4
<1>6. /\ s \in Seq(Units(ls))
      /\ \A u : u \in Content(s) <=>
                   \E i \in 1 .. Len(rest) : \E k \in 1 .. ls[rest[i]].len : u = <<rest[i], k>>
  BY <1>5, JoinedRight
<1> HIDE DEF s
<1>7. t \in Seq(Units(ls)) /\ Content(t) = Content(s)
  BY <1>6, StripRight
<1> HIDE DEF t, q
<1>8. q \in Seq(Seq(Units(ls))) /\ \A u \in Content(t) : \E n \in 1 .. Len(q) : u \in Content(q[n])
  BY <1>3, <1>7, SplitRight
<1>9. ASSUME NEW i \in 1 .. Len(sec), NEW k \in 1 .. ls[sec[i]].len, ~Text!InTable(ls, sec, i)
      PROVE  \E n \in 1 .. Len(q) : <<sec[i], k>> \in Content(q[n])
  <2>1. PICK j \in 1 .. Len(rest) : rest[j] = sec[i]
    BY <1>1, <1>5, <1>9
  <2>2. <<sec[i], k>> \in Content(s)
    BY <1>6, <2>1
  <2> QED
    BY <1>7, <1>8, <2>2
<1>10. ASSUME NEW n \in 1 .. Len(q)
       PROVE  /\ Text!Chunk(q[n], FirstPageOf(ls, offset, q[n]), FALSE) \in Chunks(ls)
              /\ Text!Chunk(q[n], FirstPageOf(ls, offset, q[n]), FALSE).text = q[n]
  <2>1. q[n] \in Seq(Units(ls))
    BY <1>8
  <2>2. FirstPageOf(ls, offset, q[n]) \in Nat
    BY <2>1, FirstPageTyped
  <2> QED
    BY <2>1, <2>2, ChunkIs
<1> QED
  BY <1>8, <1>9, <1>10 DEF q

\* A chunk c of a text q of chunks holds the unit u.
Holds(q, u) == \E c \in 1 .. Len(q) : u \in Content(q[c].text)
HoldsBoth(q, u, v) == \E c \in 1 .. Len(q) : u \in Content(q[c].text) /\ v \in Content(q[c].text)

LEMMA RowsAreLong ==
    ASSUME NEW ls \in Seq(Lines), NEW l \in 1 .. Len(ls)
    PROVE  /\ ls[l].len \in Nat
           /\ ls[l].kind = "row" => 1 \in 1 .. ls[l].len
           /\ ls[l].len # 0 => ls[l].kind # "blank"
<1>1. ls[l] \in Lines
  OBVIOUS
<1>2. ls[l].len \in Nat /\ (ls[l].kind = "blank" <=> ls[l].len = 0)
  BY <1>1 DEF Lines
<1> QED
  BY <1>2

LEMMA SectionChunksRight ==
    ASSUME TextTyped, NEW ls \in Seq(Lines), NEW sec \in Seq(1 .. Len(ls)), NEW offset
    PROVE  /\ Text!SectionChunks(ls, sec, offset) \in Seq(Chunks(ls))
           /\ \A i \in 1 .. Len(sec) : \A k \in 1 .. ls[sec[i]].len :
                 Holds(Text!SectionChunks(ls, sec, offset), <<sec[i], k>>)
           /\ \A i \in 1 .. Len(sec) :
                 i + 1 \in 1 .. Len(sec) /\ ls[sec[i]].kind = "row" /\ ls[sec[i + 1]].kind = "row" =>
                     HoldsBoth(Text!SectionChunks(ls, sec, offset), <<sec[i], 1>>, <<sec[i + 1], 1>>)
<1> DEFINE blocks == Text!Tables(ls, sec)
           m == Len(blocks)
           pieces == PiecesOf(ls, sec)
           n == Len(pieces)
           tab(j) == TableOf(ls, sec, offset, blocks[j])
           pie(j) == Text!Chunk(pieces[j], FirstPageOf(ls, offset, pieces[j]), FALSE)
           a == [j \in 1 .. m |-> tab(j)]
           b == [j \in 1 .. n |-> pie(j)]
           V == Chunks(ls)
           q == a \o b
           In(i) == Text!InTable(ls, sec, i)
<1>1. Len(ls) \in Nat /\ Len(sec) \in Nat /\ \A i \in 1 .. Len(sec) : sec[i] \in 1 .. Len(ls)
  OBVIOUS
<1>2. /\ m \in Nat /\ DOMAIN blocks = 1 .. m
      /\ \A i \in 1 .. Len(sec) : In(i) =>
            \E j \in 1 .. m : /\ blocks[j][1] <= i /\ i <= blocks[j][2]
                              /\ i + 1 \in 1 .. Len(sec) /\ In(i + 1) => i + 1 <= blocks[j][2]
      /\ \A j \in 1 .. m : blocks[j][1] \in 1 .. Len(sec) /\ blocks[j][2] \in 1 .. Len(sec)
  BY <1>1, TablesRight
<1>3. \A j \in 1 .. m : /\ tab(j) \in V
                        /\ \A i \in 1 .. Len(sec) : \A k \in 1 .. ls[sec[i]].len :
                              blocks[j][1] <= i /\ i <= blocks[j][2] => <<sec[i], k>> \in Content(tab(j).text)
  BY TableChunks
<1>4. /\ n \in Nat /\ DOMAIN pieces = 1 .. n
      /\ \A j \in 1 .. n : pie(j) \in V /\ pie(j).text = pieces[j]
      /\ \A i \in 1 .. Len(sec) : \A k \in 1 .. ls[sec[i]].len : ~In(i) =>
            \E j \in 1 .. n : <<sec[i], k>> \in Content(pieces[j])
  <2>1. pieces \in Seq(Seq(Units(ls)))
    BY PieceChunks
  <2>2. n \in Nat /\ DOMAIN pieces = 1 .. n
    BY <2>1
  <2> QED
    BY <2>2, PieceChunks
<1>5. Text!SectionChunks(ls, sec, offset) = [j \in DOMAIN blocks |-> tab(j)] \o [j \in DOMAIN pieces |-> pie(j)]
  BY SectionChunksAre
<1> HIDE DEF tab, pie, V, m, n, In
<1>6. Text!SectionChunks(ls, sec, offset) = q
  <2> HIDE DEF blocks, pieces
  <2> QED
    BY <1>2, <1>4, <1>5
<1>7. /\ a \in Seq(V) /\ Len(a) = m /\ b \in Seq(V) /\ Len(b) = n
      /\ (\A j \in 1 .. m : a[j] = tab(j)) /\ (\A j \in 1 .. n : b[j] = pie(j))
  BY <1>2, <1>3, <1>4
<1> HIDE DEF a, b
<1>8. /\ q \in Seq(V) /\ Len(q) = m + n /\ (\A j \in 1 .. m : q[j] = tab(j))
      /\ \A j \in 1 .. n : q[m + j] = pie(j)
  <2>1. q = a \o b
    BY DEF a, b
  <2> HIDE DEF q
  <2>2. m \in Nat /\ n \in Nat
    BY <1>2, <1>4
  <2>3. /\ q \in Seq(V) /\ Len(q) = m + n /\ (\A j \in 1 .. m : q[j] = a[j])
        /\ \A j \in 1 .. n : q[m + j] = b[j]
    <3> HIDE DEF m, n
    <3>1. DOMAIN a = 1 .. m /\ DOMAIN b = 1 .. n
      BY <1>7, <2>2
    <3>2. a \o b \in Seq(V) /\ Len(a \o b) = m + n
      BY <1>7, Members
    <3>3. \A j \in 1 .. m : (a \o b)[j] = a[j]
      BY <1>7, <2>2
    <3>4. \A j \in 1 .. n : (a \o b)[m + j] = b[j]
      BY <1>7, <2>2
    <3> QED
      BY <2>1, <3>2, <3>3, <3>4
  <2> QED
    BY <1>7, <2>3
<1> HIDE DEF q, blocks, pieces
<1>9. /\ \A j \in 1 .. m : j \in 1 .. Len(q)
      /\ \A j \in 1 .. n : m + j \in 1 .. Len(q)
  BY <1>2, <1>4, <1>8
<1>10. ASSUME NEW i \in 1 .. Len(sec), NEW k \in 1 .. ls[sec[i]].len
       PROVE  Holds(q, <<sec[i], k>>)
  <2>1. CASE In(i)
    <3>1. PICK j \in 1 .. m : blocks[j][1] <= i /\ i <= blocks[j][2]
      BY <1>2, <2>1
    <3>2. <<sec[i], k>> \in Content(q[j].text)
      BY <1>3, <1>8, <3>1
    <3> QED
      BY <1>9, <3>2 DEF Holds
  <2>2. CASE ~In(i)
    <3>1. PICK j \in 1 .. n : <<sec[i], k>> \in Content(pieces[j])
      BY <1>4, <2>2
    <3>2. q[m + j].text = pieces[j]
      BY <1>4, <1>8
    <3> QED
      BY <1>9, <3>1, <3>2 DEF Holds
  <2> QED
    BY <2>1, <2>2
<1>11. ASSUME NEW i \in 1 .. Len(sec), i + 1 \in 1 .. Len(sec),
              ls[sec[i]].kind = "row", ls[sec[i + 1]].kind = "row"
       PROVE  HoldsBoth(q, <<sec[i], 1>>, <<sec[i + 1], 1>>)
  <2>1. In(i) /\ In(i + 1)
    <3>1. \A k \in 1 .. Len(sec) : k \in 1 .. k /\ k .. k = {k}
      BY <1>1
    <3> QED
      BY <1>11, <3>1 DEF In, Text!InTable
  <2>2. PICK j \in 1 .. m : /\ blocks[j][1] <= i /\ i <= blocks[j][2]
                            /\ i + 1 <= blocks[j][2]
    <3>1. \E j \in 1 .. m : /\ blocks[j][1] <= i /\ i <= blocks[j][2]
                            /\ i + 1 \in 1 .. Len(sec) /\ In(i + 1) => i + 1 <= blocks[j][2]
      BY <1>2, <2>1
    <3> QED
      BY <1>11, <2>1, <3>1, Zenon
  <2>3. blocks[j][1] <= i + 1
    <3>1. blocks[j][1] \in 1 .. Len(sec) /\ i \in Nat
      BY <1>2
    <3>2. blocks[j][1] \in Nat
      BY <1>1, <3>1
    <3> QED
      BY <2>2, <3>1, <3>2
  <2>4. 1 \in 1 .. ls[sec[i]].len /\ 1 \in 1 .. ls[sec[i + 1]].len
    BY <1>1, <1>11, RowsAreLong
  <2>5. <<sec[i], 1>> \in Content(tab(j).text) /\ <<sec[i + 1], 1>> \in Content(tab(j).text)
    BY <1>3, <1>11, <2>2, <2>3, <2>4
  <2> QED
    BY <1>8, <1>9, <2>5 DEF HoldsBoth
<1> QED
  BY <1>6, <1>8, <1>10, <1>11 DEF V

\* The chunks of a document before the small ones are joined.
LEMMA RawRight ==
    ASSUME TextTyped, NEW ls \in Seq(Lines)
    PROVE  /\ Text!RawChunks(ls) \in Seq(Chunks(ls))
           /\ \A l \in 1 .. Len(ls) : \A k \in 1 .. ls[l].len : Holds(Text!RawChunks(ls), <<l, k>>)
           /\ \A l \in 1 .. Len(ls) :
                 l + 1 \in 1 .. Len(ls) /\ ls[l].kind = "row" /\ ls[l + 1].kind = "row" =>
                     HoldsBoth(Text!RawChunks(ls), <<l, 1>>, <<l + 1, 1>>)
<1> DEFINE secs == Text!Sections(ls)
           starts == CHOOSE f : f = [n \in 1 .. Len(secs) + 1 |->
                         IF n = 1 THEN 0 ELSE f[n - 1] + Len(Text!Joined(ls, secs[n - 1])) + 1]
           m == Len(secs)
           bit(n) == Text!SectionChunks(ls, secs[n], starts[n])
           parts == [n \in 1 .. m |-> bit(n)]
           all == Text!FlattenSeq(parts)
           V == Chunks(ls)
<1>1. Text!RawChunks(ls) = Text!FlattenSeq([n \in DOMAIN secs |-> bit(n)])
  BY Zenon DEF Text!RawChunks
<1> HIDE DEF starts, secs
<1>2. /\ secs \in Seq(Seq(1 .. Len(ls)))
      /\ \A l \in 1 .. Len(ls) : ls[l].kind # "blank" =>
            \E n \in 1 .. m : \E k \in 1 .. Len(secs[n]) :
                /\ secs[n][k] = l
                /\ l + 1 \in 1 .. Len(ls) /\ ls[l + 1].kind \notin {"blank", "head"} =>
                      k + 1 \in 1 .. Len(secs[n]) /\ secs[n][k + 1] = l + 1
  BY SectionsRight DEF secs
<1>3. m \in Nat /\ DOMAIN secs = 1 .. m /\ \A n \in 1 .. m : secs[n] \in Seq(1 .. Len(ls))
  <2> DEFINE W == 1 .. Len(ls)
  <2>1. secs \in Seq(Seq(W))
    BY <1>2
  <2> HIDE DEF W
  <2>2. m \in Nat /\ DOMAIN secs = 1 .. m /\ \A n \in 1 .. m : secs[n] \in Seq(W)
    BY <2>1
  <2> QED
    BY <2>2 DEF W
<1>4. Text!RawChunks(ls) = all
  <2> HIDE DEF bit, m
  <2> QED
    BY <1>1, <1>3
<1> HIDE DEF m
<1>5. \A n \in 1 .. m :
         /\ bit(n) \in Seq(V)
         /\ \A i \in 1 .. Len(secs[n]) : \A k \in 1 .. ls[secs[n][i]].len : Holds(bit(n), <<secs[n][i], k>>)
         /\ \A i \in 1 .. Len(secs[n]) :
               i + 1 \in 1 .. Len(secs[n]) /\ ls[secs[n][i]].kind = "row" /\ ls[secs[n][i + 1]].kind = "row" =>
                   HoldsBoth(bit(n), <<secs[n][i], 1>>, <<secs[n][i + 1], 1>>)
  BY <1>3, SectionChunksRight
<1> HIDE DEF bit, V, secs
<1>6. parts \in Seq(Seq(V)) /\ Len(parts) = m /\ \A n \in 1 .. m : parts[n] = bit(n)
  <2>1. m \in Nat /\ \A n \in 1 .. m : bit(n) \in Seq(V)
    BY <1>3, <1>5
  <2> HIDE DEF m
  <2> QED
    BY <2>1
<1> HIDE DEF parts
<1>7. all \in Seq(V) /\ \A x : x \in Text!ToSet(all) <=> \E n \in 1 .. m : x \in Text!ToSet(parts[n])
  BY <1>6, FlattenRight
<1> HIDE DEF all
<1>8. ASSUME NEW n \in 1 .. m, NEW c \in 1 .. Len(bit(n))
      PROVE  \E j \in 1 .. Len(all) : all[j] = bit(n)[c]
  <2>1. bit(n)[c] \in Text!ToSet(bit(n))
    <3>1. DOMAIN bit(n) = 1 .. Len(bit(n))
      BY <1>5
    <3> QED
      BY <3>1 DEF Text!ToSet
  <2>2. bit(n)[c] \in Text!ToSet(all)
    BY <1>6, <1>7, <2>1
  <2>3. DOMAIN all = 1 .. Len(all)
    BY <1>7
  <2> QED
    BY <2>2, <2>3 DEF Text!ToSet
<1>9. \A n \in 1 .. m : \A u, v : /\ Holds(bit(n), u) => Holds(all, u)
                                  /\ HoldsBoth(bit(n), u, v) => HoldsBoth(all, u, v)
  <2> SUFFICES ASSUME NEW n \in 1 .. m, NEW u, NEW v
               PROVE  /\ Holds(bit(n), u) => Holds(all, u)
                      /\ HoldsBoth(bit(n), u, v) => HoldsBoth(all, u, v)
    OBVIOUS
  <2>1. Holds(bit(n), u) => Holds(all, u)
    BY <1>8 DEF Holds
  <2>2. HoldsBoth(bit(n), u, v) => HoldsBoth(all, u, v)
    BY <1>8 DEF HoldsBoth
  <2> QED
    BY <2>1, <2>2
<1>10. ASSUME NEW l \in 1 .. Len(ls), NEW k \in 1 .. ls[l].len
       PROVE  Holds(all, <<l, k>>)
  <2>1. ls[l].kind # "blank"
    <3>1. ls[l].len # 0
      <4>1. ls[l].len \in Nat
        BY RowsAreLong
      <4> QED
        BY <4>1
    <3> QED
      BY <3>1, RowsAreLong
  <2>4. PICK n \in 1 .. m : \E i \in 1 .. Len(secs[n]) : secs[n][i] = l
    BY <1>2, <2>1
  <2>2. PICK i \in 1 .. Len(secs[n]) : secs[n][i] = l
    BY <2>4
  <2>3. Holds(bit(n), <<l, k>>)
    BY <1>5, <2>2
  <2> QED
    BY <1>9, <2>3
<1>11. ASSUME NEW l \in 1 .. Len(ls), l + 1 \in 1 .. Len(ls), ls[l].kind = "row", ls[l + 1].kind = "row"
       PROVE  HoldsBoth(all, <<l, 1>>, <<l + 1, 1>>)
  <2>3. PICK n \in 1 .. m : \E i \in 1 .. Len(secs[n]) :
            secs[n][i] = l /\ i + 1 \in 1 .. Len(secs[n]) /\ secs[n][i + 1] = l + 1
    BY <1>2, <1>11
  <2>1. PICK i \in 1 .. Len(secs[n]) :
            secs[n][i] = l /\ i + 1 \in 1 .. Len(secs[n]) /\ secs[n][i + 1] = l + 1
    BY <2>3
  <2>2. HoldsBoth(bit(n), <<l, 1>>, <<l + 1, 1>>)
    BY <1>5, <1>11, <2>1
  <2> QED
    BY <1>9, <2>2
<1> QED
  BY <1>4, <1>7, <1>10, <1>11 DEF V

-----------------------------------------------------------------------------
(* Small pieces join the chunk before them.                                *)

\* What of a text is no page marker.
Words(ls, s) == {u \in Content(s) : ~Text!IsMarker(ls, u)}

LEMMA UnmarkedRight ==
    ASSUME NEW ls, NEW V, NEW s \in Seq(V)
    PROVE  Text!Unmarked(ls, s) \in Seq(V) /\ Content(Text!Unmarked(ls, s)) = Words(ls, s)
<1> DEFINE S == {i \in DOMAIN s : ~Text!IsMarker(ls, s[i])}
           t == Taken(s, S)
<1>1. S \in SUBSET DOMAIN s /\ \A i : i \in S <=> i \in 1 .. Len(s) /\ ~Text!IsMarker(ls, s[i])
  OBVIOUS
<1>2. Text!Unmarked(ls, s) = Text!Strip(t)
  BY SameTaken DEF Text!Unmarked
<1> HIDE DEF S
<1>3. /\ t \in Seq(V) /\ Len(t) = Cardinality(S)
      /\ \A k \in 1 .. Cardinality(S) : \E i \in S : t[k] = s[i]
      /\ \A i \in S : \E k \in 1 .. Cardinality(S) : t[k] = s[i]
  BY <1>1, TakenRight
<1> HIDE DEF t
<1>4. Text!Strip(t) \in Seq(V) /\ Content(Text!Strip(t)) = Content(t)
  BY <1>3, StripRight
<1>5. \A u : u \in Content(t) <=> u # Text!Space /\ \E k \in 1 .. Len(t) : t[k] = u
  BY <1>3, ContentAt
<1>6. \A u : u \in Content(s) <=> u # Text!Space /\ \E k \in 1 .. Len(s) : s[k] = u
  BY ContentAt
<1>7. \A u : u \in Content(t) <=> u \in Content(s) /\ ~Text!IsMarker(ls, u)
  BY <1>1, <1>3, <1>5, <1>6
<1>8. Content(t) = Words(ls, s)
  BY <1>7 DEF Words
<1> QED
  BY <1>2, <1>4, <1>8

\* A chunk of q has all of X.
KeptIn(q, X) == \E d \in 1 .. Len(q) : X \subseteq Content(q[d].text)

LEMMA MergeStep ==
    ASSUME NEW ls, NEW done \in Seq(Chunks(ls)), NEW c \in Chunks(ls)
    PROVE  /\ Text!Merge(ls, done, c) \in Seq(Chunks(ls))
           /\ \A X : KeptIn(done, X) => KeptIn(Text!Merge(ls, done, c), X)
           /\ Words(ls, c.text) = {} \/ KeptIn(Text!Merge(ls, done, c), Words(ls, c.text))
<1> DEFINE V == Units(ls)
           W == Chunks(ls)
           text1 == Text!Unmarked(ls, c.text)
           n == Len(done)
           out == Text!Merge(ls, done, c)
           larger == [done[n] EXCEPT !.text = @ \o <<Text!Space>> \o text1, !.last = c.last]
           new == [c EXCEPT !.text = text1]
           small == ~c.table /\ Len(text1) < MinChars /\ n > 0
<1>1. c.text \in Seq(V) /\ c.last \in Nat
  BY DEF Chunks
<1>2. text1 \in Seq(V) /\ Content(text1) = Words(ls, c.text)
  BY <1>1, UnmarkedRight
<1>3. out = IF text1 = <<>> THEN done
            ELSE IF small THEN [done EXCEPT ![n] = larger] ELSE Append(done, new)
  BY DEF Text!Merge
<1>4. n \in Nat /\ \A d \in 1 .. n : done[d] \in W
  OBVIOUS
<1> HIDE DEF out, text1
<1>5. CASE text1 = <<>>
  <2>1. Words(ls, c.text) = {}
    BY <1>2, <1>5, ContentOfNone
  <2>2. out = done
    BY <1>3, <1>5
  <2> QED
    BY <2>1, <2>2 DEF out
<1>6. CASE text1 # <<>> /\ small
  <2>1. n \in 1 .. n /\ done[n] \in W
    BY <1>4, <1>6
  <2> DEFINE old == done[n].text
             sp == <<Text!Space>>
             joined == old \o sp \o text1
  <2>2. old \in Seq(V) /\ sp \in Seq(V)
    BY <2>1 DEF Chunks, Units
  <2> HIDE DEF sp
  <2>3. joined \in Seq(V) /\ Content(joined) = Content(old) \cup Content(sp) \cup Content(text1)
    <3> HIDE DEF old, V
    <3>1. old \o sp \in Seq(V) /\ Content(old \o sp) = Content(old) \cup Content(sp)
      BY <2>2, ContentOfBoth
    <3> DEFINE b == old \o sp
    <3>2. b \in Seq(V) /\ Content(b) = Content(old) \cup Content(sp)
      BY <3>1
    <3> HIDE DEF b
    <3>3. b \o text1 \in Seq(V) /\ Content(b \o text1) = Content(b) \cup Content(text1)
      BY <1>2, <3>2, ContentOfBoth
    <3>4. joined = b \o text1
      BY DEF b
    <3> QED
      BY <3>2, <3>3, <3>4
  <2>4. larger \in W /\ larger.text = joined
    <3>1. larger = [done[n] EXCEPT !.text = joined, !.last = c.last]
      BY DEF sp
    <3> HIDE DEF joined, larger
    <3> QED
      BY <1>1, <2>1, <2>3, <3>1 DEF Chunks
  <2> HIDE DEF larger, joined
  <2>5. out = [done EXCEPT ![n] = larger]
    BY <1>3, <1>6
  <2> HIDE DEF W, n, old
  <2>6. /\ out \in Seq(W) /\ Len(out) = n /\ out[n] = larger
        /\ \A d \in 1 .. n : d # n => out[d] = done[d]
    BY <1>4, <2>1, <2>4, <2>5 DEF n
  <2>7. \A d \in 1 .. n : Content(done[d].text) \subseteq Content(out[d].text)
    <3> SUFFICES ASSUME NEW d \in 1 .. n PROVE Content(done[d].text) \subseteq Content(out[d].text)
      OBVIOUS
    <3>1. CASE d = n
      BY <2>3, <2>4, <2>6, <3>1 DEF old
    <3>2. CASE d # n
      BY <2>6, <3>2
    <3> QED
      BY <3>1, <3>2
  <2>8. ASSUME NEW X, KeptIn(done, X) PROVE KeptIn(out, X)
    <3>1. PICK d \in 1 .. n : X \subseteq Content(done[d].text)
      BY <2>8 DEF KeptIn, n
    <3>2. X \subseteq Content(out[d].text) /\ d \in 1 .. Len(out)
      BY <2>6, <2>7, <3>1
    <3> QED
      BY <3>2 DEF KeptIn
  <2>9. KeptIn(out, Words(ls, c.text))
    <3>1. Words(ls, c.text) \subseteq Content(out[n].text) /\ n \in 1 .. Len(out)
      BY <1>2, <2>1, <2>3, <2>4, <2>6
    <3> QED
      BY <3>1 DEF KeptIn
  <2> QED
    BY <2>6, <2>8, <2>9 DEF out, W
<1>7. CASE text1 # <<>> /\ ~small
  <2>1. new \in W /\ new.text = text1
    BY <1>1, <1>2 DEF Chunks
  <2>2. out = Append(done, new)
    BY <1>3, <1>7
  <2> HIDE DEF W, n, new, small
  <2>3. out \in Seq(W) /\ Len(out) = n + 1 /\ out[n + 1] = new /\ \A d \in 1 .. n : out[d] = done[d]
    BY <1>4, <2>1, <2>2 DEF n, W
  <2>4. ASSUME NEW X, KeptIn(done, X) PROVE KeptIn(out, X)
    <3>1. PICK d \in 1 .. n : X \subseteq Content(done[d].text)
      BY <2>4 DEF KeptIn, n
    <3>2. X \subseteq Content(out[d].text) /\ d \in 1 .. Len(out)
      BY <1>4, <2>3, <3>1
    <3> QED
      BY <3>2 DEF KeptIn
  <2>5. KeptIn(out, Words(ls, c.text))
    <3>1. Words(ls, c.text) \subseteq Content(out[n + 1].text) /\ n + 1 \in 1 .. Len(out)
      BY <1>2, <1>4, <2>1, <2>3
    <3> QED
      BY <3>1 DEF KeptIn
  <2> QED
    BY <2>3, <2>4, <2>5 DEF out, W
<1> QED
  BY <1>5, <1>6, <1>7

AreMerges(ls, q, c) ==
    c = [s \in SUBSET DOMAIN q |->
            IF s = {} THEN <<>> ELSE Text!Merge(ls, c[s \ {Text!Max(s)}], q[Text!Max(s)])]

Merges(ls, q) == CHOOSE c : AreMerges(ls, q, c)

LEMMA ChunksFold ==
    ASSUME NEW ls
    PROVE  Text!Chunks(ls) = Merges(ls, Text!RawChunks(ls))[DOMAIN Text!RawChunks(ls)]
BY Zenon DEF Text!Chunks, Text!FoldLeft, Text!MapThenFoldSet, Merges, AreMerges

LEMMA MergesExist ==
    ASSUME NEW ls, NEW q \in Seq(Chunks(ls))
    PROVE  /\ AreMerges(ls, q, Merges(ls, q))
           /\ Merges(ls, q)[1 .. 0] = <<>>
           /\ \A k \in Nat : k < Len(q) =>
                 Merges(ls, q)[1 .. (k + 1)] = Text!Merge(ls, Merges(ls, q)[1 .. k], q[k + 1])
<1> DEFINE n == Len(q)
           W == Chunks(ls)
           V == Seq(W)
           base == <<>>
           h == [i \in 1 .. n |-> [done \in V |-> Text!Merge(ls, done, q[i])]]
<1>1. n \in Nat /\ DOMAIN q = 1 .. n /\ base \in V
  OBVIOUS
<1>2. h \in [1 .. n -> [V -> V]]
  <2>1. \A i \in 1 .. n : q[i] \in W
    OBVIOUS
  <2> HIDE DEF n
  <2> QED
    BY <2>1, MergeStep
<1>3. PICK g \in [SUBSET (1 .. n) -> V] : IsLoop(n, V, base, h, g)
  <2> HIDE DEF h, n, base, V
  <2> QED
    BY <1>1, <1>2, LoopExists
<1> DEFINE k == [s \in SUBSET (1 .. n) |->
                    IF s = {} THEN <<>> ELSE Text!Merge(ls, g[s \ {Text!Max(s)}], q[Text!Max(s)])]
<1> HIDE DEF V
<1>4. ASSUME NEW s \in SUBSET (1 .. n) PROVE g[s] = k[s]
  <2>1. CASE s = {}
    BY <1>3, <2>1 DEF IsLoop
  <2>2. CASE s # {}
    <3>1. Text!Max(s) = Largest(s)
      BY SameEnds
    <3>2. g[s] = Text!Merge(ls, g[s \ {Largest(s)}], q[Largest(s)])
      <4>1. Largest(s) \in 1 .. n /\ g[s \ {Largest(s)}] \in V /\ g[s] = h[Largest(s)][g[s \ {Largest(s)}]]
        BY <1>3, <2>2 DEF IsLoop
      <4> HIDE DEF n, k
      <4> QED
        BY <4>1
    <3> QED
      BY <2>2, <3>1, <3>2
  <2> QED
    BY <2>1, <2>2
<1>5. AreMerges(ls, q, g)
  <2>1. g = k
    <3> HIDE DEF k
    <3>1. k = [s \in SUBSET (1 .. n) |-> k[s]]
      BY DEF k
    <3> QED
      BY <1>3, <1>4, <3>1
  <2> HIDE DEF n
  <2> QED
    BY <1>1, <2>1 DEF AreMerges
<1> DEFINE c == Merges(ls, q)
<1> HIDE DEF n, h, k
<1>6. AreMerges(ls, q, c)
  <2>1. AreMerges(ls, q, Merges(ls, q))
    BY ONLY <1>5, ZenonT(30) DEF Merges
  <2> QED
    BY <2>1
<1> HIDE DEF c
<1>7. \A s \in SUBSET (1 .. n) :
         c[s] = IF s = {} THEN <<>> ELSE Text!Merge(ls, c[s \ {Text!Max(s)}], q[Text!Max(s)])
  BY <1>1, <1>6 DEF AreMerges
<1>8. c[1 .. 0] = <<>>
  <2>1. 1 .. 0 = {} /\ {} \in SUBSET (1 .. n)
    OBVIOUS
  <2> QED
    BY <1>7, <2>1
<1>9. ASSUME NEW i \in Nat, i < n
      PROVE  c[1 .. (i + 1)] = Text!Merge(ls, c[1 .. i], q[i + 1])
  <2>1. 1 .. (i + 1) \in SUBSET (1 .. n)
    BY <1>1, <1>9
  <2>2. Text!Max(1 .. (i + 1)) = i + 1 /\ (1 .. (i + 1)) \ {i + 1} = 1 .. i /\ 1 .. (i + 1) # {}
    BY LargestUpTo, SameEnds
  <2> QED
    BY <1>7, <2>1, <2>2
<1> QED
  BY <1>6, <1>8, <1>9 DEF c, n

\* What a chunk had before the small ones were joined, some chunk has.
LEMMA ChunksRight ==
    ASSUME TextTyped, NEW ls \in Seq(Lines)
    PROVE  /\ Text!Chunks(ls) \in Seq(Chunks(ls))
           /\ \A i \in 1 .. Len(Text!RawChunks(ls)) :
                 \/ Words(ls, Text!RawChunks(ls)[i].text) = {}
                 \/ KeptIn(Text!Chunks(ls), Words(ls, Text!RawChunks(ls)[i].text))
<1> DEFINE q == Text!RawChunks(ls)
           n == Len(q)
           c == Merges(ls, q)
           W == Chunks(ls)
           at(k) == c[1 .. k]
           Good == {k \in Nat : k <= n =>
                       /\ at(k) \in Seq(W)
                       /\ \A i \in 1 .. k : Words(ls, q[i].text) = {} \/ KeptIn(at(k), Words(ls, q[i].text))}
<1>1. q \in Seq(W)
  BY RawRight
<1> HIDE DEF q
<1>2. n \in Nat /\ DOMAIN q = 1 .. n /\ \A i \in 1 .. n : q[i] \in W
  BY <1>1
<1>3. /\ Text!Chunks(ls) = at(n)
      /\ at(0) = <<>> /\ \A k \in Nat : k < n => at(k + 1) = Text!Merge(ls, at(k), q[k + 1])
  BY <1>1, <1>2, MergesExist, ChunksFold DEF q
<1> HIDE DEF n, at, W
<1>4. 0 \in Good
  <2>1. <<>> \in Seq(W) /\ 1 .. 0 = {}
    OBVIOUS
  <2> QED
    BY <1>3, <2>1
<1>5. ASSUME NEW k \in Good PROVE k + 1 \in Good
  <2> SUFFICES ASSUME k + 1 <= n
               PROVE  /\ at(k + 1) \in Seq(W)
                      /\ \A i \in 1 .. (k + 1) :
                            Words(ls, q[i].text) = {} \/ KeptIn(at(k + 1), Words(ls, q[i].text))
    OBVIOUS
  <2>1. k \in Nat /\ k < n /\ k + 1 \in 1 .. n
    BY <1>2
  <2>2. /\ at(k) \in Seq(W)
        /\ \A i \in 1 .. k : Words(ls, q[i].text) = {} \/ KeptIn(at(k), Words(ls, q[i].text))
    <3>1. k <= n
      <4> HIDE DEF Good
      <4> QED
        BY <1>2, <2>1
    <3>2. k \in Good
      BY Zenon
    <3> QED
      BY <3>1, <3>2, Zenon
  <2> HIDE DEF Good
  <2>3. at(k + 1) = Text!Merge(ls, at(k), q[k + 1])
    BY <1>3, <2>1
  <2> DEFINE done == at(k)
             x == q[k + 1]
  <2>4. done \in Seq(W) /\ x \in W
    BY <1>2, <2>1, <2>2
  <2>5. at(k + 1) = Text!Merge(ls, done, x)
    BY <2>3
  <2> HIDE DEF done, x
  <2>6. /\ at(k + 1) \in Seq(W)
        /\ \A X : KeptIn(done, X) => KeptIn(at(k + 1), X)
        /\ Words(ls, x.text) = {} \/ KeptIn(at(k + 1), Words(ls, x.text))
    BY <2>4, <2>5, MergeStep DEF W
  <2>7. ASSUME NEW i \in 1 .. (k + 1)
        PROVE  Words(ls, q[i].text) = {} \/ KeptIn(at(k + 1), Words(ls, q[i].text))
    <3>1. CASE i = k + 1
      BY <2>6, <3>1 DEF x
    <3>2. CASE i # k + 1
      <4>1. i \in 1 .. k
        BY <2>1, <3>2
      <4> QED
        BY <2>2, <2>6, <4>1 DEF done
    <3> QED
      BY <3>1, <3>2
  <2> QED
    BY <2>6, <2>7
<1>6. Good = Nat
  <2> HIDE DEF Good
  <2>1. Good \in SUBSET Nat
    BY DEF Good
  <2> QED
    BY <1>4, <1>5, <2>1, CountUp
<1>7. n \in Good /\ n <= n
  <2> HIDE DEF Good
  <2> QED
    BY <1>2, <1>6
<1> QED
  BY <1>3, <1>7 DEF n, q, W

\* What some chunk has before the small ones are joined, one has afterwards,
\* but for the markers.
LEMMA ChunksKeep ==
    ASSUME TextTyped, NEW ls \in Seq(Lines), NEW X, NEW d \in 1 .. Len(Text!RawChunks(ls)),
           X \subseteq Words(ls, Text!RawChunks(ls)[d].text), X # {}
    PROVE  KeptIn(Text!Chunks(ls), X)
<1> DEFINE Y == Words(ls, Text!RawChunks(ls)[d].text)
           q == Text!Chunks(ls)
<1>1. Y # {} /\ X \subseteq Y
  OBVIOUS
<1>2. Y = {} \/ KeptIn(q, Y)
  BY ChunksRight
<1> HIDE DEF Y, q
<1>3. PICK e \in 1 .. Len(q) : Y \subseteq Content(q[e].text)
  BY <1>1, <1>2 DEF KeptIn
<1>4. X \subseteq Content(q[e].text)
  BY <1>1, <1>3
<1>5. KeptIn(q, X)
  BY <1>4 DEF KeptIn
<1> QED
  BY <1>5 DEF q

LEMMA UnitsKept ==
    ASSUME TextTyped, NEW ls \in Seq(Lines), NEW u \in Content(Text!Flat(ls)), ~Text!IsMarker(ls, u)
    PROVE  \E e \in 1 .. Len(Text!Chunks(ls)) : u \in Content(Text!Chunks(ls)[e].text)
<1> DEFINE raw == Text!RawChunks(ls)
           q == Text!Chunks(ls)
<1>1. PICK l \in 1 .. Len(ls) : \E k \in 1 .. ls[l].len : u = <<l, k>>
  BY FlatRight
<1>2. Holds(raw, u)
  <2>1. PICK k \in 1 .. ls[l].len : u = <<l, k>>
    BY <1>1
  <2>2. Holds(raw, <<l, k>>)
    BY RawRight
  <2> QED
    BY <2>1, <2>2
<1> HIDE DEF raw, q
<1>3. PICK d \in 1 .. Len(raw) : u \in Content(raw[d].text)
  BY <1>2 DEF Holds
<1>4. {u} \subseteq Words(ls, raw[d].text) /\ {u} # {}
  BY <1>3 DEF Words
<1>5. KeptIn(q, {u})
  BY <1>3, <1>4, ChunksKeep DEF raw, q
<1>6. \E e \in 1 .. Len(q) : u \in Content(q[e].text)
  BY <1>5 DEF KeptIn
<1> QED
  BY <1>6 DEF q

LEMMA ChunkedIs ==
    ASSUME NEW q, NEW u
    PROVE  u \in UNION {Text!ToSet(c.text) : c \in Text!ToSet(q)} <=>
               \E e \in DOMAIN q : u \in Text!ToSet(q[e].text)
BY DEF Text!ToSet

LEMMA EverythingIsChunked == ASSUME TextTyped PROVE Text!EverythingChunked
<1> DEFINE ls == Text!FullText
           q == Text!Chunks(ls)
           chunked == UNION {Text!ToSet(c.text) : c \in Text!ToSet(q)}
<1>1. ls \in Seq(Lines)
  BY FullTextTyped
<1> HIDE DEF ls
<1>2. DOMAIN q = 1 .. Len(q)
  BY <1>1, ChunksRight
<1>3. ASSUME NEW u \in Text!ToSet(Text!Flat(ls)), u # Text!Space, ~Text!IsMarker(ls, u)
      PROVE  u \in chunked
  <2>1. u \in Content(Text!Flat(ls))
    BY <1>3 DEF Content
  <2>2. PICK e \in 1 .. Len(q) : u \in Content(q[e].text)
    BY <1>1, <1>3, <2>1, UnitsKept
  <2>3. u \in Text!ToSet(q[e].text) /\ e \in DOMAIN q
    BY <1>2, <2>2 DEF Content
  <2> HIDE DEF q
  <2> QED
    BY <2>3, ChunkedIs
<1> HIDE DEF chunked
<1>4. \A u \in Text!ToSet(Text!Flat(ls)) : u = Text!Space \/ Text!IsMarker(ls, u) \/ u \in chunked
  BY <1>3
<1> QED
  BY <1>4, Zenon DEF Text!EverythingChunked, ls, q, chunked

LEMMA TablesAreWhole == ASSUME TextTyped PROVE Text!TablesWhole
<1> DEFINE ls == Text!FullText
           q == Text!Chunks(ls)
           raw == Text!RawChunks(ls)
           chunks == Text!ToSet(q)
<1>1. ls \in Seq(Lines)
  BY FullTextTyped
<1> HIDE DEF ls
<1>2. DOMAIN q = 1 .. Len(q)
  BY <1>1, ChunksRight
<1>3. ASSUME NEW l \in 1 .. Len(ls) - 1, ls[l].kind = "row", ls[l + 1].kind = "row"
      PROVE  \E c \in chunks : {<<l, 1>>, <<l + 1, 1>>} \subseteq Text!ToSet(c.text)
  <2> DEFINE u == <<l, 1>>
             v == <<l + 1, 1>>
             X == {u, v}
  <2>1. l \in 1 .. Len(ls) /\ l + 1 \in 1 .. Len(ls)
    BY <1>1
  <2>2. HoldsBoth(raw, u, v)
    BY <1>1, <1>3, <2>1, RawRight
  <2>3. ~Text!IsMarker(ls, u) /\ ~Text!IsMarker(ls, v)
    <3>1. u[1] = l /\ v[1] = l + 1
      OBVIOUS
    <3> HIDE DEF u, v
    <3> QED
      BY <1>3, <3>1 DEF Text!IsMarker
  <2> HIDE DEF raw, q, u, v
  <2>4. PICK d \in 1 .. Len(raw) : u \in Content(raw[d].text) /\ v \in Content(raw[d].text)
    BY <2>2 DEF HoldsBoth
  <2>5. X \subseteq Words(ls, raw[d].text) /\ X # {}
    BY <2>3, <2>4 DEF Words
  <2> HIDE DEF X
  <2>6. KeptIn(q, X)
    BY <1>1, <2>4, <2>5, ChunksKeep DEF raw, q
  <2>7. PICK e \in 1 .. Len(q) : X \subseteq Content(q[e].text)
    BY <2>6 DEF KeptIn
  <2>8. X \subseteq Text!ToSet(q[e].text) /\ q[e] \in chunks
    BY <1>2, <2>7 DEF Content, Text!ToSet
  <2> QED
    BY <2>8 DEF X, u, v
<1> HIDE DEF chunks
<1>4. \A l \in 1 .. Len(ls) - 1 :
         ls[l].kind = "row" /\ ls[l + 1].kind = "row" =>
             \E c \in chunks : {<<l, 1>>, <<l + 1, 1>>} \subseteq Text!ToSet(c.text)
  BY <1>3
<1> QED
  BY <1>4, Zenon DEF Text!TablesWhole, ls, q, chunks

-----------------------------------------------------------------------------
(* The sections of an analysis.                                            *)

RestOf(s, done) == SubSeq(s, done + 1, Len(s))

\* Where the section that starts after done ends.
CutTo(s, done) ==
    LET breaks == {i \in 1 .. SectionChars - 1 :
                      RestOf(s, done)[i] = Text!Space /\ RestOf(s, done)[i + 1] = Text!Space}
        far == breaks # {} /\ Text!Max(breaks) - 1 > SectionChars \div 2
    IN  IF far THEN Text!Max(breaks) - 1 ELSE SectionChars

LEMMA CutToRight == ASSUME NEW s, NEW done PROVE SectionChars \in Nat \ {0} /\ CutTo(s, done) \in 1 .. SectionChars
<1> DEFINE breaks == {i \in 1 .. SectionChars - 1 :
                         RestOf(s, done)[i] = Text!Space /\ RestOf(s, done)[i + 1] = Text!Space}
           m == Text!Max(breaks)
           half == SectionChars \div 2
<1>1. SectionChars \in Nat \ {0} /\ half \in Nat
  BY TextAssumption
<1>2. CutTo(s, done) = IF breaks # {} /\ m - 1 > half THEN m - 1 ELSE SectionChars
  BY DEF CutTo
<1>3. breaks \in SUBSET (1 .. SectionChars - 1)
  OBVIOUS
<1>4. 1 \in Int /\ SectionChars - 1 \in Int
  BY <1>1
<1> HIDE DEF breaks
<1>5. breaks # {} => m \in 1 .. SectionChars - 1
  BY <1>3, <1>4, LargestBetween
<1> HIDE DEF m, half
<1> QED
  BY <1>1, <1>2, <1>5

AreParts(s, f) ==
    f = [done \in 0 .. Len(s) |->
            IF Len(RestOf(s, done)) <= SectionChars THEN <<RestOf(s, done)>>
            ELSE <<SubSeq(RestOf(s, done), 1, CutTo(s, done))>> \o f[done + CutTo(s, done)]]

PartsFrom(s) == CHOOSE f : AreParts(s, f)

LEMMA PartsAre == ASSUME NEW s PROVE Text!Parts(s) = PartsFrom(s)[0]
BY Zenon DEF Text!Parts, PartsFrom, AreParts, CutTo, RestOf

\* A text from i on is the piece of length x that is cut off and what is left after it.
Splits(s, i, x) ==
    /\ i + x \in 0 .. Len(s)
    /\ Len(SubSeq(RestOf(s, i), 1, x)) = x
    /\ SubSeq(RestOf(s, i), 1, x) \o RestOf(s, i + x) = RestOf(s, i)

LEMMA RestRight ==
    ASSUME NEW V, NEW s \in Seq(V), NEW done \in 0 .. Len(s)
    PROVE  /\ RestOf(s, done) \in Seq(V) /\ Len(RestOf(s, done)) = Len(s) - done
           /\ \A cut \in 1 .. Len(s) - done :
                 Splits(s, done, cut) /\ SubSeq(RestOf(s, done), 1, cut) \in Seq(V)
<1> DEFINE n == Len(s)
           t == RestOf(s, done)
<1>1. n \in Nat /\ \A i \in 1 .. n : s[i] \in V
  OBVIOUS
<1>2. t \in Seq(V) /\ Len(t) = n - done /\ \A i \in 1 .. n - done : t[i] = s[done + i]
  BY <1>1 DEF RestOf
<1>3. ASSUME NEW cut \in 1 .. n - done
      PROVE  Splits(s, done, cut) /\ SubSeq(t, 1, cut) \in Seq(V)
  <2> DEFINE a == SubSeq(t, 1, cut)
             b == RestOf(s, done + cut)
  <2>1. done + cut \in 0 .. n /\ cut \in Nat /\ done \in Nat
    BY <1>1
  <2>2. b \in Seq(V) /\ Len(b) = n - (done + cut) /\ \A i \in 1 .. n - (done + cut) : b[i] = s[done + cut + i]
    BY <1>1, <2>1 DEF RestOf
  <2> HIDE DEF t, b, n
  <2>3. a \in Seq(V) /\ Len(a) = cut /\ \A i \in 1 .. cut : a[i] = t[i]
    BY <1>2, <2>1
  <2> HIDE DEF a
  <2>4. a \o b \in Seq(V) /\ Len(a \o b) = n - done
    <3>1. a \o b \in Seq(V) /\ Len(a \o b) = Len(a) + Len(b)
      BY <2>2, <2>3, Members
    <3> QED
      BY <1>1, <2>1, <2>2, <2>3, <3>1
  <2>5. ASSUME NEW i \in 1 .. n - done PROVE (a \o b)[i] = t[i]
    <3>1. CASE i <= cut
      <4>1. i \in 1 .. Len(a)
        BY <2>3, <3>1
      <4>2. (a \o b)[i] = a[i]
        BY <2>2, <2>3, <4>1
      <4> QED
        BY <2>3, <4>1, <4>2
    <3>2. CASE i > cut
      <4>1. i - cut \in 1 .. n - (done + cut) /\ done + cut + (i - cut) = done + i
        BY <1>1, <2>1, <3>2
      <4>2. (a \o b)[i] = b[i - cut]
        BY <2>1, <2>2, <2>3, <3>2, <4>1
      <4> QED
        BY <1>2, <2>2, <4>1, <4>2
    <3>3. i <= cut \/ i > cut
      BY <1>1, <2>1
    <3> QED
      BY <3>1, <3>2, <3>3, Zenon
  <2>6. a \o b = t
    BY <1>2, <2>4, <2>5, SeqEqual
  <2> QED
    BY <2>1, <2>3, <2>6, Zenon DEF a, b, n, t, Splits
<1> QED
  BY <1>2, <1>3 DEF n, t

LEMMA PartsExist ==
    ASSUME NEW V, NEW s \in Seq(V)
    PROVE  /\ \A i \in 0 .. Len(s) : PartsFrom(s)[i] \in Seq(Seq(V))
           /\ \A i \in 0 .. Len(s) :
                 PartsFrom(s)[i] = IF Len(s) - i <= SectionChars THEN <<RestOf(s, i)>>
                                   ELSE <<SubSeq(RestOf(s, i), 1, CutTo(s, i))>> \o PartsFrom(s)[i + CutTo(s, i)]
<1> DEFINE n == Len(s)
           more == {i \in 0 .. n : ~(n - i <= SectionChars)}
           cut(i) == CutTo(s, i)
           next == [i \in more |-> i + cut(i)]
           piece(i) == SubSeq(RestOf(s, i), 1, cut(i))
           end(i) == RestOf(s, i)
           W == Seq(Seq(V))
           h == [i \in more |-> [q \in W |-> <<piece(i)>> \o q]]
           last == [i \in (0 .. n) \ more |-> <<end(i)>>]
<1>1. n \in Nat /\ SectionChars \in Nat \ {0} /\ \A i \in 0 .. n : cut(i) \in 1 .. SectionChars
  BY CutToRight
<1>2. \A i \in 0 .. n : end(i) \in Seq(V) /\ Len(end(i)) = n - i
  BY RestRight
<1>3. ASSUME NEW i \in more
      PROVE  i \in 0 .. n /\ cut(i) \in 1 .. n - i /\ i + cut(i) \in 0 .. n /\ i + cut(i) > i /\ piece(i) \in Seq(V)
  <2>1. i \in 0 .. n /\ ~(n - i <= SectionChars)
    OBVIOUS
  <2>2. cut(i) \in 1 .. SectionChars
    BY <1>1, <2>1
  <2> HIDE DEF cut, more
  <2>3. cut(i) \in 1 .. n - i /\ i + cut(i) > i
    BY <1>1, <2>1, <2>2
  <2>4. Splits(s, i, cut(i)) /\ piece(i) \in Seq(V)
    BY <2>1, <2>3, RestRight
  <2> QED
    BY <2>1, <2>3, <2>4 DEF Splits
<1>4. more \in SUBSET (0 .. n)
  OBVIOUS
<1> HIDE DEF n, more, cut, piece, end
<1>5. next \in [more -> 0 .. n] /\ \A i \in more : next[i] > i
  BY <1>3
<1>6. h \in [more -> [W -> W]]
  <2> SUFFICES ASSUME NEW i \in more, NEW q \in Seq(Seq(V)) PROVE <<piece(i)>> \o q \in Seq(Seq(V))
    OBVIOUS
  <2>1. <<piece(i)>> \in Seq(Seq(V))
    BY <1>3
  <2> QED
    BY <2>1
<1>7. last \in [(0 .. n) \ more -> W]
  <2>1. \A i \in 0 .. n : <<end(i)>> \in Seq(Seq(V))
    BY <1>2
  <2> QED
    BY <2>1
<1> HIDE DEF W
<1>8. PICK g \in [0 .. n -> W] : GoesUp(n, more, next, h, last, g)
  <2> HIDE DEF next, h, last
  <2> QED
    BY <1>1, <1>4, <1>5, <1>6, <1>7, GoesUpExists
<1> DEFINE k(i) == IF n - i <= SectionChars THEN <<end(i)>> ELSE <<piece(i)>> \o g[i + cut(i)]
           z(i) == IF Len(end(i)) <= SectionChars THEN <<end(i)>> ELSE <<piece(i)>> \o g[i + cut(i)]
<1>9. ASSUME NEW i \in 0 .. n PROVE g[i] = k(i)
  <2>1. g[i] = IF i \in more THEN h[i][g[next[i]]] ELSE last[i]
    <3> HIDE DEF h, next, last
    <3> QED
      BY <1>8 DEF GoesUp
  <2>2. CASE i \in more
    <3>1. ~(n - i <= SectionChars) /\ i + cut(i) \in 0 .. n /\ next[i] = i + cut(i)
      <4>1. ~(n - i <= SectionChars)
        BY <2>2 DEF more
      <4> QED
        BY <1>3, <2>2, <4>1
    <3>2. g[next[i]] \in W /\ g[next[i]] = g[i + cut(i)]
      <4> HIDE DEF h, last
      <4> QED
        BY <1>8, <3>1
    <3>3. h[i][g[next[i]]] = <<piece(i)>> \o g[next[i]]
      <4> HIDE DEF last, next
      <4> QED
        BY <2>2, <3>2
    <3> HIDE DEF h, last
    <3> QED
      BY <2>1, <2>2, <3>1, <3>2, <3>3
  <2>3. CASE i \notin more
    <3>1. n - i <= SectionChars
      BY <2>3 DEF more
    <3>2. last[i] = <<end(i)>>
      BY <2>3
    <3> HIDE DEF h, last
    <3> QED
      BY <2>1, <2>3, <3>1, <3>2
  <2> QED
    BY <2>2, <2>3
<1>10. g = [i \in 0 .. n |-> z(i)]
  <2>1. \A i \in 0 .. n : g[i] = z(i)
    BY <1>2, <1>9
  <2>2. g = [i \in 0 .. n |-> g[i]]
    BY <1>8
  <2> HIDE DEF z
  <2> QED
    BY <2>1, <2>2
<1>11. AreParts(s, g)
  <2>1. g = [done \in 0 .. Len(s) |->
            IF Len(RestOf(s, done)) <= SectionChars THEN <<RestOf(s, done)>>
            ELSE <<SubSeq(RestOf(s, done), 1, CutTo(s, done))>> \o g[done + CutTo(s, done)]]
    BY <1>10, Zenon DEF n, cut, piece, end
  <2> QED
    BY <2>1, Zenon DEF AreParts
<1> DEFINE r == PartsFrom(s)
<1>12. AreParts(s, r)
  BY <1>11, Zenon DEF PartsFrom
<1> HIDE DEF r
<1>13. \A i \in 0 .. n : r[i] = IF n - i <= SectionChars THEN <<end(i)>> ELSE <<piece(i)>> \o r[i + cut(i)]
  <2>1. r = [done \in 0 .. Len(s) |->
            IF Len(RestOf(s, done)) <= SectionChars THEN <<RestOf(s, done)>>
            ELSE <<SubSeq(RestOf(s, done), 1, CutTo(s, done))>> \o r[done + CutTo(s, done)]]
    BY <1>12, Zenon DEF AreParts
  <2>2. \A i \in 0 .. n : r[i] = IF Len(end(i)) <= SectionChars THEN <<end(i)>> ELSE <<piece(i)>> \o r[i + cut(i)]
    BY <2>1 DEF n, end, piece, cut
  <2>3. \A i \in 0 .. n : Len(end(i)) = n - i
    BY <1>2
  <2> QED
    BY <2>2, <2>3, Zenon
<1> DEFINE Good == {i \in 0 .. n : r[i] \in Seq(Seq(V))}
<1>14. ASSUME NEW i \in 0 .. n, \A j \in 0 .. n : j > i => j \in Good
       PROVE  i \in Good
  <2> SUFFICES r[i] \in Seq(Seq(V))
    OBVIOUS
  <2>1. CASE n - i <= SectionChars
    <3>1. r[i] = <<end(i)>> /\ end(i) \in Seq(V)
      BY <1>2, <1>13, <2>1
    <3> QED
      BY <3>1
  <2>2. CASE ~(n - i <= SectionChars)
    <3>1. i \in more
      BY <2>2 DEF more
    <3> DEFINE j == i + cut(i)
    <3>2. j > i /\ j \in 0 .. n
      BY <1>3, <3>1
    <3>3. r[i] = <<piece(i)>> \o r[j]
      BY <1>13, <2>2
    <3> HIDE DEF j
    <3>4. r[j] \in Seq(Seq(V)) /\ <<piece(i)>> \in Seq(Seq(V))
      BY <1>3, <1>14, <3>1, <3>2
    <3> HIDE DEF Good
    <3> QED
      BY <3>3, <3>4
  <2> QED
    BY <2>1, <2>2
<1>15. Good = 0 .. n
  <2> HIDE DEF Good
  <2>1. Good \in SUBSET (0 .. n)
    BY DEF Good
  <2> QED
    BY <1>1, <1>14, <2>1, CountDown
<1>16. \A i \in 0 .. n : r[i] \in Seq(Seq(V))
  BY <1>15
<1> QED
  BY <1>13, <1>16 DEF n, r, end, piece, cut

\* The sections are the text, and each fits.
LEMMA PartsRight ==
    ASSUME NEW V, NEW s \in Seq(V)
    PROVE  /\ Text!FlattenSeq(Text!Parts(s)) = s
           /\ \A p \in Text!ToSet(Text!Parts(s)) : Len(p) <= SectionChars
<1> DEFINE n == Len(s)
           r == PartsFrom(s)
           AllRead(i) == /\ Text!FlattenSeq(r[i]) = RestOf(s, i)
                         /\ \A p \in Text!ToSet(r[i]) : Len(p) <= SectionChars
           Good == {i \in 0 .. n : AllRead(i)}
<1>1. n \in Nat /\ SectionChars \in Nat \ {0} /\ \A i \in 0 .. n : CutTo(s, i) \in 1 .. SectionChars
  BY CutToRight
<1>2. /\ \A i \in 0 .. n : r[i] \in Seq(Seq(V))
      /\ \A i \in 0 .. n :
            r[i] = IF n - i <= SectionChars THEN <<RestOf(s, i)>>
                   ELSE <<SubSeq(RestOf(s, i), 1, CutTo(s, i))>> \o r[i + CutTo(s, i)]
  BY PartsExist
<1> HIDE DEF r
<1>3. ASSUME NEW i \in 0 .. n, \A j \in 0 .. n : j > i => j \in Good
      PROVE  i \in Good
  <2> SUFFICES AllRead(i)
    OBVIOUS
  <2> DEFINE t == RestOf(s, i)
  <2>1. t \in Seq(V) /\ Len(t) = n - i
    BY RestRight
  <2>2. CASE n - i <= SectionChars
    <3>1. r[i] = <<t>>
      BY <1>2, <2>2
    <3> HIDE DEF t, n
    <3>2. Text!FlattenSeq(<<t>>) = t
      <4>1. <<>> \in Seq(Seq(V))
        OBVIOUS
      <4> QED
        BY <2>1, <4>1, FlattenFirst
    <3>3. \A p \in Text!ToSet(<<t>>) : p = t
      BY DEF Text!ToSet
    <3> HIDE DEF Good
    <3> QED
      BY <2>1, <2>2, <3>1, <3>2, <3>3 DEF t
  <2>3. CASE ~(n - i <= SectionChars)
    <3> DEFINE cut == CutTo(s, i)
               a == SubSeq(t, 1, cut)
               j == i + cut
               b == r[j]
               one == <<a>>
    <3>1. cut \in 1 .. SectionChars /\ cut \in 1 .. n - i /\ j > i
      <4>1. cut \in 1 .. SectionChars
        BY <1>1
      <4> HIDE DEF cut
      <4> QED
        BY <1>1, <2>3, <4>1
    <3>2. j \in 0 .. n /\ a \in Seq(V) /\ Len(a) = cut /\ a \o RestOf(s, j) = t
      <4>1. \A x \in 1 .. n - i : Splits(s, i, x) /\ SubSeq(t, 1, x) \in Seq(V)
        BY RestRight
      <4>2. Splits(s, i, cut) /\ SubSeq(t, 1, cut) \in Seq(V)
        <5> HIDE DEF cut, n
        <5> QED
          BY ONLY <3>1, <4>1
      <4> QED
        BY <4>2 DEF Splits
    <3>3. r[i] = one \o b
      BY <1>2, <2>3
    <3>4. b \in Seq(Seq(V)) /\ AllRead(j)
      BY <1>2, <1>3, <3>1, <3>2
    <3> HIDE DEF a, Good
    <3>5. one \in Seq(Seq(V)) /\ \A p \in Text!ToSet(one) : p = a
      <4>1. one \in Seq(Seq(V))
        BY <3>2
      <4>2. \A p \in Text!ToSet(one) : p = a
        BY DEF Text!ToSet
      <4> QED
        BY <4>1, <4>2
    <3> HIDE DEF b, j, t, cut
    <3>6. Text!FlattenSeq(one \o b) = a \o Text!FlattenSeq(b)
      <4>1. Text!FlattenSeq(<<a>> \o b) = a \o Text!FlattenSeq(b)
        BY <3>2, <3>4, FlattenFirst
      <4> QED
        BY <4>1, Zenon
    <3> HIDE DEF one
    <3>7. Text!ToSet(one \o b) = Text!ToSet(one) \cup Text!ToSet(b)
      BY <3>4, <3>5, Members
    <3>8. Text!FlattenSeq(b) = RestOf(s, j) /\ \A p \in Text!ToSet(b) : Len(p) <= SectionChars
      BY <3>4 DEF b
    <3>9. Text!FlattenSeq(r[i]) = t
      BY <3>2, <3>3, <3>6, <3>8
    <3>10. Len(a) <= SectionChars
      BY <1>1, <3>1, <3>2
    <3>11. \A p \in Text!ToSet(r[i]) : Len(p) <= SectionChars
      BY <3>3, <3>5, <3>7, <3>8, <3>10
    <3> QED
      BY <3>9, <3>11 DEF t
  <2> QED
    BY <2>2, <2>3
<1>4. Good = 0 .. n
  <2> HIDE DEF Good
  <2>1. Good \in SUBSET (0 .. n)
    BY DEF Good
  <2> QED
    BY <1>1, <1>3, <2>1, CountDown
<1>5. AllRead(0)
  <2>1. 0 \in 0 .. n
    BY <1>1
  <2> HIDE DEF AllRead
  <2> QED
    BY <1>4, <2>1
<1>6. RestOf(s, 0) = s
  BY SubSeqFull DEF RestOf
<1> QED
  BY <1>5, <1>6, PartsAre DEF r

LEMMA IsAnalysedOnce == ASSUME TextTyped PROVE Text!AnalysedOnce
<1> DEFINE s == Text!Flat(Text!FullText)
<1>1. s \in Seq(Units(Text!FullText))
  BY FullTextTyped, FlatRight
<1> HIDE DEF s
<1>2. /\ Text!FlattenSeq(Text!Parts(s)) = s
      /\ \A p \in Text!ToSet(Text!Parts(s)) : Len(p) <= SectionChars
  BY <1>1, PartsRight
<1> QED
  BY <1>2 DEF Text!AnalysedOnce, s

LEMMA TextIsKept == ASSUME TextTyped PROVE Text!TextKept
BY EverythingIsChunked, TablesAreWhole, IsAnalysedOnce DEF Text!TextKept

LEMMA TextStep ==
    /\ Text!Init => TextTyped
    /\ TextTyped /\ [Text!Next]_(Text!vars) => TextTyped'
<1>1. Text!Init => TextTyped
  BY DEF Text!Init, TextTyped
<1>2. ASSUME TextTyped, [Text!Next]_(Text!vars) PROVE TextTyped'
  <2>1. CASE UNCHANGED Text!vars
    BY <1>2, <2>1 DEF Text!vars, TextTyped
  <2>2. ASSUME NEW body \in Bodies, NEW rows \in TableRows, NEW broken \in BOOLEAN, Text!Page(body, rows, broken)
        PROVE  TextTyped'
    <3> DEFINE new == [body |-> body, rows |-> rows, broken |-> broken]
    <3>1. new \in DocPages
      BY DEF DocPages
    <3>2. pages' = Append(pages, new) /\ size' = size /\ overlap' = overlap
      BY <2>2 DEF Text!Page
    <3> HIDE DEF new
    <3>3. pages \in Seq(DocPages) /\ size \in Sizes /\ overlap \in Overlaps
      BY <1>2 DEF TextTyped
    <3>4. pages' \in Seq(DocPages)
      BY <3>1, <3>2, <3>3
    <3> QED
      BY <3>2, <3>3, <3>4 DEF TextTyped
  <2> QED
    BY <1>2, <2>1, <2>2 DEF Text!Next
<1> QED
  BY <1>1, <1>2

(* Nothing is left out.  Up to the cap, every candle is fetched once,      *)
(* whatever the pages and the gaps in them, and the walk-forward windows   *)
(* follow one another, each tested after what it was trained on; and every *)
(* line of a document, whatever the document and the sizes, is in a chunk  *)
(* that is stored, its tables undivided, and is analysed once, in order,   *)
(* in sections that fit (fetch_candles, walk_forward_stat_arb,             *)
(* prepare_chunks, analyse_document).                                      *)
THEOREM NothingIsLeftOut == Spec => []NothingLeftOut
<1>1. Test!Init /\ Text!Init => ResearchTyped /\ TextTyped
  BY TextStep DEF Test!Init, ResearchTyped
<1>2. ResearchTyped /\ [Test!Next]_(Test!vars) => ResearchTyped'
  BY ResearchStep
<1>3. TextTyped /\ [Text!Next]_(Text!vars) => TextTyped'
  BY TextStep
<1>4. ResearchTyped /\ TextTyped => NothingLeftOut
  <2> SUFFICES ASSUME ResearchTyped, TextTyped PROVE Test!CandlesUsedOnce /\ Text!TextKept
    BY DEF NothingLeftOut
  <2>1. Moments \subseteq Sound
    BY ResearchAssumption DEF Sound, Candles
  <2>2. market \in Seq(Sound)
    BY <2>1 DEF ResearchTyped
  <2> QED
    BY <2>2, CandlesAreUsedOnce, TextIsKept
<1>5. Spec => Test!Spec /\ Text!Spec
  BY PartsRun
<1> QED
  BY <1>1, <1>2, <1>3, <1>4, <1>5, PTL DEF Test!Spec, Text!Spec
=============================================================================
