----------------------------- MODULE FoldProofs -----------------------------
(***************************************************************************)
(* Facts about folds, sums and finite sets of numbers, which the proofs    *)
(* about what the journal, the scans and the backtests compute rest on.    *)
(*                                                                         *)
(* The library's induction theorems cannot be instantiated here: an        *)
(* induction is over a set of numbers or of subsets, Good, of those for    *)
(* which a statement holds.                                                *)
(***************************************************************************)
EXTENDS Places, Sequences, FiniteSetTheorems, WellFoundedInduction, TLAPS

-----------------------------------------------------------------------------
(* Induction.                                                              *)

LEMMA LeastNumber ==
    ASSUME NEW B \in SUBSET Nat, B # {}
    PROVE  \E n \in B : \A m \in B : n <= m
<1>1. PICK n \in B : \A m \in B : <<m, n>> \notin OpToRel(<, Nat)
  BY NatLessThanWellFounded, WFMin
<1>2. \A m \in B : ~(m < n)
  BY <1>1 DEF OpToRel
<1> QED
  BY <1>2

LEMMA CountUp ==
    ASSUME NEW Good \in SUBSET Nat, 0 \in Good, \A n \in Good : n + 1 \in Good
    PROVE  Good = Nat
<1> DEFINE B == Nat \ Good
<1> SUFFICES ASSUME B # {} PROVE FALSE
  OBVIOUS
<1>1. PICK n \in B : \A m \in B : n <= m
  <2>1. B \in SUBSET Nat
    OBVIOUS
  <2> HIDE DEF B
  <2> QED
    BY <2>1, LeastNumber
<1>2. n - 1 \in Nat /\ n - 1 \notin B
  BY <1>1
<1>3. (n - 1) + 1 \in Good
  BY <1>2
<1> QED
  BY <1>1, <1>3

\* Some member of a set.
One(s) == CHOOSE x \in s : TRUE

LEMMA OneIn == ASSUME NEW s, s # {} PROVE One(s) \in s
BY DEF One

LEMMA OneLess ==
    ASSUME NEW s, IsFiniteSet(s), NEW x \in s
    PROVE  /\ IsFiniteSet(s \ {x})
           /\ Cardinality(s) \in Nat /\ Cardinality(s \ {x}) \in Nat
           /\ Cardinality(s) = Cardinality(s \ {x}) + 1
<1>1. IsFiniteSet(s \ {x}) /\ Cardinality(s \ {x}) = Cardinality(s) - 1
  BY FS_RemoveElement
<1> QED
  BY <1>1, FS_CardinalityType

LEMMA SetInduction ==
    ASSUME NEW S, IsFiniteSet(S), NEW Good \in SUBSET SUBSET S, {} \in Good,
           \A t \in Good : \A x \in S \ t : t \cup {x} \in Good
    PROVE  Good = SUBSET S
<1> DEFINE Bad == (SUBSET S) \ Good
           B == {Cardinality(t) : t \in Bad}
<1>1. \A t \in SUBSET S : IsFiniteSet(t) /\ Cardinality(t) \in Nat
  BY FS_Subset, FS_CardinalityType
<1> SUFFICES ASSUME Bad # {} PROVE FALSE
  OBVIOUS
<1>2. B \in SUBSET Nat /\ B # {}
  BY <1>1
<1>3. PICK t \in Bad : \A u \in Bad : Cardinality(t) <= Cardinality(u)
  <2>1. PICK n \in B : \A m \in B : n <= m
    <3> HIDE DEF B
    <3> QED
      BY <1>2, LeastNumber
  <2> QED
    BY <2>1
<1>4. PICK x : x \in t
  BY <1>3
<1>5. t \ {x} \in SUBSET S /\ t = (t \ {x}) \cup {x} /\ x \in S \ (t \ {x})
  BY <1>3, <1>4
<1>6. Cardinality(t) = Cardinality(t \ {x}) + 1 /\ Cardinality(t \ {x}) \in Nat
  <2>1. IsFiniteSet(t)
    BY <1>1, <1>3
  <2> QED
    BY <1>4, <2>1, OneLess
<1>7. t \ {x} \in Good
  <2> SUFFICES ASSUME t \ {x} \in Bad PROVE FALSE
    BY <1>5
  <2>1. Cardinality(t) <= Cardinality(t \ {x})
    BY <1>3
  <2> QED
    BY <1>6, <2>1
<1>8. t \in Good
  BY <1>5, <1>7
<1> QED
  BY <1>3, <1>8

-----------------------------------------------------------------------------
(* A fold exists: base for the empty set, and for another the step h[s]    *)
(* from what the set without pick[s] comes to.                             *)

IsFold(S, base, pick, h, g) ==
    \A s \in SUBSET S : g[s] = IF s = {} THEN base ELSE h[s][g[s \ {pick[s]}]]

LEMMA FoldExists ==
    ASSUME NEW S, IsFiniteSet(S), NEW V, NEW base \in V, NEW h \in [SUBSET S -> [V -> V]],
           NEW pick, \A s \in SUBSET S : s # {} => pick[s] \in s
    PROVE  \E g \in [SUBSET S -> V] : IsFold(S, base, pick, h, g)
<1> DEFINE L(n) == {s \in SUBSET S : Cardinality(s) <= n}
           Layer(n, g) == \A s \in L(n) : g[s] = IF s = {} THEN base ELSE h[s][g[s \ {pick[s]}]]
           Good == {n \in Nat : \E g \in [SUBSET S -> V] : Layer(n, g)}
<1>1. \A s \in SUBSET S : IsFiniteSet(s) /\ Cardinality(s) \in Nat
  BY FS_Subset, FS_CardinalityType
<1>2. 0 \in Good
  <2>1. \A s \in L(0) : s = {}
    BY <1>1, FS_EmptySet
  <2> DEFINE g == [s \in SUBSET S |-> base]
  <2>2. g \in [SUBSET S -> V] /\ Layer(0, g)
    BY <2>1
  <2> HIDE DEF g, Layer
  <2> QED
    BY <2>2
<1>3. ASSUME NEW n \in Good PROVE n + 1 \in Good
  <2>1. PICK g \in [SUBSET S -> V] : Layer(n, g)
    OBVIOUS
  <2>2. n \in Nat /\ L(n) \subseteq L(n + 1)
    BY <1>1
  <2> DEFINE k == [s \in SUBSET S |-> IF s = {} THEN base ELSE h[s][g[s \ {pick[s]}]]]
  <2>3. k \in [SUBSET S -> V]
    <3> SUFFICES ASSUME NEW s \in SUBSET S PROVE (IF s = {} THEN base ELSE h[s][g[s \ {pick[s]}]]) \in V
      OBVIOUS
    <3>1. s \ {pick[s]} \in SUBSET S
      OBVIOUS
    <3>2. g[s \ {pick[s]}] \in V
      BY <3>1
    <3> QED
      BY <3>2
  <2>4. ASSUME NEW s \in L(n) PROVE k[s] = g[s]
    BY <2>1, <2>4
  <2>5. ASSUME NEW s \in L(n + 1), s # {} PROVE s \ {pick[s]} \in L(n)
    <3>1. s \in SUBSET S /\ pick[s] \in s /\ IsFiniteSet(s)
      BY <1>1, <2>5
    <3>2. Cardinality(s) = Cardinality(s \ {pick[s]}) + 1 /\ Cardinality(s \ {pick[s]}) \in Nat
      BY <3>1, OneLess
    <3> QED
      BY <2>2, <3>1, <3>2
  <2>6. Layer(n + 1, k)
    <3> SUFFICES ASSUME NEW s \in L(n + 1) PROVE k[s] = IF s = {} THEN base ELSE h[s][k[s \ {pick[s]}]]
      OBVIOUS
    <3>1. k[s] = IF s = {} THEN base ELSE h[s][g[s \ {pick[s]}]]
      OBVIOUS
    <3>2. s # {} => k[s \ {pick[s]}] = g[s \ {pick[s]}]
      <4> HIDE DEF k, L
      <4> QED
        BY <2>4, <2>5
    <3> HIDE DEF k
    <3> QED
      BY <3>1, <3>2
  <2> HIDE DEF k, Layer
  <2> QED
    BY <2>2, <2>3, <2>6
<1>4. Good \in SUBSET Nat
  OBVIOUS
<1>5. Good = Nat
  <2> HIDE DEF Good
  <2> QED
    BY <1>2, <1>3, <1>4, CountUp
<1>6. PICK g \in [SUBSET S -> V] : Layer(Cardinality(S), g)
  <2> HIDE DEF Layer
  <2>1. Cardinality(S) \in Good
    BY <1>5, FS_CardinalityType
  <2> QED
    BY <2>1
<1>7. L(Cardinality(S)) = SUBSET S
  BY FS_Subset
<1> QED
  BY <1>6, <1>7 DEF IsFold

-----------------------------------------------------------------------------
(* Sums, as the community modules define them.                             *)

AreSums(S, f, sum) ==
    sum = [s \in SUBSET S |-> IF s = {} THEN 0 ELSE f[One(s)] + sum[s \ {One(s)}]]

Sums(S, f) == CHOOSE sum : AreSums(S, f, sum)

\* The sum of f over s.
SumIn(f, s) == Sums(s, f)[s]

\* The sum of f over every subset of S, one member after the other.
SumsTo(S, f, sum) ==
    \A s \in SUBSET S : sum[s] = IF s = {} THEN 0 ELSE f[One(s)] + sum[s \ {One(s)}]

LEMMA SumsAgree ==
    ASSUME NEW S, IsFiniteSet(S), NEW f, NEW sum, NEW g, SumsTo(S, f, sum), SumsTo(S, f, g)
    PROVE  \A s \in SUBSET S : sum[s] = g[s]
<1> DEFINE N == {n \in Nat : \A s \in SUBSET S : Cardinality(s) <= n => sum[s] = g[s]}
<1>1. \A s \in SUBSET S : IsFiniteSet(s) /\ Cardinality(s) \in Nat
  BY FS_Subset, FS_CardinalityType
<1>2. 0 \in N
  <2>1. \A s \in SUBSET S : Cardinality(s) <= 0 => s = {}
    BY <1>1, FS_EmptySet
  <2> QED
    BY <2>1 DEF SumsTo
<1>3. ASSUME NEW n \in N PROVE n + 1 \in N
  <2> SUFFICES ASSUME NEW s \in SUBSET S, Cardinality(s) <= n + 1 PROVE sum[s] = g[s]
    OBVIOUS
  <2>1. CASE s = {}
    BY <2>1 DEF SumsTo
  <2>2. CASE s # {}
    <3>1. One(s) \in s /\ s \ {One(s)} \in SUBSET S
      BY <2>2, OneIn
    <3>2. Cardinality(s) = Cardinality(s \ {One(s)}) + 1 /\ Cardinality(s \ {One(s)}) \in Nat
      BY <1>1, <3>1, OneLess
    <3>3. sum[s \ {One(s)}] = g[s \ {One(s)}]
      BY <3>1, <3>2
    <3> QED
      BY <2>2, <3>3 DEF SumsTo
  <2> QED
    BY <2>1, <2>2
<1>4. N \in SUBSET Nat
  OBVIOUS
<1>5. N = Nat
  <2> HIDE DEF N
  <2> QED
    BY <1>2, <1>3, <1>4, CountUp
<1> QED
  BY <1>1, <1>5

LEMMA SumsExist ==
    ASSUME NEW S, IsFiniteSet(S), NEW f, \A x \in S : f[x] \in Int
    PROVE  SumsTo(S, f, Sums(S, f)) /\ \A s \in SUBSET S : Sums(S, f)[s] \in Int
<1> DEFINE pick == [s \in SUBSET S |-> One(s)]
           h == [s \in SUBSET S |-> [v \in Int |-> IF s = {} THEN 0 ELSE f[One(s)] + v]]
<1>1. \A s \in SUBSET S : s # {} => pick[s] \in s
  BY OneIn
<1>2. h \in [SUBSET S -> [Int -> Int]]
  <2> SUFFICES ASSUME NEW s \in SUBSET S, NEW v \in Int PROVE (IF s = {} THEN 0 ELSE f[One(s)] + v) \in Int
    OBVIOUS
  <2>1. s # {} => f[One(s)] \in Int
    BY OneIn
  <2> QED
    BY <2>1
<1>3. PICK g \in [SUBSET S -> Int] : IsFold(S, 0, pick, h, g)
  <2>1. 0 \in Int
    OBVIOUS
  <2> HIDE DEF h, pick
  <2> QED
    BY <1>1, <1>2, <2>1, FoldExists
<1>4. ASSUME NEW s \in SUBSET S PROVE g[s] = IF s = {} THEN 0 ELSE f[One(s)] + g[s \ {One(s)}]
  <2>1. g[s] = IF s = {} THEN 0 ELSE h[s][g[s \ {pick[s]}]]
    BY <1>3 DEF IsFold
  <2>2. s \ {One(s)} \in SUBSET S
    OBVIOUS
  <2>3. g[s \ {One(s)}] \in Int
    BY <1>3, <2>2
  <2> QED
    BY <2>1, <2>3
<1>5. AreSums(S, f, g)
  <2> DEFINE k == [s \in SUBSET S |-> IF s = {} THEN 0 ELSE f[One(s)] + g[s \ {One(s)}]]
  <2>1. g = k
    BY <1>3, <1>4
  <2> QED
    BY <2>1 DEF AreSums
<1> HIDE DEF h, pick
<1>6. AreSums(S, f, Sums(S, f))
  BY <1>5, Zenon DEF Sums
<1>7. SumsTo(S, f, Sums(S, f)) /\ SumsTo(S, f, g)
  BY <1>4, <1>6 DEF SumsTo, AreSums
<1>8. \A s \in SUBSET S : Sums(S, f)[s] = g[s]
  BY <1>7, SumsAgree
<1> QED
  BY <1>3, <1>7, <1>8

\* The sum over a part of a set does not depend on the rest, nor on f elsewhere.
LEMMA SumsPart ==
    ASSUME NEW S, IsFiniteSet(S), NEW f, \A x \in S : f[x] \in Int, NEW t \in SUBSET S,
           NEW g, \A x \in t : g[x] = f[x]
    PROVE  Sums(S, f)[t] = SumIn(g, t)
<1>1. IsFiniteSet(t) /\ \A x \in t : g[x] \in Int
  BY FS_Subset
<1>2. SumsTo(t, g, Sums(t, g))
  BY <1>1, SumsExist
<1>3. SumsTo(t, g, Sums(S, f))
  <2>1. SumsTo(S, f, Sums(S, f))
    BY SumsExist
  <2> SUFFICES ASSUME NEW s \in SUBSET t
               PROVE  Sums(S, f)[s] = IF s = {} THEN 0 ELSE g[One(s)] + Sums(S, f)[s \ {One(s)}]
    BY DEF SumsTo
  <2>2. s # {} => g[One(s)] = f[One(s)]
    BY OneIn
  <2>3. s \in SUBSET S
    OBVIOUS
  <2> QED
    BY <2>1, <2>2, <2>3 DEF SumsTo
<1>4. Sums(S, f)[t] = Sums(t, g)[t]
  BY <1>1, <1>2, <1>3, SumsAgree
<1> QED
  BY <1>4 DEF SumIn

LEMMA SumSame ==
    ASSUME NEW s, IsFiniteSet(s), NEW f, NEW g, \A x \in s : f[x] \in Int /\ g[x] = f[x]
    PROVE  SumIn(f, s) = SumIn(g, s)
<1>1. Sums(s, f)[s] = SumIn(g, s)
  BY SumsPart
<1> QED
  BY <1>1 DEF SumIn

LEMMA SumInt ==
    ASSUME NEW s, IsFiniteSet(s), NEW f, \A x \in s : f[x] \in Int
    PROVE  SumIn(f, s) \in Int
BY SumsExist DEF SumIn

LEMMA SumEmpty == ASSUME NEW f PROVE SumIn(f, {}) = 0
<1>1. SumsTo({}, f, Sums({}, f))
  BY FS_EmptySet, SumsExist
<1> QED
  BY <1>1 DEF SumsTo, SumIn

\* The order in which the members are taken does not matter.
LEMMA SumTake ==
    ASSUME NEW S, IsFiniteSet(S), NEW f, \A x \in S : f[x] \in Int, NEW x \in S
    PROVE  SumIn(f, S) = f[x] + SumIn(f, S \ {x})
<1> DEFINE sum == Sums(S, f)
           N == {n \in Nat : \A s \in SUBSET S : Cardinality(s) <= n => \A y \in s : sum[s] = f[y] + sum[s \ {y}]}
<1>1. \A s \in SUBSET S : IsFiniteSet(s) /\ Cardinality(s) \in Nat
  BY FS_Subset, FS_CardinalityType
<1>2. SumsTo(S, f, sum) /\ \A s \in SUBSET S : sum[s] \in Int
  BY SumsExist
<1> HIDE DEF sum
<1>3. 0 \in N
  <2>1. \A s \in SUBSET S : Cardinality(s) <= 0 => s = {}
    BY <1>1, FS_EmptySet
  <2> QED
    BY <2>1
<1>4. ASSUME NEW n \in N PROVE n + 1 \in N
  <2> SUFFICES ASSUME NEW s \in SUBSET S, Cardinality(s) <= n + 1, NEW y \in s PROVE sum[s] = f[y] + sum[s \ {y}]
    OBVIOUS
  <2>1. One(s) \in s /\ sum[s] = f[One(s)] + sum[s \ {One(s)}]
    BY <1>2, OneIn DEF SumsTo
  <2>2. CASE y = One(s)
    BY <2>1, <2>2
  <2>3. CASE y # One(s)
    <3> DEFINE r == s \ {One(s)}
               t == s \ {y}
               b == (s \ {One(s)}) \ {y}
    <3>1. /\ r \in SUBSET S /\ t \in SUBSET S /\ b \in SUBSET S
          /\ y \in r /\ One(s) \in t /\ b = t \ {One(s)} /\ b = r \ {y}
      BY <2>1, <2>3
    <3>2. Cardinality(r) <= n /\ Cardinality(t) <= n
      <4>1. Cardinality(s) = Cardinality(r) + 1 /\ Cardinality(r) \in Nat
        BY <1>1, <2>1, OneLess
      <4>2. Cardinality(s) = Cardinality(t) + 1 /\ Cardinality(t) \in Nat
        BY <1>1, OneLess
      <4> QED
        BY <4>1, <4>2
    <3> HIDE DEF r, t, b
    <3>3. sum[r] = f[y] + sum[b] /\ sum[t] = f[One(s)] + sum[b]
      BY <3>1, <3>2
    <3>4. sum[b] \in Int /\ sum[t] \in Int /\ f[y] \in Int /\ f[One(s)] \in Int
      BY <1>2, <2>1, <3>1
    <3>5. sum[s] = f[One(s)] + sum[r]
      BY <2>1 DEF r
    <3>6. sum[s] = f[y] + sum[t]
      BY <3>3, <3>4, <3>5
    <3> QED
      BY <3>6 DEF t
  <2> QED
    BY <2>2, <2>3
<1>5. N \in SUBSET Nat
  OBVIOUS
<1>6. N = Nat
  <2> HIDE DEF N
  <2> QED
    BY <1>3, <1>4, <1>5, CountUp
<1>7. sum[S] = f[x] + sum[S \ {x}]
  <2>1. Cardinality(S) \in N /\ Cardinality(S) <= Cardinality(S)
    BY <1>1, <1>6
  <2> QED
    BY <2>1
<1>8. sum[S \ {x}] = SumIn(f, S \ {x})
  <2>1. S \ {x} \in SUBSET S
    OBVIOUS
  <2> QED
    BY <2>1, SumsPart DEF sum
<1> QED
  BY <1>7, <1>8 DEF SumIn, sum

LEMMA SumAdd ==
    ASSUME NEW s, IsFiniteSet(s), NEW x, x \notin s, NEW f, \A y \in s \cup {x} : f[y] \in Int
    PROVE  SumIn(f, s \cup {x}) = f[x] + SumIn(f, s)
<1>1. IsFiniteSet(s \cup {x}) /\ (s \cup {x}) \ {x} = s
  BY FS_AddElement
<1>2. SumIn(f, s \cup {x}) = f[x] + SumIn(f, (s \cup {x}) \ {x})
  BY <1>1, SumTake
<1> QED
  BY <1>1, <1>2

LEMMA SumUnion ==
    ASSUME NEW s, IsFiniteSet(s), NEW t, IsFiniteSet(t), s \cap t = {},
           NEW f, \A x \in s \cup t : f[x] \in Int
    PROVE  SumIn(f, s \cup t) = SumIn(f, s) + SumIn(f, t)
<1> DEFINE Good == {u \in SUBSET t : SumIn(f, s \cup u) = SumIn(f, s) + SumIn(f, u)}
<1>0. SumIn(f, s) \in Int
  BY SumInt
<1>1. {} \in Good
  BY <1>0, SumEmpty
<1>2. ASSUME NEW u \in Good, NEW x \in t \ u PROVE u \cup {x} \in Good
  <2>1. /\ IsFiniteSet(u) /\ IsFiniteSet(s \cup u) /\ x \notin s \cup u /\ x \notin u
        /\ SumIn(f, s \cup u) = SumIn(f, s) + SumIn(f, u)
    BY FS_Subset, FS_Union
  <2>2. \A y \in (s \cup u) \cup {x} : f[y] \in Int
    OBVIOUS
  <2>3. SumIn(f, (s \cup u) \cup {x}) = f[x] + SumIn(f, s \cup u)
    BY <2>1, <2>2, SumAdd
  <2>4. SumIn(f, u \cup {x}) = f[x] + SumIn(f, u)
    BY <2>1, <2>2, SumAdd
  <2>5. SumIn(f, u) \in Int /\ f[x] \in Int
    BY <2>1, SumInt
  <2>6. s \cup (u \cup {x}) = (s \cup u) \cup {x}
    OBVIOUS
  <2>7. SumIn(f, s \cup (u \cup {x})) = f[x] + SumIn(f, s \cup u)
    BY <2>3, <2>6, Zenon
  <2>8. SumIn(f, s \cup (u \cup {x})) = SumIn(f, s) + SumIn(f, u \cup {x})
    BY <1>0, <2>1, <2>4, <2>5, <2>7
  <2> QED
    BY <2>8
<1>3. Good \in SUBSET SUBSET t
  OBVIOUS
<1>4. Good = SUBSET t
  <2> HIDE DEF Good
  <2> QED
    BY <1>1, <1>2, <1>3, SetInduction
<1>5. t \in Good
  BY <1>4
<1> QED
  BY <1>5

LEMMA SumZero ==
    ASSUME NEW s, IsFiniteSet(s), NEW f, \A x \in s : f[x] = 0
    PROVE  SumIn(f, s) = 0
<1> DEFINE Good == {u \in SUBSET s : SumIn(f, u) = 0}
<1>1. {} \in Good
  BY SumEmpty
<1>2. ASSUME NEW u \in Good, NEW x \in s \ u PROVE u \cup {x} \in Good
  <2>1. IsFiniteSet(u) /\ x \notin u /\ \A y \in u \cup {x} : f[y] \in Int
    BY FS_Subset
  <2>2. SumIn(f, u \cup {x}) = f[x] + SumIn(f, u)
    BY <2>1, SumAdd
  <2> QED
    BY <2>2
<1>3. Good \in SUBSET SUBSET s
  OBVIOUS
<1>4. Good = SUBSET s
  <2> HIDE DEF Good
  <2> QED
    BY <1>1, <1>2, <1>3, SetInduction
<1>5. s \in Good
  BY <1>4
<1> QED
  BY <1>5

\* A sum taken group by group, e[k] being what group k comes to.
LEMMA SumGroups ==
    ASSUME NEW K, IsFiniteSet(K), NEW G, \A k \in K : IsFiniteSet(G[k]),
           \A j, k \in K : j # k => G[j] \cap G[k] = {},
           NEW f, \A k \in K : \A x \in G[k] : f[x] \in Int,
           NEW e, \A k \in K : e[k] = SumIn(f, G[k])
    PROVE  SumIn(e, K) = SumIn(f, UNION {G[k] : k \in K})
<1> DEFINE All(u) == UNION {G[k] : k \in u}
           Good == {u \in SUBSET K : IsFiniteSet(All(u)) /\ SumIn(e, u) = SumIn(f, All(u))}
<1>0. \A k \in K : e[k] \in Int
  BY SumInt
<1>1. {} \in Good
  <2>1. All({}) = {}
    OBVIOUS
  <2> QED
    BY <2>1, SumEmpty, FS_EmptySet
<1>2. ASSUME NEW u \in Good, NEW x \in K \ u PROVE u \cup {x} \in Good
  <2>1. /\ IsFiniteSet(u) /\ IsFiniteSet(All(u)) /\ IsFiniteSet(G[x])
        /\ SumIn(e, u) = SumIn(f, All(u)) /\ x \notin u /\ u \in SUBSET K
    BY FS_Subset
  <2>2. All(u \cup {x}) = All(u) \cup G[x]
    OBVIOUS
  <2>3. All(u) \cap G[x] = {}
    BY <2>1
  <2>4. \A y \in All(u) \cup G[x] : f[y] \in Int
    BY <2>1
  <2> HIDE DEF All
  <2>5. SumIn(f, All(u) \cup G[x]) = SumIn(f, All(u)) + SumIn(f, G[x])
    BY <2>1, <2>3, <2>4, SumUnion
  <2>6. SumIn(e, u \cup {x}) = e[x] + SumIn(e, u)
    BY <1>0, <2>1, SumAdd
  <2>7. SumIn(f, All(u)) \in Int /\ e[x] \in Int /\ e[x] = SumIn(f, G[x])
    BY <1>0, <2>1, <2>4, SumInt
  <2>8. IsFiniteSet(All(u) \cup G[x])
    BY <2>1, FS_Union
  <2>9. SumIn(e, u \cup {x}) = SumIn(f, All(u) \cup G[x])
    BY <2>1, <2>5, <2>6, <2>7
  <2> QED
    BY <2>1, <2>2, <2>8, <2>9
<1>3. Good \in SUBSET SUBSET K
  OBVIOUS
<1>4. Good = SUBSET K
  <2> HIDE DEF Good
  <2> QED
    BY <1>1, <1>2, <1>3, SetInduction
<1>5. K \in Good
  BY <1>4
<1> QED
  BY <1>5

\* One value changes.
LEMMA SumExcept ==
    ASSUME NEW s, IsFiniteSet(s), NEW f, \A x \in s : f[x] \in Int, NEW y \in s, NEW d \in Int,
           NEW g, g[y] = f[y] + d, \A x \in s \ {y} : g[x] = f[x]
    PROVE  SumIn(g, s) = SumIn(f, s) + d
<1>1. IsFiniteSet(s \ {y}) /\ \A x \in s : g[x] \in Int
  BY FS_RemoveElement
<1>2. SumIn(f, s) = f[y] + SumIn(f, s \ {y})
  BY SumTake
<1>3. SumIn(g, s) = g[y] + SumIn(g, s \ {y})
  BY <1>1, SumTake
<1>4. SumIn(f, s \ {y}) = SumIn(g, s \ {y})
  BY <1>1, SumSame
<1>5. SumIn(f, s \ {y}) \in Int /\ f[y] \in Int
  BY <1>1, SumInt
<1> QED
  BY <1>2, <1>3, <1>4, <1>5

\* A sum along a sequence.
LEMMA SumFirst == ASSUME NEW f PROVE SumIn(f, 1 .. 0) = 0
<1>1. 1 .. 0 = {}
  OBVIOUS
<1> QED
  BY <1>1, SumEmpty, Zenon

LEMMA SumNext ==
    ASSUME NEW n \in Nat, NEW f, \A i \in 1 .. n : f[i] \in Int, NEW k \in Nat, k < n
    PROVE  /\ SumIn(f, 1 .. k) \in Int /\ f[k + 1] \in Int
           /\ SumIn(f, 1 .. (k + 1)) = SumIn(f, 1 .. k) + f[k + 1]
<1>1. IsFiniteSet(1 .. k) /\ k + 1 \notin 1 .. k /\ k + 1 \in 1 .. n
  BY FS_Interval
<1>2. \A i \in (1 .. k) \cup {k + 1} : f[i] \in Int
  OBVIOUS
<1>3. 1 .. (k + 1) = (1 .. k) \cup {k + 1}
  OBVIOUS
<1>4. SumIn(f, (1 .. k) \cup {k + 1}) = f[k + 1] + SumIn(f, 1 .. k)
  BY <1>1, <1>2, SumAdd
<1>5. SumIn(f, 1 .. k) \in Int /\ f[k + 1] \in Int
  BY <1>1, <1>2, SumInt
<1>6. SumIn(f, 1 .. (k + 1)) = f[k + 1] + SumIn(f, 1 .. k)
  BY <1>3, <1>4, Zenon
<1> QED
  BY <1>5, <1>6

-----------------------------------------------------------------------------
(* Finite sets of numbers.                                                 *)

LEMMA HasLargest ==
    ASSUME NEW S \in SUBSET Int, IsFiniteSet(S), S # {}
    PROVE  \E x \in S : \A y \in S : y <= x
<1> DEFINE Good == {t \in SUBSET S : t = {} \/ \E x \in t : \A y \in t : y <= x}
<1>1. {} \in Good
  OBVIOUS
<1>2. ASSUME NEW t \in Good, NEW z \in S \ t PROVE t \cup {z} \in Good
  <2>1. CASE t = {}
    BY <2>1
  <2>2. CASE t # {}
    <3>1. PICK x \in t : \A y \in t : y <= x
      BY <2>2
    <3>2. x \in Int /\ z \in Int /\ \A y \in t : y \in Int
      OBVIOUS
    <3>3. CASE z <= x
      <4>1. x \in t \cup {z} /\ \A y \in t \cup {z} : y <= x
        BY <3>1, <3>3
      <4> QED
        BY <4>1
    <3>4. CASE x < z
      <4>1. z \in t \cup {z} /\ \A y \in t \cup {z} : y <= z
        BY <3>1, <3>2, <3>4
      <4> QED
        BY <4>1
    <3> QED
      BY <3>2, <3>3, <3>4
  <2> QED
    BY <2>1, <2>2
<1>3. Good \in SUBSET SUBSET S
  OBVIOUS
<1>4. Good = SUBSET S
  <2> HIDE DEF Good
  <2> QED
    BY <1>1, <1>2, <1>3, SetInduction
<1>5. S \in Good
  BY <1>4
<1> QED
  BY <1>5

LEMMA HasSmallest ==
    ASSUME NEW S \in SUBSET Int, IsFiniteSet(S), S # {}
    PROVE  \E x \in S : \A y \in S : x <= y
<1> DEFINE T == {-x : x \in S}
           f == [x \in S |-> -x]
<1>1. T \in SUBSET Int /\ IsFiniteSet(T) /\ T # {}
  <2>1. f \in Surjection(S, T)
    BY DEF Surjection
  <2>2. T \in SUBSET Int /\ T # {}
    OBVIOUS
  <2> HIDE DEF T, f
  <2> QED
    BY <2>1, <2>2, FS_Surjection
<1>2. PICK z \in T : \A y \in T : y <= z
  <2> HIDE DEF T
  <2> QED
    BY <1>1, HasLargest
<1>3. PICK x \in S : z = -x
  BY <1>2
<1>4. \A y \in S : -y <= -x /\ x \in Int /\ y \in Int
  BY <1>2, <1>3
<1>5. \A y \in S : x <= y
  <2> HIDE DEF T
  <2> QED
    BY <1>4
<1> QED
  BY <1>5

\* A finite set of numbers in ascending order.
Ascends(q) == \A j, k \in DOMAIN q : j < k => q[j] < q[k]

LEMMA CanBeSorted ==
    ASSUME NEW S \in SUBSET Int, IsFiniteSet(S)
    PROVE  \E q \in [1 .. Cardinality(S) -> S] : Ascends(q)
<1> DEFINE Good == {n \in Nat : \A D \in SUBSET S : Cardinality(D) = n => \E q \in [1 .. n -> D] : Ascends(q)}
<1>1. \A D \in SUBSET S : IsFiniteSet(D) /\ Cardinality(D) \in Nat
  BY FS_Subset, FS_CardinalityType
<1>2. 0 \in Good
  <2> SUFFICES ASSUME NEW D \in SUBSET S PROVE \E q \in [1 .. 0 -> D] : Ascends(q)
    OBVIOUS
  <2> DEFINE q == [i \in 1 .. 0 |-> 0]
  <2>1. q \in [1 .. 0 -> D] /\ Ascends(q)
    BY DEF Ascends
  <2> QED
    BY <2>1
<1>3. ASSUME NEW n \in Good PROVE n + 1 \in Good
  <2> SUFFICES ASSUME NEW D \in SUBSET S, Cardinality(D) = n + 1 PROVE \E q \in [1 .. (n + 1) -> D] : Ascends(q)
    OBVIOUS
  <2>1. n \in Nat /\ IsFiniteSet(D) /\ D # {} /\ D \in SUBSET Int
    BY <1>1, FS_EmptySet
  <2>2. PICK x \in D : \A y \in D : y <= x
    BY <2>1, HasLargest
  <2>3. D \ {x} \in SUBSET S /\ Cardinality(D \ {x}) = n
    <3>1. Cardinality(D) = Cardinality(D \ {x}) + 1 /\ Cardinality(D \ {x}) \in Nat
      BY <2>1, OneLess
    <3> QED
      BY <2>1, <3>1
  <2>4. PICK q \in [1 .. n -> D \ {x}] : Ascends(q)
    BY <2>3
  <2> DEFINE r == [i \in 1 .. (n + 1) |-> IF i = n + 1 THEN x ELSE q[i]]
  <2>5. \A i \in 1 .. (n + 1) : i = n + 1 \/ i \in 1 .. n
    BY <2>1
  <2>6. r \in [1 .. (n + 1) -> D]
    BY <2>5
  <2>7. ASSUME NEW j \in 1 .. (n + 1), NEW k \in 1 .. (n + 1), j < k PROVE r[j] < r[k]
    <3>1. j \in 1 .. n /\ r[j] = q[j] /\ q[j] \in D \ {x}
      BY <2>1, <2>7
    <3>2. CASE k = n + 1
      <4>1. r[k] = x /\ q[j] <= x /\ q[j] # x /\ q[j] \in Int /\ x \in Int
        BY <2>1, <2>2, <3>1, <3>2
      <4> HIDE DEF r
      <4> QED
        BY <3>1, <4>1
    <3>3. CASE k \in 1 .. n
      <4>1. r[k] = q[k]
        BY <2>1, <3>3
      <4>2. q[j] < q[k]
        BY <2>4, <2>7, <3>1, <3>3 DEF Ascends
      <4> HIDE DEF r
      <4> QED
        BY <3>1, <4>1, <4>2
    <3> QED
      BY <2>5, <3>2, <3>3
  <2>8. Ascends(r)
    <3>1. DOMAIN r = 1 .. (n + 1)
      OBVIOUS
    <3> HIDE DEF r
    <3> QED
      BY <2>7, <3>1 DEF Ascends
  <2> HIDE DEF r
  <2> QED
    BY <2>6, <2>8
<1>4. Good \in SUBSET Nat
  OBVIOUS
<1>5. Good = Nat
  <2> HIDE DEF Good
  <2> QED
    BY <1>2, <1>3, <1>4, CountUp
<1>6. S \in SUBSET S /\ Cardinality(S) \in Good
  BY <1>1, <1>5
<1> QED
  BY <1>6

\* So sorted, each member stands at one place.
LEMMA SortedPlaces ==
    ASSUME NEW S \in SUBSET Int, IsFiniteSet(S), NEW q \in [1 .. Cardinality(S) -> S], Ascends(q)
    PROVE  /\ \A j, k \in 1 .. Cardinality(S) : j # k => q[j] # q[k]
           /\ \A x \in S : \E k \in 1 .. Cardinality(S) : q[k] = x
<1> DEFINE n == Cardinality(S)
<1>1. n \in Nat /\ \A k \in 1 .. n : q[k] \in Int
  BY FS_CardinalityType
<1>2. \A j, k \in 1 .. n : j # k => q[j] # q[k]
  <2> SUFFICES ASSUME NEW j \in 1 .. n, NEW k \in 1 .. n, j # k PROVE q[j] # q[k]
    OBVIOUS
  <2>1. j < k \/ k < j
    BY <1>1
  <2>2. q[j] < q[k] \/ q[k] < q[j]
    BY <2>1 DEF Ascends
  <2>3. q[j] \in Int /\ q[k] \in Int
    BY <1>1
  <2> QED
    BY <2>2, <2>3
<1>3. IsFiniteSet(1 .. n) /\ Cardinality(1 .. n) = n
  <2>1. \A m \in Nat : IsFiniteSet(1 .. m) /\ Cardinality(1 .. m) = m
    BY FS_Interval
  <2> HIDE DEF n
  <2> QED
    BY <1>1, <2>1
<1>4. q \in Injection(1 .. n, S)
  BY <1>2 DEF Injection, IsInjective
<1>5. q \in Surjection(1 .. n, S)
  BY <1>3, <1>4, FS_Injection
<1> QED
  BY <1>2, <1>5 DEF Surjection


-----------------------------------------------------------------------------
(* Largest members.                                                        *)

\* The largest member of a set of numbers.
Largest(S) == CHOOSE x \in S : \A y \in S : x >= y

LEMMA LargestIs ==
    ASSUME NEW S \in SUBSET Int, NEW x \in S, \A y \in S : y <= x
    PROVE  Largest(S) = x
<1>1. \A y \in S : x >= y
  OBVIOUS
<1>2. Largest(S) \in S /\ \A y \in S : Largest(S) >= y
  BY <1>1 DEF Largest
<1>3. Largest(S) <= x /\ Largest(S) >= x /\ Largest(S) \in Int /\ x \in Int
  BY <1>2
<1> HIDE DEF Largest
<1> QED
  BY <1>3

LEMMA LargestOf ==
    ASSUME NEW S \in SUBSET Int, IsFiniteSet(S), S # {}
    PROVE  Largest(S) \in S /\ \A y \in S : y <= Largest(S)
<1>1. PICK x \in S : \A y \in S : y <= x
  BY HasLargest
<1> QED
  BY <1>1, LargestIs

LEMMA LargestUpTo ==
    ASSUME NEW k \in Nat
    PROVE  /\ Largest(1 .. (k + 1)) = k + 1
           /\ (1 .. (k + 1)) \ {k + 1} = 1 .. k
           /\ 1 .. (k + 1) # {}
<1>1. 1 .. (k + 1) \in SUBSET Int /\ k + 1 \in 1 .. (k + 1) /\ \A y \in 1 .. (k + 1) : y <= k + 1
  OBVIOUS
<1>2. Largest(1 .. (k + 1)) = k + 1
  BY <1>1, LargestIs
<1> QED
  BY <1>2

-----------------------------------------------------------------------------
(* A loop over 1 .. n as the library folds it, from the last to the first.  *)

IsLoop(n, V, base, h, g) ==
    \A s \in SUBSET (1 .. n) :
        /\ s = {} => g[s] = base
        /\ s # {} => /\ Largest(s) \in 1 .. n
                     /\ g[s \ {Largest(s)}] \in V
                     /\ g[s] = h[Largest(s)][g[s \ {Largest(s)}]]

LEMMA LoopExists ==
    ASSUME NEW n \in Nat, NEW V, NEW base \in V, NEW h \in [1 .. n -> [V -> V]]
    PROVE  \E g \in [SUBSET (1 .. n) -> V] : IsLoop(n, V, base, h, g)
<1> DEFINE S == 1 .. n
           pick == [s \in SUBSET S |-> Largest(s)]
           steps == [s \in SUBSET S |-> [v \in V |-> IF s = {} THEN v ELSE h[Largest(s)][v]]]
<1>1. IsFiniteSet(S)
  BY FS_Interval
<1>2. \A s \in SUBSET S : s # {} => Largest(s) \in s
  <2> SUFFICES ASSUME NEW s \in SUBSET S, s # {} PROVE Largest(s) \in s
    OBVIOUS
  <2>1. s \in SUBSET Int /\ IsFiniteSet(s)
    <3>1. IsFiniteSet(s)
      <4> HIDE DEF S
      <4> QED
        BY <1>1, FS_Subset
    <3> QED
      BY <3>1
  <2> QED
    BY <2>1, LargestOf
<1>3. steps \in [SUBSET S -> [V -> V]]
  <2> SUFFICES ASSUME NEW s \in SUBSET S, NEW v \in V PROVE (IF s = {} THEN v ELSE h[Largest(s)][v]) \in V
    OBVIOUS
  <2>1. s # {} => Largest(s) \in 1 .. n
    BY <1>2
  <2> QED
    BY <2>1
<1>4. PICK g \in [SUBSET S -> V] : IsFold(S, base, pick, steps, g)
  <2>1. \A s \in SUBSET S : s # {} => pick[s] \in s
    BY <1>2
  <2> HIDE DEF S, pick, steps
  <2> QED
    BY <1>1, <1>3, <2>1, FoldExists
<1>5. ASSUME NEW s \in SUBSET S
      PROVE  /\ s = {} => g[s] = base
             /\ s # {} => /\ Largest(s) \in 1 .. n
                          /\ g[s \ {Largest(s)}] \in V
                          /\ g[s] = h[Largest(s)][g[s \ {Largest(s)}]]
  <2>1. g[s] = IF s = {} THEN base ELSE steps[s][g[s \ {Largest(s)}]]
    BY <1>4 DEF IsFold
  <2>2. s \ {Largest(s)} \in SUBSET S
    OBVIOUS
  <2>3. g[s \ {Largest(s)}] \in V
    BY <1>4, <2>2
  <2>4. s # {} => Largest(s) \in 1 .. n
    BY <1>2
  <2>5. s # {} => steps[s][g[s \ {Largest(s)}]] = h[Largest(s)][g[s \ {Largest(s)}]]
    BY <2>3
  <2> QED
    BY <2>1, <2>3, <2>4, <2>5
<1>6. IsLoop(n, V, base, h, g)
  <2> HIDE DEF pick, steps
  <2> QED
    BY <1>5 DEF IsLoop
<1> QED
  BY <1>4, <1>6

-----------------------------------------------------------------------------
(* Sets of numbers in ascending order.                                     *)

\* An ascending sequence of all of a set has as many members as the set.
LEMMA AscendingCounts ==
    ASSUME NEW n \in Nat, NEW S \in SUBSET Int, NEW q \in [1 .. n -> S], Ascends(q),
           \A x \in S : \E k \in 1 .. n : q[k] = x
    PROVE  /\ IsFiniteSet(S) /\ Cardinality(S) = n
           /\ \A k \in 1 .. n : Cardinality({y \in S : y < q[k]}) = k - 1
<1>1. \A j, k \in 1 .. n : (q[j] < q[k]) <=> (j < k)
  <2> SUFFICES ASSUME NEW j \in 1 .. n, NEW k \in 1 .. n PROVE (q[j] < q[k]) <=> (j < k)
    OBVIOUS
  <2>1. q[j] \in Int /\ q[k] \in Int
    OBVIOUS
  <2>2. j < k => q[j] < q[k]
    BY DEF Ascends
  <2>3. k < j => q[k] < q[j]
    BY DEF Ascends
  <2>4. j < k \/ k < j \/ j = k
    OBVIOUS
  <2> QED
    BY <2>1, <2>2, <2>3, <2>4
<1>2. ASSUME NEW m \in 0 .. n, NEW T, T = {q[j] : j \in 1 .. m}
      PROVE  IsFiniteSet(T) /\ Cardinality(T) = m
  <2> DEFINE r == [j \in 1 .. m |-> q[j]]
  <2>1. IsFiniteSet(1 .. m) /\ Cardinality(1 .. m) = m
    BY FS_Interval
  <2>2. r \in Bijection(1 .. m, T)
    <3>1. r \in [1 .. m -> T] /\ \A t \in T : \E j \in 1 .. m : r[j] = t
      BY <1>2
    <3>2. ASSUME NEW i \in 1 .. m, NEW j \in 1 .. m, r[i] = r[j] PROVE i = j
      <4>1. i \in 1 .. n /\ j \in 1 .. n /\ q[i] = q[j] /\ q[i] \in Int /\ q[j] \in Int
        <5>1. i \in 1 .. n /\ j \in 1 .. n
          OBVIOUS
        <5>2. r[i] = q[i] /\ r[j] = q[j]
          OBVIOUS
        <5> HIDE DEF r
        <5> QED
          BY <3>2, <5>1, <5>2
      <4>2. ~(i < j) /\ ~(j < i)
        BY <1>1, <4>1
      <4> QED
        BY <4>2
    <3> HIDE DEF r
    <3> QED
      BY <3>1, <3>2 DEF Bijection, Injection, Surjection, IsInjective
  <2>3. ExistsBijection(1 .. m, T)
    BY <2>2 DEF ExistsBijection
  <2> HIDE DEF r
  <2> QED
    BY <2>1, <2>3, FS_Bijection
<1>3. S = {q[j] : j \in 1 .. n}
  OBVIOUS
<1>4. ASSUME NEW k \in 1 .. n PROVE {y \in S : y < q[k]} = {q[j] : j \in 1 .. (k - 1)}
  <2>1. \A j \in 1 .. n : (q[j] < q[k]) <=> j \in 1 .. (k - 1)
    BY <1>1
  <2>2. \A j \in 1 .. (k - 1) : j \in 1 .. n /\ q[j] \in S
    OBVIOUS
  <2> QED
    BY <2>1, <2>2
<1>5. IsFiniteSet(S) /\ Cardinality(S) = n
  BY <1>2, <1>3
<1>6. ASSUME NEW k \in 1 .. n PROVE Cardinality({y \in S : y < q[k]}) = k - 1
  <2>1. k - 1 \in 0 .. n
    OBVIOUS
  <2> QED
    BY <1>2, <1>4, <2>1
<1> QED
  BY <1>5, <1>6

LEMMA OrderedIs ==
    ASSUME NEW n \in Nat, NEW S \in SUBSET Int, NEW q \in [1 .. n -> S], Ascends(q),
           \A x \in S : \E k \in 1 .. n : q[k] = x
    PROVE  Ordered(S) = q /\ Cardinality(S) = n /\ IsFiniteSet(S)
<1>1. /\ IsFiniteSet(S) /\ Cardinality(S) = n
      /\ \A k \in 1 .. n : Cardinality({y \in S : y < q[k]}) = k - 1
  BY AscendingCounts
<1>2. ASSUME NEW k \in 1 .. n
      PROVE  (CHOOSE x \in S : Cardinality({y \in S : y < x}) = k - 1) = q[k]
  <2> DEFINE x == CHOOSE x \in S : Cardinality({y \in S : y < x}) = k - 1
  <2>1. x \in S /\ Cardinality({y \in S : y < x}) = k - 1
    BY <1>1, <1>2
  <2>2. PICK j \in 1 .. n : q[j] = x
    BY <2>1
  <2>3. j - 1 = k - 1
    BY <1>1, <2>1, <2>2
  <2> QED
    BY <2>2, <2>3
<1> DEFINE r == [k \in 1 .. n |-> CHOOSE x \in S : Cardinality({y \in S : y < x}) = k - 1]
<1>3. Ordered(S) = r
  BY <1>1 DEF Ordered
<1>4. r = q
  BY <1>2
<1> QED
  BY <1>1, <1>3, <1>4

\* The members of a finite set of numbers in order are its members, in order.
LEMMA OrderedRight ==
    ASSUME NEW S \in SUBSET Int, IsFiniteSet(S)
    PROVE  /\ Cardinality(S) \in Nat
           /\ Ordered(S) \in [1 .. Cardinality(S) -> S] /\ Ascends(Ordered(S))
           /\ \A x \in S : \E k \in 1 .. Cardinality(S) : Ordered(S)[k] = x
<1>1. PICK q \in [1 .. Cardinality(S) -> S] : Ascends(q)
  BY CanBeSorted
<1>2. \A x \in S : \E k \in 1 .. Cardinality(S) : q[k] = x
  BY <1>1, SortedPlaces
<1>3. Cardinality(S) \in Nat
  BY FS_CardinalityType
<1>4. Ordered(S) = q
  BY <1>1, <1>2, <1>3, OrderedIs
<1> QED
  BY <1>1, <1>2, <1>3, <1>4

-----------------------------------------------------------------------------
(* Recursion that moves up to an end, and what stands at chosen places.    *)

\* What holds of a number once it holds of all above it holds of all.
LEMMA CountDown ==
    ASSUME NEW n \in Nat, NEW Good \in SUBSET (0 .. n),
           \A i \in 0 .. n : (\A j \in 0 .. n : j > i => j \in Good) => i \in Good
    PROVE  Good = 0 .. n
<1> DEFINE Up == {m \in Nat : \A i \in 0 .. n : i >= n + 1 - m => i \in Good}
<1>1. 0 \in Up
  OBVIOUS
<1>2. ASSUME NEW m \in Up PROVE m + 1 \in Up
  <2> SUFFICES ASSUME NEW i \in 0 .. n, i >= n + 1 - (m + 1) PROVE i \in Good
    OBVIOUS
  <2>1. \A j \in 0 .. n : j > i => j \in Good
    OBVIOUS
  <2> QED
    BY <2>1
<1>3. Up = Nat
  <2> HIDE DEF Up
  <2>1. Up \in SUBSET Nat
    BY DEF Up
  <2> QED
    BY <1>1, <1>2, <2>1, CountUp
<1>4. n + 1 \in Up
  <2> HIDE DEF Up
  <2> QED
    BY <1>3
<1>5. \A i \in 0 .. n : i >= n + 1 - (n + 1)
  OBVIOUS
<1> QED
  BY <1>4, <1>5

\* g is h of its value further up, where there is more, and last elsewhere.
GoesUp(n, more, next, h, last, g) ==
    \A i \in 0 .. n : g[i] = IF i \in more THEN h[i][g[next[i]]] ELSE last[i]

LEMMA GoesUpExists ==
    ASSUME NEW n \in Nat, NEW more \in SUBSET (0 .. n), NEW next \in [more -> 0 .. n],
           \A i \in more : next[i] > i,
           NEW V, NEW h \in [more -> [V -> V]], NEW last \in [(0 .. n) \ more -> V]
    PROVE  \E g \in [0 .. n -> V] : GoesUp(n, more, next, h, last, g)
<1> DEFINE Above(m) == {i \in 0 .. n : i >= n + 1 - m}
           Right(g, i) == g[i] = IF i \in more THEN h[i][g[next[i]]] ELSE last[i]
           Good == {m \in Nat : \E g \in [Above(m) -> V] : \A i \in Above(m) : Right(g, i)}
<1>1. 0 \in Good
  <2>1. Above(0) = {}
    OBVIOUS
  <2>2. [x \in {} |-> x] \in [Above(0) -> V] /\ \A i \in Above(0) : Right([x \in {} |-> x], i)
    BY <2>1
  <2> QED
    BY <2>2
<1>2. ASSUME NEW m \in Good PROVE m + 1 \in Good
  <2>1. PICK g \in [Above(m) -> V] : \A i \in Above(m) : Right(g, i)
    OBVIOUS
  <2> DEFINE r == n - m
             v == IF r \in more THEN h[r][g[next[r]]] ELSE last[r]
             f == [i \in Above(m + 1) |-> IF i = r THEN v ELSE g[i]]
  <2>2. CASE r \notin 0 .. n
    <3>1. Above(m + 1) = Above(m)
      BY <2>2
    <3>2. \E f0 \in [Above(m + 1) -> V] : \A i \in Above(m + 1) : Right(f0, i)
      <4> HIDE DEF Above, Right
      <4> QED
        BY <2>1, <3>1
    <3>3. m + 1 \in Nat
      OBVIOUS
    <3> HIDE DEF Above, Right
    <3> QED
      BY <3>2, <3>3
  <2>3. CASE r \in 0 .. n
    <3>1. /\ Above(m + 1) = Above(m) \cup {r} /\ r \notin Above(m)
          /\ r \in more => next[r] \in Above(m)
          /\ \A i \in Above(m) : i \in more => next[i] \in Above(m)
      <4>1. \A i \in Above(m) \cup {r} : i \in more => next[i] \in 0 .. n /\ next[i] > i
        OBVIOUS
      <4>2. \A i \in Above(m) \cup {r} : \A j \in 0 .. n : j > i => j \in Above(m)
        BY <2>3
      <4>3. Above(m + 1) = Above(m) \cup {r} /\ r \notin Above(m)
        BY <2>3
      <4> QED
        BY <4>1, <4>2, <4>3
    <3> HIDE DEF Above, r
    <3>2. v \in V
      BY <2>1, <2>3, <3>1
    <3>3. f \in [Above(m + 1) -> V]
      <4> HIDE DEF v
      <4> QED
        BY <2>1, <3>1, <3>2
    <3>4. \A i \in Above(m) : f[i] = g[i]
      BY <3>1
    <3>5. f[r] = v
      <4> HIDE DEF v
      <4> QED
        BY <3>1
    <3>6. Right(f, r)
      <4> HIDE DEF f
      <4> QED
        BY <3>1, <3>4, <3>5
    <3>7. ASSUME NEW i \in Above(m) PROVE Right(f, i)
      <4>1. Right(g, i)
        BY <2>1
      <4>2. f[i] = g[i] /\ (i \in more => f[next[i]] = g[next[i]])
        BY <3>1, <3>4
      <4> HIDE DEF f
      <4> QED
        BY <4>1, <4>2
    <3> HIDE DEF f, Right
    <3>8. \A i \in Above(m + 1) : Right(f, i)
      BY <3>1, <3>6, <3>7
    <3> QED
      BY <3>3, <3>8
  <2> QED
    BY <2>2, <2>3
<1>3. Good = Nat
  <2> HIDE DEF Good
  <2>1. Good \in SUBSET Nat
    BY DEF Good
  <2> QED
    BY <1>1, <1>2, <2>1, CountUp
<1>4. n + 1 \in Good
  <2> HIDE DEF Good
  <2> QED
    BY <1>3
<1>5. Above(n + 1) = 0 .. n
  OBVIOUS
<1> HIDE DEF Above
<1> QED
  BY <1>4, <1>5 DEF GoesUp

\* What is taken from a sequence stands in it, and all of it is taken.
LEMMA TakenRight ==
    ASSUME NEW V, NEW q \in Seq(V), NEW S \in SUBSET DOMAIN q
    PROVE  /\ IsFiniteSet(S) /\ Cardinality(S) \in Nat
           /\ Taken(q, S) \in Seq(V) /\ Len(Taken(q, S)) = Cardinality(S)
           /\ \A k \in 1 .. Cardinality(S) : \E i \in S : Taken(q, S)[k] = q[i]
           /\ \A i \in S : \E k \in 1 .. Cardinality(S) : Taken(q, S)[k] = q[i]
<1> DEFINE n == Cardinality(S)
           o == Ordered(S)
           t == [k \in 1 .. n |-> q[o[k]]]
<1>1. DOMAIN q = 1 .. Len(q) /\ Len(q) \in Nat /\ \A i \in DOMAIN q : q[i] \in V
  OBVIOUS
<1>2. IsFiniteSet(S) /\ S \in SUBSET Int
  <2>1. IsFiniteSet(1 .. Len(q))
    BY <1>1, FS_Interval
  <2> QED
    BY <1>1, <2>1, FS_Subset
<1>3. n \in Nat /\ o \in [1 .. n -> S] /\ \A i \in S : \E k \in 1 .. n : o[k] = i
  BY <1>2, OrderedRight
<1> HIDE DEF n, o
<1>4. Taken(q, S) = t
  <2>1. Taken(q, S) = [k \in DOMAIN o |-> q[o[k]]]
    BY DEF Taken, o
  <2> QED
    BY <1>3, <2>1
<1>5. /\ t \in [1 .. n -> V] /\ \A k \in 1 .. n : \E i \in S : t[k] = q[i]
      /\ \A i \in S : \E k \in 1 .. n : t[k] = q[i]
  BY <1>1, <1>3
<1> HIDE DEF t
<1>6. t \in Seq(V) /\ Len(t) = n
  BY <1>3, <1>5
<1> QED
  BY <1>2, <1>3, <1>4, <1>5, <1>6 DEF n

\* The least member of a set of numbers.
Smallest(S) == CHOOSE x \in S : \A y \in S : x =< y

LEMMA SmallestOf ==
    ASSUME NEW S \in SUBSET Int, IsFiniteSet(S), S # {}
    PROVE  Smallest(S) \in S /\ \A y \in S : Smallest(S) <= y
<1>1. \E x \in S : \A y \in S : x =< y
  BY HasSmallest
<1> QED
  BY <1>1 DEF Smallest
=============================================================================
