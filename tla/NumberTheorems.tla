--------------------------- MODULE NumberTheorems ---------------------------
(***************************************************************************)
(* Facts about numbers and sums that several proofs need: induction over   *)
(* numbers and finite sets, division, the sum of a function over a finite  *)
(* set, powers and digits.  A property that is proved by induction is      *)
(* given as the set of the values that have it.                            *)
(***************************************************************************)
EXTENDS Integers, Functions, Powers, FiniteSetTheorems, WellFoundedInduction, TLAPS

\* Every set of natural numbers has a least element.
LEMMA LeastNumber ==
  ASSUME NEW T, T \subseteq Nat, T # {}
  PROVE  \E x \in T : \A y \in T : x <= y
<1>1. PICK R : R = OpToRel(<, Nat)
  OBVIOUS
<1>2. IsWellFoundedOn(R, Nat)
  BY <1>1, NatLessThanWellFounded
<1>3. PICK x \in T : \A y \in T : ~(<<y, x>> \in R)
  BY <1>2, WFMin
<1>4. ASSUME NEW y \in T PROVE x <= y
  <2>1. x \in Nat /\ y \in Nat
    OBVIOUS
  <2>2. y < x => <<y, x>> \in R
    BY <1>1, <2>1 DEF OpToRel
  <2> QED BY <1>3, <2>1, <2>2
<1> QED BY <1>4

\* A set of numbers with a bound has a greatest one.
LEMMA GreatestNumber ==
  ASSUME NEW T, T \subseteq Nat, T # {}, NEW bound \in Nat, \A y \in T : y <= bound
  PROVE  \E x \in T : \A y \in T : x >= y
<1>1. PICK R : R = {bound - y : y \in T}
  OBVIOUS
<1>2. R \subseteq Nat /\ R # {}
  <2>1. \A y \in T : bound - y \in Nat
    OBVIOUS
  <2> QED BY <1>1, <2>1, Zenon
<1>3. PICK z \in R : \A y \in R : z <= y
  BY <1>2, LeastNumber
<1>4. PICK x \in T : z = bound - x
  BY <1>1, <1>3
<1>5. ASSUME NEW y \in T PROVE x >= y
  <2>1. bound - y \in R /\ z <= bound - y
    BY <1>1, <1>3
  <2> QED BY <1>4, <2>1
<1> QED BY <1>4, <1>5

\* Induction over the natural numbers.
LEMMA NumberInduction ==
  ASSUME NEW Good, 0 \in Good, \A n \in Nat : n \in Good => n + 1 \in Good
  PROVE  Nat \subseteq Good
<1> SUFFICES ASSUME Nat \ Good # {} PROVE FALSE
  OBVIOUS
<1>1. PICK x \in Nat \ Good : \A y \in Nat \ Good : x <= y
  BY LeastNumber
<1>2. x # 0 /\ x - 1 \in Nat
  OBVIOUS
<1>3. x - 1 \in Good
  BY <1>1, <1>2
<1>4. (x - 1) + 1 = x
  OBVIOUS
<1> QED BY <1>2, <1>3, <1>4

\* Induction over the subsets of a finite set: a set has the property if every
\* smaller one has it.
LEMMA SubsetInduction ==
  ASSUME NEW S, IsFiniteSet(S), NEW Good,
         \A s \in SUBSET S :
           (\A t \in SUBSET S : Cardinality(t) < Cardinality(s) => t \in Good) => s \in Good
  PROVE  SUBSET S \subseteq Good
<1> SUFFICES ASSUME NEW bad \in SUBSET S, bad \notin Good PROVE FALSE
  OBVIOUS
<1>1. \A s \in SUBSET S : Cardinality(s) \in Nat
  BY FS_Subset, FS_CardinalityType
<1>2. PICK T : T = {n \in Nat : \E s \in SUBSET S : s \notin Good /\ Cardinality(s) = n}
  OBVIOUS
<1>3. T \subseteq Nat /\ T # {}
  BY <1>1, <1>2
<1>4. PICK n \in T : \A m \in T : n <= m
  BY <1>3, LeastNumber
<1>5. PICK s \in SUBSET S : s \notin Good /\ Cardinality(s) = n
  BY <1>2, <1>4
<1>6. ASSUME NEW t \in SUBSET S, Cardinality(t) < Cardinality(s) PROVE t \in Good
  <2>1. Cardinality(t) \in Nat /\ n \in Nat
    BY <1>1, <1>3
  <2>2. ~(n <= Cardinality(t))
    BY <1>5, <1>6, <2>1
  <2> QED BY <1>2, <1>4, <2>1, <2>2
<1> QED BY <1>5, <1>6

-----------------------------------------------------------------------------
(* Division.                                                               *)

\* A number is its quotient times the divisor plus its remainder.
LEMMA Division ==
  ASSUME NEW m \in Nat \ {0}, NEW p \in Nat
  PROVE  /\ p \div m \in Nat /\ p % m \in 0 .. m - 1
         /\ p = (p \div m) * m + (p % m)
<1>1. p \div m \in Int /\ p \div m >= 0
  OBVIOUS
<1>2. p % m \in 0 .. m - 1
  OBVIOUS
<1>3. p = (p \div m) * m + (p % m)
  OBVIOUS
<1> QED BY <1>1, <1>2, <1>3

\* There is only one way to divide: two remainders of the same number differ by
\* less than the divisor.
LEMMA RemainderUnique ==
  ASSUME NEW m \in Nat \ {0}, NEW d \in Int, NEW t \in 0 .. m - 1,
         NEW q \in Int, NEW s \in 0 .. m - 1, d * m + t = q * m + s
  PROVE  t = s
<1>1. PICK e \in Int : e = d - q
  OBVIOUS
<1>2. e * m = d * m - q * m
  BY <1>1
<1>3. e * m = s - t /\ s - t < m /\ t - s < m
  BY <1>2
<1>4. ~(e >= 1)
  <2> SUFFICES ASSUME e >= 1 PROVE FALSE
    OBVIOUS
  <2>1. e * m >= m
    BY <1>1
  <2> QED BY <1>3, <2>1
<1>5. ~(e <= -1)
  <2> SUFFICES ASSUME e <= -1 PROVE FALSE
    OBVIOUS
  <2>1. e * m <= -m
    BY <1>1
  <2> QED BY <1>3, <2>1
<1>6. e = 0
  BY <1>1, <1>4, <1>5
<1> QED BY <1>3, <1>6

\* A remainder is known by its range.
LEMMA ModUnique ==
  ASSUME NEW m \in Nat \ {0}, NEW q \in Nat, NEW s \in 0 .. m - 1
  PROVE  (q * m + s) % m = s
<1>1. PICK p \in Nat : p = q * m + s
  OBVIOUS
<1>2. p \div m \in Int /\ p % m \in 0 .. m - 1 /\ p = (p \div m) * m + (p % m)
  <2>1. p \div m \in Nat /\ p % m \in 0 .. m - 1 /\ p = (p \div m) * m + (p % m)
    BY Division, Zenon
  <2> QED BY <2>1
<1>3. PICK d : d = p \div m
  OBVIOUS
<1>4. PICK t : t = p % m
  OBVIOUS
<1>5. d \in Int /\ t \in 0 .. m - 1 /\ p = d * m + t
  BY <1>2, <1>3, <1>4
<1>6. d * m + t = q * m + s /\ q \in Int
  BY <1>1, <1>5
<1>7. t = s
  BY <1>5, <1>6, RemainderUnique, Zenon
<1> QED BY <1>1, <1>4, <1>7

-----------------------------------------------------------------------------
(* Sums.                                                                   *)

Choice(s)        == CHOOSE x \in s : TRUE
SumStep(f, g, s) == IF s = {} THEN 0 ELSE f[Choice(s)] + g[s \ {Choice(s)}]

\* g[s] is the sum of f over s, for every subset s of S.
IsSum(f, S, g) == g = [s \in SUBSET S |-> SumStep(f, g, s)]

Sum(f, S) == FoldFunctionOnSet(+, 0, f, S)

\* Taking an element away makes a finite set smaller.
LEMMA Smaller ==
  ASSUME NEW S, IsFiniteSet(S), NEW s \in SUBSET S, NEW x \in s
  PROVE  /\ s \ {x} \in SUBSET S
         /\ Cardinality(s) \in Nat /\ Cardinality(s \ {x}) \in Nat
         /\ Cardinality(s \ {x}) = Cardinality(s) - 1
<1>1. IsFiniteSet(s)
  BY FS_Subset
<1>2. IsFiniteSet(s \ {x}) /\ Cardinality(s \ {x}) = Cardinality(s) - 1
  BY <1>1, FS_RemoveElement
<1> QED BY <1>1, <1>2, FS_CardinalityType

\* There is a function that sums f over the subsets of a finite set.
LEMMA SumExists ==
  ASSUME NEW S, IsFiniteSet(S), NEW f
  PROVE  \E g : IsSum(f, S, g)
<1> DEFINE Upto(n) == {s \in SUBSET S : Cardinality(s) <= n}
<1>1. \A s \in SUBSET S : Cardinality(s) \in Nat
  BY FS_Subset, FS_CardinalityType
<1>2. PICK Good : Good = {n \in Nat : \E g : g = [s \in Upto(n) |-> SumStep(f, g, s)]}
  OBVIOUS
<1>3. 0 \in Good
  <2>1. PICK g : g = [s \in Upto(0) |-> 0]
    OBVIOUS
  <2>2. ASSUME NEW s \in Upto(0) PROVE s = {}
    <3>1. IsFiniteSet(s) /\ Cardinality(s) = 0
      BY <1>1, FS_Subset
    <3> QED BY <3>1, FS_EmptySet
  <2>3. \A s \in Upto(0) : SumStep(f, g, s) = 0
    BY <2>2, Zenon DEF SumStep
  <2>4. g = [s \in Upto(0) |-> SumStep(f, g, s)]
    <3> HIDE DEF Upto
    <3> QED BY <2>1, <2>3
  <2>5. \E h : h = [s \in Upto(0) |-> SumStep(f, h, s)]
    BY <2>4
  <2> QED BY <1>2, <2>5, Zenon
<1>4. ASSUME NEW n \in Nat, n \in Good PROVE n + 1 \in Good
  <2>1. PICK g : g = [s \in Upto(n) |-> SumStep(f, g, s)]
    BY <1>2, <1>4
  <2>2. PICK h : h = [s \in Upto(n + 1) |-> SumStep(f, g, s)]
    OBVIOUS
  <2>3. ASSUME NEW s \in Upto(n + 1) PROVE SumStep(f, g, s) = SumStep(f, h, s)
    <3>1. CASE s = {}
      BY <3>1 DEF SumStep
    <3>2. CASE s # {}
      <4>1. PICK c : c = Choice(s)
        OBVIOUS
      <4>2. c \in s
        BY <3>2, <4>1 DEF Choice
      <4>3. PICK t : t = s \ {c}
        OBVIOUS
      <4>4. t \in Upto(n) /\ t \in Upto(n + 1)
        <5>1. s \in SUBSET S /\ Cardinality(s) <= n + 1
          OBVIOUS
        <5>2. /\ t \in SUBSET S /\ Cardinality(s) \in Nat /\ Cardinality(t) \in Nat
              /\ Cardinality(t) = Cardinality(s) - 1
          BY <4>2, <4>3, <5>1, Smaller
        <5> QED BY <5>1, <5>2
      <4> HIDE DEF Upto
      <4>5. g[t] = SumStep(f, g, t)
        BY <2>1, <4>4
      <4>6. h[t] = SumStep(f, g, t)
        BY <2>2, <4>4
      <4> QED BY <3>2, <4>1, <4>3, <4>5, <4>6 DEF SumStep
    <3> QED BY <3>1, <3>2
  <2>4. h = [s \in Upto(n + 1) |-> SumStep(f, h, s)]
    <3> HIDE DEF Upto
    <3> QED BY <2>2, <2>3
  <2>5. \E k : k = [s \in Upto(n + 1) |-> SumStep(f, k, s)]
    BY <2>4
  <2>6. n + 1 \in Nat
    OBVIOUS
  <2> QED BY <1>2, <2>5, <2>6, Zenon
<1>5. PICK n : n = Cardinality(S)
  OBVIOUS
<1>6. n \in Nat /\ n \in Good
  BY <1>3, <1>4, <1>5, NumberInduction, FS_CardinalityType
<1>7. Upto(n) = SUBSET S
  BY <1>5, FS_Subset
<1>8. PICK g : g = [s \in Upto(n) |-> SumStep(f, g, s)]
  BY <1>2, <1>6
<1> QED BY <1>7, <1>8 DEF IsSum

\* It is unique, also for functions that differ elsewhere.
LEMMA SumUnique ==
  ASSUME NEW S, IsFiniteSet(S), NEW R \in SUBSET S, NEW f, NEW e, \A x \in R : f[x] = e[x],
         NEW g, IsSum(f, S, g), NEW h, IsSum(e, R, h)
  PROVE  \A s \in SUBSET R : g[s] = h[s]
<1>1. PICK Good : Good = {s \in SUBSET R : g[s] = h[s]}
  OBVIOUS
<1>2. IsFiniteSet(R)
  BY FS_Subset
<1>3. ASSUME NEW s \in SUBSET R,
             \A t \in SUBSET R : Cardinality(t) < Cardinality(s) => t \in Good
      PROVE  s \in Good
  <2>1. g[s] = SumStep(f, g, s) /\ h[s] = SumStep(e, h, s)
    <3>1. s \in SUBSET S
      OBVIOUS
    <3> QED BY <3>1 DEF IsSum
  <2>2. CASE s = {}
    BY <1>1, <2>1, <2>2 DEF SumStep
  <2>3. CASE s # {}
    <3>1. PICK c : c = Choice(s)
      OBVIOUS
    <3>2. c \in s
      BY <2>3, <3>1 DEF Choice
    <3>3. PICK t : t = s \ {c}
      OBVIOUS
    <3>4. /\ t \in SUBSET R /\ Cardinality(s) \in Nat /\ Cardinality(t) \in Nat
          /\ Cardinality(t) = Cardinality(s) - 1
      BY <1>2, <3>2, <3>3, Smaller
    <3>5. g[t] = h[t]
      BY <1>1, <1>3, <3>4
    <3>6. g[s] = f[c] + g[t] /\ h[s] = e[c] + h[t]
      BY <2>1, <2>3, <3>1, <3>3 DEF SumStep
    <3> QED BY <1>1, <3>2, <3>5, <3>6
  <2> QED BY <2>2, <2>3
<1>4. SUBSET R \subseteq Good
  BY <1>2, <1>3, SubsetInduction
<1> QED BY <1>1, <1>4

\* The library's fold is this sum.
LEMMA SumIsFold ==
  ASSUME NEW S, IsFiniteSet(S), NEW f
  PROVE  \E g : IsSum(f, S, g) /\ Sum(f, S) = g[S]
<1>1. Sum(f, S) = (CHOOSE iter : iter = [s \in SUBSET S |->
                     IF s = {} THEN 0
                     ELSE f[CHOOSE x \in s : TRUE] + iter[s \ {CHOOSE x \in s : TRUE}]])[S]
  BY DEF Sum, FoldFunctionOnSet, MapThenFoldSet
<1>2. PICK g : g = CHOOSE iter : iter = [s \in SUBSET S |->
                     IF s = {} THEN 0
                     ELSE f[CHOOSE x \in s : TRUE] + iter[s \ {CHOOSE x \in s : TRUE}]]
  OBVIOUS
<1>3. \E iter : iter = [s \in SUBSET S |->
                     IF s = {} THEN 0
                     ELSE f[CHOOSE x \in s : TRUE] + iter[s \ {CHOOSE x \in s : TRUE}]]
  <2>1. PICK h : IsSum(f, S, h)
    BY SumExists
  <2> QED BY <2>1, Zenon DEF IsSum, SumStep, Choice
<1>4. g = [s \in SUBSET S |->
             IF s = {} THEN 0
             ELSE f[CHOOSE x \in s : TRUE] + g[s \ {CHOOSE x \in s : TRUE}]]
  BY <1>2, <1>3, Zenon
<1>5. IsSum(f, S, g)
  BY <1>4, Zenon DEF IsSum, SumStep, Choice
<1> QED BY <1>1, <1>2, <1>5, Zenon

\* A sum over nothing.
LEMMA SumEmpty ==
  ASSUME NEW f
  PROVE  Sum(f, {}) = 0
<1>1. IsFiniteSet({})
  BY FS_EmptySet
<1>2. PICK g : IsSum(f, {}, g) /\ Sum(f, {}) = g[{}]
  BY <1>1, SumIsFold
<1> QED BY <1>2 DEF IsSum, SumStep

\* Functions that agree on a set have the same sum over it.
LEMMA SumSame ==
  ASSUME NEW S, IsFiniteSet(S), NEW f, NEW e, \A x \in S : f[x] = e[x]
  PROVE  Sum(f, S) = Sum(e, S)
<1>1. PICK g : IsSum(f, S, g) /\ Sum(f, S) = g[S]
  BY SumIsFold
<1>2. PICK h : IsSum(e, S, h) /\ Sum(e, S) = h[S]
  BY SumIsFold
<1>3. S \in SUBSET S
  OBVIOUS
<1>4. \A s \in SUBSET S : g[s] = h[s]
  BY <1>1, <1>2, <1>3, SumUnique
<1> QED BY <1>1, <1>2, <1>3, <1>4

\* The element that the fold chooses comes first.
LEMMA SumChoice ==
  ASSUME NEW S, IsFiniteSet(S), S # {}, NEW f
  PROVE  Choice(S) \in S /\ Sum(f, S) = f[Choice(S)] + Sum(f, S \ {Choice(S)})
<1>1. PICK c : c = Choice(S)
  OBVIOUS
<1>2. PICK R : R = S \ {c}
  OBVIOUS
<1>3. c \in S /\ R \in SUBSET S /\ S \in SUBSET S
  BY <1>1, <1>2 DEF Choice
<1>4. PICK g : IsSum(f, S, g) /\ Sum(f, S) = g[S]
  BY SumIsFold
<1>5. IsFiniteSet(R)
  BY <1>3, FS_Subset
<1>6. PICK h : IsSum(f, R, h) /\ Sum(f, R) = h[R]
  BY <1>5, SumIsFold
<1>7. g[R] = h[R]
  <2>1. \A s \in SUBSET R : g[s] = h[s]
    BY <1>3, <1>4, <1>6, SumUnique
  <2> QED BY <2>1
<1>8. g[S] = f[c] + g[R]
  BY <1>1, <1>2, <1>3, <1>4 DEF IsSum, SumStep
<1> QED BY <1>1, <1>2, <1>3, <1>4, <1>6, <1>7, <1>8

\* Any element may come first, and sums of natural numbers are natural numbers.
LEMMA SumAny ==
  ASSUME NEW S, IsFiniteSet(S), NEW f, \A x \in S : f[x] \in Nat
  PROVE  Sum(f, S) \in Nat /\ \A x \in S : Sum(f, S) = f[x] + Sum(f, S \ {x})
<1>1. PICK Good : Good = {s \in SUBSET S : /\ Sum(f, s) \in Nat
                                           /\ \A x \in s : Sum(f, s) = f[x] + Sum(f, s \ {x})}
  OBVIOUS
<1>2. ASSUME NEW s \in SUBSET S,
             \A t \in SUBSET S : Cardinality(t) < Cardinality(s) => t \in Good
      PROVE  s \in Good
  <2>1. CASE s = {}
    <3>1. Sum(f, s) = 0
      BY <2>1, SumEmpty
    <3> QED BY <1>1, <2>1, <3>1
  <2>2. CASE s # {}
    <3>1. IsFiniteSet(s)
      BY FS_Subset
    <3>2. PICK c : c = Choice(s)
      OBVIOUS
    <3>3. c \in s /\ Sum(f, s) = f[c] + Sum(f, s \ {c})
      BY <2>2, <3>1, <3>2, SumChoice
    <3>4. ASSUME NEW x \in s PROVE s \ {x} \in Good
      BY <1>2, <3>4, Smaller
    <3>5. Sum(f, s \ {c}) \in Nat /\ f[c] \in Nat
      BY <1>1, <3>3, <3>4
    <3>6. ASSUME NEW x \in s, x # c PROVE Sum(f, s) = f[x] + Sum(f, s \ {x})
      <4>1. PICK r : r = (s \ {x}) \ {c}
        OBVIOUS
      <4>2. r = (s \ {c}) \ {x}
        BY <4>1
      <4>3. Sum(f, s \ {c}) = f[x] + Sum(f, r)
        BY <1>1, <3>3, <3>4, <3>6, <4>2
      <4>4. Sum(f, s \ {x}) = f[c] + Sum(f, r)
        BY <1>1, <3>3, <3>4, <3>6, <4>1
      <4>5. Sum(f, r) \in Nat /\ f[x] \in Nat
        <5>1. s \ {x} \in SUBSET S /\ c \in s \ {x}
          BY <3>3, <3>6
        <5>2. /\ r \in SUBSET S /\ Cardinality(s) \in Nat /\ Cardinality(r) \in Nat
              /\ Cardinality(r) = Cardinality(s \ {x}) - 1
              /\ Cardinality(s \ {x}) = Cardinality(s) - 1
          BY <3>6, <4>1, <5>1, Smaller, SMTT(30)
        <5>3. Cardinality(r) < Cardinality(s)
          BY <5>2
        <5> QED BY <1>1, <1>2, <5>2, <5>3
      <4> QED BY <3>3, <3>5, <4>3, <4>4, <4>5
    <3>7. Sum(f, s) \in Nat
      BY <3>3, <3>5
    <3>8. \A x \in s : Sum(f, s) = f[x] + Sum(f, s \ {x})
      BY <3>3, <3>6
    <3> QED BY <1>1, <3>7, <3>8
  <2> QED BY <2>1, <2>2
<1>3. SUBSET S \subseteq Good
  BY <1>2, SubsetInduction
<1>4. S \in Good
  BY <1>3
<1> QED BY <1>1, <1>4

\* One more element.
LEMMA SumOneMore ==
  ASSUME NEW S, IsFiniteSet(S), NEW f, \A x \in S : f[x] \in Nat,
         NEW y, y \notin S, NEW e, e[y] \in Nat, \A x \in S : e[x] = f[x]
  PROVE  Sum(e, S \union {y}) = e[y] + Sum(f, S) /\ Sum(f, S) \in Nat
<1>1. PICK R : R = S \union {y}
  OBVIOUS
<1>2. IsFiniteSet(R) /\ \A x \in R : e[x] \in Nat
  BY <1>1, FS_AddElement
<1>3. y \in R /\ R \ {y} = S
  BY <1>1
<1>4. Sum(e, R) = e[y] + Sum(e, S)
  BY <1>2, <1>3, SumAny
<1>5. Sum(e, S) = Sum(f, S)
  BY SumSame
<1> QED BY <1>1, <1>4, <1>5, SumAny
-----------------------------------------------------------------------------
(* Powers.                                                                 *)

PowerStep(b, g, i) == IF i = 0 THEN 1 ELSE b * g[i - 1]
IsPower(b, g)      == g = [i \in Nat |-> PowerStep(b, g, i)]
IsPowerUpto(b, g, n) == g = [i \in 0 .. n |-> PowerStep(b, g, i)]

\* There is a function with the powers up to n.
LEMMA PowerUptoExists ==
  ASSUME NEW b, NEW n \in Nat
  PROVE  \E g : IsPowerUpto(b, g, n)
<1>1. PICK Good : Good = {m \in Nat : \E g : IsPowerUpto(b, g, m)}
  OBVIOUS
<1>2. 0 \in Good
  <2>1. PICK g : g = [i \in 0 .. 0 |-> 1]
    OBVIOUS
  <2>2. \A i \in 0 .. 0 : PowerStep(b, g, i) = 1
    BY DEF PowerStep
  <2>3. IsPowerUpto(b, g, 0)
    BY <2>1, <2>2 DEF IsPowerUpto
  <2> QED BY <1>1, <2>3
<1>3. ASSUME NEW m \in Nat, m \in Good PROVE m + 1 \in Good
  <2>1. PICK g : IsPowerUpto(b, g, m)
    BY <1>1, <1>3
  <2>2. PICK h : h = [i \in 0 .. m + 1 |-> PowerStep(b, g, i)]
    OBVIOUS
  <2>3. ASSUME NEW i \in 0 .. m + 1 PROVE PowerStep(b, g, i) = PowerStep(b, h, i)
    <3>1. CASE i = 0
      BY <3>1 DEF PowerStep
    <3>2. CASE i # 0
      <4>1. i - 1 \in 0 .. m /\ i - 1 \in 0 .. m + 1
        BY <3>2
      <4>2. h[i - 1] = PowerStep(b, g, i - 1)
        BY <2>2, <4>1
      <4>3. g[i - 1] = PowerStep(b, g, i - 1)
        BY <2>1, <4>1 DEF IsPowerUpto
      <4> QED BY <3>2, <4>2, <4>3 DEF PowerStep
    <3> QED BY <3>1, <3>2
  <2>4. IsPowerUpto(b, h, m + 1)
    BY <2>2, <2>3 DEF IsPowerUpto
  <2>5. m + 1 \in Nat
    OBVIOUS
  <2> QED BY <1>1, <2>4, <2>5, Zenon
<1>4. n \in Good
  BY <1>2, <1>3, NumberInduction
<1> QED BY <1>1, <1>4

\* It is unique.
LEMMA PowerUptoUnique ==
  ASSUME NEW b, NEW n \in Nat, NEW m \in Nat, n <= m,
         NEW g, IsPowerUpto(b, g, n), NEW h, IsPowerUpto(b, h, m)
  PROVE  \A i \in 0 .. n : g[i] = h[i]
<1>1. PICK Good : Good = {i \in Nat : i <= n => g[i] = h[i]}
  OBVIOUS
<1>2. 0 \in Good
  <2>1. 0 \in 0 .. n /\ 0 \in 0 .. m
    OBVIOUS
  <2>2. g[0] = 1 /\ h[0] = 1
    BY <2>1 DEF IsPowerUpto, PowerStep
  <2> QED BY <1>1, <2>2
<1>3. ASSUME NEW i \in Nat, i \in Good PROVE i + 1 \in Good
  <2>1. CASE i + 1 <= n
    <3>1. i <= n /\ i + 1 \in 0 .. n /\ i + 1 \in 0 .. m /\ i + 1 # 0 /\ (i + 1) - 1 = i
      BY <2>1
    <3>2. g[i] = h[i]
      BY <1>1, <1>3, <3>1
    <3>3. g[i + 1] = b * g[i] /\ h[i + 1] = b * h[i]
      BY <3>1 DEF IsPowerUpto, PowerStep
    <3> QED BY <1>1, <3>2, <3>3
  <2>2. CASE ~(i + 1 <= n)
    BY <1>1, <2>2
  <2> QED BY <2>1, <2>2
<1>4. Nat \subseteq Good
  BY <1>2, <1>3, NumberInduction
<1>5. ASSUME NEW i \in 0 .. n PROVE g[i] = h[i]
  <2>1. i \in Nat /\ i <= n
    OBVIOUS
  <2> QED BY <1>1, <1>4, <2>1
<1> QED BY <1>5

\* There is one with all powers.
LEMMA PowerExists ==
  ASSUME NEW b
  PROVE  \E g : IsPower(b, g)
<1> DEFINE H(n) == CHOOSE h : IsPowerUpto(b, h, n)
<1>1. \A n \in Nat : IsPowerUpto(b, H(n), n)
  BY PowerUptoExists
<1> HIDE DEF H
<1>2. PICK g : g = [n \in Nat |-> H(n)[n]]
  OBVIOUS
<1>3. ASSUME NEW n \in Nat PROVE g[n] = PowerStep(b, g, n)
  <2>1. n \in 0 .. n
    OBVIOUS
  <2>2. g[n] = PowerStep(b, H(n), n)
    BY <1>1, <1>2, <2>1 DEF IsPowerUpto
  <2>3. CASE n = 0
    BY <2>2, <2>3 DEF PowerStep
  <2>4. CASE n # 0
    <3>1. PICK m \in Nat : m = n - 1
      BY <2>4
    <3>2. m <= n /\ m \in 0 .. m
      BY <3>1
    <3>3. H(m)[m] = H(n)[m]
      BY <1>1, <3>2, PowerUptoUnique
    <3>4. g[m] = H(m)[m]
      BY <1>2
    <3> QED BY <2>2, <2>4, <3>1, <3>3, <3>4 DEF PowerStep
  <2> QED BY <2>3, <2>4
<1>4. IsPower(b, g)
  BY <1>2, <1>3 DEF IsPower
<1> QED BY <1>4

\* How powers are computed.
LEMMA PowerRecursion ==
  ASSUME NEW b
  PROVE  Power(b, 0) = 1 /\ \A n \in Nat : Power(b, n + 1) = b * Power(b, n)
<1>1. PICK g : g = CHOOSE p : p = [i \in Nat |-> IF i = 0 THEN 1 ELSE b * p[i - 1]]
  OBVIOUS
<1>2. \A n : Power(b, n) = g[n]
  BY <1>1 DEF Power
<1>3. \E p : p = [i \in Nat |-> IF i = 0 THEN 1 ELSE b * p[i - 1]]
  <2>1. PICK h : IsPower(b, h)
    BY PowerExists
  <2> QED BY <2>1, Zenon DEF IsPower, PowerStep
<1>4. g = [i \in Nat |-> IF i = 0 THEN 1 ELSE b * g[i - 1]]
  BY <1>1, <1>3, Zenon
<1>5. g[0] = 1
  BY <1>4
<1>6. ASSUME NEW n \in Nat PROVE g[n + 1] = b * g[n]
  <2>1. n + 1 \in Nat /\ n + 1 # 0 /\ (n + 1) - 1 = n
    OBVIOUS
  <2> QED BY <1>4, <2>1
<1>7. Power(b, 0) = 1
  BY <1>2, <1>5
<1>8. ASSUME NEW n \in Nat PROVE Power(b, n + 1) = b * Power(b, n)
  BY <1>2, <1>6
<1> QED BY <1>7, <1>8

\* Powers of a positive number are positive.
LEMMA PowerPositive ==
  ASSUME NEW b \in Nat \ {0}
  PROVE  \A n \in Nat : Power(b, n) \in Nat \ {0}
<1>1. PICK Good : Good = {n \in Nat : Power(b, n) \in Nat \ {0}}
  OBVIOUS
<1>2. 0 \in Good
  <2>1. Power(b, 0) = 1
    BY PowerRecursion
  <2> QED BY <1>1, <2>1
<1>3. ASSUME NEW n \in Nat, n \in Good PROVE n + 1 \in Good
  <2>1. PICK p : p = Power(b, n)
    OBVIOUS
  <2>2. p \in Nat \ {0}
    BY <1>1, <1>3, <2>1
  <2>3. Power(b, n + 1) = b * p
    BY <2>1, PowerRecursion
  <2>4. b * p \in Nat \ {0}
    BY <2>2
  <2>5. n + 1 \in Nat
    OBVIOUS
  <2> QED BY <1>1, <2>3, <2>4, <2>5
<1>4. Nat \subseteq Good
  BY <1>2, <1>3, NumberInduction
<1> QED BY <1>1, <1>4

\* Powers grow with the exponent.
LEMMA PowerMonotone ==
  ASSUME NEW b \in Nat \ {0}, NEW m \in Nat, NEW n \in Nat, m <= n
  PROVE  Power(b, m) <= Power(b, n)
<1>1. PICK Good : Good = {k \in Nat : Power(b, m) <= Power(b, m + k)}
  OBVIOUS
<1>2. Power(b, m) \in Nat /\ m + 0 = m
  BY PowerPositive
<1>3. 0 \in Good
  BY <1>1, <1>2
<1>4. ASSUME NEW k \in Nat, k \in Good PROVE k + 1 \in Good
  <2>1. PICK p \in Nat : p = Power(b, m + k)
    BY PowerPositive
  <2>2. m + (k + 1) = (m + k) + 1 /\ m + k \in Nat /\ k + 1 \in Nat
    OBVIOUS
  <2>3. Power(b, (m + k) + 1) = b * p
    BY <2>1, <2>2, PowerRecursion
  <2>4. p <= b * p
    BY <2>1
  <2>5. Power(b, m) <= p
    BY <1>1, <1>4, <2>1
  <2>6. b * p \in Nat
    BY <2>1
  <2>7. Power(b, m) <= b * p
    BY <1>2, <2>1, <2>4, <2>5, <2>6
  <2>8. Power(b, m) <= Power(b, m + (k + 1))
    BY <2>2, <2>3, <2>7
  <2> QED BY <1>1, <2>2, <2>8
<1>5. Nat \subseteq Good
  BY <1>3, <1>4, NumberInduction
<1>6. PICK k \in Nat : n = m + k
  <2>1. n - m \in Nat /\ n = m + (n - m)
    OBVIOUS
  <2> QED BY <2>1
<1> QED BY <1>1, <1>5, <1>6

-----------------------------------------------------------------------------
(* Digits.                                                                 *)

\* A quotient is known by the range of its remainder.
LEMMA DivUnique ==
  ASSUME NEW m \in Nat \ {0}, NEW q \in Nat, NEW s \in 0 .. m - 1
  PROVE  (q * m + s) \div m = q
<1>1. PICK p \in Nat : p = q * m + s
  OBVIOUS
<1>2. (q * m + s) % m = s
  BY ModUnique, Zenon
<1>3. p \div m \in Nat /\ p % m \in 0 .. m - 1 /\ p = (p \div m) * m + (p % m)
  BY Division, Zenon
<1>4. PICK d \in Nat : d = p \div m
  BY <1>3
<1>5. p = d * m + s
  BY <1>1, <1>2, <1>3, <1>4, Zenon
<1>6. PICK x \in Int, y \in Int : x = d * m /\ y = q * m
  OBVIOUS
<1>7. x = y
  BY <1>1, <1>5, <1>6
<1>8. d * m = q * m
  BY <1>6, <1>7
<1>9. d = q
  BY <1>8
<1> QED BY <1>1, <1>4, <1>9

\* Dividing by b * p is dividing by p and then by b; the remainder is the next
\* digit and the remainder modulo p.
LEMMA NextDigit ==
  ASSUME NEW b \in Nat \ {0}, NEW p \in Nat \ {0}, NEW v \in Nat
  PROVE  /\ v % (b * p) = ((v \div p) % b) * p + (v % p)
         /\ v \div (b * p) = (v \div p) \div b
<1>1. PICK q, r : q = v \div p /\ r = v % p
  OBVIOUS
<1>2. q \in Nat /\ r \in 0 .. p - 1 /\ v = q * p + r
  <2>1. v \div p \in Nat /\ v % p \in 0 .. p - 1 /\ v = (v \div p) * p + (v % p)
    BY Division, Zenon
  <2> QED BY <1>1, <2>1, Zenon
<1>3. PICK c, d : c = q \div b /\ d = q % b
  OBVIOUS
<1>4. c \in Nat /\ d \in 0 .. b - 1 /\ q = c * b + d
  <2>1. q \div b \in Nat /\ q % b \in 0 .. b - 1 /\ q = (q \div b) * b + (q % b)
    BY <1>2, Division, Zenon
  <2> QED BY <1>3, <2>1, Zenon
<1>5. PICK m : m = b * p
  OBVIOUS
<1>6. PICK s : s = d * p + r
  OBVIOUS
<1>7. m \in Nat \ {0}
  BY <1>5
<1>8. s \in 0 .. m - 1
  <2>1. d * p <= (b - 1) * p
    BY <1>4
  <2>2. (b - 1) * p = b * p - p
    OBVIOUS
  <2>3. d * p \in Nat
    BY <1>4
  <2> QED BY <1>2, <1>5, <1>6, <2>1, <2>2, <2>3
<1>9. v = c * m + s
  <2>1. q * p = (c * b) * p + d * p
    BY <1>4
  <2>2. (c * b) * p = c * m
    BY <1>4, <1>5
  <2>3. PICK x \in Int, y \in Int : x = c * m /\ y = d * p
    BY <1>4, <1>7
  <2>4. q * p = x + y /\ s = y + r /\ r \in Int
    BY <1>2, <1>6, <2>1, <2>2, <2>3
  <2>5. v = x + s
    BY <1>2, <2>3, <2>4
  <2> QED BY <2>3, <2>5
<1>10. (c * m + s) % m = s /\ (c * m + s) \div m = c
  BY <1>4, <1>7, <1>8, ModUnique, DivUnique, Zenon
<1>11. v % m = s /\ v \div m = c
  BY <1>9, <1>10, Zenon
<1> QED BY <1>1, <1>3, <1>5, <1>6, <1>11, Zenon

\* A number is its own remainder modulo a greater one.
LEMMA SmallRemainder ==
  ASSUME NEW m \in Nat, NEW v \in 0 .. m - 1
  PROVE  v % m = v
OBVIOUS

\* The first n digits of v to the base b, with their weights, add up to v modulo
\* the n-th power of b.
LEMMA Digits ==
  ASSUME NEW b \in Nat \ {0}, NEW v \in Nat, NEW n \in Nat, NEW f,
         \A i \in 1 .. n : f[i] = ((v \div Power(b, i - 1)) % b) * Power(b, i - 1)
  PROVE  Sum(f, 1 .. n) = v % Power(b, n)
<1>1. PICK Good : Good = {m \in Nat : m <= n => Sum(f, 1 .. m) = v % Power(b, m)}
  OBVIOUS
<1>2. 0 \in Good
  <2>1. Power(b, 0) = 1
    BY PowerRecursion
  <2>2. v % 1 = 0
    OBVIOUS
  <2>3. 1 .. 0 = {}
    OBVIOUS
  <2>4. Sum(f, 1 .. 0) = v % Power(b, 0)
    BY <2>1, <2>2, <2>3, SumEmpty
  <2> QED BY <1>1, <2>4
<1>3. \A i \in 1 .. n : f[i] \in Nat
  <2> SUFFICES ASSUME NEW i \in 1 .. n PROVE f[i] \in Nat
    OBVIOUS
  <2>1. PICK p : p = Power(b, i - 1)
    OBVIOUS
  <2>2. p \in Nat \ {0}
    BY <2>1, PowerPositive
  <2>3. f[i] = ((v \div p) % b) * p
    BY <2>1
  <2>4. v \div p \in Nat
    BY <2>2, Division, Zenon
  <2>5. (v \div p) % b \in Nat
    BY <2>4
  <2> QED BY <2>2, <2>3, <2>5
<1>4. ASSUME NEW m \in Nat, m \in Good PROVE m + 1 \in Good
  <2>0. m + 1 \in Nat
    OBVIOUS
  <2>1. CASE m + 1 <= n
    <3>1. PICK S : S = 1 .. m
      OBVIOUS
    <3>2. m + 1 \notin S /\ 1 .. m + 1 = S \union {m + 1} /\ m + 1 \in 1 .. n /\ (m + 1) - 1 = m
      BY <2>1, <3>1
    <3>3. IsFiniteSet(S)
      BY <3>1, FS_Interval
    <3>4. (\A x \in S : f[x] \in Nat) /\ f[m + 1] \in Nat
      BY <1>3, <2>1, <3>1, <3>2
    <3>5. Sum(f, S \union {m + 1}) = f[m + 1] + Sum(f, S)
      BY <3>2, <3>3, <3>4, SumOneMore, Zenon
    <3>6. PICK p : p = Power(b, m)
      OBVIOUS
    <3>7. p \in Nat \ {0} /\ Power(b, m + 1) = b * p
      BY <3>6, PowerPositive, PowerRecursion
    <3>8. f[m + 1] = ((v \div p) % b) * p
      BY <3>2, <3>6
    <3>9. Sum(f, S) = v % p
      BY <1>1, <1>4, <2>1, <3>1, <3>6
    <3>10. v % (b * p) = ((v \div p) % b) * p + (v % p)
      BY <3>7, NextDigit, Zenon
    <3>11. Sum(f, 1 .. m + 1) = v % Power(b, m + 1)
      BY <3>2, <3>5, <3>7, <3>8, <3>9, <3>10, Zenon
    <3> QED BY <1>1, <2>0, <3>11
  <2>2. CASE ~(m + 1 <= n)
    BY <1>1, <2>0, <2>2
  <2> QED BY <2>1, <2>2
<1>5. n \in Good
  BY <1>2, <1>4, NumberInduction
<1> QED BY <1>1, <1>5

\* A power is greater than its exponent.
LEMMA PowerGrows ==
  ASSUME NEW b \in Nat, b > 1, NEW n \in Nat
  PROVE  n < Power(b, n)
<1>1. PICK Good : Good = {m \in Nat : m < Power(b, m)}
  OBVIOUS
<1>2. 0 \in Good
  <2>1. Power(b, 0) = 1
    BY PowerRecursion
  <2> QED BY <1>1, <2>1
<1>3. ASSUME NEW m \in Nat, m \in Good PROVE m + 1 \in Good
  <2>1. PICK p : p = Power(b, m)
    OBVIOUS
  <2>2. p \in Nat /\ m < p /\ Power(b, m + 1) = b * p
    BY <1>1, <1>3, <2>1, PowerRecursion, PowerPositive
  <2>3. b * p >= 2 * p
    BY <2>2
  <2>4. b * p \in Int
    BY <2>2
  <2>5. m + 1 < b * p
    BY <2>2, <2>3, <2>4
  <2> QED BY <1>1, <2>2, <2>5
<1>4. n \in Good
  BY <1>2, <1>3, NumberInduction
<1> QED BY <1>1, <1>4
=============================================================================
