------------------------- MODULE CodingStreamProofs -------------------------
(***************************************************************************)
(* What is put into a string is what is read from it, however it is split  *)
(* on its way, for bytes and integers of every width, all strings and any  *)
(* number of items.                                                        *)
(***************************************************************************)
EXTENDS CodingStream, DbFormatProofs

USE ByteAssumption

-----------------------------------------------------------------------------
(* The decimal text of a number.                                           *)

\* n digits are what the number needs.
IsLength(num, n) == num < Power(10, n) /\ (n > 1 => num >= Power(10, n - 1))

\* There is only one such n.
LEMMA LengthUnique ==
  ASSUME NEW num \in Nat, NEW n \in Nat \ {0}, NEW m \in Nat \ {0},
         IsLength(num, n), IsLength(num, m)
  PROVE  n = m
<1>1. ASSUME NEW i \in Nat \ {0}, NEW j \in Nat \ {0}, IsLength(num, i), IsLength(num, j), i < j
      PROVE  FALSE
  <2>1. j - 1 \in Nat /\ i <= j - 1 /\ j > 1
    BY <1>1
  <2>2. PICK p, q : p = Power(10, i) /\ q = Power(10, j - 1)
    OBVIOUS
  <2>3. p \in Nat /\ q \in Nat /\ p <= q
    BY <2>1, <2>2, PowerPositive, PowerMonotone
  <2>4. num < p /\ num >= q
    BY <1>1, <2>1, <2>2, Zenon DEF IsLength
  <2> QED BY <2>3, <2>4
<1>2. ~(n < m) /\ ~(m < n)
  BY <1>1
<1> QED BY <1>2

\* What NumberToString computes.
LEMMA NumberText ==
  ASSUME NEW num \in Nat
  PROVE  \E n \in Nat \ {0} :
           /\ IsLength(num, n)
           /\ NumberToString(num) = [i \in 1 .. n |-> (num \div Power(10, n - i)) % 10]
<1>1. PICK T : T = {k \in Nat \ {0} : num < Power(10, k)}
  OBVIOUS
<1>2. num + 1 \in T
  <2>1. num + 1 \in Nat /\ num + 1 \in Nat \ {0}
    OBVIOUS
  <2>2. num + 1 < Power(10, num + 1) /\ Power(10, num + 1) \in Nat
    BY <2>1, PowerGrows, PowerPositive
  <2>3. num < Power(10, num + 1)
    BY <2>2
  <2> QED BY <1>1, <2>1, <2>3, Zenon
<1>3. PICK x \in T : \A y \in T : x <= y
  BY <1>1, <1>2, LeastNumber
<1>4. x \in 1 .. num + 1 /\ num < Power(10, x)
  BY <1>1, <1>2, <1>3
<1>5. x > 1 => num >= Power(10, x - 1)
  <2> SUFFICES ASSUME x > 1 PROVE num >= Power(10, x - 1)
    OBVIOUS
  <2>1. x - 1 \in Nat \ {0} /\ ~(x <= x - 1)
    BY <1>4
  <2>2. ~(num < Power(10, x - 1))
    BY <1>1, <1>3, <2>1
  <2>3. Power(10, x - 1) \in Nat
    BY <2>1, PowerPositive
  <2> QED BY <2>2, <2>3
<1> DEFINE n == CHOOSE k \in 1 .. num + 1 :
                  num < Power(10, k) /\ (k > 1 => num >= Power(10, k - 1))
<1>6. \E k \in 1 .. num + 1 : num < Power(10, k) /\ (k > 1 => num >= Power(10, k - 1))
  BY <1>4, <1>5, Zenon
<1>7. n \in 1 .. num + 1 /\ num < Power(10, n) /\ (n > 1 => num >= Power(10, n - 1))
  BY <1>6, Zenon
<1>8. NumberToString(num) = [i \in 1 .. n |-> (num \div Power(10, n - i)) % 10]
  BY Zenon DEF NumberToString
<1> HIDE DEF n
<1>9. n \in Nat \ {0}
  BY <1>7
<1>10. IsLength(num, n)
  BY <1>7, Zenon DEF IsLength
<1> QED BY <1>8, <1>9, <1>10, Zenon

-----------------------------------------------------------------------------
(* The loop of ConsumeDecimalNumber.                                       *)

\* The digits at the start of a string.
Leading(in) == Max({k \in 0 .. Len(in) : \A i \in 1 .. k : in[i] \in Digit})

\* g holds the variable value of the loop after each digit.
LoopStep(in, g, i) == IF i = 0 THEN 0 ELSE (g[i - 1] * 10 + in[i]) % Power(Base, Width64)
IsLoop(in, g, n)   == g = [i \in 0 .. n |-> LoopStep(in, g, i)]

\* The loop stops at the first byte that is no digit.
LEMMA LeadingIs ==
  ASSUME NEW in \in Seq(Byte), NEW n, n = Leading(in)
  PROVE  /\ n \in Nat /\ n <= Len(in) /\ \A i \in 1 .. n : in[i] \in Digit
         /\ n < Len(in) => in[n + 1] \notin Digit
<1>1. PICK l \in Nat : l = Len(in)
  OBVIOUS
<1>2. PICK T : T = {k \in 0 .. l : \A i \in 1 .. k : in[i] \in Digit}
  OBVIOUS
<1>3. T \subseteq Nat /\ 0 \in T /\ \A y \in T : y <= l
  BY <1>2
<1>4. \E x \in T : \A y \in T : x >= y
  BY <1>3, GreatestNumber
<1>5. n = Max(T)
  BY <1>1, <1>2, Zenon DEF Leading
<1>6. n \in T /\ \A y \in T : n >= y
  BY <1>4, <1>5, Zenon DEF Max
<1>7. n \in 0 .. l /\ \A i \in 1 .. n : in[i] \in Digit
  BY <1>2, <1>6
<1>8. ASSUME n < l, in[n + 1] \in Digit PROVE FALSE
  <2>1. n + 1 \in 0 .. l /\ \A i \in 1 .. n + 1 : i \in 1 .. n \/ i = n + 1
    BY <1>7, <1>8
  <2>2. n + 1 \in T
    BY <1>2, <1>7, <1>8, <2>1, Zenon
  <2> QED BY <1>6, <1>7, <2>2
<1> QED BY <1>1, <1>7, <1>8

\* The loop is well defined.
LEMMA LoopExists ==
  ASSUME NEW in, NEW n \in Nat
  PROVE  \E g : IsLoop(in, g, n)
<1>1. PICK Good : Good = {m \in Nat : \E g : IsLoop(in, g, m)}
  OBVIOUS
<1>2. 0 \in Good
  <2>1. PICK g : g = [i \in 0 .. 0 |-> 0]
    OBVIOUS
  <2>2. \A i \in 0 .. 0 : LoopStep(in, g, i) = 0
    <3> SUFFICES ASSUME NEW i \in 0 .. 0 PROVE LoopStep(in, g, i) = 0
      OBVIOUS
    <3>1. i = 0
      OBVIOUS
    <3> QED BY <3>1, Zenon DEF LoopStep
  <2>3. IsLoop(in, g, 0)
    BY <2>1, <2>2, Zenon DEF IsLoop
  <2> QED BY <1>1, <2>3
<1>3. ASSUME NEW m \in Nat, m \in Good PROVE m + 1 \in Good
  <2>1. PICK g : IsLoop(in, g, m)
    BY <1>1, <1>3
  <2>2. PICK h : h = [i \in 0 .. m + 1 |-> LoopStep(in, g, i)]
    OBVIOUS
  <2>3. ASSUME NEW i \in 0 .. m + 1 PROVE LoopStep(in, g, i) = LoopStep(in, h, i)
    <3>1. CASE i = 0
      BY <3>1, Zenon DEF LoopStep
    <3>2. CASE i # 0
      <4>1. i - 1 \in 0 .. m /\ i - 1 \in 0 .. m + 1
        BY <3>2
      <4>2. h[i - 1] = LoopStep(in, g, i - 1)
        BY <2>2, <4>1, Zenon
      <4>3. g[i - 1] = LoopStep(in, g, i - 1)
        BY <2>1, <4>1, Zenon DEF IsLoop
      <4>4. g[i - 1] = h[i - 1]
        BY <4>2, <4>3
      <4> QED BY <3>2, <4>4, Zenon DEF LoopStep
    <3> QED BY <3>1, <3>2
  <2>4. IsLoop(in, h, m + 1)
    BY <2>2, <2>3, Zenon DEF IsLoop
  <2>5. m + 1 \in Nat
    OBVIOUS
  <2> QED BY <1>1, <2>4, <2>5, Zenon
<1>4. n \in Good
  BY <1>2, <1>3, NumberInduction
<1> QED BY <1>1, <1>4

\* What ConsumeDecimalNumber computes.
LEMMA ConsumeIs ==
  ASSUME NEW in \in Seq(Byte), NEW n, n = Leading(in)
  PROVE  \E g :
           /\ IsLoop(in, g, n)
           /\ ConsumeDecimalNumber(in) =
                IF \E i \in 1 .. n : TooLarge(g[i - 1], in[i]) THEN Failed(in)
                ELSE [ok |-> n # 0, value |-> g[n], rest |-> Drop(in, n)]
<1>1. n \in Nat
  BY LeadingIs
<1> DEFINE value == CHOOSE value :
                      value = [i \in 0 .. n |-> IF i = 0 THEN 0
                                 ELSE (value[i - 1] * 10 + in[i]) % Power(Base, Width64)]
<1>2. \E g : g = [i \in 0 .. n |-> IF i = 0 THEN 0
                    ELSE (g[i - 1] * 10 + in[i]) % Power(Base, Width64)]
  BY <1>1, LoopExists DEF IsLoop, LoopStep
<1>3. value = [i \in 0 .. n |-> IF i = 0 THEN 0
                 ELSE (value[i - 1] * 10 + in[i]) % Power(Base, Width64)]
  BY <1>2, Zenon
<1>4. IsLoop(in, value, n)
  BY <1>3, Zenon DEF IsLoop, LoopStep
<1>5. ConsumeDecimalNumber(in) =
        IF \E i \in 1 .. n : TooLarge(value[i - 1], in[i]) THEN Failed(in)
        ELSE [ok |-> n # 0, value |-> value[n], rest |-> Drop(in, n)]
  BY Zenon DEF ConsumeDecimalNumber, Leading
<1> HIDE DEF value
<1> QED BY <1>4, <1>5, Zenon

-----------------------------------------------------------------------------
(* The value of the digits.                                                *)

\* The greatest number of 64 bits.
LEMMA MaxIs ==
  /\ s_max_uint64 \in Nat /\ Power(Base, Width64) = s_max_uint64 + 1
  /\ \A v : v \in UInt64 <=> v \in Nat /\ v <= s_max_uint64
<1>1. PICK p : p = Power(Base, Width64)
  OBVIOUS
<1>2. Base \in Nat \ {0} /\ Width64 \in Nat
  BY TagWidth
<1>3. p \in Nat \ {0}
  BY <1>1, <1>2, PowerPositive
<1>4. s_max_uint64 = p - 1 /\ UInt64 = 0 .. p - 1
  BY <1>1, Zenon DEF s_max_uint64, UInt64
<1> QED BY <1>1, <1>3, <1>4

\* The test before a digit is taken says whether the number would be too great.
LEMMA TooLargeIs ==
  ASSUME NEW y \in Nat, NEW d \in Digit
  PROVE  TooLarge(y, d) <=> ~(y * 10 + d \in UInt64)
<1>1. PICK m \in Nat : m = s_max_uint64
  BY MaxIs
<1>2. m \div 10 \in Nat /\ m % 10 \in 0 .. 9 /\ m = (m \div 10) * 10 + (m % 10)
  OBVIOUS
<1>3. PICK q \in Nat, r \in 0 .. 9 : q = m \div 10 /\ r = m % 10
  BY <1>2
<1>4. TooLarge(y, d) <=> y > q \/ (y = q /\ d > r)
  BY <1>1, <1>3, Zenon DEF TooLarge
<1>5. m = q * 10 + r
  BY <1>2, <1>3
<1>6. y * 10 + d \in UInt64 <=> y * 10 + d <= m
  BY <1>1, MaxIs DEF Digit
<1> QED BY <1>4, <1>5, <1>6 DEF Digit

\* The digits before the i-th are what is left when the i-th is cut off.
LEMMA CutDigit ==
  ASSUME NEW v \in Nat, NEW k \in Nat
  PROVE  /\ v \div Power(10, k + 1) = (v \div Power(10, k)) \div 10
         /\ v \div Power(10, k) \in Nat /\ v \div Power(10, k) <= v
<1>1. PICK p : p = Power(10, k)
  OBVIOUS
<1>2. p \in Nat \ {0} /\ Power(10, k + 1) = 10 * p
  BY <1>1, PowerPositive, PowerRecursion
<1>3. 10 \in Nat \ {0}
  OBVIOUS
<1>4. v \div (10 * p) = (v \div p) \div 10
  BY <1>2, <1>3, NextDigit, Zenon
<1>5. v \div p \in Nat /\ v % p \in 0 .. p - 1 /\ v = (v \div p) * p + (v % p)
  BY <1>2, Division, Zenon
<1>6. PICK x \in Nat, r \in Nat : x = v \div p /\ r = v % p
  BY <1>5
<1>7. v = x * p + r
  BY <1>5, <1>6, Zenon
<1>8. x * p >= x
  BY <1>2
<1>9. x <= v
  <2>1. PICK y \in Int : y = x * p
    BY <1>2
  <2> QED BY <1>7, <1>8, <2>1
<1> QED BY <1>1, <1>2, <1>4, <1>6, <1>9, Zenon

\* A number has no more digits than its length says.
LEMMA NoDigitsLeft ==
  ASSUME NEW v \in Nat, NEW n \in Nat
  PROVE  v < Power(10, n) <=> v \div Power(10, n) = 0
<1>1. PICK p : p = Power(10, n)
  OBVIOUS
<1>2. p \in Nat \ {0}
  BY <1>1, PowerPositive
<1>3. v \div p \in Nat /\ v % p \in 0 .. p - 1 /\ v = (v \div p) * p + (v % p)
  BY <1>2, Division, Zenon
<1>4. PICK x \in Nat, r \in 0 .. p - 1 : x = v \div p /\ r = v % p
  BY <1>3
<1>5. v = x * p + r
  BY <1>3, <1>4, Zenon
<1>6. x >= 1 => x * p >= p
  BY <1>2
<1>7. PICK y \in Int : y = x * p
  BY <1>2
<1>8. x = 0 => y = 0
  BY <1>2, <1>7
<1>9. v < p <=> x = 0
  BY <1>2, <1>4, <1>5, <1>6, <1>7, <1>8
<1> QED BY <1>1, <1>4, <1>9, Zenon

\* The loop computes the number whose digits it finds, and finds none too large.
LEMMA LoopFollows ==
  ASSUME NEW in, NEW n \in Nat, NEW g, IsLoop(in, g, n),
         NEW v \in UInt64, v < Power(10, n),
         \A i \in 1 .. n : in[i] = (v \div Power(10, n - i)) % 10
  PROVE  g[n] = v /\ \A i \in 1 .. n : ~TooLarge(g[i - 1], in[i])
<1>1. PICK M : M = s_max_uint64
  OBVIOUS
<1>2. M \in Nat /\ v \in Nat /\ v <= M /\ Power(Base, Width64) = M + 1
  BY <1>1, MaxIs
<1>3. PICK x : x = [i \in 0 .. n |-> v \div Power(10, n - i)]
  OBVIOUS
<1>4. x[0] = 0 /\ x[n] = v
  <2>1. 0 \in 0 .. n /\ n \in 0 .. n /\ n - 0 = n /\ n - n = 0
    OBVIOUS
  <2>2. x[0] = v \div Power(10, n) /\ x[n] = v \div Power(10, 0)
    BY <1>3, <2>1
  <2>3. Power(10, 0) = 1
    BY PowerRecursion
  <2>4. v \div 1 = v
    BY <1>2
  <2>5. v \div Power(10, n) = 0
    BY <1>2, NoDigitsLeft, Zenon
  <2> QED BY <2>2, <2>3, <2>4, <2>5
<1>5. ASSUME NEW i \in 0 .. n PROVE x[i] \in Nat /\ x[i] <= v
  <2>1. n - i \in Nat
    OBVIOUS
  <2>2. v \div Power(10, n - i) \in Nat /\ v \div Power(10, n - i) <= v
    BY <1>2, <2>1, CutDigit
  <2> QED BY <1>3, <2>2
<1>6. ASSUME NEW i \in 1 .. n
      PROVE  x[i] = x[i - 1] * 10 + in[i] /\ in[i] \in Digit /\ x[i - 1] \in Nat /\ x[i] \in Nat
  <2>1. PICK k \in Nat : k = n - i
    OBVIOUS
  <2>2. n - (i - 1) = k + 1 /\ i - 1 \in 0 .. n /\ i \in 0 .. n
    BY <2>1
  <2>3. x[i - 1] = v \div Power(10, k + 1) /\ x[i] = v \div Power(10, k)
    BY <1>3, <2>1, <2>2
  <2>4. PICK y : y = x[i]
    OBVIOUS
  <2>5. y \in Nat
    BY <1>5, <2>2, <2>4
  <2>6. x[i - 1] = y \div 10
    <3>1. v \in Nat /\ k \in Nat
      BY <1>2
    <3>2. v \div Power(10, k + 1) = (v \div Power(10, k)) \div 10
      BY <3>1, CutDigit
    <3> QED BY <2>3, <2>4, <3>2
  <2>7. in[i] = y % 10
    BY <2>1, <2>3, <2>4
  <2> QED BY <2>4, <2>5, <2>6, <2>7 DEF Digit
<1>7. PICK Good : Good = {i \in Nat : i <= n => g[i] = x[i]}
  OBVIOUS
<1>8. 0 \in Good
  <2>1. g[0] = 0
    <3>1. 0 \in 0 .. n
      OBVIOUS
    <3>2. g[0] = LoopStep(in, g, 0)
      BY <3>1, Zenon DEF IsLoop
    <3> QED BY <3>2, Zenon DEF LoopStep
  <2> QED BY <1>4, <1>7, <2>1
<1>9. ASSUME NEW i \in Nat, i \in Good PROVE i + 1 \in Good
  <2>1. CASE i + 1 <= n
    <3>1. i + 1 \in 0 .. n /\ i + 1 \in 1 .. n /\ i + 1 # 0 /\ (i + 1) - 1 = i /\ i <= n
      BY <2>1
    <3>2. g[i] = x[i]
      BY <1>7, <1>9, <3>1
    <3>3. g[i + 1] = LoopStep(in, g, i + 1)
      BY <3>1, Zenon DEF IsLoop
    <3>4. g[i + 1] = (x[i] * 10 + in[i + 1]) % (M + 1)
      BY <1>2, <3>1, <3>2, <3>3, Zenon DEF LoopStep
    <3>5. x[i + 1] = x[i] * 10 + in[i + 1]
      BY <1>6, <3>1
    <3>6. x[i + 1] \in 0 .. (M + 1) - 1 /\ M + 1 \in Nat
      BY <1>2, <1>5, <3>1
    <3>7. x[i + 1] % (M + 1) = x[i + 1]
      BY <3>6, SmallRemainder, Zenon
    <3> QED BY <1>7, <3>4, <3>5, <3>7
  <2>2. CASE ~(i + 1 <= n)
    BY <1>7, <2>2
  <2> QED BY <2>1, <2>2
<1>10. Nat \subseteq Good
  BY <1>8, <1>9, NumberInduction
<1>11. ASSUME NEW i \in 0 .. n PROVE g[i] = x[i]
  BY <1>7, <1>10
<1>12. ASSUME NEW i \in 1 .. n PROVE ~TooLarge(g[i - 1], in[i])
  <2>1. i - 1 \in 0 .. n /\ i \in 0 .. n
    OBVIOUS
  <2>2. x[i - 1] * 10 + in[i] \in UInt64
    BY <1>1, <1>2, <1>5, <1>6, <2>1, MaxIs
  <2>3. ~TooLarge(x[i - 1], in[i])
    BY <1>6, <2>2, TooLargeIs
  <2> QED BY <1>11, <2>1, <2>3
<1>13. g[n] = v
  BY <1>4, <1>11
<1> QED BY <1>12, <1>13

\* If no digit is too large, the loop has not lost anything: cutting the digits
\* off again gives back its values.
LEMMA LoopBack ==
  ASSUME NEW in, NEW n \in Nat, NEW g, IsLoop(in, g, n),
         \A i \in 1 .. n : in[i] \in Digit /\ ~TooLarge(g[i - 1], in[i])
  PROVE  /\ g[0] = 0 /\ g[n] \in UInt64
         /\ \A i \in 1 .. n : g[i] = g[i - 1] * 10 + in[i]
         /\ \A i \in 0 .. n : g[i] \in Nat /\ g[i] = g[n] \div Power(10, n - i)
<1>1. g[0] = 0
  <2>1. 0 \in 0 .. n
    OBVIOUS
  <2>2. g[0] = LoopStep(in, g, 0)
    BY <2>1, Zenon DEF IsLoop
  <2> QED BY <2>2, Zenon DEF LoopStep
<1>2. PICK M : M = s_max_uint64
  OBVIOUS
<1>3. M \in Nat /\ Power(Base, Width64) = M + 1
  BY <1>2, MaxIs
<1>4. ASSUME NEW i \in 1 .. n, g[i - 1] \in Nat
      PROVE  g[i] = g[i - 1] * 10 + in[i] /\ g[i] \in UInt64 /\ g[i] \in Nat
  <2>1. in[i] \in Digit /\ ~TooLarge(g[i - 1], in[i])
    OBVIOUS
  <2>2. PICK y : y = g[i - 1] * 10 + in[i]
    OBVIOUS
  <2>3. y \in UInt64
    BY <1>4, <2>1, <2>2, TooLargeIs
  <2>4. y \in 0 .. (M + 1) - 1 /\ M + 1 \in Nat
    BY <1>2, <1>3, <2>3, MaxIs
  <2>5. y % (M + 1) = y
    BY <2>4, SmallRemainder, Zenon
  <2>6. i \in 0 .. n /\ i # 0
    OBVIOUS
  <2>7. g[i] = LoopStep(in, g, i)
    BY <2>6, Zenon DEF IsLoop
  <2>8. g[i] = y % (M + 1)
    BY <1>3, <2>2, <2>6, <2>7, Zenon DEF LoopStep
  <2> QED BY <2>2, <2>3, <2>4, <2>5, <2>8
<1>5. PICK Good : Good = {i \in Nat : i <= n => g[i] \in UInt64 /\ g[i] \in Nat}
  OBVIOUS
<1>6. 0 \in Good
  BY <1>1, <1>3, <1>5, MaxIs
<1>7. ASSUME NEW i \in Nat, i \in Good PROVE i + 1 \in Good
  <2>1. CASE i + 1 <= n
    <3>1. i + 1 \in 1 .. n /\ (i + 1) - 1 = i /\ i <= n
      BY <2>1
    <3>2. g[i] \in Nat
      BY <1>5, <1>7, <3>1
    <3>3. g[i + 1] \in UInt64 /\ g[i + 1] \in Nat
      BY <1>4, <3>1, <3>2
    <3> QED BY <1>5, <3>3
  <2>2. CASE ~(i + 1 <= n)
    BY <1>5, <2>2
  <2> QED BY <2>1, <2>2
<1>8. Nat \subseteq Good
  BY <1>6, <1>7, NumberInduction
<1>9. ASSUME NEW i \in 0 .. n PROVE g[i] \in UInt64 /\ g[i] \in Nat
  BY <1>5, <1>8
<1>10. ASSUME NEW i \in 1 .. n PROVE g[i] = g[i - 1] * 10 + in[i]
  <2>1. i - 1 \in 0 .. n
    OBVIOUS
  <2> QED BY <1>4, <1>9, <2>1
<1>11. PICK v : v = g[n]
  OBVIOUS
<1>12. v \in Nat /\ v \in UInt64
  BY <1>9, <1>11
<1>13. PICK Back : Back = {k \in Nat : k <= n => g[n - k] = v \div Power(10, k)}
  OBVIOUS
<1>14. 0 \in Back
  <2>1. Power(10, 0) = 1 /\ n - 0 = n
    BY PowerRecursion
  <2>2. v \div 1 = v
    BY <1>12
  <2> QED BY <1>11, <1>13, <2>1, <2>2
<1>15. ASSUME NEW k \in Nat, k \in Back PROVE k + 1 \in Back
  <2>1. CASE k + 1 <= n
    <3>1. PICK i \in 1 .. n : i = n - k
      BY <2>1
    <3>2. n - (k + 1) = i - 1 /\ i - 1 \in 0 .. n /\ k <= n
      BY <2>1, <3>1
    <3>3. g[i] = v \div Power(10, k)
      BY <1>13, <1>15, <3>1, <3>2
    <3>4. g[i] = g[i - 1] * 10 + in[i] /\ in[i] \in 0 .. 9 /\ g[i - 1] \in Nat
      BY <1>9, <1>10, <3>2 DEF Digit
    <3>5. g[i] \div 10 = g[i - 1]
      BY <3>4, SMTT(30)
    <3>6. v \div Power(10, k + 1) = (v \div Power(10, k)) \div 10
      BY <1>12, CutDigit
    <3>7. g[n - (k + 1)] = v \div Power(10, k + 1)
      BY <3>2, <3>3, <3>5, <3>6
    <3> QED BY <1>13, <3>7
  <2>2. CASE ~(k + 1 <= n)
    BY <1>13, <2>2
  <2> QED BY <2>1, <2>2
<1>16. Nat \subseteq Back
  BY <1>14, <1>15, NumberInduction
<1>17. ASSUME NEW i \in 0 .. n PROVE g[i] = v \div Power(10, n - i)
  <2>1. n - i \in Nat /\ n - i <= n /\ n - (n - i) = i
    OBVIOUS
  <2> QED BY <1>13, <1>16, <2>1
<1> QED BY <1>1, <1>9, <1>10, <1>11, <1>12, <1>17

\* The first digit that counts: the first that is not zero, or the last one.
FirstDigit(in, n) == Min({i \in 1 .. n : in[i] # 0} \union {Max({n, 1})})

\* Only zeros are before it.
LEMMA FirstDigitIs ==
  ASSUME NEW in, NEW n \in Nat \ {0}, NEW first, first = FirstDigit(in, n)
  PROVE  /\ first \in 1 .. n /\ \A i \in 1 .. first - 1 : in[i] = 0
         /\ first < n => in[first] # 0
<1>1. Max({n, 1}) = n
  <2>1. PICK T : T = {n, 1}
    OBVIOUS
  <2>2. \E x \in T : \A y \in T : x >= y
    BY <2>1
  <2>3. Max(T) \in T /\ \A y \in T : Max(T) >= y
    BY <2>2, Zenon DEF Max
  <2>4. PICK x : x = Max(T)
    OBVIOUS
  <2>5. x = n
    BY <2>1, <2>3, <2>4
  <2> QED BY <2>1, <2>4, <2>5
<1>2. PICK T : T = {i \in 1 .. n : in[i] # 0} \union {n}
  OBVIOUS
<1>3. first = Min(T)
  BY <1>1, <1>2, Zenon DEF FirstDigit
<1>4. T \subseteq Nat /\ T # {} /\ n \in T
  BY <1>2
<1>5. first \in T /\ \A y \in T : first <= y
  BY <1>3, <1>4, MinimumIsLeast
<1>6. first \in 1 .. n
  BY <1>2, <1>5
<1>7. ASSUME NEW i \in 1 .. first - 1 PROVE in[i] = 0
  <2>1. i \in 1 .. n /\ ~(first <= i)
    BY <1>6
  <2> QED BY <1>2, <1>5, <2>1
<1>8. first < n => in[first] # 0
  BY <1>2, <1>5, <1>6
<1> QED BY <1>6, <1>7, <1>8

\* When the loop succeeds, the digits it took, without leading zeros, are the text
\* of its value.
LEMMA LoopText ==
  ASSUME NEW in \in Seq(Byte), NEW n \in Nat \ {0}, n <= Len(in), NEW g, IsLoop(in, g, n),
         \A i \in 1 .. n : in[i] \in Digit /\ ~TooLarge(g[i - 1], in[i])
  PROVE  NumberToString(g[n]) = SubSeq(in, FirstDigit(in, n), n)
<1>1. PICK v : v = g[n]
  OBVIOUS
<1>2. /\ g[0] = 0 /\ v \in UInt64
      /\ \A i \in 1 .. n : g[i] = g[i - 1] * 10 + in[i]
      /\ \A i \in 0 .. n : g[i] \in Nat /\ g[i] = v \div Power(10, n - i)
  <2>1. n \in Nat
    OBVIOUS
  <2>2. /\ g[0] = 0 /\ g[n] \in UInt64
        /\ \A i \in 1 .. n : g[i] = g[i - 1] * 10 + in[i]
        /\ \A i \in 0 .. n : g[i] \in Nat /\ g[i] = g[n] \div Power(10, n - i)
    BY <2>1, LoopBack, ZenonT(40)
  <2> QED BY <1>1, <2>2, Zenon
<1>3. v \in Nat
  BY <1>1, <1>2
<1>4. PICK first : first = FirstDigit(in, n)
  OBVIOUS
<1>5. /\ first \in 1 .. n /\ \A i \in 1 .. first - 1 : in[i] = 0
      /\ first < n => in[first] # 0
  BY <1>4, FirstDigitIs
<1>6. PICK k \in Nat \ {0} : k = n - first + 1
  BY <1>5
<1>7. PICK Zero : Zero = {i \in Nat : i < first => g[i] = 0}
  OBVIOUS
<1>8. ASSUME NEW i \in Nat, i \in Zero PROVE i + 1 \in Zero
  <2>1. CASE i + 1 < first
    <3>1. i + 1 \in 1 .. first - 1 /\ i + 1 \in 1 .. n /\ (i + 1) - 1 = i
      BY <1>5, <2>1
    <3>2. in[i + 1] = 0 /\ g[i + 1] = g[i] * 10 + in[i + 1]
      BY <1>2, <1>5, <3>1
    <3>3. g[i] = 0
      BY <1>5, <1>7, <1>8, <2>1
    <3> QED BY <1>7, <3>2, <3>3
  <2>2. CASE ~(i + 1 < first)
    BY <1>7, <2>2
  <2> QED BY <2>1, <2>2
<1>9. g[first - 1] = 0
  <2>1. 0 \in Zero
    BY <1>2, <1>7
  <2>2. Nat \subseteq Zero
    BY <1>8, <2>1, NumberInduction
  <2>3. first - 1 \in Nat /\ first - 1 < first
    BY <1>5
  <2> QED BY <1>7, <2>2, <2>3
<1>10. IsLength(v, k)
  <2>1. first - 1 \in 0 .. n /\ n - (first - 1) = k
    BY <1>5, <1>6
  <2>2. v \div Power(10, k) = 0
    BY <1>2, <1>9, <2>1
  <2>3. v < Power(10, k)
    BY <1>3, <1>6, <2>2, NoDigitsLeft
  <2>4. ASSUME k > 1 PROVE v >= Power(10, k - 1)
    <3>1. first < n /\ first \in 0 .. n /\ first \in 1 .. n /\ n - first = k - 1 /\ k - 1 \in Nat
      BY <1>5, <1>6, <2>4
    <3>2. in[first] # 0 /\ in[first] \in Digit /\ g[first] = g[first - 1] * 10 + in[first]
      BY <1>2, <1>5, <3>1
    <3>3. g[first] # 0
      BY <1>9, <3>2 DEF Digit
    <3>4. v \div Power(10, k - 1) # 0
      BY <1>2, <3>1, <3>3
    <3>5. PICK p : p = Power(10, k - 1)
      OBVIOUS
    <3>6. p \in Nat
      BY <3>1, <3>5, PowerPositive
    <3>7. ~(v < p)
      BY <1>3, <3>1, <3>4, <3>5, NoDigitsLeft
    <3>8. v >= p
      BY <1>3, <3>6, <3>7
    <3> QED BY <3>5, <3>8
  <2> QED BY <2>3, <2>4, Zenon DEF IsLength
<1>11. PICK m \in Nat \ {0} :
         /\ IsLength(v, m)
         /\ NumberToString(v) = [i \in 1 .. m |-> (v \div Power(10, m - i)) % 10]
  BY <1>3, NumberText
<1>12. m = k
  BY <1>3, <1>10, <1>11, LengthUnique, Zenon
<1>13. PICK s : s = NumberToString(v)
  OBVIOUS
<1>14. PICK t : t = SubSeq(in, first, n)
  OBVIOUS
<1>15. t \in Seq(Byte) /\ Len(t) = k /\ \A j \in 1 .. k : t[j] = in[first - 1 + j]
  <2>1. t \in Seq(Byte)
    BY <1>5, <1>14
  <2>2. Len(t) = k
    BY <1>5, <1>6, <1>14
  <2>3. \A j \in 1 .. k : t[j] = in[first - 1 + j]
    BY <1>5, <1>6, <1>14
  <2> QED BY <2>1, <2>2, <2>3
<1>16. ASSUME NEW j \in 1 .. k PROVE s[j] = t[j] /\ t[j] \in Byte
  <2>1. PICK i \in 1 .. n : i = first - 1 + j
    BY <1>5, <1>6
  <2>2. i \in 0 .. n /\ i - 1 \in 0 .. n /\ n - i = k - j
    BY <1>5, <1>6, <2>1
  <2>3. s[j] = (v \div Power(10, k - j)) % 10
    BY <1>11, <1>12, <1>13
  <2>4. g[i] = v \div Power(10, k - j) /\ g[i - 1] \in Nat
    BY <1>2, <2>2
  <2>5. g[i] = g[i - 1] * 10 + in[i] /\ in[i] \in 0 .. 9
    BY <1>2 DEF Digit
  <2>6. g[i] % 10 = in[i]
    <3>1. PICK x \in Nat, d \in 0 .. 9 : x = g[i - 1] /\ d = in[i]
      BY <2>4, <2>5
    <3>2. PICK b : b = 10
      OBVIOUS
    <3>3. b \in Nat \ {0}
      BY <3>2
    <3>4. b - 1 = 9
      BY <3>2
    <3>5. d \in 0 .. b - 1
      BY <3>1, <3>4
    <3>6. (x * b + d) % b = d
      BY <3>3, <3>5, ModUnique, Zenon
    <3>7. g[i] = x * b + d
      BY <2>5, <3>1, <3>2, Zenon
    <3> QED BY <3>1, <3>2, <3>6, <3>7, Zenon
  <2>7. in[i] \in Byte
    BY <2>5, SeparatorAssumption DEF Byte
  <2>8. t[j] = in[i]
    BY <1>15, <2>1
  <2> QED BY <2>3, <2>4, <2>6, <2>7, <2>8
<1>17. s \in [1 .. k -> Byte]
  BY <1>11, <1>12, <1>13, <1>16, Zenon
<1>18. s \in Seq(Byte) /\ Len(s) = k
  BY <1>17
<1>19. s = t
  BY <1>15, <1>16, <1>18, SameSequence
<1> QED BY <1>1, <1>4, <1>13, <1>14, <1>19

\* The text of a number, with zeros in front, is taken by the loop.
LEMMA TextTaken ==
  ASSUME NEW in \in Seq(Byte), NEW n \in Nat \ {0}, n <= Len(in), NEW g, IsLoop(in, g, n),
         NEW v \in UInt64, NumberToString(v) = SubSeq(in, FirstDigit(in, n), n)
  PROVE  \A i \in 1 .. n : ~TooLarge(g[i - 1], in[i])
<1>1. v \in Nat
  BY MaxIs
<1>2. PICK first : first = FirstDigit(in, n)
  OBVIOUS
<1>3. first \in 1 .. n /\ \A i \in 1 .. first - 1 : in[i] = 0
  BY <1>2, FirstDigitIs
<1>4. PICK k \in Nat \ {0} :
         /\ IsLength(v, k)
         /\ NumberToString(v) = [i \in 1 .. k |-> (v \div Power(10, k - i)) % 10]
  BY <1>1, NumberText
<1>5. PICK t : t = SubSeq(in, first, n)
  OBVIOUS
<1>6. t = [i \in 1 .. k |-> (v \div Power(10, k - i)) % 10]
  BY <1>2, <1>4, <1>5
<1>7. DOMAIN t = 1 .. n - first + 1 /\ \A j \in 1 .. n - first + 1 : t[j] = in[first - 1 + j]
  <2>1. t \in Seq(Byte)
    BY <1>3, <1>5
  <2>2. Len(t) = n - first + 1
    BY <1>3, <1>5
  <2>3. \A j \in 1 .. n - first + 1 : t[j] = in[first - 1 + j]
    BY <1>3, <1>5
  <2> QED BY <2>1, <2>2, <2>3
<1>8. k = n - first + 1
  <2>1. DOMAIN t = 1 .. k
    BY <1>6, Zenon
  <2> QED BY <1>3, <1>7, <2>1
<1>9. v < Power(10, n)
  <2>1. k <= n
    BY <1>3, <1>8
  <2>2. PICK p, q : p = Power(10, k) /\ q = Power(10, n)
    OBVIOUS
  <2>3. p \in Nat /\ q \in Nat /\ p <= q
    BY <2>1, <2>2, PowerPositive, PowerMonotone
  <2>4. v < p
    BY <1>4, <2>2, Zenon DEF IsLength
  <2>5. v < q
    BY <1>1, <2>3, <2>4
  <2> QED BY <2>2, <2>5
<1>10. ASSUME NEW i \in 1 .. n PROVE in[i] = (v \div Power(10, n - i)) % 10
  <2>1. CASE i < first
    <3>1. in[i] = 0
      BY <1>3, <2>1
    <3>2. n - i \in Nat /\ k <= n - i
      BY <1>3, <1>8, <2>1
    <3>3. PICK p, q : p = Power(10, k) /\ q = Power(10, n - i)
      OBVIOUS
    <3>4. p \in Nat /\ q \in Nat /\ p <= q
      BY <3>2, <3>3, PowerPositive, PowerMonotone
    <3>5. v < p
      BY <1>4, <3>3, Zenon DEF IsLength
    <3>6. v < q
      BY <1>1, <3>4, <3>5
    <3>7. v \div Power(10, n - i) = 0
      BY <1>1, <3>2, <3>3, <3>6, NoDigitsLeft
    <3> QED BY <3>1, <3>7
  <2>2. CASE ~(i < first)
    <3>1. PICK j \in 1 .. k : j = i - first + 1
      BY <1>3, <1>8, <2>2
    <3>2. first - 1 + j = i /\ k - j = n - i
      BY <1>3, <1>8, <3>1
    <3>3. t[j] = in[i]
      BY <1>7, <1>8, <3>2
    <3>4. t[j] = (v \div Power(10, k - j)) % 10
      BY <1>6, Zenon
    <3> QED BY <3>2, <3>3, <3>4
  <2> QED BY <2>1, <2>2
<1> QED BY <1>9, <1>10, LoopFollows

\* What ConsumeDecimalNumber must return for an input of n leading digits that
\* spell text once the zeros before it are left out.
Exact(in, n, r, text) ==
  /\ r.ok => r.value \in UInt64 /\ NumberToString(r.value) = text /\ r.rest = Drop(in, n)
  /\ ~r.ok => r.rest = in
  /\ \A v \in UInt64 : NumberToString(v) = text => r.ok

\* ConsumeDecimalNumber takes the digits at the start of a string if they are the
\* text of a number, leading zeros aside, and otherwise nothing.
LEMMA ConsumeExact ==
  ASSUME NEW in \in Seq(Byte), NEW n, n = Leading(in),
         NEW r, r = ConsumeDecimalNumber(in),
         NEW text, text = SubSeq(in, FirstDigit(in, n), n)
  PROVE  Exact(in, n, r, text)
<1> SUFFICES
  /\ r.ok => r.value \in UInt64 /\ NumberToString(r.value) = text /\ r.rest = Drop(in, n)
  /\ ~r.ok => r.rest = in
  /\ \A v \in UInt64 : NumberToString(v) = text => r.ok
  BY Zenon DEF Exact
<1>1. n \in Nat /\ n <= Len(in) /\ \A i \in 1 .. n : in[i] \in Digit
  BY LeadingIs
<1>2. PICK g :
        /\ IsLoop(in, g, n)
        /\ r = IF \E i \in 1 .. n : TooLarge(g[i - 1], in[i]) THEN Failed(in)
               ELSE [ok |-> n # 0, value |-> g[n], rest |-> Drop(in, n)]
  BY ConsumeIs
<1>3. CASE n = 0
  <2>1. 1 .. n = {}
    BY <1>3
  <2>2. r = [ok |-> FALSE, value |-> g[n], rest |-> Drop(in, n)]
    BY <1>2, <1>3, <2>1
  <2>3. Drop(in, n) = in
    <3>1. PICK d : d = Drop(in, n)
      OBVIOUS
    <3>2. d \in Seq(Byte) /\ Len(d) = Len(in) /\ \A j \in 1 .. Len(d) : d[j] = in[j]
      BY <1>3, <3>1 DEF Drop
    <3> QED BY <3>1, <3>2, SameSequence
  <2>4. r.ok = FALSE /\ r.rest = in
    BY <2>2, <2>3
  <2>5. FirstDigit(in, n) = 1
    <3>1. Max({n, 1}) = 1
      <4>1. PICK T : T = {n, 1}
        OBVIOUS
      <4>2. \E x \in T : \A y \in T : x >= y
        BY <1>3, <4>1
      <4>3. Max(T) \in T /\ \A y \in T : Max(T) >= y
        BY <4>2, Zenon DEF Max
      <4>4. PICK x : x = Max(T)
        OBVIOUS
      <4>5. x = 1
        BY <1>3, <4>1, <4>3, <4>4
      <4> QED BY <4>1, <4>4, <4>5
    <3>2. {i \in 1 .. n : in[i] # 0} \union {Max({n, 1})} = {1}
      BY <2>1, <3>1
    <3>3. Min({1}) \in {1}
      <4>1. {1} \subseteq Nat /\ {1} # {}
        OBVIOUS
      <4> QED BY <4>1, MinimumIsLeast, Zenon
    <3> QED BY <3>2, <3>3 DEF FirstDigit
  <2>6. text = <<>>
    BY <1>3, <2>5
  <2>7. ASSUME NEW v \in UInt64, NumberToString(v) = text PROVE FALSE
    <3>1. v \in Nat
      BY MaxIs
    <3>2. PICK k \in Nat \ {0} :
            NumberToString(v) = [i \in 1 .. k |-> (v \div Power(10, k - i)) % 10]
      BY <3>1, NumberText
    <3>3. DOMAIN text = 1 .. k
      BY <2>7, <3>2, Zenon
    <3>4. DOMAIN text = {}
      BY <2>6
    <3>5. 1 \in 1 .. k
      BY <3>2
    <3> QED BY <3>3, <3>4, <3>5, Zenon
  <2> QED BY <2>4, <2>7
<1>4. CASE n # 0 /\ \E i \in 1 .. n : TooLarge(g[i - 1], in[i])
  <2>1. r.ok = FALSE /\ r.rest = in
    BY <1>2, <1>4 DEF Failed
  <2>2. ASSUME NEW v \in UInt64, NumberToString(v) = text PROVE FALSE
    <3>1. n \in Nat \ {0}
      BY <1>1, <1>4
    <3>2. \A i \in 1 .. n : ~TooLarge(g[i - 1], in[i])
      BY <1>1, <1>2, <2>2, <3>1, TextTaken
    <3> QED BY <1>4, <3>2
  <2> QED BY <2>1, <2>2
<1>5. CASE n # 0 /\ \A i \in 1 .. n : ~TooLarge(g[i - 1], in[i])
  <2>1. r = [ok |-> n # 0, value |-> g[n], rest |-> Drop(in, n)]
    BY <1>2, <1>5, Zenon
  <2>2. r.ok = TRUE /\ r.value = g[n] /\ r.rest = Drop(in, n)
    <3>1. (n # 0) = TRUE
      BY <1>5
    <3>2. r = [ok |-> TRUE, value |-> g[n], rest |-> Drop(in, n)]
      BY <2>1, <3>1, Zenon
    <3> QED BY <3>2
  <2>3. \A i \in 1 .. n : in[i] \in Digit /\ ~TooLarge(g[i - 1], in[i])
    BY <1>1, <1>5, Zenon
  <2>4. g[n] \in UInt64
    <3>1. n \in Nat /\ IsLoop(in, g, n)
      BY <1>1, <1>2
    <3> QED BY <2>3, <3>1, LoopBack
  <2>5. n \in Nat \ {0}
    BY <1>1, <1>5
  <2>6. NumberToString(g[n]) = text
    BY <1>1, <1>2, <2>3, <2>5, LoopText, Zenon
  <2> QED BY <2>2, <2>4, <2>6
<1> QED BY <1>3, <1>4, <1>5

-----------------------------------------------------------------------------
(* Reading an item.  What has arrived agrees with the item as far as it    *)
(* goes.                                                                   *)

\* What has arrived of the bytes e.
Agrees(in, e) == \A i \in 1 .. Len(e) : i <= Len(in) => in[i] = e[i]

\* The text of a number and the byte behind it.
LEMMA DecimalBytes ==
  ASSUME NEW v \in UInt64, NEW e, e = Append(NumberToString(v), Separator)
  PROVE  \E k \in Nat \ {0} :
           /\ e \in Seq(Byte) /\ Len(e) = k + 1 /\ v < Power(10, k)
           /\ \A i \in 1 .. k : e[i] = (v \div Power(10, k - i)) % 10 /\ e[i] \in Digit
           /\ e[k + 1] \notin Digit
<1>1. v \in Nat
  BY MaxIs
<1>2. PICK k \in Nat \ {0} :
         /\ IsLength(v, k)
         /\ NumberToString(v) = [i \in 1 .. k |-> (v \div Power(10, k - i)) % 10]
  BY <1>1, NumberText
<1>3. PICK s : s = NumberToString(v)
  OBVIOUS
<1>4. ASSUME NEW i \in 1 .. k
      PROVE  /\ s[i] = (v \div Power(10, k - i)) % 10
             /\ s[i] \in Digit /\ s[i] \in Byte
  <2>1. k - i \in Nat
    OBVIOUS
  <2>2. PICK x : x = v \div Power(10, k - i)
    OBVIOUS
  <2>3. x \in Nat
    BY <1>1, <2>1, <2>2, CutDigit
  <2>4. x % 10 \in 0 .. 9
    BY <2>3
  <2>5. s[i] = (v \div Power(10, k - i)) % 10
    BY <1>2, <1>3
  <2>6. s[i] \in 0 .. 9
    BY <2>2, <2>4, <2>5
  <2> QED BY <2>5, <2>6, SeparatorAssumption DEF Digit, Byte
<1>5. s \in [1 .. k -> Byte]
  BY <1>2, <1>3, <1>4, Zenon
<1>6. s \in Seq(Byte) /\ Len(s) = k
  BY <1>5
<1>7. Separator \in Byte /\ Separator \notin Digit
  BY SeparatorAssumption DEF Separator, Byte, Digit
<1>8. PICK c \in Byte : c = Separator
  BY <1>7
<1>9. e = Append(s, c)
  BY <1>3, <1>8
<1>10. e \in Seq(Byte) /\ Len(e) = k + 1 /\ e[k + 1] = c /\ \A i \in 1 .. k : e[i] = s[i]
  BY <1>6, <1>9
<1>11. v < Power(10, k)
  BY <1>2, Zenon DEF IsLength
<1>12. \A i \in 1 .. k : e[i] = (v \div Power(10, k - i)) % 10 /\ e[i] \in Digit
  BY <1>4, <1>10
<1>13. e[k + 1] \notin Digit
  BY <1>7, <1>8, <1>10
<1> QED BY <1>10, <1>11, <1>12, <1>13, Zenon

\* A number is read when the byte behind it is there; before, the digits that are
\* there are all consumed.
LEMMA DecimalRead ==
  ASSUME NEW v \in UInt64, NEW e, e = Append(NumberToString(v), Separator),
         NEW in \in Seq(Byte), Agrees(in, e), NEW r, r = ConsumeDecimalNumber(in)
  PROVE  /\ e \in Seq(Byte) /\ Len(e) - 1 \in Nat
         /\ Len(e) <= Len(in) => r = [ok |-> TRUE, value |-> v, rest |-> Drop(in, Len(e) - 1)]
         /\ ~(Len(e) <= Len(in)) => (r.ok => r.rest = <<>>)
<1>1. PICK k \in Nat \ {0} :
           /\ e \in Seq(Byte) /\ Len(e) = k + 1 /\ v < Power(10, k)
           /\ \A i \in 1 .. k : e[i] = (v \div Power(10, k - i)) % 10 /\ e[i] \in Digit
           /\ e[k + 1] \notin Digit
  BY DecimalBytes
<1>2. PICK n : n = Leading(in)
  OBVIOUS
<1>3. /\ n \in Nat /\ n <= Len(in) /\ \A i \in 1 .. n : in[i] \in Digit
      /\ n < Len(in) => in[n + 1] \notin Digit
  BY <1>2, LeadingIs
<1>4. \A i \in 1 .. k + 1 : i <= Len(in) => in[i] = e[i]
  BY <1>1 DEF Agrees
<1>5. PICK l \in Nat : l = Len(in)
  OBVIOUS
<1>6. n < k => n = l
  <2> SUFFICES ASSUME n < k, n < l PROVE FALSE
    BY <1>3, <1>5
  <2>1. n + 1 \in 1 .. k /\ n + 1 \in 1 .. k + 1 /\ n + 1 <= l
    BY <1>3, <1>5
  <2>2. in[n + 1] = e[n + 1] /\ e[n + 1] \in Digit
    BY <1>1, <1>4, <1>5, <2>1
  <2> QED BY <1>3, <1>5, <2>2
<1>7. n <= k
  <2> SUFFICES ASSUME n > k PROVE FALSE
    BY <1>3
  <2>1. k + 1 \in 1 .. n /\ k + 1 \in 1 .. k + 1 /\ k + 1 <= l
    BY <1>3, <1>5
  <2>2. in[k + 1] = e[k + 1] /\ in[k + 1] \in Digit
    BY <1>3, <1>4, <1>5, <2>1
  <2> QED BY <1>1, <2>2
<1>8. PICK g :
        /\ IsLoop(in, g, n)
        /\ r = IF \E i \in 1 .. n : TooLarge(g[i - 1], in[i]) THEN Failed(in)
               ELSE [ok |-> n # 0, value |-> g[n], rest |-> Drop(in, n)]
  BY <1>2, ConsumeIs
<1>9. ASSUME Len(e) <= l PROVE r = [ok |-> TRUE, value |-> v, rest |-> Drop(in, k)]
  <2>1. n = k
    BY <1>1, <1>3, <1>5, <1>6, <1>7, <1>9
  <2>2. \A i \in 1 .. k : in[i] = (v \div Power(10, k - i)) % 10
    <3> SUFFICES ASSUME NEW i \in 1 .. k PROVE in[i] = (v \div Power(10, k - i)) % 10
      OBVIOUS
    <3>1. i \in 1 .. k + 1 /\ i <= l
      BY <1>1, <1>9
    <3>2. in[i] = e[i]
      BY <1>4, <1>5, <3>1
    <3> QED BY <1>1, <3>2
  <2>3. k \in Nat /\ IsLoop(in, g, k) /\ v < Power(10, k)
    BY <1>1, <1>8, <2>1
  <2>4. g[k] = v /\ \A i \in 1 .. k : ~TooLarge(g[i - 1], in[i])
    BY <2>2, <2>3, LoopFollows
  <2>5. r = [ok |-> k # 0, value |-> v, rest |-> Drop(in, k)]
    BY <1>8, <2>1, <2>4, Zenon
  <2>6. (k # 0) = TRUE
    OBVIOUS
  <2> QED BY <2>5, <2>6, Zenon
<1>10. ASSUME ~(Len(e) <= l), r.ok PROVE r.rest = <<>>
  <2>1. n = l
    BY <1>1, <1>3, <1>5, <1>6, <1>7, <1>10
  <2>2. r.rest = Drop(in, n)
    BY <1>8, <1>10 DEF Failed
  <2>3. Drop(in, n) = <<>>
    BY <1>5, <2>1 DEF Drop
  <2> QED BY <2>2, <2>3
<1>11. Len(e) - 1 = k
  BY <1>1
<1> QED BY <1>1, <1>5, <1>9, <1>10, <1>11, Zenon

\* A fixed-width integer is read when all its bytes are there.
LEMMA FixedRead ==
  ASSUME NEW w \in Nat, NEW v \in 0 .. Power(Base, w) - 1, NEW e, e = EncodeFixed(v, w),
         input \in Seq(Byte), Agrees(input, e)
  PROVE  /\ e \in Seq(Byte) /\ Len(e) = w
         /\ GetFixed(w) = IF w <= Len(input)
                          THEN [ok |-> TRUE, value |-> v, rest |-> Drop(input, w)]
                          ELSE Failed(input)
<1>1. e \in [1 .. w -> Byte] /\ DecodeFixed(e) = v
  BY FixedRoundTrip
<1>2. e \in Seq(Byte) /\ Len(e) = w
  BY <1>1
<1>3. PICK in : in = input
  OBVIOUS
<1>4. PICK l \in Nat : l = Len(in)
  BY <1>3
<1>5. CASE w <= l
  <2>1. PICK c : c = SubSeq(in, 1, w)
    OBVIOUS
  <2>2. c \in Seq(Byte) /\ Len(c) = w /\ \A j \in 1 .. w : c[j] = in[j]
    BY <1>3, <1>4, <1>5, <2>1
  <2>3. \A j \in 1 .. w : c[j] = e[j]
    BY <1>2, <1>3, <1>4, <1>5, <2>2 DEF Agrees
  <2>4. c = e
    BY <1>2, <2>2, <2>3, SameSequence
  <2>5. ~(l < w)
    BY <1>5
  <2>6. GetFixed(w) = [ok |-> TRUE, value |-> DecodeFixed(c), rest |-> Drop(in, w)]
    BY <1>3, <1>4, <2>1, <2>5, Zenon DEF GetFixed
  <2> QED BY <1>1, <1>2, <1>3, <1>4, <1>5, <2>4, <2>6, Zenon
<1>6. CASE ~(w <= l)
  <2>1. l < w
    BY <1>6
  <2>2. GetFixed(w) = Failed(in)
    BY <1>3, <1>4, <2>1, Zenon DEF GetFixed
  <2> QED BY <1>2, <1>3, <1>4, <1>6, <2>2, Zenon
<1> QED BY <1>5, <1>6

\* A number of 32 bits is one of 64 bits.
LEMMA Narrow ==
  ASSUME NEW v \in UInt32
  PROVE  v \in UInt64
<1>1. PICK p, q : p = Power(Base, Width32) /\ q = Power(Base, Width64)
  OBVIOUS
<1>2. Base \in Nat \ {0} /\ Width32 \in Nat /\ Width64 \in Nat
  BY WidthAssumption
<1>3. p \in Nat /\ q \in Nat /\ p <= q
  BY <1>1, <1>2, WidthOrderAssumption, PowerPositive, PowerMonotone
<1>4. v \in 0 .. p - 1
  BY <1>1 DEF UInt32
<1>5. v \in 0 .. q - 1
  BY <1>3, <1>4
<1> QED BY <1>1, <1>5 DEF UInt64

\* The result of a Get for an item with the bytes e.
Reads(r, item, e) ==
  IF Len(e) <= Len(input)
  THEN r = [ok |-> TRUE, value |-> item.value, rest |-> Drop(input, Len(e))]
  ELSE ~r.ok /\ (item.kind # "slice" => r.rest = input)

\* A fixed-width integer.
LEMMA ReadsFixed ==
  ASSUME NEW w \in Nat, NEW item, NEW v \in 0 .. Power(Base, w) - 1, item.value = v,
         NEW e, e = EncodeFixed(v, w), input \in Seq(Byte), Agrees(input, e)
  PROVE  e \in Seq(Byte) /\ Reads(GetFixed(w), item, e)
<1>1. /\ e \in Seq(Byte) /\ Len(e) = w
      /\ GetFixed(w) = IF w <= Len(input)
                       THEN [ok |-> TRUE, value |-> v, rest |-> Drop(input, w)]
                       ELSE Failed(input)
  BY FixedRead
<1>2. Failed(input).ok = FALSE /\ Failed(input).rest = input
  BY DEF Failed
<1> QED BY <1>1, <1>2, Zenon DEF Reads

\* A varint; a 32-bit one must fit in Groups32 groups.
LEMMA ReadsVarint ==
  ASSUME NEW item, NEW v \in UInt64, item.value = v, NEW e, e = EncodeVarint(v),
         input \in Seq(Byte), Agrees(input, e), NEW groups \in Nat, NEW width,
         VarintLength(v) <= groups, v % Power(Base, width) = v
  PROVE  e \in Seq(Byte) /\ Reads(GetVarintOf(input, groups, width), item, e)
<1>1. v \in Nat /\ v < Power(Flag, Groups64)
  BY Varint64Fits
<1>2. PICK n : n = VarintLength(v)
  OBVIOUS
<1>3. e \in Seq(Byte) /\ Len(e) = n
  BY <1>1, <1>2, VarintBytes
<1>4. \A i \in 1 .. n : i <= Len(input) => input[i] = e[i]
  BY <1>3, Zenon DEF Agrees
<1>5. GetVarintOf(input, groups, width) =
        IF n <= Len(input) /\ n <= groups
        THEN [ok |-> TRUE, value |-> v % Power(Base, width), rest |-> Drop(input, n)]
        ELSE Failed(input)
  BY <1>1, <1>2, <1>4, VarintRead
<1>6. Failed(input).ok = FALSE /\ Failed(input).rest = input
  BY DEF Failed
<1> QED BY <1>2, <1>3, <1>5, <1>6, Zenon DEF Reads

\* A string.
LEMMA ReadsSlice ==
  ASSUME NEW item, item.kind = "slice", item.value \in Strings,
         NEW e, e = EncodeLengthPrefixed(item.value),
         input \in Seq(Byte), Agrees(input, e)
  PROVE  e \in Seq(Byte) /\ Reads(GetLengthPrefixedSlice(input), item, e)
<1>1. PICK s : s = item.value
  OBVIOUS
<1>2. s \in Seq(Byte) /\ Len(s) < Power(Base, Width32)
  BY <1>1, StringAssumption
<1>3. PICK l \in Nat : l = Len(s)
  BY <1>2
<1>4. l \in UInt32
  <2>1. PICK p : p = Power(Base, Width32)
    OBVIOUS
  <2>2. Base \in Nat \ {0} /\ Width32 \in Nat
    BY WidthAssumption
  <2>3. p \in Nat
    BY <2>1, <2>2, PowerPositive
  <2>4. l \in 0 .. p - 1
    BY <1>2, <1>3, <2>1, <2>3
  <2> QED BY <2>1, <2>4 DEF UInt32
<1>5. l < Power(Flag, Groups64)
  BY <1>4, Narrow, Varint64Fits
<1>6. l % Power(Base, Width32) = l
  BY <1>4, <1>5, Varint32Fits
<1>7. e = EncodeVarint(Len(s)) \o s
  BY <1>1, <1>3, <1>6, Zenon DEF EncodeLengthPrefixed
<1>8. Len(s) \in UInt32 /\ Len(s) < Power(Flag, Groups64)
  BY <1>3, <1>4, <1>5
<1>9. \A i \in 1 .. Len(e) : i <= Len(input) => input[i] = e[i]
  BY Zenon DEF Agrees
<1>10. /\ e \in Seq(Byte)
       /\ IF Len(e) <= Len(input)
          THEN GetLengthPrefixedSlice(input) =
                 [ok |-> TRUE, value |-> s, rest |-> Drop(input, Len(e))]
          ELSE ~GetLengthPrefixedSlice(input).ok
  BY <1>2, <1>7, <1>8, <1>9, SliceRead, Zenon
<1> QED BY <1>1, <1>10, Zenon DEF Reads

\* A number as text.
LEMMA ReadsDecimal ==
  ASSUME NEW item, NEW v \in UInt64, item.value = v,
         NEW e, e = Append(NumberToString(v), Separator),
         input \in Seq(Byte), Agrees(input, e)
  PROVE  e \in Seq(Byte) /\ Reads(GetDecimal, item, e)
<1>1. PICK in : in = input
  OBVIOUS
<1>2. in \in Seq(Byte) /\ Agrees(in, e)
  BY <1>1
<1>3. PICK r : r = ConsumeDecimalNumber(in)
  OBVIOUS
<1>4. /\ e \in Seq(Byte) /\ Len(e) - 1 \in Nat
      /\ Len(e) <= Len(in) => r = [ok |-> TRUE, value |-> v, rest |-> Drop(in, Len(e) - 1)]
      /\ ~(Len(e) <= Len(in)) => (r.ok => r.rest = <<>>)
  BY <1>2, <1>3, DecimalRead, Zenon
<1>5. GetDecimal = IF r.ok /\ r.rest # <<>>
                    THEN [ok |-> TRUE, value |-> r.value, rest |-> Drop(r.rest, 1)]
                    ELSE Failed(in)
  BY <1>1, <1>3, Zenon DEF GetDecimal
<1>6. CASE Len(e) <= Len(in)
  <2>1. PICK k \in Nat : k + 1 = Len(e) /\ r = [ok |-> TRUE, value |-> v, rest |-> Drop(in, k)]
    <3>1. Len(e) \in Int
      BY <1>4
    <3> QED BY <1>4, <1>6, <3>1
  <2>2. PICK d : d = Drop(in, k)
    OBVIOUS
  <2>3. Drop(d, 1) = Drop(in, k + 1)
    BY <1>2, <1>6, <2>1, <2>2, DropTwice
  <2>4. d # <<>>
    <3>1. k < Len(in) /\ Len(in) \in Nat
      BY <1>2, <1>6, <2>1
    <3>2. Len(d) = Len(in) - k
      BY <1>2, <2>2, <3>1 DEF Drop
    <3>3. Len(d) # 0
      BY <3>1, <3>2
    <3> QED BY <3>3
  <2>5. r.ok /\ r.rest = d /\ r.value = v
    BY <2>1, <2>2
  <2>6. GetDecimal = [ok |-> TRUE, value |-> r.value, rest |-> Drop(r.rest, 1)]
    BY <1>5, <2>4, <2>5, Zenon
  <2>7. GetDecimal = [ok |-> TRUE, value |-> v, rest |-> Drop(d, 1)]
    BY <2>5, <2>6, Zenon
  <2>8. GetDecimal = [ok |-> TRUE, value |-> v, rest |-> Drop(in, Len(e))]
    BY <2>1, <2>3, <2>7
  <2> QED BY <1>1, <1>4, <1>6, <2>8, Zenon DEF Reads
<1>7. CASE ~(Len(e) <= Len(in))
  <2>1. GetDecimal = Failed(in)
    BY <1>4, <1>5, <1>7
  <2>2. ~GetDecimal.ok /\ GetDecimal.rest = in
    BY <2>1 DEF Failed
  <2> QED BY <1>1, <1>4, <1>7, <2>2, Zenon DEF Reads
<1> QED BY <1>6, <1>7

\* A varint64 that GetVarint32 reads gives its low bits.
LEMMA ReadsNarrow ==
  ASSUME NEW v \in UInt64, NEW e, e = EncodeVarint(v),
         input \in Seq(Byte), Agrees(input, e), NEW r, r = GetVarint32(input), r.ok
  PROVE  /\ Len(e) <= Len(input)
         /\ r = [ok |-> TRUE, value |-> v % Power(Base, Width32), rest |-> Drop(input, Len(e))]
<1>1. v \in Nat /\ v < Power(Flag, Groups64)
  BY Varint64Fits
<1>2. PICK n : n = VarintLength(v)
  OBVIOUS
<1>3. e \in Seq(Byte) /\ Len(e) = n
  BY <1>1, <1>2, VarintBytes
<1>4. \A i \in 1 .. n : i <= Len(input) => input[i] = e[i]
  BY <1>3, Zenon DEF Agrees
<1>5. Groups32 \in Nat
  BY WidthAssumption, Zenon
<1>6. GetVarintOf(input, Groups32, Width32) =
        IF n <= Len(input) /\ n <= Groups32
        THEN [ok |-> TRUE, value |-> v % Power(Base, Width32), rest |-> Drop(input, n)]
        ELSE Failed(input)
  BY <1>1, <1>2, <1>4, <1>5, VarintRead
<1>7. r = IF n <= Len(input) /\ n <= Groups32
          THEN [ok |-> TRUE, value |-> v % Power(Base, Width32), rest |-> Drop(input, n)]
          ELSE Failed(input)
  BY <1>6, Zenon DEF GetVarint32
<1>8. Failed(input).ok = FALSE
  BY DEF Failed
<1> QED BY <1>3, <1>7, <1>8, Zenon

\* What the parts of an item are.
LEMMA ItemParts ==
  ASSUME NEW item \in Item
  PROVE  \/ item.kind \in {"fixed32", "varint32"} /\ item.value \in UInt32 /\ item.value \in UInt64
         \/ item.kind \in {"fixed64", "varint64", "decimal"} /\ item.value \in UInt64
         \/ item.kind = "slice" /\ item.value \in Strings
<1>1. CASE item \in [kind : {"fixed32", "varint32"}, value : Values32]
  <2>1. item.kind \in {"fixed32", "varint32"} /\ item.value \in UInt32
    BY <1>1, ValueAssumption
  <2> QED BY <2>1, Narrow
<1>2. CASE item \in [kind : {"fixed64", "varint64", "decimal"}, value : Values64]
  BY <1>2, ValueAssumption
<1>3. CASE item \in [kind : {"slice"}, value : Strings]
  BY <1>3
<1> QED BY <1>1, <1>2, <1>3 DEF Item

\* Whatever the kind of an item, its Get reads it when all of it is there.
LEMMA ReadsItem ==
  ASSUME NEW item \in Item, NEW e, e = Encode(item), input \in Seq(Byte), Agrees(input, e)
  PROVE  e \in Seq(Byte) /\ Reads(Decode(item.kind), item, e)
<1>1. PICK v : v = item.value
  OBVIOUS
<1>2. Groups32 \in Nat /\ Groups64 \in Nat /\ Width32 \in Nat /\ Width64 \in Nat
  BY WidthAssumption
<1>3. CASE item.kind = "fixed32"
  <2>1. v \in 0 .. Power(Base, Width32) - 1
    BY <1>1, <1>3, ItemParts DEF UInt32
  <2>2. e = EncodeFixed(v, Width32) /\ Decode(item.kind) = GetFixed(Width32)
    BY <1>1, <1>3 DEF Encode, Decode
  <2> QED BY <1>1, <1>2, <2>1, <2>2, ReadsFixed
<1>4. CASE item.kind = "fixed64"
  <2>1. v \in 0 .. Power(Base, Width64) - 1
    BY <1>1, <1>4, ItemParts DEF UInt64
  <2>2. e = EncodeFixed(v, Width64) /\ Decode(item.kind) = GetFixed(Width64)
    BY <1>1, <1>4 DEF Encode, Decode
  <2> QED BY <1>1, <1>2, <2>1, <2>2, ReadsFixed
<1>5. CASE item.kind = "varint32"
  <2>1. v \in UInt32 /\ v \in UInt64
    BY <1>1, <1>5, ItemParts
  <2>2. VarintLength(v) <= Groups32 /\ v % Power(Base, Width32) = v
    BY <2>1, Varint32Fits, Varint64Fits
  <2>3. e = EncodeVarint(v) /\ Decode(item.kind) = GetVarintOf(input, Groups32, Width32)
    BY <1>1, <1>5 DEF Encode, Decode, GetVarint32
  <2> QED BY <1>1, <1>2, <2>1, <2>2, <2>3, ReadsVarint
<1>6. CASE item.kind = "varint64"
  <2>1. v \in UInt64
    BY <1>1, <1>6, ItemParts
  <2>2. VarintLength(v) <= Groups64
    <3>1. v \in Nat /\ v < Power(Flag, Groups64)
      BY <2>1, Varint64Fits
    <3>2. VarintLength(v) \in 1 .. Groups64
      BY <3>1, VarintLengthIs
    <3> QED BY <1>2, <3>2
  <2>3. v % Power(Base, Width64) = v
    <3>1. PICK p : p = Power(Base, Width64)
      OBVIOUS
    <3>2. v \in 0 .. p - 1 /\ p \in Nat
      BY <2>1, <3>1, MaxIs DEF UInt64
    <3>3. v % p = v
      BY <3>2, SmallRemainder, Zenon
    <3> QED BY <3>1, <3>3
  <2>4. e = EncodeVarint(v) /\ Decode(item.kind) = GetVarintOf(input, Groups64, Width64)
    BY <1>1, <1>6 DEF Encode, Decode, GetVarint64
  <2> QED BY <1>1, <1>2, <2>1, <2>2, <2>3, <2>4, ReadsVarint
<1>7. CASE item.kind = "decimal"
  <2>1. v \in UInt64
    BY <1>1, <1>7, ItemParts
  <2>2. e = Append(NumberToString(v), Separator) /\ Decode(item.kind) = GetDecimal
    BY <1>1, <1>7 DEF Encode, Decode
  <2> QED BY <1>1, <2>1, <2>2, ReadsDecimal
<1>8. CASE item.kind = "slice"
  <2>1. item.value \in Strings
    BY <1>8, ItemParts
  <2>2. e = EncodeLengthPrefixed(item.value) /\ Decode(item.kind) = GetLengthPrefixedSlice(input)
    BY <1>8 DEF Encode, Decode
  <2> QED BY <1>8, <2>1, <2>2, ReadsSlice
<1>9. item.kind \in {"fixed32", "fixed64", "varint32", "varint64", "decimal", "slice"}
  BY ItemParts
<1> QED BY <1>3, <1>4, <1>5, <1>6, <1>7, <1>8, <1>9

-----------------------------------------------------------------------------
(* The inductive invariant.                                                *)

\* off[i] is where the i-th item ends: the string is the items, one behind the
\* other.
Layout(off, d, its) ==
  /\ off[0] = 0 /\ off[Len(its)] = Len(d)
  /\ \A i \in 0 .. Len(its) : off[i] \in Nat /\ off[i] <= Len(d)
  /\ \A i \in 1 .. Len(its) :
       /\ Encode(its[i]) \in Seq(Byte)
       /\ off[i] = off[i - 1] + Len(Encode(its[i]))
       /\ \A j \in 1 .. Len(Encode(its[i])) : d[off[i - 1] + j] = Encode(its[i])[j]

\* The input is what has arrived behind the items that were read; a reader that
\* starves needs more than that.
Position(off, d, c, in, done) ==
  /\ off[done] <= c
  /\ in \in Seq(Byte) /\ Len(in) = c - off[done]
  /\ \A j \in 1 .. Len(in) : in[j] = d[off[done] + j]

Kinds   == {"fixed32", "fixed64", "varint32", "varint64", "decimal", "slice"}
Results == [kind : Kinds, value : Nat \union Seq(Byte)]

IInv ==
  /\ TypeOK /\ out \in Seq(Results) /\ ValuesBack
  /\ phase = "put" => cut = 0 /\ out = <<>> /\ ~starved
  /\ \E off :
       /\ Layout(off, dst, items)
       /\ Position(off, dst, cut, input, Len(out))
       /\ starved => Len(out) < Len(items) /\ cut < off[Len(out) + 1]

\* Nothing is there at first.
LEMMA InitIInv == Init => IInv
<1> SUFFICES ASSUME Init PROVE IInv
  OBVIOUS
<1>1. /\ dst = <<>> /\ items = <<>> /\ phase = "put"
      /\ cut = 0 /\ input = <<>> /\ out = <<>> /\ starved = FALSE
  BY DEF Init
<1>2. TypeOK
  <2>1. dst \in Seq(Byte) /\ items \in Seq(Item) /\ input \in Seq(Byte)
    BY <1>1
  <2>2. cut \in 0 .. Len(dst) /\ Len(out) <= Len(items)
    BY <1>1
  <2> QED BY <1>1, <2>1, <2>2, Zenon DEF TypeOK
<1>3. out \in Seq(Results) /\ ValuesBack
  BY <1>1 DEF ValuesBack
<1>4. PICK off : off = [i \in 0 .. 0 |-> 0]
  OBVIOUS
<1>5. off[0] = 0 /\ Len(items) = 0 /\ Len(dst) = 0 /\ Len(out) = 0
  BY <1>1, <1>4
<1>6. Layout(off, dst, items)
  BY <1>5 DEF Layout
<1>7. Position(off, dst, cut, input, Len(out))
  BY <1>1, <1>5 DEF Position
<1> QED BY <1>1, <1>2, <1>3, <1>6, <1>7 DEF IInv

\* Another item goes behind the others.
LEMMA LayoutGrows ==
  ASSUME NEW off, NEW d \in Seq(Byte), NEW its \in Seq(Item), Layout(off, d, its),
         NEW item \in Item, NEW e \in Seq(Byte), e = Encode(item)
  PROVE  \E new : new[0] = 0 /\ Layout(new, d \o e, Append(its, item))
<1>1. PICK n \in Nat : n = Len(its)
  OBVIOUS
<1>2. PICK l \in Nat : l = Len(d)
  OBVIOUS
<1>3. PICK m \in Nat : m = Len(e)
  OBVIOUS
<1>4. PICK new : new = [i \in 0 .. n + 1 |-> IF i <= n THEN off[i] ELSE l + m]
  OBVIOUS
<1>5. new[n + 1] = l + m /\ \A i \in 0 .. n : new[i] = off[i]
  BY <1>4
<1>6. PICK its2 : its2 = Append(its, item)
  OBVIOUS
<1>7. /\ its2 \in Seq(Item) /\ Len(its2) = n + 1 /\ its2[n + 1] = item
      /\ \A i \in 1 .. n : its2[i] = its[i]
  BY <1>1, <1>6
<1>8. PICK d2 : d2 = d \o e
  OBVIOUS
<1>9. Len(d2) = l + m
  BY <1>2, <1>3, <1>8, ConcatLength
<1>10. \A j \in 1 .. l : d2[j] = d[j]
  BY <1>2, <1>8
<1>11. \A j \in 1 .. m : d2[l + j] = e[j]
  BY <1>2, <1>3, <1>8
<1>12. /\ off[0] = 0 /\ off[n] = l
       /\ \A i \in 0 .. n : off[i] \in Nat /\ off[i] <= l
       /\ \A i \in 1 .. n :
            /\ Encode(its[i]) \in Seq(Byte)
            /\ off[i] = off[i - 1] + Len(Encode(its[i]))
            /\ \A j \in 1 .. Len(Encode(its[i])) : d[off[i - 1] + j] = Encode(its[i])[j]
  BY <1>1, <1>2, Zenon DEF Layout
<1>13. new[0] = 0 /\ new[Len(its2)] = Len(d2)
  BY <1>5, <1>7, <1>9, <1>12
<1>14. \A i \in 0 .. n + 1 : new[i] \in Nat /\ new[i] <= l + m
  <2> SUFFICES ASSUME NEW i \in 0 .. n + 1 PROVE new[i] \in Nat /\ new[i] <= l + m
    OBVIOUS
  <2>1. CASE i = n + 1
    BY <1>5, <2>1
  <2>2. CASE i # n + 1
    <3>1. i \in 0 .. n
      BY <2>2
    <3>2. new[i] = off[i] /\ off[i] \in Nat /\ off[i] <= l
      BY <1>5, <1>12, <3>1, Zenon
    <3> QED BY <3>2
  <2> QED BY <2>1, <2>2
<1>15. ASSUME NEW i \in 1 .. n + 1
       PROVE  /\ Encode(its2[i]) \in Seq(Byte)
              /\ new[i] = new[i - 1] + Len(Encode(its2[i]))
              /\ \A j \in 1 .. Len(Encode(its2[i])) : d2[new[i - 1] + j] = Encode(its2[i])[j]
  <2>1. CASE i = n + 1
    <3>1. i - 1 = n /\ n \in 0 .. n
      BY <2>1
    <3>2. new[i - 1] = l /\ new[i] = l + m /\ Encode(its2[i]) = e
      BY <1>5, <1>7, <1>12, <2>1, <3>1
    <3> QED BY <1>3, <1>11, <3>2
  <2>2. CASE i # n + 1
    <3>1. i \in 1 .. n /\ i \in 0 .. n /\ i - 1 \in 0 .. n
      BY <2>2
    <3>2. PICK f : f = Encode(its[i])
      OBVIOUS
    <3>3. Encode(its2[i]) = f
      BY <1>7, <3>1, <3>2
    <3>4. new[i - 1] = off[i - 1] /\ new[i] = off[i]
      BY <1>5, <3>1
    <3>5. /\ f \in Seq(Byte) /\ off[i] = off[i - 1] + Len(f)
          /\ \A j \in 1 .. Len(f) : d[off[i - 1] + j] = f[j]
      BY <1>12, <3>1, <3>2, Zenon
    <3>6. off[i] \in Nat /\ off[i - 1] \in Nat /\ off[i] <= l
      BY <1>12, <3>1
    <3>7. \A j \in 1 .. Len(f) : d2[off[i - 1] + j] = f[j]
      <4> SUFFICES ASSUME NEW j \in 1 .. Len(f) PROVE d2[off[i - 1] + j] = f[j]
        OBVIOUS
      <4>1. off[i - 1] + j \in 1 .. l
        BY <3>5, <3>6
      <4> QED BY <1>10, <3>5, <4>1
    <3> QED BY <3>3, <3>4, <3>5, <3>7
  <2> QED BY <2>1, <2>2
<1>16. Layout(new, d2, its2)
  BY <1>7, <1>9, <1>13, <1>14, <1>15, Zenon DEF Layout
<1> QED BY <1>6, <1>8, <1>13, <1>16

\* What has arrived agrees with the item that is read next.
LEMMA NextAgrees ==
  ASSUME NEW off, NEW d \in Seq(Byte), NEW its \in Seq(Item), Layout(off, d, its),
         NEW c \in Nat, NEW in, NEW done \in Nat, Position(off, d, c, in, done),
         done < Len(its), NEW e, e = Encode(its[done + 1])
  PROVE  /\ Agrees(in, e) /\ e \in Seq(Byte) /\ in \in Seq(Byte)
         /\ off[done] \in Nat /\ off[done + 1] = off[done] + Len(e)
         /\ Len(in) = c - off[done] /\ done + 1 \in 1 .. Len(its)
<1>1. /\ done + 1 \in 1 .. Len(its) /\ done \in 0 .. Len(its) /\ (done + 1) - 1 = done
  OBVIOUS
<1>2. /\ e \in Seq(Byte) /\ off[done + 1] = off[done] + Len(e)
      /\ \A j \in 1 .. Len(e) : d[off[done] + j] = e[j]
  BY <1>1, Zenon DEF Layout
<1>3. off[done] \in Nat
  BY <1>1 DEF Layout
<1>4. /\ in \in Seq(Byte) /\ Len(in) = c - off[done]
      /\ \A j \in 1 .. Len(in) : in[j] = d[off[done] + j]
  BY DEF Position
<1>5. Agrees(in, e)
  <2> SUFFICES ASSUME NEW i \in 1 .. Len(e), i <= Len(in) PROVE in[i] = e[i]
    BY DEF Agrees
  <2>1. i \in 1 .. Len(in)
    BY <1>2, <1>4
  <2> QED BY <1>2, <1>4, <2>1
<1> QED BY <1>1, <1>2, <1>3, <1>4, <1>5

\* An item that is read is taken off the input.
LEMMA PositionMoves ==
  ASSUME NEW off, NEW d \in Seq(Byte), NEW its \in Seq(Item), Layout(off, d, its),
         NEW c \in Nat, NEW in, NEW done \in Nat, Position(off, d, c, in, done),
         done < Len(its), NEW e, e = Encode(its[done + 1]), Len(e) <= Len(in)
  PROVE  Position(off, d, c, Drop(in, Len(e)), done + 1)
<1>1. /\ e \in Seq(Byte) /\ in \in Seq(Byte) /\ off[done] \in Nat
      /\ off[done + 1] = off[done] + Len(e) /\ Len(in) = c - off[done]
  BY NextAgrees
<1>2. PICK m \in Nat : m = Len(e)
  BY <1>1
<1>3. PICK l \in Nat : l = Len(in)
  BY <1>1
<1>4. PICK r : r = Drop(in, m)
  OBVIOUS
<1>5. r \in Seq(Byte) /\ Len(r) = l - m /\ \A j \in 1 .. l - m : r[j] = in[m + j]
  <2>1. in \in Seq(Byte) /\ m <= l
    BY <1>1, <1>2, <1>3
  <2> QED BY <1>3, <1>4, <2>1 DEF Drop
<1>6. PICK p \in Nat : p = off[done]
  BY <1>1
<1>7. \A j \in 1 .. l : in[j] = d[p + j]
  BY <1>3, <1>6 DEF Position
<1>8. off[done + 1] = p + m /\ l = c - p /\ m <= l
  BY <1>1, <1>2, <1>3, <1>6
<1>9. ASSUME NEW j \in 1 .. Len(r) PROVE r[j] = d[(p + m) + j]
  <2>1. j \in 1 .. l - m /\ m + j \in 1 .. l /\ (p + m) + j = p + (m + j)
    BY <1>5, <1>8
  <2> QED BY <1>5, <1>7, <2>1
<1>10. p + m <= c /\ Len(r) = c - (p + m)
  BY <1>5, <1>8
<1> QED BY <1>2, <1>4, <1>5, <1>8, <1>9, <1>10, Zenon DEF Position

\* What arrives goes behind the input.
LEMMA PositionGrows ==
  ASSUME NEW off, NEW d \in Seq(Byte), NEW c \in Nat, NEW in, NEW done \in Nat,
         off[done] \in Nat, Position(off, d, c, in, done), NEW n \in c + 1 .. Len(d)
  PROVE  Position(off, d, n, in \o SubSeq(d, c + 1, n), done)
<1>1. PICK p \in Nat : p = off[done]
  OBVIOUS
<1>2. /\ p <= c /\ in \in Seq(Byte) /\ Len(in) = c - p
      /\ \A j \in 1 .. Len(in) : in[j] = d[p + j]
  BY <1>1 DEF Position
<1>3. PICK l \in Nat : l = c - p
  BY <1>1, <1>2
<1>4. PICK s : s = SubSeq(d, c + 1, n)
  OBVIOUS
<1>5. s \in Seq(Byte) /\ Len(s) = n - c /\ \A j \in 1 .. n - c : s[j] = d[c + j]
  <2>1. s \in Seq(Byte)
    BY <1>4
  <2>2. Len(s) = n - c
    BY <1>4
  <2>3. \A j \in 1 .. n - c : s[j] = d[c + j]
    BY <1>4
  <2> QED BY <2>1, <2>2, <2>3
<1>6. PICK r : r = in \o s
  OBVIOUS
<1>7. r \in Seq(Byte)
  BY <1>2, <1>5, <1>6
<1>8. Len(r) = n - p
  <2>1. Len(r) = Len(in) + Len(s)
    BY <1>2, <1>5, <1>6, ConcatLength
  <2> QED BY <1>2, <1>5, <2>1
<1>9. /\ \A j \in 1 .. l : r[j] = in[j]
      /\ \A j \in 1 .. n - c : r[l + j] = s[j]
  <2>1. in \in Seq(Byte) /\ s \in Seq(Byte) /\ Len(in) = l /\ Len(s) = n - c
    BY <1>2, <1>3, <1>5
  <2>2. PICK m \in Nat : m = n - c
    OBVIOUS
  <2>3. \A j \in 1 .. l : r[j] = in[j]
    BY <1>6, <2>1
  <2>4. \A j \in 1 .. m : r[l + j] = s[j]
    BY <1>6, <2>1, <2>2
  <2> QED BY <2>2, <2>3, <2>4
<1>10. ASSUME NEW j \in 1 .. Len(r) PROVE r[j] = d[p + j]
  <2>1. CASE j <= l
    BY <1>2, <1>3, <1>8, <1>9, <2>1
  <2>2. CASE ~(j <= l)
    <3>1. PICK i \in 1 .. n - c : j = l + i
      <4>1. j - l \in 1 .. n - c /\ j = l + (j - l)
        BY <1>2, <1>3, <1>8, <2>2
      <4> QED BY <4>1
    <3>2. c + i = p + j
      BY <1>2, <1>3, <3>1
    <3> QED BY <1>5, <1>9, <3>1, <3>2
  <2> QED BY <2>1, <2>2
<1>11. p <= n
  BY <1>2
<1> QED BY <1>1, <1>4, <1>6, <1>7, <1>8, <1>10, <1>11 DEF Position

-----------------------------------------------------------------------------
(* The steps.                                                              *)

\* A Put appends an item.
LEMMA PutIInv ==
  ASSUME IInv, NEW item \in Item, Put(item)
  PROVE  IInv'
<1>1. /\ phase = "put" /\ dst' = dst \o Encode(item) /\ items' = Append(items, item)
      /\ phase' = phase /\ cut' = cut /\ input' = input /\ out' = out /\ starved' = starved
  BY DEF Put
<1>2. /\ dst \in Seq(Byte) /\ items \in Seq(Item) /\ input \in Seq(Byte)
      /\ cut = 0 /\ out = <<>> /\ ~starved /\ starved \in BOOLEAN
  BY <1>1 DEF IInv, TypeOK
<1>3. PICK off :
        /\ Layout(off, dst, items)
        /\ Position(off, dst, cut, input, Len(out))
  BY DEF IInv
<1>4. Len(out) = 0 /\ off[0] = 0
  BY <1>2, <1>3 DEF Layout
<1>5. Len(input) = 0
  BY <1>2, <1>3, <1>4 DEF Position
<1>6. PICK e : e = Encode(item)
  OBVIOUS
<1>7. Agrees(input, e)
  BY <1>5 DEF Agrees
<1>8. e \in Seq(Byte)
  BY <1>2, <1>6, <1>7, ReadsItem
<1>9. PICK new : new[0] = 0 /\ Layout(new, dst \o e, Append(items, item))
  BY <1>2, <1>3, <1>6, <1>8, LayoutGrows
<1>10. Layout(new, dst', items')
  BY <1>1, <1>6, <1>9
<1>11. Position(new, dst', cut', input', Len(out'))
  BY <1>1, <1>2, <1>4, <1>5, <1>9 DEF Position
<1>12. TypeOK'
  <2>1. dst' \in Seq(Byte) /\ items' \in Seq(Item)
    BY <1>1, <1>2, <1>6, <1>8
  <2>2. cut' \in 0 .. Len(dst') /\ Len(out') <= Len(items') /\ phase' \in {"put", "get"}
    BY <1>1, <1>2, <1>4, <2>1
  <2> QED BY <1>1, <1>2, <2>1, <2>2 DEF TypeOK
<1>13. out' \in Seq(Results) /\ ValuesBack'
  BY <1>1, <1>2 DEF ValuesBack
<1> QED BY <1>1, <1>2, <1>10, <1>11, <1>12, <1>13 DEF IInv

\* A Get that succeeds returns the next item and takes its bytes.
LEMMA AcceptIInv ==
  ASSUME IInv, Reading, NEW kind \in Kinds, NEW r, Accept(kind, r),
         NEW item, item = items[Len(out) + 1], NEW e, e = Encode(item),
         Len(e) <= Len(input), r.rest = Drop(input, Len(e)),
         r.value \in Nat \union Seq(Byte),
         r.value = IF kind = "varint32" THEN item.value % Power(Base, Width32) ELSE item.value
  PROVE  IInv'
<1>1. phase = "get" /\ Len(out) < Len(items) /\ ~starved
  BY DEF Reading
<1>2. /\ input' = r.rest /\ out' = Append(out, [kind |-> kind, value |-> r.value])
      /\ dst' = dst /\ items' = items /\ phase' = phase /\ cut' = cut /\ starved' = starved
  BY DEF Accept
<1>3. /\ dst \in Seq(Byte) /\ items \in Seq(Item) /\ cut \in 0 .. Len(dst)
      /\ starved \in BOOLEAN /\ out \in Seq(Results) /\ ValuesBack
  BY DEF IInv, TypeOK
<1>4. PICK n \in Nat : n = Len(out)
  BY <1>3
<1>5. PICK x : x = [kind |-> kind, value |-> r.value]
  OBVIOUS
<1>6. x \in Results /\ x.kind = kind /\ x.value = r.value
  BY <1>5 DEF Results
<1>7. /\ out' \in Seq(Results) /\ Len(out') = n + 1 /\ out'[n + 1] = x
      /\ \A i \in 1 .. n : out'[i] = out[i]
  BY <1>2, <1>3, <1>4, <1>5, <1>6
<1>8. ValuesBack'
  <2> SUFFICES ASSUME NEW i \in 1 .. n + 1
               PROVE  out'[i].value = IF out'[i].kind = "varint32"
                        THEN items[i].value % Power(Base, Width32) ELSE items[i].value
    <3>1. DOMAIN out' = 1 .. n + 1
      BY <1>7
    <3> QED BY <1>2, <3>1, Zenon DEF ValuesBack
  <2>1. CASE i = n + 1
    BY <1>4, <1>6, <1>7, <2>1, Zenon
  <2>2. CASE i # n + 1
    <3>1. i \in 1 .. n /\ i \in DOMAIN out
      BY <1>3, <1>4, <2>2
    <3>2. out'[i] = out[i]
      BY <1>7, <3>1
    <3> QED BY <1>3, <3>1, <3>2, Zenon DEF ValuesBack
  <2> QED BY <2>1, <2>2
<1>9. PICK off : Layout(off, dst, items) /\ Position(off, dst, cut, input, Len(out))
  BY DEF IInv
<1>10. cut \in Nat
  BY <1>3
<1>11. Position(off, dst, cut, Drop(input, Len(e)), n + 1)
  BY <1>1, <1>3, <1>4, <1>9, <1>10, PositionMoves
<1>12. Layout(off, dst', items') /\ Position(off, dst', cut', input', Len(out'))
  BY <1>2, <1>7, <1>9, <1>11
<1>13. TypeOK'
  <2>1. input' \in Seq(Byte)
    BY <1>12 DEF Position
  <2>2. Len(out') <= Len(items')
    BY <1>1, <1>2, <1>3, <1>4, <1>7
  <2> QED BY <1>1, <1>2, <1>3, <2>1, <2>2 DEF TypeOK
<1> QED BY <1>1, <1>2, <1>7, <1>8, <1>12, <1>13 DEF IInv

\* The next item, and what has arrived of it.
LEMMA NextItem ==
  ASSUME IInv, Reading
  PROVE  \E off, item, e :
           /\ Layout(off, dst, items) /\ Position(off, dst, cut, input, Len(out))
           /\ item = items[Len(out) + 1] /\ item \in Item /\ e = Encode(item)
           /\ input \in Seq(Byte) /\ Agrees(input, e) /\ e \in Seq(Byte)
           /\ Len(input) = cut - off[Len(out)] /\ off[Len(out)] \in Nat
           /\ off[Len(out) + 1] = off[Len(out)] + Len(e)
<1>1. Len(out) < Len(items)
  BY DEF Reading
<1>2. /\ dst \in Seq(Byte) /\ items \in Seq(Item) /\ cut \in Nat /\ Len(out) \in Nat
  BY DEF IInv, TypeOK
<1>3. PICK off : Layout(off, dst, items) /\ Position(off, dst, cut, input, Len(out))
  BY DEF IInv
<1>4. PICK item : item = items[Len(out) + 1]
  OBVIOUS
<1>5. PICK e : e = Encode(items[Len(out) + 1])
  OBVIOUS
<1>6. /\ Agrees(input, e) /\ e \in Seq(Byte) /\ input \in Seq(Byte)
      /\ off[Len(out)] \in Nat /\ off[Len(out) + 1] = off[Len(out)] + Len(e)
      /\ Len(input) = cut - off[Len(out)] /\ Len(out) + 1 \in 1 .. Len(items)
  BY <1>1, <1>2, <1>3, <1>5, NextAgrees
<1>7. item \in Item
  BY <1>2, <1>4, <1>6
<1> QED BY <1>3, <1>4, <1>5, <1>6, <1>7

\* What a Get returns for its item.
LEMMA ValueKept ==
  ASSUME NEW item \in Item
  PROVE  /\ item.value \in Nat \union Seq(Byte) /\ item.kind \in Kinds
         /\ item.value = IF item.kind = "varint32"
                         THEN item.value % Power(Base, Width32) ELSE item.value
<1>1. PICK v : v = item.value
  OBVIOUS
<1>2. v \in Nat \union Seq(Byte) /\ item.kind \in Kinds
  <2>1. v \in UInt64 => v \in Nat
    BY MaxIs
  <2>2. v \in Strings => v \in Seq(Byte)
    BY StringAssumption
  <2> QED BY <1>1, <2>1, <2>2, ItemParts DEF Kinds
<1>3. ASSUME item.kind = "varint32" PROVE v % Power(Base, Width32) = v
  <2>1. v \in UInt32 /\ v \in UInt64
    BY <1>1, <1>3, ItemParts
  <2> QED BY <2>1, Varint32Fits, Varint64Fits
<1> QED BY <1>1, <1>2, <1>3, Zenon

LEMMA GetIInv ==
  ASSUME IInv, Get
  PROVE  IInv'
<1>1. Reading
  BY DEF Get
<1>2. PICK off, item, e :
           /\ item = items[Len(out) + 1] /\ item \in Item /\ e = Encode(item)
           /\ input \in Seq(Byte) /\ Agrees(input, e)
  BY <1>1, NextItem
<1>3. PICK r : r = Decode(NextKind)
  OBVIOUS
<1>4. r.ok /\ Accept(NextKind, r) /\ NextKind = item.kind
  BY <1>2, <1>3 DEF Get, NextKind
<1>5. Reads(r, item, e)
  BY <1>2, <1>3, <1>4, ReadsItem
<1>6. /\ Len(e) <= Len(input)
      /\ r = [ok |-> TRUE, value |-> item.value, rest |-> Drop(input, Len(e))]
  BY <1>4, <1>5, Zenon DEF Reads
<1>7. r.value = item.value /\ r.rest = Drop(input, Len(e))
  BY <1>6
<1>8. /\ item.value \in Nat \union Seq(Byte) /\ item.kind \in Kinds
      /\ item.value = IF item.kind = "varint32"
                      THEN item.value % Power(Base, Width32) ELSE item.value
  BY <1>2, ValueKept
<1>9. PICK kind : kind = item.kind
  OBVIOUS
<1>10. /\ kind \in Kinds /\ Accept(kind, r) /\ r.value \in Nat \union Seq(Byte)
       /\ r.value = IF kind = "varint32"
                    THEN item.value % Power(Base, Width32) ELSE item.value
  BY <1>4, <1>7, <1>8, <1>9, Zenon
<1> QED BY <1>1, <1>2, <1>6, <1>7, <1>10, AcceptIInv

LEMMA GetNarrowIInv ==
  ASSUME IInv, GetNarrow
  PROVE  IInv'
<1>1. Reading /\ NextKind = "varint64"
  BY DEF GetNarrow
<1>2. PICK off, item, e :
           /\ item = items[Len(out) + 1] /\ item \in Item /\ e = Encode(item)
           /\ input \in Seq(Byte) /\ Agrees(input, e)
  BY <1>1, NextItem
<1>3. PICK r : r = Decode("varint32")
  OBVIOUS
<1>4. r.ok /\ Accept("varint32", r) /\ r = GetVarint32(input)
  BY <1>3 DEF GetNarrow, Decode
<1>5. item.kind = "varint64"
  BY <1>1, <1>2 DEF NextKind
<1>6. PICK v : v = item.value
  OBVIOUS
<1>7. v \in UInt64 /\ e = EncodeVarint(v)
  BY <1>2, <1>5, <1>6, ItemParts DEF Encode
<1>8. /\ Len(e) <= Len(input)
      /\ r = [ok |-> TRUE, value |-> v % Power(Base, Width32), rest |-> Drop(input, Len(e))]
  BY <1>2, <1>4, <1>7, ReadsNarrow
<1>9. r.value = v % Power(Base, Width32) /\ r.rest = Drop(input, Len(e))
  BY <1>8
<1>10. v % Power(Base, Width32) \in Nat
  <2>1. PICK p : p = Power(Base, Width32)
    OBVIOUS
  <2>2. Base \in Nat \ {0} /\ Width32 \in Nat
    BY WidthAssumption
  <2>3. p \in Nat \ {0} /\ v \in Nat
    BY <1>7, <2>1, <2>2, PowerPositive, MaxIs
  <2>4. v % p \in 0 .. p - 1
    BY <2>3, Division, Zenon
  <2> QED BY <2>1, <2>3, <2>4
<1>11. PICK kind : kind = "varint32"
  OBVIOUS
<1>12. /\ kind \in Kinds /\ Accept(kind, r) /\ r.value \in Nat \union Seq(Byte)
  <2>1. r.value \in Nat
    BY <1>9, <1>10, Zenon
  <2>2. "varint32" \in Kinds
    BY DEF Kinds
  <2> QED BY <1>4, <1>11, <2>1, <2>2, Zenon
<1>13. r.value = IF kind = "varint32"
                 THEN item.value % Power(Base, Width32) ELSE item.value
  BY <1>6, <1>9, <1>11, Zenon
<1> QED BY <1>1, <1>2, <1>8, <1>9, <1>12, <1>13, AcceptIInv

\* A Get that fails takes nothing, and its item has not arrived.
LEMMA GetFailsIInv ==
  ASSUME IInv, GetFails
  PROVE  IInv'
<1>1. Reading
  BY DEF GetFails
<1>2. PICK off, item, e :
           /\ Layout(off, dst, items) /\ Position(off, dst, cut, input, Len(out))
           /\ item = items[Len(out) + 1] /\ item \in Item /\ e = Encode(item)
           /\ input \in Seq(Byte) /\ Agrees(input, e) /\ e \in Seq(Byte)
           /\ Len(input) = cut - off[Len(out)] /\ off[Len(out)] \in Nat
           /\ off[Len(out) + 1] = off[Len(out)] + Len(e)
  BY <1>1, NextItem
<1>3. PICK r : r = Decode(NextKind)
  OBVIOUS
<1>4. /\ ~r.ok /\ NextKind = item.kind
      /\ input' = IF NextKind = "slice" THEN input ELSE r.rest
      /\ starved' = TRUE /\ dst' = dst /\ items' = items /\ phase' = phase
      /\ cut' = cut /\ out' = out
  BY <1>2, <1>3 DEF GetFails, NextKind
<1>5. Reads(r, item, e)
  BY <1>2, <1>3, <1>4, ReadsItem
<1>6. ~(Len(e) <= Len(input)) /\ (item.kind # "slice" => r.rest = input)
  <2>1. Len(e) <= Len(input) => r.ok
    BY <1>5 DEF Reads
  <2> QED BY <1>4, <1>5, <2>1, Zenon DEF Reads
<1>7. input' = input
  BY <1>4, <1>6, Zenon
<1>8. cut < off[Len(out) + 1]
  <2>1. cut \in Nat
    BY DEF IInv, TypeOK
  <2>2. PICK x \in Nat, y \in Nat, z \in Nat : x = Len(e) /\ y = Len(input) /\ z = off[Len(out)]
    BY <1>2
  <2>3. ~(x <= y) /\ y = cut - z /\ off[Len(out) + 1] = z + x
    BY <1>2, <1>6, <2>2
  <2> QED BY <2>1, <2>2, <2>3
<1>9. Layout(off, dst', items') /\ Position(off, dst', cut', input', Len(out'))
  BY <1>2, <1>4, <1>7
<1>10. starved' => Len(out') < Len(items') /\ cut' < off[Len(out') + 1]
  BY <1>1, <1>4, <1>8 DEF Reading
<1>11. TypeOK' /\ out' \in Seq(Results) /\ ValuesBack'
  BY <1>4, <1>7 DEF IInv, TypeOK, ValuesBack
<1>12. phase' # "put"
  BY <1>1, <1>4 DEF Reading
<1> QED BY <1>9, <1>10, <1>11, <1>12 DEF IInv

\* Bytes arrive.
LEMMA ArriveIInv ==
  ASSUME IInv, NEW n \in 1 .. Len(dst), Arrive(n)
  PROVE  IInv'
<1>1. /\ phase = "get" /\ n > cut /\ cut' = n /\ input' = input \o SubSeq(dst, cut + 1, n)
      /\ starved' = FALSE /\ dst' = dst /\ items' = items /\ phase' = phase /\ out' = out
  BY DEF Arrive
<1>2. /\ dst \in Seq(Byte) /\ items \in Seq(Item) /\ cut \in Nat /\ Len(out) \in Nat
      /\ Len(out) <= Len(items) /\ out \in Seq(Results) /\ ValuesBack
  BY DEF IInv, TypeOK
<1>3. PICK off : Layout(off, dst, items) /\ Position(off, dst, cut, input, Len(out))
  BY DEF IInv
<1>4. off[Len(out)] \in Nat
  <2>1. Len(out) \in 0 .. Len(items)
    BY <1>2
  <2> QED BY <1>3, <2>1 DEF Layout
<1>5. n \in cut + 1 .. Len(dst)
  BY <1>1, <1>2
<1>6. Position(off, dst, n, input \o SubSeq(dst, cut + 1, n), Len(out))
  BY <1>2, <1>3, <1>4, <1>5, PositionGrows
<1>7. Layout(off, dst', items') /\ Position(off, dst', cut', input', Len(out'))
  BY <1>1, <1>3, <1>6
<1>8. TypeOK'
  <2>1. input' \in Seq(Byte)
    BY <1>7 DEF Position
  <2>2. cut' \in 0 .. Len(dst') /\ phase' \in {"put", "get"} /\ starved' \in BOOLEAN
    <3>1. Len(dst) \in Nat /\ n \in 0 .. Len(dst)
      BY <1>2
    <3> QED BY <1>1, <3>1
  <2>3. dst' \in Seq(Byte) /\ items' \in Seq(Item) /\ Len(out') <= Len(items')
    BY <1>1, <1>2
  <2> QED BY <2>1, <2>2, <2>3, Zenon DEF TypeOK
<1>9. out' \in Seq(Results) /\ ValuesBack'
  BY <1>1, <1>2 DEF ValuesBack
<1> QED BY <1>1, <1>7, <1>8, <1>9 DEF IInv

LEMMA NextIInv == IInv /\ [Next]_vars => IInv'
<1> SUFFICES ASSUME IInv, [Next]_vars PROVE IInv'
  OBVIOUS
<1>1. CASE \E item \in Item : Put(item)
  BY <1>1, PutIInv
<1>2. CASE Send
  <2>1. /\ phase' = "get" /\ dst' = dst /\ items' = items /\ cut' = cut /\ input' = input
        /\ out' = out /\ starved' = starved
    BY <1>2 DEF Send
  <2> QED BY <2>1 DEF IInv, TypeOK, ValuesBack
<1>3. CASE \E n \in 1 .. Len(dst) : Arrive(n)
  BY <1>3, ArriveIInv
<1>4. CASE Get
  BY <1>4, GetIInv
<1>5. CASE GetFails
  BY <1>5, GetFailsIInv
<1>6. CASE GetNarrow
  BY <1>6, GetNarrowIInv
<1>7. CASE UNCHANGED vars
  BY <1>7 DEF vars, IInv, TypeOK, ValuesBack
<1> QED BY <1>1, <1>2, <1>3, <1>4, <1>5, <1>6, <1>7 DEF Next

LEMMA Inductive == Spec => []IInv
BY InitIInv, NextIInv, PTL DEF Spec

-----------------------------------------------------------------------------
(* The theorems.                                                           *)

\* The state of writer and reader always has its type.
THEOREM StreamTypeOK == Spec => []TypeOK
<1>1. IInv => TypeOK
  BY DEF IInv
<1> QED BY <1>1, Inductive, PTL

\* What is read is what was put, item by item, however the bytes are split on
\* their way, and nothing is left over (coding.cc:82-164): for integers of every
\* width, all strings and any number of items.
THEOREM StreamRoundTrip == Spec => []RoundTrip
<1>1. IInv => AllConsumed
  <2> SUFFICES ASSUME IInv, cut = Len(dst), Len(out) = Len(items) PROVE input = <<>>
    BY DEF AllConsumed
  <2>1. dst \in Seq(Byte) /\ input \in Seq(Byte)
    BY DEF IInv, TypeOK
  <2>2. PICK off : Layout(off, dst, items) /\ Position(off, dst, cut, input, Len(out))
    BY DEF IInv
  <2>3. off[Len(out)] = Len(dst)
    BY <2>2 DEF Layout
  <2>4. Len(input) = cut - off[Len(out)]
    BY <2>2 DEF Position
  <2>5. Len(input) = 0
    BY <2>1, <2>3, <2>4
  <2> QED BY <2>1, <2>5
<1>2. IInv => RoundTrip
  BY <1>1 DEF IInv, RoundTrip
<1> QED BY <1>2, Inductive, PTL

\* The items' sizes add up to where they end.
LEMMA SizesAddUp ==
  ASSUME NEW off, NEW d \in Seq(Byte), NEW its \in Seq(Item), Layout(off, d, its),
         NEW m \in Nat, m <= Len(its), NEW sizes,
         sizes = [i \in 1 .. m |-> Len(Encode(its[i]))]
  PROVE  SumFunction(sizes) = off[m]
<1>1. DOMAIN sizes = 1 .. m
  BY Zenon
<1>2. SumFunction(sizes) = Sum(sizes, 1 .. m)
  BY <1>1, Zenon DEF SumFunction, SumFunctionOnSet, Sum
<1>3. ASSUME NEW i \in 1 .. m
      PROVE  sizes[i] \in Nat /\ off[i] = off[i - 1] + sizes[i] /\ off[i - 1] \in Nat
  <2>1. PICK e : e = Encode(its[i])
    OBVIOUS
  <2>2. i \in 1 .. Len(its) /\ i - 1 \in 0 .. Len(its)
    OBVIOUS
  <2>3. e \in Seq(Byte) /\ off[i] = off[i - 1] + Len(e) /\ off[i - 1] \in Nat
    BY <2>1, <2>2, Zenon DEF Layout
  <2>4. sizes[i] = Len(e)
    BY <2>1, Zenon
  <2> QED BY <2>3, <2>4
<1>4. PICK Good : Good = {i \in Nat : i <= m => Sum(sizes, 1 .. i) = off[i]}
  OBVIOUS
<1>5. 0 \in Good
  <2>1. 1 .. 0 = {}
    OBVIOUS
  <2>2. Sum(sizes, 1 .. 0) = 0
    BY <2>1, SumEmpty
  <2>3. off[0] = 0
    BY DEF Layout
  <2> QED BY <1>4, <2>2, <2>3
<1>6. ASSUME NEW i \in Nat, i \in Good PROVE i + 1 \in Good
  <2>1. CASE i + 1 <= m
    <3>1. PICK S : S = 1 .. i
      OBVIOUS
    <3>2. IsFiniteSet(S)
      BY <3>1, FS_Interval
    <3>3. 1 .. i + 1 = S \union {i + 1} /\ i + 1 \notin S
      BY <3>1
    <3>4. \A x \in S : sizes[x] \in Nat
      BY <1>3, <2>1, <3>1
    <3>5. i + 1 \in 1 .. m /\ (i + 1) - 1 = i /\ i <= m
      BY <2>1
    <3>6. sizes[i + 1] \in Nat /\ off[i + 1] = off[i] + sizes[i + 1] /\ off[i] \in Nat
      BY <1>3, <3>5
    <3>7. Sum(sizes, S \union {i + 1}) = sizes[i + 1] + Sum(sizes, S)
      BY <3>2, <3>3, <3>4, <3>6, SumOneMore, ZenonT(40)
    <3>8. Sum(sizes, S) = off[i]
      BY <1>4, <1>6, <3>1, <3>5
    <3>9. Sum(sizes, 1 .. i + 1) = off[i + 1]
      <4>1. Sum(sizes, 1 .. i + 1) = sizes[i + 1] + off[i]
        BY <3>3, <3>7, <3>8, Zenon
      <4> QED BY <3>6, <4>1
    <3> QED BY <1>4, <3>9
  <2>2. CASE ~(i + 1 <= m)
    BY <1>4, <2>2
  <2> QED BY <2>1, <2>2
<1>7. m \in Good
  BY <1>5, <1>6, NumberInduction
<1> QED BY <1>2, <1>4, <1>7

\* A Get returns false only if its item has not arrived as a whole, and the
\* attempts before it have left the rest readable (coding.cc:100-135).
THEOREM StreamFailsOnlyWhenCut == Spec => []FailsOnlyWhenCut
<1>1. IInv => FailsOnlyWhenCut
  <2> SUFFICES ASSUME IInv, starved
               PROVE  cut < SumFunction([i \in 1 .. Len(out) + 1 |-> Len(Encode(items[i]))])
    BY Zenon DEF FailsOnlyWhenCut
  <2>1. dst \in Seq(Byte) /\ items \in Seq(Item) /\ Len(out) \in Nat
    BY DEF IInv, TypeOK
  <2>2. PICK off : /\ Layout(off, dst, items)
                   /\ Len(out) < Len(items) /\ cut < off[Len(out) + 1]
    BY DEF IInv
  <2>3. PICK its : its = items
    OBVIOUS
  <2>4. PICK m \in Nat : m = Len(out) + 1
    BY <2>1
  <2>5. m <= Len(its) /\ its \in Seq(Item)
    BY <2>1, <2>2, <2>3, <2>4
  <2>6. PICK sizes : sizes = [i \in 1 .. m |-> Len(Encode(its[i]))]
    OBVIOUS
  <2>7. SumFunction(sizes) = off[m]
    BY <2>1, <2>2, <2>3, <2>5, <2>6, SizesAddUp, SMTT(30)
  <2>8. sizes = [i \in 1 .. Len(out) + 1 |-> Len(Encode(items[i]))]
    BY <2>3, <2>4, <2>6, Zenon
  <2> QED BY <2>2, <2>4, <2>7, <2>8, Zenon
<1> QED BY <1>1, Inductive, PTL

\* Whatever the input, ConsumeDecimalNumber takes the digits at its start exactly
\* if they are the text of a uint64_t, leading zeros aside (logging.cc:29-50).
THEOREM StreamDecimalExact == Spec => []DecimalExact
<1>1. IInv => DecimalExact
  <2> SUFFICES ASSUME IInv PROVE DecimalExact
    OBVIOUS
  <2>1. PICK in : in = input
    OBVIOUS
  <2>2. in \in Seq(Byte)
    BY <2>1 DEF IInv, TypeOK
  <2>3. PICK n : n = Leading(in)
    OBVIOUS
  <2>4. PICK r : r = ConsumeDecimalNumber(in)
    OBVIOUS
  <2>5. PICK text : text = SubSeq(in, FirstDigit(in, n), n)
    OBVIOUS
  <2>6. Exact(in, n, r, text)
    BY <2>2, <2>3, <2>4, <2>5, ConsumeExact
  <2>7. \A v \in UInt64 : Texts[v] = NumberToString(v)
    BY Zenon DEF Texts
  <2>8. IF \E v \in UInt64 : Texts[v] = text
          THEN r.ok /\ Texts[r.value] = text /\ r.rest = Drop(in, n)
          ELSE ~r.ok /\ r.rest = in
    BY <2>6, <2>7, Zenon DEF Exact
  <2> QED BY <2>1, <2>3, <2>4, <2>5, <2>8, Zenon DEF DecimalExact, Leading, FirstDigit
<1> QED BY <1>1, Inductive, PTL
=============================================================================
