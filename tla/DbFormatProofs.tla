--------------------------- MODULE DbFormatProofs ---------------------------
(***************************************************************************)
(* Facts about integers as bytes and about internal keys, for bytes and    *)
(* integers of every width: what is decoded is what was encoded, and       *)
(* comparing the bytes of two keys is comparing their parts.               *)
(***************************************************************************)
EXTENDS DbFormat, NumberTheorems

\* The user keys are strings of bytes, and an internal key has a tag behind it.
Shape(k) ==
  ExtractUserKey(k) \in Seq(Byte) /\ Len(k) = Len(ExtractUserKey(k)) + Width64

\* What an internal key is made of.
Parts == [user_key : Seq(Byte), sequence : SequenceNumber, type : ValueType]

USE ByteAssumption

-----------------------------------------------------------------------------
(* The bytewise order.                                                     *)

\* The elements of a string are numbers.
LEMMA BytesAreNumbers ==
  ASSUME NEW u \in Seq(Byte)
  PROVE  Len(u) \in Nat /\ \A j \in 1 .. Len(u) : u[j] \in Int
<1>1. ASSUME NEW j \in 1 .. Len(u) PROVE u[j] \in Byte
  OBVIOUS
<1>2. \A x \in Byte : x \in Int
  BY DEF Byte
<1> QED BY <1>1, <1>2

\* What Min returns.
LEMMA MinIsLeast ==
  ASSUME NEW T, T \subseteq Nat, T # {}
  PROVE  User!Min(T) \in T /\ \A y \in T : User!Min(T) <= y
<1>1. \E x \in T : \A y \in T : x <= y
  BY LeastNumber
<1> QED BY <1>1 DEF User!Min

\* DiffIndex is the first difference, or just behind the shorter string.
LEMMA DiffIndexFirst ==
  ASSUME NEW a \in Seq(Byte), NEW b \in Seq(Byte), NEW i, i = User!DiffIndex(a, b)
  PROVE  /\ i \in Nat \ {0} /\ i <= Len(a) + 1 /\ i <= Len(b) + 1
         /\ \A j \in 1 .. i - 1 : a[j] = b[j]
         /\ i <= Len(a) /\ i <= Len(b) => a[i] # b[i]
<1>1. Len(a) \in Nat /\ Len(b) \in Nat
  OBVIOUS
<1>2. PICK m : m = User!Min({Len(a), Len(b)})
  OBVIOUS
<1>3. m \in {Len(a), Len(b)} /\ m <= Len(a) /\ m <= Len(b) /\ m \in Nat
  <2>1. {Len(a), Len(b)} \subseteq Nat /\ {Len(a), Len(b)} # {}
    BY <1>1
  <2>2. m \in {Len(a), Len(b)} /\ \A y \in {Len(a), Len(b)} : m <= y
    BY <1>2, <2>1, MinIsLeast
  <2> QED BY <1>1, <2>2
<1>4. PICK T : T = {j \in 1 .. m : a[j] # b[j]} \union {m + 1}
  OBVIOUS
<1>5. T \subseteq Nat /\ T # {}
  BY <1>3, <1>4
<1>6. i = User!Min(T)
  BY <1>2, <1>4 DEF User!DiffIndex
<1>7. i \in T /\ \A y \in T : i <= y
  BY <1>5, <1>6, MinIsLeast
<1>8. i \in 1 .. m + 1
  BY <1>3, <1>4, <1>7
<1>9. ASSUME NEW j \in 1 .. i - 1 PROVE a[j] = b[j]
  <2>1. j \in 1 .. m /\ ~(i <= j)
    BY <1>3, <1>8
  <2> QED BY <1>4, <1>7, <2>1
<1>10. ASSUME i <= Len(a), i <= Len(b) PROVE a[i] # b[i]
  <2>1. i # m + 1
    BY <1>1, <1>3, <1>10
  <2> QED BY <1>4, <1>7, <2>1
<1> QED BY <1>1, <1>3, <1>8, <1>9, <1>10

\* Slice::compare is the dictionary order.
LEMMA CompareLess ==
  ASSUME NEW a \in Seq(Byte), NEW b \in Seq(Byte)
  PROVE  /\ User!compare(a, b) \in {-1, 0, 1}
         /\ User!compare(a, b) = 0 => a = b
         /\ User!compare(a, b) < 0 => LessUser(a, b)
         /\ LessUser(a, b) => User!compare(a, b) < 0
<1>1. PICK i : i = User!DiffIndex(a, b)
  OBVIOUS
<1>2. /\ i \in Nat \ {0} /\ i <= Len(a) + 1 /\ i <= Len(b) + 1
      /\ \A j \in 1 .. i - 1 : a[j] = b[j]
      /\ i <= Len(a) /\ i <= Len(b) => a[i] # b[i]
  BY <1>1, DiffIndexFirst
<1>3. /\ Len(a) \in Nat /\ Len(b) \in Nat
      /\ \A j \in 1 .. Len(a) : a[j] \in Int
      /\ \A j \in 1 .. Len(b) : b[j] \in Int
  BY BytesAreNumbers, Zenon
<1>4. PICK c : c = User!compare(a, b)
  OBVIOUS
<1>5. c = IF i <= Len(a) /\ i <= Len(b) THEN User!Sign(a[i], b[i])
                                        ELSE User!Sign(Len(a), Len(b))
  BY <1>1, <1>4 DEF User!compare
<1>6. ASSUME NEW k \in 1 .. Len(b), k <= Len(a) + 1,
             \A j \in 1 .. k - 1 : a[j] = b[j], k = Len(a) + 1 \/ a[k] < b[k]
      PROVE  i = k
  <2>1. ~(i < k)
    <3> SUFFICES ASSUME i < k PROVE FALSE
      OBVIOUS
    <3>1. i \in 1 .. k - 1 /\ i <= Len(a) /\ i <= Len(b)
      BY <1>2, <1>3, <1>6
    <3> QED BY <1>2, <1>6, <3>1
  <2>2. ~(k < i)
    <3> SUFFICES ASSUME k < i PROVE FALSE
      OBVIOUS
    <3>1. k \in 1 .. i - 1 /\ k <= Len(a)
      BY <1>2, <1>3, <1>6
    <3>2. a[k] = b[k] /\ a[k] \in Int
      BY <1>2, <1>3, <3>1
    <3>3. a[k] < b[k]
      BY <1>3, <1>6, <3>1
    <3> QED BY <3>2, <3>3
  <2> QED BY <1>2, <1>6, <2>1, <2>2
<1>7. CASE i <= Len(a) /\ i <= Len(b)
  <2>1. i \in 1 .. Len(a) /\ i \in 1 .. Len(b) /\ a[i] \in Int /\ b[i] \in Int /\ a[i] # b[i]
    BY <1>2, <1>3, <1>7
  <2>2. c = IF a[i] < b[i] THEN -1 ELSE 1
    BY <1>5, <1>7, <2>1 DEF User!Sign
  <2>3. c < 0 => LessUser(a, b)
    BY <1>2, <2>1, <2>2 DEF LessUser
  <2>4. LessUser(a, b) => c < 0
    <3> SUFFICES ASSUME LessUser(a, b) PROVE a[i] < b[i]
      BY <2>2
    <3>1. PICK k \in 1 .. Len(b) :
            /\ k <= Len(a) + 1
            /\ \A j \in 1 .. k - 1 : a[j] = b[j]
            /\ k = Len(a) + 1 \/ a[k] < b[k]
      BY DEF LessUser
    <3>2. i = k
      BY <1>6, <3>1
    <3> QED BY <1>3, <1>7, <3>1, <3>2
  <2> QED BY <1>4, <2>2, <2>3, <2>4
<1>8. CASE ~(i <= Len(a) /\ i <= Len(b))
  <2>1. c = IF Len(a) < Len(b) THEN -1 ELSE IF Len(a) > Len(b) THEN 1 ELSE 0
    BY <1>5, <1>8 DEF User!Sign
  <2>2. i = Len(a) + 1 \/ i = Len(b) + 1
    BY <1>2, <1>3, <1>8
  <2>3. c = 0 => a = b
    <3> SUFFICES ASSUME c = 0 PROVE a = b
      OBVIOUS
    <3>1. Len(a) = Len(b)
      BY <1>3, <2>1
    <3>2. \A j \in 1 .. Len(a) : a[j] = b[j]
      BY <1>2, <1>3, <2>2, <3>1
    <3> QED BY <3>1, <3>2
  <2>4. c < 0 => LessUser(a, b)
    <3> SUFFICES ASSUME c < 0 PROVE LessUser(a, b)
      OBVIOUS
    <3>1. Len(a) < Len(b) /\ i = Len(a) + 1 /\ i \in 1 .. Len(b)
      BY <1>2, <1>3, <2>1, <2>2
    <3> QED BY <1>2, <3>1 DEF LessUser
  <2>5. LessUser(a, b) => c < 0
    <3> SUFFICES ASSUME LessUser(a, b) PROVE Len(a) < Len(b)
      BY <1>3, <2>1
    <3>1. PICK k \in 1 .. Len(b) :
            /\ k <= Len(a) + 1
            /\ \A j \in 1 .. k - 1 : a[j] = b[j]
            /\ k = Len(a) + 1 \/ a[k] < b[k]
      BY DEF LessUser
    <3>2. i = k
      BY <1>6, <3>1
    <3> QED BY <1>3, <2>2, <3>1, <3>2
  <2> QED BY <1>3, <1>4, <2>1, <2>3, <2>4, <2>5
<1> QED BY <1>7, <1>8

\* The dictionary order is transitive.
LEMMA LessTransitive ==
  ASSUME NEW a \in Seq(Byte), NEW b \in Seq(Byte), NEW c \in Seq(Byte),
         LessUser(a, b), LessUser(b, c)
  PROVE  LessUser(a, c)
<1>1. PICK i \in 1 .. Len(b) : /\ i <= Len(a) + 1
                               /\ \A j \in 1 .. i - 1 : a[j] = b[j]
                               /\ i = Len(a) + 1 \/ a[i] < b[i]
  BY DEF LessUser
<1>2. PICK k \in 1 .. Len(c) : /\ k <= Len(b) + 1
                               /\ \A j \in 1 .. k - 1 : b[j] = c[j]
                               /\ k = Len(b) + 1 \/ b[k] < c[k]
  BY DEF LessUser
<1>3. /\ Len(a) \in Nat /\ Len(b) \in Nat /\ Len(c) \in Nat
      /\ \A j \in 1 .. Len(a) : a[j] \in Int
      /\ \A j \in 1 .. Len(b) : b[j] \in Int
      /\ \A j \in 1 .. Len(c) : c[j] \in Int
  BY BytesAreNumbers, Zenon
<1>4. CASE i < k
  <2>1. i \in 1 .. k - 1 /\ i \in 1 .. Len(c) /\ b[i] = c[i]
    BY <1>1, <1>2, <1>3, <1>4
  <2>2. \A j \in 1 .. i - 1 : a[j] = c[j]
    BY <1>1, <1>2, <1>3, <1>4
  <2> QED BY <1>1, <2>1, <2>2 DEF LessUser
<1>5. CASE k < i
  <2>1. k <= Len(a) + 1 /\ k \in 1 .. i - 1 /\ a[k] = b[k] /\ k # Len(b) + 1
    BY <1>1, <1>2, <1>3, <1>5
  <2>2. \A j \in 1 .. k - 1 : a[j] = c[j]
    BY <1>1, <1>2, <1>3, <1>5
  <2>3. a[k] < c[k]
    BY <1>2, <2>1
  <2> QED BY <1>2, <2>1, <2>2, <2>3 DEF LessUser
<1>6. CASE i = k
  <2>1. \A j \in 1 .. i - 1 : a[j] = c[j]
    BY <1>1, <1>2, <1>6
  <2>2. i = Len(a) + 1 \/ a[i] < c[i]
    <3> SUFFICES ASSUME i # Len(a) + 1 PROVE a[i] < c[i]
      OBVIOUS
    <3>1. a[i] < b[i] /\ b[i] < c[i]
      BY <1>1, <1>2, <1>3, <1>6
    <3>2. a[i] \in Int /\ b[i] \in Int /\ c[i] \in Int
      BY <1>1, <1>2, <1>3, <1>6
    <3> QED BY <3>1, <3>2
  <2> QED BY <1>1, <1>2, <1>6, <2>1, <2>2 DEF LessUser
<1> QED BY <1>1, <1>2, <1>4, <1>5, <1>6

\* The dictionary order is total.
LEMMA LessTotal ==
  ASSUME NEW a \in Seq(Byte), NEW b \in Seq(Byte)
  PROVE  LessUser(a, b) \/ a = b \/ LessUser(b, a)
<1> DEFINE i == User!DiffIndex(a, b)
<1>1. /\ i \in Nat \ {0} /\ i <= Len(a) + 1 /\ i <= Len(b) + 1
      /\ \A j \in 1 .. i - 1 : a[j] = b[j]
      /\ i <= Len(a) /\ i <= Len(b) => a[i] # b[i]
  BY DiffIndexFirst
<1>2. /\ Len(a) \in Nat /\ Len(b) \in Nat
      /\ \A j \in 1 .. Len(a) : a[j] \in Int
      /\ \A j \in 1 .. Len(b) : b[j] \in Int
  BY BytesAreNumbers, Zenon
<1> HIDE DEF i
<1>3. CASE i <= Len(a) /\ i <= Len(b)
  <2>1. i \in 1 .. Len(a) /\ i \in 1 .. Len(b) /\ (a[i] < b[i] \/ b[i] < a[i])
    BY <1>1, <1>2, <1>3
  <2> QED BY <1>1, <2>1 DEF LessUser
<1>4. CASE i = Len(a) + 1 /\ i <= Len(b)
  BY <1>1, <1>2, <1>4 DEF LessUser
<1>5. CASE i = Len(b) + 1 /\ i <= Len(a)
  BY <1>1, <1>2, <1>5 DEF LessUser
<1>6. CASE i = Len(a) + 1 /\ i = Len(b) + 1
  BY <1>1, <1>2, <1>6
<1> QED BY <1>1, <1>2, <1>3, <1>4, <1>5, <1>6

\* No string comes before itself, and a string compares as equal with itself.
LEMMA LessIrreflexive ==
  ASSUME NEW a \in Seq(Byte)
  PROVE  ~LessUser(a, a)
<1>1. ASSUME NEW i \in 1 .. Len(a) PROVE a[i] \in Int /\ i # Len(a) + 1
  BY DEF Byte
<1> QED BY <1>1 DEF LessUser

LEMMA CompareSame ==
  ASSUME NEW a \in Seq(Byte)
  PROVE  User!compare(a, a) = 0
<1>1. PICK i : i = User!DiffIndex(a, a)
  OBVIOUS
<1>2. ~(i <= Len(a))
  BY <1>1, DiffIndexFirst
<1>3. User!Sign(Len(a), Len(a)) = 0
  BY DEF User!Sign
<1> QED BY <1>1, <1>2, <1>3 DEF User!compare

-----------------------------------------------------------------------------
(* Fixed-width integers.                                                   *)

\* Digits that are those of v add up to v modulo a power of the base.
LEMMA DigitsOf ==
  ASSUME NEW b \in Nat \ {0}, NEW v \in Nat, NEW n \in Nat, NEW g, DOMAIN g = 1 .. n,
         \A i \in 1 .. n : g[i] = (v \div Power(b, i - 1)) % b
  PROVE  FromDigits(g, b) = v % Power(b, n)
<1>1. PICK f : f = [i \in 1 .. n |-> g[i] * Power(b, i - 1)]
  OBVIOUS
<1>2. FromDigits(g, b) = Sum(f, 1 .. n)
  <2>1. DOMAIN f = 1 .. n
    BY <1>1, Zenon
  <2>2. FromDigits(g, b) = SumFunction(f)
    BY <1>1, Zenon DEF FromDigits
  <2> QED BY <2>1, <2>2, Zenon DEF SumFunction, SumFunctionOnSet, Sum
<1>3. \A i \in 1 .. n : f[i] = ((v \div Power(b, i - 1)) % b) * Power(b, i - 1)
  BY <1>1, Zenon
<1>4. Sum(f, 1 .. n) = v % Power(b, n)
  BY <1>3, Digits
<1> QED BY <1>2, <1>4

\* A digit is smaller than the base.
LEMMA DigitRange ==
  ASSUME NEW b \in Nat \ {0}, NEW v \in Nat, NEW i \in Nat \ {0}
  PROVE  (v \div Power(b, i - 1)) % b \in 0 .. b - 1
<1>1. PICK p : p = Power(b, i - 1)
  OBVIOUS
<1>2. p \in Nat \ {0}
  BY <1>1, PowerPositive
<1>3. v \div p \in Nat
  BY <1>2, Division, Zenon
<1>4. (v \div p) % b \in 0 .. b - 1
  BY <1>3, Division, Zenon
<1> QED BY <1>1, <1>4, Zenon

\* Decoding a fixed-width integer gives back what was encoded.
LEMMA FixedRoundTrip ==
  ASSUME NEW w \in Nat, NEW v \in 0 .. Power(Base, w) - 1
  PROVE  EncodeFixed(v, w) \in [1 .. w -> Byte] /\ DecodeFixed(EncodeFixed(v, w)) = v
<1>1. PICK b \in Nat \ {0} : b = Base
  OBVIOUS
<1>2. Power(b, w) \in Nat /\ v \in Nat /\ v \in 0 .. Power(b, w) - 1
  BY <1>1, PowerPositive
<1>3. PICK e : e = EncodeFixed(v, w)
  OBVIOUS
<1>4. e = [i \in 1 .. w |-> (v \div Power(b, i - 1)) % b]
  BY <1>1, <1>3, Zenon DEF EncodeFixed
<1>5. ASSUME NEW i \in 1 .. w PROVE (v \div Power(b, i - 1)) % b \in Byte
  <2>1. i \in Nat \ {0}
    OBVIOUS
  <2>2. (v \div Power(b, i - 1)) % b \in 0 .. b - 1
    BY <1>2, <2>1, DigitRange, Zenon
  <2> QED BY <1>1, <2>2, Zenon DEF Byte
<1>6. e \in [1 .. w -> Byte] /\ DOMAIN e = 1 .. w
  BY <1>4, <1>5, Zenon
<1>7. \A i \in 1 .. w : e[i] = (v \div Power(b, i - 1)) % b
  BY <1>4, Zenon
<1>8. FromDigits(e, b) = v % Power(b, w)
  BY <1>2, <1>6, <1>7, DigitsOf
<1>9. v % Power(b, w) = v
  BY <1>2, SmallRemainder, Zenon
<1> QED BY <1>1, <1>3, <1>6, <1>8, <1>9, Zenon DEF DecodeFixed

-----------------------------------------------------------------------------
(* Varints.                                                                *)

\* What Min returns, here and in the comparator.
LEMMA MinimumIsLeast ==
  ASSUME NEW T, T \subseteq Nat, T # {}
  PROVE  Min(T) \in T /\ \A y \in T : Min(T) <= y
<1>1. \E x \in T : \A y \in T : x <= y
  BY LeastNumber
<1> QED BY <1>1 DEF Min

\* A varint has as many groups as the number needs.
LEMMA VarintLengthIs ==
  ASSUME NEW v \in Nat, v < Power(Flag, Groups64), NEW n, n = VarintLength(v)
  PROVE  /\ n \in 1 .. Groups64 /\ n \in Nat \ {0}
         /\ v < Power(Flag, n) /\ (n > 1 => v >= Power(Flag, n - 1))
<1>1. Groups64 \in Nat \ {0}
  BY WidthAssumption, Zenon
<1>2. PICK T : T = {k \in Nat \ {0} : v < Power(Flag, k)}
  OBVIOUS
<1>3. PICK x \in T : \A y \in T : x <= y
  BY <1>1, <1>2, LeastNumber
<1>4. x \in 1 .. Groups64 /\ v < Power(Flag, x)
  BY <1>1, <1>2, <1>3
<1>5. x > 1 => v >= Power(Flag, x - 1)
  <2> SUFFICES ASSUME x > 1 PROVE v >= Power(Flag, x - 1)
    OBVIOUS
  <2>1. x - 1 \in Nat \ {0} /\ ~(x <= x - 1)
    BY <1>4
  <2>2. ~(v < Power(Flag, x - 1))
    BY <1>2, <1>3, <2>1
  <2>3. Flag \in Nat \ {0}
    OBVIOUS
  <2>4. Power(Flag, x - 1) \in Nat
    BY <2>1, <2>3, PowerPositive
  <2> QED BY <2>2, <2>4
<1>6. \E k \in 1 .. Groups64 : v < Power(Flag, k) /\ (k > 1 => v >= Power(Flag, k - 1))
  BY <1>4, <1>5
<1>7. n \in 1 .. Groups64 /\ v < Power(Flag, n) /\ (n > 1 => v >= Power(Flag, n - 1))
  BY <1>6, Zenon DEF VarintLength
<1> QED BY <1>1, <1>7

\* It has no more groups than any power of Flag beyond the number says.
LEMMA VarintNotLonger ==
  ASSUME NEW v \in Nat, v < Power(Flag, Groups64), NEW g \in Nat \ {0}, v < Power(Flag, g)
  PROVE  VarintLength(v) <= g
<1>1. PICK n : n = VarintLength(v)
  OBVIOUS
<1>2. n \in Nat \ {0} /\ (n > 1 => v >= Power(Flag, n - 1))
  BY <1>1, VarintLengthIs
<1> SUFFICES ASSUME n > g PROVE FALSE
  BY <1>1, <1>2
<1>3. n - 1 \in Nat /\ g <= n - 1 /\ n > 1
  BY <1>2
<1>4. Flag \in Nat \ {0}
  OBVIOUS
<1>5. Power(Flag, g) <= Power(Flag, n - 1) /\ Power(Flag, g) \in Nat /\ Power(Flag, n - 1) \in Nat
  BY <1>3, <1>4, PowerMonotone, PowerPositive
<1> QED BY <1>2, <1>3, <1>5

\* The bytes of a varint: its groups, all but the last one with Flag.
LEMMA VarintBytes ==
  ASSUME NEW v \in Nat, v < Power(Flag, Groups64), NEW n, n = VarintLength(v),
         NEW e, e = EncodeVarint(v)
  PROVE  /\ e \in [1 .. n -> Byte] /\ e \in Seq(Byte) /\ Len(e) = n
         /\ \A i \in 1 .. n : i < n <=> e[i] >= Flag
         /\ \A i \in 1 .. n : e[i] % Flag = (v \div Power(Flag, i - 1)) % Flag
<1>1. n \in Nat \ {0}
  BY VarintLengthIs
<1>2. PICK d : d = [i \in 1 .. n |-> (v \div Power(Flag, i - 1)) % Flag]
  OBVIOUS
<1>3. e = [i \in 1 .. n |->
             ((v \div Power(Flag, i - 1)) % Flag) + (IF i < n THEN Flag ELSE 0)]
  BY Zenon DEF EncodeVarint
<1>4. PICK b \in Nat \ {0} : b = Flag /\ Base = 2 * b
  OBVIOUS
<1>5. ASSUME NEW i \in 1 .. n
      PROVE  /\ d[i] = (v \div Power(Flag, i - 1)) % Flag
             /\ e[i] = d[i] + (IF i < n THEN Flag ELSE 0) /\ d[i] \in 0 .. b - 1
  <2>1. i \in Nat \ {0}
    BY <1>1
  <2>2. (v \div Power(b, i - 1)) % b \in 0 .. b - 1
    BY <2>1, DigitRange, Zenon
  <2>3. d[i] = (v \div Power(Flag, i - 1)) % Flag
    BY <1>2, Zenon
  <2>4. e[i] = d[i] + (IF i < n THEN Flag ELSE 0)
    BY <1>3, <2>3, Zenon
  <2> QED BY <1>4, <2>2, <2>3, <2>4, Zenon
<1>6. ASSUME NEW i \in 1 .. n
      PROVE  e[i] \in Byte /\ (i < n <=> e[i] >= Flag) /\ e[i] % Flag = d[i]
  <2>1. PICK x \in 0 .. b - 1 : x = d[i]
    BY <1>5
  <2>2. CASE i < n
    <3>1. e[i] = 1 * b + x
      BY <1>4, <1>5, <2>1, <2>2
    <3>2. (1 * b + x) % b = x
      BY <2>1, ModUnique, Zenon
    <3>3. e[i] \in Byte /\ e[i] >= Flag
      BY <1>4, <2>1, <3>1 DEF Byte
    <3> QED BY <1>4, <2>1, <2>2, <3>1, <3>2, <3>3
  <2>3. CASE ~(i < n)
    <3>1. e[i] = x
      BY <1>5, <2>1, <2>3
    <3>2. x % b = x
      BY <2>1, SmallRemainder, Zenon
    <3>3. x \in Byte /\ ~(x >= Flag)
      BY <1>4, <2>1 DEF Byte
    <3> QED BY <1>4, <2>1, <2>3, <3>1, <3>2, <3>3
  <2> QED BY <2>2, <2>3
<1>7. e \in [1 .. n -> Byte]
  BY <1>3, <1>6, Zenon
<1>8. e \in Seq(Byte) /\ Len(e) = n
  BY <1>1, <1>7
<1> QED BY <1>5, <1>6, <1>7, <1>8, Zenon

\* Reading a varint gives the number if all of it is there and it has not too
\* many groups; otherwise it fails.
LEMMA VarintRead ==
  ASSUME NEW v \in Nat, v < Power(Flag, Groups64), NEW n, n = VarintLength(v),
         NEW e, e = EncodeVarint(v), NEW in \in Seq(Byte),
         \A i \in 1 .. n : i <= Len(in) => in[i] = e[i],
         NEW groups \in Nat, NEW width
  PROVE  GetVarintOf(in, groups, width) =
           IF n <= Len(in) /\ n <= groups
           THEN [ok |-> TRUE, value |-> v % Power(Base, width), rest |-> Drop(in, n)]
           ELSE Failed(in)
<1>1. n \in Nat \ {0} /\ v < Power(Flag, n) /\ Len(in) \in Nat
  BY VarintLengthIs
<1>2. /\ \A i \in 1 .. n : i < n <=> e[i] >= Flag
      /\ \A i \in 1 .. n : e[i] % Flag = (v \div Power(Flag, i - 1)) % Flag
      /\ e \in [1 .. n -> Byte]
  BY VarintBytes
<1> DEFINE last == {i \in 1 .. groups : i <= Len(in) /\ in[i] < Flag}
<1>3. GetVarintOf(in, groups, width) =
        IF last = {} THEN Failed(in)
        ELSE [ok    |-> TRUE,
              value |-> FromDigits([i \in 1 .. Min(last) |-> in[i] % Flag], Flag) % Power(Base, width),
              rest  |-> Drop(in, Min(last))]
  BY DEF GetVarintOf
<1>4. last = {i \in 1 .. groups : i <= Len(in) /\ in[i] < Flag}
  OBVIOUS
<1> HIDE DEF last
<1>5. ASSUME NEW i \in last PROVE n <= i /\ i \in Nat
  <2>1. i \in 1 .. groups /\ i <= Len(in) /\ in[i] < Flag
    BY <1>4
  <2> SUFFICES ASSUME i < n PROVE FALSE
    BY <1>1, <2>1
  <2>2. i \in 1 .. n /\ in[i] = e[i] /\ e[i] >= Flag /\ e[i] \in Int
    BY <1>1, <1>2, <2>1 DEF Byte
  <2> QED BY <2>1, <2>2
<1>6. CASE n <= Len(in) /\ n <= groups
  <2>1. n \in 1 .. n /\ in[n] = e[n] /\ e[n] \in Int /\ ~(e[n] >= Flag)
    BY <1>1, <1>2, <1>6 DEF Byte
  <2>2. n \in last
    BY <1>1, <1>4, <1>6, <2>1
  <2>3. last \subseteq Nat /\ last # {}
    BY <1>5, <2>2
  <2>4. Min(last) \in last /\ Min(last) <= n
    BY <2>2, <2>3, MinimumIsLeast
  <2>5. Min(last) = n
    BY <1>1, <1>5, <2>4
  <2>6. PICK g : g = [i \in 1 .. n |-> in[i] % Flag]
    OBVIOUS
  <2>7. DOMAIN g = 1 .. n
    BY <2>6
  <2>8. ASSUME NEW i \in 1 .. n PROVE g[i] = (v \div Power(Flag, i - 1)) % Flag
    <3>1. i <= Len(in)
      BY <1>1, <1>6
    <3>2. in[i] = e[i]
      BY <3>1
    <3> QED BY <1>2, <2>6, <3>2, Zenon
  <2>9. PICK b \in Nat \ {0} : b = Flag
    OBVIOUS
  <2>10. FromDigits(g, b) = v % Power(b, n)
    <3>1. n \in Nat /\ \A i \in 1 .. n : g[i] = (v \div Power(b, i - 1)) % b
      BY <1>1, <2>8, <2>9, Zenon
    <3>2. b \in Nat \ {0} /\ v \in Nat /\ n \in Nat
      BY <2>9, <3>1
    <3> QED BY <2>7, <3>1, <3>2, DigitsOf
  <2>11. Power(b, n) \in Nat /\ v \in 0 .. Power(b, n) - 1
    BY <1>1, <2>9, PowerPositive
  <2>12. v % Power(b, n) = v
    BY <2>11, SmallRemainder, Zenon
  <2>13. FromDigits([i \in 1 .. Min(last) |-> in[i] % Flag], Flag) = v
    BY <2>5, <2>6, <2>9, <2>10, <2>12, Zenon
  <2> QED BY <1>3, <1>6, <2>3, <2>5, <2>13, Zenon
<1>7. CASE ~(n <= Len(in) /\ n <= groups)
  <2>1. last = {}
    <3> SUFFICES ASSUME NEW i \in last PROVE FALSE
      OBVIOUS
    <3>1. i \in 1 .. groups /\ i <= Len(in) /\ n <= i
      BY <1>4, <1>5
    <3> QED BY <1>1, <1>7, <3>1
  <2> QED BY <1>3, <1>7, <2>1, Zenon
<1> QED BY <1>6, <1>7

-----------------------------------------------------------------------------
(* Strings.                                                                *)

\* The length of a concatenation.
LEMMA ConcatLength ==
  ASSUME NEW S, NEW s \in Seq(S), NEW t \in Seq(S)
  PROVE  Len(s \o t) = Len(s) + Len(t)
OBVIOUS

\* Sequences with the same elements are the same.
LEMMA SameSequence ==
  ASSUME NEW S, NEW s \in Seq(S), NEW t \in Seq(S), Len(s) = Len(t),
         \A j \in 1 .. Len(s) : s[j] = t[j]
  PROVE  s = t
OBVIOUS

\* What is left after n elements were dropped.
LEMMA DropIs ==
  ASSUME NEW S, NEW s \in Seq(S), NEW n \in Nat, n <= Len(s)
  PROVE  /\ Drop(s, n) \in Seq(S) /\ Len(Drop(s, n)) = Len(s) - n
         /\ \A j \in 1 .. Len(s) - n : Drop(s, n)[j] = s[n + j]
BY DEF Drop

\* Dropping twice is dropping the sum.
LEMMA DropTwice ==
  ASSUME NEW S, NEW s \in Seq(S), NEW n \in Nat, NEW m \in Nat, n + m <= Len(s)
  PROVE  Drop(Drop(s, n), m) = Drop(s, n + m)
<1>1. PICK l \in Nat : l = Len(s)
  OBVIOUS
<1>2. PICK d : d = Drop(s, n)
  OBVIOUS
<1>3. d \in Seq(S) /\ Len(d) = l - n /\ \A j \in 1 .. l - n : d[j] = s[n + j]
  <2>1. n <= l
    BY <1>1
  <2> QED BY <1>1, <1>2, <2>1, DropIs
<1>4. PICK a : a = Drop(d, m)
  OBVIOUS
<1>5. a \in Seq(S) /\ Len(a) = l - n - m /\ \A j \in 1 .. l - n - m : a[j] = d[m + j]
  <2>1. l - n \in Nat /\ m <= l - n
    BY <1>1
  <2>2. PICK k \in Nat : k = l - n
    BY <2>1
  <2>3. m <= k /\ d \in Seq(S) /\ k = Len(d)
    BY <1>3, <2>1, <2>2
  <2>4. a \in Seq(S) /\ Len(a) = k - m /\ \A j \in 1 .. k - m : a[j] = d[m + j]
    BY <1>4, <2>3, DropIs
  <2>5. k - m = l - n - m
    BY <2>1, <2>2
  <2> QED BY <2>4, <2>5
<1>6. PICK b : b = Drop(s, n + m)
  OBVIOUS
<1>7. b \in Seq(S) /\ Len(b) = l - (n + m) /\ \A j \in 1 .. l - (n + m) : b[j] = s[(n + m) + j]
  <2>1. n + m \in Nat /\ n + m <= l
    BY <1>1
  <2>2. PICK k \in Nat : k = n + m
    BY <2>1
  <2>3. b \in Seq(S) /\ Len(b) = l - k /\ \A j \in 1 .. l - k : b[j] = s[k + j]
    <3>1. b = Drop(s, k) /\ k <= l
      BY <1>6, <2>1, <2>2
    <3> QED BY <1>1, <3>1, DropIs
  <2> QED BY <2>2, <2>3
<1>8. ASSUME NEW j \in 1 .. Len(a) PROVE a[j] = b[j]
  <2>1. a[j] = d[m + j] /\ m + j \in 1 .. l - n
    BY <1>1, <1>5
  <2>2. b[j] = s[(n + m) + j]
    BY <1>1, <1>5, <1>7
  <2>3. d[m + j] = s[n + (m + j)]
    BY <1>3, <2>1
  <2>4. n + (m + j) = (n + m) + j
    BY <1>1, <1>5
  <2> QED BY <2>1, <2>2, <2>3, <2>4
<1>9. Len(a) = Len(b)
  BY <1>1, <1>5, <1>7
<1>10. a = b
  BY <1>5, <1>7, <1>8, <1>9, SameSequence
<1> QED BY <1>2, <1>4, <1>6, <1>10

\* A number that fits in 64 bits takes no more than Groups64 groups.
LEMMA Varint64Fits ==
  ASSUME NEW v \in UInt64
  PROVE  v \in Nat /\ v < Power(Flag, Groups64)
<1>1. PICK p : p = Power(Base, Width64)
  OBVIOUS
<1>2. PICK q : q = Power(Flag, Groups64)
  OBVIOUS
<1>3. Width64 \in Nat /\ Groups64 \in Nat /\ p <= q
  BY <1>1, <1>2, WidthAssumption, Zenon
<1>4. Base \in Nat \ {0} /\ Flag \in Nat \ {0}
  OBVIOUS
<1>5. p \in Nat \ {0} /\ q \in Nat
  BY <1>1, <1>2, <1>3, <1>4, PowerPositive
<1>6. v \in 0 .. p - 1
  BY <1>1, <1>5 DEF UInt64
<1>7. v < q /\ v \in Nat
  BY <1>3, <1>5, <1>6
<1> QED BY <1>2, <1>7

\* A number that fits in 32 bits takes no more than Groups32 groups.
LEMMA Varint32Fits ==
  ASSUME NEW v \in UInt32, v < Power(Flag, Groups64)
  PROVE  VarintLength(v) <= Groups32 /\ v % Power(Base, Width32) = v /\ v \in Nat
<1>1. PICK p : p = Power(Base, Width32)
  OBVIOUS
<1>2. PICK q : q = Power(Flag, Groups32)
  OBVIOUS
<1>3. Width32 \in Nat /\ Groups32 \in Nat \ {0} /\ p <= q
  BY <1>1, <1>2, WidthAssumption, Zenon
<1>4. Base \in Nat \ {0} /\ Flag \in Nat \ {0}
  OBVIOUS
<1>5. p \in Nat \ {0} /\ q \in Nat
  BY <1>1, <1>2, <1>3, <1>4, PowerPositive
<1>6. v \in 0 .. p - 1 /\ v \in Nat
  BY <1>1, <1>5 DEF UInt32
<1>7. v < q
  BY <1>3, <1>5, <1>6
<1>8. VarintLength(v) <= Groups32
  BY <1>2, <1>3, <1>6, <1>7, VarintNotLonger
<1>9. v % p = v
  BY <1>5, <1>6, SmallRemainder
<1> QED BY <1>1, <1>6, <1>8, <1>9

\* Reading a string with its length in front gives the string if all of it is
\* there; otherwise it fails.
LEMMA SliceRead ==
  ASSUME NEW s \in Seq(Byte), Len(s) \in UInt32, Len(s) < Power(Flag, Groups64),
         NEW e, e = EncodeVarint(Len(s)) \o s, NEW in \in Seq(Byte),
         \A i \in 1 .. Len(e) : i <= Len(in) => in[i] = e[i]
  PROVE  /\ e \in Seq(Byte) /\ Len(e) = VarintLength(Len(s)) + Len(s)
         /\ IF Len(e) <= Len(in)
            THEN GetLengthPrefixedSlice(in) = [ok |-> TRUE, value |-> s, rest |-> Drop(in, Len(e))]
            ELSE ~GetLengthPrefixedSlice(in).ok
<1>1. PICK l \in Nat : l = Len(s)
  OBVIOUS
<1>2. PICK n : n = VarintLength(l)
  OBVIOUS
<1>3. n \in Nat \ {0} /\ n <= Groups32 /\ l % Power(Base, Width32) = l
  BY <1>1, <1>2, VarintLengthIs, Varint32Fits
<1>4. PICK f : f = EncodeVarint(l)
  OBVIOUS
<1>5. f \in Seq(Byte) /\ Len(f) = n
  BY <1>1, <1>2, <1>4, VarintBytes
<1>6. e = f \o s
  BY <1>1, <1>4
<1>7. e \in Seq(Byte) /\ Len(e) = n + l
  <2>1. Len(e) = Len(f) + Len(s)
    BY <1>5, <1>6, ConcatLength
  <2> QED BY <1>1, <1>5, <1>6, <2>1
<1>8. /\ \A j \in 1 .. n : e[j] = f[j]
      /\ \A j \in 1 .. l : e[n + j] = s[j]
  BY <1>1, <1>5, <1>6, SMTT(30)
<1>9. PICK m \in Nat : m = Len(in)
  OBVIOUS
<1>10. \A i \in 1 .. n : i <= Len(in) => in[i] = f[i]
  BY <1>1, <1>3, <1>7, <1>8
<1>11. Groups32 \in Nat
  BY WidthAssumption, Zenon
<1>12. PICK len : len = GetVarint32(in)
  OBVIOUS
<1>13. len = IF n <= m THEN [ok |-> TRUE, value |-> l, rest |-> Drop(in, n)] ELSE Failed(in)
  <2>1. GetVarintOf(in, Groups32, Width32) =
          IF n <= Len(in) /\ n <= Groups32
          THEN [ok |-> TRUE, value |-> l % Power(Base, Width32), rest |-> Drop(in, n)]
          ELSE Failed(in)
    BY <1>1, <1>2, <1>4, <1>10, <1>11, VarintRead
  <2> QED BY <1>3, <1>9, <1>12, <2>1, Zenon DEF GetVarint32
<1>14. GetLengthPrefixedSlice(in) =
         IF len.ok /\ Len(len.rest) >= len.value
         THEN [ok |-> TRUE, value |-> SubSeq(len.rest, 1, len.value),
               rest |-> Drop(len.rest, len.value)]
         ELSE Failed(len.rest)
  BY <1>12, Zenon DEF GetLengthPrefixedSlice
<1>15. CASE n <= m
  <2>1. PICK r : r = Drop(in, n)
    OBVIOUS
  <2>2. r \in Seq(Byte) /\ Len(r) = m - n /\ \A j \in 1 .. m - n : r[j] = in[n + j]
    BY <1>3, <1>9, <1>15, <2>1 DEF Drop
  <2>3. len.ok /\ len.value = l /\ len.rest = r
    BY <1>13, <1>15, <2>1
  <2>4. CASE n + l <= m
    <3>1. PICK c : c = SubSeq(r, 1, l)
      OBVIOUS
    <3>2. c \in Seq(Byte) /\ Len(c) = l /\ \A j \in 1 .. l : c[j] = r[j]
      BY <1>3, <2>2, <2>4, <3>1, SMTT(30)
    <3>3. ASSUME NEW j \in 1 .. l PROVE c[j] = s[j]
      <4>1. j \in 1 .. m - n /\ n + j \in 1 .. n + l /\ n + j <= m
        BY <1>3, <2>4
      <4>3. c[j] = in[n + j]
        BY <2>2, <3>2, <4>1
      <4>2. in[n + j] = e[n + j]
        BY <1>7, <1>9, <4>1
      <4> QED BY <1>8, <4>2, <4>3
    <3>4. c = s
      BY <1>1, <3>2, <3>3, SameSequence
    <3>5. Drop(r, l) = Drop(in, n + l)
      BY <1>3, <1>9, <2>1, <2>4, DropTwice
    <3>6. Len(len.rest) >= len.value
      BY <1>3, <2>2, <2>3, <2>4
    <3>7. GetLengthPrefixedSlice(in) =
            [ok |-> TRUE, value |-> SubSeq(r, 1, l), rest |-> Drop(r, l)]
      BY <1>14, <2>3, <3>6, Zenon
    <3>8. GetLengthPrefixedSlice(in) = [ok |-> TRUE, value |-> s, rest |-> Drop(in, Len(e))]
      BY <1>7, <3>1, <3>4, <3>5, <3>7, Zenon
    <3> QED BY <1>1, <1>2, <1>7, <1>9, <2>4, <3>8
  <2>5. CASE ~(n + l <= m)
    <3>1. ~(Len(len.rest) >= len.value)
      BY <1>3, <2>2, <2>3, <2>5
    <3>2. ~GetLengthPrefixedSlice(in).ok
      BY <1>14, <3>1 DEF Failed
    <3> QED BY <1>1, <1>2, <1>7, <1>9, <2>5, <3>2
  <2> QED BY <2>4, <2>5
<1>16. CASE ~(n <= m)
  <2>1. ~len.ok
    BY <1>13, <1>16 DEF Failed
  <2>2. ~GetLengthPrefixedSlice(in).ok
    BY <1>14, <2>1 DEF Failed
  <2>3. ~(n + l <= m)
    BY <1>3, <1>16
  <2> QED BY <1>1, <1>2, <1>7, <1>9, <2>2, <2>3
<1> QED BY <1>15, <1>16

-----------------------------------------------------------------------------
(* Tags.                                                                   *)

\* A tag has at least one byte.
LEMMA TagWidth == Width64 \in Nat \ {0}
BY WidthAssumption, Zenon

\* Cutting the tag off gives the user key that was put in front of it.
LEMMA TagCut ==
  ASSUME NEW u \in Seq(Byte), NEW v, NEW k, k = u \o EncodeFixed(v, Width64)
  PROVE  Shape(k) /\ ExtractUserKey(k) = u /\ Len(k) = Len(u) + Width64
<1>1. PICK w : w = Width64
  OBVIOUS
<1>2. w \in Nat
  BY <1>1, TagWidth
<1>3. PICK e : e = EncodeFixed(v, w)
  OBVIOUS
<1>4. DOMAIN e = 1 .. w
  BY <1>3, Zenon DEF EncodeFixed
<1>5. PICK f : f = [j \in 1 .. w |-> e[j]]
  OBVIOUS
<1>6. e = f
  BY <1>3, <1>5, Zenon DEF EncodeFixed
<1>7. PICK S : S = Byte \union {e[j] : j \in 1 .. w}
  OBVIOUS
<1>8. f \in [1 .. w -> S]
  BY <1>5, <1>7
<1>9. f \in Seq(S) /\ Len(f) = w
  BY <1>2, <1>8
<1>10. u \in Seq(S)
  BY <1>7
<1>11. k = u \o f
  BY <1>1, <1>3, <1>6
<1>12. k \in Seq(S) /\ Len(k) = Len(u) + w
  <2>1. k \in Seq(S)
    BY <1>9, <1>10, <1>11
  <2>2. Len(k) = Len(u) + Len(f)
    BY <1>9, <1>10, <1>11, ConcatLength
  <2> QED BY <1>9, <2>1, <2>2
<1>13. \A j \in 1 .. Len(u) : k[j] = u[j]
  BY <1>9, <1>10, <1>11
<1>14. PICK c : c = SubSeq(k, 1, Len(u))
  OBVIOUS
<1>15. c = u
  <2>1. Len(u) \in Nat
    OBVIOUS
  <2>2. c \in Seq(S) /\ Len(c) = Len(u)
    BY <1>2, <1>12, <1>14, <2>1
  <2>3. \A j \in 1 .. Len(u) : c[j] = k[j]
    BY <1>2, <1>12, <1>14, <2>1
  <2> QED BY <1>10, <1>13, <2>2, <2>3
<1>16. Len(k) - w = Len(u)
  BY <1>2, <1>12
<1>17. ExtractUserKey(k) = u
  BY <1>1, <1>14, <1>15, <1>16 DEF ExtractUserKey
<1> QED BY <1>1, <1>12, <1>17 DEF Shape

\* The tag of an internal key is what was put behind the user key.
LEMMA TagOf ==
  ASSUME NEW u \in Seq(Byte), NEW e \in [1 .. Width64 -> Byte], NEW k, k = u \o e
  PROVE  k \in Seq(Byte) /\ Tail8(k) = e
<1>1. PICK w \in Nat \ {0} : w = Width64
  BY TagWidth
<1>2. e \in Seq(Byte) /\ Len(e) = w
  BY <1>1
<1>3. k \in Seq(Byte) /\ Len(k) = Len(u) + w /\ Len(u) \in Nat
  <2>1. k \in Seq(Byte) /\ Len(u) \in Nat
    BY <1>2
  <2>2. Len(k) = Len(u) + Len(e)
    BY <1>2, ConcatLength
  <2> QED BY <1>2, <2>1, <2>2
<1>4. \A j \in 1 .. w : k[Len(u) + j] = e[j]
  BY <1>2, <1>3
<1>5. PICK n \in Nat : n = Len(u)
  BY <1>3
<1>6. Tail8(k) = SubSeq(k, n + 1, n + w)
  <2>1. Len(k) - w + 1 = n + 1 /\ Len(k) = n + w
    BY <1>1, <1>3, <1>5
  <2> QED BY <1>1, <2>1 DEF Tail8
<1>7. PICK t : t = SubSeq(k, n + 1, n + w)
  OBVIOUS
<1>8. t \in Seq(Byte) /\ Len(t) = w
  BY <1>1, <1>3, <1>5, <1>7
<1>9. \A j \in 1 .. w : t[j] = k[n + j]
  BY <1>1, <1>3, <1>5, <1>7
<1>10. t = e
  <2>1. \A j \in 1 .. w : t[j] = e[j]
    BY <1>4, <1>5, <1>9
  <2> QED BY <1>2, <1>8, <2>1, SameSequence
<1> QED BY <1>3, <1>6, <1>7, <1>10

\* A sequence number and a type fit in a tag.
LEMMA PackFits ==
  ASSUME NEW q \in SequenceNumber, NEW t \in ValueType
  PROVE  /\ q \in Nat /\ t \in 0 .. Base - 1
         /\ PackSequenceAndType(q, t) \in 0 .. Power(Base, Width64) - 1
<1>1. PICK m \in Nat : m = Width64 - 1 /\ m + 1 = Width64
  BY TagWidth
<1>2. PICK p : p = Power(Base, m)
  OBVIOUS
<1>3. Base \in Nat \ {0}
  OBVIOUS
<1>4. p \in Nat \ {0} /\ Power(Base, Width64) = Base * p
  BY <1>1, <1>2, <1>3, PowerPositive, PowerRecursion
<1>5. q \in 0 .. p - 1
  BY <1>1, <1>2 DEF SequenceNumber, s_max_sequence_number
<1>6. t \in 0 .. Base - 1
  BY DEF ValueType, TypeDeletion, TypeValue
<1>7. q * Base <= (p - 1) * Base /\ q * Base \in Nat
  BY <1>3, <1>4, <1>5
<1>8. (p - 1) * Base = Base * p - Base
  BY <1>3, <1>4
<1>9. q * Base + t \in 0 .. Base * p - 1
  BY <1>3, <1>4, <1>6, <1>7, <1>8
<1> QED BY <1>4, <1>5, <1>6, <1>9 DEF PackSequenceAndType

\* The tag tells the sequence number and the type.
LEMMA Unpack ==
  ASSUME NEW q \in SequenceNumber, NEW t \in ValueType
  PROVE  /\ PackSequenceAndType(q, t) \div Base = q
         /\ PackSequenceAndType(q, t) % Base = t
<1>1. q \in Nat /\ t \in 0 .. Base - 1
  BY PackFits
<1>2. PICK p \in Nat : p = q * Base + t
  BY <1>1
<1>3. PICK b \in Nat \ {0} : b = Base
  OBVIOUS
<1>4. (q * b + t) % b = t
  BY <1>1, <1>3, ModUnique, Zenon
<1>5. p % b = t
  BY <1>2, <1>3, <1>4
<1>6. p \div b \in Nat /\ p % b \in 0 .. b - 1 /\ p = (p \div b) * b + (p % b)
  BY Division, Zenon
<1>7. PICK d \in Int : d = p \div b
  BY <1>6
<1>8. d * b = q * b
  BY <1>1, <1>2, <1>3, <1>5, <1>6, <1>7
<1>9. d = q
  BY <1>1, <1>3, <1>8
<1> QED BY <1>2, <1>3, <1>5, <1>7, <1>9 DEF PackSequenceAndType

\* Parsing an internal key gives the parts it was made of.
LEMMA ParseAppended ==
  ASSUME NEW p \in Parts, NEW k, k = AppendInternalKey(p)
  PROVE  /\ k \in Seq(Byte) /\ Shape(k) /\ ExtractUserKey(k) = p.user_key
         /\ DecodeFixed(Tail8(k)) = PackSequenceAndType(p.sequence, p.type)
         /\ Len(k) = Len(p.user_key) + Width64
         /\ ParseInternalKey(k) = [ok |-> TRUE, user_key |-> p.user_key,
                                   sequence |-> p.sequence, type |-> p.type]
<1>1. /\ p.user_key \in Seq(Byte) /\ p.sequence \in SequenceNumber /\ p.type \in ValueType
  BY DEF Parts
<1>2. PICK v : v = PackSequenceAndType(p.sequence, p.type)
  OBVIOUS
<1>3. v \in 0 .. Power(Base, Width64) - 1 /\ v \div Base = p.sequence /\ v % Base = p.type
  BY <1>1, <1>2, PackFits, Unpack
<1>4. PICK e : e = EncodeFixed(v, Width64)
  OBVIOUS
<1>5. Width64 \in Nat
  BY TagWidth
<1>6. e \in [1 .. Width64 -> Byte] /\ DecodeFixed(e) = v
  BY <1>3, <1>4, <1>5, FixedRoundTrip
<1>7. k = p.user_key \o e
  BY <1>2, <1>4 DEF AppendInternalKey
<1>8. k \in Seq(Byte) /\ Tail8(k) = e
  BY <1>1, <1>6, <1>7, TagOf
<1>9. Shape(k) /\ ExtractUserKey(k) = p.user_key /\ Len(k) = Len(p.user_key) + Width64
  BY <1>1, <1>4, <1>7, TagCut
<1>10. ~(Len(k) < Width64)
  BY <1>1, <1>5, <1>9
<1>11. v % Base <= TypeValue
  BY <1>1, <1>3 DEF ValueType, TypeDeletion, TypeValue
<1>12. ParseInternalKey(k) = [ok       |-> v % Base <= TypeValue,
                              user_key |-> p.user_key,
                              sequence |-> v \div Base,
                              type     |-> v % Base]
  BY <1>6, <1>8, <1>9, <1>10, Zenon DEF ParseInternalKey
<1>13. (v % Base <= TypeValue) = TRUE
  BY <1>11
<1>14. ParseInternalKey(k) = [ok |-> TRUE, user_key |-> p.user_key,
                              sequence |-> p.sequence, type |-> p.type]
  BY <1>3, <1>12, <1>13, Zenon
<1> QED BY <1>2, <1>6, <1>8, <1>9, <1>14

\* Tags are ordered as sequence numbers, and within one as types.
LEMMA PackOrder ==
  ASSUME NEW q \in SequenceNumber, NEW t \in ValueType,
         NEW r \in SequenceNumber, NEW s \in ValueType
  PROVE  /\ PackSequenceAndType(q, t) < PackSequenceAndType(r, s)
              <=> q < r \/ (q = r /\ t < s)
         /\ PackSequenceAndType(q, t) \in Int
         /\ PackSequenceAndType(q, t) = PackSequenceAndType(r, s) <=> q = r /\ t = s
<1>1. q \in Nat /\ t \in 0 .. Base - 1 /\ r \in Nat /\ s \in 0 .. Base - 1
  BY PackFits
<1>2. PICK x \in Int, y \in Int : x = q * Base /\ y = r * Base
  BY <1>1
<1>3. q < r => x + Base <= y
  <2> SUFFICES ASSUME q < r PROVE x + Base <= y
    OBVIOUS
  <2>1. (q + 1) * Base <= r * Base
    BY <1>1
  <2>2. (q + 1) * Base = q * Base + Base
    BY <1>1
  <2> QED BY <1>2, <2>1, <2>2
<1>4. r < q => y + Base <= x
  <2> SUFFICES ASSUME r < q PROVE y + Base <= x
    OBVIOUS
  <2>1. (r + 1) * Base <= q * Base
    BY <1>1
  <2>2. (r + 1) * Base = r * Base + Base
    BY <1>1
  <2> QED BY <1>2, <2>1, <2>2
<1>5. q = r => x = y
  BY <1>2
<1>6. PICK b \in Nat : b = Base
  OBVIOUS
<1>7. /\ x + t < y + s <=> q < r \/ (q = r /\ t < s)
      /\ x + t = y + s <=> q = r /\ t = s
  <2>1. CASE q < r
    BY <1>1, <1>2, <1>3, <1>6, <2>1
  <2>2. CASE r < q
    BY <1>1, <1>2, <1>4, <1>6, <2>2
  <2>3. CASE q = r
    BY <1>1, <1>2, <1>5, <1>6, <2>3
  <2> QED BY <1>1, <2>1, <2>2, <2>3
<1> QED BY <1>1, <1>2, <1>7 DEF PackSequenceAndType

\* Comparing the bytes of two internal keys is comparing their parts.
LEMMA CompareParts ==
  ASSUME NEW p \in Parts, NEW q \in Parts,
         NEW a, a = AppendInternalKey(p), NEW b, b = AppendInternalKey(q)
  PROVE  /\ compare(a, b) \in {-1, 0, 1}
         /\ compare(a, b) < 0 <=> Less(p, q)
         /\ compare(a, b) = 0 <=> p = q
<1>1. /\ p.user_key \in Seq(Byte) /\ p.sequence \in SequenceNumber /\ p.type \in ValueType
      /\ q.user_key \in Seq(Byte) /\ q.sequence \in SequenceNumber /\ q.type \in ValueType
  BY DEF Parts
<1>2. PICK u, v : u = p.user_key /\ v = q.user_key
  OBVIOUS
<1>3. PICK x, y : /\ x = PackSequenceAndType(p.sequence, p.type)
                  /\ y = PackSequenceAndType(q.sequence, q.type)
  OBVIOUS
<1>4. /\ ExtractUserKey(a) = u /\ DecodeFixed(Tail8(a)) = x
      /\ ExtractUserKey(b) = v /\ DecodeFixed(Tail8(b)) = y
  BY <1>2, <1>3, ParseAppended
<1>5. PICK r : r = User!compare(u, v)
  OBVIOUS
<1>6. PICK c : c = compare(a, b)
  OBVIOUS
<1>7. c = IF r # 0 THEN r ELSE User!Sign(y, x)
  BY <1>4, <1>5, <1>6 DEF compare
<1>8. /\ r \in {-1, 0, 1} /\ (r = 0 => u = v)
      /\ (r < 0 => LessUser(u, v)) /\ (LessUser(u, v) => r < 0)
  BY <1>1, <1>2, <1>5, CompareLess
<1>9. ~LessUser(u, u)
  BY <1>1, <1>2, LessIrreflexive
<1>10. /\ x \in Int /\ y \in Int
       /\ y < x <=> q.sequence < p.sequence \/ (q.sequence = p.sequence /\ q.type < p.type)
       /\ x = y <=> p.sequence = q.sequence /\ p.type = q.type
  BY <1>1, <1>3, PackOrder
<1>11. PICK i, j \in Nat : i = p.sequence /\ j = q.sequence
  BY <1>1, PackFits
<1>12. PICK s, t \in Nat : s = p.type /\ t = q.type
  BY <1>1, PackFits
<1>13. p = q <=> u = v /\ i = j /\ s = t
  BY <1>2, <1>11, <1>12 DEF Parts
<1>14. Less(p, q) <=> LessUser(u, v) \/ (u = v /\ y < x)
  BY <1>2, <1>10, <1>11, <1>12 DEF Less
<1>15. CASE r # 0
  <2>1. c = r
    BY <1>7, <1>15
  <2>2. u # v
    BY <1>8, <1>9, <1>15, <1>1, <1>2, <1>5, CompareSame
  <2> QED BY <1>6, <1>8, <1>13, <1>14, <1>15, <2>1, <2>2
<1>16. CASE r = 0
  <2>1. u = v /\ ~LessUser(u, v)
    BY <1>8, <1>9, <1>16
  <2>2. c = IF y < x THEN -1 ELSE IF y > x THEN 1 ELSE 0
    BY <1>7, <1>16 DEF User!Sign
  <2>3. x = y <=> i = j /\ s = t
    BY <1>10, <1>11, <1>12
  <2> QED BY <1>6, <1>10, <1>13, <1>14, <2>1, <2>2, <2>3
<1> QED BY <1>15, <1>16
=============================================================================
