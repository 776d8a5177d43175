------------------------- MODULE InternalKeyProofs --------------------------
(***************************************************************************)
(* Internal keys at work, for bytes and tags of every width: a shortened   *)
(* key separates what it should, keeps its order and is as short as it can *)
(* be, for user keys of every length, a LookupKey keeps to its buffer, and *)
(* a lookup finds what it should, for all user keys and any number of      *)
(* versions.                                                               *)
(***************************************************************************)
EXTENDS KeyShortening, LookupKeys, VersionLookup, DbFormatProofs

\* k was put together from a user key that is not too long, a sequence number
\* and a type.
IsKey(k) == \E p \in Parts : Len(p.user_key) <= MaxLen /\ k = AppendInternalKey(p)

KeysInv == IsKey(start) /\ IsKey(limit)

USE ByteAssumption

-----------------------------------------------------------------------------
(* Shortening user keys.                                                   *)

\* Increasing the byte at i puts a string after s and no further than that.
LEMMA BumpFollows ==
  ASSUME NEW u \in Seq(Byte), NEW i \in 1 .. Len(u), u[i] < Base - 1
  PROVE  /\ User!Bump(u, i) \in Seq(Byte) /\ LessUser(u, User!Bump(u, i))
         /\ Len(User!Bump(u, i)) = i /\ User!Bump(u, i)[i] = u[i] + 1
         /\ \A j \in 1 .. i - 1 : User!Bump(u, i)[j] = u[j]
<1>1. PICK p : p = SubSeq(u, 1, i - 1)
  OBVIOUS
<1>2. p \in Seq(Byte) /\ Len(p) = i - 1 /\ \A j \in 1 .. i - 1 : p[j] = u[j]
  <2>1. p \in Seq(Byte)
    BY <1>1
  <2>2. Len(p) = i - 1
    BY <1>1
  <2>3. \A j \in 1 .. i - 1 : p[j] = u[j]
    BY <1>1
  <2> QED BY <2>1, <2>2, <2>3
<1>3. u[i] \in Byte /\ u[i] \in Int /\ u[i] + 1 \in Byte
  BY DEF Byte
<1>4. PICK x \in Byte : x = u[i] + 1
  BY <1>3
<1>5. PICK b : b = Append(p, x)
  OBVIOUS
<1>6. b = User!Bump(u, i)
  BY <1>1, <1>4, <1>5 DEF User!Bump
<1>7. b \in Seq(Byte) /\ Len(b) = i /\ b[i] = u[i] + 1 /\ \A j \in 1 .. i - 1 : b[j] = u[j]
  <2>1. b \in Seq(Byte) /\ Len(b) = i
    BY <1>2, <1>5
  <2>2. b[i] = x
    BY <1>2, <1>5
  <2>3. \A j \in 1 .. i - 1 : b[j] = p[j]
    BY <1>2, <1>5
  <2> QED BY <1>2, <1>4, <2>1, <2>2, <2>3
<1>8. LessUser(u, b)
  <2>1. i \in 1 .. Len(b) /\ i <= Len(u) + 1 /\ u[i] < b[i]
    BY <1>3, <1>7
  <2> QED BY <1>7, <2>1 DEF LessUser
<1> QED BY <1>6, <1>7, <1>8

\* The separator of two strings is start itself, or lies between them.
LEMMA SeparatorOfUserKeys ==
  ASSUME NEW a \in Seq(Byte), NEW b \in Seq(Byte), NEW x, x = User!findShortestSeparator(a, b)
  PROVE  x = a \/ (x \in Seq(Byte) /\ LessUser(a, x) /\ LessUser(x, b))
<1>1. PICK i : i = User!DiffIndex(a, b)
  OBVIOUS
<1>2. i \in Nat \ {0} /\ \A j \in 1 .. i - 1 : a[j] = b[j]
  BY <1>1, DiffIndexFirst
<1> SUFFICES ASSUME x # a PROVE x \in Seq(Byte) /\ LessUser(a, x) /\ LessUser(x, b)
  OBVIOUS
<1>3. /\ i <= Len(a) /\ i <= Len(b) /\ a[i] < Base - 1 /\ a[i] + 1 < b[i]
      /\ x = User!Bump(a, i)
  BY <1>1 DEF User!findShortestSeparator
<1>4. i \in 1 .. Len(a) /\ i \in 1 .. Len(b)
  BY <1>2, <1>3
<1>5. /\ x \in Seq(Byte) /\ LessUser(a, x) /\ Len(x) = i /\ x[i] = a[i] + 1
      /\ \A j \in 1 .. i - 1 : x[j] = a[j]
  BY <1>3, <1>4, BumpFollows
<1>6. LessUser(x, b)
  <2>1. i \in 1 .. Len(b) /\ i <= Len(x) + 1 /\ x[i] < b[i]
    BY <1>3, <1>4, <1>5
  <2> QED BY <1>2, <1>5, <2>1 DEF LessUser
<1> QED BY <1>5, <1>6

\* No string from u on is shorter than u's first bytes of the greatest value.
LEMMA NoShorter ==
  ASSUME NEW u \in Seq(Byte), NEW i \in 0 .. Len(u),
         \A j \in 1 .. i - 1 : u[j] = Base - 1,
         NEW v \in Seq(Byte), v = u \/ LessUser(u, v)
  PROVE  Len(v) >= i
<1>1. Len(u) \in Nat /\ Len(v) \in Nat /\ i \in Nat
  OBVIOUS
<1>2. CASE v = u
  BY <1>1, <1>2
<1>3. CASE LessUser(u, v)
  <2> SUFFICES ASSUME Len(v) < i PROVE FALSE
    BY <1>1
  <2>1. PICK m \in 1 .. Len(v) : m <= Len(u) + 1 /\ (m = Len(u) + 1 \/ u[m] < v[m])
    BY <1>3 DEF LessUser
  <2>2. m \in 1 .. i - 1 /\ m # Len(u) + 1
    BY <1>1, <2>1
  <2>3. u[m] = Base - 1 /\ u[m] < v[m] /\ v[m] \in Byte
    BY <2>1, <2>2
  <2>4. PICK w : w = v[m]
    OBVIOUS
  <2>5. Base \in Nat /\ Base - 1 < w /\ w \in 0 .. Base - 1
    BY <2>3, <2>4, ByteAssumption DEF Byte
  <2> QED BY <2>5
<1> QED BY <1>2, <1>3

\* The successor of a string is the string itself, or comes after it; no string
\* from there on is shorter than both.
LEMMA SuccessorOfUserKey ==
  ASSUME NEW a \in Seq(Byte), NEW x, x = User!findShortSuccessor(a)
  PROVE  /\ x \in Seq(Byte) /\ (x = a \/ LessUser(a, x))
         /\ \A v \in Seq(Byte) :
              v = a \/ LessUser(a, v) => Len(v) >= Len(x) \/ Len(v) >= Len(a)
         /\ Len(x) <= Len(a)
<1>1. PICK small : small = {i \in DOMAIN a : a[i] # Base - 1}
  OBVIOUS
<1>2. CASE small = {}
  <2>1. x = a
    BY <1>1, <1>2 DEF User!findShortSuccessor
  <2>2. Len(a) \in 0 .. Len(a) /\ \A j \in 1 .. Len(a) - 1 : a[j] = Base - 1
    BY <1>1, <1>2
  <2>3. \A v \in Seq(Byte) : v = a \/ LessUser(a, v) => Len(v) >= Len(a)
    BY <2>2, NoShorter
  <2>4. Len(x) <= Len(a)
    BY <2>1
  <2> QED BY <2>1, <2>3, <2>4
<1>3. CASE small # {}
  <2>1. x = User!Bump(a, User!Min(small))
    BY <1>1, <1>3 DEF User!findShortSuccessor
  <2>2. small \subseteq Nat
    BY <1>1
  <2>3. PICK i \in small : i = User!Min(small) /\ \A j \in small : i <= j
    BY <1>3, <2>2, MinIsLeast
  <2>4. i \in 1 .. Len(a) /\ a[i] \in Byte /\ a[i] # Base - 1
    BY <1>1, <2>3
  <2>5. a[i] < Base - 1
    BY <2>4 DEF Byte
  <2>6. x \in Seq(Byte) /\ LessUser(a, x) /\ Len(x) = i
    BY <2>1, <2>3, <2>4, <2>5, BumpFollows
  <2>7. \A j \in 1 .. i - 1 : a[j] = Base - 1
    <3> SUFFICES ASSUME NEW j \in 1 .. i - 1, a[j] # Base - 1 PROVE FALSE
      OBVIOUS
    <3>1. j \in DOMAIN a /\ ~(i <= j)
      BY <2>4
    <3>2. j \in small
      BY <1>1, <3>1
    <3> QED BY <2>3, <3>1, <3>2
  <2>8. i \in 0 .. Len(a)
    BY <2>4
  <2>9. \A v \in Seq(Byte) : v = a \/ LessUser(a, v) => Len(v) >= i
    BY <2>7, <2>8, NoShorter
  <2> QED BY <2>6, <2>8, <2>9
<1> QED BY <1>2, <1>3
-----------------------------------------------------------------------------
(* Internal keys.                                                          *)

\* A key that was put together has a user key and a tag.
LEMMA KeyShaped ==
  ASSUME NEW k, IsKey(k)
  PROVE  Shape(k) /\ Len(ExtractUserKey(k)) <= MaxLen
BY ParseAppended DEF IsKey

\* All internal keys are such keys.
LEMMA InternalKeysAreKeys == \A k \in InternalKeys : IsKey(k)
<1> SUFFICES ASSUME NEW k \in InternalKeys PROVE IsKey(k)
  OBVIOUS
<1>1. PICK p \in [user_key : BoundedKeys, sequence : SequenceNumber, type : ValueType] :
        k = AppendInternalKey(p)
  BY DEF InternalKeys
<1>2. p.user_key \in Seq(Byte) /\ Len(p.user_key) <= MaxLen
  BY MaxLenAssumption DEF BoundedKeys
<1>3. p \in Parts
  BY <1>2 DEF Parts
<1> QED BY <1>1, <1>2, <1>3 DEF IsKey

\* A user key that is not too long makes a key with the tag that sorts first.
LEMMA NewKey ==
  ASSUME NEW u \in Seq(Byte), Len(u) <= MaxLen, NEW k,
         k = u \o EncodeFixed(
               PackSequenceAndType(s_max_sequence_number, s_value_type_for_seek), Width64)
  PROVE  IsKey(k)
<1>1. s_max_sequence_number \in SequenceNumber
  <2>1. PICK m \in Nat : m = Width64 - 1
    BY TagWidth
  <2>2. Base \in Nat \ {0}
    OBVIOUS
  <2>3. Power(Base, m) \in Nat \ {0}
    BY <2>2, PowerPositive
  <2> QED BY <2>1, <2>3 DEF SequenceNumber, s_max_sequence_number
<1>2. s_value_type_for_seek \in ValueType
  BY DEF s_value_type_for_seek, ValueType
<1>3. PICK p : p = [user_key |-> u, sequence |-> s_max_sequence_number,
                    type |-> s_value_type_for_seek]
  OBVIOUS
<1>4. p \in Parts /\ p.user_key = u
  BY <1>1, <1>2, <1>3 DEF Parts
<1>5. k = AppendInternalKey(p)
  BY <1>3 DEF AppendInternalKey
<1> QED BY <1>4, <1>5 DEF IsKey

\* A key that is not after another has a user key that is not after the other's.
LEMMA NotAfter ==
  ASSUME NEW a, NEW b, Shape(a), Shape(b), compare(a, b) <= 0
  PROVE  ExtractUserKey(a) = ExtractUserKey(b) \/ LessUser(ExtractUserKey(a), ExtractUserKey(b))
<1>1. PICK u, v : u = ExtractUserKey(a) /\ v = ExtractUserKey(b)
  OBVIOUS
<1>2. u \in Seq(Byte) /\ v \in Seq(Byte)
  BY <1>1 DEF Shape
<1>3. PICK r : r = User!compare(u, v)
  OBVIOUS
<1>4. r \in {-1, 0, 1} /\ (r = 0 => u = v) /\ (r < 0 => LessUser(u, v))
  BY <1>2, <1>3, CompareLess
<1>5. r # 0 => r = compare(a, b)
  BY <1>1, <1>3 DEF compare
<1> QED BY <1>1, <1>4, <1>5

\* A key whose user key comes first comes first, whatever the tags.
LEMMA UserKeyDecides ==
  ASSUME NEW a, NEW b, Shape(a), Shape(b), LessUser(ExtractUserKey(a), ExtractUserKey(b))
  PROVE  compare(a, b) < 0
<1>1. PICK u, v : u = ExtractUserKey(a) /\ v = ExtractUserKey(b)
  OBVIOUS
<1>2. u \in Seq(Byte) /\ v \in Seq(Byte)
  BY <1>1 DEF Shape
<1>3. PICK r : r = User!compare(u, v)
  OBVIOUS
<1>4. r \in {-1, 0, 1} /\ r < 0
  BY <1>1, <1>2, <1>3, CompareLess
<1>5. r # 0 => r = compare(a, b)
  BY <1>1, <1>3 DEF compare
<1> QED BY <1>4, <1>5

\* What Replace does when it does something.
LEMMA ReplaceStep ==
  ASSUME NEW key, IsKey(key), NEW tmp \in Seq(Byte), NEW new,
         new = Replace(key, tmp), new # key
  PROVE  /\ IsKey(new) /\ Shape(new) /\ ExtractUserKey(new) = tmp
         /\ tmp # ExtractUserKey(key) /\ LessUser(ExtractUserKey(key), tmp)
         /\ Len(new) < Len(key)
<1>1. PICK u : u = ExtractUserKey(key)
  OBVIOUS
<1>2. u \in Seq(Byte) /\ Len(key) = Len(u) + Width64 /\ Len(u) <= MaxLen
  BY <1>1, KeyShaped DEF Shape
<1>3. PICK v : v = PackSequenceAndType(s_max_sequence_number, s_value_type_for_seek)
  OBVIOUS
<1>4. Len(tmp) < Len(u) /\ User!compare(u, tmp) < 0 /\ new = tmp \o EncodeFixed(v, Width64)
  BY <1>1, <1>3 DEF Replace
<1>5. Shape(new) /\ ExtractUserKey(new) = tmp /\ Len(new) = Len(tmp) + Width64
  BY <1>4, TagCut
<1>6. LessUser(u, tmp)
  BY <1>2, <1>4, CompareLess
<1>7. Len(tmp) \in Nat /\ Len(u) \in Nat /\ Width64 \in Nat
  BY <1>2, TagWidth
<1>8. Len(new) < Len(key)
  BY <1>2, <1>4, <1>5, <1>7
<1>9. tmp # u
  BY <1>4, <1>7
<1>10. Len(tmp) <= MaxLen
  BY <1>2, <1>4, <1>7, MaxLenAssumption
<1>11. IsKey(new)
  BY <1>3, <1>4, <1>10, NewKey
<1> QED BY <1>1, <1>5, <1>6, <1>8, <1>9, <1>11

\* A separator that is new lies between the user keys.
LEMMA SeparateStep ==
  ASSUME NEW a, NEW b, IsKey(a), Shape(b), NEW x, x = findShortestSeparator(a, b), x # a
  PROVE  /\ IsKey(x) /\ Shape(x)
         /\ LessUser(ExtractUserKey(a), ExtractUserKey(x))
         /\ LessUser(ExtractUserKey(x), ExtractUserKey(b))
<1>1. PICK u, v : u = ExtractUserKey(a) /\ v = ExtractUserKey(b)
  OBVIOUS
<1>2. u \in Seq(Byte) /\ v \in Seq(Byte)
  BY <1>1, KeyShaped DEF Shape
<1>3. PICK tmp : tmp = User!findShortestSeparator(u, v)
  OBVIOUS
<1>4. tmp = u \/ (tmp \in Seq(Byte) /\ LessUser(u, tmp) /\ LessUser(tmp, v))
  BY <1>2, <1>3, SeparatorOfUserKeys
<1>5. x = Replace(a, tmp)
  BY <1>1, <1>3 DEF findShortestSeparator
<1>6. tmp \in Seq(Byte)
  BY <1>2, <1>4
<1>7. IsKey(x) /\ Shape(x) /\ ExtractUserKey(x) = tmp /\ tmp # u /\ LessUser(u, tmp)
  BY <1>1, <1>5, <1>6, ReplaceStep
<1> QED BY <1>1, <1>4, <1>7

\* A successor is the key, or a key whose user key comes after the key's; its user
\* key is no longer than the one that findShortSuccessor returns.
LEMMA SucceedStep ==
  ASSUME NEW a, IsKey(a), NEW x, x = findShortSuccessor(a)
  PROVE  /\ IsKey(x) /\ Shape(x)
         /\ x = a \/ LessUser(ExtractUserKey(a), ExtractUserKey(x))
         /\ \A v \in Seq(Byte) :
              v = ExtractUserKey(a) \/ LessUser(ExtractUserKey(a), v) =>
                Len(v) >= Len(ExtractUserKey(x))
<1>1. PICK u : u = ExtractUserKey(a)
  OBVIOUS
<1>2. u \in Seq(Byte) /\ Shape(a) /\ Len(a) = Len(u) + Width64
  BY <1>1, KeyShaped DEF Shape
<1>3. PICK tmp : tmp = User!findShortSuccessor(u)
  OBVIOUS
<1>4. /\ tmp \in Seq(Byte) /\ (tmp = u \/ LessUser(u, tmp)) /\ Len(tmp) <= Len(u)
      /\ \A v \in Seq(Byte) :
           v = u \/ LessUser(u, v) => Len(v) >= Len(tmp) \/ Len(v) >= Len(u)
  BY <1>2, <1>3, SuccessorOfUserKey
<1>5. x = Replace(a, tmp)
  BY <1>1, <1>3 DEF findShortSuccessor
<1>6. Len(tmp) \in Nat /\ Len(u) \in Nat /\ \A v \in Seq(Byte) : Len(v) \in Nat
  BY <1>2, <1>4
<1>7. CASE x # a
  <2>1. IsKey(x) /\ Shape(x) /\ ExtractUserKey(x) = tmp /\ LessUser(u, tmp)
    BY <1>1, <1>4, <1>5, <1>7, ReplaceStep
  <2>2. \A v \in Seq(Byte) : v = u \/ LessUser(u, v) => Len(v) >= Len(tmp)
    BY <1>4, <1>6
  <2> QED BY <1>1, <2>1, <2>2
<1>8. CASE x = a
  <2>1. Len(tmp) = Len(u)
    <3> SUFFICES ASSUME Len(tmp) < Len(u) PROVE FALSE
      BY <1>4, <1>6
    <3>1. tmp # u /\ LessUser(u, tmp)
      BY <1>4, <1>6
    <3>2. User!compare(u, tmp) < 0
      BY <1>2, <1>4, <3>1, CompareLess
    <3>3. PICK w : w = PackSequenceAndType(s_max_sequence_number, s_value_type_for_seek)
      OBVIOUS
    <3>4. x = tmp \o EncodeFixed(w, Width64)
      BY <1>1, <1>5, <3>2, <3>3 DEF Replace
    <3>5. Len(x) = Len(tmp) + Width64
      BY <1>4, <3>4, TagCut
    <3> QED BY <1>2, <1>6, <1>8, <3>5, TagWidth
  <2>2. \A v \in Seq(Byte) : v = u \/ LessUser(u, v) => Len(v) >= Len(u)
    BY <1>4, <1>6, <2>1
  <2> QED BY <1>1, <1>2, <1>8, <2>2
<1> QED BY <1>7, <1>8

-----------------------------------------------------------------------------
(* The specification.                                                      *)

\* A behaviour starts with internal keys.
LEMMA InitKeysInv == KeysInit => KeysInv
BY InternalKeysAreKeys DEF KeysInit, KeysInv

\* Shortening makes internal keys.
LEMMA NextKeysInv == KeysInv /\ [KeysNext]_keyVars => KeysInv'
<1> SUFFICES ASSUME KeysInv, [KeysNext]_keyVars PROVE IsKey(start') /\ IsKey(limit')
  BY DEF KeysInv, IsKey
<1>1. IsKey(start) /\ IsKey(limit) /\ Shape(limit)
  BY KeyShaped DEF KeysInv
<1>2. CASE Separate
  BY <1>1, <1>2, SeparateStep DEF Separate
<1>3. CASE Succeed
  BY <1>1, <1>3, SucceedStep DEF Succeed
<1>4. CASE UNCHANGED keyVars
  BY <1>1, <1>4 DEF keyVars
<1> QED BY <1>2, <1>3, <1>4 DEF KeysNext

\* Every key that a behaviour holds was put together from parts.
LEMMA KeysInductive == KeysSpec => []KeysInv
BY InitKeysInv, NextKeysInv, PTL DEF KeysSpec

\* A separator comes after every key up to the old start and before every key
\* from limit on (the assertions of lines 65 and 66 and comparator.cc:43), for
\* user keys of every length, bytes and tags of every width.
THEOREM ShorteningSeparates == KeysSpec => SeparatorSeparates
<1> DEFINE Sep == Separate /\ start' # start =>
                    \A k \in InternalKeys :
                      /\ compare(k, start) <= 0 => compare(k, start') < 0
                      /\ compare(limit, k) <= 0 => compare(start', k) < 0
<1>1. KeysInv => [Sep]_keyVars
  <2> SUFFICES ASSUME KeysInv, Separate, start' # start, NEW k \in InternalKeys
               PROVE  /\ compare(k, start) <= 0 => compare(k, start') < 0
                      /\ compare(limit, k) <= 0 => compare(start', k) < 0
    OBVIOUS
  <2>1. IsKey(start) /\ Shape(start) /\ Shape(limit) /\ Shape(k)
    BY InternalKeysAreKeys, KeyShaped DEF KeysInv
  <2>2. PICK x : x = start'
    OBVIOUS
  <2>3. x = findShortestSeparator(start, limit) /\ x # start
    BY <2>2 DEF Separate
  <2>4. /\ Shape(x) /\ LessUser(ExtractUserKey(start), ExtractUserKey(x))
        /\ LessUser(ExtractUserKey(x), ExtractUserKey(limit))
    BY <2>1, <2>3, SeparateStep
  <2>5. /\ ExtractUserKey(k) \in Seq(Byte) /\ ExtractUserKey(x) \in Seq(Byte)
        /\ ExtractUserKey(start) \in Seq(Byte) /\ ExtractUserKey(limit) \in Seq(Byte)
    BY <2>1, <2>4 DEF Shape
  <2>6. ASSUME compare(k, start) <= 0 PROVE compare(k, x) < 0
    <3>1. \/ ExtractUserKey(k) = ExtractUserKey(start)
          \/ LessUser(ExtractUserKey(k), ExtractUserKey(start))
      BY <2>1, <2>6, NotAfter
    <3>2. LessUser(ExtractUserKey(k), ExtractUserKey(x))
      BY <2>4, <2>5, <3>1, LessTransitive
    <3> QED BY <2>1, <2>4, <3>2, UserKeyDecides
  <2>7. ASSUME compare(limit, k) <= 0 PROVE compare(x, k) < 0
    <3>1. \/ ExtractUserKey(limit) = ExtractUserKey(k)
          \/ LessUser(ExtractUserKey(limit), ExtractUserKey(k))
      BY <2>1, <2>7, NotAfter
    <3>2. LessUser(ExtractUserKey(x), ExtractUserKey(k))
      BY <2>4, <2>5, <3>1, LessTransitive
    <3> QED BY <2>1, <2>4, <3>2, UserKeyDecides
  <2> QED BY <2>2, <2>6, <2>7
<1> QED BY <1>1, KeysInductive, PTL DEF SeparatorSeparates

\* A successor is not before the key, and no internal key from start on has fewer
\* bytes (comparator.cc:48-60, db_format.cc:71-82), for user keys of every length.
THEOREM ShorteningShortest == KeysSpec => []SuccessorShortest
<1>1. KeysInv => SuccessorShortest
  <2> SUFFICES ASSUME KeysInv PROVE SuccessorShortest
    OBVIOUS
  <2>1. PICK x : x = findShortSuccessor(start)
    OBVIOUS
  <2>2. PICK u, w : u = ExtractUserKey(start) /\ w = ExtractUserKey(x)
    OBVIOUS
  <2>3. /\ IsKey(start) /\ IsKey(x) /\ Shape(start) /\ Shape(x)
        /\ x = start \/ LessUser(u, w)
        /\ \A v \in Seq(Byte) : v = u \/ LessUser(u, v) => Len(v) >= Len(w)
    BY <2>1, <2>2, KeyShaped, SucceedStep DEF KeysInv
  <2>4. compare(start, x) <= 0
    <3>1. CASE x = start
      <4>1. PICK a \in Parts : start = AppendInternalKey(a)
        BY <2>3 DEF IsKey
      <4>2. compare(start, x) = 0
        BY <3>1, <4>1, CompareParts
      <4> QED BY <4>2
    <3>2. CASE LessUser(u, w)
      <4>1. compare(start, x) < 0
        BY <2>2, <2>3, <3>2, UserKeyDecides
      <4>2. PICK a \in Parts : start = AppendInternalKey(a)
        BY <2>3 DEF IsKey
      <4>3. PICK b \in Parts : x = AppendInternalKey(b)
        BY <2>3 DEF IsKey
      <4>4. compare(start, x) \in {-1, 0, 1}
        BY <4>2, <4>3, CompareParts
      <4> QED BY <4>1, <4>4
    <3> QED BY <2>3, <3>1, <3>2
  <2>5. ASSUME NEW k \in InternalKeys, compare(start, k) <= 0 PROVE Len(k) >= Len(x)
    <3>1. Shape(k)
      BY InternalKeysAreKeys, KeyShaped
    <3>2. PICK v : v = ExtractUserKey(k)
      OBVIOUS
    <3>3. v = u \/ LessUser(u, v)
      BY <2>2, <2>3, <2>5, <3>1, <3>2, NotAfter
    <3>4. /\ v \in Seq(Byte) /\ Len(k) = Len(v) + Width64
          /\ w \in Seq(Byte) /\ Len(x) = Len(w) + Width64
      BY <2>2, <2>3, <3>1, <3>2 DEF Shape
    <3>5. Len(v) >= Len(w)
      BY <2>3, <3>3, <3>4
    <3> QED BY <3>4, <3>5, TagWidth
  <2> QED BY <2>1, <2>4, <2>5 DEF SuccessorShortest
<1> QED BY <1>1, KeysInductive, PTL

\* Comparing the bytes of two keys orders them as their parts are ordered, and
\* parsing gives back the parts, also for the keys that shortening puts together
\* (db_format.cc:36-51), for bytes and tags of every width.
THEOREM ShorteningOrder == KeysSpec => []OrderOfParts
<1>1. KeysInv => OrderOfParts
  <2> SUFFICES ASSUME KeysInv PROVE OrderOfParts
    OBVIOUS
  <2>1. PICK a \in Parts : start = AppendInternalKey(a)
    BY DEF KeysInv, IsKey
  <2>2. PICK b \in Parts : limit = AppendInternalKey(b)
    BY DEF KeysInv, IsKey
  <2>3. PICK p : p = ParseInternalKey(start)
    OBVIOUS
  <2>4. PICK q : q = ParseInternalKey(limit)
    OBVIOUS
  <2>5. /\ p = [ok |-> TRUE, user_key |-> a.user_key, sequence |-> a.sequence, type |-> a.type]
        /\ q = [ok |-> TRUE, user_key |-> b.user_key, sequence |-> b.sequence, type |-> b.type]
    BY <2>1, <2>2, <2>3, <2>4, ParseAppended
  <2>6. /\ p.ok /\ p.user_key = a.user_key /\ p.sequence = a.sequence /\ p.type = a.type
        /\ q.ok /\ q.user_key = b.user_key /\ q.sequence = b.sequence /\ q.type = b.type
    BY <2>5
  <2>7. AppendInternalKey(p) = start
    BY <2>1, <2>6, Zenon DEF AppendInternalKey
  <2>8. Less(p, q) <=> Less(a, b)
    BY <2>6, Zenon DEF Less
  <2>9. compare(start, limit) < 0 <=> Less(a, b)
    BY <2>1, <2>2, CompareParts
  <2>10. compare(start, limit) = 0 <=> a = b
    BY <2>1, <2>2, CompareParts
  <2>11. start = limit => a = b
    <3> SUFFICES ASSUME start = limit PROVE a = b
      OBVIOUS
    <3>1. p = q
      BY <2>3, <2>4
    <3> QED BY <2>6, <3>1 DEF Parts
  <2>12. a = b => start = limit
    BY <2>1, <2>2
  <2> QED BY <2>3, <2>4, <2>6, <2>7, <2>8, <2>9, <2>10, <2>11, <2>12 DEF OrderOfParts
<1> QED BY <1>1, KeysInductive, PTL

-----------------------------------------------------------------------------
(* LookupKey.                                                              *)

\* What is in front of a suffix and behind a prefix.
LEMMA CutBehind ==
  ASSUME NEW S, NEW f \in Seq(S), NEW s \in Seq(S)
  PROVE  /\ f \o s \in Seq(S) /\ Len(f \o s) = Len(f) + Len(s)
         /\ SubSeq(f \o s, 1, Len(f) + Len(s)) = f \o s
         /\ SubSeq(f \o s, Len(f) + 1, Len(f) + Len(s)) = s
<1> PICK e, n : e = f \o s /\ n = Len(f) + Len(s)
  OBVIOUS
<1>1. Len(f) \in Nat /\ Len(s) \in Nat /\ n \in Nat
  OBVIOUS
<1>2. e \in Seq(S) /\ Len(e) = n
  <2>1. e \in Seq(S)
    OBVIOUS
  <2>2. Len(e) = n
    BY ConcatLength
  <2> QED BY <2>1, <2>2
<1>3. PICK c : c = SubSeq(e, 1, n)
  OBVIOUS
<1>4. c = e
  <2>1. c \in Seq(S) /\ Len(c) = n
    BY <1>1, <1>2, <1>3
  <2>2. \A j \in 1 .. n : c[j] = e[j]
    BY <1>1, <1>2, <1>3
  <2> QED BY <1>2, <2>1, <2>2, SameSequence
<1>5. PICK d : d = SubSeq(e, Len(f) + 1, n)
  OBVIOUS
<1>6. d = s
  <2>1. d \in Seq(S)
    BY <1>1, <1>2, <1>5
  <2>2. Len(d) = Len(s)
    BY <1>1, <1>2, <1>5
  <2>3. \A j \in 1 .. Len(s) : d[j] = e[Len(f) + j]
    BY <1>1, <1>2, <1>5
  <2>4. \A j \in 1 .. Len(s) : e[Len(f) + j] = s[j]
    BY <1>1
  <2> QED BY <2>1, <2>2, <2>3, <2>4, SameSequence
<1> QED BY <1>2, <1>3, <1>4, <1>5, <1>6

\* The last byte of the buffer is not beyond its end, and what the constructor
\* writes can be read back.
LEMMA WrittenFits ==
  ASSUME NEW u \in Keys, NEW q \in SequenceNumber, NEW dst, NEW o,
         o = Written(dst, u, q)
  PROVE  /\ Len(o.bytes) \in Nat /\ Len(o.bytes) <= needed(u)
         /\ LET slice == GetLengthPrefixedSlice(memtableKey(o))
            IN  slice.ok /\ slice.value = internalKey(o) /\ slice.rest = <<>>
         /\ ParseInternalKey(internalKey(o)) =
              [ok |-> TRUE, user_key |-> u, sequence |-> q, type |-> s_value_type_for_seek]
         /\ userKey(o) = u
<1>1. u \in Seq(Byte) /\ Len(u) + Width64 \in UInt32 /\ Len(u) + Width64 \in UInt64
  BY KeysAssumption
<1>2. PICK s : s = LookupInternalKey(u, q)
  OBVIOUS
<1>3. PICK b : b = [user_key |-> u, sequence |-> q, type |-> TypeValue]
  OBVIOUS
<1>4. b \in Parts /\ b.user_key = u /\ b.sequence = q /\ b.type = TypeValue
  BY <1>1, <1>3 DEF Parts, ValueType
<1>5. s = AppendInternalKey(b)
  BY <1>2, <1>3 DEF LookupInternalKey, AppendInternalKey, s_value_type_for_seek
<1>6. /\ s \in Seq(Byte) /\ Len(s) = Len(u) + Width64 /\ ExtractUserKey(s) = u
      /\ ParseInternalKey(s) = [ok |-> TRUE, user_key |-> u, sequence |-> q, type |-> TypeValue]
  <2>1. /\ s \in Seq(Byte) /\ Len(s) = Len(b.user_key) + Width64
        /\ ExtractUserKey(s) = b.user_key
        /\ ParseInternalKey(s) = [ok |-> TRUE, user_key |-> b.user_key,
                                  sequence |-> b.sequence, type |-> b.type]
    BY <1>4, <1>5, ParseAppended
  <2> QED BY <1>4, <2>1, Zenon
<1>7. PICK l \in Nat : l = Len(s)
  BY <1>6
<1>8. l = Len(u) + Width64 /\ l \in UInt32 /\ l \in UInt64
  BY <1>1, <1>6, <1>7, Zenon
<1>9. l < Power(Flag, Groups64)
  BY <1>8, Varint64Fits
<1>10. /\ l % Power(Base, Width32) = l /\ VarintLength(l) <= Groups32
       /\ VarintLength(l) \in Nat
  BY <1>7, <1>8, <1>9, Varint32Fits, VarintLengthIs
<1>11. PICK f : f = EncodeVarint(l)
  OBVIOUS
<1>12. f \in Seq(Byte) /\ Len(f) = VarintLength(l)
  BY <1>9, <1>11, VarintBytes
<1>13. LengthPrefix(u) = f
  BY <1>8, <1>10, <1>11, Zenon DEF LengthPrefix
<1>14. PICK bytes, end : bytes = f \o s /\ end = Len(f) + Len(u) + Width64
  OBVIOUS
<1>15. /\ o.bytes = bytes /\ o.key_start_ = Len(f) /\ o.end_ = end
  BY <1>2, <1>13, <1>14 DEF Written
<1>16. end = Len(f) + Len(s) /\ end - Width64 = Len(f) + Len(u) /\ Len(f) \in Nat /\ Len(u) \in Nat
  BY <1>1, <1>6, <1>12, <1>14, TagWidth
<1>17. /\ bytes \in Seq(Byte) /\ Len(bytes) = end /\ SubSeq(bytes, 1, end) = bytes
       /\ SubSeq(bytes, Len(f) + 1, end) = s
  <2>1. bytes = f \o s /\ end = Len(f) + Len(s)
    BY <1>14, <1>16
  <2>2. /\ f \o s \in Seq(Byte) /\ Len(f \o s) = Len(f) + Len(s)
        /\ SubSeq(f \o s, 1, Len(f) + Len(s)) = f \o s
        /\ SubSeq(f \o s, Len(f) + 1, Len(f) + Len(s)) = s
    BY <1>6, <1>12, CutBehind
  <2> QED BY <2>1, <2>2, Zenon
<1>18. memtableKey(o) = bytes /\ internalKey(o) = s
  BY <1>15, <1>17, Zenon DEF memtableKey, internalKey
<1>19. userKey(o) = u
  <2>1. userKey(o) = SubSeq(bytes, Len(f) + 1, end - Width64)
    BY <1>15, Zenon DEF userKey
  <2>2. PICK d : d = SubSeq(bytes, Len(f) + 1, Len(f) + Len(u))
    OBVIOUS
  <2>3. userKey(o) = d
    BY <1>16, <2>1, <2>2
  <2>4. Len(f) + Len(u) <= Len(bytes)
    BY <1>6, <1>16, <1>17, TagWidth
  <2>5. d \in Seq(Byte) /\ Len(d) = Len(u)
    <3>1. d \in Seq(Byte)
      BY <1>16, <1>17, <2>2, <2>4
    <3>2. Len(d) = Len(u)
      BY <1>16, <1>17, <2>2, <2>4
    <3> QED BY <3>1, <3>2
  <2>6. \A j \in 1 .. Len(u) : d[j] = bytes[Len(f) + j]
    BY <1>16, <1>17, <2>2, <2>4
  <2>7. \A j \in 1 .. Len(s) : bytes[Len(f) + j] = s[j]
    <3>1. \A j \in 1 .. Len(s) : (f \o s)[Len(f) + j] = s[j]
      <4>1. f \in Seq(Byte) /\ s \in Seq(Byte)
        BY <1>6, <1>12
      <4> QED BY <4>1
    <3>2. bytes = f \o s
      BY <1>14
    <3> QED BY <3>1, <3>2, Zenon
  <2>8. \A j \in 1 .. Len(u) : s[j] = u[j] /\ j \in 1 .. Len(s)
    <3>1. u = SubSeq(s, 1, Len(u)) /\ Len(u) <= Len(s)
      <4>1. Len(s) - Width64 = Len(u)
        BY <1>6, <1>16, TagWidth
      <4> QED BY <1>6, <1>16, <4>1, TagWidth DEF ExtractUserKey
    <3>2. PICK c : c = SubSeq(s, 1, Len(u))
      OBVIOUS
    <3>3. \A j \in 1 .. Len(u) : c[j] = s[j] /\ j \in 1 .. Len(s)
      BY <1>6, <1>16, <3>1, <3>2
    <3>4. c = u
      BY <3>1, <3>2
    <3> QED BY <3>3, <3>4
  <2>9. \A j \in 1 .. Len(u) : d[j] = u[j]
    BY <2>6, <2>7, <2>8
  <2>10. d = u
    BY <1>1, <2>5, <2>9, SameSequence
  <2> QED BY <2>3, <2>10
<1>20. PICK slice : slice = GetLengthPrefixedSlice(bytes)
  OBVIOUS
<1>21. slice = [ok |-> TRUE, value |-> s, rest |-> Drop(bytes, Len(bytes))]
  <2>1. /\ Len(s) \in UInt32 /\ Len(s) < Power(Flag, Groups64)
        /\ bytes = EncodeVarint(Len(s)) \o s
        /\ \A i \in 1 .. Len(bytes) : i <= Len(bytes) => bytes[i] = bytes[i]
    BY <1>7, <1>8, <1>9, <1>11, <1>14
  <2>2. Len(bytes) <= Len(bytes)
    BY <1>17
  <2>3. IF Len(bytes) <= Len(bytes)
        THEN GetLengthPrefixedSlice(bytes) =
               [ok |-> TRUE, value |-> s, rest |-> Drop(bytes, Len(bytes))]
        ELSE ~GetLengthPrefixedSlice(bytes).ok
    BY <1>6, <1>17, <2>1, SliceRead, Zenon
  <2> QED BY <1>20, <2>2, <2>3, Zenon
<1>22. slice.ok /\ slice.value = s /\ slice.rest = <<>>
  <2>1. slice.ok /\ slice.value = s /\ slice.rest = Drop(bytes, Len(bytes))
    BY <1>21
  <2>2. Drop(bytes, Len(bytes)) = <<>>
    BY <1>17 DEF Drop
  <2> QED BY <2>1, <2>2
<1>23. Len(bytes) <= needed(u)
  <2>1. Groups32 \in Nat
    BY WidthAssumption, Zenon
  <2>2. PICK n : n = Len(u)
    OBVIOUS
  <2>3. n \in Nat /\ Width64 \in Nat /\ Len(f) \in Nat /\ Len(f) <= Groups32
    BY <1>10, <1>12, <1>16, <2>2, TagWidth
  <2>4. Len(bytes) = Len(f) + n + Width64
    BY <1>14, <1>17, <2>2
  <2>5. needed(u) = n + Groups32 + Width64
    BY <2>2 DEF needed
  <2> QED BY <2>1, <2>3, <2>4, <2>5
<1>24. ParseInternalKey(s)
         = [ok |-> TRUE, user_key |-> u, sequence |-> q, type |-> s_value_type_for_seek]
  BY <1>6, Zenon DEF s_value_type_for_seek
<1>25. Len(bytes) \in Nat
  BY <1>17
<1> QED BY <1>15, <1>18, <1>19, <1>20, <1>22, <1>23, <1>24, <1>25, Zenon

\* The state: every object that lives is what its constructor wrote, and its
\* buffer, inside it or on the heap, has the size the constructor asked for.
LookupObjects ==
  {Dead} \cup {Written(a, u, q) : a \in Addresses \cup {space_}, u \in Keys, q \in SequenceNumber}

Placed(o) ==
  IF o.start_ = space_ THEN needed(o.user_key) <= SpaceSize
  ELSE buffers[o.start_] = needed(o.user_key)

LookupInv ==
  /\ objects \in [Lookups -> LookupObjects]
  /\ buffers \in [Addresses -> Nat]
  /\ \A l \in Living : Placed(objects[l])
  /\ BuffersOwned

\* The fields of a new object, and the size it asks for.
LEMMA WrittenFields ==
  ASSUME NEW a, NEW u \in Keys, NEW q
  PROVE  /\ Written(a, u, q).alive /\ Written(a, u, q).start_ = a
         /\ Written(a, u, q).user_key = u /\ Written(a, u, q).sequence = q
         /\ needed(u) \in Nat /\ needed(u) > 0
<1>1. Len(u) \in Nat
  BY KeysAssumption
<1>2. Groups32 \in Nat
  BY WidthAssumption, Zenon
<1>3. needed(u) \in Nat /\ needed(u) > 0
  BY <1>1, <1>2, TagWidth DEF needed
<1> QED BY <1>3 DEF Written

\* What an object in the state is.
LEMMA LivingObject ==
  ASSUME LookupInv, NEW l \in Living
  PROVE  \E a \in Addresses \cup {space_}, u \in Keys, q \in SequenceNumber :
           /\ objects[l] = Written(a, u, q) /\ objects[l].start_ = a
           /\ objects[l].user_key = u /\ objects[l].sequence = q
           /\ needed(u) \in Nat /\ needed(u) > 0
<1>1. l \in Lookups /\ objects[l].alive /\ objects[l] \in LookupObjects
  BY DEF LookupInv, Living
<1>2. objects[l] # Dead
  BY <1>1 DEF Dead
<1>3. PICK a \in Addresses \cup {space_}, u \in Keys, q \in SequenceNumber :
        objects[l] = Written(a, u, q)
  BY <1>1, <1>2 DEF LookupObjects
<1> QED BY <1>3, WrittenFields

LEMMA LookupInitInv == LookupInit => LookupInv
<1> SUFFICES ASSUME LookupInit PROVE LookupInv
  OBVIOUS
<1>1. objects \in [Lookups -> LookupObjects] /\ buffers \in [Addresses -> Nat]
  BY DEF LookupInit, LookupObjects
<1>2. Living = {} /\ OnHeap = {}
  BY DEF LookupInit, Living, OnHeap, Dead
<1>3. {a \in Addresses : buffers[a] # 0} = {}
  BY DEF LookupInit
<1> QED BY <1>1, <1>2, <1>3 DEF LookupInv, BuffersOwned

LEMMA ConstructorStep ==
  ASSUME LookupInv, NEW l \in Lookups, NEW u \in Keys, NEW q \in SequenceNumber,
         LookupKey(l, u, q)
  PROVE  LookupInv'
<1>1. ~objects[l].alive /\ l \notin Living /\ l \notin OnHeap
  BY DEF LookupKey, Living, OnHeap
<1>2. ASSUME NEW a \in Addresses \cup {space_},
             objects' = [objects EXCEPT ![l] = Written(a, u, q)]
      PROVE  /\ objects' \in [Lookups -> LookupObjects]
             /\ objects'[l] = Written(a, u, q)
             /\ \A m \in Lookups \ {l} : objects'[m] = objects[m]
             /\ Living' = Living \cup {l}
             /\ OnHeap' = OnHeap \cup (IF a = space_ THEN {} ELSE {l})
  <2>1. Written(a, u, q) \in LookupObjects
    BY DEF LookupObjects
  <2>2. /\ objects' \in [Lookups -> LookupObjects] /\ objects'[l] = Written(a, u, q)
        /\ \A m \in Lookups \ {l} : objects'[m] = objects[m]
    BY <1>2, <2>1 DEF LookupInv
  <2>3. objects'[l].alive /\ objects'[l].start_ = a
    BY <2>2, WrittenFields
  <2>4. Living' = Living \cup {l}
    BY <2>2, <2>3 DEF Living
  <2>5. OnHeap' = OnHeap \cup (IF a = space_ THEN {} ELSE {l})
    BY <1>1, <2>2, <2>3, <2>4 DEF OnHeap, Living
  <2> QED BY <2>2, <2>4, <2>5
<1>3. CASE /\ needed(u) <= SpaceSize
           /\ objects' = [objects EXCEPT ![l] = Written(space_, u, q)]
           /\ UNCHANGED buffers
  <2>1. /\ objects' \in [Lookups -> LookupObjects] /\ objects'[l] = Written(space_, u, q)
        /\ \A m \in Lookups \ {l} : objects'[m] = objects[m]
        /\ Living' = Living \cup {l} /\ OnHeap' = OnHeap
    BY <1>2, <1>3
  <2>2. \A m \in Living' : Placed(objects[m])'
    <3> SUFFICES ASSUME NEW m \in Living' PROVE Placed(objects[m])'
      OBVIOUS
    <3>1. CASE m = l
      BY <1>3, <2>1, <3>1, WrittenFields DEF Placed
    <3>2. CASE m # l
      <4>1. m \in Living /\ objects'[m] = objects[m] /\ buffers' = buffers
        BY <1>3, <2>1, <3>2 DEF Living
      <4> QED BY <4>1 DEF LookupInv, Placed
    <3> QED BY <3>1, <3>2
  <2>3. \A m \in OnHeap' : m \in OnHeap /\ objects'[m] = objects[m]
    BY <1>1, <2>1 DEF OnHeap, Living
  <2>4. BuffersOwned'
    BY <1>3, <2>1, <2>3 DEF LookupInv, BuffersOwned
  <2>5. buffers' \in [Addresses -> Nat]
    BY <1>3 DEF LookupInv
  <2> QED BY <2>1, <2>2, <2>4, <2>5 DEF LookupInv
<1>4. ASSUME NEW dst \in Addresses, buffers[dst] = 0,
             buffers' = [buffers EXCEPT ![dst] = needed(u)],
             objects' = [objects EXCEPT ![l] = Written(dst, u, q)]
      PROVE  LookupInv'
  <2>1. dst # space_
    BY DEF Addresses, space_
  <2>2. /\ objects' \in [Lookups -> LookupObjects] /\ objects'[l] = Written(dst, u, q)
        /\ \A m \in Lookups \ {l} : objects'[m] = objects[m]
        /\ Living' = Living \cup {l} /\ OnHeap' = OnHeap \cup {l}
    BY <1>2, <1>4, <2>1
  <2>3. objects'[l].start_ = dst /\ objects'[l].user_key = u /\ needed(u) \in Nat /\ needed(u) > 0
    BY <2>2, WrittenFields
  <2>4. /\ buffers' \in [Addresses -> Nat] /\ buffers'[dst] = needed(u)
        /\ \A a \in Addresses \ {dst} : buffers'[a] = buffers[a]
    BY <1>4, <2>3 DEF LookupInv
  <2>5. \A m \in OnHeap : /\ m # l /\ objects'[m] = objects[m]
                          /\ objects[m].start_ \in Addresses /\ objects[m].start_ # dst
    <3> SUFFICES ASSUME NEW m \in OnHeap
                 PROVE  /\ m # l /\ objects'[m] = objects[m]
                        /\ objects[m].start_ \in Addresses /\ objects[m].start_ # dst
      OBVIOUS
    <3>1. m # l /\ objects'[m] = objects[m]
      BY <1>1, <2>2 DEF OnHeap, Living
    <3>2. objects[m].start_ \in {a \in Addresses : buffers[a] # 0}
      BY DEF LookupInv, BuffersOwned
    <3> QED BY <1>4, <3>1, <3>2
  <2>6. \A m \in Living' : Placed(objects[m])'
    <3> SUFFICES ASSUME NEW m \in Living' PROVE Placed(objects[m])'
      OBVIOUS
    <3>1. CASE m = l
      BY <2>1, <2>3, <2>4, <3>1 DEF Placed
    <3>2. CASE m # l
      <4>1. m \in Living /\ objects'[m] = objects[m] /\ Placed(objects[m])
        BY <2>2, <3>2 DEF Living, LookupInv
      <4>2. CASE objects[m].start_ = space_
        BY <4>1, <4>2 DEF Placed
      <4>3. CASE objects[m].start_ # space_
        <5>1. m \in OnHeap
          BY <4>1, <4>3 DEF OnHeap
        <5>2. buffers'[objects[m].start_] = buffers[objects[m].start_]
          BY <2>4, <2>5, <5>1
        <5> QED BY <4>1, <4>3, <5>2 DEF Placed
      <4> QED BY <4>2, <4>3
    <3> QED BY <3>1, <3>2
  <2>7. BuffersOwned'
    <3>1. {a \in Addresses : buffers'[a] # 0} = {a \in Addresses : buffers[a] # 0} \cup {dst}
      BY <2>3, <2>4
    <3>2. {objects'[m].start_ : m \in OnHeap'} = {objects[m].start_ : m \in OnHeap} \cup {dst}
      BY <2>2, <2>3, <2>5
    <3>3. \A k, m \in OnHeap' : objects'[k].start_ = objects'[m].start_ => k = m
      BY <2>2, <2>3, <2>5 DEF LookupInv, BuffersOwned
    <3>4. {a \in Addresses : buffers[a] # 0} = {objects[m].start_ : m \in OnHeap}
      BY DEF LookupInv, BuffersOwned
    <3> QED BY <3>1, <3>2, <3>3, <3>4 DEF BuffersOwned
  <2> QED BY <2>2, <2>4, <2>6, <2>7 DEF LookupInv
<1> QED BY <1>3, <1>4 DEF LookupKey

LEMMA DestructorStep ==
  ASSUME LookupInv, NEW l \in Lookups, destroy(l)
  PROVE  LookupInv'
<1>1. PICK s : s = objects[l].start_
  OBVIOUS
<1>2. l \in Living /\ (l \in OnHeap <=> s # space_)
  BY <1>1 DEF destroy, Living, OnHeap
<1>3. /\ objects' \in [Lookups -> LookupObjects] /\ objects'[l] = Dead
      /\ \A m \in Lookups \ {l} : objects'[m] = objects[m]
  BY DEF destroy, LookupInv, LookupObjects
<1>4. Living' = Living \ {l} /\ OnHeap' = OnHeap \ {l}
  <2>1. Living' = Living \ {l}
    BY <1>3 DEF Living, Dead
  <2> QED BY <1>3, <2>1 DEF OnHeap, Living
<1>5. \A m \in OnHeap : objects[m].start_ \in Addresses
  BY DEF LookupInv, BuffersOwned
<1>6. \A m \in OnHeap' : m \in OnHeap /\ m # l /\ objects'[m] = objects[m]
  BY <1>3, <1>4 DEF OnHeap, Living
<1>7. \A m \in OnHeap' : objects[m].start_ # s
  <2> SUFFICES ASSUME NEW m \in OnHeap', objects[m].start_ = s PROVE FALSE
    OBVIOUS
  <2>1. m \in OnHeap /\ m # l /\ objects[m].start_ # space_
    BY <1>6 DEF OnHeap
  <2>2. l \in OnHeap
    BY <1>2, <2>1
  <2> QED BY <1>1, <2>1, <2>2 DEF LookupInv, BuffersOwned
<1>8. /\ buffers' \in [Addresses -> Nat]
      /\ s # space_ => buffers'[s] = 0
      /\ \A a \in Addresses : a # s \/ s = space_ => buffers'[a] = buffers[a]
  BY <1>1, <1>2, <1>5 DEF destroy, LookupInv
<1>9. \A m \in Living' : Placed(objects[m])'
  <2> SUFFICES ASSUME NEW m \in Living' PROVE Placed(objects[m])'
    OBVIOUS
  <2>1. m \in Living /\ objects'[m] = objects[m] /\ Placed(objects[m])
    BY <1>3, <1>4 DEF Living, LookupInv
  <2>2. CASE objects[m].start_ = space_
    BY <2>1, <2>2 DEF Placed
  <2>3. CASE objects[m].start_ # space_
    <3>1. m \in OnHeap /\ m \in OnHeap'
      BY <1>4, <2>1, <2>3 DEF OnHeap
    <3>2. buffers'[objects[m].start_] = buffers[objects[m].start_]
      BY <1>5, <1>7, <1>8, <3>1
    <3> QED BY <2>1, <2>3, <3>2 DEF Placed
  <2> QED BY <2>2, <2>3
<1>10. BuffersOwned'
  <2>1. {a \in Addresses : buffers[a] # 0} = {objects[m].start_ : m \in OnHeap}
    BY DEF LookupInv, BuffersOwned
  <2>2. \A k, m \in OnHeap' : objects'[k].start_ = objects'[m].start_ => k = m
    BY <1>6 DEF LookupInv, BuffersOwned
  <2>3. ASSUME NEW a \in Addresses, buffers'[a] # 0
        PROVE  a \in {objects'[m].start_ : m \in OnHeap'}
    <3>1. a # s \/ s = space_
      BY <1>8, <2>3
    <3>2. buffers[a] # 0
      BY <1>8, <2>3, <3>1
    <3>3. PICK m \in OnHeap : a = objects[m].start_
      BY <2>1, <3>2
    <3>4. m # l
      BY <1>1, <1>2, <3>1, <3>3
    <3> QED BY <1>4, <1>6, <3>3, <3>4
  <2>4. ASSUME NEW m \in OnHeap'
        PROVE  objects'[m].start_ \in Addresses /\ buffers'[objects'[m].start_] # 0
    <3>1. m \in OnHeap /\ objects'[m] = objects[m] /\ objects[m].start_ \in Addresses
      BY <1>5, <1>6
    <3>2. buffers[objects[m].start_] # 0
      BY <2>1, <3>1
    <3> QED BY <1>7, <1>8, <3>1, <3>2
  <2>5. {a \in Addresses : buffers'[a] # 0} = {objects'[m].start_ : m \in OnHeap'}
    BY <2>3, <2>4
  <2> QED BY <2>2, <2>5 DEF BuffersOwned
<1> QED BY <1>3, <1>8, <1>9, <1>10 DEF LookupInv

\* The state of the lookup keys is as said, for every number of them.
THEOREM LookupInductive == LookupSpec => []LookupInv
<1>1. ASSUME LookupInv, [LookupNext]_lookupVars PROVE LookupInv'
  <2>1. ASSUME NEW l \in Lookups, NEW u \in Keys, NEW q \in SequenceNumber, LookupKey(l, u, q)
        PROVE  LookupInv'
    BY <1>1, <2>1, ConstructorStep
  <2>2. ASSUME NEW l \in Lookups, destroy(l) PROVE LookupInv'
    BY <1>1, <2>2, DestructorStep
  <2>3. CASE UNCHANGED lookupVars
    BY <1>1, <2>3 DEF lookupVars, LookupInv, Living, OnHeap, Placed, BuffersOwned
  <2> QED BY <1>1, <2>1, <2>2, <2>3 DEF LookupNext
<1> QED BY <1>1, LookupInitInv, PTL DEF LookupSpec

\* No block of a LookupKey leaks, is deleted twice or belongs to two of them, for
\* any number of objects made and destroyed (db_format.cc:138-142, db_format.h:134).
THEOREM LookupBuffersOwned == LookupSpec => []BuffersOwned
<1>1. LookupInv => BuffersOwned
  BY DEF LookupInv
<1> QED BY <1>1, LookupInductive, PTL

\* A LookupKey never writes past the buffer it chose, for all widths, all sizes of
\* space_ and all user keys whose internal key has a length of 32 bits
\* (db_format.cc:135-142).
THEOREM LookupKeysFit == LookupSpec => []LookupKeyFits
<1>1. LookupInv => LookupKeyFits
  <2> SUFFICES ASSUME LookupInv, NEW l \in Living
               PROVE  Len(objects[l].bytes) <=
                        (IF l \in OnHeap THEN buffers[objects[l].start_] ELSE SpaceSize)
    BY DEF LookupKeyFits
  <2>1. PICK a \in Addresses \cup {space_}, u \in Keys, q \in SequenceNumber :
          /\ objects[l] = Written(a, u, q) /\ objects[l].start_ = a
          /\ objects[l].user_key = u /\ needed(u) \in Nat
    BY LivingObject
  <2>2. PICK o : o = objects[l]
    OBVIOUS
  <2>3. o = Written(a, u, q)
    BY <2>1, <2>2
  <2>4. Len(o.bytes) <= needed(u)
    BY <2>3, WrittenFits
  <2>5. Len(o.bytes) \in Nat
    BY <2>3, WrittenFits
  <2>6. IF l \in OnHeap THEN buffers[a] = needed(u) ELSE needed(u) <= SpaceSize
    BY <2>1 DEF LookupInv, Placed, OnHeap
  <2> QED BY <2>1, <2>2, <2>4, <2>5, <2>6, SpaceAssumption
<1> QED BY <1>1, LookupInductive, PTL

\* Every LookupKey reads back as what it was made of: its length prefix is that of
\* its internal key, and that has its user key, its sequence number and the type
\* for seeks (db_format.h:137-139), for all widths.
THEOREM LookupKeysRead == LookupSpec => []LookupKeyReads
<1>1. LookupInv => LookupKeyReads
  <2> SUFFICES ASSUME LookupInv, NEW l \in Living, NEW o, o = objects[l],
                      NEW slice, slice = GetLengthPrefixedSlice(memtableKey(o))
               PROVE  /\ slice.ok /\ slice.value = internalKey(o) /\ slice.rest = <<>>
                      /\ ParseInternalKey(internalKey(o)) =
                           [ok |-> TRUE, user_key |-> o.user_key, sequence |-> o.sequence,
                            type |-> s_value_type_for_seek]
                      /\ userKey(o) = o.user_key
    BY Zenon DEF LookupKeyReads
  <2>1. PICK a \in Addresses \cup {space_}, u \in Keys, q \in SequenceNumber :
          o = Written(a, u, q) /\ o.user_key = u /\ o.sequence = q
    BY LivingObject
  <2>2. LET c == GetLengthPrefixedSlice(memtableKey(o))
        IN  c.ok /\ c.value = internalKey(o) /\ c.rest = <<>>
    BY <2>1, WrittenFits
  <2>3. ParseInternalKey(internalKey(o)) =
          [ok |-> TRUE, user_key |-> u, sequence |-> q, type |-> s_value_type_for_seek]
    BY <2>1, WrittenFits
  <2>4. userKey(o) = u
    BY <2>1, WrittenFits
  <2> QED BY <2>1, <2>2, <2>3, <2>4, Zenon
<1> QED BY <1>1, LookupInductive, PTL

-----------------------------------------------------------------------------
(* The order of the parts.                                                 *)

\* Less is transitive, total and irreflexive.
LEMMA PartsTransitive ==
  ASSUME NEW p \in Parts, NEW q \in Parts, NEW r \in Parts, Less(p, q), Less(q, r)
  PROVE  Less(p, r)
<1>1. /\ p.user_key \in Seq(Byte) /\ q.user_key \in Seq(Byte) /\ r.user_key \in Seq(Byte)
      /\ p.sequence \in Nat /\ q.sequence \in Nat /\ r.sequence \in Nat
      /\ p.type \in Nat /\ q.type \in Nat /\ r.type \in Nat
  <2>1. ASSUME NEW x \in Parts
        PROVE  x.user_key \in Seq(Byte) /\ x.sequence \in Nat /\ x.type \in Nat
    BY DEF Parts, SequenceNumber, ValueType, TypeDeletion, TypeValue
  <2> QED BY <2>1
<1>2. LessUser(p.user_key, q.user_key) /\ LessUser(q.user_key, r.user_key)
        => LessUser(p.user_key, r.user_key)
  BY <1>1, LessTransitive
<1> QED BY <1>1, <1>2 DEF Less

LEMMA PartsTotal ==
  ASSUME NEW p \in Parts, NEW q \in Parts
  PROVE  Less(p, q) \/ p = q \/ Less(q, p)
<1>1. /\ p.user_key \in Seq(Byte) /\ q.user_key \in Seq(Byte)
      /\ p.sequence \in Nat /\ q.sequence \in Nat /\ p.type \in Nat /\ q.type \in Nat
  BY DEF Parts, SequenceNumber, ValueType, TypeDeletion, TypeValue
<1>2. \/ LessUser(p.user_key, q.user_key) \/ p.user_key = q.user_key
      \/ LessUser(q.user_key, p.user_key)
  BY <1>1, LessTotal
<1>3. p.user_key = q.user_key /\ p.sequence = q.sequence /\ p.type = q.type => p = q
  BY DEF Parts
<1> QED BY <1>1, <1>2, <1>3 DEF Less

LEMMA PartsIrreflexive ==
  ASSUME NEW p \in Parts
  PROVE  ~Less(p, p)
<1>1. p.user_key \in Seq(Byte) /\ p.sequence \in Nat /\ p.type \in Nat
  BY DEF Parts, SequenceNumber, ValueType, TypeDeletion, TypeValue
<1> QED BY <1>1, LessIrreflexive DEF Less

\* A finite set of versions that is not empty has a first one.
LEMMA FirstVersion ==
  ASSUME NEW S, S \subseteq Parts, IsFiniteSet(S), S # {}
  PROVE  \E p \in S : \A q \in S : p = q \/ Less(p, q)
<1>1. PICK Good : Good = {s \in SUBSET S : s # {} => \E p \in s : \A q \in s : p = q \/ Less(p, q)}
  OBVIOUS
<1>2. ASSUME NEW s \in SUBSET S,
             \A t \in SUBSET S : Cardinality(t) < Cardinality(s) => t \in Good
      PROVE  s \in Good
  <2>1. CASE s = {}
    BY <1>1, <2>1
  <2>2. CASE s # {}
    <3>1. PICK x \in s : TRUE
      BY <2>2
    <3>2. PICK t : t = s \ {x}
      OBVIOUS
    <3>3. t \in SUBSET S /\ Cardinality(t) < Cardinality(s)
      <4>1. /\ s \ {x} \in SUBSET S
            /\ Cardinality(s) \in Nat /\ Cardinality(s \ {x}) \in Nat
            /\ Cardinality(s \ {x}) = Cardinality(s) - 1
        BY <3>1, Smaller
      <4> QED BY <3>2, <4>1
    <3>4. t \in Good
      BY <1>2, <3>3
    <3>5. CASE t = {}
      <4>1. \A q \in s : x = q
        BY <3>2, <3>5
      <4> QED BY <1>1, <3>1, <4>1
    <3>6. CASE t # {}
      <4>1. PICK p \in t : \A q \in t : p = q \/ Less(p, q)
        BY <1>1, <3>4, <3>6
      <4>2. p \in Parts /\ x \in Parts /\ p \in s /\ p # x
        BY <3>1, <3>2, <3>3, <4>1
      <4>3. CASE Less(p, x)
        <5>1. \A q \in s : p = q \/ Less(p, q)
          BY <3>2, <4>1, <4>3
        <5> QED BY <1>1, <4>2, <5>1
      <4>4. CASE Less(x, p)
        <5>1. ASSUME NEW q \in s PROVE x = q \/ Less(x, q)
          <6>1. q \in Parts /\ (q = x \/ q \in t)
            BY <3>2
          <6>2. q \in t => Less(x, q)
            BY <4>1, <4>2, <4>4, <6>1, PartsTransitive
          <6> QED BY <6>1, <6>2
        <5> QED BY <1>1, <3>1, <5>1
      <4> QED BY <4>2, <4>3, <4>4, PartsTotal
    <3> QED BY <3>5, <3>6
  <2> QED BY <2>1, <2>2
<1>3. SUBSET S \subseteq Good
  BY <1>2, SubsetInduction
<1>4. S \in Good
  BY <1>3
<1> QED BY <1>1, <1>4

-----------------------------------------------------------------------------
(* Lookups.                                                                *)

\* The versions that a reader of u with snapshot seq may see, and the newest
\* of them.
Visible(V, u, seq)   == {v \in V : v.user_key = u /\ v.sequence <= seq}
IsNewest(n, V, u, seq) ==
  n \in Visible(V, u, seq) /\ \A v \in Visible(V, u, seq) : v.sequence <= n.sequence

\* The keys of the versions in V.
KeysOf(V) == {AppendInternalKey(v) : v \in V}

\* What a seek returns, in terms of the versions.
LEMMA SeekFinds ==
  ASSUME NEW V, V \subseteq Parts, IsFiniteSet(V), NEW t \in Parts,
         NEW e, e = Seek(KeysOf(V), AppendInternalKey(t))
  PROVE  \/ e = None /\ \A v \in V : Less(v, t)
         \/ \E m \in V : /\ e = AppendInternalKey(m) /\ ~Less(m, t)
                         /\ \A v \in V : Less(v, t) \/ v = m \/ Less(m, v)
<1> DEFINE target == AppendInternalKey(t)
           after  == {k \in KeysOf(V) : compare(target, k) <= 0}
<1>1. target = AppendInternalKey(t)
  OBVIOUS
<1>2. after = {k \in KeysOf(V) : compare(target, k) <= 0}
  OBVIOUS
<1>3. e = IF after = {} THEN None ELSE CHOOSE k \in after : \A d \in after : compare(k, d) <= 0
  BY DEF Seek
<1> HIDE DEF target, after
<1>4. ASSUME NEW v \in V, NEW w \in Parts
      PROVE  compare(AppendInternalKey(w), AppendInternalKey(v)) <= 0 <=> ~Less(v, w)
  <2>1. v \in Parts
    OBVIOUS
  <2>2. PICK c : c = compare(AppendInternalKey(w), AppendInternalKey(v))
    OBVIOUS
  <2>3. c \in {-1, 0, 1} /\ (c < 0 <=> Less(w, v)) /\ (c = 0 <=> w = v)
    BY <2>1, <2>2, CompareParts
  <2>4. Less(w, v) => ~Less(v, w)
    BY <2>1, PartsTransitive, PartsIrreflexive
  <2>5. Less(w, v) \/ w = v \/ Less(v, w)
    BY <2>1, PartsTotal
  <2>6. w = v => ~Less(v, w)
    BY <2>1, PartsIrreflexive
  <2> QED BY <2>2, <2>3, <2>4, <2>5, <2>6
<1>5. PICK W : W = {v \in V : ~Less(v, t)}
  OBVIOUS
<1>6. after = KeysOf(W)
  <2>1. ASSUME NEW k \in after PROVE k \in KeysOf(W)
    <3>1. PICK v \in V : k = AppendInternalKey(v)
      BY <1>2, <2>1 DEF KeysOf
    <3>2. ~Less(v, t)
      BY <1>1, <1>2, <1>4, <2>1, <3>1
    <3> QED BY <1>5, <3>1, <3>2 DEF KeysOf
  <2>2. ASSUME NEW k \in KeysOf(W) PROVE k \in after
    <3>1. PICK v \in V : k = AppendInternalKey(v) /\ ~Less(v, t)
      BY <1>5, <2>2 DEF KeysOf
    <3>2. compare(target, k) <= 0
      BY <1>1, <1>4, <3>1
    <3> QED BY <1>2, <3>1, <3>2 DEF KeysOf
  <2> QED BY <2>1, <2>2
<1>7. CASE W = {}
  <2>1. after = {}
    BY <1>6, <1>7 DEF KeysOf
  <2>2. \A v \in V : Less(v, t)
    BY <1>5, <1>7
  <2> QED BY <1>3, <2>1, <2>2
<1>8. CASE W # {}
  <2>1. W \subseteq Parts /\ IsFiniteSet(W) /\ W \subseteq V
    BY <1>5, FS_Subset
  <2>2. PICK p \in W : \A q \in W : p = q \/ Less(p, q)
    BY <1>8, <2>1, FirstVersion
  <2>3. AppendInternalKey(p) \in after
    BY <1>6 DEF KeysOf
  <2>4. ASSUME NEW d \in after PROVE compare(AppendInternalKey(p), d) <= 0
    <3>1. PICK q \in W : d = AppendInternalKey(q)
      BY <1>6 DEF KeysOf
    <3>2. ~Less(q, p)
      <4>1. p \in Parts /\ q \in Parts
        BY <2>1
      <4> QED BY <2>2, <4>1, PartsTransitive, PartsIrreflexive
    <3> QED BY <1>4, <2>1, <3>1, <3>2
  <2>5. e \in after /\ \A d \in after : compare(e, d) <= 0
    <3>1. \E k \in after : \A d \in after : compare(k, d) <= 0
      BY <2>3, <2>4
    <3>2. e = CHOOSE k \in after : \A d \in after : compare(k, d) <= 0
      BY <1>3, <2>3
    <3> QED BY <3>1, <3>2, Zenon
  <2>6. PICK m \in W : e = AppendInternalKey(m)
    BY <1>6, <2>5 DEF KeysOf
  <2>7. m \in V /\ m \in Parts /\ ~Less(m, t)
    BY <1>5, <2>1
  <2>8. ASSUME NEW v \in V PROVE Less(v, t) \/ v = m \/ Less(m, v)
    <3> SUFFICES ASSUME ~Less(v, t) PROVE v = m \/ Less(m, v)
      OBVIOUS
    <3>1. v \in W /\ v \in Parts
      BY <1>5
    <3>2. AppendInternalKey(v) \in after
      BY <1>6, <3>1 DEF KeysOf
    <3>3. compare(AppendInternalKey(m), AppendInternalKey(v)) <= 0
      BY <2>5, <2>6, <3>2
    <3>4. ~Less(v, m)
      BY <1>4, <2>7, <3>3
    <3> QED BY <2>7, <3>1, <3>4, PartsTotal
  <2> QED BY <2>6, <2>7, <2>8
<1> QED BY <1>7, <1>8

\* A lookup finds the newest version that its reader may see.
LEMMA FindNewest ==
  ASSUME NEW V, V \subseteq Parts, IsFiniteSet(V),
         NEW u \in Seq(Byte), NEW seq \in SequenceNumber, NEW f, f = Find(KeysOf(V), u, seq)
  PROVE  IF Visible(V, u, seq) = {} THEN f = None ELSE IsNewest(f, V, u, seq)
<1>1. ASSUME NEW x \in Parts
      PROVE  x.user_key \in Seq(Byte) /\ x.sequence \in Nat /\ x.type \in 0 .. 1
  BY DEF Parts, SequenceNumber, ValueType, TypeDeletion, TypeValue
<1>2. PICK t : t = [user_key |-> u, sequence |-> seq, type |-> TypeValue]
  OBVIOUS
<1>3. /\ t \in Parts /\ t.user_key = u /\ t.sequence = seq /\ t.type = 1 /\ seq \in Nat
      /\ LookupInternalKey(u, seq) = AppendInternalKey(t)
  BY <1>2 DEF Parts, SequenceNumber, ValueType, TypeValue, LookupInternalKey, AppendInternalKey,
              s_value_type_for_seek
<1>4. ASSUME NEW v \in V, v.user_key = u PROVE Less(v, t) <=> seq < v.sequence
  <2>1. v.sequence \in Nat /\ v.type \in 0 .. 1
    BY <1>1
  <2>2. ~LessUser(u, u)
    BY LessIrreflexive
  <2> QED BY <1>3, <1>4, <2>1, <2>2 DEF Less
<1>5. PICK e : e = Seek(KeysOf(V), AppendInternalKey(t))
  OBVIOUS
<1>6. f = IF e = None THEN None
          ELSE IF ExtractUserKey(e) # u THEN None
          ELSE [user_key |-> ParseInternalKey(e).user_key,
                sequence |-> ParseInternalKey(e).sequence,
                type     |-> ParseInternalKey(e).type]
  BY <1>3, <1>5, Zenon DEF Find
<1>7. CASE e = None /\ \A v \in V : Less(v, t)
  <2>1. f = None
    BY <1>6, <1>7
  <2>2. ASSUME NEW v \in Visible(V, u, seq) PROVE FALSE
    <3>1. v \in V /\ v.user_key = u /\ v.sequence <= seq /\ v.sequence \in Nat
      BY <1>1 DEF Visible
    <3> QED BY <1>3, <1>4, <1>7, <3>1
  <2> QED BY <2>1, <2>2
<1>8. ASSUME NEW m \in V, e = AppendInternalKey(m), ~Less(m, t),
             \A v \in V : Less(v, t) \/ v = m \/ Less(m, v)
      PROVE  IF Visible(V, u, seq) = {} THEN f = None ELSE IsNewest(f, V, u, seq)
  <2>1. m \in Parts
    OBVIOUS
  <2>2. /\ e \in Seq(Byte) /\ ExtractUserKey(e) = m.user_key
        /\ ParseInternalKey(e) = [ok |-> TRUE, user_key |-> m.user_key,
                                  sequence |-> m.sequence, type |-> m.type]
    BY <1>8, <2>1, ParseAppended
  <2>3. e # None
    BY <2>2, NoneAssumption
  <2>4. CASE m.user_key # u
    <3>1. f = None
      BY <1>6, <2>2, <2>3, <2>4
    <3>2. ASSUME NEW v \in Visible(V, u, seq) PROVE FALSE
      <4>1. v \in V /\ v \in Parts /\ v.user_key = u /\ v.sequence <= seq /\ v.sequence \in Nat
        BY <1>1 DEF Visible
      <4>2. ~Less(v, t)
        BY <1>3, <1>4, <4>1
      <4>3. Less(m, v)
        BY <1>8, <2>4, <4>1, <4>2
      <4>4. LessUser(m.user_key, u)
        BY <2>4, <4>1, <4>3 DEF Less
      <4> QED BY <1>3, <1>8, <4>4 DEF Less
    <3> QED BY <3>1, <3>2
  <2>5. CASE m.user_key = u
    <3>1. f = [user_key |-> m.user_key, sequence |-> m.sequence, type |-> m.type]
      BY <1>6, <2>2, <2>3, <2>5
    <3>2. f = m
      BY <2>1, <3>1 DEF Parts
    <3>3. m \in Visible(V, u, seq)
      BY <1>1, <1>3, <1>4, <1>8, <2>1, <2>5 DEF Visible
    <3>4. ASSUME NEW v \in Visible(V, u, seq) PROVE v.sequence <= m.sequence
      <4>1. /\ v \in V /\ v \in Parts /\ v.user_key = u /\ v.sequence <= seq
            /\ v.sequence \in Nat /\ m.sequence \in Nat
        BY <1>1, <2>1 DEF Visible
      <4>2. ~Less(v, t)
        BY <1>3, <1>4, <4>1
      <4>3. v = m \/ Less(m, v)
        BY <1>8, <4>1, <4>2
      <4>4. ~LessUser(u, u)
        BY LessIrreflexive
      <4> QED BY <2>5, <4>1, <4>3, <4>4 DEF Less
    <3> QED BY <3>2, <3>3, <3>4 DEF IsNewest
  <2> QED BY <2>4, <2>5
<1> QED BY <1>3, <1>5, <1>7, <1>8, SeekFinds

\* With sequence numbers that are not used twice it is determined by what the
\* reader may see.
LEMMA FindDetermined ==
  ASSUME NEW V, V \subseteq Parts, IsFiniteSet(V),
         NEW W, W \subseteq Parts, IsFiniteSet(W),
         \A v, w \in W : v.sequence = w.sequence => v = w,
         NEW u \in Seq(Byte), NEW seq \in SequenceNumber,
         Visible(V, u, seq) = Visible(W, u, seq)
  PROVE  Find(KeysOf(V), u, seq) = Find(KeysOf(W), u, seq)
<1>1. PICK f : f = Find(KeysOf(V), u, seq)
  OBVIOUS
<1>2. PICK g : g = Find(KeysOf(W), u, seq)
  OBVIOUS
<1>3. IF Visible(V, u, seq) = {} THEN f = None ELSE IsNewest(f, V, u, seq)
  BY <1>1, FindNewest
<1>4. IF Visible(W, u, seq) = {} THEN g = None ELSE IsNewest(g, W, u, seq)
  BY <1>2, FindNewest
<1>5. CASE Visible(W, u, seq) = {}
  BY <1>1, <1>2, <1>3, <1>4, <1>5
<1>6. CASE Visible(W, u, seq) # {}
  <2>1. /\ f \in Visible(W, u, seq) /\ g \in Visible(W, u, seq)
        /\ f.sequence <= g.sequence /\ g.sequence <= f.sequence
    BY <1>3, <1>4, <1>6 DEF IsNewest
  <2>2. f \in W /\ g \in W
    BY <2>1 DEF Visible
  <2>3. f.sequence \in Nat /\ g.sequence \in Nat
    BY <2>2 DEF Parts, SequenceNumber
  <2>4. f = g
    BY <2>1, <2>2, <2>3
  <2> QED BY <1>1, <1>2, <2>4
<1> QED BY <1>5, <1>6

-----------------------------------------------------------------------------
(* The specification.                                                      *)

\* The entries are the keys of the versions, which have different sequence
\* numbers, none later than the last one.
Stored ==
  /\ versions \subseteq Version /\ IsFiniteSet(versions)
  /\ entries = KeysOf(versions)
  /\ \A v \in versions : v.sequence <= last
  /\ \A v, w \in versions : v.sequence = w.sequence => v = w

\* A snapshot was the last sequence number when it was taken.
Taken ==
  /\ last \in SequenceNumber \union {-1} /\ snapshot \in SequenceNumber \union {-1}
  /\ snapshot <= last

\* The filter is the one of the table.
Filtered == table \subseteq entries /\ filter = {ExtractUserKey(e) : e \in table}

IInv == Stored /\ Taken /\ Filtered /\ SnapshotStable

USE UserKeyAssumption

\* A version has the parts of an internal key.
LEMMA VersionsAreParts == Version \subseteq Parts /\ UserKeys \subseteq Seq(Byte)
BY DEF Version, Parts

\* At first there is nothing.
LEMMA InitIInv == Init => IInv
<1> SUFFICES ASSUME Init PROVE IInv
  OBVIOUS
<1>1. Stored
  BY FS_EmptySet DEF Init, Stored, KeysOf
<1>2. Taken
  BY DEF Init, Taken
<1>3. Filtered
  BY DEF Init, Filtered
<1>4. SnapshotStable
  BY DEF Init, SnapshotStable
<1> QED BY <1>1, <1>2, <1>3, <1>4 DEF IInv

\* A new version is later than the last one, so that no snapshot sees it.
LEMMA AddStep ==
  ASSUME IInv, NEW u \in UserKeys, NEW seq \in SequenceNumber, NEW t \in ValueType,
         Add(u, seq, t)
  PROVE  IInv'
<1>1. PICK p : p = [user_key |-> u, sequence |-> seq, type |-> t]
  OBVIOUS
<1>2. p \in Version /\ p.sequence = seq /\ p.user_key = u
  BY <1>1 DEF Version
<1>3. /\ seq > last /\ last' = seq
      /\ entries' = entries \union {AppendInternalKey(p)} /\ versions' = versions \union {p}
      /\ UNCHANGED <<snapshot, view, table, filter>>
  BY <1>1 DEF Add
<1>4. last \in Int /\ seq \in Nat /\ snapshot \in Int
  BY DEF IInv, Taken, SequenceNumber
<1>5. \A v \in versions : v.sequence \in Nat /\ v.sequence < seq
  BY <1>3, <1>4 DEF IInv, Stored, Version, SequenceNumber
<1>6. Stored'
  <2>1. versions' \subseteq Version /\ IsFiniteSet(versions')
    BY <1>2, <1>3, FS_AddElement DEF IInv, Stored
  <2>2. entries' = KeysOf(versions')
    BY <1>3 DEF IInv, Stored, KeysOf
  <2>3. \A v \in versions' : v.sequence <= last'
    BY <1>2, <1>3, <1>4, <1>5
  <2>4. \A v, w \in versions' : v.sequence = w.sequence => v = w
    BY <1>2, <1>3, <1>4, <1>5 DEF IInv, Stored
  <2> QED BY <2>1, <2>2, <2>3, <2>4 DEF Stored
<1>7. Taken'
  BY <1>3, <1>4 DEF IInv, Taken
<1>8. Filtered'
  BY <1>3 DEF IInv, Filtered
<1>9. SnapshotStable'
  <2> SUFFICES ASSUME snapshot >= 0, NEW w \in UserKeys
               PROVE  Find(entries', w, snapshot) = view[w]
    BY <1>3 DEF SnapshotStable
  <2>1. snapshot \in SequenceNumber /\ snapshot < seq
    BY <1>3, <1>4 DEF IInv, Taken
  <2>2. /\ versions \subseteq Parts /\ versions' \subseteq Parts
        /\ IsFiniteSet(versions) /\ IsFiniteSet(versions') /\ w \in Seq(Byte)
    BY <1>6, VersionsAreParts DEF IInv, Stored
  <2>3. \A x, y \in versions : x.sequence = y.sequence => x = y
    BY DEF IInv, Stored
  <2>4. Visible(versions', w, snapshot) = Visible(versions, w, snapshot)
    BY <1>2, <1>3, <1>4, <2>1 DEF Visible
  <2>5. Find(KeysOf(versions'), w, snapshot) = Find(KeysOf(versions), w, snapshot)
    BY <2>1, <2>2, <2>3, <2>4, FindDetermined
  <2>6. entries' = KeysOf(versions') /\ entries = KeysOf(versions)
    BY <1>6 DEF IInv, Stored
  <2>7. Find(entries, w, snapshot) = view[w]
    BY DEF IInv, SnapshotStable
  <2> QED BY <2>5, <2>6, <2>7
<1> QED BY <1>6, <1>7, <1>8, <1>9 DEF IInv

\* A snapshot remembers what it finds.
LEMMA TakeSnapshotStep ==
  ASSUME IInv, TakeSnapshot
  PROVE  IInv'
<1>1. /\ last >= 0 /\ snapshot' = last /\ view' = [u \in UserKeys |-> Find(entries, u, last)]
      /\ UNCHANGED <<entries, versions, last, table, filter>>
  BY DEF TakeSnapshot
<1>2. Stored'
  BY <1>1 DEF IInv, Stored
<1>3. Taken'
  BY <1>1 DEF IInv, Taken, SequenceNumber
<1>4. Filtered'
  BY <1>1 DEF IInv, Filtered
<1>5. SnapshotStable'
  <2>1. \A u \in UserKeys : Find(entries', u, snapshot') = view'[u]
    BY <1>1
  <2> QED BY <2>1 DEF SnapshotStable
<1> QED BY <1>2, <1>3, <1>4, <1>5 DEF IInv

\* The filter is made from all the keys of the table.
LEMMA BuildTableStep ==
  ASSUME IInv, BuildTable
  PROVE  IInv'
<1>1. table' = entries /\ UNCHANGED <<entries, versions, last, snapshot, view>>
  BY DEF BuildTable
<1>2. PICK keys \in [1 .. Cardinality(entries) -> entries] :
        Range(keys) = entries /\ filter' = createFilter(keys).filter
  BY DEF BuildTable
<1>3. filter' = {ExtractUserKey(keys[i]) : i \in DOMAIN keys}
  <2>1. PICK mkey : mkey = [i \in DOMAIN keys |-> ExtractUserKey(keys[i])]
    OBVIOUS
  <2>2. createFilter(keys).filter = {mkey[i] : i \in DOMAIN mkey}
    BY <2>1 DEF createFilter
  <2> QED BY <1>2, <2>1, <2>2
<1>4. filter' = {ExtractUserKey(e) : e \in entries}
  BY <1>2, <1>3 DEF Range
<1>5. Filtered'
  BY <1>1, <1>4 DEF Filtered
<1>6. Stored' /\ Taken' /\ SnapshotStable'
  BY <1>1 DEF IInv, Stored, Taken, SnapshotStable
<1> QED BY <1>5, <1>6 DEF IInv

\* Every step keeps the invariant.
LEMMA NextIInv == IInv /\ [Next]_vars => IInv'
<1> SUFFICES ASSUME IInv, [Next]_vars PROVE IInv'
  OBVIOUS
<1>1. CASE \E u \in UserKeys, seq \in SequenceNumber, t \in ValueType : Add(u, seq, t)
  BY <1>1, AddStep
<1>2. CASE TakeSnapshot
  BY <1>2, TakeSnapshotStep
<1>3. CASE BuildTable
  BY <1>3, BuildTableStep
<1>4. CASE UNCHANGED vars
  BY <1>4 DEF vars, IInv, Stored, Taken, Filtered, SnapshotStable
<1> QED BY <1>1, <1>2, <1>3, <1>4 DEF Next

\* The invariant holds throughout.
LEMMA Inductive == Spec => []IInv
BY InitIInv, NextIInv, PTL DEF Spec

\* The stored keys are a user key and a tag, the table is part of them, and the
\* filter holds user keys only.
THEOREM LookupTypeOK == Spec => []TypeOK
<1>1. IInv => TypeOK
  <2> SUFFICES ASSUME IInv PROVE TypeOK
    OBVIOUS
  <2>1. ASSUME NEW v \in versions
        PROVE  /\ AppendInternalKey(v) \in Seq(Byte)
               /\ Len(AppendInternalKey(v)) >= Width64
               /\ ExtractUserKey(AppendInternalKey(v)) \in UserKeys
    <3>1. v \in Version /\ v \in Parts /\ v.user_key \in UserKeys
      BY VersionsAreParts DEF IInv, Stored, Version
    <3>2. PICK k : k = AppendInternalKey(v)
      OBVIOUS
    <3>3. k \in Seq(Byte) /\ ExtractUserKey(k) = v.user_key /\ Len(k) = Len(v.user_key) + Width64
      BY <3>1, <3>2, ParseAppended
    <3>4. v.user_key \in Seq(Byte) /\ Width64 \in Nat
      BY <3>1, VersionsAreParts, TagWidth
    <3>5. Len(k) >= Width64
      BY <3>3, <3>4
    <3> QED BY <3>1, <3>2, <3>3, <3>5
  <2>2. \A e \in entries : /\ e \in Seq(Byte) /\ Len(e) >= Width64
                           /\ ExtractUserKey(e) \in UserKeys
    BY <2>1 DEF IInv, Stored, KeysOf
  <2>3. filter \subseteq UserKeys /\ table \subseteq entries
    BY <2>2 DEF IInv, Filtered
  <2>4. versions \subseteq Version /\ {last, snapshot} \subseteq SequenceNumber \union {-1}
    BY DEF IInv, Stored, Taken
  <2> QED BY <2>2, <2>3, <2>4 DEF TypeOK
<1> QED BY <1>1, Inductive, PTL

\* A lookup finds the newest version of its key that the snapshot may see, a
\* deletion included, and never a version of another key (db_format.h:126-128,
\* db_format.cc:134-151), for any user keys, number of versions and snapshot.
THEOREM LookupNewestVisible == Spec => []NewestVisible
<1>1. IInv => NewestVisible
  <2> SUFFICES ASSUME IInv, NEW u \in UserKeys, NEW seq \in SequenceNumber
               PROVE  IF Visible(versions, u, seq) = {} THEN Find(entries, u, seq) = None
                      ELSE /\ Find(entries, u, seq) \in Visible(versions, u, seq)
                           /\ \A v \in Visible(versions, u, seq) :
                                v.sequence <= Find(entries, u, seq).sequence
    BY Zenon DEF NewestVisible, Visible
  <2>1. /\ versions \subseteq Parts /\ IsFiniteSet(versions) /\ entries = KeysOf(versions)
        /\ u \in Seq(Byte)
    BY VersionsAreParts DEF IInv, Stored
  <2>2. PICK f : f = Find(KeysOf(versions), u, seq)
    OBVIOUS
  <2>3. IF Visible(versions, u, seq) = {} THEN f = None ELSE IsNewest(f, versions, u, seq)
    BY <2>1, <2>2, FindNewest
  <2> QED BY <2>1, <2>2, <2>3 DEF IsNewest
<1> QED BY <1>1, Inductive, PTL

\* A reader that looks up again finds what it found when it took the snapshot,
\* whatever was added since.
THEOREM LookupSnapshotStable == Spec => []SnapshotStable
<1>1. IInv => SnapshotStable
  BY DEF IInv
<1> QED BY <1>1, Inductive, PTL

\* Asking the filter first changes no answer (db_format.cc:88-99).
THEOREM LookupFilterHidesNothing == Spec => []FilterHidesNothing
<1>1. IInv => FilterHidesNothing
  <2> SUFFICES ASSUME IInv, NEW u \in UserKeys, NEW seq \in SequenceNumber
               PROVE  FindInTable(u, seq) = Find(table, u, seq)
    BY DEF FilterHidesNothing
  <2>1. PICK V : V = {v \in versions : AppendInternalKey(v) \in table}
    OBVIOUS
  <2>2. versions \subseteq Parts /\ IsFiniteSet(versions) /\ u \in Seq(Byte)
    BY VersionsAreParts DEF IInv, Stored
  <2>3. V \subseteq Parts /\ IsFiniteSet(V) /\ table = KeysOf(V)
    <3>1. V \subseteq versions
      BY <2>1
    <3>2. table = KeysOf(V)
      BY <2>1 DEF IInv, Stored, Filtered, KeysOf
    <3> QED BY <2>2, <3>1, <3>2, FS_Subset
  <2>4. ExtractUserKey(LookupInternalKey(u, seq)) = u
    BY <2>2, TagCut DEF LookupInternalKey
  <2>5. CASE u \in filter
    BY <2>4, <2>5 DEF FindInTable, keyMayMatch
  <2>6. CASE u \notin filter
    <3>1. FindInTable(u, seq) = None
      BY <2>4, <2>6 DEF FindInTable, keyMayMatch
    <3>2. ASSUME NEW v \in V PROVE v.user_key # u
      <4>1. AppendInternalKey(v) \in table /\ v \in Parts
        BY <2>1, <2>3
      <4>2. ExtractUserKey(AppendInternalKey(v)) = v.user_key
        BY <4>1, ParseAppended
      <4>3. v.user_key \in filter
        BY <4>1, <4>2 DEF IInv, Filtered
      <4> QED BY <2>6, <4>3
    <3>3. Visible(V, u, seq) = {}
      BY <3>2 DEF Visible
    <3>4. PICK f : f = Find(KeysOf(V), u, seq)
      OBVIOUS
    <3>5. f = None
      BY <2>2, <2>3, <3>3, <3>4, FindNewest
    <3> QED BY <2>3, <3>1, <3>4, <3>5
  <2> QED BY <2>5, <2>6
<1> QED BY <1>1, Inductive, PTL
=============================================================================
