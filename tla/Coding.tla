------------------------------- MODULE Coding -------------------------------
(***************************************************************************)
(* src/util/coding.h and coding.cc: integers and strings as bytes.         *)
(* The widths are parameters, so that the boundaries of the types are in   *)
(* TLC's reach; the code has Base = 256, Flag = 128, Width32 = 4,          *)
(* Width64 = 8, Groups32 = 5 and Groups64 = 10.                            *)
(***************************************************************************)
EXTENDS Integers, Sequences, FiniteSetsExt, Functions, Powers

CONSTANTS
  Base,       \* the number of values of a byte
  Flag,       \* B, the bit that says that a varint goes on
  Width32,    \* the bytes of a uint32_t
  Width64,    \* the bytes of a uint64_t
  Groups32,   \* the most bytes of a varint32
  Groups64    \* the most bytes of a varint64

ASSUME ByteAssumption == Flag \in Nat /\ Flag > 1 /\ Base = 2 * Flag
ASSUME WidthAssumption ==
  /\ {Width32, Width64, Groups32, Groups64} \subseteq Nat \ {0}
  /\ Power(Flag, Groups32 - 1) < Power(Base, Width32)
  /\ Power(Base, Width32) <= Power(Flag, Groups32)
  /\ Power(Flag, Groups64 - 1) < Power(Base, Width64)
  /\ Power(Base, Width64) <= Power(Flag, Groups64)

Byte   == 0 .. Base - 1
UInt32 == 0 .. Power(Base, Width32) - 1
UInt64 == 0 .. Power(Base, Width64) - 1

-----------------------------------------------------------------------------
\* Variant with a defect: the bytes are not cut to their width.
EncodeFixed_NoCast(v, width) == [i \in 1 .. width |-> v \div Power(Base, i - 1)]

\* EncodeFixed32, EncodeFixed64: little endian.
EncodeFixed(v, width) == [i \in 1 .. width |-> (v \div Power(Base, i - 1)) % Base]

\* The number with these digits, the lowest first: each is shifted to its place
\* and added.
FromDigits(digits, base) ==
  SumFunction([i \in DOMAIN digits |-> digits[i] * Power(base, i - 1)])

\* DecodeFixed32, DecodeFixed64.
DecodeFixed(bytes) == FromDigits(bytes, Base)

VarintLength(v) ==
  CHOOSE n \in 1 .. Groups64 : v < Power(Flag, n) /\ (n > 1 => v >= Power(Flag, n - 1))

\* EncodeVarint32, EncodeVarint64: the lowest group first, Flag on all but the
\* last one.
EncodeVarint(v) ==
  LET n == VarintLength(v)
  IN  [i \in 1 .. n |->
         ((v \div Power(Flag, i - 1)) % Flag) + (IF i < n THEN Flag ELSE 0)]

\* The size of a string is converted to uint32_t.
EncodeLengthPrefixed(value) == EncodeVarint(Len(value) % Power(Base, Width32)) \o value

-----------------------------------------------------------------------------
\* A Get returns whether it succeeded, the value, and what is left of the input.
Failed(input) == [ok |-> FALSE, value |-> 0, rest |-> input]

Drop(input, n) == SubSeq(input, n + 1, Len(input))

\* Variant with a defect: the loop ends one group too early.
GetVarintOf_TooFew(input, groups, width) ==
  LET last == {i \in 1 .. groups - 1 : i <= Len(input) /\ input[i] < Flag}
  IN  IF last = {} THEN Failed(input)
      ELSE LET n   == Min(last)
               sum == FromDigits([i \in 1 .. n |-> input[i] % Flag], Flag)
           IN  [ok |-> TRUE, value |-> sum % Power(Base, width), rest |-> Drop(input, n)]

\* GetVarint32Ptr, its fallback and GetVarint64Ptr: at most so many groups, and
\* the bits that do not fit in the type are shifted out.
GetVarintOf(input, groups, width) ==
  LET last == {i \in 1 .. groups : i <= Len(input) /\ input[i] < Flag}
  IN  IF last = {} THEN Failed(input)
      ELSE LET n   == Min(last)
               sum == FromDigits([i \in 1 .. n |-> input[i] % Flag], Flag)
           IN  [ok |-> TRUE, value |-> sum % Power(Base, width), rest |-> Drop(input, n)]

GetVarint32(input) == GetVarintOf(input, Groups32, Width32)
GetVarint64(input) == GetVarintOf(input, Groups64, Width64)

\* Variant with a defect: the size of the input is not compared with the length.
GetLengthPrefixedSlice_NoCheck(input) ==
  LET len == GetVarint32(input)
      n   == Min({len.value, Len(len.rest)})
  IN  IF len.ok
        THEN [ok |-> TRUE, value |-> SubSeq(len.rest, 1, n), rest |-> Drop(len.rest, n)]
        ELSE Failed(len.rest)

\* A failure after the length leaves the input behind the length.
GetLengthPrefixedSlice(input) ==
  LET len == GetVarint32(input)
  IN  IF len.ok /\ Len(len.rest) >= len.value
        THEN [ok |-> TRUE, value |-> SubSeq(len.rest, 1, len.value),
              rest |-> Drop(len.rest, len.value)]
        ELSE Failed(len.rest)
=============================================================================
