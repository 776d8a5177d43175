-------------------------------- MODULE Hash --------------------------------
(***************************************************************************)
(* src/util/hash.cc: a variant of murmur hash.  A word has Width32 bytes,  *)
(* 4 in the code, and all arithmetic is modulo Base ^ Width32, as that of  *)
(* uint32_t is.                                                            *)
(***************************************************************************)
EXTENDS Coding, Bitwise

CONSTANT Multiplier   \* m, an odd number

ASSUME MultiplierAssumption == Multiplier \in UInt32 /\ Multiplier % 2 = 1
ASSUME WordAssumption == Width32 % 2 = 0

\* h *= m, and h ^= h >> so many bytes: 16 bits are half a word, r = 24 bits
\* all but one byte.
Mix(h, bytes) ==
  LET product == (h * Multiplier) % Power(Base, Width32)
  IN  product ^^ (product \div Power(Base, bytes))

\* Variant with a defect: the cases do not fall through, and only the last of
\* the remaining bytes is added.
Remaining_NoFallthrough(h, rest) ==
  IF rest = <<>> THEN h
  ELSE Mix(h + rest[Len(rest)] * Power(Base, Len(rest) - 1), Width32 - 1)

\* The switch: the cases fall through to the first byte.
Remaining(h, rest) ==
  IF rest = <<>> THEN h ELSE Mix(h + DecodeFixed(rest), Width32 - 1)

\* The loop over whole words.
Hash(data, seed) ==
  LET words   == Len(data) \div Width32
      Word(i) == SubSeq(data, (i - 1) * Width32 + 1, i * Width32)
      h[i \in 0 .. words] ==
        IF i = 0 THEN seed ^^ ((Len(data) * Multiplier) % Power(Base, Width32))
        ELSE Mix(h[i - 1] + DecodeFixed(Word(i)), Width32 \div 2)
  IN  Remaining(h[words], Drop(data, words * Width32))
=============================================================================
