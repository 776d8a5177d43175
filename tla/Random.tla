------------------------------- MODULE Random -------------------------------
(***************************************************************************)
(* src/util/random.h: a linear congruential generator modulo 2^Bits - 1,   *)
(* which divides with shifts.  The code has Bits = 31 and A = 16807.  An   *)
(* operator takes seed_ and returns the new one.                           *)
(***************************************************************************)
EXTENDS Integers

CONSTANTS
  Bits,   \* the modulus has so many bits, all of them 1
  A       \* the multiplier

M == 2 ^ Bits - 1

\* M is a prime number in the code, so that no product becomes 0.
ASSUME RandomAssumption ==
  /\ Bits \in Nat /\ M \in Nat /\ A \in 1 .. M - 1
  /\ \A seed \in 1 .. M - 1 : (seed * A) % M # 0

\* Variant with a defect: only 0 is replaced.
Seed_KeepsM(s) == LET masked == s % (M + 1) IN IF masked = 0 THEN 1 ELSE masked

\* The constructor.
Seed(s) == LET masked == s % (M + 1) IN IF masked \in {0, M} THEN 1 ELSE masked

\* product >> 31 and product & M are the two digits of product to the base
\* M + 1, and M + 1 is 1 modulo M.
next(seed) ==
  LET product == seed * A
      sum     == (product \div (M + 1)) + (product % (M + 1))
  IN  IF sum > M THEN sum - M ELSE sum

oneIn(seed, n) == next(seed) % n = 0
=============================================================================
