------------------------------- MODULE Logging -------------------------------
(***************************************************************************)
(* src/util/logging.cc: numbers as decimal text.  The digits '0' to '9'    *)
(* are the bytes 0 to 9; every other byte is no digit.  uint64_t has the   *)
(* width that Coding gives it.                                             *)
(***************************************************************************)
EXTENDS Coding

s_max_uint64 == Power(Base, Width64) - 1

Digit == 0 .. 9

\* std::to_string, the whole of AppendNumberTo.
NumberToString(num) ==
  LET n == CHOOSE k \in 1 .. num + 1 :
             num < Power(10, k) /\ (k > 1 => num >= Power(10, k - 1))
  IN  [i \in 1 .. n |-> (num \div Power(10, n - i)) % 10]

\* Variant with a defect: the last digit is not compared.
TooLarge_NoLastDigit(value, ch) == value > s_max_uint64 \div 10

\* value * 10 + ch would not fit in a uint64_t.
TooLarge(value, ch) ==
  \/ value > s_max_uint64 \div 10
  \/ value = s_max_uint64 \div 10 /\ ch > s_max_uint64 % 10

\* The loop goes over the n digits at the start of the input; value[i] is the
\* variable value when i of them were consumed.
ConsumeDecimalNumber(in) ==
  LET n == Max({k \in 0 .. Len(in) : \A i \in 1 .. k : in[i] \in Digit})
      value[i \in 0 .. n] ==
        IF i = 0 THEN 0 ELSE (value[i - 1] * 10 + in[i]) % Power(Base, Width64)
  IN  IF \E i \in 1 .. n : TooLarge(value[i - 1], in[i]) THEN Failed(in)
      ELSE [ok |-> n # 0, value |-> value[n], rest |-> Drop(in, n)]
=============================================================================
