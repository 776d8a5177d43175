----------------------------- MODULE Comparator -----------------------------
(***************************************************************************)
(* src/util/comparator.cc and Slice::compare of src/include/slice.h: the   *)
(* bytewise order of strings, and the functions that shorten a key without *)
(* leaving an interval.  MaxByte is 0xff.                                  *)
(***************************************************************************)
EXTENDS Integers, Sequences, FiniteSetsExt

CONSTANT MaxByte

\* The first index at which a and b differ; one more than the length of the
\* shorter one if there is none.
DiffIndex(a, b) ==
  LET min_length == Min({Len(a), Len(b)})
  IN  Min({i \in 1 .. min_length : a[i] # b[i]} \union {min_length + 1})

Sign(x, y) == IF x < y THEN -1 ELSE IF x > y THEN 1 ELSE 0

\* Slice::compare: memcmp, then the lengths.
compare(a, b) ==
  LET i == DiffIndex(a, b)
  IN  IF i <= Len(a) /\ i <= Len(b) THEN Sign(a[i], b[i]) ELSE Sign(Len(a), Len(b))

\* The string up to index i, with byte i increased.
Bump(s, i) == Append(SubSeq(s, 1, i - 1), s[i] + 1)

\* Variant with a defect: byte + 1 may reach the limit's byte.
findShortestSeparator_OffByOne(start, limit) ==
  LET i == DiffIndex(start, limit)
  IN  IF /\ i <= Len(start) /\ i <= Len(limit)
         /\ start[i] < MaxByte /\ start[i] + 1 <= limit[i]
      THEN Bump(start, i) ELSE start

findShortestSeparator(start, limit) ==
  LET i == DiffIndex(start, limit)
  IN  IF /\ i <= Len(start) /\ i <= Len(limit)
         /\ start[i] < MaxByte /\ start[i] + 1 < limit[i]
      THEN Bump(start, i) ELSE start

\* Variant with a defect: the scan comes from the end.
findShortSuccessor_FromEnd(key) ==
  LET small == {i \in DOMAIN key : key[i] # MaxByte}
  IN  IF small = {} THEN key ELSE Bump(key, Max(small))

findShortSuccessor(key) ==
  LET small == {i \in DOMAIN key : key[i] # MaxByte}
  IN  IF small = {} THEN key ELSE Bump(key, Min(small))
=============================================================================
