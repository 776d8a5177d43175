---------------------------- MODULE CodingStream ----------------------------
(***************************************************************************)
(* A string is filled with the Put functions of src/util/coding.cc and     *)
(* AppendNumberTo of logging.cc, it arrives in pieces, and it is read back *)
(* with the Get functions in the same order.  A Get that fails because its *)
(* item has not arrived as a whole is tried again when there is more.  A   *)
(* reader may also take a varint64 for a varint32.                         *)
(***************************************************************************)
EXTENDS Logging

CONSTANTS
  Values32,   \* the values for PutFixed32 and PutVarint32
  Values64,   \* the values for PutFixed64, PutVarint64 and AppendNumberTo
  Strings,    \* the strings for PutLengthPrefixedSlice
  MaxItems    \* bound on the number of Puts

ASSUME ValueAssumption == Values32 \subseteq UInt32 /\ Values64 \subseteq UInt64
\* No string has 2^32 bytes or more: its length would not survive.
ASSUME StringAssumption ==
  \A s \in Strings : s \in Seq(Byte) /\ Len(s) < Power(Base, Width32)
ASSUME SeparatorAssumption == Base > 10
ASSUME WidthOrderAssumption == Width32 <= Width64

Item ==
  [kind : {"fixed32", "varint32"}, value : Values32] \union
  [kind : {"fixed64", "varint64", "decimal"}, value : Values64] \union
  [kind : {"slice"}, value : Strings]

VARIABLES
  dst,      \* the string the Puts append to
  items,    \* history: what was put
  phase,    \* "put" or "get"
  cut,      \* how many bytes of dst have arrived
  input,    \* the Slice the Gets consume
  out,      \* what the Gets returned, with the function that was used
  starved   \* the last Get returned false, and nothing has arrived since

vars == <<dst, items, phase, cut, input, out, starved>>

TypeOK ==
  /\ dst \in Seq(Byte)
  /\ items \in Seq(Item)
  /\ phase \in {"put", "get"}
  /\ cut \in 0 .. Len(dst)
  /\ input \in Seq(Byte)
  /\ Len(out) <= Len(items)
  /\ starved \in BOOLEAN

Init ==
  /\ dst = <<>> /\ items = <<>> /\ phase = "put"
  /\ cut = 0 /\ input = <<>> /\ out = <<>> /\ starved = FALSE

-----------------------------------------------------------------------------
\* Something that is no digit has to follow a number.
Separator == Base - 1

Encode(item) ==
  CASE item.kind = "fixed32"                 -> EncodeFixed(item.value, Width32)
    [] item.kind = "fixed64"                 -> EncodeFixed(item.value, Width64)
    [] item.kind \in {"varint32", "varint64"} -> EncodeVarint(item.value)
    [] item.kind = "decimal"                 -> Append(NumberToString(item.value), Separator)
    [] item.kind = "slice"                   -> EncodeLengthPrefixed(item.value)

Put(item) ==
  /\ phase = "put" /\ Len(items) < MaxItems
  /\ dst' = dst \o Encode(item)
  /\ items' = Append(items, item)
  /\ UNCHANGED <<phase, cut, input, out, starved>>

\* The string is complete; reading begins.
Send ==
  /\ phase = "put"
  /\ phase' = "get"
  /\ UNCHANGED <<dst, items, cut, input, out, starved>>

\* The bytes up to the n-th arrive.
Arrive(n) ==
  /\ phase = "get" /\ n > cut
  /\ cut' = n /\ input' = input \o SubSeq(dst, cut + 1, n)
  /\ starved' = FALSE
  /\ UNCHANGED <<dst, items, phase, out>>

\* DecodeFixed does not check the size of its input; its caller does.
GetFixed(width) ==
  IF Len(input) < width THEN Failed(input)
  ELSE [ok |-> TRUE, value |-> DecodeFixed(SubSeq(input, 1, width)),
        rest |-> Drop(input, width)]

\* ConsumeDecimalNumber also succeeds on the first digits of a number, so its
\* caller waits for the byte that ends it.
GetDecimal ==
  LET r == ConsumeDecimalNumber(input)
  IN  IF r.ok /\ r.rest # <<>>
        THEN [ok |-> TRUE, value |-> r.value, rest |-> Drop(r.rest, 1)] ELSE Failed(input)

Decode(kind) ==
  CASE kind = "fixed32"  -> GetFixed(Width32)
    [] kind = "fixed64"  -> GetFixed(Width64)
    [] kind = "varint32" -> GetVarint32(input)
    [] kind = "varint64" -> GetVarint64(input)
    [] kind = "decimal"  -> GetDecimal
    [] kind = "slice"    -> GetLengthPrefixedSlice(input)

Accept(kind, r) ==
  /\ input' = r.rest
  /\ out' = Append(out, [kind |-> kind, value |-> r.value])
  /\ UNCHANGED <<dst, items, phase, cut, starved>>

NextKind == items[Len(out) + 1].kind

Reading == phase = "get" /\ Len(out) < Len(items) /\ ~starved

Get ==
  /\ Reading
  /\ LET r == Decode(NextKind) IN r.ok /\ Accept(NextKind, r)

\* An integer that is not complete is left in the input.  A failed
\* GetLengthPrefixedSlice may have consumed the length, so its caller puts back
\* the Slice it had before the call.
GetFails ==
  /\ Reading
  /\ LET r == Decode(NextKind)
     IN  ~r.ok /\ input' = IF NextKind = "slice" THEN input ELSE r.rest
  /\ starved' = TRUE
  /\ UNCHANGED <<dst, items, phase, cut, out>>

\* A varint64 is read as a varint32; if that fails the reader goes on with
\* the right function.
GetNarrow ==
  /\ Reading /\ NextKind = "varint64"
  /\ LET r == Decode("varint32") IN r.ok /\ Accept("varint32", r)

Next ==
  \/ \E item \in Item : Put(item)
  \/ Send
  \/ \E n \in 1 .. Len(dst) : Arrive(n)
  \/ Get \/ GetFails \/ GetNarrow

Spec == Init /\ [][Next]_vars

-----------------------------------------------------------------------------
(* Properties.                                                             *)

\* GetVarint32 gives the low 32 bits of a varint64 that is not too long for it.
ValuesBack ==
  \A i \in DOMAIN out :
    out[i].value = IF out[i].kind = "varint32"
                     THEN items[i].value % Power(Base, Width32) ELSE items[i].value

AllConsumed ==
  phase = "get" /\ cut = Len(dst) /\ Len(out) = Len(items) => input = <<>>

\* What is read is what was put, item by item and to the last byte, however the
\* bytes are split on their way: no Get takes a byte too many or too few, and
\* none makes a value out of an item whose tail is missing (coding.cc:82-98,
\* 123-135, 150-164).
RoundTrip == ValuesBack /\ AllConsumed

\* A Get returns false only if its item has not arrived as a whole, and the
\* attempts before it have left what they did not consume readable.
FailsOnlyWhenCut ==
  starved =>
    LET sizes == [i \in 1 .. Len(out) + 1 |-> Len(Encode(items[i]))]
    IN  cut < SumFunction(sizes)

\* The decimal texts of all numbers.
Texts == [v \in UInt64 |-> NumberToString(v)]

\* Whatever the input, ConsumeDecimalNumber takes all the digits at its start
\* and gives their value, leading zeros or not; if there are none, or if the
\* number does not fit in a uint64_t, it fails and leaves the input as it was
\* (logging.cc:29-50).
DecimalExact ==
  LET n     == Max({k \in 0 .. Len(input) : \A i \in 1 .. k : input[i] \in Digit})
      first == Min({i \in 1 .. n : input[i] # 0} \union {Max({n, 1})})
      text  == SubSeq(input, first, n)
      r     == ConsumeDecimalNumber(input)
  IN  IF \E v \in UInt64 : Texts[v] = text
        THEN r.ok /\ Texts[r.value] = text /\ r.rest = Drop(input, n)
        ELSE ~r.ok /\ r.rest = input
=============================================================================
