------------------------------ MODULE DbFormat ------------------------------
(***************************************************************************)
(* src/database/db_format.h and db_format.cc: internal keys.  An internal  *)
(* key is the user key followed by a fixed64 tag, whose low byte is the    *)
(* type and whose other bytes are the sequence number.  The widths are     *)
(* those of Coding; a tag has Width64 bytes.                               *)
(***************************************************************************)
EXTENDS Coding

User == INSTANCE Comparator WITH MaxByte <- Base - 1

TypeDeletion == 0
TypeValue    == 1
ValueType    == {TypeDeletion, TypeValue}

\* Variant with a defect: the smaller of the two types.
s_value_type_for_seek_Deletion == TypeDeletion

s_value_type_for_seek == TypeValue
s_max_sequence_number == Power(Base, Width64 - 1) - 1
SequenceNumber        == 0 .. s_max_sequence_number

PackSequenceAndType(seq, t) == seq * Base + t

\* A ParsedInternalKey as bytes.
AppendInternalKey(p) ==
  p.user_key \o EncodeFixed(PackSequenceAndType(p.sequence, p.type), Width64)

Tail8(k)          == SubSeq(k, Len(k) - Width64 + 1, Len(k))
ExtractUserKey(k) == SubSeq(k, 1, Len(k) - Width64)

\* ParseInternalKey: the type byte may be none of the types.
ParseInternalKey(k) ==
  IF Len(k) < Width64 THEN [ok |-> FALSE]
  ELSE LET num == DecodeFixed(Tail8(k))
       IN  [ok       |-> num % Base <= TypeValue,
            user_key |-> ExtractUserKey(k),
            sequence |-> num \div Base,
            type     |-> num % Base]

-----------------------------------------------------------------------------
(* InternalKeyComparator.                                                  *)

\* Variant with a defect: the tags are compared in ascending order.
compare_Ascending(a, b) ==
  LET r == User!compare(ExtractUserKey(a), ExtractUserKey(b))
  IN  IF r # 0 THEN r ELSE User!Sign(DecodeFixed(Tail8(a)), DecodeFixed(Tail8(b)))

\* User keys ascending, then tags descending.
compare(a, b) ==
  LET r == User!compare(ExtractUserKey(a), ExtractUserKey(b))
  IN  IF r # 0 THEN r ELSE User!Sign(DecodeFixed(Tail8(b)), DecodeFixed(Tail8(a)))

\* The shortened user key tmp replaces that of key if it is shorter and later;
\* it gets the tag that sorts before all others.
Replace(key, tmp) ==
  LET user_key == ExtractUserKey(key)
  IN  IF Len(tmp) < Len(user_key) /\ User!compare(user_key, tmp) < 0
        THEN tmp \o EncodeFixed(
               PackSequenceAndType(s_max_sequence_number, s_value_type_for_seek), Width64)
        ELSE key

findShortestSeparator(start, limit) ==
  Replace(start, User!findShortestSeparator(ExtractUserKey(start), ExtractUserKey(limit)))

findShortSuccessor(key) ==
  Replace(key, User!findShortSuccessor(ExtractUserKey(key)))

-----------------------------------------------------------------------------
(* InternalFilterPolicy.  The user's policy is outside this repository:    *)
(* its filter is the set of the keys it was built from, and it may let     *)
(* other keys pass too, which the model leaves out.                        *)

\* createFilter first replaces every key of the caller's array by its user key.
createFilter(keys) ==
  LET mkey == [i \in DOMAIN keys |-> ExtractUserKey(keys[i])]
  IN  [keys |-> mkey, filter |-> {mkey[i] : i \in DOMAIN mkey}]

\* Variant with a defect: the tag is not cut off.
keyMayMatch_WholeKey(key, filter) == key \in filter

keyMayMatch(key, filter) == ExtractUserKey(key) \in filter

-----------------------------------------------------------------------------
(* LookupKey: what internalKey() returns.                                  *)

LookupInternalKey(user_key, sequence) ==
  user_key \o EncodeFixed(PackSequenceAndType(sequence, s_value_type_for_seek), Width64)

-----------------------------------------------------------------------------
(* What the comparators are for.                                           *)

\* The order on the parsed keys that the comment of compare describes: user
\* keys in dictionary order, then the newest first.
LessUser(a, b) ==
  \E i \in 1 .. Len(b) :
    /\ i <= Len(a) + 1
    /\ \A j \in 1 .. i - 1 : a[j] = b[j]
    /\ i = Len(a) + 1 \/ a[i] < b[i]

Less(p, q) ==
  \/ LessUser(p.user_key, q.user_key)
  \/ p.user_key = q.user_key /\ p.sequence > q.sequence
  \/ p.user_key = q.user_key /\ p.sequence = q.sequence /\ p.type > q.type
=============================================================================
