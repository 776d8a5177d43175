------------------------------ MODULE LookupKeys ------------------------------
(***************************************************************************)
(* class LookupKey (src/database/db_format.h and db_format.cc): a user key *)
(* and a snapshot's sequence number as bytes, in a buffer inside the       *)
(* object if they fit and in a block of operator new[] otherwise.          *)
(***************************************************************************)
EXTENDS DbFormat

CONSTANTS
  Lookups,     \* the variables that may hold a LookupKey
  Keys,        \* the user keys that are looked up
  SpaceSize,   \* sizeof(space_)
  MaxBuffers   \* bound on the blocks of operator new[] at a time

ASSUME SpaceAssumption == SpaceSize \in Nat /\ MaxBuffers \in Nat
\* No internal key has 2^32 bytes or more: its length would not survive.
ASSUME KeysAssumption ==
  \A k \in Keys : k \in Seq(Byte) /\ Len(k) + Width64 \in UInt32 \cap UInt64

VARIABLES
  objects,     \* objects[l]: the LookupKey in l
  buffers      \* buffers[a]: the size of the block at a, 0 if there is none

lookupVars == <<objects, buffers>>

Addresses == 1 .. MaxBuffers
\* The address of the buffer inside the object.
space_ == 0

Dead == [alive |-> FALSE]

LookupInit ==
  /\ objects = [l \in Lookups |-> Dead]
  /\ buffers = [a \in Addresses |-> 0]

-----------------------------------------------------------------------------
\* Variant with a defect: one byte too little for the longest varint32.
needed_OneShort(user_key) == Len(user_key) + (Groups32 - 1) + Width64

needed(user_key) == Len(user_key) + Groups32 + Width64

\* Variant with a defect: the length leaves out the tag.
LengthPrefix_NoTag(user_key) == EncodeVarint(Len(user_key) % Power(Base, Width32))

\* The length is converted to uint32_t.
LengthPrefix(user_key) == EncodeVarint((Len(user_key) + Width64) % Power(Base, Width32))

\* The object after its constructor has written to dst: start_ is an address,
\* key_start_ and end_ count from there, and bytes is what is written there.
Written(dst, user_key, sequence) ==
  LET length == LengthPrefix(user_key)
  IN  [alive |-> TRUE, user_key |-> user_key, sequence |-> sequence,
       start_ |-> dst,
       key_start_ |-> Len(length),
       end_ |-> Len(length) + Len(user_key) + Width64,
       bytes |-> length \o LookupInternalKey(user_key, sequence)]

LookupKey(l, user_key, sequence) ==
  /\ ~objects[l].alive
  /\ \/ /\ needed(user_key) <= SpaceSize
        /\ objects' = [objects EXCEPT ![l] = Written(space_, user_key, sequence)]
        /\ UNCHANGED buffers
     \/ /\ needed(user_key) > SpaceSize
        /\ \E dst \in Addresses :
             /\ buffers[dst] = 0
             /\ buffers' = [buffers EXCEPT ![dst] = needed(user_key)]
             /\ objects' = [objects EXCEPT ![l] = Written(dst, user_key, sequence)]

\* Variant with a defect: the block is not deleted.
destroy_Keeps(l) ==
  /\ objects[l].alive
  /\ objects' = [objects EXCEPT ![l] = Dead]
  /\ UNCHANGED buffers

\* ~LookupKey deletes the block if there is one.
destroy(l) ==
  /\ objects[l].alive
  /\ objects' = [objects EXCEPT ![l] = Dead]
  /\ IF objects[l].start_ # space_
       THEN buffers' = [buffers EXCEPT ![objects[l].start_] = 0]
       ELSE UNCHANGED buffers

memtableKey(o) == SubSeq(o.bytes, 1, o.end_)
internalKey(o) == SubSeq(o.bytes, o.key_start_ + 1, o.end_)
userKey(o)     == SubSeq(o.bytes, o.key_start_ + 1, o.end_ - Width64)

LookupNext ==
  \E l \in Lookups :
    \/ \E user_key \in Keys, sequence \in SequenceNumber : LookupKey(l, user_key, sequence)
    \/ destroy(l)

LookupSpec == LookupInit /\ [][LookupNext]_lookupVars

-----------------------------------------------------------------------------
(* Properties.                                                             *)

Living == {l \in Lookups : objects[l].alive}
OnHeap == {l \in Living : objects[l].start_ # space_}

\* What the constructor writes fits in the buffer it has chosen, with the longest
\* length as well as the shortest, and the buffer is there as long as the object
\* (db_format.cc:135-142).
LookupKeyFits ==
  \A l \in Living :
    Len(objects[l].bytes) <=
      (IF l \in OnHeap THEN buffers[objects[l].start_] ELSE SpaceSize)

\* memtableKey() reads back as the length-prefixed internalKey() with nothing
\* left over, and that as the user key, the sequence number and the type for
\* seeks; userKey() is the user key (db_format.h:137-139).
LookupKeyReads ==
  \A l \in Living :
    LET o     == objects[l]
        slice == GetLengthPrefixedSlice(memtableKey(o))
    IN  /\ slice.ok /\ slice.value = internalKey(o) /\ slice.rest = <<>>
        /\ ParseInternalKey(internalKey(o)) =
             [ok |-> TRUE, user_key |-> o.user_key, sequence |-> o.sequence,
              type |-> s_value_type_for_seek]
        /\ userKey(o) = o.user_key

\* Every block of operator new[] belongs to exactly one LookupKey: none is
\* deleted twice or used by two of them, and none outlives its object
\* (db_format.cc:138-142, db_format.h:133-135).
BuffersOwned ==
  /\ {a \in Addresses : buffers[a] # 0} = {objects[l].start_ : l \in OnHeap}
  /\ \A l, m \in OnHeap : objects[l].start_ = objects[m].start_ => l = m
=============================================================================
