---------------------------- MODULE KeyShortening ----------------------------
(***************************************************************************)
(* The keys of an index: InternalKeyComparator (src/database/db_format.cc) *)
(* shortens a key in place, between its neighbours or after the last one.  *)
(* Every pair of internal keys up to a length is a starting point, in      *)
(* either order.                                                           *)
(***************************************************************************)
EXTENDS DbFormat

CONSTANT MaxLen   \* bound on the length of user keys

ASSUME MaxLenAssumption == MaxLen \in Nat

BoundedKeys == UNION {[1 .. n -> Byte] : n \in 0 .. MaxLen}

InternalKeys ==
  {AppendInternalKey(p) :
     p \in [user_key : BoundedKeys, sequence : SequenceNumber, type : ValueType]}

VARIABLES
  start,   \* the key that is shortened
  limit    \* the key it must stay before

keyVars == <<start, limit>>

KeysInit == start \in InternalKeys /\ limit \in InternalKeys

Separate == start' = findShortestSeparator(start, limit) /\ UNCHANGED limit
Succeed  == start' = findShortSuccessor(start) /\ UNCHANGED limit

KeysNext == Separate \/ Succeed

KeysSpec == KeysInit /\ [][KeysNext]_keyVars

-----------------------------------------------------------------------------
(* Properties.                                                             *)

\* Comparing the bytes of two keys (db_format.cc:36-51) orders them as their
\* parts are ordered, and parsing gives back the parts: packing, the byte
\* order of the tag and the bytewise comparison agree.  This also holds for
\* the keys that the shortening functions put together.
OrderOfParts ==
  LET p == ParseInternalKey(start)
      q == ParseInternalKey(limit)
  IN  /\ p.ok /\ q.ok
      /\ AppendInternalKey(p) = start
      /\ compare(start, limit) < 0 <=> Less(p, q)
      /\ compare(start, limit) = 0 <=> start = limit

\* The assertions of lines 65, 66 and comparator.cc:43, and the purpose of the
\* function: a separator comes after every key up to the old start and before
\* every key from limit on.
SeparatorSeparates ==
  [][Separate /\ start' # start =>
       \A k \in InternalKeys :
         /\ compare(k, start) <= 0 => compare(k, start') < 0
         /\ compare(limit, k) <= 0 => compare(start', k) < 0]_keyVars

\* A successor is what the comment of comparator.cc:48 asks for: it is not before
\* the key (the assertion of line 79), and no internal key from start on has fewer
\* bytes, also where the first bytes are 0xff or only the last one is not.
SuccessorShortest ==
  LET successor == findShortSuccessor(start)
  IN  /\ compare(start, successor) <= 0
      /\ \A k \in InternalKeys : compare(start, k) <= 0 => Len(k) >= Len(successor)
=============================================================================
