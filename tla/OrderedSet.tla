----------------------------- MODULE OrderedSet -----------------------------
(***************************************************************************)
(* What the skip list of src/database/skiplist.h promises its users: an    *)
(* ordered set that only grows, read through iterators.  A read operation  *)
(* is a request and a response; the response is computed from the set as   *)
(* it is at one instant between the two, while inserts go on.  SkipList is *)
(* shown to implement this specification.                                  *)
(***************************************************************************)
EXTENDS Integers

CONSTANTS
  Keys,      \* the integers that can be inserted, ordered by <
  Readers,   \* the threads that read the list
  Null       \* nullptr: no node, and no key

VARIABLES
  set,       \* the keys in the list
  node,      \* node[r]: the key under reader r's iterator, or Null
  found,     \* found[r]: what r's last contains() returned
  op,        \* op[r]: the operation r is executing, or "idle"
  key        \* key[r]: the key that operation was called with, or Null

vars == <<set, node, found, op, key>>

Ops == {"contains", "seek", "prev", "seekToLast"}

TypeOK ==
  /\ set \subseteq Keys
  /\ node \in [Readers -> Keys \union {Null}]
  /\ found \in [Readers -> BOOLEAN]
  /\ op \in [Readers -> Ops \union {"idle"}]
  /\ key \in [Readers -> Keys \union {Null}]

Init ==
  /\ set = {}
  /\ node = [r \in Readers |-> Null]
  /\ found = [r \in Readers |-> FALSE]
  /\ op = [r \in Readers |-> "idle"]
  /\ key = [r \in Readers |-> Null]

-----------------------------------------------------------------------------
\* IsFirst(m, S): m is the least element of S, or Null when S is empty.
IsFirst(m, S) == IF S = {} THEN m = Null ELSE m \in S /\ \A j \in S : m <= j

\* IsLast(m, S): m is the greatest element of S, or Null when S is empty.
IsLast(m, S) == IF S = {} THEN m = Null ELSE m \in S /\ \A j \in S : j <= m

\* SkipList::insert takes effect in one step.
Insert(k) ==
  /\ k \notin set
  /\ set' = set \union {k}
  /\ UNCHANGED <<node, found, op, key>>

\* A reader calls contains(k), Iterator::seek(k), prev() or seekToLast().
Call(r, o, k) ==
  /\ op[r] = "idle"
  /\ op' = [op EXCEPT ![r] = o]
  /\ key' = [key EXCEPT ![r] = k]
  /\ UNCHANGED <<set, node, found>>

contains(r, k) == Call(r, "contains", k)
seek(r, k)     == Call(r, "seek", k)
prev(r)        == node[r] # Null /\ Call(r, "prev", node[r])
seekToLast(r)  == Call(r, "seekToLast", Null)

\* The iterator position an operation leaves behind.
Position(r, m) ==
  CASE op[r] = "seek"       -> IsFirst(m, {k \in set : k >= key[r]})
    [] op[r] = "prev"       -> IsLast(m, {k \in set : k < key[r]})
    [] op[r] = "seekToLast" -> IsLast(m, set)
    [] op[r] = "contains"   -> m = node[r]

Respond(r) ==
  /\ op[r] # "idle"
  /\ \E m \in Keys \union {Null} :
       Position(r, m) /\ node' = [node EXCEPT ![r] = m]
  /\ found' = IF op[r] = "contains"
                THEN [found EXCEPT ![r] = key[r] \in set]
                ELSE found
  /\ op' = [op EXCEPT ![r] = "idle"]
  /\ key' = [key EXCEPT ![r] = Null]
  /\ UNCHANGED set

\* Iterator::next() and seekToFirst() are one load of a link.
next(r) ==
  /\ op[r] = "idle" /\ node[r] # Null
  /\ \E m \in Keys \union {Null} :
       IsFirst(m, {k \in set : k > node[r]}) /\ node' = [node EXCEPT ![r] = m]
  /\ UNCHANGED <<set, found, op, key>>

seekToFirst(r) ==
  /\ op[r] = "idle"
  /\ \E m \in Keys \union {Null} :
       IsFirst(m, set) /\ node' = [node EXCEPT ![r] = m]
  /\ UNCHANGED <<set, found, op, key>>

Next ==
  \/ \E k \in Keys : Insert(k)
  \/ \E r \in Readers :
       \/ \E k \in Keys : contains(r, k) \/ seek(r, k)
       \/ prev(r) \/ seekToLast(r) \/ next(r) \/ seekToFirst(r)
       \/ Respond(r)

Spec == Init /\ [][Next]_vars
=============================================================================
