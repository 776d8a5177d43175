---------------------------- MODULE VersionLookup ----------------------------
(***************************************************************************)
(* LookupKey and InternalKeyComparator at work (src/database/db_format.h): *)
(* versions of user keys are kept in the order of the comparator, as the   *)
(* skip list keeps its keys, and a LookupKey for a snapshot is looked up   *)
(* with a seek.  The memtable that will do so is empty in this repository; *)
(* its writes and its seek are modelled from what LookupKey is for.  The   *)
(* versions can be written out as a table with a filter of its keys, which *)
(* a reader asks before it seeks in the table.                             *)
(***************************************************************************)
EXTENDS DbFormat

CONSTANTS
  UserKeys,    \* the user keys, as sequences of bytes
  MaxVersions, \* bound on the number of versions
  None         \* no version

ASSUME UserKeyAssumption == UserKeys \subseteq Seq(Byte)
ASSUME NoneAssumption == None \notin Seq(Byte)

VARIABLES
  entries,     \* the internal keys that are stored
  versions,    \* history: what they were made of
  last,        \* the last sequence number, -1 before the first
  snapshot,    \* a reader's snapshot, -1 before it has one
  view,        \* history: what the reader found when it took the snapshot
  table,       \* the internal keys of the table
  filter       \* the table's filter

vars == <<entries, versions, last, snapshot, view, table, filter>>

Version == [user_key : UserKeys, sequence : SequenceNumber, type : ValueType]

TypeOK ==
  /\ \A e \in entries : e \in Seq(Byte) /\ Len(e) >= Width64
  /\ versions \subseteq Version
  /\ {last, snapshot} \subseteq SequenceNumber \union {-1}
  /\ table \subseteq entries
  /\ filter \subseteq UserKeys

Init ==
  /\ entries = {} /\ versions = {} /\ last = -1
  /\ snapshot = -1 /\ view = [u \in UserKeys |-> None]
  /\ table = {} /\ filter = {}

\* A value or a deletion is stored with a later sequence number.
Add(u, seq, t) ==
  LET p == [user_key |-> u, sequence |-> seq, type |-> t]
  IN  /\ seq > last /\ Cardinality(versions) < MaxVersions
      /\ entries' = entries \union {AppendInternalKey(p)}
      /\ versions' = versions \union {p}
      /\ last' = seq
      /\ UNCHANGED <<snapshot, view, table, filter>>

\* What Iterator::seek promises: the first of the keys that is not before target.
\* (SkipList has the search itself and refines this promise.)
Seek(keys, target) ==
  LET after == {e \in keys : compare(target, e) <= 0}
  IN  IF after = {} THEN None
      ELSE CHOOSE e \in after : \A d \in after : compare(e, d) <= 0

\* The memtable's get: the version of u that a reader with snapshot seq gets.
Find(keys, u, seq) ==
  LET e == Seek(keys, LookupInternalKey(u, seq))
  IN  IF e = None THEN None
      ELSE IF ExtractUserKey(e) # u THEN None
      ELSE LET p == ParseInternalKey(e)
           IN  [user_key |-> p.user_key, sequence |-> p.sequence, type |-> p.type]

TakeSnapshot ==
  /\ last >= 0
  /\ snapshot' = last
  /\ view' = [u \in UserKeys |-> Find(entries, u, last)]
  /\ UNCHANGED <<entries, versions, last, table, filter>>

\* A table of all the versions is written, with a filter for its keys in their
\* order; createFilter ruins the array, so the caller fills one for each filter.
BuildTable ==
  /\ entries # {}
  /\ table' = entries
  /\ \E keys \in [1 .. Cardinality(entries) -> entries] :
       /\ Range(keys) = entries
       /\ \A i, j \in DOMAIN keys : i < j => compare(keys[i], keys[j]) < 0
       /\ filter' = createFilter(keys).filter
  /\ UNCHANGED <<entries, versions, last, snapshot, view>>

\* A reader passes the same LookupKey to the filter and to the table.
FindInTable(u, seq) ==
  IF keyMayMatch(LookupInternalKey(u, seq), filter) THEN Find(table, u, seq) ELSE None

Next ==
  \/ \E u \in UserKeys, seq \in SequenceNumber, t \in ValueType : Add(u, seq, t)
  \/ TakeSnapshot
  \/ BuildTable

Spec == Init /\ [][Next]_vars

-----------------------------------------------------------------------------
(* Properties.                                                             *)

\* A lookup finds the newest version of the key that is not newer than the
\* snapshot, a deletion included, and never a version of another key, also of
\* one that is a prefix (db_format.h:126-128, db_format.cc:134-151).
NewestVisible ==
  \A u \in UserKeys, seq \in SequenceNumber :
    LET visible == {v \in versions : v.user_key = u /\ v.sequence <= seq}
        found   == Find(entries, u, seq)
    IN  IF visible = {} THEN found = None
        ELSE found \in visible /\ \A v \in visible : v.sequence <= found.sequence

\* A snapshot does not change: a reader that looks up again finds what it found
\* when it took the snapshot, whatever was added since.
SnapshotStable ==
  snapshot >= 0 => \A u \in UserKeys : Find(entries, u, snapshot) = view[u]

\* Asking the filter first changes no answer: a filter built from internal keys
\* with other tags lets the LookupKey of every user key of the table pass
\* (db_format.cc:88-99).
FilterHidesNothing ==
  \A u \in UserKeys, seq \in SequenceNumber : FindInTable(u, seq) = Find(table, u, seq)
=============================================================================
