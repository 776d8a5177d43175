--------------------------- MODULE MCSkipListScan ---------------------------
(***************************************************************************)
(* The scan of skiplist_test.cc's ConcurrentTest::ReadStep: a reader       *)
(* positions an iterator with seek or seekToFirst and walks forward with   *)
(* next while the writer inserts.  History variables remember what was in  *)
(* the list when the scan began and what the scan has met.                 *)
(***************************************************************************)
EXTENDS SkipList

VARIABLES
  from,   \* from[r]: the key r's scan started at, Null for seekToFirst
  snap,   \* snap[r]: the keys published when r's scan started
  seen    \* seen[r]: the keys r's scan has stood on

scanVars == <<vars, from, snap, seen>>

ScanInit ==
  /\ Init
  /\ from = [r \in Readers |-> Null]
  /\ snap = [r \in Readers |-> {}]
  /\ seen = [r \in Readers |-> {}]

\* A scan starts: the history is set to what is published now.
Begin(r, k) ==
  /\ from' = [from EXCEPT ![r] = k]
  /\ snap' = [snap EXCEPT ![r] = linked[0]]

Visit(r, old) == seen' = [seen EXCEPT ![r] = (old \union {node_'[r]}) \ {Null}]

ScanNext ==
  \/ /\ \/ \E p \in Threads : Advance(p) \/ Descend(p)
        \/ WriterNext
        \/ \E s \in pending : Commit(s)
     /\ UNCHANGED <<from, snap, seen>>
  \/ \E r \in Readers :
       \/ \E k \in Keys :
            /\ IteratorSeek(r, k) /\ Begin(r, k)
            /\ seen' = [seen EXCEPT ![r] = {}]
       \/ IteratorSeekToFirst(r) /\ Begin(r, Null) /\ Visit(r, {})
       \/ SearchReturns(r) /\ Visit(r, {}) /\ UNCHANGED <<from, snap>>
       \/ IteratorNext(r) /\ Visit(r, seen[r]) /\ UNCHANGED <<from, snap>>

ScanSpec == ScanInit /\ [][ScanNext]_scanVars

\* skiplist_test.cc:124-131: a scan never misses a key that was in the list
\* when it started.  Every such key between the start of the scan and the
\* iterator's position has been visited.
ScanMissesNothing ==
  \A r \in Readers : pc[r] = "idle" =>
    \A k \in snap[r] :
      /\ from[r] = Null \/ from[r] <= k
      /\ node_[r] = Null \/ k < node_[r]
      => k \in seen[r]

\* skiplist_test.cc:240: a scan does not go backwards, and starts at or after
\* its target.
ScanOrdered ==
  \A r \in Readers : pc[r] = "idle" =>
    \A k \in seen[r] :
      /\ from[r] = Null \/ from[r] <= k
      /\ node_[r] = Null \/ k <= node_[r]
=============================================================================
