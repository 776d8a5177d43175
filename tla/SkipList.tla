------------------------------ MODULE SkipList ------------------------------
(***************************************************************************)
(* src/database/skiplist.h: a skip list with one writer and any number of  *)
(* readers that take no lock.  A node is named by its key (no key is       *)
(* inserted twice).  Every thread executes the loops of findGreateOrEqual, *)
(* findLessThan and findLast one load at a time.                           *)
(*                                                                         *)
(* Memory is weak.  The writer's stores go to a set of pending stores and  *)
(* become visible to the readers later, in any order that coherence (two   *)
(* stores to one cell stay in order) and memory_order_release (a release   *)
(* store becomes visible after every store before it) allow.  The readers  *)
(* load links with memory_order_acquire, so their loads stay in order.     *)
(***************************************************************************)
EXTENDS Integers, FiniteSets

CONSTANTS
  Keys,        \* the keys that can be inserted; compare_ is the integer order
  MaxHeight,   \* s_max_height_
  Readers,     \* the reading threads
  Writer,      \* the one writing thread
  Head,        \* head_
  Null,        \* nullptr
  Uninit,      \* memory from the arena that nobody has written
  MaxPending   \* bound: how many stores can be waiting to become visible

ASSUME KeysAssumption == Keys \subseteq Int /\ IsFiniteSet(Keys)
ASSUME HeightAssumption == MaxHeight \in Nat \ {0}
ASSUME ThreadAssumption == Writer \notin Readers
ASSUME PointerAssumption ==
  /\ Head \notin Int /\ Null \notin Int /\ Uninit \notin Int
  /\ Head # Null /\ Head # Uninit /\ Null # Uninit
ASSUME PendingAssumption == MaxPending \in Nat

Threads == Readers \union {Writer}
Node    == Keys \union {Head}
Level   == 0 .. MaxHeight - 1

VARIABLES
  nexts_,      \* nexts_[n][l]: the links as the readers see them
  keyed,       \* the nodes whose key the readers see
  max_height_, \* as the readers see it
  linked,      \* history: linked[l] is the set of nodes published at level l
  pending,     \* the writer's stores that the readers do not see yet
  clock,       \* how many stores the writer has issued
  own,         \* own[n][l]: the links as the writer sees them
  ownHeight,   \* max_height_ as the writer sees it
  prev,        \* insert's local array of predecessors
  height,      \* insert's local height
  pc,          \* pc[p]: the operation thread p is in
  x,           \* x[p]: the node its search stands on
  level,       \* level[p]: the level of its search, or insert's loop index
  key,         \* key[p]: the key it searches or inserts, or Null
  node_,       \* node_[r]: the position of reader r's iterator
  found        \* found[r]: what r's last contains() returned

memory  == <<nexts_, keyed, max_height_, linked>>
stores  == <<pending, clock, own, ownHeight>>
locals  == <<prev, height>>
search  == <<pc, x, level, key>>
results == <<node_, found>>
vars    == <<memory, stores, locals, search, results>>

-----------------------------------------------------------------------------
\* A pending store: its place in program order, the cell it writes, the value,
\* and whether it is a release store.
Store(t, kind, n, l, v, rel) ==
  [t |-> t, kind |-> kind, node |-> n, level |-> l, val |-> v, rel |-> rel]

\* Node::setNext is a release store, noBarrierSetNext a relaxed one; the key
\* is written by Node's constructor with a plain store.
setNext(t, n, l, v)          == Store(t, "nexts_", n, l, v, TRUE)
noBarrierSetNext(t, n, l, v) == Store(t, "nexts_", n, l, v, FALSE)
storeKey(t, n)               == Store(t, "key", n, 0, n, FALSE)
storeMaxHeight(t, h)         == Store(t, "max_height_", Head, 0, h, FALSE)

Links == {s \in pending : s.kind = "nexts_"}

\* Node::next and getMaxHeight: the writer sees its own stores.
Load(p, n, l)   == IF p = Writer THEN own[n][l] ELSE nexts_[n][l]
getMaxHeight(p) == IF p = Writer THEN ownHeight ELSE max_height_

\* Variant with a defect: the search steps onto a node with the searched key.
keyIsAfterNode_OrEqual(k, n) == n # Null /\ n <= k

keyIsAfterNode(k, n) == n # Null /\ n < k

Searching == {"insert", "contains", "seek", "prev", "seekToLast"}

TypeOK ==
  /\ nexts_ \in [Node -> [Level -> Node \union {Null, Uninit}]]
  /\ keyed \subseteq Node
  /\ max_height_ \in 1 .. MaxHeight
  /\ linked \in [Level -> SUBSET Keys]
  /\ clock \in Nat
  /\ own \in [Node -> [Level -> Node \union {Null, Uninit}]]
  /\ ownHeight \in 1 .. MaxHeight
  /\ \A s \in pending :
       /\ s.t \in 0 .. clock - 1
       /\ \/ \E n \in Node, l \in Level, v \in Node \union {Null} :
               s \in {setNext(s.t, n, l, v), noBarrierSetNext(s.t, n, l, v)}
          \/ \E n \in Keys : s = storeKey(s.t, n)
          \/ \E h \in 1 .. MaxHeight : s = storeMaxHeight(s.t, h)
  /\ prev \in [Level -> Node \union {Uninit}]
  /\ height \in 1 .. MaxHeight
  /\ pc \in [Threads -> Searching \union {"idle", "newNode", "link"}]
  /\ x \in [Threads -> Node]
  /\ level \in [Threads -> Level]
  /\ key \in [Threads -> Keys \union {Null}]
  /\ node_ \in [Readers -> Keys \union {Null}]
  /\ found \in [Readers -> BOOLEAN]

\* The constructor: head_ has all its links, all of them nullptr, and the list
\* is handed to the other threads after it is built.
Init ==
  /\ nexts_ = [n \in Node |-> [l \in Level |-> IF n = Head THEN Null ELSE Uninit]]
  /\ keyed = {Head}
  /\ max_height_ = 1
  /\ linked = [l \in Level |-> {}]
  /\ pending = {}
  /\ clock = 0
  /\ own = nexts_
  /\ ownHeight = 1
  /\ prev = [l \in Level |-> Uninit]
  /\ height = 1
  /\ pc = [p \in Threads |-> "idle"]
  /\ x = [p \in Threads |-> Head]
  /\ level = [p \in Threads |-> 0]
  /\ key = [p \in Threads |-> Null]
  /\ node_ = [r \in Readers |-> Null]
  /\ found = [r \in Readers |-> FALSE]

-----------------------------------------------------------------------------
(* The searches.                                                           *)

\* All three start at head_ on the highest level the thread knows of.
Call(p, op, k) ==
  /\ pc[p] = "idle"
  /\ pc' = [pc EXCEPT ![p] = op]
  /\ x' = [x EXCEPT ![p] = Head]
  /\ level' = [level EXCEPT ![p] = getMaxHeight(p) - 1]
  /\ key' = [key EXCEPT ![p] = k]

\* The link a search reads in its next iteration.
NextOf(p) == Load(p, x[p], level[p])

\* Does the search follow that link?  findLast runs to the end of the level;
\* findGreateOrEqual and findLessThan stop before the first node >= key.
Follows(p) ==
  IF pc[p] = "seekToLast" THEN NextOf(p) # Null
                          ELSE keyIsAfterNode(key[p], NextOf(p))

Advance(p) ==
  /\ pc[p] \in Searching /\ Follows(p)
  /\ x' = [x EXCEPT ![p] = NextOf(p)]
  /\ UNCHANGED <<memory, stores, locals, pc, level, key, results>>

\* insert passes its prev array to findGreateOrEqual; the others pass nullptr.
RecordPrev(p) ==
  prev' = IF p = Writer THEN [prev EXCEPT ![level[p]] = x[p]] ELSE prev

\* Variant with a defect: the search forgets to change level.
Descend_SameLevel(p) ==
  /\ pc[p] \in Searching /\ ~Follows(p) /\ level[p] > 0
  /\ RecordPrev(p)
  /\ UNCHANGED <<memory, stores, height, pc, x, level, key, results>>

Descend(p) ==
  /\ pc[p] \in Searching /\ ~Follows(p) /\ level[p] > 0
  /\ RecordPrev(p)
  /\ level' = [level EXCEPT ![p] = @ - 1]
  /\ UNCHANGED <<memory, stores, height, pc, x, key, results>>

Bottom(p) == pc[p] \in Searching /\ ~Follows(p) /\ level[p] = 0

\* A thread that leaves an operation forgets its locals.
Leave(p) ==
  /\ pc' = [pc EXCEPT ![p] = "idle"]
  /\ x' = [x EXCEPT ![p] = Head]
  /\ level' = [level EXCEPT ![p] = 0]
  /\ key' = [key EXCEPT ![p] = Null]

\* Variant with a defect: contains does not compare the keys.
SearchReturns_NoEqual(r) ==
  /\ Bottom(r)
  /\ LET last == IF x[r] = Head THEN Null ELSE x[r]
     IN  /\ node_' = [node_ EXCEPT ![r] =
              CASE pc[r] = "seek"                     -> NextOf(r)
                [] pc[r] \in {"prev", "seekToLast"}   -> last
                [] pc[r] = "contains"                 -> @]
         /\ found' = IF pc[r] = "contains"
                       THEN [found EXCEPT ![r] = NextOf(r) # Null]
                       ELSE found
  /\ Leave(r)
  /\ UNCHANGED <<memory, stores, locals>>

\* Variant with a defect: seek stops on the node before.
SearchReturns_SeekBefore(r) ==
  /\ Bottom(r)
  /\ LET last == IF x[r] = Head THEN Null ELSE x[r]
     IN  /\ node_' = [node_ EXCEPT ![r] = IF pc[r] = "contains" THEN @ ELSE last]
         /\ found' = IF pc[r] = "contains"
                       THEN [found EXCEPT ![r] = NextOf(r) = key[r]]
                       ELSE found
  /\ Leave(r)
  /\ UNCHANGED <<memory, stores, locals>>

\* contains, seek, prev and seekToLast return; head_ is reported as nullptr.
SearchReturns(r) ==
  /\ Bottom(r)
  /\ LET last == IF x[r] = Head THEN Null ELSE x[r]
     IN  /\ node_' = [node_ EXCEPT ![r] =
              CASE pc[r] = "seek"                     -> NextOf(r)
                [] pc[r] \in {"prev", "seekToLast"}   -> last
                [] pc[r] = "contains"                 -> @]
         /\ found' = IF pc[r] = "contains"
                       THEN [found EXCEPT ![r] = NextOf(r) = key[r]]
                       ELSE found
  /\ Leave(r)
  /\ UNCHANGED <<memory, stores, locals>>

-----------------------------------------------------------------------------
(* The readers' operations.                                                *)

contains(r, k) ==
  Call(r, "contains", k) /\ UNCHANGED <<memory, stores, locals, results>>

IteratorSeek(r, k) ==
  Call(r, "seek", k) /\ UNCHANGED <<memory, stores, locals, results>>

IteratorSeekToLast(r) ==
  Call(r, "seekToLast", Null) /\ UNCHANGED <<memory, stores, locals, results>>

\* next() and prev() require a valid iterator.
IteratorPrev(r) ==
  /\ node_[r] # Null
  /\ Call(r, "prev", node_[r])
  /\ UNCHANGED <<memory, stores, locals, results>>

IteratorNext(r) ==
  /\ pc[r] = "idle" /\ node_[r] # Null
  /\ node_' = [node_ EXCEPT ![r] = Load(r, node_[r], 0)]
  /\ UNCHANGED <<memory, stores, locals, search, found>>

IteratorSeekToFirst(r) ==
  /\ pc[r] = "idle"
  /\ node_' = [node_ EXCEPT ![r] = Load(r, Head, 0)]
  /\ UNCHANGED <<memory, stores, locals, search, found>>

-----------------------------------------------------------------------------
(* The writer's operation.                                                 *)

\* insert(k): the caller never inserts a key twice.
insert(k) ==
  /\ own[k][0] = Uninit
  /\ Call(Writer, "insert", k)
  /\ UNCHANGED <<memory, stores, locals, results>>

LeaveInsert ==
  /\ Leave(Writer)
  /\ prev' = [l \in Level |-> Uninit]
  /\ height' = 1

\* findGreateOrEqual returns to insert.
InsertFound ==
  /\ Bottom(Writer)
  /\ RecordPrev(Writer)
  /\ pc' = [pc EXCEPT ![Writer] = "newNode"]
  /\ UNCHANGED <<memory, stores, height, x, level, key, results>>

Room(n) == Cardinality(pending) + n <= MaxPending

\* Variant with a defect: randomHeight's loop runs once too often.
newNode_TooHigh(h) ==
  /\ pc[Writer] = "newNode" /\ Room(2)
  /\ height' = h + 1
  /\ pc' = [pc EXCEPT ![Writer] = "link"]
  /\ UNCHANGED <<memory, stores, prev, x, level, key, results>>

\* randomHeight has chosen h: the stores that raise max_height_, if any.
Raise(h) == IF h > ownHeight THEN {storeMaxHeight(clock, h)} ELSE {}

\* The levels the list did not have so far get head_ as predecessor; the node
\* is built.
newNode(h) ==
  /\ pc[Writer] = "newNode" /\ Room(2)
  /\ height' = h
  /\ prev' = [l \in Level |-> IF l \in ownHeight .. h - 1 THEN Head ELSE prev[l]]
  /\ ownHeight' = IF h > ownHeight THEN h ELSE ownHeight
  /\ clock' = clock + Cardinality(Raise(h)) + 1
  /\ pending' = pending \union Raise(h) \union {storeKey(clock' - 1, key[Writer])}
  /\ pc' = [pc EXCEPT ![Writer] = "link"]
  /\ level' = [level EXCEPT ![Writer] = 0]
  /\ UNCHANGED <<memory, own, x, key, results>>

\* The arena throws: the height has been stored, the caller gets the exception
\* and may insert the key again.
newNodeThrows(h) ==
  /\ pc[Writer] = "newNode" /\ Room(1)
  /\ ownHeight' = IF h > ownHeight THEN h ELSE ownHeight
  /\ clock' = clock + Cardinality(Raise(h))
  /\ pending' = pending \union Raise(h)
  /\ LeaveInsert
  /\ UNCHANGED <<memory, own, results>>

\* Variant with a defect: the levels are linked from the top down.
LinkLevel_TopDown(i) ==
  LET n    == key[Writer]
      l    == height - 1 - i
      succ == own[prev[l]][l]
  IN  /\ pending' = pending \union {noBarrierSetNext(clock, n, l, succ),
                                    setNext(clock + 1, prev[l], l, n)}
      /\ own' = [own EXCEPT ![n][l] = succ, ![prev[l]][l] = n]
      /\ clock' = clock + 2

\* One iteration of insert's last loop, on level i.
LinkLevel(i) ==
  LET n    == key[Writer]
      succ == own[prev[i]][i]
  IN  /\ pending' = pending \union {noBarrierSetNext(clock, n, i, succ),
                                    setNext(clock + 1, prev[i], i, n)}
      /\ own' = [own EXCEPT ![n][i] = succ, ![prev[i]][i] = n]
      /\ clock' = clock + 2

\* Variant with a defect: the loop stops below the top level.
Link_SkipsTop ==
  /\ pc[Writer] = "link" /\ Room(2)
  /\ LinkLevel(level[Writer])
  /\ IF level[Writer] + 2 < height
       THEN /\ level' = [level EXCEPT ![Writer] = @ + 1]
            /\ UNCHANGED <<pc, x, key, locals>>
       ELSE LeaveInsert
  /\ UNCHANGED <<memory, ownHeight, results>>

Link ==
  /\ pc[Writer] = "link" /\ Room(2)
  /\ LinkLevel(level[Writer])
  /\ IF level[Writer] + 1 < height
       THEN /\ level' = [level EXCEPT ![Writer] = @ + 1]
            /\ UNCHANGED <<pc, x, key, locals>>
       ELSE LeaveInsert
  /\ UNCHANGED <<memory, ownHeight, results>>

-----------------------------------------------------------------------------
(* Memory.                                                                 *)

SameCell(s, e) == s.kind = e.kind /\ s.node = e.node /\ s.level = e.level

\* Variant with a defect: setNext stores with memory_order_relaxed.
MayCommit_Relaxed(s) == \A e \in pending \ {s} : SameCell(s, e) => s.t < e.t

\* Coherence, and memory_order_release.
MayCommit(s) ==
  \A e \in pending \ {s} : s.rel \/ SameCell(s, e) => s.t < e.t

\* A store becomes visible to the readers.
Commit(s) ==
  /\ MayCommit(s)
  /\ pending' = pending \ {s}
  /\ nexts_' = IF s.kind = "nexts_"
                 THEN [nexts_ EXCEPT ![s.node][s.level] = s.val] ELSE nexts_
  /\ keyed' = IF s.kind = "key" THEN keyed \union {s.node} ELSE keyed
  /\ max_height_' = IF s.kind = "max_height_" THEN s.val ELSE max_height_
  /\ linked' = IF s.kind = "nexts_" /\ s.rel
                 THEN [linked EXCEPT ![s.level] = @ \union {s.val}] ELSE linked
  /\ UNCHANGED <<clock, own, ownHeight, locals, search, results>>

-----------------------------------------------------------------------------
ReaderNext(r) ==
  \/ \E k \in Keys : contains(r, k) \/ IteratorSeek(r, k)
  \/ IteratorSeekToLast(r) \/ IteratorPrev(r)
  \/ IteratorNext(r) \/ IteratorSeekToFirst(r)
  \/ SearchReturns(r)

WriterNext ==
  \/ \E k \in Keys : insert(k)
  \/ InsertFound
  \/ \E h \in 1 .. MaxHeight : newNode(h) \/ newNodeThrows(h)
  \/ Link

Next ==
  \/ \E p \in Threads : Advance(p) \/ Descend(p)
  \/ \E r \in Readers : ReaderNext(r)
  \/ WriterNext
  \/ \E s \in pending : Commit(s)

Spec == Init /\ [][Next]_vars

\* A thread inside an operation keeps running, and a store reaches the readers
\* in finite time.  Nobody has to start an operation.
Steps(p) ==
  \/ Advance(p) \/ Descend(p)
  \/ p \in Readers /\ SearchReturns(p)
  \/ /\ p = Writer
     /\ InsertFound \/ Link \/ \E h \in 1 .. MaxHeight : newNode(h) \/ newNodeThrows(h)

Fairness ==
  /\ \A p \in Threads : WF_vars(Steps(p))
  /\ WF_vars(\E s \in pending : Commit(s))

FairSpec == Spec /\ Fairness

-----------------------------------------------------------------------------
(* Properties.                                                             *)

\* No thread follows an uninitialised link, compares an unwritten key or uses
\* an entry of prev[] that insert never set, whatever the order in which
\* insert's stores reach the readers: the links of a node are filled bottom up
\* and each release store publishes a finished node (lines 118-123, 70-88).
SafeReads ==
  /\ \A p \in Threads : pc[p] \in Searching => NextOf(p) # Uninit
  /\ \A r \in Readers : pc[r] \in Searching =>
       NextOf(r) \in keyed \union {Null}
  /\ \A r \in Readers : node_[r] # Null =>
       /\ node_[r] \in keyed
       /\ nexts_[node_[r]][0] # Uninit
  /\ pc[Writer] = "link" => prev[level[Writer]] # Uninit

\* What the readers see at every level is a sorted list of exactly the nodes
\* published there, and a node published on a level is published on all the
\* levels below, also between the two stores of one level and between levels
\* of an insert (lines 120-123).
LevelLists ==
  \A l \in Level :
    /\ l > 0 => linked[l] \subseteq linked[l - 1]
    /\ \A n \in linked[l] \union {Head} :
         LET after == IF n = Head THEN linked[l] ELSE {k \in linked[l] : k > n}
             m     == nexts_[n][l]
         IN  IF after = {} THEN m = Null
                           ELSE m \in after /\ \A k \in after : m <= k

\* The code's own assertions: insert never finds its key in the list (line
\* 108), and findLessThan only stands on nodes before its key (line 196).
Assertions ==
  /\ pc[Writer] = "insert" /\ Bottom(Writer) => NextOf(Writer) # key[Writer]
  /\ \A r \in Readers : pc[r] = "prev" => x[r] = Head \/ x[r] < key[r]

\* The skip list implements the ordered set: every contains, seek, prev and
\* seekToLast returns what is right for the published keys at one instant
\* during the call, although it crosses the list while it changes.
Abstract == INSTANCE OrderedSet WITH
  set   <- linked[0],
  node  <- node_,
  op    <- [r \in Readers |-> pc[r]],
  key   <- [r \in Readers |-> key[r]]

Linearizable == Abstract!Spec

\* Every operation ends: no search runs round in the list while it changes
\* (the while (true) loops of lines 174, 195 and 216 have no other way out).
OperationsEnd == \A p \in Threads : pc[p] # "idle" ~> pc[p] = "idle"

\* The node an insert builds is published on each of its levels (line 120).
InsertsVisible ==
  \A k \in Keys, l \in Level :
    (pc[Writer] = "link" /\ key[Writer] = k /\ l < height) ~> (k \in linked[l])
=============================================================================
