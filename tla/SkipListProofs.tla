--------------------------- MODULE SkipListProofs ---------------------------
(***************************************************************************)
(* The skip list is safe for any set of keys, any height, any number of    *)
(* readers and any number of pending stores: its reads are safe, what the  *)
(* readers see at every level is a sorted list, and it implements the      *)
(* ordered set.                                                            *)
(*                                                                         *)
(* The inductive invariant describes what the readers will see at the time *)
(* each pending store becomes visible: the keys published until then.      *)
(***************************************************************************)
EXTENDS MCSkipListScan, FiniteSetTheorems, TLAPS

USE KeysAssumption, HeightAssumption, ThreadAssumption, PointerAssumption

-----------------------------------------------------------------------------
(* Sorted lists with head_ in front.                                       *)

Before(n, k) == n = Head \/ n < k

\* m is what node n links to in the list of the keys in S.
IsNext(m, n, S) ==
  IF m = Null THEN \A j \in S : ~Before(n, j)
              ELSE m \in S /\ Before(n, m) /\ \A j \in S : Before(n, j) => m <= j

\* p is the node after which k belongs in the list of the keys in S.
IsPred(p, k, S) ==
  /\ p \in S \union {Head}
  /\ Before(p, k)
  /\ \A j \in S : j < k => ~Before(p, j)

\* A key goes between its predecessor and what that links to.
LEMMA NextOfKey ==
  ASSUME NEW S, S \subseteq Keys, NEW k \in Keys, NEW p, IsPred(p, k, S), k \notin S,
         NEW m, IsNext(m, p, S)
  PROVE  IsNext(m, k, S)
<1>1. S \subseteq Int /\ k \in Int /\ k # Head /\ Head \notin S
  OBVIOUS
<1>2. ASSUME NEW j \in S PROVE Before(k, j) <=> Before(p, j)
  BY <1>1, <1>2 DEF IsPred, Before
<1> QED BY <1>2 DEF IsNext

\* Linking k after its predecessor p makes a list of S and k.
LEMMA Splice ==
  ASSUME NEW S, S \subseteq Keys, NEW k \in Keys, NEW p, IsPred(p, k, S), k \notin S
  PROVE  /\ IsNext(k, p, S \union {k})
         /\ \A m : IsNext(m, k, S) => IsNext(m, k, S \union {k})
         /\ \A m, n : n \in S \union {Head} /\ n # p /\ IsNext(m, n, S)
                        => IsNext(m, n, S \union {k})
<1>1. k # Null /\ k # Head /\ Head \notin S /\ Null \notin S /\ k \in Int /\ S \subseteq Int
  OBVIOUS
<1>2. IsNext(k, p, S \union {k})
  BY <1>1 DEF IsNext, IsPred, Before
<1>3. ASSUME NEW m, IsNext(m, k, S) PROVE IsNext(m, k, S \union {k})
  BY <1>1, <1>3 DEF IsNext, Before
<1>4. ASSUME NEW m, NEW n, n \in S \union {Head}, n # p, IsNext(m, n, S)
      PROVE  IsNext(m, n, S \union {k})
  <2>1. CASE n = Head
    <3>1. p \in S /\ p < k /\ Before(n, p)
      BY <1>1, <1>4, <2>1 DEF IsPred, Before
    <3>2. m \in S /\ m <= p
      BY <1>4, <3>1 DEF IsNext
    <3>3. m \in Int /\ m <= k
      BY <1>1, <3>1, <3>2
    <3> QED BY <1>1, <1>4, <2>1, <3>3 DEF IsNext, Before
  <2>2. CASE n \in S /\ n < k
    <3>1. p \in S /\ p < k /\ Before(n, p)
      BY <1>1, <1>4, <2>2 DEF IsPred, Before
    <3>2. m \in S /\ m <= p
      BY <1>4, <3>1 DEF IsNext
    <3>3. m \in Int /\ m <= k
      BY <1>1, <3>1, <3>2
    <3> QED BY <1>1, <1>4, <3>3 DEF IsNext
  <2>3. CASE n \in S /\ k < n
    BY <1>1, <1>4, <2>3 DEF IsNext, IsPred, Before
  <2> QED BY <1>1, <1>4, <2>1, <2>2, <2>3
<1> QED BY <1>2, <1>3, <1>4

\* A search that stops before k on node n has found the predecessor of k.
LEMMA StopsAtPred ==
  ASSUME NEW S, S \subseteq Keys, NEW k \in Keys, NEW n \in S \union {Head}, Before(n, k),
         NEW m, IsNext(m, n, S), ~keyIsAfterNode(k, m)
  PROVE  IsPred(n, k, S)
<1>1. S \subseteq Int /\ k \in Int /\ Head \notin S
  OBVIOUS
<1>2. ASSUME NEW j \in S, j < k PROVE ~Before(n, j)
  <2>1. CASE m = Null
    BY <2>1 DEF IsNext
  <2>2. CASE m # Null
    <3>1. m \in S /\ \A i \in S : Before(n, i) => m <= i
      BY <2>2 DEF IsNext
    <3>2. m \in Int /\ k <= m
      BY <1>1, <2>2, <3>1 DEF keyIsAfterNode
    <3> QED BY <1>1, <1>2, <3>1, <3>2
  <2> QED BY <2>1, <2>2
<1> QED BY <1>2 DEF IsPred

\* A link of a list leads to a later node of the list, or nowhere.
LEMMA NextInList ==
  ASSUME NEW S, S \subseteq Keys, NEW n, NEW m, IsNext(m, n, S)
  PROVE  m \in S \union {Null} /\ m # Uninit /\ m # Head
  BY DEF IsNext
-----------------------------------------------------------------------------
(* The inductive invariant.                                                *)

\* The store that publishes a node on a level, and the one that fills its link.
IsRelease(s) == s.kind = "nexts_" /\ s.rel
IsFill(s)    == s.kind = "nexts_" /\ ~s.rel

\* The keys published on level l once the release stores before time t are
\* visible; and once all of them are, which is what the writer sees.
Sent(t, l) ==
  {k \in Keys : \/ k \in linked[l]
                \/ \E s \in pending : IsRelease(s) /\ s.level = l /\ s.t < t /\ s.val = k}
Issued(l) == Sent(clock, l)

\* The readers' view.
ReadersList ==
  \A l \in Level :
    /\ \A m \in Level : m < l => linked[l] \subseteq linked[m]
    /\ linked[l] \subseteq keyed
    /\ \A n \in linked[l] \union {Head} : IsNext(nexts_[n][l], n, linked[l])

\* When release store s is the next to become visible, the node it publishes
\* is finished and belongs where it is linked.
Ready(s) ==
  /\ s.val \in Keys
  /\ s.val \notin Sent(s.t, s.level)
  /\ IsPred(s.node, s.val, Sent(s.t, s.level))
  /\ \A m \in Level : m < s.level => s.val \in Sent(s.t, m)
  /\ \/ s.val \in keyed
     \/ \E e \in pending : e.kind = "key" /\ e.node = s.val /\ e.t < s.t
  /\ \/ IsNext(nexts_[s.val][s.level], s.val, Sent(s.t, s.level))
     \/ \E e \in pending : IsFill(e) /\ e.node = s.val /\ e.level = s.level

\* A pending store to a link of an unpublished node is followed by the store
\* that publishes it.
Awaited(e) ==
  \E s \in pending :
    /\ IsRelease(s) /\ s.val = e.node /\ s.level = e.level /\ e.t < s.t
    /\ IsNext(e.val, e.node, Sent(s.t, s.level))

StoresOrdered ==
  /\ \A s, e \in pending : s.t = e.t => s = e
  /\ \A s \in pending : IsRelease(s) => Ready(s)
  /\ \A s \in pending : IsFill(s) => Awaited(s)

\* The writer's view.
WriterList ==
  \A l \in Level :
    /\ l >= ownHeight => Issued(l) = {}
    /\ \A n \in Node : IF n \in Issued(l) \union {Head}
                         THEN IsNext(own[n][l], n, Issued(l))
                         ELSE own[n][l] = Uninit

\* The readers' searches.
ReaderPlace ==
  \A r \in Readers :
    /\ pc[r] \in Searching \union {"idle"} /\ pc[r] # "insert"
    /\ pc[r] \in Searching => x[r] \in linked[level[r]] \union {Head}
    /\ pc[r] \in Searching \ {"seekToLast"} => key[r] \in Keys /\ Before(x[r], key[r])
    /\ node_[r] # Null => node_[r] \in linked[0]

\* The writer's insert.
WriterPlace ==
  LET k == key[Writer]
  IN  /\ pc[Writer] \in {"idle", "insert", "newNode", "link"}
      /\ pc[Writer] # "idle" => k \in Keys
      /\ pc[Writer] \in {"insert", "newNode"} => k \notin Issued(0)
      /\ pc[Writer] = "insert" =>
           /\ level[Writer] < ownHeight
           /\ x[Writer] \in Issued(level[Writer]) \union {Head}
           /\ Before(x[Writer], k)
           /\ \A l \in Level : level[Writer] < l /\ l < ownHeight => IsPred(prev[l], k, Issued(l))
      /\ pc[Writer] = "newNode" =>
           \A l \in Level : l < ownHeight => IsPred(prev[l], k, Issued(l))
      /\ pc[Writer] = "link" =>
           /\ height <= ownHeight /\ level[Writer] < height
           /\ \A l \in Level : l < level[Writer] => k \in Issued(l)
           /\ \A l \in Level : level[Writer] <= l => k \notin Issued(l)
           /\ \A l \in Level : level[Writer] <= l /\ l < height => IsPred(prev[l], k, Issued(l))
           /\ k \in keyed \/ \E e \in pending : e.kind = "key" /\ e.node = k

IInv ==
  /\ TypeOK
  /\ ReadersList /\ StoresOrdered /\ WriterList
  /\ ReaderPlace /\ WriterPlace

-----------------------------------------------------------------------------
(* What the invariant says of stores, of the levels and of searches.       *)

\* What a pending store holds.
LEMMA StoreFields ==
  ASSUME TypeOK, NEW s \in pending
  PROVE  /\ s.t \in Nat /\ s.t < clock /\ clock \in Nat
         /\ s.kind \in {"nexts_", "key", "max_height_"}
         /\ s.kind = "nexts_" =>
              s.node \in Node /\ s.level \in Level /\ s.val \in Node \union {Null}
         /\ s.kind = "key" => s.node \in Keys /\ ~s.rel
         /\ s.kind = "max_height_" => s.val \in 1 .. MaxHeight /\ ~s.rel
<1>1. s.t \in 0 .. clock - 1 /\ clock \in Nat
  BY DEF TypeOK
<1>2. CASE \E n \in Node, l \in Level, v \in Node \union {Null} :
             s \in {setNext(s.t, n, l, v), noBarrierSetNext(s.t, n, l, v)}
  <2>1. PICK n \in Node, l \in Level, v \in Node \union {Null} :
          s = Store(s.t, "nexts_", n, l, v, TRUE) \/ s = Store(s.t, "nexts_", n, l, v, FALSE)
    BY <1>2 DEF setNext, noBarrierSetNext
  <2>2. s.kind = "nexts_" /\ s.node = n /\ s.level = l /\ s.val = v
    BY <2>1 DEF Store
  <2> QED BY <1>1, <2>2
<1>3. CASE \E n \in Keys : s = storeKey(s.t, n)
  BY <1>1, <1>3 DEF storeKey, Store
<1>4. CASE \E h \in 1 .. MaxHeight : s = storeMaxHeight(s.t, h)
  BY <1>1, <1>4 DEF storeMaxHeight, Store
<1> QED BY <1>2, <1>3, <1>4 DEF TypeOK

\* The later the time, the more keys are published.
LEMMA SentGrows ==
  ASSUME TypeOK, NEW l \in Level, NEW t \in Nat, NEW u \in Nat, t <= u
  PROVE  linked[l] \subseteq Sent(t, l) /\ Sent(t, l) \subseteq Sent(u, l) /\ Sent(t, l) \subseteq Keys
<1>1. \A s \in pending : s.t \in Nat
  BY StoreFields
<1>2. linked[l] \subseteq Keys
  BY DEF TypeOK
<1> QED BY <1>1, <1>2 DEF Sent

\* The writer's levels are nested.
LEMMA IssuedNested ==
  ASSUME IInv, NEW l \in Level, NEW m \in Level, m <= l
  PROVE  Issued(l) \subseteq Issued(m)
<1>1. SUFFICES ASSUME m < l, NEW k \in Issued(l) PROVE k \in Issued(m)
  BY DEF Level
<1>2. TypeOK /\ clock \in Nat
  BY DEF IInv, TypeOK
<1>3. CASE k \in linked[l]
  BY <1>1, <1>2, <1>3, SentGrows DEF IInv, ReadersList, Issued
<1>4. CASE k \notin linked[l]
  <2>1. PICK s \in pending : IsRelease(s) /\ s.level = l /\ s.val = k
    BY <1>1, <1>4 DEF Issued, Sent
  <2>2. k \in Sent(s.t, m)
    BY <1>1, <2>1 DEF IInv, StoresOrdered, Ready
  <2>3. s.t \in Nat /\ s.t <= clock
    BY <1>2, StoreFields
  <2> QED BY <1>2, <2>2, <2>3, SentGrows DEF Issued
<1> QED BY <1>3, <1>4

\* The list a thread searches on its level.
View(p) == IF p = Writer THEN Issued(level[p]) ELSE linked[level[p]]

\* Where a search stands, whichever thread searches: on a node of the level
\* that the thread sees, before the key it looks for.
LEMMA Place ==
  ASSUME IInv, NEW p \in Threads, pc[p] \in Searching
  PROVE  /\ View(p) \subseteq Keys
         /\ x[p] \in View(p) \union {Head}
         /\ IsNext(NextOf(p), x[p], View(p))
         /\ pc[p] # "seekToLast" => key[p] \in Keys /\ Before(x[p], key[p])
         /\ p = Writer <=> pc[p] = "insert"
<1>1. level[p] \in Level /\ TypeOK /\ clock \in Nat
  BY DEF IInv, TypeOK
<1>2. CASE p = Writer
  <2>1. pc[p] = "insert" /\ x[p] \in Issued(level[p]) \union {Head}
        /\ key[p] \in Keys /\ Before(x[p], key[p])
    BY <1>2 DEF IInv, WriterPlace, Searching
  <2>2. Issued(level[p]) \subseteq Keys
    BY DEF Issued, Sent
  <2>3. IsNext(own[x[p]][level[p]], x[p], Issued(level[p]))
    BY <1>1, <2>1, <2>2 DEF IInv, WriterList, Node
  <2> QED BY <1>2, <2>1, <2>2, <2>3 DEF View, NextOf, Load
<1>3. CASE p # Writer
  <2>1. p \in Readers
    BY <1>3 DEF Threads
  <2>2. /\ x[p] \in linked[level[p]] \union {Head}
        /\ pc[p] # "seekToLast" => key[p] \in Keys /\ Before(x[p], key[p])
        /\ pc[p] # "insert"
    BY <2>1 DEF IInv, ReaderPlace
  <2>3. IsNext(nexts_[x[p]][level[p]], x[p], linked[level[p]])
    BY <1>1, <2>2 DEF IInv, ReadersList
  <2>4. linked[level[p]] \subseteq Keys
    BY <1>1 DEF TypeOK
  <2> QED BY <1>3, <2>2, <2>3, <2>4 DEF View, NextOf, Load
<1> QED BY <1>2, <1>3

\* Following a link leads to a node of the same list, before the searched key.
LEMMA PlaceNext ==
  ASSUME IInv, NEW p \in Threads, pc[p] \in Searching, Follows(p)
  PROVE  /\ NextOf(p) \in View(p)
         /\ pc[p] # "seekToLast" => Before(NextOf(p), key[p])
<1>1. NextOf(p) # Null /\ (pc[p] # "seekToLast" => Before(NextOf(p), key[p]))
  BY DEF Follows, keyIsAfterNode, Before
<1> QED BY <1>1, Place DEF IsNext

-----------------------------------------------------------------------------
(* What a step leaves alone.                                               *)

\* A step that touches neither memory nor stores leaves the lists alone.
LEMMA MemoryStays ==
  ASSUME IInv, UNCHANGED <<memory, stores>>
  PROVE  /\ (ReadersList /\ StoresOrdered /\ WriterList)'
         /\ \A l \in Level : Issued(l)' = Issued(l)
<1>1. \A t, l : Sent(t, l)' = Sent(t, l)
  BY DEF memory, stores, Sent
<1>2. \A l \in Level : Issued(l)' = Issued(l)
  BY <1>1 DEF stores, Issued
<1>3. ReadersList'
  BY DEF IInv, memory, ReadersList
<1>4. StoresOrdered'
  <2>1. UNCHANGED <<nexts_, keyed, pending>>
    BY DEF memory, stores
  <2>2. ASSUME NEW s \in pending, Ready(s) PROVE Ready(s)'
    BY <1>1, <2>1, <2>2 DEF Ready
  <2>3. ASSUME NEW s \in pending, Awaited(s) PROVE Awaited(s)'
    BY <1>1, <2>1, <2>3 DEF Awaited
  <2> QED BY <2>1, <2>2, <2>3 DEF IInv, StoresOrdered
<1>5. WriterList'
  BY <1>2 DEF IInv, stores, WriterList
<1> QED BY <1>2, <1>3, <1>4, <1>5

\* A step of somebody else leaves the readers where they are.
LEMMA ReadersStay ==
  ASSUME IInv, UNCHANGED node_,
         \A r \in Readers : /\ pc'[r] = pc[r] /\ x'[r] = x[r]
                            /\ level'[r] = level[r] /\ key'[r] = key[r],
         \A l \in Level : linked[l] \subseteq linked'[l]
  PROVE  ReaderPlace'
<1>1. \A r \in Readers : level[r] \in Level /\ 0 \in Level
  BY DEF IInv, TypeOK, Threads, Level
<1> QED BY <1>1 DEF IInv, ReaderPlace

\* A step of somebody else leaves the writer where it is.
LEMMA WriterStays ==
  ASSUME IInv, UNCHANGED <<locals, ownHeight>>,
         pc'[Writer] = pc[Writer], x'[Writer] = x[Writer],
         level'[Writer] = level[Writer], key'[Writer] = key[Writer],
         \A l \in Level : Issued(l)' = Issued(l),
         keyed \subseteq keyed',
         \A e \in pending : e.kind = "key" => e \in pending' \/ e.node \in keyed'
  PROVE  WriterPlace'
<1>1. level[Writer] \in Level /\ 0 \in Level
  BY DEF IInv, TypeOK, Threads, Level
<1> QED BY <1>1 DEF IInv, WriterPlace, locals

-----------------------------------------------------------------------------
(* The initial state.                                                      *)

\* The empty list.
LEMMA InitIInv == Init => IInv
<1> SUFFICES ASSUME Init PROVE IInv
  OBVIOUS
<1>1. TypeOK
  BY DEF Init, TypeOK, Node, Level, Searching
<1>2. \A t, l : l \in Level => Sent(t, l) = {}
  BY DEF Init, Sent
<1>3. \A l \in Level : Issued(l) = {} /\ linked[l] = {}
  BY <1>2 DEF Issued, Init
<1>4. ReadersList
  BY <1>3 DEF Init, ReadersList, IsNext, Node
<1>5. StoresOrdered
  BY DEF Init, StoresOrdered
<1>6. WriterList
  BY <1>3 DEF Init, WriterList, IsNext, Node
<1>7. ReaderPlace /\ WriterPlace
  BY DEF Init, ReaderPlace, WriterPlace, Threads, Searching
<1> QED BY <1>1, <1>4, <1>5, <1>6, <1>7 DEF IInv

-----------------------------------------------------------------------------
(* The searches.                                                           *)

\* A search follows a link.
LEMMA AdvanceStep ==
  ASSUME IInv, NEW p \in Threads, Advance(p)
  PROVE  IInv'
<1>1. /\ pc[p] \in Searching /\ Follows(p)
      /\ x' = [x EXCEPT ![p] = NextOf(p)]
      /\ UNCHANGED <<memory, stores, locals, pc, level, key, results>>
  BY DEF Advance
<1>2. UNCHANGED <<nexts_, keyed, max_height_, linked, pending, clock, own, ownHeight,
                  prev, height, pc, level, key, node_, found>>
  BY <1>1 DEF memory, stores, locals, results
<1>3. NextOf(p) \in View(p) /\ (pc[p] # "seekToLast" => Before(NextOf(p), key[p]))
  BY <1>1, PlaceNext
<1>4. View(p) \subseteq Keys
  BY <1>1, Place
<1>5. TypeOK'
  BY <1>1, <1>2, <1>3, <1>4 DEF IInv, TypeOK, Node
<1>6. (ReadersList /\ StoresOrdered /\ WriterList)' /\ \A l \in Level : Issued(l)' = Issued(l)
  BY <1>1, MemoryStays
<1>7. x \in [Threads -> Node] /\ Writer \in Threads /\ Readers \subseteq Threads
      /\ level[Writer] \in Level
  BY DEF IInv, TypeOK, Threads
<1>8. CASE p = Writer
  <2>1. ReaderPlace'
    BY <1>1, <1>2, <1>7, <1>8, ReadersStay
  <2>2. pc[Writer] = "insert" /\ x'[Writer] = NextOf(Writer)
    BY <1>1, <1>7, <1>8, Place
  <2>3. x'[Writer] \in Issued(level[Writer]) /\ Before(x'[Writer], key[Writer])
    BY <1>3, <1>8, <2>2 DEF View
  <2>4. /\ key[Writer] \in Keys /\ key[Writer] \notin Issued(0) /\ level[Writer] < ownHeight
        /\ \A l \in Level : level[Writer] < l /\ l < ownHeight => IsPred(prev[l], key[Writer], Issued(l))
    BY <2>2 DEF IInv, WriterPlace
  <2>5. 0 \in Level
    BY DEF Level
  <2>6. WriterPlace'
    BY <1>2, <1>6, <1>7, <2>2, <2>3, <2>4, <2>5 DEF WriterPlace
  <2> QED BY <1>5, <1>6, <2>1, <2>6 DEF IInv
<1>9. CASE p # Writer
  <2>1. WriterPlace'
    BY <1>1, <1>2, <1>6, <1>7, <1>9, WriterStays
  <2>2. ReaderPlace'
    BY <1>1, <1>2, <1>3, <1>7, <1>9 DEF IInv, ReaderPlace, View
  <2> QED BY <1>5, <1>6, <2>1, <2>2 DEF IInv
<1> QED BY <1>8, <1>9

\* A search that stops on a level stands on the predecessor of its key.
LEMMA WriterStops ==
  ASSUME IInv, pc[Writer] \in Searching, ~Follows(Writer)
  PROVE  IsPred(x[Writer], key[Writer], Issued(level[Writer]))
<1>1. Writer \in Threads
  BY DEF Threads
<1>2. pc[Writer] = "insert" /\ key[Writer] \in Keys /\ Before(x[Writer], key[Writer])
  BY <1>1, Place
<1>3. ~keyIsAfterNode(key[Writer], NextOf(Writer))
  BY <1>2 DEF Follows
<1>4. View(Writer) = Issued(level[Writer])
  BY DEF View
<1> QED BY <1>1, <1>2, <1>3, <1>4, Place, StopsAtPred

\* A search goes down a level; the writer remembers where.
LEMMA DescendStep ==
  ASSUME IInv, NEW p \in Threads, Descend(p)
  PROVE  IInv'
<1>1. /\ pc[p] \in Searching /\ ~Follows(p) /\ level[p] > 0
      /\ prev' = IF p = Writer THEN [prev EXCEPT ![level[p]] = x[p]] ELSE prev
      /\ level' = [level EXCEPT ![p] = @ - 1]
      /\ UNCHANGED <<memory, stores, height, pc, x, key, results>>
  BY DEF Descend, RecordPrev
<1>2. UNCHANGED <<nexts_, keyed, max_height_, linked, pending, clock, own, ownHeight,
                  height, pc, x, key, node_, found>>
  BY <1>1 DEF memory, stores, results
<1>3. level \in [Threads -> Level] /\ Writer \in Threads /\ Readers \subseteq Threads
      /\ prev \in [Level -> Node \union {Uninit}] /\ x[p] \in Node /\ level[p] - 1 \in Level
  BY <1>1 DEF IInv, TypeOK, Threads, Level
<1>4. prev' \in [Level -> Node \union {Uninit}] /\ level' \in [Threads -> Level]
  BY <1>1, <1>3
<1>5. TypeOK'
  BY <1>1, <1>2, <1>4 DEF IInv, TypeOK
<1>6. (ReadersList /\ StoresOrdered /\ WriterList)' /\ \A l \in Level : Issued(l)' = Issued(l)
  BY <1>1, MemoryStays
<1>8. CASE p = Writer
  <2>1. ReaderPlace'
    BY <1>1, <1>2, <1>3, <1>8, ReadersStay
  <2>2. pc[Writer] = "insert" /\ level'[Writer] = level[Writer] - 1
    BY <1>1, <1>3, <1>8, Place
  <2>3. IsPred(x[Writer], key[Writer], Issued(level[Writer]))
    BY <1>1, <1>8, WriterStops
  <2>4. Issued(level[Writer]) \subseteq Issued(level[Writer] - 1)
    BY <1>3, <1>8, IssuedNested DEF Level
  <2>5. ASSUME NEW l \in Level, level[Writer] - 1 < l, l < ownHeight
        PROVE  IsPred(prev'[l], key[Writer], Issued(l))
    <3>1. CASE l = level[Writer]
      BY <1>1, <1>3, <1>8, <2>3, <3>1
    <3>2. CASE l # level[Writer]
      <4>1. level[Writer] < l
        BY <1>3, <2>5, <3>2 DEF Level
      <4>2. prev'[l] = prev[l]
        BY <1>1, <1>3, <1>8, <3>2
      <4> QED BY <2>2, <2>5, <4>1, <4>2 DEF IInv, WriterPlace
    <3> QED BY <3>1, <3>2
  <2>6. ownHeight \in Int /\ level[Writer] \in Int /\ level[Writer] < ownHeight
    BY <1>3, <2>2 DEF IInv, WriterPlace, TypeOK, Level
  <2>7. x[Writer] \in Issued(level[Writer] - 1) \union {Head}
    BY <2>2, <2>4 DEF IInv, WriterPlace
  <2>8. WriterPlace'
    BY <1>2, <1>3, <1>6, <1>8, <2>2, <2>5, <2>6, <2>7 DEF IInv, WriterPlace, Level
  <2> QED BY <1>5, <1>6, <2>1, <2>8 DEF IInv
<1>9. CASE p # Writer
  <2>1. WriterPlace'
    BY <1>1, <1>2, <1>3, <1>6, <1>9, WriterStays DEF locals
  <2>2. linked[level[p]] \subseteq linked[level[p] - 1]
    BY <1>3 DEF IInv, ReadersList, Level
  <2>3. ReaderPlace'
    BY <1>1, <1>2, <1>3, <1>9, <2>2 DEF IInv, ReaderPlace
  <2> QED BY <1>5, <1>6, <2>1, <2>3 DEF IInv
<1> QED BY <1>8, <1>9

-----------------------------------------------------------------------------
(* The readers' operations.                                                *)

\* A reader's step changes nothing but its own search and iterator.
LEMMA ReaderStep ==
  ASSUME IInv, NEW r \in Readers, UNCHANGED <<memory, stores, locals>>,
         NEW o \in Searching \union {"idle"}, o # "insert",
         NEW n, NEW l \in Level, NEW k \in Keys \union {Null}, NEW m \in Keys \union {Null},
         pc' = [pc EXCEPT ![r] = o], x' = [x EXCEPT ![r] = n],
         level' = [level EXCEPT ![r] = l], key' = [key EXCEPT ![r] = k],
         node_' = [node_ EXCEPT ![r] = m], found' \in [Readers -> BOOLEAN],
         n = Head, o \in Searching \ {"seekToLast"} => k \in Keys,
         m # Null => m \in linked[0]
  PROVE  IInv'
<1>1. UNCHANGED <<nexts_, keyed, max_height_, linked, pending, clock, own, ownHeight, prev, height>>
  BY DEF memory, stores, locals
<1>2. r \in Threads /\ r # Writer /\ Writer \in Threads /\ Readers \subseteq Threads
  BY DEF Threads
<1>3. /\ pc \in [Threads -> Searching \union {"idle", "newNode", "link"}]
      /\ x \in [Threads -> Node] /\ level \in [Threads -> Level]
      /\ key \in [Threads -> Keys \union {Null}] /\ node_ \in [Readers -> Keys \union {Null}]
  BY DEF IInv, TypeOK
<1>4. TypeOK'
  BY <1>1, <1>2, <1>3 DEF IInv, TypeOK, Node
<1>5. (ReadersList /\ StoresOrdered /\ WriterList)' /\ \A i \in Level : Issued(i)' = Issued(i)
  BY MemoryStays
<1>6. WriterPlace'
  BY <1>1, <1>2, <1>3, <1>5, WriterStays
<1>7. ReaderPlace'
  BY <1>1, <1>2, <1>3 DEF IInv, ReaderPlace, Before
<1> QED BY <1>4, <1>5, <1>6, <1>7 DEF IInv

\* What a search returns on level 0.
LEMMA BottomFacts ==
  ASSUME IInv, NEW r \in Readers, Bottom(r)
  PROVE  /\ pc[r] \in {"contains", "seek", "prev", "seekToLast"}
         /\ linked[0] \subseteq Keys
         /\ x[r] \in linked[0] \union {Head}
         /\ IsNext(NextOf(r), x[r], linked[0])
         /\ NextOf(r) \in linked[0] \union {Null}
         /\ pc[r] = "seekToLast" => NextOf(r) = Null
         /\ pc[r] # "seekToLast" =>
              /\ key[r] \in Keys /\ Before(x[r], key[r])
              /\ ~keyIsAfterNode(key[r], NextOf(r))
<1>1. r \in Threads /\ r # Writer /\ pc[r] \in Searching /\ ~Follows(r) /\ level[r] = 0
  BY DEF Threads, Bottom
<1>2. View(r) = linked[0]
  BY <1>1 DEF View
<1>3. /\ linked[0] \subseteq Keys /\ x[r] \in linked[0] \union {Head}
      /\ IsNext(NextOf(r), x[r], linked[0])
      /\ pc[r] # "seekToLast" => key[r] \in Keys /\ Before(x[r], key[r])
      /\ pc[r] # "insert"
  BY <1>1, <1>2, Place
<1>4. NextOf(r) \in linked[0] \union {Null}
  BY <1>3, NextInList
<1> QED BY <1>1, <1>3, <1>4 DEF Searching, Follows

\* A search of a reader ends.
LEMMA SearchReturnsStep ==
  ASSUME IInv, NEW r \in Readers, SearchReturns(r)
  PROVE  IInv'
<1> DEFINE last == IF x[r] = Head THEN Null ELSE x[r]
           m    == CASE pc[r] = "seek"                     -> NextOf(r)
                     [] pc[r] \in {"prev", "seekToLast"}   -> last
                     [] pc[r] = "contains"                 -> node_[r]
<1>1. /\ Bottom(r) /\ Leave(r) /\ UNCHANGED <<memory, stores, locals>>
      /\ node_' = [node_ EXCEPT ![r] = m]
      /\ found' = IF pc[r] = "contains" THEN [found EXCEPT ![r] = NextOf(r) = key[r]] ELSE found
  BY DEF SearchReturns, IInv, TypeOK
<1>2. found' \in [Readers -> BOOLEAN]
  BY <1>1 DEF IInv, TypeOK
<1>3. m \in linked[0] \union {Null} /\ linked[0] \subseteq Keys
  BY <1>1, BottomFacts DEF IInv, ReaderPlace
<1>4. 0 \in Level
  BY DEF Level
<1>5. PICK q \in Keys \union {Null} :
        node_' = [node_ EXCEPT ![r] = q] /\ (q # Null => q \in linked[0])
  BY <1>1, <1>3
<1>6. /\ pc' = [pc EXCEPT ![r] = "idle"] /\ x' = [x EXCEPT ![r] = Head]
      /\ level' = [level EXCEPT ![r] = 0] /\ key' = [key EXCEPT ![r] = Null]
  BY <1>1 DEF Leave
<1> QED BY <1>1, <1>2, <1>4, <1>5, <1>6, ReaderStep DEF Searching

\* A reader begins a search.
LEMMA CallStep ==
  ASSUME IInv, NEW r \in Readers, NEW o \in Searching \ {"insert"}, NEW k \in Keys \union {Null},
         Call(r, o, k), o = "seekToLast" \/ k \in Keys,
         UNCHANGED <<memory, stores, locals, results>>
  PROVE  IInv'
<1>1. getMaxHeight(r) - 1 \in Level
  BY DEF getMaxHeight, IInv, TypeOK, Level
<1>2. node_' = [node_ EXCEPT ![r] = node_[r]] /\ node_[r] \in Keys \union {Null}
      /\ found' \in [Readers -> BOOLEAN] /\ (node_[r] # Null => node_[r] \in linked[0])
  BY DEF results, IInv, TypeOK, ReaderPlace
<1> QED BY <1>1, <1>2, ReaderStep DEF Call

\* A reader moves its iterator along level 0.
LEMMA LoadStep ==
  ASSUME IInv, NEW r \in Readers, NEW n \in linked[0] \union {Head},
         node_' = [node_ EXCEPT ![r] = Load(r, n, 0)],
         UNCHANGED <<memory, stores, locals, search, found>>
  PROVE  IInv' /\ IsNext(Load(r, n, 0), n, linked[0]) /\ Load(r, n, 0) \in linked[0] \union {Null}
<1>1. 0 \in Level /\ linked[0] \subseteq Keys
  BY DEF IInv, TypeOK, Level
<1>2. IsNext(Load(r, n, 0), n, linked[0])
  BY <1>1 DEF IInv, ReadersList, Load
<1>3. Load(r, n, 0) \in linked[0] \union {Null}
  BY <1>1, <1>2, NextInList
<1>4. TypeOK'
  BY <1>1, <1>3 DEF IInv, TypeOK, memory, stores, locals, search
<1>5. (ReadersList /\ StoresOrdered /\ WriterList)' /\ \A l \in Level : Issued(l)' = Issued(l)
  BY MemoryStays
<1>6. WriterPlace'
  BY <1>5, WriterStays DEF memory, stores, search
<1>7. ReaderPlace'
  BY <1>3 DEF IInv, TypeOK, ReaderPlace, memory, search
<1> QED BY <1>2, <1>3, <1>4, <1>5, <1>6, <1>7 DEF IInv

\* Every step of a reader.
LEMMA ReaderNextStep ==
  ASSUME IInv, NEW r \in Readers, ReaderNext(r)
  PROVE  IInv'
<1>1. ASSUME NEW k \in Keys, contains(r, k) PROVE IInv'
  BY <1>1, CallStep DEF contains, Searching
<1>2. ASSUME NEW k \in Keys, IteratorSeek(r, k) PROVE IInv'
  BY <1>2, CallStep DEF IteratorSeek, Searching
<1>3. CASE IteratorSeekToLast(r)
  BY <1>3, CallStep DEF IteratorSeekToLast, Searching
<1>4. CASE IteratorPrev(r)
  <2>1. node_[r] \in Keys
    BY <1>4 DEF IteratorPrev, IInv, TypeOK
  <2> QED BY <1>4, <2>1, CallStep DEF IteratorPrev, Searching
<1>5. CASE IteratorNext(r)
  BY <1>5, LoadStep DEF IteratorNext, IInv, ReaderPlace
<1>6. CASE IteratorSeekToFirst(r)
  BY <1>6, LoadStep DEF IteratorSeekToFirst
<1>7. CASE SearchReturns(r)
  BY <1>7, SearchReturnsStep
<1> QED BY <1>1, <1>2, <1>3, <1>4, <1>5, <1>6, <1>7 DEF ReaderNext

-----------------------------------------------------------------------------
(* The writer's operation.                                                 *)

\* The writer begins to look for the place of a key.
LEMMA insertStep ==
  ASSUME IInv, NEW k \in Keys, insert(k)
  PROVE  IInv'
<1>1. /\ own[k][0] = Uninit /\ UNCHANGED <<memory, stores, locals, results>>
      /\ pc' = [pc EXCEPT ![Writer] = "insert"] /\ x' = [x EXCEPT ![Writer] = Head]
      /\ level' = [level EXCEPT ![Writer] = ownHeight - 1] /\ key' = [key EXCEPT ![Writer] = k]
  BY DEF insert, Call, getMaxHeight
<1>2. UNCHANGED <<nexts_, keyed, max_height_, linked, pending, clock, own, ownHeight,
                  prev, height, node_, found>>
  BY <1>1 DEF memory, stores, locals, results
<1>3. Writer \in Threads /\ Readers \subseteq Threads /\ ownHeight - 1 \in Level /\ 0 \in Level
      /\ ownHeight \in Nat
  BY DEF IInv, TypeOK, Threads, Level
<1>4. TypeOK'
  BY <1>1, <1>2, <1>3 DEF IInv, TypeOK, Node, Searching
<1>5. (ReadersList /\ StoresOrdered /\ WriterList)' /\ \A l \in Level : Issued(l)' = Issued(l)
  BY <1>1, MemoryStays
<1>6. /\ pc'[Writer] = "insert" /\ x'[Writer] = Head
      /\ level'[Writer] = ownHeight - 1 /\ key'[Writer] = k
      /\ \A r \in Readers : /\ pc'[r] = pc[r] /\ x'[r] = x[r]
                            /\ level'[r] = level[r] /\ key'[r] = key[r]
  BY <1>1, <1>3 DEF IInv, TypeOK
<1>7. ReaderPlace'
  BY <1>2, <1>6, ReadersStay
<1>8. k \notin Issued(0)
  <2>1. ASSUME k \in Issued(0) PROVE FALSE
    <3>1. IsNext(own[k][0], k, Issued(0)) /\ Issued(0) \subseteq Keys
      BY <1>3, <2>1 DEF IInv, WriterList, Node, Issued, Sent
    <3> QED BY <1>1, <3>1, NextInList
  <2> QED BY <2>1
<1>9. \A l \in Level : ~(ownHeight - 1 < l /\ l < ownHeight)
  BY <1>3 DEF Level
<1>10. WriterPlace'
  BY <1>2, <1>3, <1>5, <1>6, <1>8, <1>9 DEF WriterPlace, Before
<1> QED BY <1>4, <1>5, <1>7, <1>10 DEF IInv

\* The search of an insert ends with all the predecessors.
LEMMA InsertFoundStep ==
  ASSUME IInv, InsertFound
  PROVE  IInv'
<1>1. /\ pc[Writer] \in Searching /\ ~Follows(Writer) /\ level[Writer] = 0
      /\ prev' = [prev EXCEPT ![0] = x[Writer]]
      /\ pc' = [pc EXCEPT ![Writer] = "newNode"]
      /\ UNCHANGED <<memory, stores, height, x, level, key, results>>
  BY DEF InsertFound, Bottom, RecordPrev
<1>2. UNCHANGED <<nexts_, keyed, max_height_, linked, pending, clock, own, ownHeight,
                  height, x, level, key, node_, found>>
  BY <1>1 DEF memory, stores, results
<1>3. Writer \in Threads /\ Readers \subseteq Threads /\ 0 \in Level
      /\ prev \in [Level -> Node \union {Uninit}] /\ x[Writer] \in Node
  BY DEF IInv, TypeOK, Threads, Level
<1>4. prev' \in [Level -> Node \union {Uninit}]
  BY <1>1, <1>3
<1>5. TypeOK'
  BY <1>1, <1>2, <1>3, <1>4 DEF IInv, TypeOK
<1>6. (ReadersList /\ StoresOrdered /\ WriterList)' /\ \A l \in Level : Issued(l)' = Issued(l)
  BY <1>1, MemoryStays
<1>7. pc'[Writer] = "newNode" /\ \A r \in Readers : pc'[r] = pc[r]
  BY <1>1, <1>3 DEF IInv, TypeOK
<1>8. ReaderPlace'
  BY <1>2, <1>7, ReadersStay
<1>9. pc[Writer] = "insert" /\ IsPred(x[Writer], key[Writer], Issued(0))
  BY <1>1, <1>3, Place, WriterStops
<1>10. ASSUME NEW l \in Level, l < ownHeight PROVE IsPred(prev'[l], key[Writer], Issued(l))
  <2>1. CASE l = 0
    BY <1>1, <1>3, <1>9, <2>1
  <2>2. CASE l # 0
    <3>1. 0 < l /\ prev'[l] = prev[l]
      BY <1>1, <1>3, <2>2 DEF Level
    <3> QED BY <1>1, <1>9, <1>10, <3>1 DEF IInv, WriterPlace
  <2> QED BY <2>1, <2>2
<1>11. WriterPlace'
  BY <1>2, <1>3, <1>6, <1>7, <1>9, <1>10 DEF IInv, WriterPlace
<1> QED BY <1>5, <1>6, <1>8, <1>11 DEF IInv

\* The writer issues stores that link nothing.
LEMMA PlainStores ==
  ASSUME IInv, NEW A, pending' = pending \union A, UNCHANGED <<memory, own>>, clock' \in Nat,
         ownHeight' \in Nat, ownHeight <= ownHeight', clock <= clock',
         \A s \in A : s.kind # "nexts_" /\ s.t \in Nat /\ clock <= s.t,
         \A s, e \in A : s.t = e.t => s = e
  PROVE  /\ (ReadersList /\ StoresOrdered /\ WriterList)'
         /\ \A l \in Level : Issued(l)' = Issued(l)
<1>1. UNCHANGED <<nexts_, keyed, max_height_, linked, own>> /\ TypeOK /\ clock \in Nat
  BY DEF memory, IInv, TypeOK
<1>2. \A s \in pending : s.t \in Nat /\ s.t < clock
  BY <1>1, StoreFields
<1>3. \A s \in A : ~IsRelease(s) /\ ~IsFill(s)
  BY DEF IsRelease, IsFill
<1>4. \A t, l : Sent(t, l)' = Sent(t, l)
  BY <1>1, <1>3 DEF Sent
<1>5. ASSUME NEW l \in Level PROVE Issued(l)' = Issued(l)
  <2>1. Sent(clock', l) = Sent(clock, l)
    BY <1>1, <1>2 DEF Sent
  <2> QED BY <1>4, <2>1 DEF Issued
<1>6. ReadersList'
  BY <1>1 DEF IInv, ReadersList
<1>7. StoresOrdered'
  <2>1. \A s, e \in pending' : s.t = e.t => s = e
    BY <1>1, <1>2 DEF IInv, StoresOrdered
  <2>2. ASSUME NEW s \in pending, Ready(s) PROVE Ready(s)'
    BY <1>1, <1>4, <2>2 DEF Ready
  <2>3. ASSUME NEW s \in pending, Awaited(s) PROVE Awaited(s)'
    BY <1>1, <1>4, <2>3 DEF Awaited
  <2> QED BY <1>3, <2>1, <2>2, <2>3 DEF IInv, StoresOrdered
<1>8. WriterList'
  BY <1>1, <1>5 DEF IInv, TypeOK, WriterList, Level
<1> QED BY <1>5, <1>6, <1>7, <1>8

\* The stores that raise max_height_: at most one, at the current time.
LEMMA RaiseFacts ==
  ASSUME IInv, NEW h \in 1 .. MaxHeight
  PROVE  /\ \/ h > ownHeight /\ Cardinality(Raise(h)) = 1 /\ Raise(h) = {storeMaxHeight(clock, h)}
            \/ h <= ownHeight /\ Cardinality(Raise(h)) = 0 /\ Raise(h) = {}
         /\ clock \in Nat /\ ownHeight \in 1 .. MaxHeight
         /\ \A s \in Raise(h) : s.kind = "max_height_" /\ s.t = clock
         /\ \A s \in Raise(h) : s = storeMaxHeight(s.t, h)
<1>1. clock \in Nat /\ ownHeight \in 1 .. MaxHeight
  BY DEF IInv, TypeOK
<1>2. CASE h > ownHeight
  <2>1. Raise(h) = {storeMaxHeight(clock, h)}
    BY <1>2 DEF Raise
  <2>2. storeMaxHeight(clock, h).kind = "max_height_" /\ storeMaxHeight(clock, h).t = clock
    BY DEF storeMaxHeight, Store
  <2> QED BY <1>1, <1>2, <2>1, <2>2, FS_Singleton
<1>3. CASE ~(h > ownHeight)
  <2>1. Raise(h) = {}
    BY <1>3 DEF Raise
  <2> QED BY <1>1, <1>3, <2>1, FS_EmptySet
<1> QED BY <1>2, <1>3

\* The writer leaves an insert.
LEMMA LeaveInsertFacts ==
  ASSUME TypeOK, LeaveInsert
  PROVE  /\ prev' \in [Level -> Node \union {Uninit}] /\ height' \in 1 .. MaxHeight
         /\ pc' \in [Threads -> Searching \union {"idle", "newNode", "link"}]
         /\ x' \in [Threads -> Node] /\ level' \in [Threads -> Level]
         /\ key' \in [Threads -> Keys \union {Null}]
         /\ pc'[Writer] = "idle"
         /\ \A r \in Readers : /\ pc'[r] = pc[r] /\ x'[r] = x[r]
                               /\ level'[r] = level[r] /\ key'[r] = key[r]
  BY DEF LeaveInsert, Leave, TypeOK, Threads, Node, Level

\* Stores with a valid form keep TypeOK's conjunct about pending.
StoreType(s, c) ==
  /\ s.t \in 0 .. c - 1
  /\ \/ \E n \in Node, l \in Level, v \in Node \union {Null} :
          s \in {setNext(s.t, n, l, v), noBarrierSetNext(s.t, n, l, v)}
     \/ \E n \in Keys : s = storeKey(s.t, n)
     \/ \E h \in 1 .. MaxHeight : s = storeMaxHeight(s.t, h)

\* A pending store stays one when the clock goes on.
LEMMA OldStoreTypes ==
  ASSUME TypeOK, NEW c \in Nat, clock <= c, NEW s \in pending
  PROVE  StoreType(s, c)
<1>1. clock \in Nat /\ s.t \in 0 .. clock - 1 /\ StoreType(s, clock)
  BY DEF TypeOK, StoreType
<1>2. s.t \in 0 .. c - 1
  BY <1>1
<1> QED BY <1>1, <1>2 DEF StoreType

\* The node is built and the list may become higher.
LEMMA newNodeStep ==
  ASSUME IInv, NEW h \in 1 .. MaxHeight, newNode(h)
  PROVE  IInv'
<1> DEFINE k == key[Writer]
           A == Raise(h) \union {storeKey(clock' - 1, k)}
<1>1. /\ pc[Writer] = "newNode" /\ height' = h
      /\ prev' = [l \in Level |-> IF l \in ownHeight .. h - 1 THEN Head ELSE prev[l]]
      /\ ownHeight' = IF h > ownHeight THEN h ELSE ownHeight
      /\ clock' = clock + Cardinality(Raise(h)) + 1
      /\ pending' = pending \union A
      /\ pc' = [pc EXCEPT ![Writer] = "link"]
      /\ level' = [level EXCEPT ![Writer] = 0]
      /\ UNCHANGED <<memory, own, x, key, results>>
  BY DEF newNode
<1>2. UNCHANGED <<nexts_, keyed, max_height_, linked, own, x, key, node_, found>>
  BY <1>1 DEF memory, results
<1>3. Writer \in Threads /\ Readers \subseteq Threads /\ 0 \in Level
      /\ prev \in [Level -> Node \union {Uninit}] /\ h \in Nat
  BY DEF IInv, TypeOK, Threads, Level
<1>0. TypeOK
  BY DEF IInv
<1>4. /\ clock \in Nat /\ clock' \in Nat /\ clock < clock'
      /\ ownHeight \in 1 .. MaxHeight /\ ownHeight' \in 1 .. MaxHeight
      /\ ownHeight <= ownHeight' /\ h <= ownHeight'
  BY <1>1, RaiseFacts
<1>5. k \in Keys /\ k \notin Issued(0)
  BY <1>1 DEF IInv, WriterPlace
<1>6. /\ storeKey(clock' - 1, k).kind = "key" /\ storeKey(clock' - 1, k).t = clock' - 1
      /\ storeKey(clock' - 1, k).node = k
  BY DEF storeKey, Store
<1>7. \A s \in A : s.kind # "nexts_" /\ s.t \in Nat /\ clock <= s.t /\ s.t < clock'
  BY <1>1, <1>4, <1>6, RaiseFacts
<1>8. \A s, e \in A : s.t = e.t => s = e
  BY <1>1, <1>4, <1>6, RaiseFacts
<1>9. /\ (ReadersList /\ StoresOrdered /\ WriterList)'
      /\ \A l \in Level : Issued(l)' = Issued(l)
  <2> HIDE DEF A
  <2> QED BY <1>1, <1>4, <1>7, <1>8, PlainStores
<1>10. \A s \in pending' : StoreType(s, clock')
  <2>1. \A s \in A : StoreType(s, clock')
    <3>1. \A s \in A : s.t \in 0 .. clock' - 1
      BY <1>4, <1>7
    <3> QED BY <3>1, <1>5, <1>6, RaiseFacts DEF StoreType
  <2> QED BY <1>0, <1>1, <1>4, <2>1, OldStoreTypes
<1>11. prev' \in [Level -> Node \union {Uninit}]
  BY <1>1, <1>3 DEF Node
<1>12. TypeOK'
  BY <1>0, <1>1, <1>2, <1>3, <1>4, <1>10, <1>11 DEF TypeOK, StoreType, setNext, noBarrierSetNext, storeKey, storeMaxHeight, Store
<1>13. ReaderPlace'
  <2>1. \A r \in Readers : pc'[r] = pc[r] /\ level'[r] = level[r]
    BY <1>0, <1>1, <1>3 DEF TypeOK
  <2> QED BY <1>2, <2>1, ReadersStay
<1>14. ASSUME NEW l \in Level PROVE k \notin Issued(l)
  BY <1>3, <1>5, IssuedNested DEF Level
<1>15. ASSUME NEW l \in Level, l < h PROVE IsPred(prev'[l], k, Issued(l))
  <2>1. CASE l < ownHeight
    <3>1. prev'[l] = prev[l]
      BY <1>1, <1>4, <2>1 DEF Level
    <3> QED BY <1>1, <2>1, <3>1 DEF IInv, WriterPlace
  <2>2. CASE ~(l < ownHeight)
    <3>1. l >= ownHeight /\ l \in ownHeight .. h - 1
      BY <1>3, <1>4, <1>15, <2>2 DEF Level
    <3>2. prev'[l] = Head /\ Issued(l) = {}
      BY <1>1, <3>1 DEF IInv, WriterList
    <3> QED BY <3>2 DEF IsPred, Before
  <2> QED BY <2>1, <2>2
<1>16. pc'[Writer] = "link" /\ level'[Writer] = 0 /\ key'[Writer] = k
  BY <1>0, <1>1, <1>3 DEF TypeOK
<1>17. \E e \in pending' : e.kind = "key" /\ e.node = k
  BY <1>1, <1>6
<1>18. \A l \in Level : ~(l < 0)
  BY DEF Level
<1>19. WriterPlace'
  BY <1>1, <1>3, <1>4, <1>5, <1>9, <1>14, <1>15, <1>16, <1>17, <1>18 DEF WriterPlace
<1> QED BY <1>9, <1>12, <1>13, <1>19 DEF IInv

\* The list may become higher, and there is no node.
LEMMA newNodeThrowsStep ==
  ASSUME IInv, NEW h \in 1 .. MaxHeight, newNodeThrows(h)
  PROVE  IInv'
<1>1. /\ ownHeight' = IF h > ownHeight THEN h ELSE ownHeight
      /\ clock' = clock + Cardinality(Raise(h))
      /\ pending' = pending \union Raise(h)
      /\ LeaveInsert
      /\ UNCHANGED <<memory, own, results>>
  BY DEF newNodeThrows
<1>2. UNCHANGED <<nexts_, keyed, max_height_, linked, own, node_, found>> /\ TypeOK
  BY <1>1 DEF memory, results, IInv
<1>3. /\ clock \in Nat /\ clock' \in Nat /\ clock <= clock'
      /\ ownHeight' \in 1 .. MaxHeight /\ ownHeight' \in Nat /\ ownHeight <= ownHeight'
      /\ \A s \in Raise(h) : s.t \in Nat /\ clock <= s.t /\ s.t \in 0 .. clock' - 1
      /\ \A s \in Raise(h) : s.kind # "nexts_"
      /\ \A s, e \in Raise(h) : s.t = e.t => s = e
  BY <1>1, RaiseFacts
<1>4. /\ (ReadersList /\ StoresOrdered /\ WriterList)'
      /\ \A l \in Level : Issued(l)' = Issued(l)
  BY <1>1, <1>3, PlainStores
<1>5. \A s \in pending' : StoreType(s, clock')
  <2>1. \A s \in Raise(h) : StoreType(s, clock')
    BY <1>3, RaiseFacts DEF StoreType
  <2> QED BY <1>1, <1>2, <1>3, <2>1, OldStoreTypes
<1>6. TypeOK'
  BY <1>1, <1>2, <1>3, <1>5, LeaveInsertFacts DEF TypeOK, StoreType, setNext, noBarrierSetNext, storeKey, storeMaxHeight, Store
<1>7. ReaderPlace'
  BY <1>1, <1>2, LeaveInsertFacts, ReadersStay
<1>8. WriterPlace'
  BY <1>1, <1>2, LeaveInsertFacts DEF WriterPlace
<1> QED BY <1>4, <1>6, <1>7, <1>8 DEF IInv

\* One level of insert's loop is linked: the writer's list of that level gets
\* the new key, and the two stores wait for the stores before them.
LEMMA LinkLevelStep ==
  ASSUME IInv, pc[Writer] = "link", UNCHANGED <<memory, ownHeight>>,
         NEW i, i = level[Writer], NEW k, k = key[Writer], LinkLevel(i)
  PROVE  /\ ReadersList' /\ StoresOrdered' /\ WriterList'
         /\ \A l \in Level : Issued(l)' = IF l = i THEN Issued(l) \union {k} ELSE Issued(l)
         /\ own' \in [Node -> [Level -> Node \union {Null, Uninit}]]
         /\ clock' \in Nat /\ \A s \in pending' : StoreType(s, clock')
         /\ pending \subseteq pending'
<1>a. PICK p : p = prev[i]
  OBVIOUS
<1>b. PICK succ : succ = own[p][i]
  OBVIOUS
<1>c. PICK f : f = noBarrierSetNext(clock, k, i, succ)
  OBVIOUS
<1>d. PICK g : g = setNext(clock + 1, p, i, k)
  OBVIOUS
<1>1. /\ pending' = pending \union {f, g}
      /\ own' = [own EXCEPT ![k][i] = succ, ![p][i] = k]
      /\ clock' = clock + 2
  BY <1>a, <1>b, <1>c, <1>d DEF LinkLevel
<1>2. UNCHANGED <<nexts_, keyed, max_height_, linked, ownHeight>> /\ TypeOK
  BY DEF memory, IInv
<1>3. /\ i \in Level /\ clock \in Nat /\ own \in [Node -> [Level -> Node \union {Null, Uninit}]]
      /\ ownHeight \in Nat
  BY <1>2 DEF TypeOK, Threads
<1>4. /\ k \in Keys /\ k \notin Issued(i) /\ IsPred(p, k, Issued(i)) /\ i < ownHeight
      /\ \A l \in Level : l < i => k \in Issued(l)
      /\ k \in keyed \/ \E e \in pending : e.kind = "key" /\ e.node = k
  <2>1. height <= ownHeight /\ i < height /\ height \in Nat
    BY <1>2 DEF IInv, WriterPlace, TypeOK
  <2>2. i <= i /\ i < ownHeight
    BY <1>3, <2>1 DEF Level
  <2> QED BY <1>a, <1>3, <2>1, <2>2 DEF IInv, WriterPlace
<1>5. Issued(i) \subseteq Keys /\ p \in Issued(i) \union {Head} /\ p \in Node /\ k \in Node /\ p # k
  BY <1>4, ZenonT(40) DEF Issued, Sent, IsPred, Node
<1>6. IsNext(succ, p, Issued(i))
  BY <1>b, <1>3, <1>5 DEF IInv, WriterList
<1>7. IsNext(succ, k, Issued(i)) /\ succ \in Keys \union {Null}
  BY <1>4, <1>5, <1>6, NextOfKey, NextInList
<1>8. /\ f.t = clock /\ f.kind = "nexts_" /\ f.node = k /\ f.level = i /\ f.val = succ
      /\ IsFill(f) /\ ~IsRelease(f)
  BY <1>c DEF noBarrierSetNext, Store, IsFill, IsRelease
<1>9. /\ g.t = clock + 1 /\ g.kind = "nexts_" /\ g.node = p /\ g.level = i /\ g.val = k
      /\ IsRelease(g) /\ ~IsFill(g)
  BY <1>d DEF setNext, Store, IsFill, IsRelease
<1>10. \A s \in pending : s.t \in Nat /\ s.t < clock
  BY <1>2, StoreFields
<1>11. StoreType(f, clock + 2) /\ StoreType(g, clock + 2)
  <2>1. f.t \in 0 .. clock + 2 - 1 /\ g.t \in 0 .. clock + 2 - 1
    BY <1>3, <1>8, <1>9
  <2>2. f = noBarrierSetNext(f.t, k, i, succ) /\ g = setNext(g.t, p, i, k)
    BY <1>c, <1>d, <1>8, <1>9
  <2>3. succ \in Node \union {Null} /\ k \in Node \union {Null}
    BY <1>5, <1>7 DEF Node
  <2>4. StoreType(f, clock + 2)
    BY <1>3, <1>5, <2>1, <2>2, <2>3 DEF StoreType
  <2>5. StoreType(g, clock + 2)
    BY <1>3, <1>5, <2>1, <2>2, <2>3 DEF StoreType
  <2> QED BY <2>4, <2>5
<1>12. \A t \in Nat, l \in Level : t <= clock + 1 => Sent(t, l)' = Sent(t, l)
  BY <1>1, <1>2, <1>3, <1>8, <1>9 DEF Sent
<1>13. \A l \in Level : Sent(clock + 1, l) = Issued(l)
  BY <1>3, <1>10 DEF Issued, Sent
<1>14. ASSUME NEW l \in Level
       PROVE  Issued(l)' = IF l = i THEN Issued(l) \union {k} ELSE Issued(l)
  <2>1. ASSUME NEW j \in Issued(l) PROVE j \in Issued(l)'
    BY <1>1, <1>2, <1>3, <1>10, <2>1 DEF Issued, Sent
  <2>2. ASSUME l = i PROVE k \in Issued(l)'
    <3>1. g \in pending' /\ g.t < clock'
      BY <1>1, <1>3, <1>9
    <3> QED BY <1>4, <1>9, <2>2, <3>1 DEF Issued, Sent
  <2>3. ASSUME NEW j \in Issued(l)', j \notin Issued(l) PROVE l = i /\ j = k
    <3>1. j \in Keys /\ j \notin linked[l]
      BY <1>2, <2>3 DEF Issued, Sent
    <3>2. PICK s \in pending' : IsRelease(s) /\ s.level = l /\ s.val = j
      BY <1>2, <2>3, <3>1 DEF Issued, Sent
    <3>3. s \notin pending
      BY <1>3, <1>10, <2>3, <3>1, <3>2 DEF Issued, Sent
    <3> QED BY <1>1, <1>8, <1>9, <3>2, <3>3
  <2> QED BY <2>1, <2>2, <2>3
<1>15. ReadersList'
  BY <1>2 DEF IInv, ReadersList
<1>16. StoresOrdered'
  <2>1. \A s, e \in pending' : s.t = e.t => s = e
    BY <1>1, <1>3, <1>8, <1>9, <1>10 DEF IInv, StoresOrdered
  <2>2. ASSUME NEW s \in pending, IsRelease(s) PROVE Ready(s)'
    <3>1. s.level \in Level
      BY <1>2, <2>2, StoreFields DEF IsRelease
    <3>2. \A l \in Level : Sent(s.t, l)' = Sent(s.t, l)
      BY <1>3, <1>10, <1>12
    <3>3. Ready(s) /\ pending \subseteq pending'
      BY <1>1, <2>2 DEF IInv, StoresOrdered
    <3> QED BY <1>2, <3>1, <3>2, <3>3 DEF Ready
  <2>3. ASSUME NEW e \in pending, IsFill(e) PROVE Awaited(e)'
    <3>1. PICK s \in pending :
            /\ IsRelease(s) /\ s.val = e.node /\ s.level = e.level /\ e.t < s.t
            /\ IsNext(e.val, e.node, Sent(s.t, s.level))
      BY <2>3 DEF IInv, StoresOrdered, Awaited
    <3>2. s.level \in Level
      BY <1>2, <3>1, StoreFields DEF IsRelease
    <3>3. Sent(s.t, s.level)' = Sent(s.t, s.level) /\ s \in pending'
      BY <1>1, <1>3, <1>10, <1>12, <3>2
    <3> QED BY <3>1, <3>3 DEF Awaited
  <2>4. \A l \in Level : Sent(g.t, l)' = Issued(l)
    BY <1>3, <1>9, <1>12, <1>13
  <2>5. Awaited(f)'
    <3>1. g \in pending' /\ f.t < g.t
      BY <1>1, <1>3, <1>8, <1>9
    <3> QED BY <1>3, <1>7, <1>8, <1>9, <2>4, <3>1 DEF Awaited
  <2>6. Ready(g)'
    <3>1. f \in pending' /\ pending \subseteq pending'
      BY <1>1
    <3>2. k \in keyed \/ \E e \in pending : e.kind = "key" /\ e.node = k /\ e.t < g.t
      BY <1>3, <1>4, <1>9, <1>10
    <3>3. \E e \in pending' : IsFill(e) /\ e.node = g.val /\ e.level = g.level
      BY <1>8, <1>9, <3>1
    <3>4. g.val \in keyed' \/ \E e \in pending' : e.kind = "key" /\ e.node = g.val /\ e.t < g.t
      BY <1>2, <1>9, <3>1, <3>2
    <3>5. /\ g.val \in Keys /\ g.val \notin Sent(g.t, g.level)'
          /\ IsPred(g.node, g.val, Sent(g.t, g.level)')
          /\ \A m \in Level : m < g.level => g.val \in Sent(g.t, m)'
      BY <1>3, <1>4, <1>9, <2>4
    <3> QED BY <3>3, <3>4, <3>5 DEF Ready
  <2> QED BY <1>1, <1>8, <1>9, <2>1, <2>2, <2>3, <2>5, <2>6 DEF StoresOrdered
<1>17. /\ own' \in [Node -> [Level -> Node \union {Null, Uninit}]]
       /\ own'[k][i] = succ /\ own'[p][i] = k
       /\ \A n \in Node, l \in Level : l # i \/ n \notin {k, p} => own'[n][l] = own[n][l]
  BY <1>1, <1>3, <1>5, <1>7 DEF Node
<1>18. WriterList'
  <2>1. ASSUME NEW l \in Level, l # i, NEW n \in Node
        PROVE  IF n \in Issued(l)' \union {Head}
                 THEN IsNext(own'[n][l], n, Issued(l)') ELSE own'[n][l] = Uninit
    BY <1>14, <1>17, <2>1 DEF IInv, WriterList
  <2>2. ASSUME NEW n \in Node
        PROVE  IF n \in Issued(i)' \union {Head}
                 THEN IsNext(own'[n][i], n, Issued(i)') ELSE own'[n][i] = Uninit
    <3>1. Issued(i)' = Issued(i) \union {k}
      BY <1>3, <1>14
    <3>0. /\ IsNext(k, p, Issued(i) \union {k}) /\ IsNext(succ, k, Issued(i) \union {k})
          /\ \A m, j : j \in Issued(i) \union {Head} /\ j # p /\ IsNext(m, j, Issued(i))
                         => IsNext(m, j, Issued(i) \union {k})
      BY <1>4, <1>5, <1>7, Splice
    <3>2. CASE n = k
      BY <1>17, <3>0, <3>1, <3>2
    <3>3. CASE n = p
      BY <1>5, <1>17, <3>0, <3>1, <3>3
    <3>4. CASE n \notin {k, p} /\ n \in Issued(i) \union {Head}
      <4>1. own'[n][i] = own[n][i] /\ IsNext(own[n][i], n, Issued(i))
        BY <1>3, <1>17, <3>4 DEF IInv, WriterList
      <4> QED BY <3>0, <3>1, <3>4, <4>1
    <3>5. CASE n \notin {k, p} /\ n \notin Issued(i) \union {Head}
      BY <1>3, <1>17, <3>1, <3>5 DEF IInv, WriterList
    <3> QED BY <3>2, <3>3, <3>4, <3>5
  <2>3. ASSUME NEW l \in Level, l >= ownHeight PROVE Issued(l)' = {}
    <3>1. l # i
      BY <1>3, <1>4, <2>3 DEF Level
    <3> QED BY <1>14, <2>3, <3>1 DEF IInv, WriterList
  <2> QED BY <1>2, <2>1, <2>2, <2>3 DEF WriterList
<1>19. clock' \in Nat /\ pending \subseteq pending' /\ \A s \in pending' : StoreType(s, clock')
  BY <1>1, <1>2, <1>3, <1>11, OldStoreTypes
<1> QED BY <1>14, <1>15, <1>16, <1>17, <1>18, <1>19

\* The node gets its link and is published on one level.
LEMMA LinkStep ==
  ASSUME IInv, Link
  PROVE  IInv'
<1>a. PICK i : i = level[Writer]
  OBVIOUS
<1>b. PICK k : k = key[Writer]
  OBVIOUS
<1>1. /\ pc[Writer] = "link" /\ LinkLevel(i) /\ UNCHANGED <<memory, ownHeight, results>>
      /\ IF i + 1 < height THEN /\ level' = [level EXCEPT ![Writer] = i + 1]
                                /\ UNCHANGED <<pc, x, key, locals>>
                           ELSE LeaveInsert
  BY <1>a DEF Link
<1>2. UNCHANGED <<nexts_, keyed, max_height_, linked, ownHeight, node_, found>> /\ TypeOK
  BY <1>1 DEF memory, results, IInv
<1>3. /\ ReadersList' /\ StoresOrdered' /\ WriterList'
      /\ \A l \in Level : Issued(l)' = IF l = i THEN Issued(l) \union {k} ELSE Issued(l)
      /\ own' \in [Node -> [Level -> Node \union {Null, Uninit}]]
      /\ clock' \in Nat /\ \A s \in pending' : StoreType(s, clock')
      /\ pending \subseteq pending'
  BY <1>a, <1>b, <1>1, LinkLevelStep
<1>4. CASE i + 1 < height
  <2>1. level' = [level EXCEPT ![Writer] = i + 1] /\ UNCHANGED <<pc, x, key, prev, height>>
    BY <1>1, <1>4 DEF locals
  <2>2. i \in Level /\ height \in 1 .. MaxHeight /\ Writer \in Threads
    BY <1>a, <1>2 DEF TypeOK, Threads
  <2>3. i + 1 \in Level
    BY <1>4, <2>2 DEF Level
  <2>4. /\ level'[Writer] = i + 1 /\ level' \in [Threads -> Level]
        /\ \A r \in Readers : level'[r] = level[r]
    BY <1>2, <2>1, <2>2, <2>3 DEF TypeOK, Threads
  <2>5. TypeOK'
    BY <1>2, <1>3, <2>1, <2>4 DEF TypeOK, StoreType, setNext, noBarrierSetNext, storeKey, storeMaxHeight, Store
  <2>6. ReaderPlace'
    BY <1>2, <2>1, <2>4, ReadersStay
  <2>7. /\ k \in Keys /\ height <= ownHeight
        /\ \A l \in Level : l < i => k \in Issued(l)
        /\ \A l \in Level : i <= l => k \notin Issued(l)
        /\ \A l \in Level : i <= l /\ l < height => IsPred(prev[l], k, Issued(l))
        /\ k \in keyed \/ \E e \in pending : e.kind = "key" /\ e.node = k
    BY <1>a, <1>b, <1>1 DEF IInv, WriterPlace
  <2>8. \A l \in Level : l < i + 1 => k \in Issued(l)'
    BY <1>3, <2>2, <2>7 DEF Level
  <2>9. \A l \in Level : i + 1 <= l => Issued(l)' = Issued(l) /\ i <= l
    BY <1>3, <2>2 DEF Level
  <2>10. WriterPlace'
    BY <1>b, <1>1, <1>2, <1>3, <1>4, <2>1, <2>4, <2>7, <2>8, <2>9 DEF WriterPlace
  <2> QED BY <1>3, <2>5, <2>6, <2>10 DEF IInv
<1>5. CASE ~(i + 1 < height)
  <2>1. LeaveInsert
    BY <1>1, <1>5
  <2>2. TypeOK'
    BY <1>2, <1>3, <2>1, LeaveInsertFacts DEF TypeOK, StoreType, setNext, noBarrierSetNext, storeKey, storeMaxHeight, Store
  <2>3. ReaderPlace'
    BY <1>2, <2>1, LeaveInsertFacts, ReadersStay
  <2>4. WriterPlace'
    BY <1>2, <2>1, LeaveInsertFacts DEF WriterPlace
  <2> QED BY <1>3, <2>2, <2>3, <2>4 DEF IInv
<1> QED BY <1>4, <1>5

\* Every step of the writer.
LEMMA WriterNextStep ==
  ASSUME IInv, WriterNext
  PROVE  IInv'
  BY insertStep, InsertFoundStep, newNodeStep, newNodeThrowsStep, LinkStep DEF WriterNext

-----------------------------------------------------------------------------
(* A store becomes visible.                                                *)

\* Two stores that publish the same key on the same level are the same store.
LEMMA ReleasedOnce ==
  ASSUME IInv, NEW s \in pending, NEW e \in pending, IsRelease(s), IsRelease(e),
         s.val = e.val, s.level = e.level
  PROVE  s = e
<1>1. TypeOK /\ s.t \in Nat /\ e.t \in Nat
  BY StoreFields DEF IInv
<1>2. s.val \notin Sent(s.t, s.level) /\ e.val \notin Sent(e.t, e.level) /\ s.val \in Keys
  BY DEF IInv, StoresOrdered, Ready
<1>3. ~(s.t < e.t) /\ ~(e.t < s.t)
  BY <1>2 DEF Sent
<1>4. s.t = e.t
  BY <1>1, <1>3
<1> QED BY <1>4 DEF IInv, StoresOrdered

\* Every release store before it is visible when a release store becomes so.
LEMMA ReleaseIsNext ==
  ASSUME IInv, NEW s \in pending, IsRelease(s), MayCommit(s)
  PROVE  /\ \A l \in Level : Sent(s.t, l) = linked[l]
         /\ \A e \in pending : e # s => s.t < e.t
         /\ s.val \in keyed
         /\ IsNext(nexts_[s.val][s.level], s.val, linked[s.level])
<1>1. TypeOK /\ s.t \in Nat /\ s.level \in Level /\ \A e \in pending : e.t \in Nat
  BY StoreFields DEF IInv, IsRelease
<1>2. \A e \in pending : e # s => s.t < e.t
  BY DEF MayCommit, IsRelease
<1>3. ASSUME NEW l \in Level PROVE Sent(s.t, l) = linked[l]
  <2>1. \A e \in pending : ~(e.t < s.t)
    BY <1>1, <1>2
  <2>2. linked[l] \subseteq Keys
    BY <1>1 DEF TypeOK
  <2> QED BY <2>1, <2>2 DEF Sent
<1>4. Ready(s)
  BY DEF IInv, StoresOrdered
<1>5. s.val \in keyed
  BY <1>1, <1>2, <1>4 DEF Ready
<1>6. ASSUME NEW e \in pending, IsFill(e), e.node = s.val, e.level = s.level PROVE FALSE
  <2>1. PICK q \in pending : IsRelease(q) /\ q.val = e.node /\ q.level = e.level /\ e.t < q.t
    BY <1>6 DEF IInv, StoresOrdered, Awaited
  <2>2. q = s
    BY <1>6, <2>1, ReleasedOnce
  <2> QED BY <1>1, <1>2, <2>1, <2>2
<1> QED BY <1>1, <1>2, <1>3, <1>4, <1>5, <1>6 DEF Ready

\* A store that becomes visible stores a value of the right type.
LEMMA CommitType ==
  ASSUME IInv, NEW s \in pending, Commit(s)
  PROVE  TypeOK'
<1>1. TypeOK
  BY DEF IInv
<1>2. nexts_' \in [Node -> [Level -> Node \union {Null, Uninit}]]
  BY <1>1, StoreFields DEF Commit, TypeOK
<1>3. keyed' \subseteq Node /\ max_height_' \in 1 .. MaxHeight
  BY <1>1, StoreFields DEF Commit, TypeOK, Node
<1>4. linked' \in [Level -> SUBSET Keys]
  <2>1. CASE IsRelease(s)
    <3>1. s.val \in Keys /\ s.level \in Level
      BY <1>1, <2>1, StoreFields DEF IInv, StoresOrdered, Ready, IsRelease
    <3> QED BY <1>1, <2>1, <3>1 DEF Commit, IsRelease, TypeOK
  <2>2. CASE ~IsRelease(s)
    BY <1>1, <2>2 DEF Commit, IsRelease, TypeOK
  <2> QED BY <2>1, <2>2
<1>5. UNCHANGED <<clock, own, ownHeight, prev, height, pc, x, level, key, node_, found>>
      /\ pending' \subseteq pending
  BY DEF Commit, locals, search, results
<1> QED BY <1>1, <1>2, <1>3, <1>4, <1>5
        DEF TypeOK, setNext, noBarrierSetNext, storeKey, storeMaxHeight, Store

\* A release store publishes a node on a level.
LEMMA CommitRelease ==
  ASSUME IInv, NEW s \in pending, Commit(s), IsRelease(s)
  PROVE  /\ ReadersList' /\ StoresOrdered' /\ WriterList'
         /\ \A l \in Level : Issued(l)' = Issued(l)
         /\ linked' = [linked EXCEPT ![s.level] = @ \union {s.val}]
         /\ s.val \in Keys /\ s.val \notin linked[s.level] /\ s.level \in Level
         /\ UNCHANGED keyed /\ \A l \in Level : linked[l] \subseteq linked'[l]
<1>1. /\ MayCommit(s) /\ pending' = pending \ {s}
      /\ nexts_' = [nexts_ EXCEPT ![s.node][s.level] = s.val]
      /\ linked' = [linked EXCEPT ![s.level] = @ \union {s.val}]
      /\ UNCHANGED <<keyed, clock, own, ownHeight>>
  BY DEF Commit, IsRelease
<1>2. /\ TypeOK /\ s.t \in Nat /\ s.t < clock /\ clock \in Nat
      /\ s.level \in Level /\ s.node \in Node /\ \A e \in pending : e.t \in Nat
  BY StoreFields DEF IInv, IsRelease
<1>3. /\ \A l \in Level : Sent(s.t, l) = linked[l]
      /\ \A e \in pending : e # s => s.t < e.t
      /\ s.val \in keyed
      /\ IsNext(nexts_[s.val][s.level], s.val, linked[s.level])
  BY <1>1, ReleaseIsNext
<1>4. /\ s.val \in Keys /\ s.val \notin linked[s.level]
      /\ IsPred(s.node, s.val, linked[s.level])
      /\ \A m \in Level : m < s.level => s.val \in linked[m]
  BY <1>2, <1>3 DEF IInv, StoresOrdered, Ready
<1>5. /\ linked \in [Level -> SUBSET Keys]
      /\ nexts_ \in [Node -> [Level -> Node \union {Null, Uninit}]]
  BY <1>2 DEF TypeOK
<1>6. \A l \in Level : linked'[l] = IF l = s.level THEN linked[l] \union {s.val} ELSE linked[l]
  BY <1>1, <1>2, <1>5
<1>7. /\ nexts_'[s.node][s.level] = s.val
      /\ \A n \in Node, l \in Level :
           n # s.node \/ l # s.level => nexts_'[n][l] = nexts_[n][l]
  BY <1>1, <1>2, <1>5
<1>8. ASSUME NEW t \in Nat, s.t < t, NEW l \in Level PROVE Sent(t, l)' = Sent(t, l)
  <2>1. ASSUME NEW j \in Sent(t, l) PROVE j \in Sent(t, l)'
    BY <1>1, <1>6, <2>1 DEF Sent
  <2>2. ASSUME NEW j \in Sent(t, l)' PROVE j \in Sent(t, l)
    <3>1. CASE j \in linked'[l]
      <4>0. linked[l] \subseteq Keys
        BY <1>5
      <4>1. j \in Keys /\ (j \in linked[l] \/ (l = s.level /\ j = s.val))
        BY <1>4, <1>6, <3>1, <4>0, ZenonT(40)
      <4> QED BY <1>8, <4>1 DEF Sent
    <3>2. CASE j \notin linked'[l]
      <4>1. j \in Keys /\ \E e \in pending' : IsRelease(e) /\ e.level = l /\ e.t < t /\ e.val = j
        BY <2>2, <3>2 DEF Sent
      <4>2. PICK e \in pending' : IsRelease(e) /\ e.level = l /\ e.t < t /\ e.val = j
        BY <4>1
      <4> QED BY <1>1, <4>1, <4>2 DEF Sent
    <3> QED BY <3>1, <3>2
  <2> QED BY <2>1, <2>2
<1>9. \A l \in Level : Issued(l)' = Issued(l)
  BY <1>1, <1>2, <1>8 DEF Issued
<1>10. ReadersList'
  <2>1. ASSUME NEW l \in Level PROVE linked'[l] \subseteq keyed'
    BY <1>1, <1>3, <1>6 DEF IInv, ReadersList
  <2>2. ASSUME NEW l \in Level, NEW m \in Level, m < l PROVE linked'[l] \subseteq linked'[m]
    <3>1. linked[l] \subseteq linked[m] /\ linked[m] \subseteq linked'[m]
      BY <1>6, <2>2 DEF IInv, ReadersList
    <3>2. l = s.level => s.val \in linked[m]
      BY <1>4, <2>2
    <3> QED BY <1>6, <3>1, <3>2
  <2>3. ASSUME NEW l \in Level, NEW n \in linked'[l] \union {Head}
        PROVE  IsNext(nexts_'[n][l], n, linked'[l])
    <3>1. CASE l # s.level
      <4>1. n \in Node /\ linked'[l] = linked[l]
        BY <1>5, <1>6, <3>1 DEF Node
      <4> QED BY <1>7, <3>1, <4>1 DEF IInv, ReadersList
    <3>2. CASE l = s.level
      <4>1. /\ linked'[l] = linked[l] \union {s.val} /\ linked[l] \subseteq Keys
            /\ s.node # s.val /\ n \in Node
        BY <1>4, <1>5, <1>6, <3>2, ZenonT(40) DEF IsPred, Node
      <4>2. /\ IsNext(s.val, s.node, linked[l] \union {s.val})
            /\ IsNext(nexts_[s.val][l], s.val, linked[l] \union {s.val})
            /\ \A m, j : j \in linked[l] \union {Head} /\ j # s.node /\ IsNext(m, j, linked[l])
                           => IsNext(m, j, linked[l] \union {s.val})
        BY <1>3, <1>4, <3>2, <4>1, Splice
      <4>3. CASE n = s.node
        BY <1>7, <3>2, <4>1, <4>2, <4>3
      <4>4. CASE n = s.val
        BY <1>7, <3>2, <4>1, <4>2, <4>4
      <4>5. CASE n # s.node /\ n # s.val
        <5>1. IsNext(nexts_[n][l], n, linked[l]) /\ n \in linked[l] \union {Head}
          BY <4>1, <4>5 DEF IInv, ReadersList
        <5>2. nexts_'[n][l] = nexts_[n][l]
          BY <1>7, <4>1, <4>5
        <5> QED BY <4>1, <4>2, <4>5, <5>1, <5>2
      <4> QED BY <4>3, <4>4, <4>5
    <3> QED BY <3>1, <3>2
  <2> QED BY <2>1, <2>2, <2>3 DEF ReadersList
<1>11. StoresOrdered'
  <2>1. \A q, e \in pending' : q.t = e.t => q = e
    BY <1>1 DEF IInv, StoresOrdered
  <2>2. ASSUME NEW e \in pending', IsRelease(e) PROVE Ready(e)'
    <3>1. e \in pending /\ e # s /\ s.t < e.t /\ e.level \in Level /\ Ready(e) /\ e.t \in Nat
      BY <1>1, <1>2, <1>3, <2>2, StoreFields DEF IInv, StoresOrdered, IsRelease
    <3>2. \A l \in Level : Sent(e.t, l)' = Sent(e.t, l)
      BY <1>8, <3>1
    <3>3. e.val \in Node /\ (e.val # s.node \/ e.level # s.level)
      <4>1. linked[e.level] \subseteq Sent(e.t, e.level)
        BY <1>2, <3>1, SentGrows
      <4> QED BY <1>4, <3>1, <4>1 DEF Ready, IsPred, Node
    <3>4. nexts_'[e.val][e.level] = nexts_[e.val][e.level]
      BY <1>7, <3>1, <3>3
    <3>5. \A q \in pending : q.kind = "key" \/ IsFill(q) => q \in pending'
      BY <1>1 DEF IsRelease, IsFill
    <3> QED BY <1>1, <3>1, <3>2, <3>4, <3>5 DEF Ready
  <2>3. ASSUME NEW e \in pending', IsFill(e) PROVE Awaited(e)'
    <3>1. e \in pending /\ e # s /\ s.t < e.t /\ e.t \in Nat
      BY <1>1, <1>2, <1>3
    <3>2. PICK q \in pending :
            /\ IsRelease(q) /\ q.val = e.node /\ q.level = e.level /\ e.t < q.t
            /\ IsNext(e.val, e.node, Sent(q.t, q.level))
      BY <2>3, <3>1 DEF IInv, StoresOrdered, Awaited
    <3>3. q.t \in Nat /\ s.t < q.t /\ q.level \in Level
      BY <1>2, <3>1, <3>2, StoreFields DEF IsRelease
    <3>4. q \in pending' /\ Sent(q.t, q.level)' = Sent(q.t, q.level)
      BY <1>1, <1>2, <1>8, <3>3
    <3> QED BY <3>2, <3>4 DEF Awaited
  <2> QED BY <2>1, <2>2, <2>3 DEF StoresOrdered
<1>12. WriterList'
  BY <1>1, <1>9 DEF IInv, WriterList
<1> QED BY <1>1, <1>2, <1>4, <1>6, <1>9, <1>10, <1>11, <1>12

\* A relaxed store fills a link of a node that is not published there yet.
LEMMA CommitFill ==
  ASSUME IInv, NEW s \in pending, Commit(s), IsFill(s)
  PROVE  /\ ReadersList' /\ StoresOrdered' /\ WriterList'
         /\ \A l \in Level : Issued(l)' = Issued(l)
         /\ UNCHANGED <<linked, keyed>>
<1>1. /\ pending' = pending \ {s}
      /\ nexts_' = [nexts_ EXCEPT ![s.node][s.level] = s.val]
      /\ UNCHANGED <<keyed, linked, clock, own, ownHeight>>
  BY DEF Commit, IsFill
<1>2. TypeOK /\ s.level \in Level /\ s.node \in Node /\ ~IsRelease(s)
  BY StoreFields DEF IInv, IsFill, IsRelease
<1>3. \A t, l : Sent(t, l)' = Sent(t, l)
  BY <1>1, <1>2 DEF Sent
<1>4. PICK q \in pending :
        /\ IsRelease(q) /\ q.val = s.node /\ q.level = s.level /\ s.t < q.t
        /\ IsNext(s.val, s.node, Sent(q.t, q.level))
  BY DEF IInv, StoresOrdered, Awaited
<1>5. s.node \notin linked[s.level] \union {Head}
  <2>1. q.val \notin Sent(q.t, q.level) /\ q.val \in Keys /\ q.t \in Nat
    BY <1>2, <1>4, StoreFields DEF IInv, StoresOrdered, Ready
  <2>2. linked[s.level] \subseteq Sent(q.t, s.level)
    BY <1>2, <2>1, SentGrows
  <2> QED BY <1>4, <2>1, <2>2
<1>6. /\ nexts_'[s.node][s.level] = s.val
      /\ \A n \in Node, l \in Level :
           n # s.node \/ l # s.level => nexts_'[n][l] = nexts_[n][l]
  BY <1>1, <1>2 DEF TypeOK
<1>7. ReadersList'
  <2>1. ASSUME NEW l \in Level, NEW n \in linked[l] \union {Head}
        PROVE  nexts_'[n][l] = nexts_[n][l]
    BY <1>2, <1>5, <1>6, <2>1 DEF TypeOK, Node
  <2> QED BY <1>1, <2>1 DEF IInv, ReadersList
<1>8. StoresOrdered'
  <2>1. \A a, e \in pending' : a.t = e.t => a = e
    BY <1>1 DEF IInv, StoresOrdered
  <2>2. ASSUME NEW e \in pending', IsRelease(e) PROVE Ready(e)'
    <3>1. e \in pending /\ e.level \in Level /\ Ready(e) /\ e.val \in Node
      BY <1>1, <1>2, <2>2, StoreFields DEF IInv, StoresOrdered, IsRelease, Ready, Node
    <3>2. \/ IsNext(nexts_'[e.val][e.level], e.val, Sent(e.t, e.level))
          \/ \E a \in pending' : IsFill(a) /\ a.node = e.val /\ a.level = e.level
      <4>1. CASE e.val = s.node /\ e.level = s.level
        <5>1. e = q
          BY <1>4, <2>2, <3>1, <4>1, ReleasedOnce
        <5> QED BY <1>4, <1>6, <4>1, <5>1
      <4>2. CASE ~(e.val = s.node /\ e.level = s.level)
        <5>1. nexts_'[e.val][e.level] = nexts_[e.val][e.level]
          BY <1>6, <3>1, <4>2
        <5> QED BY <1>1, <3>1, <4>2, <5>1 DEF Ready
      <4> QED BY <4>1, <4>2
    <3>3. \A a \in pending : a.kind = "key" => a \in pending'
      BY <1>1 DEF IsFill
    <3> QED BY <1>1, <1>3, <3>1, <3>2, <3>3 DEF Ready
  <2>3. ASSUME NEW e \in pending', IsFill(e) PROVE Awaited(e)'
    <3>1. PICK a \in pending :
            /\ IsRelease(a) /\ a.val = e.node /\ a.level = e.level /\ e.t < a.t
            /\ IsNext(e.val, e.node, Sent(a.t, a.level))
      BY <1>1, <2>3 DEF IInv, StoresOrdered, Awaited
    <3>2. a \in pending'
      BY <1>1, <1>2, <3>1
    <3> QED BY <1>3, <3>1, <3>2 DEF Awaited
  <2> QED BY <2>1, <2>2, <2>3 DEF StoresOrdered
<1>9. \A l \in Level : Issued(l)' = Issued(l)
  BY <1>1, <1>3 DEF Issued
<1>10. WriterList'
  BY <1>1, <1>9 DEF IInv, WriterList
<1> QED BY <1>1, <1>7, <1>8, <1>9, <1>10

\* A key or max_height_ becomes visible.
LEMMA CommitPlain ==
  ASSUME IInv, NEW s \in pending, Commit(s), s.kind # "nexts_"
  PROVE  /\ ReadersList' /\ StoresOrdered' /\ WriterList'
         /\ \A l \in Level : Issued(l)' = Issued(l)
         /\ UNCHANGED linked /\ keyed \subseteq keyed' /\ (s.kind = "key" => s.node \in keyed')
<1>1. /\ pending' = pending \ {s} /\ UNCHANGED <<nexts_, linked, clock, own, ownHeight>>
      /\ keyed \subseteq keyed' /\ (s.kind = "key" => s.node \in keyed')
  BY DEF Commit
<1>2. ~IsRelease(s) /\ ~IsFill(s)
  BY DEF IsRelease, IsFill
<1>3. \A t, l : Sent(t, l)' = Sent(t, l)
  BY <1>1, <1>2 DEF Sent
<1>4. ReadersList'
  BY <1>1 DEF IInv, ReadersList
<1>5. StoresOrdered'
  <2>1. \A a, e \in pending' : a.t = e.t => a = e
    BY <1>1 DEF IInv, StoresOrdered
  <2>2. ASSUME NEW e \in pending', IsRelease(e) PROVE Ready(e)'
    <3>1. Ready(e)
      BY <1>1, <2>2 DEF IInv, StoresOrdered
    <3>2. e.val \in keyed' \/ \E a \in pending' : a.kind = "key" /\ a.node = e.val /\ a.t < e.t
      BY <1>1, <3>1 DEF Ready
    <3>3. \A a \in pending : IsFill(a) => a \in pending'
      BY <1>1, <1>2
    <3> QED BY <1>1, <1>3, <3>1, <3>2, <3>3 DEF Ready
  <2>3. ASSUME NEW e \in pending', IsFill(e) PROVE Awaited(e)'
    <3>1. PICK a \in pending :
            /\ IsRelease(a) /\ a.val = e.node /\ a.level = e.level /\ e.t < a.t
            /\ IsNext(e.val, e.node, Sent(a.t, a.level))
      BY <1>1, <2>3 DEF IInv, StoresOrdered, Awaited
    <3> QED BY <1>1, <1>2, <1>3, <3>1 DEF Awaited
  <2> QED BY <2>1, <2>2, <2>3 DEF StoresOrdered
<1>6. \A l \in Level : Issued(l)' = Issued(l)
  BY <1>1, <1>3 DEF Issued
<1>7. WriterList'
  BY <1>1, <1>6 DEF IInv, WriterList
<1> QED BY <1>1, <1>4, <1>5, <1>6, <1>7

\* A store becomes visible to the readers.
LEMMA CommitStep ==
  ASSUME IInv, NEW s \in pending, Commit(s)
  PROVE  IInv'
<1>1. /\ ReadersList' /\ StoresOrdered' /\ WriterList'
      /\ \A l \in Level : Issued(l)' = Issued(l)
      /\ \A l \in Level : linked[l] \subseteq linked'[l]
      /\ keyed \subseteq keyed' /\ (s.kind = "key" => s.node \in keyed')
  <2>1. CASE IsRelease(s)
    BY <2>1, CommitRelease DEF IsRelease
  <2>2. CASE IsFill(s)
    BY <2>2, CommitFill DEF IsFill
  <2>3. CASE s.kind # "nexts_"
    BY <2>3, CommitPlain
  <2> QED BY <2>1, <2>2, <2>3 DEF IsRelease, IsFill
<1>2. /\ pending' = pending \ {s}
      /\ UNCHANGED <<ownHeight, locals, pc, x, level, key, node_>>
  BY DEF Commit, locals, search, results
<1>3. ReaderPlace'
  BY <1>1, <1>2, ReadersStay
<1>4. WriterPlace'
  BY <1>1, <1>2, WriterStays
<1> QED BY <1>1, <1>3, <1>4, CommitType DEF IInv

-----------------------------------------------------------------------------
(* The theorems.                                                           *)

\* Every step preserves the invariant.
LEMMA NextIInv == IInv /\ [Next]_vars => IInv'
<1> SUFFICES ASSUME IInv, [Next]_vars PROVE IInv'
  OBVIOUS
<1>1. ASSUME NEW p \in Threads, Advance(p) PROVE IInv'
  BY <1>1, AdvanceStep
<1>2. ASSUME NEW p \in Threads, Descend(p) PROVE IInv'
  BY <1>2, DescendStep
<1>3. ASSUME NEW r \in Readers, ReaderNext(r) PROVE IInv'
  BY <1>3, ReaderNextStep
<1>4. CASE WriterNext
  BY <1>4, WriterNextStep
<1>5. ASSUME NEW s \in pending, Commit(s) PROVE IInv'
  BY <1>5, CommitStep
<1>6. CASE UNCHANGED vars
  <2>1. UNCHANGED <<memory, stores, locals, pc, x, level, key, node_, found>>
    BY <1>6 DEF vars, search, results
  <2>2. (ReadersList /\ StoresOrdered /\ WriterList)' /\ \A l \in Level : Issued(l)' = Issued(l)
    BY <2>1, MemoryStays
  <2>3. TypeOK'
    BY <2>1 DEF IInv, TypeOK, memory, stores, locals, setNext, noBarrierSetNext, storeKey, storeMaxHeight, Store
  <2>4. ReaderPlace'
    BY <2>1, ReadersStay DEF memory
  <2>5. WriterPlace'
    BY <2>1, <2>2, WriterStays DEF memory, stores
  <2> QED BY <2>2, <2>3, <2>4, <2>5 DEF IInv
<1> QED BY <1>1, <1>2, <1>3, <1>4, <1>5, <1>6 DEF Next

\* The invariant is inductive.
THEOREM Inductive == Spec => []IInv
  BY InitIInv, NextIInv, PTL DEF Spec

\* Every variable of the list, of the threads and of the store buffer keeps
\* its type, whatever the interleaving of searches, inserts and commits.
THEOREM SkipListTypeOK == Spec => []TypeOK
<1>1. IInv => TypeOK
  BY DEF IInv
<1> QED BY <1>1, Inductive, PTL

\* No thread reads an uninitialised link, an unwritten key or an unset entry
\* of prev[] (skiplist.h 70-88, 118-123).
THEOREM SkipListSafeReads == Spec => []SafeReads
<1>1. IInv => SafeReads
  <2> SUFFICES ASSUME IInv PROVE SafeReads
    OBVIOUS
  <2>1. ASSUME NEW p \in Threads, pc[p] \in Searching
        PROVE  NextOf(p) # Uninit /\ NextOf(p) \in View(p) \union {Null}
    BY <2>1, Place, NextInList
  <2>2. ASSUME NEW r \in Readers, pc[r] \in Searching
        PROVE  NextOf(r) \in keyed \union {Null}
    <3>1. r \in Threads /\ r # Writer /\ level[r] \in Level
      BY DEF Threads, IInv, TypeOK
    <3>2. View(r) = linked[level[r]]
      BY <3>1 DEF View
    <3> QED BY <2>1, <2>2, <3>1, <3>2 DEF IInv, ReadersList
  <2>3. ASSUME NEW r \in Readers, node_[r] # Null
        PROVE  node_[r] \in keyed /\ nexts_[node_[r]][0] # Uninit
    <3>1. node_[r] \in linked[0] /\ 0 \in Level /\ linked[0] \subseteq Keys
      BY <2>3 DEF IInv, ReaderPlace, TypeOK, Level
    <3>2. node_[r] \in keyed /\ IsNext(nexts_[node_[r]][0], node_[r], linked[0])
      BY <3>1 DEF IInv, ReadersList
    <3> QED BY <3>1, <3>2, NextInList
  <2>4. ASSUME pc[Writer] = "link" PROVE prev[level[Writer]] # Uninit
    <3>1. level[Writer] \in Level /\ level[Writer] <= level[Writer]
      BY DEF IInv, TypeOK, Threads, Level
    <3>2. IsPred(prev[level[Writer]], key[Writer], Issued(level[Writer]))
      BY <2>4, <3>1 DEF IInv, WriterPlace
    <3> QED BY <3>2 DEF IsPred, Issued, Sent
  <2> QED BY <2>1, <2>2, <2>3, <2>4 DEF SafeReads
<1> QED BY <1>1, Inductive, PTL

\* What the readers see at every level is always a sorted list of exactly the
\* keys published there, and the levels are nested (skiplist.h 118-123).
THEOREM SkipListLevelLists == Spec => []LevelLists
<1>1. IInv => LevelLists
  <2> SUFFICES ASSUME IInv, NEW l \in Level
               PROVE  /\ l > 0 => linked[l] \subseteq linked[l - 1]
                      /\ \A n \in linked[l] \union {Head} :
                           LET after == IF n = Head THEN linked[l] ELSE {k \in linked[l] : k > n}
                               m     == nexts_[n][l]
                           IN  IF after = {} THEN m = Null
                                             ELSE m \in after /\ \A k \in after : m <= k
    BY DEF LevelLists
  <2>1. l > 0 => linked[l] \subseteq linked[l - 1]
    BY DEF IInv, ReadersList, Level
  <2>2. linked[l] \subseteq Keys
    BY DEF IInv, TypeOK
  <2>3. ASSUME NEW n \in linked[l] \union {Head}, NEW m, m = nexts_[n][l],
               NEW after, after = IF n = Head THEN linked[l] ELSE {k \in linked[l] : k > n}
        PROVE  IF after = {} THEN m = Null ELSE m \in after /\ \A k \in after : m <= k
    <3>1. IsNext(m, n, linked[l])
      BY <2>3 DEF IInv, ReadersList
    <3>2. \A k : k \in after <=> k \in linked[l] /\ Before(n, k)
      BY <2>2, <2>3 DEF Before
    <3> QED BY <2>2, <3>1, <3>2 DEF IsNext
  <2> QED BY <2>1, <2>3
<1> QED BY <1>1, Inductive, PTL

\* The assertions of insert (skiplist.h 108) and findLessThan (196) hold.
THEOREM SkipListAssertions == Spec => []Assertions
<1>1. IInv => Assertions
  <2> SUFFICES ASSUME IInv PROVE Assertions
    OBVIOUS
  <2>1. ASSUME pc[Writer] = "insert", Bottom(Writer) PROVE NextOf(Writer) # key[Writer]
    <3>1. Writer \in Threads /\ pc[Writer] \in Searching /\ View(Writer) = Issued(0)
      BY <2>1 DEF Threads, Searching, Bottom, View
    <3>2. NextOf(Writer) \in Issued(0) \union {Null}
      BY <3>1, Place, NextInList
    <3>3. key[Writer] \in Keys /\ key[Writer] \notin Issued(0)
      BY <2>1 DEF IInv, WriterPlace
    <3> QED BY <3>2, <3>3
  <2>2. ASSUME NEW r \in Readers, pc[r] = "prev" PROVE x[r] = Head \/ x[r] < key[r]
    BY <2>2 DEF IInv, ReaderPlace, Searching, Before
  <2> QED BY <2>1, <2>2 DEF Assertions
<1> QED BY <1>1, Inductive, PTL

-----------------------------------------------------------------------------
(* The skip list implements the ordered set.                               *)

\* A step that publishes nothing on level 0 and that no reader takes.
LEMMA Stutters ==
  ASSUME \A r \in Readers : pc'[r] = pc[r] /\ key'[r] = key[r],
         linked'[0] = linked[0], UNCHANGED <<node_, found>>
  PROVE  UNCHANGED Abstract!vars
  BY DEF Abstract!vars

\* A step of reader r, as the ordered set sees it.
LEMMA OneReader ==
  ASSUME IInv, NEW r \in Readers, NEW o, NEW k,
         pc' = [pc EXCEPT ![r] = o], key' = [key EXCEPT ![r] = k]
  PROVE  /\ [q \in Readers |-> pc'[q]] = [[q \in Readers |-> pc[q]] EXCEPT ![r] = o]
         /\ [q \in Readers |-> key'[q]] = [[q \in Readers |-> key[q]] EXCEPT ![r] = k]
  BY DEF IInv, TypeOK, Threads

\* Calling an operation is calling it on the ordered set.
LEMMA RefinesCall ==
  ASSUME IInv, NEW r \in Readers, NEW o, NEW k, Call(r, o, k),
         UNCHANGED <<memory, stores, locals, results>>
  PROVE  Abstract!Call(r, o, k)
<1>1. pc[r] = "idle" /\ pc' = [pc EXCEPT ![r] = o] /\ key' = [key EXCEPT ![r] = k]
      /\ UNCHANGED <<linked, node_, found>>
  BY DEF Call, memory, results
<1> QED BY <1>1, OneReader DEF Abstract!Call

\* What a search returns is an answer that the ordered set may give.
LEMMA RefinesReturn ==
  ASSUME IInv, NEW r \in Readers, SearchReturns(r)
  PROVE  Abstract!Respond(r)
<1> DEFINE last == IF x[r] = Head THEN Null ELSE x[r]
           set  == linked[0]
<1>1. /\ Bottom(r) /\ UNCHANGED linked
      /\ pc' = [pc EXCEPT ![r] = "idle"] /\ key' = [key EXCEPT ![r] = Null]
      /\ node_' = [node_ EXCEPT ![r] = CASE pc[r] = "seek"                   -> NextOf(r)
                                         [] pc[r] \in {"prev", "seekToLast"} -> last
                                         [] pc[r] = "contains"               -> node_[r]]
      /\ found' = IF pc[r] = "contains" THEN [found EXCEPT ![r] = NextOf(r) = key[r]] ELSE found
  BY DEF SearchReturns, Leave, memory, IInv, TypeOK
<1>2. /\ pc[r] \in {"contains", "seek", "prev", "seekToLast"}
      /\ set \subseteq Keys /\ x[r] \in set \union {Head}
      /\ IsNext(NextOf(r), x[r], set) /\ NextOf(r) \in set \union {Null}
      /\ pc[r] = "seekToLast" => NextOf(r) = Null
      /\ pc[r] # "seekToLast" =>
           key[r] \in Keys /\ Before(x[r], key[r]) /\ ~keyIsAfterNode(key[r], NextOf(r))
  BY <1>1, BottomFacts
<1>3. pc[r] # "seekToLast" => IsPred(x[r], key[r], set)
  BY <1>2, StopsAtPred
<1>4. ASSUME pc[r] \in {"seek", "contains"}
      PROVE  /\ {k \in set : k >= key[r]} = {} => NextOf(r) = Null
             /\ {k \in set : k >= key[r]} # {} => NextOf(r) \in {k \in set : k >= key[r]}
             /\ \A j \in {k \in set : k >= key[r]} : NextOf(r) <= j
  <2>0. set \subseteq Int /\ key[r] \in Int /\ Head \notin set
    BY <1>2, <1>4
  <2>1. ASSUME NEW j \in set PROVE Before(x[r], j) <=> j >= key[r]
    <3>1. IsPred(x[r], key[r], set)
      BY <1>3, <1>4
    <3>2. j < key[r] => ~Before(x[r], j)
      BY <3>1 DEF IsPred
    <3>3. j >= key[r] => Before(x[r], j)
      BY <2>0, <3>1 DEF IsPred, Before
    <3> QED BY <2>0, <3>2, <3>3
  <2>2. CASE NextOf(r) = Null
    BY <1>2, <2>1, <2>2 DEF IsNext
  <2>3. CASE NextOf(r) # Null
    BY <1>2, <2>1, <2>3 DEF IsNext
  <2> QED BY <2>2, <2>3
<1>5. pc[r] = "contains" => (NextOf(r) = key[r] <=> key[r] \in set)
  <2>1. ASSUME pc[r] = "contains", key[r] \in set PROVE NextOf(r) = key[r]
    <3>a. key[r] \in Int
      BY <1>2, <2>1
    <3>1. key[r] \in {k \in set : k >= key[r]} /\ key[r] \in Int
      BY <2>1, <3>a
    <3>0. {k \in set : k >= key[r]} # {}
      BY <3>1
    <3>2. NextOf(r) \in {k \in set : k >= key[r]} /\ NextOf(r) <= key[r]
      <4> HIDE DEF set
      <4> QED BY <1>4, <2>1, <3>0, <3>1
    <3>3. NextOf(r) \in Int
      BY <1>2, <3>2
    <3> QED BY <3>1, <3>2, <3>3
  <2>2. ASSUME pc[r] = "contains", NextOf(r) = key[r] PROVE key[r] \in set
    BY <1>2, <2>2
  <2> QED BY <2>1, <2>2
<1>6. ASSUME pc[r] = "prev" PROVE Abstract!IsLast(last, {k \in set : k < key[r]})
  <2>1. CASE x[r] = Head
    <3>1. {k \in set : k < key[r]} = {}
      BY <1>3, <1>6, <2>1 DEF IsPred, Before
    <3> QED BY <2>1, <3>1 DEF Abstract!IsLast
  <2>2. CASE x[r] # Head
    <3>1. x[r] \in {k \in set : k < key[r]}
      BY <1>2, <1>6, <2>2 DEF Before
    <3>2. ASSUME NEW j \in {k \in set : k < key[r]} PROVE j <= x[r]
      <4>1. ~Before(x[r], j) /\ j \in Int /\ x[r] \in Int
        BY <1>2, <1>3, <1>6, <2>2 DEF IsPred
      <4> QED BY <4>1 DEF Before
    <3> QED BY <2>2, <3>1, <3>2 DEF Abstract!IsLast
  <2> QED BY <2>1, <2>2
<1>7. ASSUME pc[r] = "seekToLast" PROVE Abstract!IsLast(last, set)
  <2>1. \A j \in set : ~Before(x[r], j)
    BY <1>2, <1>7 DEF IsNext
  <2>2. CASE x[r] = Head
    <3>1. set = {}
      BY <2>1, <2>2 DEF Before
    <3> QED BY <2>2, <3>1 DEF Abstract!IsLast
  <2>3. CASE x[r] # Head
    <3>0. x[r] \in set /\ x[r] \in Int /\ set \subseteq Int
      BY <1>2, <2>3
    <3>1. x[r] \in set /\ \A j \in set : j <= x[r]
      BY <2>1, <2>3, <3>0 DEF Before
    <3> QED BY <2>3, <3>1 DEF Abstract!IsLast
  <2> QED BY <2>2, <2>3
<1>8. ASSUME pc[r] = "seek" PROVE Abstract!IsFirst(NextOf(r), {k \in set : k >= key[r]})
  BY <1>4, <1>8 DEF Abstract!IsFirst
<1> DEFINE m == CASE pc[r] = "seek"                   -> NextOf(r)
                  [] pc[r] \in {"prev", "seekToLast"} -> last
                  [] pc[r] = "contains"               -> node_[r]
<1>9. m \in Keys \union {Null} /\ Abstract!Position(r, m)
  <2>1. CASE pc[r] = "seek"
    BY <1>2, <1>8, <2>1 DEF Abstract!Position
  <2>2. CASE pc[r] = "prev"
    BY <1>2, <1>6, <2>2 DEF Abstract!Position
  <2>3. CASE pc[r] = "seekToLast"
    BY <1>2, <1>7, <2>3 DEF Abstract!Position
  <2>4. CASE pc[r] = "contains"
    BY <2>4 DEF Abstract!Position, IInv, TypeOK
  <2> QED BY <1>2, <2>1, <2>2, <2>3, <2>4
<1>10. \E q \in Keys \union {Null} : Abstract!Position(r, q) /\ node_' = [node_ EXCEPT ![r] = q]
  BY <1>1, <1>9
<1>11. found' = IF pc[r] = "contains" THEN [found EXCEPT ![r] = key[r] \in set] ELSE found
  <2>1. CASE pc[r] = "contains"
    <3>1. (NextOf(r) = key[r]) = (key[r] \in set)
      BY <1>5, <2>1
    <3> QED BY <1>1, <2>1, <3>1
  <2>2. CASE pc[r] # "contains"
    BY <1>1, <2>2
  <2> QED BY <2>1, <2>2
<1>12. UNCHANGED linked[0] /\ pc[r] # "idle"
  BY <1>1, <1>2
<1> QED BY <1>1, <1>10, <1>11, <1>12, OneReader DEF Abstract!Respond

\* next() and seekToFirst() load one link.
LEMMA RefinesLoad ==
  ASSUME IInv, NEW r \in Readers
  PROVE  /\ IteratorNext(r) => Abstract!next(r)
         /\ IteratorSeekToFirst(r) => Abstract!seekToFirst(r)
<1>1. linked[0] \subseteq Keys
  BY DEF IInv, TypeOK, Level
<1>2. ASSUME IteratorNext(r) PROVE Abstract!next(r)
  <2>1. /\ pc[r] = "idle" /\ node_[r] # Null /\ node_' = [node_ EXCEPT ![r] = Load(r, node_[r], 0)]
        /\ UNCHANGED <<memory, stores, locals, search, found>>
        /\ UNCHANGED <<linked, pc, key, found>>
    BY <1>2 DEF IteratorNext, memory, search
  <2>2. node_[r] \in linked[0] /\ node_[r] # Head
    BY <1>1, <2>1 DEF IInv, ReaderPlace
  <2>3. /\ IsNext(Load(r, node_[r], 0), node_[r], linked[0])
        /\ Load(r, node_[r], 0) \in linked[0] \union {Null}
    BY <2>1, <2>2, LoadStep
  <2>4. Abstract!IsFirst(Load(r, node_[r], 0), {k \in linked[0] : k > node_[r]})
    <3>1. CASE Load(r, node_[r], 0) = Null
      <4>1. {k \in linked[0] : k > node_[r]} = {}
        BY <1>1, <2>2, <2>3, <3>1 DEF IsNext, Before
      <4> QED BY <3>1, <4>1 DEF Abstract!IsFirst
    <3>2. CASE Load(r, node_[r], 0) # Null
      <4>1. /\ Load(r, node_[r], 0) \in {k \in linked[0] : k > node_[r]}
            /\ \A j \in {k \in linked[0] : k > node_[r]} : Load(r, node_[r], 0) <= j
        BY <1>1, <2>2, <2>3, <3>2 DEF IsNext, Before
      <4> QED BY <4>1 DEF Abstract!IsFirst
    <3> QED BY <3>1, <3>2
  <2> QED BY <1>1, <2>1, <2>3, <2>4 DEF Abstract!next
<1>3. ASSUME IteratorSeekToFirst(r) PROVE Abstract!seekToFirst(r)
  <2>1. /\ pc[r] = "idle" /\ node_' = [node_ EXCEPT ![r] = Load(r, Head, 0)]
        /\ UNCHANGED <<memory, stores, locals, search, found>>
        /\ UNCHANGED <<linked, pc, key, found>>
    BY <1>3 DEF IteratorSeekToFirst, memory, search
  <2>2. IsNext(Load(r, Head, 0), Head, linked[0]) /\ Load(r, Head, 0) \in linked[0] \union {Null}
    BY <2>1, LoadStep
  <2>3. Abstract!IsFirst(Load(r, Head, 0), linked[0])
    <3>1. CASE Load(r, Head, 0) = Null
      <4>1. linked[0] = {}
        BY <2>2, <3>1 DEF IsNext, Before
      <4> QED BY <3>1, <4>1 DEF Abstract!IsFirst
    <3>2. CASE Load(r, Head, 0) # Null
      <4>1. Load(r, Head, 0) \in linked[0] /\ \A j \in linked[0] : Load(r, Head, 0) <= j
        BY <2>2, <3>2 DEF IsNext, Before
      <4> QED BY <4>1 DEF Abstract!IsFirst
    <3> QED BY <3>1, <3>2
  <2> QED BY <1>1, <2>1, <2>2, <2>3 DEF Abstract!seekToFirst
<1> QED BY <1>2, <1>3

\* Every step of a reader is one of the ordered set's.
LEMMA RefinesReader ==
  ASSUME IInv, NEW r \in Readers, ReaderNext(r)
  PROVE  Abstract!Next
<1>1. ASSUME NEW k \in Keys, contains(r, k) PROVE Abstract!Next
  BY <1>1, RefinesCall DEF contains, Abstract!Next, Abstract!contains
<1>2. ASSUME NEW k \in Keys, IteratorSeek(r, k) PROVE Abstract!Next
  BY <1>2, RefinesCall DEF IteratorSeek, Abstract!Next, Abstract!seek
<1>3. CASE IteratorSeekToLast(r)
  BY <1>3, RefinesCall DEF IteratorSeekToLast, Abstract!Next, Abstract!seekToLast
<1>4. CASE IteratorPrev(r)
  <2>0. PICK k : k = node_[r]
    OBVIOUS
  <2>1. Call(r, "prev", k) /\ UNCHANGED <<memory, stores, locals, results>> /\ node_[r] # Null
    BY <1>4, <2>0 DEF IteratorPrev
  <2>2. Abstract!Call(r, "prev", k)
    BY <2>1, RefinesCall
  <2>3. Abstract!prev(r)
    BY <2>0, <2>1, <2>2 DEF Abstract!prev, Abstract!Call
  <2> QED BY <2>3 DEF Abstract!Next
<1>5. CASE IteratorNext(r) \/ IteratorSeekToFirst(r)
  BY <1>5, RefinesLoad DEF Abstract!Next
<1>6. CASE SearchReturns(r)
  BY <1>6, RefinesReturn DEF Abstract!Next
<1> QED BY <1>1, <1>2, <1>3, <1>4, <1>5, <1>6 DEF ReaderNext

\* The writer's steps touch no reader and publish nothing: a key is inserted
\* when the store that links it on level 0 becomes visible.
LEMMA WriterNextQuiet ==
  ASSUME IInv, WriterNext
  PROVE  /\ UNCHANGED <<linked, node_, found>>
         /\ \A r \in Readers : pc'[r] = pc[r] /\ key'[r] = key[r]
<1>1. UNCHANGED <<linked, node_, found>>
  BY DEF WriterNext, insert, InsertFound, newNode, newNodeThrows, Link, memory, results
<1>2. ASSUME NEW r \in Readers PROVE pc'[r] = pc[r] /\ key'[r] = key[r]
  <2>1. r # Writer /\ r \in Threads /\ DOMAIN pc = Threads /\ DOMAIN key = Threads
    BY DEF Threads, IInv, TypeOK
  <2>2. ASSUME NEW k \in Keys, insert(k) PROVE pc'[r] = pc[r] /\ key'[r] = key[r]
    BY <2>1, <2>2 DEF insert, Call
  <2>3. CASE InsertFound
    BY <2>1, <2>3 DEF InsertFound
  <2>4. ASSUME NEW h \in 1 .. MaxHeight, newNode(h) PROVE pc'[r] = pc[r] /\ key'[r] = key[r]
    BY <2>1, <2>4 DEF newNode
  <2>5. ASSUME LeaveInsert PROVE pc'[r] = pc[r] /\ key'[r] = key[r]
    BY <2>1, <2>5 DEF LeaveInsert, Leave
  <2>6. CASE Link
    BY <2>5, <2>6 DEF Link
  <2> QED BY <2>2, <2>3, <2>4, <2>5, <2>6 DEF WriterNext, newNodeThrows
<1> QED BY <1>1, <1>2

\* What the writer does is invisible until a store is.
LEMMA RefinesWriter ==
  ASSUME IInv, WriterNext
  PROVE  UNCHANGED Abstract!vars
  BY WriterNextQuiet, Stutters

\* A store that publishes a node on level 0 is the insert; others are invisible.
LEMMA RefinesCommit ==
  ASSUME IInv, NEW s \in pending, Commit(s)
  PROVE  Abstract!Next \/ UNCHANGED Abstract!vars
<1>1. UNCHANGED <<pc, key, node_, found>>
  BY DEF Commit, search, results
<1>2. CASE IsRelease(s) /\ s.level = 0
  <2>1. s.val \in Keys /\ s.val \notin linked[0] /\ linked'[0] = linked[0] \union {s.val}
    <3>1. linked' = [linked EXCEPT ![0] = @ \union {s.val}]
      BY <1>2, CommitRelease
    <3>2. s.val \in Keys /\ s.val \notin linked[0] /\ 0 \in Level
      BY <1>2, CommitRelease
    <3>3. linked \in [Level -> SUBSET Keys]
      BY DEF IInv, TypeOK
    <3> QED BY <3>1, <3>2, <3>3
  <2> QED BY <1>1, <2>1 DEF Abstract!Next, Abstract!Insert
<1>3. CASE ~(IsRelease(s) /\ s.level = 0)
  <2>1. linked'[0] = linked[0]
    <3>1. CASE IsRelease(s)
      <4>1. linked' = [linked EXCEPT ![s.level] = @ \union {s.val}] /\ s.level # 0
        BY <1>3, <3>1, CommitRelease
      <4>2. linked \in [Level -> SUBSET Keys] /\ 0 \in Level
        BY DEF IInv, TypeOK, Level
      <4> QED BY <4>1, <4>2
    <3>2. CASE ~IsRelease(s)
      BY <3>2 DEF Commit, IsRelease
    <3> QED BY <3>1, <3>2
  <2> QED BY <1>1, <2>1, Stutters
<1> QED BY <1>2, <1>3

\* The skip list implements the ordered set of OrderedSet: every contains,
\* seek, prev, next, seekToFirst and seekToLast returns what is right for the
\* published keys at one instant of the call (skiplist.h 168-230).
THEOREM SkipListLinearizable == Spec => Linearizable
<1>1. Init => Abstract!Init
  BY DEF Init, Abstract!Init, Threads, Level
<1>2. IInv /\ [Next]_vars => [Abstract!Next]_(Abstract!vars)
  <2> SUFFICES ASSUME IInv, [Next]_vars PROVE Abstract!Next \/ UNCHANGED Abstract!vars
    OBVIOUS
  <2>1. ASSUME NEW p \in Threads, Advance(p) \/ Descend(p) PROVE UNCHANGED Abstract!vars
    BY <2>1, Stutters DEF Advance, Descend, memory, results
  <2>2. CASE UNCHANGED vars
    BY <2>2, Stutters DEF vars, memory, search, results
  <2> QED BY <2>1, <2>2, RefinesReader, RefinesWriter, RefinesCommit DEF Next
<1> QED BY <1>1, <1>2, Inductive, PTL DEF Spec, Linearizable, Abstract!Spec

-----------------------------------------------------------------------------
(* A scan of the list.  Its steps are steps of the ordered set that the    *)
(* skip list implements; the argument uses only these.                     *)

\* What the history of a reader's scan says at any time.
ScanPlace(r) ==
  /\ pc[r] \in {"idle", "seek"}
  /\ from[r] \in Keys \union {Null}
  /\ snap[r] \subseteq linked[0] /\ seen[r] \subseteq linked[0]
  /\ pc[r] = "seek" => seen[r] = {} /\ key[r] = from[r] /\ from[r] \in Keys
  /\ pc[r] = "idle" /\ node_[r] # Null => node_[r] \in seen[r]

Scans ==
  /\ from \in [Readers -> Keys \union {Null}]
  /\ snap \in [Readers -> SUBSET Keys] /\ seen \in [Readers -> SUBSET Keys]
  /\ \A r \in Readers : ScanPlace(r)

ScanInv == IInv /\ Scans /\ ScanMissesNothing /\ ScanOrdered

\* A step of SkipList that is part of no scan.
LEMMA ScanStays ==
  ASSUME ScanInv, UNCHANGED <<node_, from, snap, seen>>, linked[0] \subseteq linked'[0],
         \A r \in Readers : pc'[r] = pc[r] /\ key'[r] = key[r]
  PROVE  (Scans /\ ScanMissesNothing /\ ScanOrdered)'
<1>1. Scans'
  BY DEF ScanInv, Scans, ScanPlace
<1>2. ScanMissesNothing' /\ ScanOrdered'
  BY DEF ScanInv, ScanMissesNothing, ScanOrdered
<1> QED BY <1>1, <1>2

\* A step of reader r leaves the scans of the others alone.
OnlyScan(r) ==
  /\ \A q \in Readers : q # r =>
       /\ pc'[q] = pc[q] /\ key'[q] = key[q] /\ node_'[q] = node_[q]
       /\ from'[q] = from[q] /\ snap'[q] = snap[q] /\ seen'[q] = seen[q]
  /\ UNCHANGED linked
  /\ from' \in [Readers -> Keys \union {Null}]
  /\ snap' \in [Readers -> SUBSET Keys] /\ seen' \in [Readers -> SUBSET Keys]

\* A step of reader r that keeps the promises to r keeps all of them.
LEMMA OtherScans ==
  ASSUME ScanInv, NEW r \in Readers, OnlyScan(r), ScanPlace(r)',
         pc'[r] = "idle" =>
           \A j \in snap'[r] : /\ from'[r] = Null \/ from'[r] <= j
                               /\ node_'[r] = Null \/ j < node_'[r]
                               => j \in seen'[r],
         pc'[r] = "idle" =>
           \A j \in seen'[r] : /\ from'[r] = Null \/ from'[r] <= j
                               /\ node_'[r] = Null \/ j <= node_'[r]
  PROVE  (Scans /\ ScanMissesNothing /\ ScanOrdered)'
<1>1. Scans'
  <2>1. \A q \in Readers : ScanPlace(q)'
    BY DEF ScanInv, Scans, ScanPlace, OnlyScan
  <2> QED BY <2>1 DEF Scans, OnlyScan
<1>2. ScanMissesNothing'
  BY DEF ScanInv, ScanMissesNothing, OnlyScan
<1>3. ScanOrdered'
  BY DEF ScanInv, ScanOrdered, OnlyScan
<1> QED BY <1>1, <1>2, <1>3

\* The types that the steps need.
LEMMA ScanTypes ==
  ASSUME ScanInv
  PROVE  /\ DOMAIN pc = Threads /\ DOMAIN key = Threads /\ DOMAIN node_ = Readers
         /\ from \in [Readers -> Keys \union {Null}]
         /\ snap \in [Readers -> SUBSET Keys] /\ seen \in [Readers -> SUBSET Keys]
         /\ Readers \subseteq Threads
  BY DEF ScanInv, IInv, TypeOK, Scans, Threads

\* The reader's links are among the published keys; comparing them is sound.
LEMMA ScanKeys ==
  ASSUME ScanInv
  PROVE  linked[0] \subseteq Int /\ linked[0] \subseteq Keys /\ Null \notin linked[0]
<1>1. 0 \in Level
  BY DEF Level
<1>2. linked[0] \subseteq Keys
  BY <1>1 DEF ScanInv, IInv, TypeOK
<1> QED BY <1>2

\* A scan begins with a seek.
LEMMA SeekStep ==
  ASSUME ScanInv, NEW r \in Readers, NEW k \in Keys, IteratorSeek(r, k), Begin(r, k),
         seen' = [seen EXCEPT ![r] = {}]
  PROVE  (Scans /\ ScanMissesNothing /\ ScanOrdered)'
<1>1. /\ pc' = [pc EXCEPT ![r] = "seek"] /\ key' = [key EXCEPT ![r] = k]
      /\ UNCHANGED <<linked, node_>>
  BY DEF IteratorSeek, Call, memory, results
<1>2. node_' = [node_ EXCEPT ![r] = node_[r]]
  BY <1>1 DEF ScanInv, IInv, TypeOK
<1>3. PICK m : m = node_[r]
  OBVIOUS
<1>4. PICK a : a = linked[0]
  OBVIOUS
<1>5. from' = [from EXCEPT ![r] = k] /\ snap' = [snap EXCEPT ![r] = a]
      /\ node_' = [node_ EXCEPT ![r] = m] /\ a \subseteq linked[0] /\ {} \subseteq linked[0]
  BY <1>2, <1>3, <1>4 DEF Begin
<1>6. /\ OnlyScan(r) /\ pc'[r] = "seek" /\ key'[r] = k
      /\ from'[r] = k /\ snap'[r] = a /\ seen'[r] = {}
  <2>1. a \subseteq Keys /\ {} \subseteq Keys
    BY <1>5, ScanKeys
  <2> QED BY <1>1, <1>5, <2>1, ScanTypes DEF OnlyScan
<1>7. ScanPlace(r)'
  BY <1>1, <1>5, <1>6 DEF ScanPlace
<1> QED BY <1>6, <1>7, OtherScans

\* The key a load or a search leaves under the iterator is recorded.
LEMMA VisitStep ==
  ASSUME ScanInv, NEW r \in Readers, NEW old, NEW m, node_' = [node_ EXCEPT ![r] = m], Visit(r, old)
  PROVE  seen' = [seen EXCEPT ![r] = (old \union {m}) \ {Null}]
  BY DEF Visit, ScanInv, IInv, TypeOK

\* A scan begins at the first key.
LEMMA FirstStep ==
  ASSUME ScanInv, NEW r \in Readers, IteratorSeekToFirst(r), Begin(r, Null), Visit(r, {})
  PROVE  (Scans /\ ScanMissesNothing /\ ScanOrdered)'
<1>1. PICK a : a = linked[0]
  OBVIOUS
<1>2. a \subseteq Int /\ Null \notin a /\ 0 \in Level
  BY <1>1, ScanKeys DEF Level
<1>3. PICK m \in Keys \union {Null} : Abstract!IsFirst(m, a) /\ node_' = [node_ EXCEPT ![r] = m]
  BY <1>1, RefinesLoad DEF Abstract!seekToFirst, ScanInv
<1>4. PICK b : b = {m} \ {Null}
  OBVIOUS
<1>5. /\ pc[r] = "idle" /\ UNCHANGED <<linked, pc, key>>
      /\ pc' = [pc EXCEPT ![r] = "idle"] /\ key' = [key EXCEPT ![r] = key[r]]
  BY DEF IteratorSeekToFirst, memory, search, ScanInv, IInv, TypeOK
<1>6. from' = [from EXCEPT ![r] = Null] /\ snap' = [snap EXCEPT ![r] = a]
      /\ seen' = [seen EXCEPT ![r] = b]
  <2>1. seen' = [seen EXCEPT ![r] = ({} \union {m}) \ {Null}]
    BY <1>3, VisitStep
  <2>2. b = ({} \union {m}) \ {Null}
    BY <1>4
  <2> QED BY <1>1, <2>1, <2>2 DEF Begin
<1>7. /\ b \subseteq a
      /\ \A j \in a : m = Null \/ j < m => j \in b
      /\ \A j \in b : m = Null \/ j <= m
      /\ m # Null => m \in b
  BY <1>2, <1>3, <1>4 DEF Abstract!IsFirst
<1>8. PICK k : key' = [key EXCEPT ![r] = k]
  BY <1>5
<1>9. a \subseteq linked[0] /\ b \subseteq linked[0]
  BY <1>1, <1>7
<1>10. /\ OnlyScan(r) /\ pc'[r] = "idle" /\ node_'[r] = m
       /\ from'[r] = Null /\ snap'[r] = a /\ seen'[r] = b
  <2>1. a \subseteq Keys /\ b \subseteq Keys
    BY <1>9, ScanKeys
  <2> QED BY <1>3, <1>5, <1>6, <1>8, <1>9, <2>1, ScanTypes DEF OnlyScan
<1>11. ScanPlace(r)'
  BY <1>5, <1>7, <1>9, <1>10 DEF ScanPlace
<1> QED BY <1>7, <1>10, <1>11, OtherScans

\* The seek returns, and the scan meets its first key.
LEMMA ReturnStep ==
  ASSUME ScanInv, NEW r \in Readers, SearchReturns(r), Visit(r, {}), UNCHANGED <<from, snap>>
  PROVE  (Scans /\ ScanMissesNothing /\ ScanOrdered)'
<1>1. PICK S : S = linked[0]
  OBVIOUS
<1>2. S \subseteq Int /\ Null \notin S
  BY <1>1, ScanKeys
<1>3. PICK f : f = from[r]
  OBVIOUS
<1>4. PICK a : a = snap[r]
  OBVIOUS
<1>5. pc[r] = "seek" /\ key[r] = f /\ f \in Keys /\ a \subseteq S
  BY <1>1, <1>3, <1>4 DEF SearchReturns, Bottom, Searching, ScanInv, Scans, ScanPlace
<1>6. PICK m \in Keys \union {Null} :
        Abstract!IsFirst(m, {k \in S : k >= f}) /\ node_' = [node_ EXCEPT ![r] = m]
  <2>1. Abstract!Respond(r)
    BY RefinesReturn DEF ScanInv
  <2>2. PICK m \in Keys \union {Null} : Abstract!Position(r, m) /\ node_' = [node_ EXCEPT ![r] = m]
    BY <2>1 DEF Abstract!Respond
  <2>3. Abstract!IsFirst(m, {k \in S : k >= f})
    BY <1>1, <1>5, <2>2 DEF Abstract!Position, Abstract!IsFirst
  <2> QED BY <2>2, <2>3
<1>7. PICK b : b = {m} \ {Null}
  OBVIOUS
<1>8. /\ UNCHANGED linked
      /\ pc' = [pc EXCEPT ![r] = "idle"] /\ key' = [key EXCEPT ![r] = Null]
  BY DEF SearchReturns, Leave, memory
<1>9. from' = [from EXCEPT ![r] = f] /\ snap' = [snap EXCEPT ![r] = a]
      /\ seen' = [seen EXCEPT ![r] = b]
  <2>1. seen' = [seen EXCEPT ![r] = ({} \union {m}) \ {Null}]
    BY <1>6, VisitStep
  <2>2. b = ({} \union {m}) \ {Null}
    BY <1>7
  <2> QED BY <1>3, <1>4, <2>1, <2>2 DEF ScanInv, Scans
<1>10. f \in Int /\ f # Null
  BY <1>5
<1>11. ASSUME NEW j \in S, f <= j, m = Null \/ j < m PROVE FALSE
  <2>1. j \in {k \in S : k >= f}
    BY <1>2, <1>10, <1>11
  <2>2. m \in {k \in S : k >= f} /\ m <= j
    BY <1>6, <2>1 DEF Abstract!IsFirst
  <2> QED BY <1>2, <1>11, <2>2
<1>12. m # Null => m \in S /\ f <= m
  BY <1>2, <1>6, <1>10 DEF Abstract!IsFirst
<1>13. /\ b \subseteq S
       /\ \A j \in a : f <= j /\ (m = Null \/ j < m) => j \in b
       /\ \A j \in b : f <= j /\ j <= m
       /\ m # Null => m \in b
  BY <1>2, <1>5, <1>7, <1>11, <1>12
<1>14. a \subseteq linked[0] /\ b \subseteq linked[0]
  BY <1>1, <1>5, <1>13
<1>15. /\ OnlyScan(r) /\ pc'[r] = "idle" /\ node_'[r] = m
       /\ from'[r] = f /\ snap'[r] = a /\ seen'[r] = b
  <2>1. a \subseteq Keys /\ b \subseteq Keys
    BY <1>14, ScanKeys
  <2> QED BY <1>5, <1>6, <1>8, <1>9, <1>14, <2>1, ScanTypes DEF OnlyScan
<1>16. ScanPlace(r)'
  BY <1>5, <1>8, <1>13, <1>14, <1>15 DEF ScanPlace
<1> QED BY <1>10, <1>13, <1>15, <1>16, OtherScans

\* The scan meets the next key.
LEMMA ForwardStep ==
  ASSUME ScanInv, NEW r \in Readers, IteratorNext(r), Visit(r, seen[r]), UNCHANGED <<from, snap>>
  PROVE  (Scans /\ ScanMissesNothing /\ ScanOrdered)'
<1>1. PICK S : S = linked[0]
  OBVIOUS
<1>2. PICK n : n = node_[r]
  OBVIOUS
<1>3. PICK f : f = from[r]
  OBVIOUS
<1>4. PICK a : a = snap[r]
  OBVIOUS
<1>5. PICK s : s = seen[r]
  OBVIOUS
<1>6. S \subseteq Int /\ Null \notin S
  BY <1>1, ScanKeys
<1>7. /\ pc[r] = "idle" /\ n # Null /\ UNCHANGED <<linked, pc, key>>
      /\ pc' = [pc EXCEPT ![r] = "idle"] /\ key' = [key EXCEPT ![r] = key[r]]
  BY <1>2 DEF IteratorNext, memory, search, ScanInv, IInv, TypeOK
<1>8. n \in s /\ s \subseteq S /\ a \subseteq S /\ f \in Keys \union {Null}
  BY <1>1, <1>2, <1>3, <1>4, <1>5, <1>7 DEF ScanInv, Scans, ScanPlace
<1>9. /\ \A j \in a : (f = Null \/ f <= j) /\ j < n => j \in s
      /\ \A j \in s : (f = Null \/ f <= j) /\ j <= n
  BY <1>2, <1>3, <1>4, <1>5, <1>7 DEF ScanInv, ScanMissesNothing, ScanOrdered
<1>10. PICK m \in Keys \union {Null} :
         Abstract!IsFirst(m, {k \in S : k > n}) /\ node_' = [node_ EXCEPT ![r] = m]
  BY <1>1, <1>2, RefinesLoad DEF Abstract!next, ScanInv, Abstract!IsFirst
<1>11. PICK b : b = (s \union {m}) \ {Null}
  OBVIOUS
<1>12. from' = [from EXCEPT ![r] = f] /\ snap' = [snap EXCEPT ![r] = a]
       /\ seen' = [seen EXCEPT ![r] = b]
  <2>1. Visit(r, s)
    BY <1>5 DEF Visit
  <2>2. seen' = [seen EXCEPT ![r] = b]
    BY <1>10, <1>11, <2>1, VisitStep
  <2> QED BY <1>3, <1>4, <2>2 DEF ScanInv, Scans
<1>13. m # Null => m \in S /\ n < m
  BY <1>6, <1>10 DEF Abstract!IsFirst
<1>14. ASSUME NEW j \in a, f = Null \/ f <= j, m = Null \/ j < m PROVE j \in b
  <2>1. CASE j < n
    BY <1>6, <1>8, <1>9, <1>11, <1>14, <2>1
  <2>2. CASE j = n
    BY <1>6, <1>8, <1>11, <2>2
  <2>3. CASE n < j
    <3>1. j \in {k \in S : k > n}
      BY <1>6, <1>8, <2>3
    <3>2. m \in S /\ m <= j
      BY <1>10, <3>1 DEF Abstract!IsFirst
    <3> QED BY <1>6, <1>8, <1>14, <3>2
  <2> QED BY <1>6, <1>8, <2>1, <2>2, <2>3
<1>15. ASSUME NEW j \in b PROVE (f = Null \/ f <= j) /\ (m = Null \/ j <= m)
  <2>1. n \in Int /\ j \in Int /\ (f = Null \/ f \in Int) /\ (m = Null \/ m \in Int)
    BY <1>6, <1>8, <1>11, <1>13
  <2>2. f = Null \/ f <= n
    BY <1>8, <1>9
  <2>3. CASE j \in s
    BY <1>9, <1>13, <2>1, <2>3
  <2>4. CASE j = m
    BY <1>11, <1>13, <2>1, <2>2, <2>4
  <2> QED BY <1>11, <2>3, <2>4
<1>16. b \subseteq S /\ (m # Null => m \in b)
  BY <1>8, <1>11, <1>13
<1>17. PICK k : key' = [key EXCEPT ![r] = k]
  BY <1>7
<1>18. a \subseteq linked[0] /\ b \subseteq linked[0]
  BY <1>1, <1>8, <1>16
<1>19. /\ OnlyScan(r) /\ pc'[r] = "idle" /\ node_'[r] = m
       /\ from'[r] = f /\ snap'[r] = a /\ seen'[r] = b
  <2>1. a \subseteq Keys /\ b \subseteq Keys
    BY <1>18, ScanKeys
  <2> QED BY <1>7, <1>8, <1>10, <1>12, <1>17, <1>18, <2>1, ScanTypes DEF OnlyScan
<1>20. ScanPlace(r)'
  BY <1>7, <1>8, <1>16, <1>18, <1>19 DEF ScanPlace
<1> QED BY <1>14, <1>15, <1>19, <1>20, OtherScans

\* Every step preserves the invariant.
LEMMA ScanNextInv == ScanInv /\ [ScanNext]_scanVars => ScanInv'
<1> SUFFICES ASSUME ScanInv, [ScanNext]_scanVars PROVE ScanInv'
  OBVIOUS
<1>1. [Next]_vars
  BY DEF ScanNext, scanVars, Next, ReaderNext
<1>2. IInv'
  BY <1>1, NextIInv DEF ScanInv
<1>3. CASE UNCHANGED scanVars
  BY <1>2, <1>3, ScanStays DEF scanVars, vars, memory, search, results, ScanInv
<1>4. ASSUME NEW p \in Threads, Advance(p) \/ Descend(p), UNCHANGED <<from, snap, seen>>
      PROVE  ScanInv'
  BY <1>2, <1>4, ScanStays DEF Advance, Descend, memory, results, ScanInv
<1>5. ASSUME WriterNext, UNCHANGED <<from, snap, seen>> PROVE ScanInv'
  BY <1>2, <1>5, WriterNextQuiet, ScanStays DEF ScanInv
<1>6. ASSUME NEW s \in pending, Commit(s), UNCHANGED <<from, snap, seen>> PROVE ScanInv'
  <2>1. linked[0] \subseteq linked'[0]
    <3>1. CASE IsRelease(s)
      BY <1>6, <3>1, CommitRelease DEF ScanInv, Level
    <3>2. CASE ~IsRelease(s)
      BY <1>6, <3>2 DEF Commit, IsRelease
    <3> QED BY <3>1, <3>2
  <2>2. UNCHANGED <<pc, key, node_>>
    BY <1>6 DEF Commit, search, results
  <2> QED BY <1>2, <1>6, <2>1, <2>2, ScanStays DEF ScanInv
<1>7. ASSUME NEW r \in Readers, NEW k \in Keys, IteratorSeek(r, k), Begin(r, k),
             seen' = [seen EXCEPT ![r] = {}]
      PROVE  ScanInv'
  BY <1>2, <1>7, SeekStep DEF ScanInv
<1>8. ASSUME NEW r \in Readers, IteratorSeekToFirst(r), Begin(r, Null), Visit(r, {}) PROVE ScanInv'
  BY <1>2, <1>8, FirstStep DEF ScanInv
<1>9. ASSUME NEW r \in Readers, SearchReturns(r), Visit(r, {}), UNCHANGED <<from, snap>>
      PROVE  ScanInv'
  BY <1>2, <1>9, ReturnStep DEF ScanInv
<1>10. ASSUME NEW r \in Readers, IteratorNext(r), Visit(r, seen[r]), UNCHANGED <<from, snap>>
       PROVE  ScanInv'
  BY <1>2, <1>10, ForwardStep DEF ScanInv
<1> QED BY <1>3, <1>4, <1>5, <1>6, <1>7, <1>8, <1>9, <1>10 DEF ScanNext

\* The invariant holds in every behaviour.
LEMMA ScanInductive == ScanSpec => []ScanInv
<1>1. ScanInit => ScanInv
  <2> SUFFICES ASSUME ScanInit PROVE ScanInv
    OBVIOUS
  <2>1. IInv
    BY InitIInv DEF ScanInit
  <2>2. Scans
    BY DEF ScanInit, Init, Scans, ScanPlace, Threads
  <2>3. ScanMissesNothing /\ ScanOrdered
    BY DEF ScanInit, ScanMissesNothing, ScanOrdered
  <2> QED BY <2>1, <2>2, <2>3 DEF ScanInv
<1> QED BY <1>1, ScanNextInv, PTL DEF ScanSpec

\* A scan with seek or seekToFirst and next meets every key that was published
\* when it began and lies between its start and its position, while inserts go
\* on (skiplist_test.cc 124-131).
THEOREM SkipListScanMissesNothing == ScanSpec => []ScanMissesNothing
<1>1. ScanInv => ScanMissesNothing
  BY DEF ScanInv
<1> QED BY <1>1, ScanInductive, PTL

\* A scan never goes back and never meets a key before its target
\* (skiplist_test.cc 240).
THEOREM SkipListScanOrdered == ScanSpec => []ScanOrdered
<1>1. ScanInv => ScanOrdered
  BY DEF ScanInv
<1> QED BY <1>1, ScanInductive, PTL
=============================================================================
