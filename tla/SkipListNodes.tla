---------------------------- MODULE SkipListNodes ----------------------------
(***************************************************************************)
(* How the skip list of src/database/skiplist.h gets its nodes: a height   *)
(* from its random generator, and memory for so many links from the arena, *)
(* which other users draw on as well.  nexts_ is declared with one element *)
(* and used with height elements, so nothing but this arithmetic keeps the *)
(* links of a node inside its own memory.                                  *)
(***************************************************************************)
EXTENDS Arena, Random

CONSTANTS
  MaxHeight,   \* s_max_height_
  KeySize,     \* the bytes of a Node before nexts_
  LinkSize,    \* sizeof(std::atomic<Node*>)
  kBranching

ASSUME HeightAssumption == MaxHeight \in Nat \ {0} /\ kBranching \in Nat \ {0}
ASSUME LayoutAssumption ==
  /\ KeySize \in Nat /\ LinkSize \in Nat \ {0}
  /\ KeySize % Align = 0 /\ LinkSize % Align = 0

VARIABLES
  nodes,   \* the nodes in the order they were built; the first one is head_
  rnd_,    \* the seed_ of the list's generator, 0 before there is a list
  drawn    \* the height in randomHeight's loop, 0 when no insert is there

nodeVars == <<nodes, rnd_, drawn>>

\* sizeof(Node) + sizeof(std::atomic<Node*>) * (height - 1).
NodeBytes(height) == KeySize + LinkSize + LinkSize * (height - 1)

ASSUME RequestsOfNodes == \A h \in 1 .. MaxHeight : NodeBytes(h) \in Requests

NodesInit == Init /\ nodes = <<>> /\ rnd_ = 0 /\ drawn = 0

-----------------------------------------------------------------------------
\* Variant with a defect: the request leaves out the link that Node declares.
newNode_NoFirst(height) ==
  /\ allocateAligned(KeySize + LinkSize * (height - 1))
  /\ \E p \in allocs' \ allocs :
       nodes' = Append(nodes, [block |-> p.block, off |-> p.off, height |-> height])

\* The new node is where the arena put it.
newNode(height) ==
  /\ allocateAligned(NodeBytes(height))
  /\ \E p \in allocs' \ allocs :
       nodes' = Append(nodes, [block |-> p.block, off |-> p.off, height |-> height])

\* The constructor: head_ has all the links.
SkipList(s) ==
  /\ nodes = <<>>
  /\ newNode(MaxHeight)
  /\ rnd_' = Seed(s)
  /\ UNCHANGED drawn

\* insert calls randomHeight, whose loop starts at height 1.
insert ==
  /\ Ready /\ nodes # <<>> /\ drawn = 0
  /\ drawn' = 1
  /\ UNCHANGED <<vars, nodes, rnd_>>

\* The loop goes round once more.
Climb ==
  /\ drawn \in 1 .. MaxHeight - 1
  /\ oneIn(rnd_, kBranching)
  /\ rnd_' = next(rnd_) /\ drawn' = drawn + 1
  /\ UNCHANGED <<vars, nodes>>

\* The loop ends: at the highest level the generator is not asked.
randomHeightReturns ==
  \/ drawn \in 1 .. MaxHeight - 1 /\ ~oneIn(rnd_, kBranching) /\ rnd_' = next(rnd_)
  \/ drawn = MaxHeight /\ UNCHANGED rnd_

\* The height has been drawn when the arena may throw.
InsertBuilds ==
  /\ randomHeightReturns
  /\ newNode(drawn) \/ (push_backThrows(NodeBytes(drawn)) /\ UNCHANGED nodes)
  /\ drawn' = 0

\* The other users of the arena run in the thread that inserts.
NodesNext ==
  \/ \E s \in 0 .. 2 * M + 1 : SkipList(s)
  \/ insert \/ Climb \/ InsertBuilds
  \/ drawn = 0 /\ Next /\ UNCHANGED nodeVars

NodesSpec == NodesInit /\ [][NodesNext]_<<vars, nodeVars>>

-----------------------------------------------------------------------------
(* Properties.                                                             *)

\* Every link of every node, up to its height, is aligned memory inside a block
\* that the arena still owns, and belongs to nobody else: neither to another
\* node nor to another user of the arena (skiplist.h:140-144).  No node is
\* higher than head_, so a search that begins at the top level of any node
\* stays inside head_'s links (line 95).
LinksIntact ==
  alive => \A i \in DOMAIN nodes :
    LET n == nodes[i]
    IN  /\ n.height <= nodes[1].height
        /\ n.block \in live
        /\ \A l \in 0 .. n.height - 1 :
             LET first == n.off + KeySize + LinkSize * l
             IN  /\ first % Align = 0
                 /\ first + LinkSize <= heap[n.block]
                 /\ \A p \in allocs :
                      \/ p.block # n.block \/ p.off = n.off
                      \/ first + LinkSize <= p.off \/ p.off + p.size <= first

\* The generator is the one its comment describes, (seed_ * A) % M computed
\* without a division, and seed_ stays in [1, M-1]: it never gets stuck at 0 or
\* M, where all heights would be equal (random.h:17-33).
SeedFollows ==
  nodes # <<>> => rnd_ \in 1 .. M - 1 /\ next(rnd_) = (rnd_ * A) % M
=============================================================================
