-------------------------------- MODULE Arena --------------------------------
(***************************************************************************)
(* src/util/arena.h and arena.cc: the allocator behind the skip list.  It  *)
(* hands out pieces of blocks it gets from operator new[] and frees them   *)
(* all at once in its destructor.  A pointer is a block and an offset;     *)
(* operator new[] aligns the start of a block for every type, so only      *)
(* the offset matters for alignment.                                       *)
(***************************************************************************)
EXTENDS Integers, Sequences, FiniteSets, Functions

CONSTANTS
  BlockSize,  \* kBlockSize
  PtrSize,    \* sizeof(char*)
  Requests,   \* the sizes that are asked for
  MaxAllocs,  \* bound on the number of allocations
  MaxLost     \* bound on the number of exceptions that lose a block

ASSUME SizeAssumption == BlockSize \in Nat \ {0} /\ PtrSize \in Nat
ASSUME RequestAssumption == Requests \subseteq Nat \ {0}
ASSUME BoundAssumption == MaxAllocs \in Nat /\ MaxLost \in Nat

\* align: sizeof(void*) is at most 8.
Align == 8

VARIABLES
  alloc_ptr_,             \* [block, off]; block 0 is nullptr
  alloc_bytes_remaining_,
  blocks_,                \* the blocks the arena knows of
  memory_usage_,
  heap,                   \* heap[b]: the size of the b-th block of operator new[]
  live,                   \* the blocks that are not deleted
  alive,                  \* the arena is not destroyed
  allocs,                 \* history: the pieces handed out
  retired,                \* history: what was left in the blocks given up
  lost                    \* history: the blocks that an exception kept from blocks_

vars == <<alloc_ptr_, alloc_bytes_remaining_, blocks_, memory_usage_,
          heap, live, alive, allocs, retired, lost>>

Pointer == [block : Nat, off : Nat]
Piece   == [block : Nat, off : Nat, size : Nat, aligned : BOOLEAN]

TypeOK ==
  /\ alloc_ptr_ \in Pointer
  /\ alloc_bytes_remaining_ \in Nat
  /\ blocks_ \in Seq(Nat)
  /\ memory_usage_ \in Nat
  /\ heap \in Seq(Nat)
  /\ live \subseteq 1 .. Len(heap)
  /\ alive \in BOOLEAN
  /\ allocs \subseteq Piece
  /\ retired \subseteq [block : Nat, left : Nat]
  /\ lost \subseteq 1 .. Len(heap)

Init ==
  /\ alloc_ptr_ = [block |-> 0, off |-> 0]
  /\ alloc_bytes_remaining_ = 0
  /\ blocks_ = <<>>
  /\ memory_usage_ = 0
  /\ heap = <<>>
  /\ live = {}
  /\ alive = TRUE
  /\ allocs = {}
  /\ retired = {}
  /\ lost = {}

-----------------------------------------------------------------------------
HandOut(b, o, bytes, aligned) ==
  allocs' = allocs \union
              {[block |-> b, off |-> o, size |-> bytes, aligned |-> aligned]}

\* Take bytes from the current block after skipping slop bytes.
Bump(slop, bytes, aligned) ==
  /\ HandOut(alloc_ptr_.block, alloc_ptr_.off + slop, bytes, aligned)
  /\ alloc_ptr_' = [alloc_ptr_ EXCEPT !.off = @ + slop + bytes]
  /\ alloc_bytes_remaining_' = alloc_bytes_remaining_ - (slop + bytes)
  /\ UNCHANGED <<blocks_, memory_usage_, heap, live, alive, retired, lost>>

\* Variant with a defect: the new block is not pushed on blocks_.
allocateNewBlock_NotRecorded(bytes) ==
  /\ heap' = Append(heap, bytes)
  /\ live' = live \union {Len(heap) + 1}
  /\ blocks_' = blocks_
  /\ memory_usage_' = memory_usage_ + bytes + PtrSize

\* Variant with a defect: the usage counts the block without its pointer.
allocateNewBlock_NoPointer(bytes) ==
  /\ heap' = Append(heap, bytes)
  /\ live' = live \union {Len(heap) + 1}
  /\ blocks_' = Append(blocks_, Len(heap) + 1)
  /\ memory_usage_' = memory_usage_ + bytes

allocateNewBlock(bytes) ==
  /\ heap' = Append(heap, bytes)
  /\ live' = live \union {Len(heap) + 1}
  /\ blocks_' = Append(blocks_, Len(heap) + 1)
  /\ memory_usage_' = memory_usage_ + bytes + PtrSize

\* A block of its own; the current block stays current.
LargePiece(bytes, aligned) ==
  /\ allocateNewBlock(bytes)
  /\ HandOut(Len(heap) + 1, 0, bytes, aligned)
  /\ UNCHANGED <<alloc_ptr_, alloc_bytes_remaining_, alive, retired, lost>>

\* A new current block; the rest of the old one is given up.
FreshBlock(bytes, aligned) ==
  /\ allocateNewBlock(BlockSize)
  /\ HandOut(Len(heap) + 1, 0, bytes, aligned)
  /\ alloc_ptr_' = [block |-> Len(heap) + 1, off |-> bytes]
  /\ alloc_bytes_remaining_' = BlockSize - bytes
  /\ retired' = retired \union
       {[block |-> alloc_ptr_.block, left |-> alloc_bytes_remaining_]}
  /\ UNCHANGED <<alive, lost>>

\* Variant with a defect: a request has its own block only if it needs one.
allocateFallback_NoQuarter(bytes, aligned) ==
  IF bytes > BlockSize THEN LargePiece(bytes, aligned)
                       ELSE FreshBlock(bytes, aligned)

allocateFallback(bytes, aligned) ==
  IF bytes > BlockSize \div 4 THEN LargePiece(bytes, aligned)
                              ELSE FreshBlock(bytes, aligned)

Ready == alive /\ Cardinality(allocs) < MaxAllocs

\* Variant with a defect: off by one, the request may run over the block's end.
allocate_Overrun(bytes) ==
  /\ Ready
  /\ IF bytes <= alloc_bytes_remaining_ + 1
       THEN Bump(0, bytes, FALSE) ELSE allocateFallback(bytes, FALSE)

allocate(bytes) ==
  /\ Ready
  /\ IF bytes <= alloc_bytes_remaining_
       THEN Bump(0, bytes, FALSE) ELSE allocateFallback(bytes, FALSE)

\* The bytes to skip so that the next piece is aligned.
Slop ==
  LET current_mod == alloc_ptr_.off % Align
  IN  IF current_mod = 0 THEN 0 ELSE Align - current_mod

\* Variant with a defect: the fast path forgets the slop.
allocateAligned_NoSlop(bytes) ==
  /\ Ready
  /\ IF bytes + Slop <= alloc_bytes_remaining_
       THEN Bump(0, bytes, TRUE) ELSE allocateFallback(bytes, TRUE)

allocateAligned(bytes) ==
  /\ Ready
  /\ IF bytes + Slop <= alloc_bytes_remaining_
       THEN Bump(Slop, bytes, TRUE) ELSE allocateFallback(bytes, TRUE)

\* The block that operator new[] returns for such a request is in no list.
LoseBlock(bytes) ==
  /\ heap' = Append(heap, IF bytes > BlockSize \div 4 THEN bytes ELSE BlockSize)
  /\ live' = live \union {Len(heap) + 1}
  /\ lost' = lost \union {Len(heap) + 1}

\* Variant with a defect: alloc_bytes_remaining_ is set before the block is there.
push_backThrows_ResetFirst(bytes) ==
  /\ Ready /\ Cardinality(lost) < MaxLost
  /\ bytes + Slop > alloc_bytes_remaining_
  /\ LoseBlock(bytes)
  /\ alloc_bytes_remaining_' = BlockSize
  /\ UNCHANGED <<alloc_ptr_, blocks_, memory_usage_, alive, allocs, retired>>

\* A request needs a new block, and push_back throws after operator new[] has
\* returned: the block is there and nobody knows it, and the arena is as it was
\* before.  (If operator new[] itself throws, nothing happens at all.)
push_backThrows(bytes) ==
  /\ Ready /\ Cardinality(lost) < MaxLost
  /\ bytes + Slop > alloc_bytes_remaining_
  /\ LoseBlock(bytes)
  /\ UNCHANGED <<alloc_ptr_, alloc_bytes_remaining_, blocks_, memory_usage_,
                 alive, allocs, retired>>

\* ~Arena deletes every block it knows of.
Destroy ==
  /\ alive
  /\ alive' = FALSE
  /\ live' = live \ Range(blocks_)
  /\ UNCHANGED <<alloc_ptr_, alloc_bytes_remaining_, blocks_, memory_usage_,
                 heap, allocs, retired, lost>>

Next ==
  \/ \E bytes \in Requests :
       allocate(bytes) \/ allocateAligned(bytes) \/ push_backThrows(bytes)
  \/ Destroy

Spec == Init /\ [][Next]_vars

-----------------------------------------------------------------------------
(* Properties.                                                             *)

\* The pieces handed out lie inside their blocks and never overlap, however
\* the bump path, the blocks for large requests and the change of the current
\* block alternate, and also after an exception (arena.h:42-50,
\* arena.cc:17-46).
PiecesDisjoint ==
  /\ \A a \in allocs : a.block \in DOMAIN heap /\ a.off + a.size <= heap[a.block]
  /\ \A a, b \in allocs :
       \/ a = b \/ a.block # b.block
       \/ a.off + a.size <= b.off \/ b.off + b.size <= a.off

\* The assertion of arena.cc:48, for the bump path and the fallback alike.
PiecesAligned == \A a \in allocs : a.aligned => a.off % Align = 0

\* Giving up a block wastes less than a quarter of it plus what the alignment
\* of the request that did not fit asked for: what the rule of arena.cc:18-19
\* is there for.
LittleWaste == \A q \in retired : q.left < BlockSize \div 4 + (Align - 1)

\* memoryUsage() is exactly the memory of the blocks in blocks_ and of the
\* pointers to them (arena.cc:52-57), also after an exception, whose block is not
\* counted; it covers every byte handed out (test/arena_test.cc:42).
UsageExact ==
  /\ memory_usage_ = FoldFunctionOnSet(+, 0, heap, Range(blocks_)) + PtrSize * Len(blocks_)
  /\ FoldFunction(+, 0, [a \in allocs |-> a.size]) <= memory_usage_

\* The destructor deletes each block of blocks_ once (arena.cc:9-13), and the
\* only blocks that outlive the arena are the ones an exception lost: no piece
\* handed out is in one of them.
OnlyLostRemain ==
  /\ alive => Range(blocks_) = live \ lost /\ Cardinality(live \ lost) = Len(blocks_)
  /\ ~alive => live = lost
  /\ \A a \in allocs : a.block \notin lost
=============================================================================
