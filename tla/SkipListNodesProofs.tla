------------------------ MODULE SkipListNodesProofs -------------------------
(***************************************************************************)
(* The arena is correct for every block size, every set of request sizes   *)
(* and any number of allocations; the nodes that the skip list takes from  *)
(* it keep to their own memory, and its generator computes the products it *)
(* should, for every node layout, height, modulus and multiplier.          *)
(***************************************************************************)
EXTENDS SkipListNodes, NumberTheorems

-----------------------------------------------------------------------------
(* The arena.                                                              *)

\* alloc_ptr_ and alloc_bytes_remaining_ delimit the free end of the current
\* block: they add up to its size, and no piece reaches beyond alloc_ptr_.
Frontier ==
  /\ alloc_ptr_.block \in 0 .. Len(heap)
  /\ alloc_ptr_.block = 0 => alloc_bytes_remaining_ = 0
  /\ alloc_ptr_.block # 0 =>
       alloc_ptr_.off + alloc_bytes_remaining_ = heap[alloc_ptr_.block]
  /\ \A a \in allocs :
       a.block = alloc_ptr_.block => a.off + a.size <= alloc_ptr_.off

\* blocks_ lists every block once except the lost ones, and neither alloc_ptr_ nor
\* a piece is in a lost block.
Ledger ==
  /\ Range(blocks_) = (1 .. Len(heap)) \ lost
  /\ IsFiniteSet(Range(blocks_)) /\ Cardinality(Range(blocks_)) = Len(blocks_)
  /\ live = IF alive THEN 1 .. Len(heap) ELSE lost
  /\ alloc_ptr_.block \notin lost
  /\ \A a \in allocs : a.block \notin lost

IInv ==
  TypeOK /\ Frontier /\ Ledger /\ PiecesDisjoint /\ PiecesAligned /\ LittleWaste

USE SizeAssumption, RequestAssumption

\* A new arena has no block and nothing handed out.
LEMMA InitIInv == Init => IInv
<1> SUFFICES ASSUME Init PROVE IInv
  OBVIOUS
<1>1. TypeOK /\ Frontier /\ PiecesDisjoint /\ PiecesAligned /\ LittleWaste
  BY DEF Init, TypeOK, Frontier, PiecesDisjoint, PiecesAligned, LittleWaste,
         Pointer, Piece
<1>2. Range(blocks_) = {}
  BY DEF Init, Range
<1>3. Ledger
  <2>1. IsFiniteSet({}) /\ Cardinality({}) = 0
    BY FS_EmptySet, Zenon
  <2>2. /\ Len(heap) = 0 /\ Len(blocks_) = 0 /\ 1 .. 0 = {} /\ lost = {} /\ live = {}
        /\ allocs = {} /\ alive
    BY DEF Init
  <2>3. Range(blocks_) = (1 .. Len(heap)) \ lost /\ live = 1 .. Len(heap)
    BY <1>2, <2>2
  <2>4. IsFiniteSet(Range(blocks_)) /\ Cardinality(Range(blocks_)) = Len(blocks_)
    BY <1>2, <2>1, <2>2, Zenon
  <2> QED BY <2>2, <2>3, <2>4 DEF Ledger
<1> QED BY <1>1, <1>3 DEF IInv

\* One more element in a sequence is one more element in its range.
LEMMA RangeGrows ==
  ASSUME NEW s \in Seq(Nat), NEW n \in Nat, NEW t, t = Append(s, n)
  PROVE  Range(t) = Range(s) \union {n}
<1>1. /\ Len(s) \in Nat /\ DOMAIN s = 1 .. Len(s) /\ DOMAIN t = 1 .. Len(s) + 1
      /\ t[Len(s) + 1] = n
  OBVIOUS
<1>2. \A i \in 1 .. Len(s) : t[i] = s[i]
  OBVIOUS
<1>3. \A i \in DOMAIN t : i = Len(s) + 1 \/ i \in 1 .. Len(s)
  BY <1>1
<1>4. \A x \in Range(t) : x = n \/ x \in Range(s)
  BY <1>1, <1>2, <1>3 DEF Range
<1>5. n \in Range(t)
  BY <1>1 DEF Range
<1>6. ASSUME NEW x \in Range(s) PROVE x \in Range(t)
  <2>1. PICK i \in DOMAIN s : x = s[i]
    BY DEF Range
  <2>2. i \in DOMAIN t /\ t[i] = x
    BY <1>1, <1>2, <2>1
  <2> QED BY <2>2 DEF Range
<1> QED BY <1>4, <1>5, <1>6

\* A bump that fits in the current block.
LEMMA BumpStep ==
  ASSUME IInv, NEW bytes \in Requests, NEW slop \in Nat, NEW aligned \in BOOLEAN,
         slop + bytes <= alloc_bytes_remaining_,
         aligned => (alloc_ptr_.off + slop) % Align = 0,
         Bump(slop, bytes, aligned)
  PROVE  IInv'
<1> DEFINE piece == [block |-> alloc_ptr_.block, off |-> alloc_ptr_.off + slop,
                     size |-> bytes, aligned |-> aligned]
<1>1. /\ allocs' = allocs \union {piece}
      /\ alloc_ptr_' = [block |-> alloc_ptr_.block,
                        off |-> alloc_ptr_.off + slop + bytes]
      /\ alloc_bytes_remaining_' = alloc_bytes_remaining_ - (slop + bytes)
      /\ UNCHANGED <<blocks_, memory_usage_, heap, live, alive, retired, lost>>
  BY DEF Bump, HandOut, IInv, TypeOK, Pointer
<1>2. bytes \in Nat \ {0} /\ alloc_ptr_.block \in Nat /\ alloc_ptr_.off \in Nat
      /\ alloc_bytes_remaining_ \in Nat
  BY DEF IInv, TypeOK, Pointer
<1>3. alloc_ptr_.block # 0 /\ alloc_ptr_.block \in 1 .. Len(heap)
  BY <1>2 DEF IInv, TypeOK, Frontier
<1>4. piece \in Piece
  BY <1>2 DEF Piece
<1>5. TypeOK'
  <2>1. alloc_ptr_' \in Pointer
    BY <1>1, <1>2 DEF Pointer
  <2>2. alloc_bytes_remaining_' \in Nat
    BY <1>1, <1>2
  <2>3. allocs' \subseteq Piece
    BY <1>1, <1>4 DEF IInv, TypeOK
  <2> QED BY <1>1, <2>1, <2>2, <2>3, Zenon DEF IInv, TypeOK
<1>6. Frontier'
  <2>1. /\ alloc_ptr_'.block = alloc_ptr_.block
        /\ alloc_ptr_'.off = alloc_ptr_.off + slop + bytes
        /\ heap' = heap
    BY <1>1
  <2>2. alloc_ptr_'.off + alloc_bytes_remaining_' = heap[alloc_ptr_.block]
    BY <1>1, <1>2, <1>3, <2>1 DEF IInv, Frontier
  <2>3. ASSUME NEW a \in allocs', a.block = alloc_ptr_'.block
        PROVE  a.off + a.size <= alloc_ptr_'.off
    <3>1. CASE a = piece
      BY <1>2, <2>1, <3>1
    <3>2. CASE a \in allocs
      <4>1. a.off + a.size <= alloc_ptr_.off
        BY <2>1, <2>3, <3>2 DEF IInv, Frontier
      <4>2. a.off \in Nat /\ a.size \in Nat
        BY <3>2 DEF IInv, TypeOK, Piece
      <4> QED BY <1>2, <2>1, <4>1, <4>2
    <3> QED BY <1>1, <2>3, <3>1, <3>2
  <2>4. alloc_ptr_'.block \in 0 .. Len(heap') /\ alloc_ptr_'.block # 0
    BY <1>3, <2>1 DEF IInv, Frontier
  <2> QED BY <2>1, <2>2, <2>3, <2>4 DEF Frontier
<1>7. Ledger' /\ LittleWaste'
  <2>1. LittleWaste'
    BY <1>1 DEF IInv, LittleWaste
  <2>2. \A a \in allocs' : a.block \notin lost
    BY <1>1 DEF IInv, Ledger
  <2>3. alloc_ptr_'.block \notin lost
    BY <1>1 DEF IInv, Ledger
  <2> QED BY <1>1, <2>1, <2>2, <2>3 DEF IInv, Ledger
<1>8. PiecesDisjoint'
  <2>1. allocs \subseteq Piece /\ heap \in Seq(Nat)
    BY DEF IInv, TypeOK
  <2>2. piece.off + piece.size <= heap[piece.block] /\ piece.block \in DOMAIN heap
    BY <1>2, <1>3, <2>1 DEF IInv, Frontier
  <2>3. \A a \in allocs : a.block # piece.block \/ a.off + a.size <= piece.off
    <3> SUFFICES ASSUME NEW a \in allocs, a.block = alloc_ptr_.block
                 PROVE  a.off + a.size <= alloc_ptr_.off + slop
      OBVIOUS
    <3>1. a.off + a.size <= alloc_ptr_.off
      BY DEF IInv, Frontier
    <3>2. a.off \in Nat /\ a.size \in Nat
      BY <2>1 DEF Piece
    <3> QED BY <1>2, <3>1, <3>2
  <2>4. \A a \in allocs' : a.block \in DOMAIN heap' /\ a.off + a.size <= heap'[a.block]
    BY <1>1, <2>2 DEF IInv, PiecesDisjoint
  <2>5. \A a, b \in allocs' :
          \/ a = b \/ a.block # b.block
          \/ a.off + a.size <= b.off \/ b.off + b.size <= a.off
    <3> HIDE DEF piece
    <3> QED BY <1>1, <2>3 DEF IInv, PiecesDisjoint
  <2> QED BY <2>4, <2>5 DEF PiecesDisjoint
<1>9. PiecesAligned'
  BY <1>1 DEF IInv, PiecesAligned
<1> QED BY <1>5, <1>6, <1>7, <1>8, <1>9 DEF IInv

\* A new block at the end of the heap changes nothing for the old ones.
LEMMA NewBlock ==
  ASSUME IInv, alive, alive' = alive, lost' = lost, NEW bytes \in Nat,
         allocateNewBlock(bytes),
         alloc_ptr_'.block \in {alloc_ptr_.block, Len(heap) + 1},
         \A a \in allocs' : a \in allocs \/ a.block = Len(heap) + 1
  PROVE  /\ heap' \in Seq(Nat) /\ Len(heap') = Len(heap) + 1
         /\ heap'[Len(heap) + 1] = bytes
         /\ \A b \in 1 .. Len(heap) : heap'[b] = heap[b]
         /\ live' \subseteq 1 .. Len(heap') /\ memory_usage_' \in Nat
         /\ blocks_' \in Seq(Nat) /\ lost' \subseteq 1 .. Len(heap')
         /\ Ledger'
<1>1. heap \in Seq(Nat) /\ memory_usage_ \in Nat /\ PtrSize \in Nat
      /\ blocks_ \in Seq(Nat) /\ Len(heap) \in Nat /\ lost \subseteq 1 .. Len(heap)
  BY DEF IInv, TypeOK
<1>2. heap' = Append(heap, bytes) /\ live' = live \union {Len(heap) + 1}
      /\ blocks_' = Append(blocks_, Len(heap) + 1)
      /\ memory_usage_' = memory_usage_ + bytes + PtrSize
  BY DEF allocateNewBlock
<1>3. /\ heap' \in Seq(Nat) /\ Len(heap') = Len(heap) + 1
      /\ heap'[Len(heap) + 1] = bytes
      /\ \A b \in 1 .. Len(heap) : heap'[b] = heap[b]
  BY <1>1, <1>2
<1>4. /\ Range(blocks_) = (1 .. Len(heap)) \ lost /\ IsFiniteSet(Range(blocks_))
      /\ Cardinality(Range(blocks_)) = Len(blocks_) /\ live = 1 .. Len(heap)
  BY DEF IInv, Ledger
<1>5. live' = 1 .. Len(heap')
  BY <1>1, <1>2, <1>3, <1>4
<1>6. Range(blocks_') = Range(blocks_) \union {Len(heap) + 1}
  <2>1. PICK s, t, n : s = blocks_ /\ t = blocks_' /\ n = Len(heap) + 1
    OBVIOUS
  <2>2. s \in Seq(Nat) /\ n \in Nat /\ t = Append(s, n)
    BY <1>1, <1>2, <2>1
  <2>3. Range(t) = Range(s) \union {n}
    BY <2>2, RangeGrows, Zenon
  <2> QED BY <2>1, <2>3, Zenon
<1>7. Len(heap) + 1 \notin Range(blocks_) /\ Len(heap) + 1 \notin lost
  BY <1>1, <1>4
<1>8. Range(blocks_') = (1 .. Len(heap')) \ lost'
  BY <1>1, <1>3, <1>4, <1>6, <1>7
<1>9. /\ IsFiniteSet(Range(blocks_'))
      /\ Cardinality(Range(blocks_')) = Cardinality(Range(blocks_)) + 1
  <2>1. PICK S, T, n : S = Range(blocks_) /\ T = Range(blocks_') /\ n = Len(heap) + 1
    OBVIOUS
  <2>2. IsFiniteSet(S) /\ n \notin S /\ T = S \union {n}
    BY <1>4, <1>6, <1>7, <2>1, Zenon
  <2>3. IsFiniteSet(T) /\ Cardinality(T) = Cardinality(S) + 1
    BY <2>2, FS_AddElement
  <2> QED BY <2>1, <2>3, Zenon
<1>10. Len(blocks_') = Len(blocks_) + 1 /\ blocks_' \in Seq(Nat)
  BY <1>1, <1>2
<1>11. alloc_ptr_'.block \notin lost' /\ \A a \in allocs' : a.block \notin lost'
  BY <1>7 DEF IInv, Ledger
<1>12. Ledger'
  BY <1>4, <1>5, <1>8, <1>9, <1>10, <1>11 DEF Ledger
<1> QED BY <1>1, <1>2, <1>3, <1>5, <1>10, <1>12

\* A piece at the start of a new block is disjoint from all others.
LEMMA NewPieceDisjoint ==
  ASSUME PiecesDisjoint, heap \in Seq(Nat), heap' \in Seq(Nat),
         Len(heap') = Len(heap) + 1,
         \A b \in 1 .. Len(heap) : heap'[b] = heap[b],
         NEW piece, allocs' = allocs \union {piece},
         piece.block = Len(heap) + 1,
         piece.off + piece.size <= heap'[piece.block]
  PROVE  PiecesDisjoint'
<1>1. \A a \in allocs : a.block \in 1 .. Len(heap) /\ a.off + a.size <= heap[a.block]
  BY DEF PiecesDisjoint
<1>2. Len(heap) \in Nat /\ DOMAIN heap' = 1 .. Len(heap) + 1
  OBVIOUS
<1>3. \A a \in allocs : a.block # piece.block /\ heap'[a.block] = heap[a.block]
  BY <1>1, <1>2
<1>4. \A a \in allocs' : a.block \in DOMAIN heap' /\ a.off + a.size <= heap'[a.block]
  <2>1. piece.block \in DOMAIN heap'
    BY <1>2
  <2>2. \A a \in allocs : a.block \in DOMAIN heap'
    BY <1>1, <1>2
  <2> QED BY <1>1, <1>3, <2>1, <2>2
<1>5. \A a, b \in allocs' :
        \/ a = b \/ a.block # b.block
        \/ a.off + a.size <= b.off \/ b.off + b.size <= a.off
  BY <1>3 DEF PiecesDisjoint
<1> QED BY <1>4, <1>5 DEF PiecesDisjoint

\* Both forms of the fallback put the piece at the start of a new block.
LEMMA FallbackStep ==
  ASSUME IInv, alive, NEW bytes \in Requests, NEW aligned \in BOOLEAN,
         alloc_bytes_remaining_ < bytes + (Align - 1),
         allocateFallback(bytes, aligned)
  PROVE  IInv'
<1> DEFINE piece == [block |-> Len(heap) + 1, off |-> 0,
                     size |-> bytes, aligned |-> aligned]
<1>1. bytes \in Nat \ {0} /\ alloc_ptr_ \in Pointer /\ alloc_bytes_remaining_ \in Nat
      /\ heap \in Seq(Nat) /\ Len(heap) \in Nat /\ allocs \subseteq Piece
  BY DEF IInv, TypeOK
<1>2. piece \in Piece
  BY <1>1 DEF Piece
<1>3. \A a \in allocs : a.block \in 1 .. Len(heap)
  BY <1>1 DEF IInv, PiecesDisjoint
<1>4. CASE bytes > BlockSize \div 4
  <2>1. allocateNewBlock(bytes) /\ allocs' = allocs \union {piece}
        /\ UNCHANGED <<alloc_ptr_, alloc_bytes_remaining_, alive, retired, lost>>
    BY <1>4 DEF allocateFallback, LargePiece, HandOut
  <2>2. /\ heap' \in Seq(Nat) /\ Len(heap') = Len(heap) + 1
        /\ heap'[Len(heap) + 1] = bytes
        /\ \A b \in 1 .. Len(heap) : heap'[b] = heap[b]
        /\ live' \subseteq 1 .. Len(heap') /\ memory_usage_' \in Nat
        /\ blocks_' \in Seq(Nat) /\ lost' \subseteq 1 .. Len(heap') /\ Ledger'
    <3>1. \A a \in allocs' : a \in allocs \/ a.block = Len(heap) + 1
      BY <2>1
    <3>2. alloc_ptr_'.block \in {alloc_ptr_.block, Len(heap) + 1}
      BY <2>1
    <3> QED BY <1>1, <2>1, <3>1, <3>2, NewBlock
  <2>3. TypeOK'
    BY <1>1, <1>2, <2>1, <2>2 DEF IInv, TypeOK
  <2>4. Frontier'
    <3>1. /\ alloc_ptr_.block \in 0 .. Len(heap) /\ alloc_ptr_.block # Len(heap) + 1
          /\ alloc_ptr_.block = 0 => alloc_bytes_remaining_ = 0
      BY <1>1 DEF IInv, Frontier
    <3>2. alloc_ptr_.block \in 0 .. Len(heap')
      BY <1>1, <2>2, <3>1
    <3>3. alloc_ptr_.block # 0 =>
            alloc_ptr_.off + alloc_bytes_remaining_ = heap'[alloc_ptr_.block]
      <4>1. alloc_ptr_.block # 0 => alloc_ptr_.block \in 1 .. Len(heap)
        BY <1>1, <3>1
      <4>2. alloc_ptr_.block # 0 => heap'[alloc_ptr_.block] = heap[alloc_ptr_.block]
        BY <2>2, <4>1, Zenon
      <4> QED BY <4>2, Zenon DEF IInv, Frontier
    <3>4. \A a \in allocs' :
            a.block = alloc_ptr_.block => a.off + a.size <= alloc_ptr_.off
      BY <2>1, <3>1 DEF IInv, Frontier
    <3> QED BY <2>1, <3>1, <3>2, <3>3, <3>4 DEF Frontier
  <2>5. PiecesDisjoint'
    <3>1. piece.block = Len(heap) + 1 /\ piece.off + piece.size <= heap'[piece.block]
      BY <1>1, <2>2
    <3> QED BY <1>1, <2>1, <2>2, <3>1, NewPieceDisjoint DEF IInv
  <2>6. PiecesAligned' /\ LittleWaste'
    BY <2>1 DEF IInv, PiecesAligned, LittleWaste, Align
  <2> QED BY <2>2, <2>3, <2>4, <2>5, <2>6 DEF IInv
<1>5. CASE ~(bytes > BlockSize \div 4)
  <2>1. allocateNewBlock(BlockSize) /\ allocs' = allocs \union {piece}
        /\ alloc_ptr_' = [block |-> Len(heap) + 1, off |-> bytes]
        /\ alloc_bytes_remaining_' = BlockSize - bytes
        /\ retired' = retired \union
             {[block |-> alloc_ptr_.block, left |-> alloc_bytes_remaining_]}
        /\ UNCHANGED <<alive, lost>>
    BY <1>5 DEF allocateFallback, FreshBlock, HandOut
  <2>2. /\ heap' \in Seq(Nat) /\ Len(heap') = Len(heap) + 1
        /\ heap'[Len(heap) + 1] = BlockSize
        /\ \A b \in 1 .. Len(heap) : heap'[b] = heap[b]
        /\ live' \subseteq 1 .. Len(heap') /\ memory_usage_' \in Nat
        /\ blocks_' \in Seq(Nat) /\ lost' \subseteq 1 .. Len(heap') /\ Ledger'
    <3>1. \A a \in allocs' : a \in allocs \/ a.block = Len(heap) + 1
      BY <2>1
    <3>2. alloc_ptr_'.block \in {alloc_ptr_.block, Len(heap) + 1}
      BY <2>1
    <3> QED BY <1>1, <2>1, <3>1, <3>2, NewBlock
  <2>3. bytes <= BlockSize \div 4 /\ bytes <= BlockSize
        /\ BlockSize - bytes \in Nat
    BY <1>1, <1>5
  <2>4. TypeOK'
    <3>1. alloc_ptr_' \in Pointer /\ alloc_bytes_remaining_' \in Nat
      BY <1>1, <2>1, <2>3 DEF Pointer
    <3>2. retired' \subseteq [block : Nat, left : Nat]
      BY <1>1, <2>1 DEF IInv, TypeOK, Pointer
    <3>3. allocs' \subseteq Piece /\ alive' \in BOOLEAN
      BY <1>1, <1>2, <2>1 DEF IInv, TypeOK
    <3> QED BY <2>2, <3>1, <3>2, <3>3 DEF TypeOK
  <2>5. Frontier'
    <3>1. alloc_ptr_'.block = Len(heap) + 1 /\ alloc_ptr_'.off = bytes
      BY <2>1
    <3>2. alloc_ptr_'.block \in 0 .. Len(heap') /\ alloc_ptr_'.block # 0
      BY <1>1, <2>2, <3>1
    <3>3. alloc_ptr_'.off + alloc_bytes_remaining_' = heap'[alloc_ptr_'.block]
      BY <1>1, <2>1, <2>2, <2>3, <3>1
    <3>4. \A a \in allocs' : a.block = alloc_ptr_'.block => a.off + a.size <= alloc_ptr_'.off
      BY <1>1, <1>3, <2>1, <3>1 DEF Piece
    <3> QED BY <3>2, <3>3, <3>4 DEF Frontier
  <2>6. PiecesDisjoint'
    <3>1. piece.block = Len(heap) + 1 /\ piece.off + piece.size <= heap'[piece.block]
      BY <1>1, <2>2, <2>3
    <3> QED BY <1>1, <2>1, <2>2, <3>1, NewPieceDisjoint DEF IInv
  <2>7. PiecesAligned'
    BY <2>1 DEF IInv, PiecesAligned, Align
  <2>8. LittleWaste'
    BY <1>1, <2>1, <2>3 DEF IInv, LittleWaste, Align
  <2> QED BY <2>2, <2>4, <2>5, <2>6, <2>7, <2>8 DEF IInv
<1> QED BY <1>4, <1>5

\* Slop is what separates alloc_ptr_ from the next aligned offset.
LEMMA SlopAligns ==
  ASSUME IInv
  PROVE  Slop \in 0 .. Align - 1 /\ (alloc_ptr_.off + Slop) % Align = 0
<1> DEFINE off == alloc_ptr_.off
<1>1. off \in Nat
  BY DEF IInv, TypeOK, Pointer
<1>2. Slop = IF off % 8 = 0 THEN 0 ELSE 8 - (off % 8)
  BY DEF Slop, Align
<1> HIDE DEF off
<1>3. CASE off % 8 = 0
  BY <1>1, <1>2, <1>3 DEF Align, off
<1>4. CASE off % 8 # 0
  <2>1. off % 8 \in 1 .. 7 /\ off = 8 * (off \div 8) + (off % 8)
    BY <1>1, <1>4
  <2>2. off + Slop = 8 * ((off \div 8) + 1) /\ (off \div 8) + 1 \in Nat
    BY <1>1, <1>2, <1>4, <2>1
  <2>3. \A m \in Nat : (8 * m) % 8 = 0
    OBVIOUS
  <2>4. (off + Slop) % 8 = 0
    BY <2>2, <2>3
  <2> QED BY <1>2, <1>4, <2>1, <2>4 DEF Align, off
<1> QED BY <1>3, <1>4

\* A lost block is beyond everything that the arena has used so far.
LEMMA LostStep ==
  ASSUME IInv, NEW bytes \in Requests, push_backThrows(bytes)
  PROVE  IInv'
<1>1. /\ heap \in Seq(Nat) /\ Len(heap) \in Nat /\ alive
      /\ live = 1 .. Len(heap) /\ lost \subseteq 1 .. Len(heap)
  BY DEF IInv, TypeOK, Ledger, push_backThrows, Ready
<1>2. PICK size \in Nat : heap' = Append(heap, size)
  <2>1. PICK size : size = IF bytes > BlockSize \div 4 THEN bytes ELSE BlockSize
    OBVIOUS
  <2>2. size \in Nat
    BY <2>1
  <2>3. heap' = Append(heap, size)
    BY <2>1 DEF push_backThrows, LoseBlock
  <2> QED BY <2>2, <2>3
<1>3. /\ live' = live \union {Len(heap) + 1} /\ lost' = lost \union {Len(heap) + 1}
      /\ UNCHANGED <<alloc_ptr_, alloc_bytes_remaining_, blocks_, memory_usage_,
                     alive, allocs, retired>>
  BY DEF push_backThrows, LoseBlock
<1>4. /\ heap' \in Seq(Nat) /\ Len(heap') = Len(heap) + 1
      /\ DOMAIN heap = 1 .. Len(heap) /\ DOMAIN heap' = 1 .. Len(heap) + 1
      /\ \A b \in 1 .. Len(heap) : heap'[b] = heap[b]
  BY <1>1, <1>2
<1>5. live' = 1 .. Len(heap') /\ lost' \subseteq 1 .. Len(heap')
  <2>1. PICK n \in Nat : n = Len(heap)
    BY <1>1
  <2>2. 1 .. n + 1 = (1 .. n) \union {n + 1}
    OBVIOUS
  <2>3. Len(heap') = n + 1 /\ live = 1 .. n /\ lost \subseteq 1 .. n
        /\ live' = live \union {n + 1} /\ lost' = lost \union {n + 1}
    BY <1>1, <1>3, <1>4, <2>1
  <2> QED BY <2>2, <2>3, Zenon
<1>6. alloc_ptr_.block \in 0 .. Len(heap) /\ \A a \in allocs : a.block \in 1 .. Len(heap)
  BY <1>4 DEF IInv, Frontier, PiecesDisjoint
<1>7. TypeOK'
  BY <1>3, <1>4, <1>5 DEF IInv, TypeOK
<1>8. Frontier'
  <2>1. alloc_ptr_.block \in 0 .. Len(heap')
    BY <1>1, <1>4, <1>6
  <2>2. alloc_ptr_.block # 0 => heap'[alloc_ptr_.block] = heap[alloc_ptr_.block]
    BY <1>1, <1>4, <1>6
  <2> QED BY <1>3, <2>1, <2>2 DEF IInv, Frontier
<1>9. Ledger'
  <2>1. Len(heap) + 1 \notin 1 .. Len(heap) /\ Len(heap) + 1 \notin 0 .. Len(heap)
    BY <1>1
  <2>2. (1 .. Len(heap')) \ lost' = (1 .. Len(heap)) \ lost
    BY <1>1, <1>3, <1>4
  <2>3. alloc_ptr_.block \notin lost' /\ \A a \in allocs : a.block \notin lost'
    BY <1>3, <1>6, <2>1 DEF IInv, Ledger
  <2> QED BY <1>1, <1>3, <1>5, <2>2, <2>3 DEF IInv, Ledger
<1>10. PiecesDisjoint'
  <2>1. \A a \in allocs : a.block \in DOMAIN heap' /\ heap'[a.block] = heap[a.block]
    BY <1>1, <1>4, <1>6
  <2> QED BY <1>3, <2>1 DEF IInv, PiecesDisjoint
<1>11. PiecesAligned' /\ LittleWaste'
  BY <1>3 DEF IInv, PiecesAligned, LittleWaste
<1> QED BY <1>7, <1>8, <1>9, <1>10, <1>11 DEF IInv

\* Every request, exception and the destructor preserve the invariant.
LEMMA NextIInv == IInv /\ [Next]_vars => IInv'
<1> SUFFICES ASSUME IInv, [Next]_vars PROVE IInv'
  OBVIOUS
<1>1. ASSUME NEW bytes \in Requests, allocate(bytes) PROVE IInv'
  <2>1. alive /\ bytes \in Nat \ {0} /\ alloc_bytes_remaining_ \in Nat
    BY <1>1 DEF allocate, Ready, IInv, TypeOK
  <2>2. CASE bytes <= alloc_bytes_remaining_
    <3>1. Bump(0, bytes, FALSE)
      BY <1>1, <2>2 DEF allocate
    <3>2. 0 + bytes <= alloc_bytes_remaining_ /\ 0 \in Nat
      BY <2>1, <2>2
    <3>3. FALSE \in BOOLEAN /\ (FALSE => (alloc_ptr_.off + 0) % Align = 0)
      OBVIOUS
    <3> QED BY <3>1, <3>2, <3>3, BumpStep, Zenon
  <2>3. CASE ~(bytes <= alloc_bytes_remaining_)
    <3>1. allocateFallback(bytes, FALSE)
      BY <1>1, <2>3, Zenon DEF allocate
    <3>2. alloc_bytes_remaining_ < bytes + (Align - 1)
      BY <2>1, <2>3 DEF Align
    <3> QED BY <2>1, <3>1, <3>2, FallbackStep
  <2> QED BY <2>2, <2>3
<1>2. ASSUME NEW bytes \in Requests, allocateAligned(bytes) PROVE IInv'
  <2>1. alive /\ bytes \in Nat \ {0} /\ alloc_bytes_remaining_ \in Nat
    BY <1>2 DEF allocateAligned, Ready, IInv, TypeOK
  <2>2. Slop \in Nat /\ Slop <= Align - 1 /\ (alloc_ptr_.off + Slop) % Align = 0
    BY SlopAligns DEF Align
  <2>3. CASE bytes + Slop <= alloc_bytes_remaining_
    <3>1. Bump(Slop, bytes, TRUE)
      BY <1>2, <2>3 DEF allocateAligned
    <3>2. Slop + bytes <= alloc_bytes_remaining_
      BY <2>1, <2>2, <2>3
    <3>3. TRUE \in BOOLEAN /\ (TRUE => (alloc_ptr_.off + Slop) % Align = 0)
      BY <2>2
    <3> QED BY <2>2, <3>1, <3>2, <3>3, BumpStep, Zenon
  <2>4. CASE ~(bytes + Slop <= alloc_bytes_remaining_)
    <3>1. allocateFallback(bytes, TRUE)
      BY <1>2, <2>4 DEF allocateAligned
    <3>2. alloc_bytes_remaining_ < bytes + (Align - 1)
      BY <2>1, <2>2, <2>4 DEF Align
    <3> QED BY <2>1, <3>1, <3>2, FallbackStep
  <2> QED BY <2>3, <2>4
<1>3. ASSUME Destroy PROVE IInv'
  <2>1. alive /\ ~alive' /\ live' = live \ Range(blocks_)
        /\ UNCHANGED <<alloc_ptr_, alloc_bytes_remaining_, blocks_,
                       memory_usage_, heap, allocs, retired, lost>>
    BY <1>3 DEF Destroy
  <2>2. alive' = FALSE
    BY <1>3 DEF Destroy
  <2>3. /\ Range(blocks_) = (1 .. Len(heap)) \ lost /\ live = 1 .. Len(heap)
        /\ lost \subseteq 1 .. Len(heap)
    BY <2>1 DEF IInv, TypeOK, Ledger
  <2>4. live' = lost
    BY <2>1, <2>3
  <2>5. TypeOK' /\ Frontier' /\ PiecesDisjoint' /\ PiecesAligned' /\ LittleWaste'
    BY <2>1, <2>2, <2>4
    DEF IInv, TypeOK, Frontier, PiecesDisjoint, PiecesAligned, LittleWaste
  <2>6. Ledger'
    BY <2>1, <2>2, <2>4 DEF IInv, Ledger
  <2> QED BY <2>5, <2>6 DEF IInv
<1>4. ASSUME NEW bytes \in Requests, push_backThrows(bytes) PROVE IInv'
  BY <1>4, LostStep
<1>5. CASE UNCHANGED vars
  BY <1>5 DEF vars, IInv, TypeOK, Frontier, Ledger, PiecesDisjoint,
              PiecesAligned, LittleWaste
<1> QED BY <1>1, <1>2, <1>3, <1>4, <1>5 DEF Next

\* The invariant holds in every behaviour.
LEMMA Inductive == Spec => []IInv
<1> QED BY InitIInv, NextIInv, PTL DEF Spec

\* The arena's counters stay natural numbers (nothing is taken from a block that
\* does not have it), and only blocks of operator new[] are deleted.
THEOREM ArenaTypeOK == Spec => []TypeOK
<1>1. IInv => TypeOK
  BY DEF IInv
<1> QED BY <1>1, Inductive, PTL

\* No two pieces of memory that the arena hands out overlap, and none leaves
\* its block.
THEOREM ArenaDisjoint == Spec => []PiecesDisjoint
<1>1. IInv => PiecesDisjoint
  BY DEF IInv
<1> QED BY <1>1, Inductive, PTL

\* allocateAligned returns aligned memory.
THEOREM ArenaAligned == Spec => []PiecesAligned
<1>1. IInv => PiecesAligned
  BY DEF IInv
<1> QED BY <1>1, Inductive, PTL

\* The unused end of a block that is given up is bounded.
THEOREM ArenaLittleWaste == Spec => []LittleWaste
<1>1. IInv => LittleWaste
  BY DEF IInv
<1> QED BY <1>1, Inductive, PTL

\* The destructor deletes each block of blocks_ once; what remains is exactly what
\* exceptions have lost, and none of it was ever handed out.
THEOREM ArenaOnlyLostRemain == Spec => []OnlyLostRemain
<1>1. ASSUME IInv PROVE OnlyLostRemain
  <2>1. CASE alive
    <3>1. live \ lost = Range(blocks_)
      BY <1>1, <2>1 DEF IInv, Ledger
    <3> QED BY <1>1, <2>1, <3>1 DEF IInv, Ledger, OnlyLostRemain
  <2>2. CASE ~alive
    BY <1>1, <2>2 DEF IInv, Ledger, OnlyLostRemain
  <2> QED BY <2>1, <2>2
<1> QED BY <1>1, Inductive, PTL
-----------------------------------------------------------------------------
(* The usage counter.                                                      *)

Sizes(P) == Sum([a \in P |-> a.size], P)

\* What is handed out and what is left in the current block is paid for.
Usage ==
  /\ IsFiniteSet(allocs)
  /\ memory_usage_ = Sum(heap, Range(blocks_)) + PtrSize * Len(blocks_)
  /\ Sizes(allocs) + alloc_bytes_remaining_ <= memory_usage_

\* Another piece adds at most its size.
LEMMA SizesGrow ==
  ASSUME NEW P, IsFiniteSet(P), P \subseteq Piece, NEW p \in Piece
  PROVE  /\ IsFiniteSet(P \union {p}) /\ p.size \in Nat
         /\ Sizes(P) \in Nat /\ Sizes(P \union {p}) \in Nat
         /\ Sizes(P \union {p}) <= Sizes(P) + p.size
<1>1. PICK f : f = [a \in P |-> a.size]
  OBVIOUS
<1>2. PICK B : B = P \union {p}
  OBVIOUS
<1>3. PICK e : e = [a \in B |-> a.size]
  OBVIOUS
<1>4. p.size \in Nat /\ \A x \in P : f[x] \in Nat
  BY <1>1 DEF Piece
<1>5. Sizes(P) = Sum(f, P) /\ Sizes(B) = Sum(e, B)
  BY <1>1, <1>3, Zenon DEF Sizes
<1>6. Sum(f, P) \in Nat
  BY <1>4, SumAny
<1>7. IsFiniteSet(B)
  BY <1>2, FS_AddElement
<1>8. CASE p \in P
  <2>1. B = P
    BY <1>2, <1>8
  <2>2. Sizes(B) = Sizes(P)
    BY <2>1, Zenon
  <2>3. Sizes(B) \in Nat /\ Sizes(P) \in Nat /\ Sizes(B) <= Sizes(P) + p.size
    BY <1>4, <1>5, <1>6, <2>2
  <2> QED BY <1>2, <1>4, <1>7, <2>3, Zenon
<1>9. CASE p \notin P
  <2>1. e[p] = p.size /\ \A x \in P : e[x] = f[x]
    BY <1>1, <1>2, <1>3
  <2>2. Sum(e, B) = e[p] + Sum(f, P)
    BY <1>2, <1>4, <1>9, <2>1, SumOneMore
  <2> QED BY <1>2, <1>4, <1>5, <1>6, <1>7, <2>1, <2>2
<1> QED BY <1>8, <1>9

\* Another block changes nothing for the sizes of the old ones.
LEMMA HeapKept ==
  ASSUME NEW h \in Seq(Nat), NEW bytes \in Nat, NEW R \in SUBSET (1 .. Len(h)),
         IsFiniteSet(R)
  PROVE  Sum(Append(h, bytes), R) = Sum(h, R)
<1>1. PICK k : k = Append(h, bytes)
  OBVIOUS
<1>2. \A i \in R : k[i] = h[i]
  BY <1>1
<1>3. Sum(k, R) = Sum(h, R)
  BY <1>2, SumSame
<1> QED BY <1>1, <1>3, Zenon

\* If it is counted, it adds its size.
LEMMA HeapGrows ==
  ASSUME NEW h \in Seq(Nat), NEW bytes \in Nat, NEW R \in SUBSET (1 .. Len(h)),
         IsFiniteSet(R)
  PROVE  /\ Sum(h, R) \in Nat
         /\ Sum(Append(h, bytes), R \union {Len(h) + 1}) = Sum(h, R) + bytes
<1>1. PICK n, k : n = Len(h) + 1 /\ k = Append(h, bytes)
  OBVIOUS
<1>2. n \in Nat /\ k[n] = bytes /\ n \notin R
  BY <1>1
<1>3. \A i \in R : k[i] = h[i] /\ h[i] \in Nat
  BY <1>1
<1>4. Sum(h, R) \in Nat
  BY <1>3, SumAny
<1>5. Sum(k, R \union {n}) = k[n] + Sum(h, R)
  <2>1. k[n] \in Nat /\ (\A i \in R : h[i] \in Nat) /\ \A i \in R : k[i] = h[i]
    BY <1>2, <1>3
  <2> QED BY <1>2, <2>1, SumOneMore, Zenon
<1>6. Sum(k, R \union {n}) = Sum(h, R) + bytes
  BY <1>2, <1>4, <1>5
<1> QED BY <1>1, <1>4, <1>6, Zenon

\* A new block of b bytes pays for a piece of z bytes and for what is left.
LEMMA PaidFor ==
  ASSUME NEW v \in Nat, NEW w \in Nat, NEW z \in Nat, NEW m \in Nat, NEW n \in Nat,
         NEW l \in Nat, NEW b \in Nat, NEW p \in Nat,
         w <= v + z, v + l <= m, n + z <= l + b
  PROVE  w + n <= m + b + p
OBVIOUS

\* A request that is served from the current block or from a new one.
LEMMA UsageServed ==
  ASSUME TypeOK, Ledger, Usage, NEW piece \in Piece, allocs' = allocs \union {piece},
         \/ /\ UNCHANGED <<heap, blocks_, memory_usage_>> /\ alloc_bytes_remaining_' \in Nat
            /\ alloc_bytes_remaining_' + piece.size <= alloc_bytes_remaining_
         \/ \E bytes \in Nat :
              /\ allocateNewBlock(bytes) /\ alloc_bytes_remaining_' \in Nat
              /\ alloc_bytes_remaining_' + piece.size <= alloc_bytes_remaining_ + bytes
  PROVE  Usage'
<1>1. /\ allocs \subseteq Piece /\ heap \in Seq(Nat) /\ memory_usage_ \in Nat
      /\ alloc_bytes_remaining_ \in Nat /\ PtrSize \in Nat /\ Len(heap) \in Nat
      /\ blocks_ \in Seq(Nat) /\ Len(blocks_) \in Nat
  BY DEF TypeOK
<1>2. /\ IsFiniteSet(allocs') /\ piece.size \in Nat
      /\ Sizes(allocs) \in Nat /\ Sizes(allocs') \in Nat
      /\ Sizes(allocs') <= Sizes(allocs) + piece.size
  BY <1>1, SizesGrow DEF Usage
<1>3. CASE /\ UNCHANGED <<heap, blocks_, memory_usage_>> /\ alloc_bytes_remaining_' \in Nat
           /\ alloc_bytes_remaining_' + piece.size <= alloc_bytes_remaining_
  <2>1. Sizes(allocs') + alloc_bytes_remaining_' <= memory_usage_'
    <3>1. PICK n, w, v : n = piece.size /\ w = Sizes(allocs') /\ v = Sizes(allocs)
      OBVIOUS
    <3>2. n \in Nat /\ w \in Nat /\ v \in Nat /\ w <= v + n
      BY <1>2, <3>1
    <3>3. v + alloc_bytes_remaining_ <= memory_usage_
      BY <3>1 DEF Usage
    <3>4. alloc_bytes_remaining_' \in Nat /\ alloc_bytes_remaining_' + n <= alloc_bytes_remaining_
      BY <1>3, <3>1
    <3>5. w + alloc_bytes_remaining_' <= memory_usage_
      <4>1. PICK c, d, k : c = alloc_bytes_remaining_ /\ d = alloc_bytes_remaining_' /\ k = memory_usage_
        OBVIOUS
      <4>2. c \in Nat /\ d \in Nat /\ k \in Nat /\ v + c <= k /\ d + n <= c
        BY <1>1, <3>3, <3>4, <4>1, Zenon
      <4>3. w + d <= k
        BY <3>2, <4>2
      <4> QED BY <4>1, <4>3, Zenon
    <3> QED BY <1>3, <3>1, <3>5
  <2>2. memory_usage_' = Sum(heap', Range(blocks_')) + PtrSize * Len(blocks_')
    BY <1>3, Zenon DEF Usage
  <2> QED BY <1>2, <2>1, <2>2 DEF Usage
<1>4. ASSUME NEW bytes \in Nat, allocateNewBlock(bytes), alloc_bytes_remaining_' \in Nat,
             alloc_bytes_remaining_' + piece.size <= alloc_bytes_remaining_ + bytes
      PROVE  Usage'
  <2>1. heap' = Append(heap, bytes) /\ memory_usage_' = memory_usage_ + bytes + PtrSize
        /\ blocks_' = Append(blocks_, Len(heap) + 1)
    BY <1>4 DEF allocateNewBlock
  <2>2. Sizes(allocs') + alloc_bytes_remaining_' <= memory_usage_'
    <3>1. Sizes(allocs) + alloc_bytes_remaining_ <= memory_usage_
      BY DEF Usage
    <3>2. PICK v, w, z : v = Sizes(allocs) /\ w = Sizes(allocs') /\ z = piece.size
      OBVIOUS
    <3>3. /\ v \in Nat /\ w \in Nat /\ z \in Nat /\ w <= v + z
          /\ v + alloc_bytes_remaining_ <= memory_usage_
          /\ alloc_bytes_remaining_' + z <= alloc_bytes_remaining_ + bytes
      BY <1>2, <1>4, <3>1, <3>2
    <3>4. w + alloc_bytes_remaining_' <= memory_usage_ + bytes + PtrSize
      BY <1>1, <1>4, <3>3, PaidFor, Zenon
    <3> QED BY <2>1, <3>2, <3>4
  <2>3. memory_usage_' = Sum(heap', Range(blocks_')) + PtrSize * Len(blocks_')
    <3>1. PICK a, b : a = Sum(heap, Range(blocks_)) /\ b = Sum(heap', Range(blocks_'))
      OBVIOUS
    <3>2. a \in Nat /\ b = a + bytes
      <4>1. PICK R : R = Range(blocks_)
        OBVIOUS
      <4>2. IsFiniteSet(R) /\ R \subseteq 1 .. Len(heap)
        BY <4>1 DEF Ledger
      <4>3. Range(blocks_') = R \union {Len(heap) + 1}
        <5>1. PICK s, t, n : s = blocks_ /\ t = blocks_' /\ n = Len(heap) + 1
          OBVIOUS
        <5>2. s \in Seq(Nat) /\ n \in Nat /\ t = Append(s, n)
          BY <1>1, <2>1, <5>1
        <5>3. Range(t) = Range(s) \union {n}
          BY <5>2, RangeGrows, Zenon
        <5> QED BY <4>1, <5>1, <5>3, Zenon
      <4>4. /\ Sum(heap, R) \in Nat
            /\ Sum(heap', R \union {Len(heap) + 1}) = Sum(heap, R) + bytes
        <5>1. heap \in Seq(Nat) /\ R \in SUBSET (1 .. Len(heap)) /\ IsFiniteSet(R)
          BY <1>1, <4>2
        <5>2. /\ Sum(heap, R) \in Nat
              /\ Sum(Append(heap, bytes), R \union {Len(heap) + 1}) = Sum(heap, R) + bytes
          BY <1>4, <5>1, HeapGrows, Zenon
        <5> QED BY <2>1, <5>2, Zenon
      <4> QED BY <3>1, <4>1, <4>3, <4>4, Zenon
    <3>3. Len(blocks_') = Len(blocks_) + 1
      BY <1>1, <2>1
    <3>4. PtrSize * Len(blocks_') = PtrSize * Len(blocks_) + PtrSize
      BY <1>1, <3>3
    <3>5. memory_usage_ = a + PtrSize * Len(blocks_)
      BY <3>1 DEF Usage
    <3>6. PICK c, d : c = PtrSize * Len(blocks_) /\ d = PtrSize * Len(blocks_')
      OBVIOUS
    <3>7. c \in Nat /\ d = c + PtrSize /\ memory_usage_ = a + c
      BY <1>1, <3>4, <3>5, <3>6
    <3>8. memory_usage_' = b + d
      BY <1>1, <2>1, <3>2, <3>7
    <3> QED BY <3>1, <3>6, <3>8
  <2> QED BY <1>2, <2>2, <2>3 DEF Usage
<1> QED BY <1>3, <1>4

\* The two ways to serve a request keep the counter right.
LEMMA UsageBump ==
  ASSUME IInv, Usage, NEW bytes \in Requests, NEW slop \in Nat, NEW aligned \in BOOLEAN,
         slop + bytes <= alloc_bytes_remaining_, Bump(slop, bytes, aligned)
  PROVE  Usage'
<1>1. /\ bytes \in Nat /\ alloc_ptr_.block \in Nat /\ alloc_ptr_.off + slop \in Nat
      /\ alloc_bytes_remaining_ \in Nat
  BY DEF IInv, TypeOK, Pointer
<1>2. PICK piece : piece = [block |-> alloc_ptr_.block, off |-> alloc_ptr_.off + slop,
                            size |-> bytes, aligned |-> aligned]
  OBVIOUS
<1>3. piece \in Piece /\ piece.size = bytes
  BY <1>1, <1>2 DEF Piece
<1>4. /\ allocs' = allocs \union {piece} /\ UNCHANGED <<heap, blocks_, memory_usage_>>
      /\ alloc_bytes_remaining_' = alloc_bytes_remaining_ - (slop + bytes)
  BY <1>2 DEF Bump, HandOut
<1>5. alloc_bytes_remaining_' \in Nat
      /\ alloc_bytes_remaining_' + piece.size <= alloc_bytes_remaining_
  BY <1>1, <1>3, <1>4
<1>6. TypeOK /\ Ledger
  BY DEF IInv
<1> QED BY <1>3, <1>4, <1>5, <1>6, UsageServed

\* The fallback pays for the block it gets.
LEMMA UsageFallback ==
  ASSUME IInv, Usage, NEW bytes \in Requests, NEW aligned \in BOOLEAN,
         allocateFallback(bytes, aligned)
  PROVE  Usage'
<1>1. bytes \in Nat /\ Len(heap) + 1 \in Nat /\ alloc_bytes_remaining_ \in Nat /\ BlockSize \in Nat
  BY DEF IInv, TypeOK
<1>2. PICK piece : piece = [block |-> Len(heap) + 1, off |-> 0, size |-> bytes, aligned |-> aligned]
  OBVIOUS
<1>3. piece \in Piece /\ piece.size = bytes
  BY <1>1, <1>2 DEF Piece
<1>4. TypeOK /\ Ledger
  BY DEF IInv
<1>5. CASE bytes > BlockSize \div 4
  <2>1. allocateNewBlock(bytes) /\ allocs' = allocs \union {piece} /\ UNCHANGED alloc_bytes_remaining_
    BY <1>2, <1>5 DEF allocateFallback, LargePiece, HandOut
  <2>2. alloc_bytes_remaining_' \in Nat
        /\ alloc_bytes_remaining_' + piece.size <= alloc_bytes_remaining_ + bytes
    BY <1>1, <1>3, <2>1
  <2> QED BY <1>1, <1>3, <1>4, <2>1, <2>2, UsageServed
<1>6. CASE ~(bytes > BlockSize \div 4)
  <2>1. allocateNewBlock(BlockSize) /\ allocs' = allocs \union {piece}
        /\ alloc_bytes_remaining_' = BlockSize - bytes
    BY <1>2, <1>6 DEF allocateFallback, FreshBlock, HandOut
  <2>2. bytes <= BlockSize
    BY <1>1, <1>6
  <2>3. alloc_bytes_remaining_' \in Nat
        /\ alloc_bytes_remaining_' + piece.size <= alloc_bytes_remaining_ + BlockSize
    BY <1>1, <1>3, <2>1, <2>2
  <2> QED BY <1>1, <1>3, <1>4, <2>1, <2>3, UsageServed
<1> QED BY <1>5, <1>6

\* Every step keeps the counter right.
LEMMA NextUsage == IInv /\ Usage /\ [Next]_vars => Usage'
<1> SUFFICES ASSUME IInv, Usage, [Next]_vars PROVE Usage'
  OBVIOUS
<1>1. ASSUME NEW bytes \in Requests, allocate(bytes) PROVE Usage'
  <2>1. bytes \in Nat /\ alloc_bytes_remaining_ \in Nat
    BY DEF IInv, TypeOK
  <2>2. CASE bytes <= alloc_bytes_remaining_
    <3>1. Bump(0, bytes, FALSE)
      BY <1>1, <2>2 DEF allocate
    <3>2. 0 + bytes <= alloc_bytes_remaining_ /\ 0 \in Nat /\ FALSE \in BOOLEAN
      BY <2>1, <2>2
    <3> QED BY <3>1, <3>2, UsageBump, Zenon
  <2>3. CASE ~(bytes <= alloc_bytes_remaining_)
    <3>1. allocateFallback(bytes, FALSE) /\ FALSE \in BOOLEAN
      BY <1>1, <2>3, Zenon DEF allocate
    <3> QED BY <3>1, UsageFallback, Zenon
  <2> QED BY <2>2, <2>3
<1>2. ASSUME NEW bytes \in Requests, allocateAligned(bytes) PROVE Usage'
  <2>1. bytes \in Nat /\ alloc_bytes_remaining_ \in Nat
    BY DEF IInv, TypeOK
  <2>2. Slop \in Nat
    BY SlopAligns DEF Align
  <2>3. CASE bytes + Slop <= alloc_bytes_remaining_
    <3>1. Bump(Slop, bytes, TRUE)
      BY <1>2, <2>3 DEF allocateAligned
    <3>2. Slop + bytes <= alloc_bytes_remaining_ /\ TRUE \in BOOLEAN
      BY <2>1, <2>2, <2>3
    <3> QED BY <2>2, <3>1, <3>2, UsageBump, Zenon
  <2>4. CASE ~(bytes + Slop <= alloc_bytes_remaining_)
    <3>1. allocateFallback(bytes, TRUE) /\ TRUE \in BOOLEAN
      BY <1>2, <2>4, Zenon DEF allocateAligned
    <3> QED BY <3>1, UsageFallback, Zenon
  <2> QED BY <2>3, <2>4
<1>3. CASE UNCHANGED <<alloc_bytes_remaining_, memory_usage_, heap, blocks_, allocs>>
  BY <1>3, Zenon DEF Usage
<1>4. ASSUME NEW bytes \in Requests, push_backThrows(bytes) PROVE Usage'
  <2>1. UNCHANGED <<alloc_bytes_remaining_, memory_usage_, blocks_, allocs>>
    BY <1>4 DEF push_backThrows
  <2>2. PICK size : size = IF bytes > BlockSize \div 4 THEN bytes ELSE BlockSize
    OBVIOUS
  <2>3. size \in Nat /\ heap' = Append(heap, size) /\ heap \in Seq(Nat)
    BY <1>4, <2>2 DEF push_backThrows, LoseBlock, IInv, TypeOK
  <2>4. PICK R : R = Range(blocks_)
    OBVIOUS
  <2>5. IsFiniteSet(R) /\ R \subseteq 1 .. Len(heap)
    BY <2>4 DEF IInv, Ledger
  <2>6. Sum(heap', R) = Sum(heap, R)
    <3>1. R \in SUBSET (1 .. Len(heap)) /\ IsFiniteSet(R)
      BY <2>5
    <3>2. Sum(Append(heap, size), R) = Sum(heap, R)
      BY <2>3, <3>1, HeapKept, Zenon
    <3> QED BY <2>3, <3>2, Zenon
  <2> QED BY <2>1, <2>4, <2>6, Zenon DEF Usage
<1>5. ASSUME Destroy PROVE Usage'
  BY <1>3, <1>5 DEF Destroy
<1>6. CASE UNCHANGED vars
  BY <1>3, <1>6 DEF vars
<1> QED BY <1>1, <1>2, <1>4, <1>5, <1>6 DEF Next

\* memoryUsage() is exactly the memory of the blocks in blocks_ and of the pointers
\* to them, and covers every byte handed out; a block that an exception lost is not
\* counted, and changes nothing for the others.
THEOREM ArenaUsageExact == Spec => []UsageExact
<1>1. Init => Usage
  <2> SUFFICES ASSUME Init PROVE Usage
    OBVIOUS
  <2>1. blocks_ = <<>> /\ allocs = {} /\ memory_usage_ = 0 /\ alloc_bytes_remaining_ = 0
    BY DEF Init
  <2>2. Range(blocks_) = {} /\ Len(blocks_) = 0 /\ PtrSize * 0 = 0
    BY <2>1 DEF Range
  <2>3. Sum(heap, {}) = 0 /\ Sizes({}) = 0
    BY SumEmpty DEF Sizes
  <2>4. memory_usage_ = Sum(heap, Range(blocks_)) + PtrSize * Len(blocks_)
    <3>1. Sum(heap, Range(blocks_)) = 0
      BY <2>2, <2>3, Zenon
    <3> QED BY <2>1, <2>2, <3>1
  <2>5. Sizes(allocs) + alloc_bytes_remaining_ <= memory_usage_
    <3>1. Sizes(allocs) = 0
      BY <2>1, <2>3, Zenon
    <3> QED BY <2>1, <3>1
  <2>6. IsFiniteSet(allocs)
    BY <2>1, FS_EmptySet
  <2> QED BY <2>4, <2>5, <2>6 DEF Usage
<1>2. IInv /\ Usage => UsageExact
  <2> SUFFICES ASSUME IInv, Usage PROVE UsageExact
    OBVIOUS
  <2>1. FoldFunctionOnSet(+, 0, heap, Range(blocks_)) = Sum(heap, Range(blocks_))
    BY DEF Sum
  <2>2. PICK f : f = [a \in allocs |-> a.size]
    OBVIOUS
  <2>3. FoldFunction(+, 0, f) = Sum(f, DOMAIN f)
    BY DEF FoldFunction, Sum
  <2>4. DOMAIN f = allocs /\ Sizes(allocs) = Sum(f, allocs)
    BY <2>2, Zenon DEF Sizes
  <2>5. Sizes(allocs) \in Nat
    <3>1. \A x \in allocs : f[x] \in Nat
      BY <2>2 DEF IInv, TypeOK, Piece
    <3> QED BY <2>4, <3>1, SumAny DEF Usage
  <2>6. FoldFunction(+, 0, f) <= memory_usage_
    <3>1. Sizes(allocs) + alloc_bytes_remaining_ <= memory_usage_
      BY DEF Usage
    <3>2. memory_usage_ \in Nat /\ alloc_bytes_remaining_ \in Nat
      BY DEF IInv, TypeOK
    <3>3. FoldFunction(+, 0, f) = Sizes(allocs)
      BY <2>3, <2>4, Zenon
    <3>4. Sizes(allocs) <= memory_usage_
      BY <2>5, <3>1, <3>2
    <3> QED BY <3>3, <3>4, Zenon
  <2>7. memory_usage_
          = FoldFunctionOnSet(+, 0, heap, Range(blocks_)) + PtrSize * Len(blocks_)
    BY <2>1, Zenon DEF Usage
  <2> QED BY <2>2, <2>6, <2>7, Zenon DEF UsageExact
<1> QED BY <1>1, <1>2, NextUsage, Inductive, PTL DEF Spec

-----------------------------------------------------------------------------
(* The nodes.                                                              *)

\* What the arena handed out for a node.
Room(n) ==
  [block |-> n.block, off |-> n.off, size |-> NodeBytes(n.height), aligned |-> TRUE]

\* Every node has the room that its height asks for.
NodesPlaced ==
  /\ nodes \in Seq([block : Nat, off : Nat, height : 1 .. MaxHeight])
  /\ \A i \in DOMAIN nodes : Room(nodes[i]) \in allocs
  /\ nodes # <<>> => nodes[1].height = MaxHeight

\* The generator has a seed as soon as there is a list, and only an insert into
\* a list draws heights.
Drawing ==
  /\ drawn \in 0 .. MaxHeight
  /\ drawn # 0 => nodes # <<>>
  /\ nodes # <<>> => rnd_ \in 1 .. M - 1

NodesInv == IInv /\ NodesPlaced /\ Drawing

USE HeightAssumption, LayoutAssumption

-----------------------------------------------------------------------------
(* The generator.                                                          *)

\* Adding the two digits to the base m + 1 and wrapping once is the remainder
\* modulo m, for a product that is not a multiple of m.
LEMMA DigitSum ==
  ASSUME NEW m \in Nat, m >= 2, NEW seed \in 1 .. m - 1, NEW a \in 1 .. m - 1,
         (seed * a) % m # 0
  PROVE  LET p   == seed * a
             sum == (p \div (m + 1)) + (p % (m + 1))
         IN  (IF sum > m THEN sum - m ELSE sum) = p % m
<1>a. PICK p : p = seed * a
  OBVIOUS
<1>b. p % m # 0
  BY <1>a
<1>c. PICK sum : sum = (p \div (m + 1)) + (p % (m + 1))
  OBVIOUS
<1> SUFFICES (IF sum > m THEN sum - m ELSE sum) = p % m
  BY <1>a, <1>c, Zenon
<1>1. p \in Nat /\ m \in Nat \ {0} /\ m + 1 \in Nat \ {0}
  BY <1>a
<1>2. PICK q : q = p \div (m + 1)
  OBVIOUS
<1>3. PICK r : r = p % (m + 1)
  OBVIOUS
<1>4. q \in Nat /\ r \in 0 .. m /\ p = q * (m + 1) + r /\ sum = q + r
  <2>1. /\ p \div (m + 1) \in Nat /\ p % (m + 1) \in 0 .. (m + 1) - 1
        /\ p = (p \div (m + 1)) * (m + 1) + (p % (m + 1))
    BY <1>1, Division, Zenon
  <2>2. sum = q + r
    BY <1>c, <1>2, <1>3
  <2> QED BY <1>2, <1>3, <2>1, <2>2
<1>5. q * (m + 1) = q * m + q
  BY <1>4
<1>6. sum \in Nat /\ p = q * m + sum
  BY <1>4, <1>5
<1>7. p <= (m - 1) * (m - 1)
  <2>1. seed * a <= seed * (m - 1)
    OBVIOUS
  <2>2. seed * (m - 1) <= (m - 1) * (m - 1)
    OBVIOUS
  <2> QED BY <1>a, <2>1, <2>2
<1>8. q <= m - 2
  <2> SUFFICES ASSUME q >= m - 1 PROVE FALSE
    BY <1>4
  <2>1. q * (m + 1) >= (m - 1) * (m + 1)
    BY <1>4
  <2>2. (m - 1) * (m + 1) > (m - 1) * (m - 1)
    OBVIOUS
  <2> QED BY <1>1, <1>4, <1>7, <2>1, <2>2
<1>9. (q + 1) * m = q * m + m /\ q + 1 \in Nat
  BY <1>4
<1>10. CASE sum > m
  <2>1. PICK s : s = sum - m
    OBVIOUS
  <2>2. s \in 0 .. m - 1 /\ p = (q + 1) * m + s
    BY <1>4, <1>6, <1>8, <1>9, <1>10, <2>1
  <2>3. ((q + 1) * m + s) % m = s
    BY <1>1, <1>9, <2>2, ModUnique, Zenon
  <2>4. p % m = s
    BY <2>2, <2>3, Zenon
  <2> QED BY <1>10, <2>1, <2>4
<1>11. CASE sum = m
  <2>1. p = (q + 1) * m + 0 /\ 0 \in 0 .. m - 1
    BY <1>6, <1>9, <1>11
  <2>2. ((q + 1) * m + 0) % m = 0
    BY <1>1, <1>9, <2>1, ModUnique, Zenon
  <2>3. p % m = 0
    BY <2>1, <2>2, Zenon
  <2> QED BY <1>b, <2>3
<1>12. CASE sum < m
  <2>1. sum \in 0 .. m - 1
    BY <1>6, <1>12
  <2>2. (q * m + sum) % m = sum
    BY <1>1, <1>4, <2>1, ModUnique, Zenon
  <2>3. p % m = sum
    BY <1>6, <2>2, Zenon
  <2>4. ~(sum > m)
    BY <1>6, <1>12
  <2> QED BY <2>3, <2>4
<1> QED BY <1>6, <1>10, <1>11, <1>12

\* next computes (seed_ * A) % M and stays in [1, M-1].
LEMMA NextSeed ==
  ASSUME NEW seed \in 1 .. M - 1
  PROVE  next(seed) = (seed * A) % M /\ next(seed) \in 1 .. M - 1
<1>1. M \in Nat /\ A \in 1 .. M - 1 /\ (seed * A) % M # 0
  BY RandomAssumption
<1>2. M >= 2
  BY <1>1
<1>3. next(seed) = (seed * A) % M
  <2>1. LET p   == seed * A
            sum == (p \div (M + 1)) + (p % (M + 1))
        IN  (IF sum > M THEN sum - M ELSE sum) = p % M
    BY <1>1, <1>2, DigitSum, Zenon
  <2> QED BY <2>1, Zenon DEF next
<1>4. (seed * A) % M \in 0 .. M - 1
  BY <1>1, <1>2
<1> QED BY <1>1, <1>3, <1>4

\* The constructor leaves the values that repeat themselves out.
LEMMA FirstSeed ==
  ASSUME NEW s \in Nat
  PROVE  Seed(s) \in 1 .. M - 1
<1>1. M \in Nat /\ M >= 2
  BY RandomAssumption
<1>2. s % (M + 1) \in 0 .. M
  BY <1>1
<1> QED BY <1>1, <1>2 DEF Seed

-----------------------------------------------------------------------------
(* The nodes.                                                              *)

\* A request adds one piece of its size, and takes none away.
LEMMA OnePiece ==
  ASSUME IInv, NEW bytes \in Requests, allocateAligned(bytes)
  PROVE  \E b \in Nat, o \in Nat :
           allocs' = allocs \union
             {[block |-> b, off |-> o, size |-> bytes, aligned |-> TRUE]}
<1>1. alloc_ptr_.block \in Nat /\ alloc_ptr_.off \in Nat /\ Len(heap) + 1 \in Nat
  BY DEF IInv, TypeOK, Pointer
<1>2. Slop \in Nat
  BY SlopAligns DEF Align
<1>3. CASE bytes + Slop <= alloc_bytes_remaining_
  <2>1. Bump(Slop, bytes, TRUE)
    BY <1>3 DEF allocateAligned
  <2>2. alloc_ptr_.off + Slop \in Nat
    BY <1>1, <1>2
  <2> QED BY <1>1, <2>1, <2>2 DEF Bump, HandOut
<1>4. CASE ~(bytes + Slop <= alloc_bytes_remaining_)
  <2>1. allocateFallback(bytes, TRUE)
    BY <1>4 DEF allocateAligned
  <2>2. HandOut(Len(heap) + 1, 0, bytes, TRUE)
    BY <2>1 DEF allocateFallback, LargePiece, FreshBlock
  <2> QED BY <1>1, <2>2 DEF HandOut
<1> QED BY <1>3, <1>4

\* The arena never takes a piece back.
LEMMA PiecesStay == ASSUME [Next]_vars PROVE allocs \subseteq allocs'
<1>1. ASSUME NEW bytes \in Requests, allocate(bytes) PROVE allocs \subseteq allocs'
  BY <1>1 DEF allocate, Bump, allocateFallback, LargePiece, FreshBlock, HandOut
<1>2. ASSUME NEW bytes \in Requests, allocateAligned(bytes) PROVE allocs \subseteq allocs'
  BY <1>2 DEF allocateAligned, Bump, allocateFallback, LargePiece, FreshBlock, HandOut
<1>3. ASSUME NEW bytes \in Requests, push_backThrows(bytes) PROVE allocs \subseteq allocs'
  BY <1>3 DEF push_backThrows
<1>4. CASE Destroy
  BY <1>4 DEF Destroy
<1>5. CASE UNCHANGED vars
  BY <1>5 DEF vars
<1> QED BY <1>1, <1>2, <1>3, <1>4, <1>5 DEF Next

\* newNode is a request to the arena, and puts the node in its own piece.
LEMMA newNodeStep ==
  ASSUME IInv, NodesPlaced, NEW h \in 1 .. MaxHeight, newNode(h),
         nodes = <<>> => h = MaxHeight
  PROVE  Next /\ NodesPlaced' /\ nodes' # <<>>
<1> DEFINE Node == [block : Nat, off : Nat, height : 1 .. MaxHeight]
<1>1. NodeBytes(h) \in Requests
  BY RequestsOfNodes
<1>2. PICK bytes \in Requests : bytes = NodeBytes(h)
  BY <1>1
<1>3. allocateAligned(bytes)
  BY <1>2 DEF newNode
<1>4. Next
  BY <1>3 DEF Next
<1>5. PICK b \in Nat, o \in Nat :
        allocs' = allocs \union {[block |-> b, off |-> o, size |-> bytes, aligned |-> TRUE]}
  BY <1>3, OnePiece
<1>6. PICK p \in allocs' \ allocs :
        nodes' = Append(nodes, [block |-> p.block, off |-> p.off, height |-> h])
  BY DEF newNode
<1>7. p = [block |-> b, off |-> o, size |-> bytes, aligned |-> TRUE]
  BY <1>5, <1>6
<1>8. PICK n \in Node : n = [block |-> b, off |-> o, height |-> h]
  BY <1>5
<1>9. nodes' = Append(nodes, n) /\ nodes \in Seq(Node)
  BY <1>6, <1>7, <1>8 DEF NodesPlaced
<1>10. Room(n) \in allocs'
  <2>1. n.block = b /\ n.off = o /\ n.height = h
    BY <1>8
  <2>2. Room(n) = [block |-> b, off |-> o, size |-> bytes, aligned |-> TRUE]
    BY <1>2, <2>1, Zenon DEF Room
  <2> QED BY <1>5, <2>2
<1>11. nodes' \in Seq(Node) /\ nodes' # <<>>
  <2> HIDE DEF Node
  <2>1. nodes' \in Seq(Node) /\ Len(nodes') = Len(nodes) + 1 /\ Len(nodes) \in Nat
    BY <1>8, <1>9
  <2> QED BY <2>1
<1>12. \A i \in DOMAIN nodes' : Room(nodes'[i]) \in allocs'
  <2> SUFFICES ASSUME NEW i \in DOMAIN nodes' PROVE Room(nodes'[i]) \in allocs'
    OBVIOUS
  <2>1. CASE i = Len(nodes) + 1
    BY <1>9, <1>10, <2>1
  <2>2. CASE i # Len(nodes) + 1
    <3>1. i \in 1 .. Len(nodes) + 1 /\ Len(nodes) \in Nat
      BY <1>9
    <3>2. i \in 1 .. Len(nodes)
      BY <2>2, <3>1
    <3>3. i \in DOMAIN nodes /\ nodes'[i] = nodes[i]
      BY <1>9, <3>2
    <3>4. Room(nodes[i]) \in allocs
      BY <3>3 DEF NodesPlaced
    <3> QED BY <1>5, <3>3, <3>4
  <2> QED BY <2>1, <2>2
<1>13. nodes'[1].height = MaxHeight
  <2>1. CASE nodes = <<>>
    <3>1. nodes' = <<n>>
      BY <1>9, <2>1
    <3> QED BY <1>8, <2>1, <3>1
  <2>2. CASE nodes # <<>>
    <3>1. nodes'[1] = nodes[1]
      BY <1>9, <2>2
    <3> QED BY <2>2, <3>1 DEF NodesPlaced
  <2> QED BY <2>1, <2>2
<1>14. \A i \in DOMAIN nodes' : Room(nodes[i])' \in allocs'
  BY <1>12 DEF Room, NodeBytes
<1> QED BY <1>4, <1>11, <1>13, <1>14 DEF NodesPlaced

\* Before there is a list there are no nodes and no seed.
LEMMA InitNodesInv == NodesInit => NodesInv
<1> SUFFICES ASSUME NodesInit PROVE NodesInv
  OBVIOUS
<1>1. IInv /\ nodes = <<>> /\ drawn = 0
  BY InitIInv DEF NodesInit
<1> QED BY <1>1 DEF NodesInv, NodesPlaced, Drawing

\* A step of the list is a step of the arena or none, and keeps the invariant.
LEMMA NextNodesInv ==
  NodesInv /\ [NodesNext]_<<vars, nodeVars>> => [Next]_vars /\ NodesInv'
<1> SUFFICES ASSUME NodesInv, [NodesNext]_<<vars, nodeVars>>
             PROVE  [Next]_vars /\ NodesPlaced' /\ Drawing'
  BY NextIInv DEF NodesInv
<1> USE DEF NodesInv
<1>1. ASSUME NEW s \in 0 .. 2 * M + 1, SkipList(s)
      PROVE  [Next]_vars /\ NodesPlaced' /\ Drawing'
  <2>1. nodes = <<>> /\ newNode(MaxHeight) /\ rnd_' = Seed(s) /\ drawn' = drawn
    BY <1>1 DEF SkipList
  <2>2. MaxHeight \in 1 .. MaxHeight
    OBVIOUS
  <2>3. Next /\ NodesPlaced' /\ nodes' # <<>>
    BY <2>1, <2>2, newNodeStep
  <2>4. s \in Nat
    BY RandomAssumption
  <2>5. rnd_' \in 1 .. M - 1
    BY <2>1, <2>4, FirstSeed
  <2>6. Drawing'
    BY <2>1, <2>3, <2>5 DEF Drawing
  <2> QED BY <2>3, <2>6
<1>2. ASSUME insert PROVE [Next]_vars /\ NodesPlaced' /\ Drawing'
  <2>1. UNCHANGED <<vars, nodes, rnd_>> /\ drawn' = 1 /\ nodes # <<>>
    BY <1>2 DEF insert
  <2>2. allocs' = allocs
    BY <2>1 DEF vars
  <2>3. NodesPlaced'
    BY <2>1, <2>2 DEF NodesPlaced, Room, NodeBytes
  <2> QED BY <2>1, <2>3 DEF Drawing
<1>3. ASSUME Climb PROVE [Next]_vars /\ NodesPlaced' /\ Drawing'
  <2>1. UNCHANGED <<vars, nodes>> /\ drawn \in 1 .. MaxHeight - 1
        /\ drawn' = drawn + 1 /\ rnd_' = next(rnd_)
    BY <1>3 DEF Climb
  <2>2. allocs' = allocs
    BY <2>1 DEF vars
  <2>3. NodesPlaced'
    BY <2>1, <2>2 DEF NodesPlaced, Room, NodeBytes
  <2>4. drawn' \in 0 .. MaxHeight /\ nodes # <<>>
    BY <2>1 DEF Drawing
  <2>5. rnd_' \in 1 .. M - 1
    BY <2>1, <2>4, NextSeed DEF Drawing
  <2> QED BY <2>1, <2>3, <2>4, <2>5 DEF Drawing
<1>4. ASSUME InsertBuilds PROVE [Next]_vars /\ NodesPlaced' /\ Drawing'
  <2>1. drawn \in 1 .. MaxHeight /\ nodes # <<>> /\ rnd_ \in 1 .. M - 1 /\ drawn' = 0
    BY <1>4 DEF InsertBuilds, randomHeightReturns, Drawing
  <2>2. rnd_' \in 1 .. M - 1
    BY <1>4, <2>1, NextSeed DEF InsertBuilds, randomHeightReturns
  <2>3. Drawing'
    BY <2>1, <2>2 DEF Drawing
  <2>4. CASE newNode(drawn)
    BY <2>1, <2>3, <2>4, newNodeStep
  <2>5. CASE push_backThrows(NodeBytes(drawn)) /\ UNCHANGED nodes
    <3>1. NodeBytes(drawn) \in Requests
      BY <2>1, RequestsOfNodes
    <3>2. Next
      BY <2>5, <3>1 DEF Next
    <3>3. UNCHANGED <<allocs, nodes>>
      BY <2>5 DEF push_backThrows
    <3>4. NodesPlaced'
      BY <3>3 DEF NodesPlaced, Room, NodeBytes
    <3> QED BY <2>3, <3>2, <3>4
  <2> QED BY <1>4, <2>4, <2>5 DEF InsertBuilds
<1>5. CASE Next /\ UNCHANGED nodeVars
  <2>1. UNCHANGED <<nodes, rnd_, drawn>>
    BY <1>5 DEF nodeVars
  <2>2. allocs \subseteq allocs'
    BY <1>5, PiecesStay
  <2>3. NodesPlaced'
    BY <2>1, <2>2 DEF NodesPlaced, Room, NodeBytes
  <2> QED BY <1>5, <2>1, <2>3 DEF Drawing
<1>6. CASE UNCHANGED <<vars, nodeVars>>
  <2>1. UNCHANGED <<allocs, nodes, rnd_, drawn>>
    BY <1>6 DEF nodeVars, vars
  <2> QED BY <1>6, <2>1 DEF NodesPlaced, Room, NodeBytes, Drawing
<1> QED BY <1>1, <1>2, <1>3, <1>4, <1>5, <1>6 DEF NodesNext

\* The invariant holds in every behaviour.
LEMMA NodesInductive == NodesSpec => []NodesInv
<1> QED BY InitNodesInv, NextNodesInv, PTL DEF NodesSpec

\* The list is one more user of the arena: whatever its inserts do, the arena
\* behaves as its own specification says, so that everything proved of the
\* arena holds for the list's memory as well (skiplist.h:140-144).
THEOREM NodesUseArena == NodesSpec => Spec
<1>1. NodesInit => Init
  BY DEF NodesInit
<1> QED BY <1>1, NodesInductive, NextNodesInv, PTL DEF NodesSpec, Spec

\* seed_ never leaves [1, M-1], and the additions and shifts of next compute
\* (seed_ * A) % M for every multiplier and every modulus 2^Bits - 1 that keep
\* the product from being a multiple of the modulus (random.h:17-33).
THEOREM NodesSeedFollows == NodesSpec => []SeedFollows
<1>1. ASSUME NodesInv PROVE SeedFollows
  BY <1>1, NextSeed DEF NodesInv, Drawing, SeedFollows
<1> QED BY <1>1, NodesInductive, PTL

\* The links of a node at an aligned offset are aligned.
LEMMA LinkAligned ==
  ASSUME NEW off \in Nat, off % Align = 0, NEW l \in Nat
  PROVE  (off + KeySize + LinkSize * l) % Align = 0
<1>a. PICK a \in Nat : a = off
  OBVIOUS
<1>b. PICK b \in Nat : b = KeySize
  OBVIOUS
<1>c. PICK c \in Nat : c = LinkSize
  OBVIOUS
<1>1. a = 8 * (a \div 8) /\ b = 8 * (b \div 8) /\ c = 8 * (c \div 8)
  BY <1>a, <1>b, <1>c DEF Align
<1>2. PICK x \in Nat : x = a \div 8
  OBVIOUS
<1>3. PICK y \in Nat : y = b \div 8
  OBVIOUS
<1>4. PICK z \in Nat : z = c \div 8
  OBVIOUS
<1>5. PICK w \in Nat : w = z * l
  BY <1>4
<1>6. c * l = 8 * w
  <2>1. c * l = (8 * z) * l
    BY <1>1, <1>4
  <2>2. (8 * z) * l = 8 * (z * l)
    BY <1>4
  <2> QED BY <1>5, <2>1, <2>2
<1>7. a + b + c * l = 8 * (x + y + w)
  BY <1>1, <1>2, <1>3, <1>5, <1>6
<1>8. \A m \in Nat : (8 * m) % 8 = 0
  OBVIOUS
<1>9. (8 * (x + y + w)) % 8 = 0
  BY <1>2, <1>3, <1>5, <1>8
<1> QED BY <1>a, <1>b, <1>c, <1>7, <1>9 DEF Align

\* A link below the height lies inside the bytes of the node.
LEMMA LinkInNode ==
  ASSUME NEW h \in 1 .. MaxHeight, NEW l \in 0 .. h - 1
  PROVE  /\ NodeBytes(h) \in Nat /\ LinkSize * l \in Nat
         /\ KeySize + LinkSize * l + LinkSize <= NodeBytes(h)
<1>1. LinkSize * l <= LinkSize * (h - 1)
  OBVIOUS
<1>2. LinkSize * l \in Nat /\ LinkSize * (h - 1) \in Nat
  OBVIOUS
<1> QED BY <1>1, <1>2 DEF NodeBytes

\* A link of a node never leaves the node's memory, is aligned, and shares no
\* byte with another node or another user of the arena, for every layout of a
\* node and however many nodes there are (skiplist.h:140-144).
THEOREM NodesLinksIntact == NodesSpec => []LinksIntact
<1>1. ASSUME NodesInv PROVE LinksIntact
  <2> SUFFICES ASSUME alive, NEW i \in DOMAIN nodes
               PROVE  LET n == nodes[i]
                      IN  /\ n.height <= nodes[1].height
                          /\ n.block \in live
                          /\ \A l \in 0 .. n.height - 1 :
                               LET first == n.off + KeySize + LinkSize * l
                               IN  /\ first % Align = 0
                                   /\ first + LinkSize <= heap[n.block]
                                   /\ \A p \in allocs :
                                        \/ p.block # n.block \/ p.off = n.off
                                        \/ first + LinkSize <= p.off
                                        \/ p.off + p.size <= first
    BY DEF LinksIntact
  <2>1. PICK n : n = nodes[i]
    OBVIOUS
  <2>2. n \in [block : Nat, off : Nat, height : 1 .. MaxHeight]
    <3> DEFINE Node == [block : Nat, off : Nat, height : 1 .. MaxHeight]
    <3>1. nodes \in Seq(Node)
      BY <1>1 DEF NodesInv, NodesPlaced
    <3> HIDE DEF Node
    <3>2. n \in Node
      BY <2>1, <3>1
    <3> QED BY <3>2 DEF Node
  <2>3. n.off \in Nat /\ n.height \in 1 .. MaxHeight
    BY <2>2
  <2>4. n.height <= nodes[1].height
    <3>1. nodes # <<>>
      BY <1>1 DEF NodesInv, NodesPlaced
    <3> QED BY <1>1, <2>3, <3>1, SMTT(30) DEF NodesInv, NodesPlaced
  <2>5. PICK room \in allocs : room = Room(n)
    <3>1. Room(nodes[i]) \in allocs
      BY <1>1 DEF NodesInv, NodesPlaced
    <3> QED BY <2>1, <3>1
  <2>6. room.block = n.block /\ room.off = n.off /\ room.size = NodeBytes(n.height)
        /\ room.aligned = TRUE
    BY <2>5 DEF Room
  <2>7. n.block \in DOMAIN heap /\ n.off + NodeBytes(n.height) <= heap[n.block]
    BY <1>1, <2>6 DEF NodesInv, IInv, PiecesDisjoint
  <2>8. n.block \in live /\ heap[n.block] \in Nat
    BY <1>1, <2>7 DEF NodesInv, IInv, TypeOK, Ledger
  <2>9. n.off % Align = 0
    BY <1>1, <2>6 DEF NodesInv, IInv, PiecesAligned
  <2>10. ASSUME NEW l \in 0 .. n.height - 1, NEW first, first = n.off + KeySize + LinkSize * l
         PROVE  /\ first % Align = 0
                /\ first + LinkSize <= heap[n.block]
                /\ \A p \in allocs :
                     \/ p.block # n.block \/ p.off = n.off
                     \/ first + LinkSize <= p.off \/ p.off + p.size <= first
    <3>1. /\ NodeBytes(n.height) \in Nat /\ LinkSize * l \in Nat
          /\ KeySize + LinkSize * l + LinkSize <= NodeBytes(n.height)
      BY <2>3, LinkInNode
    <3>2. first % Align = 0
      <4>1. l \in Nat
        BY <2>3, <2>10
      <4>2. PICK off \in Nat : off = n.off
        BY <2>3
      <4>3. off % Align = 0
        BY <2>9, <4>2
      <4>4. (off + KeySize + LinkSize * l) % Align = 0
        BY <4>1, <4>3, LinkAligned, Zenon
      <4> QED BY <2>10, <4>2, <4>4, Zenon
    <3>3. first \in Nat /\ n.off <= first
          /\ first + LinkSize <= n.off + NodeBytes(n.height)
      BY <2>3, <2>10, <3>1
    <3>4. first + LinkSize <= heap[n.block]
      BY <2>3, <2>7, <2>8, <3>1, <3>3
    <3>5. ASSUME NEW p \in allocs, p.block = n.block, p.off # n.off
          PROVE  first + LinkSize <= p.off \/ p.off + p.size <= first
      <4>1. p.off \in Nat /\ p.size \in Nat
        BY <1>1 DEF NodesInv, IInv, TypeOK, Piece
      <4>2. p # room
        BY <2>6, <3>5
      <4>3. n.off + NodeBytes(n.height) <= p.off \/ p.off + p.size <= n.off
        BY <1>1, <2>6, <3>5, <4>2 DEF NodesInv, IInv, PiecesDisjoint
      <4> QED BY <2>3, <3>1, <3>3, <4>1, <4>3
    <3> QED BY <3>2, <3>4, <3>5
  <2> QED BY <2>1, <2>4, <2>8, <2>10
<1> QED BY <1>1, NodesInductive, PTL
=============================================================================
