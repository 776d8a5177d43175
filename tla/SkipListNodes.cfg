SPECIFICATION NodesSpec
CONSTANTS
  BlockSize = 64
  PtrSize = 8
  Requests = {1, 16, 24}
  MaxAllocs = 5
  MaxLost = 1
  Bits = 3
  A = 3
  MaxHeight = 2
  KeySize = 8
  LinkSize = 8
  kBranching = 2
INVARIANTS
  TypeOK
  PiecesDisjoint
  PiecesAligned
  LittleWaste
  UsageExact
  OnlyLostRemain
  LinksIntact
  SeedFollows
\* A destroyed arena is never used again.
CHECK_DEADLOCK FALSE
