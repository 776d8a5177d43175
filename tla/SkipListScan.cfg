SPECIFICATION ScanSpec
CONSTANTS
  Keys = {1, 2, 3}
  MaxHeight = 3
  Readers = {r1}
  Writer = w
  Head = head
  Null = null
  Uninit = uninit
  MaxPending = 4
INVARIANTS
  ScanMissesNothing
  ScanOrdered
