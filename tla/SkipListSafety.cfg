SPECIFICATION Spec
CONSTANTS
  Keys = {1, 2, 3}
  MaxHeight = 2
  Readers = {r1}
  Writer = w
  Head = head
  Null = null
  Uninit = uninit
  MaxPending = 5
INVARIANTS
  TypeOK
  SafeReads
  LevelLists
  Assertions
PROPERTY
  Linearizable
