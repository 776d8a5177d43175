SPECIFICATION FairSpec
CONSTANTS
  Keys = {1, 2}
  MaxHeight = 2
  Readers = {r1}
  Writer = w
  Head = head
  Null = null
  Uninit = uninit
  MaxPending = 4
PROPERTIES
  OperationsEnd
  InsertsVisible
