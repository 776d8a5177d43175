SPECIFICATION LookupSpec
CONSTANTS
  Base = 4
  Flag = 2
  Width32 = 2
  Width64 = 2
  Groups32 = 4
  Groups64 = 4
  Lookups = {l1, l2}
  KeyLengths = {0, 1, 5, 6, 7, 13}
  Keys <- MCKeys
  SpaceSize = 12
  MaxBuffers = 2
INVARIANTS
  LookupKeyFits
  LookupKeyReads
  BuffersOwned
