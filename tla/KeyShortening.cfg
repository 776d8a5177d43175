SPECIFICATION KeysSpec
CONSTANTS
  Base = 4
  Flag = 2
  Width32 = 4
  Width64 = 2
  Groups32 = 8
  Groups64 = 4
  MaxLen = 2
  Multiplier = 147
  Seeds = {188}
INVARIANTS
  OrderOfParts
  SuccessorShortest
  HashTellsApart
PROPERTIES
  SeparatorSeparates
