SPECIFICATION Spec
CONSTANTS
  Base = 16
  Flag = 8
  Width32 = 1
  Width64 = 2
  Groups32 = 2
  Groups64 = 3
  Values32 = {0, 2, 7, 8, 15}
  Values64 = {0, 7, 8, 16, 63, 64, 85, 101, 255}
  Strings <- MCStrings
  MaxItems = 2
INVARIANTS
  TypeOK
  RoundTrip
  FailsOnlyWhenCut
  DecimalExact
\* Nothing is left to do when everything was read.
CHECK_DEADLOCK FALSE
