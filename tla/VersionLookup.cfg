SPECIFICATION Spec
CONSTANTS
  Base = 4
  Flag = 2
  Width32 = 2
  Width64 = 2
  Groups32 = 4
  Groups64 = 4
  UserKeys <- MCUserKeys
  MaxVersions = 3
  None = none
INVARIANTS
  TypeOK
  NewestVisible
  SnapshotStable
  FilterHidesNothing
