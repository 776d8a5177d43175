SPECIFICATION Spec
CONSTANTS
  Depth = 2
  None = none
INVARIANT
  ForwardsAll
