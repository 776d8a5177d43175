SPECIFICATION FairSpec
CONSTANTS
  Names = {n1}
  Data <- MCData
  Writers = {w1}
  Readers = {r1}
  BufferSize = 2
  None = none
  MaxFiles = 2
PROPERTY
  CallsReturn
