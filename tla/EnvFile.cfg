SPECIFICATION Spec
CONSTANTS
  Names = {n1}
  Data <- MCData
  Writers = {w1, w2}
  Readers = {r1}
  BufferSize = 2
  None = none
  MaxFiles = 3
INVARIANTS
  TypeOK
  WrittenIsRead
  NoTornRead
  ReadsPrefix
SYMMETRY
  WriterSymmetry
