SPECIFICATION Spec
CONSTANTS
  Chunks <- MCChunks
  RingSize = 5
  LineLimit = 9
  NumberLen = 2
  MaxKeys = 0
  None = None
INVARIANTS
  TypeOK
  NamesItsSlot
PROPERTIES
  OnlyWholeLines
  WholeLinesArrive
  NumberComesBack
