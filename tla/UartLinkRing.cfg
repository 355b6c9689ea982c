SPECIFICATION Spec
CONSTANTS
  Chunks <- RingChunks
  RingSize = 6
  LineLimit = 9
  NumberLen = 2
  MaxKeys = 0
  None = None
PROPERTIES
  NoLineOfTwoSessions
