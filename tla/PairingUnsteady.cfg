SPECIFICATION Spec
CONSTANTS
  MaxProfiles = 2
  a = a
  b = b
  c = c
  Ids <- TwoIds
  ErasedId = ErasedId
  TornId = TornId
  None = None
  Attempts = 1
  PressTries = 1
  TextLengths = {1}
  SaveEvery = 2
  BootJump = 3
  Modulus = 64
  MaxCounter = 9
  Inputs <- Unsteady
  ErasedCnt = 63
  TornCnt = 62
SYMMETRY IdSymmetry
CHECK_DEADLOCK FALSE
INVARIANTS
  NeverReused
