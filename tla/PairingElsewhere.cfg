SPECIFICATION Spec
CONSTANTS
  MaxProfiles = 2
  a = a
  b = b
  c = c
  Ids <- TwoIds
  ErasedId = ErasedId
  TornId = TornId
  None = None
  Attempts = 2
  PressTries = 1
  TextLengths = {1}
  SaveEvery = 2
  BootJump = 4
  Modulus = 64
  MaxCounter = 6
  Inputs <- SteadyElsewhere
  ErasedCnt = 63
  TornCnt = 62
CHECK_DEADLOCK FALSE
INVARIANT
  NeverReused
