SPECIFICATION Spec
CONSTANTS
  MaxProfiles = 4
  a = a
  b = b
  c = c
  Ids <- OneId
  ErasedId = ErasedId
  TornId = TornId
  None = None
  Attempts = 3
  PressTries = 20
  TextLengths = {250}
  SaveEvery = 128
  BootJump = 512
  Modulus = 2000000000
  MaxCounter = 1400
  Inputs <- Forwarding
  ErasedCnt = 1999999999
  TornCnt = 1999999998
CHECK_DEADLOCK FALSE
INVARIANT
  NeverReused
