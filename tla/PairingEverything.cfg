SPECIFICATION Spec
CONSTANTS
  MaxProfiles = 2
  a = a
  b = b
  c = c
  Ids <- TwoIds
  ErasedId = ErasedId
  TornId = TornId
  None = None
  Attempts = 2
  PressTries = 1
  TextLengths = {1}
  SaveEvery = 2
  BootJump = 2
  Modulus = 64
  MaxCounter = 2
  Inputs <- Everything
  ErasedCnt = 63
  TornCnt = 62
SYMMETRY IdSymmetry
CHECK_DEADLOCK FALSE
INVARIANTS
  TypeOK
  ConnectedIsPaired
  SlotOwnership
  RestartFindsPairing
PROPERTIES
  GoneForGood
  SlotsAreStores
  ActiveIsRegister
