SPECIFICATION StorageSpec
CONSTANTS
  Capacity = 3
  a = a
  b = b
  s0 = s0
  s1 = s1
  Ids <- MCIds
  Counters = {c1, c2}
  ErasedId = ErasedId
  ErasedCnt = ErasedCnt
  TornId = TornId
  TornCnt = TornCnt
  None = None
  EraseTears = FALSE
  ActiveCapacity = 3
  Slots <- MCSlots
SYMMETRY Names
INVARIANTS
  TypeOK
  NoStaleTail
  ActiveNoStaleEntry
  ProfilesGoFirst
  ProgramOnlyErased
PROPERTIES
  ImplementsStore
  ImplementsRegister
