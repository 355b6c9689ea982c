SPECIFICATION Spec
CONSTANTS
  QueueCap = 1
  MaxSession = 2
  MaxFaults = 1
  MaxFrames = 3
  MaxRing = 1
  MaxLines = 1
  UartKinds <- SafeUart
  CdcKinds <- SafeCdc
  StartConnected = {TRUE}
  QuickReopen = FALSE
  None = None
INVARIANTS
  TypeOK
  ExclusiveGrant
  KeysUpWhileGranted
  NoStuckKey
  OneImageWriter
PROPERTIES
  SyncBeforeCommands
CHECK_DEADLOCK FALSE
