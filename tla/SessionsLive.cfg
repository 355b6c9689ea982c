SPECIFICATION LiveSpec
CONSTANTS
  QueueCap = 1
  MaxSession = 3
  MaxFaults = 0
  MaxFrames = 1
  MaxRing = 1
  MaxLines = 3
  UartKinds <- LiveUart
  CdcKinds <- LiveCdc
  StartConnected = {FALSE}
  QuickReopen = FALSE
  None = None
INVARIANTS
  GrantIsOwed
  OneReplyIsOwed
PROPERTIES
  GrantFollows
  LineAnswered
  ResetHappens
CHECK_DEADLOCK FALSE
