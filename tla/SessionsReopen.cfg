SPECIFICATION LiveSpec
CONSTANTS
  QueueCap = 1
  MaxSession = 3
  MaxFaults = 0
  MaxFrames = 2
  MaxRing = 1
  MaxLines = 0
  UartKinds <- ReopenUart
  CdcKinds <- LiveCdc
  StartConnected = {FALSE}
  QuickReopen = TRUE
  None = None
PROPERTIES
  GrantFollows
CHECK_DEADLOCK FALSE
