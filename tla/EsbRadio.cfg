SPECIFICATION Spec
CONSTANTS
  p1 = p1
  p2 = p2
  Payloads <- MCPayloads
  Channels = {5, 8}
  RetryCounts = {1}
  DeviceAddress <- MCDeviceAddress
  PairingAddress <- MCPairingAddress
  MaxSent = 6
  TooLong = TooLong
  None = None
SYMMETRY PayloadSymmetry
INVARIANTS
  TypeOK
  AtMostOnce
  AckedIsDelivered
  AnswerIsFresh
