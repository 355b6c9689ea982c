SPECIFICATION Spec
CONSTANTS
  a = a
  b = b
  Images <- MCImages
  Bootable = {a}
  Size <- MCSize
  Word = 2
  Sector = 4
  Limit = 8
  MinSize = 6
  MaxPacket = 3
  MaxBlock = 4
  None = None
INVARIANTS
  TypeOK
  MarkedIsImage
  ReadyIsImage
  AcknowledgedIsStored
