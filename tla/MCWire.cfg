SPECIFICATION MCSpec
CONSTANTS
  UShortMax = 15
  ByteMax = 3
  Wide = 256
  Lengths = {0, 1, 2, 5}
  HeadLen = 4
  Unit = 1
  ReadBuf = 5
  Limit = 9
  DataLens = {0, 4, 6}
  MaxWrites = 3
  MaxFaults = 3
  ByteBits = 2
  Ticks = 50
  MaxKey = 65
INVARIANTS
  TypeOK
  ChecksumExact
  PacketBalanced
  PartsTypeOK
  LimitHonest
  KeysToldApart
PROPERTIES
  ReadsAsWire
  ReadEnds
