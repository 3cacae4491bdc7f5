SPECIFICATION FairSpec
CONSTANTS
  UShortMax = 5
  MaxFaults = 2
  StoredLens = {1, 5}
  MaxChunk = 2
  PlainChunk = 2
  FreeSizesUnits = 20
  GarbageSizes = {0, 3}
INVARIANTS
  TypeOK
  InFlightBound
  ReplyIdsInStep
  PayloadPrefix
  TolerantFetch
  CountNeverJunk
PROPERTIES
  FetchTerminates
  DeviceReenabled
  KeepsSession
  SlotReturned
