SPECIFICATION RestartSpec
CONSTANTS
  UShortMax = 5
  MaxFaults = 2
  StoredLens = {1, 5}
  MaxChunk = 2
  PlainChunk = 2
  FreeSizesUnits = 20
  GarbageSizes = {0, 3}
  MaxStops = 2
  MaxFetches = 3
INVARIANT EnabledAfterFetch
