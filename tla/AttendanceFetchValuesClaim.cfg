SPECIFICATION Spec
CONSTANTS
  UShortMax = 65535
  MaxFaults = 1
  StoredLens = {1, 5}
  MaxChunk = 2
  PlainChunk = 2
  FreeSizesUnits = 20
  GarbageSizes = {0, 3}
INVARIANT StoredValuesUnchanged
