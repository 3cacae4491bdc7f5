SPECIFICATION MCSpec
CONSTANTS
  UShortMax = 5
  MaxFaults = 2
  Second = 2
  Tolerance = 1
  MaxLatency = 4
  Start = 20
  MaxTime = 32
  RTCs = {17, 20, 29}
INVARIANTS
  RequestsTypeOK
  ConfirmedAfterWrite
  QuickSyncApplied
  OwnOptions
  FieldsLag
PROPERTIES
  InSyncHonest
  NeverSetAhead
