SPECIFICATION FairSpec
CONSTANTS
  Reqs = {r1, r2}
  NoOne = NoOne
  Stale = Stale
  Retries = 2
  MaxFaults = 1
PROPERTIES
  KeepsLifecycle
  SessionGivenBack
