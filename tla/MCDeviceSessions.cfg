SPECIFICATION Spec
CONSTANTS
  Reqs = {r1, r2, r3}
  NoOne = NoOne
  Stale = Stale
  Retries = 2
  MaxFaults = 1
SYMMETRY Symmetry
INVARIANTS
  TypeOK
  SlotAccounted
  AloneIsServed
PROPERTY SessionsEndWithExit
