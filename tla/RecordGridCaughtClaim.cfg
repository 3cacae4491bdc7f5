SPECIFICATION Spec
CONSTANTS
  MaxRecords = 6
  FirstWords = {0, 1000}
INVARIANT WrongGridCaught
