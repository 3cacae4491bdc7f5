SPECIFICATION MCSpec
CONSTANTS
  DayTicks = 3
  Shift = 1
  SummerFrom = 270
  SummerTill = 900
  Before = 2250
  End = 110400
  MaxRecords = 6
  FirstWords = {0, 1, 8, 12, 16, 28, 1000}
  Digits = {0, 1, 9}
  Wide = 1024
  FieldLen = 4
  Uids = {0, 7}
  EpochEnd = 2
  First = 3
  MaxTime = 7
  MaxPunches = 3
INVARIANTS
  FreshCountExact
  GuessNeverSplits
  OnePunchNoticed
  NoInventedUser
  ReadsAsSet
  PartsTypeOK
  EachPunchOnce
  UnsetClockTold
