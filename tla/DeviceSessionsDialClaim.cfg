SPECIFICATION Spec
CONSTANTS
  Reqs = {r1}
  NoOne = NoOne
  Stale = Stale
  Retries = 2
  MaxFaults = 1
INVARIANT TimedOutMeansUnanswered
