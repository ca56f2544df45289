CONSTANTS
  r1 = r1
  r2 = r2
  Requests = {r1, r2}
  Back = 1
  Ahead = 1
  DatedBack = 1
  DatedAhead = 1
  Lead = 0
  MaxAge = 1
  LkgTtl = 3
  BucketTtl = 2
  FuelTtl = 2
  MaxTime = 3
  MaxFaults = 1
SYMMETRY Interchangeable
SPECIFICATION SignalsSpec
INVARIANTS  AgeExplained UsableIsKept
CHECK_DEADLOCK FALSE
