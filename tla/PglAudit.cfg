CONSTANTS
  Frames = {f1, f2, f3}
  Scenario = {f1, f2}
  Workers = {w1, w2}
  BatchSize = 2
  MaxFaults = 4
  MaxCrashes = 1
  None = None
SPECIFICATION FairSpec
INVARIANTS DuplicatesExplained
PROPERTIES ScheduledRecorded
CHECK_DEADLOCK FALSE
