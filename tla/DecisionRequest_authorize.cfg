CONSTANTS
  runtime1 = runtime1
  scenario = scenario
  event1 = event1
  event2 = event2
  lead = lead
  p1 = p1
  p2 = p2
  k1 = k1
  k2 = k2
  NoKey = NoKey
  None = None
  Requests = {runtime1, scenario, event1, event2, lead}
  Prospects = {lead}
  MaxLosses = 2
  Procs = {p1, p2}
  Keys = {k1, k2}
  Entry <- MCEntry
  Mode <- MCMode
  Key <- MCKey
  Proc <- MCProc
  MaxArrivals = 2
  MaxFaults = 2
  MaxCrashes = 1
  MaxExpiries = 1
SPECIFICATION HandoffFairSpec
INVARIANTS AllowedIsDurable AuditAccounted RepeatsExplained HandoffAccounted
PROPERTIES EventuallyAnswered EventuallyHandedOff
CHECK_DEADLOCK FALSE
