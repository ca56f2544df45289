CONSTANTS
  MaxEvents = 1
  Sinks = {s1}
  n1 = n1
  n2 = n2
  b1 = b1
  b2 = b2
  Nodes = {n1, n2}
  Batches = {b1, b2}
  Host <- TwoNodes
  MaxAttempts = 3
  BatchSize = 2
  Budget <- ConcurrentBudget
SPECIFICATION Spec
INVARIANTS ProcessingHasOwner TwoBatchPostBound
CHECK_DEADLOCK FALSE
