CONSTANTS
  MaxEvents = 2
  Sinks = {s1}
  n1 = n1
  n2 = n2
  b1 = b1
  b2 = b2
  Nodes = {n1}
  Batches = {b1, b2}
  Host <- OneNode
  MaxAttempts = 2
  BatchSize = 2
  Budget <- SoleBudget
SPECIFICATION FairSpec
PROPERTIES ImplementsDelivery EventuallySettled
CHECK_DEADLOCK FALSE
