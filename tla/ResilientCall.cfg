CONSTANTS
  Calls = {1, 2, 3, 4}
  MaxConcurrent = 2
  MaxQueueSize = 1
  FailureThreshold = 2
  HalfOpenMaxAttempts = 2
  MaxRetries = 1
  MaxDrains = 1
SPECIFICATION Spec
INVARIANTS SlotsAccounted WakeupPending HalfOpenAfterCooling OpenSendsBounded
PROPERTIES EventuallySettled EventuallyProbes
CHECK_DEADLOCK FALSE
