CONSTANTS
  Ranks = 2
  Seked = {"off", "internal", "remote"}
  External = {"off", "remote"}
  Override = {"none", "NORMAL", "CRISIS"}
SPECIFICATION Spec
INVARIANTS GuardrailStands StrictFailureStands WaterCapStands
CHECK_DEADLOCK FALSE
