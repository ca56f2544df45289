CONSTANTS
  Ranks = 2
  Seked = {"internal"}
  External = {"off"}
  Override = {"none"}
SPECIFICATION Spec
INVARIANTS BlockedTargetNeverWins
CHECK_DEADLOCK FALSE
