CONSTANTS
  Operators = {o1, o2}
  Calls = {c1, c2}
  Readers = {r1}
  MaxProposals = 1
  MaxHazards = 1
SPECIFICATION Spec
PROPERTIES RollbackTakesEffect
CHECK_DEADLOCK FALSE
