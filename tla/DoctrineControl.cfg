CONSTANTS
  Operators = {o1, o2}
  Calls = {c1, c2}
  Readers = {r1}
  MaxProposals = 2
  MaxHazards = 1
SPECIFICATION FairSpec
INVARIANTS TwoPersons ApprovedIsEnacted CacheCoherent
PROPERTIES ImplementsAuthority EventuallyFresh
CHECK_DEADLOCK FALSE
