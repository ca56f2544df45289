CONSTANTS
  k1 = k1
  k2 = k2
  Credits = {k1, k2}
  Amount <- MCAmount
  Ops = {o1, o2}
  Goals = {2}
  MaxFaults = 1
  Calls = {c1, c2, c3}
  Reports = {r1, r2, r3}
  Execs = {e1}
  None = None
  Limit = 2
  Grace = 3
  Attempts = 2
  Needs = {1, 2}
  MaxArrivals = 3
SPECIFICATION Spec
SYMMETRY Symmetry
INVARIANTS OverageExplained RefusalJustified CoverageExplained AccuracyExplained OffsetsExplained RetiredIsOffset
CHECK_DEADLOCK FALSE
