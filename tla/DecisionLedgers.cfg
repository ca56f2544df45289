CONSTANTS
  f1 = f1
  f2 = f2
  w1 = w1
  w2 = w2
  w3 = w3
  c1 = c1
  None = None
  NoWriter = NoWriter
  Frames = {f1, f2, f3}
  Writers = {w1, w2, w3}
  Corrs = {c1}
  Of <- MCOf
  Corr <- MCCorr
  Size <- MCSize
SPECIFICATION FairSpec
INVARIANTS ForkNeedsOverlap ChainIntact NeverRefused OrderNeedsOverlap
PROPERTIES EventuallyEnds
CHECK_DEADLOCK FALSE
