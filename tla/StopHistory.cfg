SPECIFICATION Spec
CONSTANTS
  r1 = r1
  r2 = r2
  b1 = b1
  b2 = b2
  Runs <- TwoRuns
  Sidecar <- OnlyR2
  Batches <- TwoBatches
  None = None
INVARIANTS
  StoppedStayListed
CHECK_DEADLOCK FALSE
