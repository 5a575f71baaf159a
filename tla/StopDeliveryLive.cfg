SPECIFICATION FairSpec
CONSTANTS
  r1 = r1
  r2 = r2
  b1 = b1
  b2 = b2
  Runs <- OneRun
  Sidecar <- Nobody
  Batches <- TwoBatches
  None = None
PROPERTIES
  AskedIsAnswered
  ExitIsNoticed
CHECK_DEADLOCK FALSE
