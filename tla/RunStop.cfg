SPECIFICATION Spec
CONSTANTS
  r1 = r1
  r2 = r2
  u1 = u1
  m1 = m1
  m2 = m2
  b1 = b1
  b2 = b2
  Runs <- RegisteredRuns
  Unregistered <- Nobody
  Maintainers <- OneMaintainer
  Descendants <- OnlyDetached
  Batches <- OneBatch
  None = None
SYMMETRY Symmetry
INVARIANTS
  FenceCoversLive
  StoppedIsReleased
PROPERTIES
  ImplementsGate
CHECK_DEADLOCK FALSE
