SPECIFICATION FairSpec
CONSTANTS
  r1 = r1
  r2 = r2
  u1 = u1
  m1 = m1
  m2 = m2
  b1 = b1
  b2 = b2
  Runs <- MixedRuns
  Unregistered <- OnlyU1
  Maintainers <- OneMaintainer
  Descendants <- OfRegistered
  Batches <- TwoBatches
  None = None
INVARIANTS
  MaintenanceExcludesTrees
  IdleIsReleased
  RequestsStayFenced
PROPERTIES
  FenceDiscipline
  ManagerLeaves
CHECK_DEADLOCK FALSE
