SPECIFICATION ToolSpec
CONSTANTS
  r1 = r1
  r2 = r2
  s1 = s1
  t1 = t1
  m1 = m1
  m2 = m2
  Runs = {r1, r2}
  Sessions = {s1}
  Targets = {t1}
  SessionOf <- OneTarget
  Callers = {m1, m2}
  MaxLog = 6
  None = None
SYMMETRY Symmetry
INVARIANTS
  SnapshotSafe
  RecordsTrue
  RestoredOnce
  Recordable
  ResultsTrue
PROPERTIES
  ImplementsClaims
  StartsOnTarget
CHECK_DEADLOCK FALSE
