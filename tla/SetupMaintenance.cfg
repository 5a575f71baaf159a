SPECIFICATION MaintSpec
CONSTANTS
  r1 = r1
  r2 = r2
  s = s
  p = p
  b1 = b1
  m1 = m1
  m2 = m2
  Runs = {r1, r2}
  Scopes = {s}
  Packages = {p}
  ScopeOf <- OneScope
  PackageOf <- OnePackage
  Batches = {b1}
  Operators = {m1, m2}
  None = None
SYMMETRY Symmetry
INVARIANTS
  SetupAlone
  SuccessHolds
  OutcomeKept
PROPERTIES
  SetupOnce
  Coordinated
CHECK_DEADLOCK FALSE
