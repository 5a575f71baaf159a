SPECIFICATION Spec
CONSTANTS
  r1 = r1
  r2 = r2
  s1 = s1
  s2 = s2
  p = p
  Runs = {r1, r2}
  Scopes = {s1, s2}
  Packages = {p}
  ScopeOf <- OwnScopes
  PackageOf <- OnePackage
  Batches = {b1}
  b1 = b1
  None = None
INVARIANTS
  WriterAlone
  Accounted
  FenceHolds
PROPERTIES
  Final
CHECK_DEADLOCK FALSE
