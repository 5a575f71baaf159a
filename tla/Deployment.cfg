SPECIFICATION Spec
CONSTANTS
  a = a
  b = b
  w = w
  settings = settings
  rules = rules
  v1 = v1
  v2 = v2
  c1 = c1
  c2 = c2
  c3 = c3
  l1 = l1
  l2 = l2
  r1 = r1
  None = None
  Absent = Absent
  Fields <- AllFields
  Values <- TwoValues
  Files <- AllFiles
  FileOf <- Path
  WholeFiles <- OneWhole
  InitOnly <- OnlyB
  Candidates <- ThreeCandidates
  Want <- Desired
  Launch <- Contract
  Declared <- DeclaredSettings
  Runs <- OneRun
INVARIANTS
  RecoversToRecord
  RunsFindWhole
  BackupLeadsBack
PROPERTIES
  KeepsUserValues
  ImplementsAtomic
CHECK_DEADLOCK FALSE
