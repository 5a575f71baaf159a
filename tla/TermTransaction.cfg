SPECIFICATION Spec
CONSTANTS
  t1 = t1
  t2 = t2
  zsh = zsh
  v1 = v1
  v2 = v2
  s1 = s1
  s2 = s2
  None = None
  Absent = Absent
  Targets <- AllTargets
  Components <- OneComponent
  ComponentOf <- TwoFiles
  Contents <- TwoContents
  Versions <- TwoVersions
  Slots <- TwoSlots
SYMMETRY SlotSymmetry
INVARIANTS
  BackupsKept
PROPERTIES
  KeepsEdits
  ImplementsHome
CHECK_DEADLOCK FALSE
