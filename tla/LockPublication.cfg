SPECIFICATION Spec
CONSTANTS
  l1 = l1
  l2 = l2
  c1 = c1
  c2 = c2
  p1 = p1
  p2 = p2
  n1 = n1
  None = None
  Manifest = manifest
  Locks <- TwoLocks
  Contents <- TwoContents
  Publishers <- TwoPublishers
  Readers <- OneReader
SYMMETRY Symmetry
PROPERTIES
  KeepsEdits
  ImplementsAtomic
CHECK_DEADLOCK FALSE
