SPECIFICATION Spec
CONSTANTS
  n1 = n1
  n2 = n2
  n3 = n3
  ip1 = ip1
  d1 = d1
  d2 = d2
  Nodes = {n1, n2, n3}
  Eno1 = {n1}
  Address <- SomeAddress
  NoAddress = NoAddress
  Paths <- SomePaths
  Capacity = 1
  Tools = {t1}
  MaxInserts = 5
SYMMETRY Symmetry
INVARIANTS
  RowsCurrent
  DeletionComplete
