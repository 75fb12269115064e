SPECIFICATION Spec
CONSTANTS
  n1 = n1
  n2 = n2
  root = root
  d = d
  x = x
  g = g
  none = none
  v1 = v1
  v2 = v2
  NULL = NULL
  Nodes = {n1, n2}
  NN = NN
  Paths <- MCPaths
  Named = {root, d, x, g}
  Root = root
  Junk = Junk
  Parent <- MCParent
  Glued <- MCGlued
  Data = {v1, v2}
  Commas = {v2}
  Absent = Absent
  Dir = Dir
  Empty = Empty
  Garbled = Garbled
  Ops <- SomeOps
  MaxCalls = 3
  MaxFaults = 1
SYMMETRY Symm
INVARIANTS
  TypeOK
  PlacedWhereStored
  
  
CHECK_DEADLOCK FALSE
