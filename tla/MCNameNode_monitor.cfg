SPECIFICATION FairSpec
CONSTANTS
  n1 = n1
  n2 = n2
  root = root
  f1 = f1
  NULL = NULL
  Nodes = {n1, n2}
  Files = {root, f1}
  Root = root
  MaxSlots = 2
  Cmds <- MonCmds
  MaxQueries = 1
  MaxStarts = 1
  MaxCells = 2
INVARIANTS
  SingleHome
PROPERTIES
  
  RequestsEnd
CHECK_DEADLOCK FALSE
