SPECIFICATION CommandSpec
CONSTANTS
  n1 = n1
  n2 = n2
  root = root
  f1 = f1
  NULL = NULL
  Nodes = {n1, n2}
  Files = {root, f1}
  Root = root
  MaxSlots = 3
  Cmds <- MCCmds
  MaxQueries = 0
  MaxStarts = 3
  MaxCells = 3
INVARIANTS
  FetchReturnsDatanode
CHECK_DEADLOCK FALSE
