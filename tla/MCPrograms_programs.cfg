SPECIFICATION Spec
CONSTANTS
  nn = nn
  d0 = d0
  t0 = t0
  d1 = d1
  t1 = t1
  c1 = c1
  h0 = h0
  h1 = h1
  namenode = nn
  Datanodes = {d0, d1}
  Tools = {t0, t1}
  Clients = {c1}
  Host <- MCHost
  Counts = {5}
  None = None
  MaxStarts = 4
  MaxCommands = 1
INVARIANTS
  TypeOK
  PortsOwned
  NoEcho
CHECK_DEADLOCK FALSE
