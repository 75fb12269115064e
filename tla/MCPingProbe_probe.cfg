SPECIFICATION FairSpec
CONSTANTS
  n1 = n1
  n2 = n2
  Nodes = {n1, n2}
  MaxPolls = 2
  MaxProbes = 2
INVARIANTS
  TypeOK
  AliveHasPong
  PongNotMissed
  AliveMeansAnswered
PROPERTIES
  ProbeEnds
CHECK_DEADLOCK FALSE
