SPECIFICATION FairSpec
CONSTANTS
  c1 = c1
  NULL = NULL
  Callers = {c1}
  Ops <- Mkdir
  MaxPolls = 2
  MaxCalls = 2
  Duplicates = TRUE
INVARIANTS
  TypeOK
  LeaksBounded
PROPERTIES
  CallsReturn
CHECK_DEADLOCK FALSE
