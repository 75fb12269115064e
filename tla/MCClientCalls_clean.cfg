SPECIFICATION Spec
CONSTANTS
  c1 = c1
  NULL = NULL
  Callers = {c1}
  Ops <- Getattr
  MaxPolls = 2
  MaxCalls = 3
  Duplicates = FALSE
INVARIANTS
  
  LeaksBounded
CHECK_DEADLOCK FALSE
