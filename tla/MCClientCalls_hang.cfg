SPECIFICATION FairSpec
CONSTANTS
  c1 = c1
  NULL = NULL
  Callers = {c1}
  Ops <- Getattr
  MaxPolls = 2
  MaxCalls = 2
  Duplicates = FALSE
PROPERTIES
  EnoughWaiting
CHECK_DEADLOCK FALSE
