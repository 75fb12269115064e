SPECIFICATION Spec
CONSTANTS
  c1 = c1
  NULL = NULL
  Callers = {c1}
  Ops <- Access
  MaxPolls = 2
  MaxCalls = 2
  Duplicates = FALSE
INVARIANTS
  OwnReply
CHECK_DEADLOCK FALSE
