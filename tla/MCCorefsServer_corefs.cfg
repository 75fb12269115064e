SPECIFICATION Spec
CONSTANTS
  Clients = {c1, c2, c3, c4, c5}
  Keys = {c1, c2, c3, c4, c5}
  Datas = {c1, c2, c3, c4, c5}
  Nodes = {m1, m2}
  head = head
  NULL = NULL
  Loops = Loops
  MAX_LIST_LENGTH = 2
  UINT_MAX = 65535
  Ops <- SomeOps
  MaxCalls = 3
INVARIANTS
  TypeOK
  ContextsKept
  ServerStays
  LagIsExtra
  AnswersOwn
  WaitsForSender
CONSTRAINT FewCalls
SYMMETRY Symm
CHECK_DEADLOCK FALSE
