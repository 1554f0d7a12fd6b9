\* Synchronous calls, two in a row, that may reach their deadline or be woken for no reason.
CONSTANTS
  t1 = t1
  t2 = t2
  Threads = {t1, t2}
  MaxCalls = 2
  Kinds = {"sync"}
  SuppliedId <- GeneratedIds
  Malformed = {}
  Untimed = {}
  ReqCapacity = 1
  RespCapacity = 1
  MaxCrashes = 0
  MayTimeOut = TRUE
  MayWakeEarly = TRUE
  Timer = TRUE
  None = None
SPECIFICATION Spec
SYMMETRY Symmetry
INVARIANTS
  ContextAlive
  AnswersStayInThread
PROPERTY SilentOnlyUntold
CHECK_DEADLOCK FALSE
