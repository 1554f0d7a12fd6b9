\* Synchronous calls that may reach their deadline first.
CONSTANTS
  t1 = t1
  t2 = t2
  Threads = {t1}
  MaxCalls = 2
  Kinds = {"sync"}
  SuppliedId <- GeneratedIds
  Malformed = {}
  Untimed = {}
  ReqCapacity = 1
  RespCapacity = 1
  MaxCrashes = 0
  MayTimeOut = TRUE
  MayWakeEarly = FALSE
  Timer = FALSE
  None = None
SPECIFICATION Spec
INVARIANT OwnAnswer
CHECK_DEADLOCK FALSE
