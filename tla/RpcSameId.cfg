\* Two asynchronous calls whose requests bring the same id.
CONSTANTS
  t1 = t1
  t2 = t2
  Threads = {t1, t2}
  MaxCalls = 1
  Kinds = {"async"}
  SuppliedId <- SameIds
  Malformed = {}
  Untimed = {}
  ReqCapacity = 2
  RespCapacity = 2
  MaxCrashes = 0
  MayTimeOut = FALSE
  MayWakeEarly = FALSE
  Timer = TRUE
  None = None
SPECIFICATION FairSpec
PROPERTY EveryCallIsCalledBack
CHECK_DEADLOCK FALSE
