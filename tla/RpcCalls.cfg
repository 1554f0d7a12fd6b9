\* One call per thread, of either kind, one of them with no timeout; synchronous calls
\* may reach their deadline or be woken for no reason.
CONSTANTS
  t1 = t1
  t2 = t2
  Threads = {t1, t2}
  MaxCalls = 1
  Kinds = {"sync", "async"}
  SuppliedId <- GeneratedIds
  Malformed <- OneMalformed
  Untimed <- OneUntimed
  ReqCapacity = 1
  RespCapacity = 1
  MaxCrashes = 1
  MayTimeOut = TRUE
  MayWakeEarly = TRUE
  Timer = TRUE
  None = None
SPECIFICATION FairSpec
INVARIANTS
  TypeOK
  AtMostOneCallback
  RepeatedOnlyAfterCrash

  
  
CHECK_DEADLOCK FALSE
