\* Configuration files into endpoints; clients over the endpoints; the crpc queue; the components' threads.
CONSTANTS
  t1 = t1
  t2 = t2
  a = a
  b = b
  c = c
  Missing = Missing
  None = None
  Nobody = Nobody
  Topics = {t1, t2}
  Names = {a, b, c}
  Configurations <- MCConfigurations
  Attrs = {1, 2, 3, 4, 5}
  Priority <- MCPriority
  Size <- MCSize
  Buildable = {1, 2, 4, 5}
  Word = 32
  TableSize = 2
  MaxChannels = 5
  MaxEndpoints = 4
  Channels <- MCChannels
  Again = {}
  Capacity = 1
  Messages <- MCMessages
  Repeated <- MCRepeated
  Workloads <- MCWorkloads
  Settled = {a, c}
  Posts <- MCPosts
  Deleter = "app"
  Kinds = {"registry", "node center", "node loader", "micoservice"}
  SelfStopping = {"node center"}
SPECIFICATION FairSpec
INVARIANTS
  TypeOK
  TableServesConfig
  QueuesApart
  LowPriorityPays
  ToldTruth
  NoCallbackAfterDelete
  AcceptedInOrder
  FreedAfterWorker
  FreedAfterLoop
PROPERTIES
  Served
  DeleteEnds
  EverythingSent
  CrpcDeleteEnds
  StopEnds
CHECK_DEADLOCK FALSE
