SPECIFICATION FairSpec
CONSTANTS
  Workers = {w1, w2}
  Jobs = {j1}
  Clients = {c1}
  Concurrency = 1
  Queues <- MCQueues
  WorkerQueues <- MCWorkerQueues
  Requests <- AllBodies
  Orders <- NoOrders
  Operations = {"enqueue", "replay"}
  FaultKinds = {"worker_crash", "server_crash", "db_error", "redis_error", "push_error", "lost_reply"}
  MaxFaults = 2
  MaxReplays = 1
  NoJob = noJob
  NoWorker = noWorker
  NoQueue = noQueue
  DefaultQueue = qDefault
  qDefault = qDefault
  qCritical = qCritical
INVARIANTS
  TypeOK
  RoutedIds
PROPERTIES
  ImplementsLifecycle
  CrashedJobSettles
  EveryJobSettles
