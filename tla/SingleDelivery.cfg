SPECIFICATION Spec
CONSTANTS
  Workers = {w1, w2}
  Jobs = {j1, j2}
  Clients = {c1}
  Concurrency = 1
  Queues <- OneQueue
  WorkerQueues <- OneWorkerQueue
  Requests <- PlainOnly
  Orders <- NoOrders
  Operations = {"enqueue", "replay", "cancel"}
  FaultKinds = {"worker_crash", "server_crash", "worker_stop", "server_stop", "db_error", "redis_error", "push_error", "lost_reply"}
  MaxFaults = 1
  MaxReplays = 1
  NoJob = noJob
  NoWorker = noWorker
  NoQueue = noQueue
  DefaultQueue = qDefault
  qDefault = qDefault
  qCritical = qCritical
SYMMETRY Interchangeable
INVARIANTS
  SingleDelivery
  SettledIsQuiet
  ExecutingIsRecorded
  AttemptsWithinLimit
  DeadIsListed
PROPERTIES
  LossIsConfined
