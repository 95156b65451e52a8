SPECIFICATION FairSpec
CONSTANTS
  Workers = {w1}
  Jobs = {j1}
  Clients = {c1}
  Concurrency = 1
  Queues <- OneQueue
  WorkerQueues <- OneWorkerQueue
  Requests <- FragileOnly
  Orders <- NoOrders
  Operations = {"enqueue"}
  FaultKinds = {"push_error"}
  MaxFaults = 1
  MaxReplays = 0
  NoJob = noJob
  NoWorker = noWorker
  NoQueue = noQueue
  DefaultQueue = qDefault
  qDefault = qDefault
  qCritical = qCritical
PROPERTY
  PendingIsPickedUp
