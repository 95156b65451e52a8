SPECIFICATION FairSpec
CONSTANTS
  Workers = {w1}
  Jobs = {j1}
  Clients = {c1}
  Concurrency = 1
  Queues <- OneQueue
  WorkerQueues <- OneWorkerQueue
  Requests <- PlainOnly
  Orders <- NoOrders
  Operations = {"enqueue"}
  FaultKinds = {"worker_stop"}
  MaxFaults = 1
  MaxReplays = 0
  NoJob = noJob
  NoWorker = noWorker
  NoQueue = noQueue
  DefaultQueue = qDefault
  qDefault = qDefault
  qCritical = qCritical
PROPERTY
  FailedJobIsRetried
