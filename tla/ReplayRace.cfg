SPECIFICATION Spec
CONSTANTS
  Workers = {w1}
  Jobs = {j1}
  Clients = {c1, c2}
  Concurrency = 1
  Queues <- OneQueue
  WorkerQueues <- OneWorkerQueue
  Requests <- FragileOnly
  Orders <- NoOrders
  Operations = {"enqueue", "replay"}
  FaultKinds = {}
  MaxFaults = 0
  MaxReplays = 2
  NoJob = noJob
  NoWorker = noWorker
  NoQueue = noQueue
  DefaultQueue = qDefault
  qDefault = qDefault
  qCritical = qCritical
INVARIANT
  AttemptsWithinLimit
