SPECIFICATION Spec
CONSTANTS
  Workers = {w1}
  Jobs = {j1}
  Clients = {c1}
  Concurrency = 1
  Queues <- OneQueue
  WorkerQueues <- OneWorkerQueue
  Requests <- PlainOnly
  Orders <- NoOrders
  Operations = {"enqueue", "cancel"}
  FaultKinds = {}
  MaxFaults = 0
  MaxReplays = 0
  NoJob = noJob
  NoWorker = noWorker
  NoQueue = noQueue
  DefaultQueue = qDefault
  qDefault = qDefault
  qCritical = qCritical
PROPERTY
  CancelledNeverRuns
