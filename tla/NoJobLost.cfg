SPECIFICATION Spec
CONSTANTS
  Workers = {w1, w2}
  Jobs = {j1}
  Clients = {c1, c2}
  Concurrency = 1
  Queues <- OneQueue
  WorkerQueues <- OneWorkerQueue
  Requests <- PlainOrPutOff
  Orders <- NoOrders
  Operations = {"enqueue", "replay", "cancel"}
  FaultKinds = {"zrem_error", "overrun", "slow_startup", "resent"}
  MaxFaults = 2
  MaxReplays = 1
  NoJob = noJob
  NoWorker = noWorker
  NoQueue = noQueue
  DefaultQueue = qDefault
  qDefault = qDefault
  qCritical = qCritical
INVARIANT
  NoJobLost
