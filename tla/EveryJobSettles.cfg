SPECIFICATION FairSpec
CONSTANTS
  Workers = {w1}
  Jobs = {j1, j2}
  Clients = {c1}
  Concurrency = 2
  Queues <- OneQueue
  WorkerQueues <- OneWorkerQueue
  Requests <- PlainAndUrgent
  Orders <- TwoPlain
  Operations = {"enqueue", "order"}
  FaultKinds = {"worker_stop", "server_stop", "push_error"}
  MaxFaults = 1
  MaxReplays = 0
  NoJob = noJob
  NoWorker = noWorker
  NoQueue = noQueue
  DefaultQueue = qDefault
  qDefault = qDefault
  qCritical = qCritical
INVARIANTS
  RunningIsExecuted
  OrderIsEnqueued
PROPERTIES
  EveryJobSettles
  ShutdownCompletes
