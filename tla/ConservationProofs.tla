-------------------------- MODULE ConservationProofs -------------------------
(***************************************************************************)
(* What is never lost, for every value of the constants: a running row has *)
(* a goroutine that executes it, an accepted job has a place that leads to *)
(* its run, and an order never goes on over a job that is not enqueued.    *)
(* Each theorem names the faults it excludes: those are the ones that do   *)
(* lose what it is about, as the runs StopDuringRetry and FailedPush show. *)
(***************************************************************************)
EXTENDS OutcomeProofs

-----------------------------------------------------------------------------
(* Running rows.  A worker that is told to stop lets its goroutines finish *)
(* what they run, so only a crash and a failed write leave a running row   *)
(* behind.                                                                 *)

HandlersFinish == FaultKinds \cap {"worker_crash", "db_error"} = {}

\* A process that is gone has no goroutines.
GoneIsExited ==
  \A w \in Workers : proc[w] \in {"stopped", "crashed"} =>
    \A g \in Goroutines : g[1] = w => gor[g].pc = "exited"

(* A goroutine that has exited does not move, and no step of a goroutine    *)
(* moves another one.                                                       *)
LEMMA OtherGoroutines ==
  ASSUME WorkerTypeOK, NEW g \in Goroutines, GoroutineStep(g)
  PROVE  /\ gor[g].pc # "exited"
         /\ UNCHANGED proc
         /\ \A h \in Goroutines \ {g} : gor'[h] = gor[h]
<1>1. ASSUME NEW state, Go(g, state)
      PROVE  \A h \in Goroutines \ {g} : gor'[h] = gor[h]
  BY <1>1 DEF Go, WorkerTypeOK
<1>2. UNCHANGED gor => \A h \in Goroutines \ {g} : gor'[h] = gor[h]
  OBVIOUS
<1> QED
  BY <1>1, <1>2
     DEF GoroutineStep, StopLoop, PollPriority, NextQueue, BlockingPop, PopTimeout,
         LoadJob, MarkRunning, CompleteJob, FailJob, DelayRetry, BuryJob

(* The processes that are gone stay without goroutines. *)
LEMMA NextGone == TypeOK /\ GoneIsExited /\ [Next]_vars => GoneIsExited'
<1> SUFFICES ASSUME TypeOK, GoneIsExited, [Next]_vars PROVE GoneIsExited'
  OBVIOUS
<1>0. WorkerTypeOK
  BY DEF TypeOK
<1>1. CASE UNCHANGED workerVars
  BY <1>1 DEF workerVars, GoneIsExited
<1>2. CASE \E g \in Goroutines : GoroutineStep(g)
  BY <1>0, <1>2, OtherGoroutines DEF GoneIsExited
<1>3. CASE \E w \in Workers : WorkerProcess(w)
  <2> SUFFICES ASSUME NEW v \in Workers, proc'[v] \in {"stopped", "crashed"},
                      NEW g \in Goroutines, g[1] = v
               PROVE  gor'[g].pc = "exited"
    BY DEF GoneIsExited
  <2>1. PICK w \in Workers : WorkerProcess(w)
    BY <1>3
  <2> QED
    BY <1>0, <2>1, IdleStates
       DEF WorkerProcess, StopWorker, WorkerStopped, CrashWorker, StartWorker, ExitAll,
           WorkerTypeOK, GoneIsExited
<1> QED
  BY <1>1, <1>2, <1>3
     DEF Next, Clock, BecomeStuck, Server, StopServer, StopScheduler, ExitServer,
         CrashServer, StartServer, WorkersNext, ClientsNext, vars

(* A handler that ends has its outcome written to the row. *)
LEMMA HandlerEnds ==
  ASSUME TypeOK, GoneIsExited, HandlersFinish, [Next]_vars,
         NEW g \in Goroutines, gor[g].pc = "exec", NEW j \in Jobs, gor[g].job = j
  PROVE  gor'[g] = gor[g] \/ jobs'[j].status # "running"
<1>0. WorkerTypeOK /\ RowsTypeOK /\ ~Fault("db_error") /\ ~Fault("worker_crash")
  BY StoresParts DEF TypeOK, HandlersFinish, Fault
<1>1. CASE UNCHANGED gor
  BY <1>1
<1>2. ASSUME NEW h \in Goroutines, GoroutineStep(h)
      PROVE  gor'[g] = gor[g] \/ jobs'[j].status # "running"
  <2>1. CASE h # g
    BY <1>0, <1>2, <2>1, OtherGoroutines
  <2>2. CASE h = g
    <3>1. CompleteJob(g) \/ FailJob(g)
      BY <1>2, <2>2
         DEF GoroutineStep, StopLoop, PollPriority, BlockingPop, PopTimeout, LoadJob,
             MarkRunning, DelayRetry, BuryJob
    <3>2. jobs[j] \in JobRow
      BY <1>0 DEF RowsTypeOK
    <3>3. CASE CompleteJob(g)
      BY <1>0, <3>2, <3>3, RowAfter DEF CompleteJob, FailedWrite, JobRow
    <3>4. CASE FailJob(g)
      <4>1. PICK status \in {"dead", "pending"} : WriteRow(j, FailedRow(g, status))
        BY <1>0, <3>4 DEF FailJob, FailedWrite
      <4>2. jobs'[j] = FailedRow(g, status)
        BY <1>0, <4>1, RowAfter
      <4> QED
        BY <3>2, <4>2 DEF FailedRow, JobRow
    <3> QED
      BY <3>1, <3>3, <3>4
  <2> QED
    BY <2>1, <2>2
<1>3. ASSUME NEW w \in Workers, WorkerProcess(w) PROVE gor'[g] = gor[g]
  <2>1. CASE StartWorker(w)
    <3>1. g[1] # w
      BY <2>1 DEF StartWorker, GoneIsExited
    <3> QED
      BY <1>0, <2>1, <3>1 DEF StartWorker
  <2> QED
    BY <1>0, <1>3, <2>1 DEF WorkerProcess, StopWorker, WorkerStopped, CrashWorker
<1> QED
  BY <1>1, <1>2, <1>3
     DEF Next, Clock, BecomeStuck, Server, StopServer, StopScheduler, ExitServer,
         CrashServer, StartServer, WorkersNext, ClientsNext, vars, workerVars

(* Every step keeps a goroutine at each running row. *)
LEMMA NextExecuted ==
  ASSUME HandlersFinish
  PROVE  TypeOK /\ GoneIsExited /\ RunningIsExecuted /\ [Next]_vars => RunningIsExecuted'
<1> SUFFICES ASSUME TypeOK, GoneIsExited, RunningIsExecuted, [Next]_vars,
                    NEW j \in Jobs, jobs'[j].status = "running"
             PROVE  Executing(j)'
  BY DEF RunningIsExecuted
<1>1. RowStep(j)
  BY RowSteps
<1>2. CASE Unmoved(j)
  <2>1. PICK g \in Goroutines : gor[g].pc = "exec" /\ gor[g].job = j
    BY <1>2 DEF Unmoved, RunningIsExecuted, Executing
  <2>2. gor'[g] = gor[g]
    BY <2>1, HandlerEnds
  <2> QED
    BY <2>1, <2>2 DEF Executing
<1>3. CASE \E g \in Goroutines : Marked(g, j)
  BY <1>3 DEF Marked, HandlersFinish, Fault, Executing
<1>4. ~Created(j)
  BY DEF Created, NewRow, NoRow
<1>5. \A g \in Goroutines : ~Failed(g, j)
  BY DEF Failed
<1> QED
  BY <1>1, <1>2, <1>3, <1>4, <1>5
     DEF RowStep, Finished, Requeued, Replayed, Withdrawn

(* As long as no worker is killed and no write fails, a row is running only *)
(* while a goroutine executes the job: a worker that is told to stop        *)
(* leaves no running row behind (Worker.Start and processJob).              *)
THEOREM RunningJobsAreExecuted ==
  ASSUME HandlersFinish PROVE Spec => []RunningIsExecuted
<1>1. Init => GoneIsExited /\ RunningIsExecuted
  <2>1. Init => GoneIsExited
    BY DEF Init, WorkerInit, GoneIsExited
  <2>2. Init => RunningIsExecuted
    <3> SUFFICES ASSUME Init, NEW j \in Jobs PROVE jobs[j].status # "running"
      BY DEF RunningIsExecuted
    <3> QED
      BY DEF Init, StoresInit, NoRow
  <2> QED
    BY <2>1, <2>2
<1>2. TypeOK /\ GoneIsExited /\ [Next]_vars => GoneIsExited'
  BY NextGone
<1>3. TypeOK /\ GoneIsExited /\ RunningIsExecuted /\ [Next]_vars => RunningIsExecuted'
  BY NextExecuted
<1> QED
  BY <1>1, <1>2, <1>3, TypeCorrectness, PTL DEF Spec

-----------------------------------------------------------------------------
(* Jobs on their way to a handler: what waits in a queue is handed to a    *)
(* goroutine, which runs it.  The goroutines drop nothing unless their     *)
(* process is killed, the reply of a pop is lost, or the row of the job    *)
(* cannot be read or written.                                              *)

WorkersDropNothing == FaultKinds \cap {"worker_crash", "db_error", "lost_reply"} = {}

InQueues(j) == \E q \in Queues : InList(q, j) \/ j \in prio[q]

Delaying(g, j) == gor[g].pc = "delay" /\ gor[g].job = j

OnItsWay(j) ==
  \/ InQueues(j)
  \/ \E g \in Goroutines : gor[g].pc \in {"load", "mark", "exec"} /\ gor[g].job = j

(* A push puts the job in a queue and takes none from one. *)
LEMMA PushKeeps ==
  ASSUME RowsTypeOK, RedisTypeOK, NEW k \in Jobs, PushToRedis(k)
  PROVE  InQueues(k)' /\ \A j \in Jobs : InQueues(j) => InQueues(j)'
<1>0. PICK home \in Queues : home = jobs[k].queue
  BY DEF RowsTypeOK, JobRow
<1>1. CASE EnqueuePriority(home, k)
  <2>1. lists' = lists /\ prio' = [prio EXCEPT ![home] = @ \cup {k}]
    BY <1>1 DEF EnqueuePriority
  <2> QED
    BY <1>0, <2>1 DEF InQueues, InList, RedisTypeOK
<1>2. CASE Enqueue(home, k)
  <2>1. prio' = prio /\ lists' = [lists EXCEPT ![home] = Append(@, k)]
    BY <1>2 DEF Enqueue
  <2>2. lists[home] \in Seq(Jobs)
    BY <1>0 DEF RedisTypeOK
  <2>3. lists'[home] = Append(lists[home], k)
    BY <1>0, <2>1 DEF RedisTypeOK
  <2>4. InList(home, k)'
    <3>1. PICK n \in Nat : n = Len(lists[home])
      BY <2>2
    <3>2. Len(lists'[home]) = n + 1 /\ lists'[home][n + 1] = k
      BY <2>2, <2>3, <3>1
    <3>3. lists'[home] \in Seq(Jobs)
      BY <2>2, <2>3
    <3> QED
      BY <3>2, <3>3 DEF InList
  <2>5. ASSUME NEW q \in Queues, NEW j \in Jobs, InList(q, j) PROVE InList(q, j)'
    <3>1. PICK i \in DOMAIN lists[q] : lists[q][i] = j
      BY <2>5 DEF InList
    <3>2. CASE q = home
      <4>1. i \in DOMAIN lists'[q] /\ lists'[q][i] = j
        BY <2>2, <2>3, <3>1, <3>2
      <4> QED
        BY <4>1 DEF InList
    <3>3. CASE q # home
      BY <2>1, <3>1, <3>3 DEF InList, RedisTypeOK
    <3> QED
      BY <3>2, <3>3
  <2>6. ASSUME NEW j \in Jobs, InQueues(j) PROVE InQueues(j)'
    BY <2>1, <2>5, <2>6 DEF InQueues
  <2> QED
    BY <1>0, <2>4, <2>6 DEF InQueues
<1> QED
  BY <1>0, <1>1, <1>2 DEF PushToRedis

(* What a pop takes from a queue, the goroutine has. *)
LEMMA PopKeeps ==
  ASSUME TypeOK, WorkersDropNothing, NEW g \in Goroutines,
         PollPriority(g) \/ BlockingPop(g), NEW j \in Jobs, InQueues(j)
  PROVE  InQueues(j)' \/ (gor'[g].pc = "load" /\ gor'[g].job = j)
<1>0. WorkerTypeOK /\ RedisTypeOK /\ ~Fault("lost_reply")
  BY StoresParts DEF TypeOK, WorkersDropNothing, Fault
<1>1. ASSUME NEW k, Go(g, At("load", 1, k, 0))
      PROVE  gor'[g].pc = "load" /\ gor'[g].job = k
  BY <1>0, <1>1 DEF Go, WorkerTypeOK, At
<1>2. CASE PollPriority(g)
  <2>1. CASE UNCHANGED prio
    BY <1>2, <2>1 DEF PollPriority, InQueues, InList
  <2>2. CASE ~UNCHANGED prio
    <3>1. PICK q \in Queues : q = WorkerQueues[gor[g].idx]
      BY <1>0, WorkerAssumption DEF WorkerTypeOK
    <3>2. PICK k \in prio[q] : /\ prio' = [prio EXCEPT ![q] = @ \ {k}]
                               /\ Go(g, At("load", 1, k, 0))
      BY <1>0, <1>2, <2>2, <3>1 DEF PollPriority, HighestPriority
    <3>3. k # j => InQueues(j)'
      BY <1>0, <1>2, <3>2 DEF PollPriority, InQueues, InList, RedisTypeOK
    <3> QED
      BY <1>1, <3>2, <3>3
  <2> QED
    BY <2>1, <2>2
<1>3. CASE BlockingPop(g)
  <2>1. PICK i \in DOMAIN WorkerQueues :
          /\ lists[WorkerQueues[i]] # <<>>
          /\ lists' = [lists EXCEPT ![WorkerQueues[i]] = Tail(@)]
          /\ Go(g, At("load", 1, Head(lists[WorkerQueues[i]]), 0))
    BY <1>0, <1>3 DEF BlockingPop, FirstNonEmpty
  <2>2. PICK q \in Queues : q = WorkerQueues[i]
    BY WorkerAssumption
  <2>3. /\ lists[q] \in Seq(Jobs) /\ lists[q] # <<>>
        /\ lists'[q] = Tail(lists[q])
        /\ \A r \in Queues \ {q} : lists'[r] = lists[r]
    BY <1>0, <2>1, <2>2 DEF RedisTypeOK
  <2>4. PICK k : k = Head(lists[q])
    OBVIOUS
  <2>5. gor'[g].pc = "load" /\ gor'[g].job = k
    BY <1>1, <2>1, <2>2, <2>4
  <2>6. ASSUME InList(q, j), j # k PROVE InList(q, j)'
    <3>1. PICK n \in DOMAIN lists[q] : lists[q][n] = j
      BY <2>6 DEF InList
    <3>2. n # 1
      BY <2>3, <2>4, <2>6, <3>1
    <3>3. n - 1 \in DOMAIN lists'[q] /\ lists'[q][n - 1] = j
      BY <2>3, <3>1, <3>2
    <3> QED
      BY <3>3 DEF InList
  <2>7. j # k => InQueues(j)'
    BY <1>3, <2>3, <2>6 DEF BlockingPop, InQueues, InList
  <2> QED
    BY <2>5, <2>7
<1> QED
  BY <1>2, <1>3

(* A goroutine that has a job runs it to its outcome. *)
LEMMA GoroutineCarries ==
  ASSUME TypeOK, WorkersDropNothing, NEW g \in Goroutines, GoroutineStep(g),
         NEW j \in Jobs, gor[g].pc \in {"load", "mark", "exec"}, gor[g].job = j
  PROVE  \/ gor'[g].pc \in {"load", "mark", "exec"} /\ gor'[g].job = j
         \/ Settled(j)'
         \/ Delaying(g, j)' /\ jobs'[j].attempts > 0
<1>0. /\ WorkerTypeOK /\ RowsTypeOK /\ ~Fault("db_error")
      /\ gor[g] \in GoroutineState
  BY StoresParts DEF TypeOK, WorkerTypeOK, WorkersDropNothing, Fault
<1>1. LoadJob(g) \/ MarkRunning(g) \/ CompleteJob(g) \/ FailJob(g)
  BY DEF GoroutineStep, StopLoop, PollPriority, BlockingPop, PopTimeout, DelayRetry,
         BuryJob
<1>2. CASE LoadJob(g)
  BY <1>0, <1>2 DEF LoadJob, Go, At, WorkerTypeOK
<1>3. CASE MarkRunning(g)
  BY <1>0, <1>3 DEF MarkRunning, FailedWrite, Go, WorkerTypeOK, GoroutineState
<1>4. jobs[j] \in JobRow
  BY <1>0 DEF RowsTypeOK
<1>5. CASE CompleteJob(g)
  BY <1>0, <1>4, <1>5, RowAfter DEF CompleteJob, FailedWrite, JobRow, Settled
<1>6. CASE FailJob(g)
  <2> DEFINE status == IF Exhausted(g) THEN "dead" ELSE "pending"
             next == IF Exhausted(g) THEN "bury" ELSE "delay"
  <2>1. WriteRow(j, FailedRow(g, status)) /\ Go(g, [gor[g] EXCEPT !.pc = next])
    BY <1>0, <1>6 DEF FailJob, FailedWrite
  <2>2. jobs'[j] = FailedRow(g, status)
    BY <1>0, <2>1, RowAfter
  <2>3. jobs'[j].status = status /\ jobs'[j].attempts = gor[g].attempts + 1
    BY <1>4, <2>2 DEF FailedRow, JobRow
  <2>4. gor'[g].pc = next /\ gor'[g].job = j /\ gor[g].attempts \in Nat
    BY <1>0, <2>1 DEF Go, WorkerTypeOK, GoroutineState
  <2> QED
    BY <2>3, <2>4 DEF Settled, Delaying
<1> QED
  BY <1>1, <1>2, <1>3, <1>5, <1>6

(* The queues keep what they have, whatever is not a pop does. *)
LEMMA QueuesKeep ==
  ASSUME TypeOK, [Next]_vars, NEW j \in Jobs, InQueues(j),
         \A g \in Goroutines : ~PollPriority(g) /\ ~BlockingPop(g)
  PROVE  InQueues(j)'
<1>0. RowsTypeOK /\ RedisTypeOK /\ WorkerTypeOK /\ SchedulerTypeOK /\ ApiTypeOK
  BY StoresParts DEF TypeOK
<1>1. UNCHANGED <<lists, prio>> => InQueues(j)'
  BY DEF InQueues, InList
<1>2. ASSUME NEW k \in Jobs, PushToRedis(k) PROVE InQueues(j)'
  BY <1>0, <1>2, PushKeeps
<1>3. ASSUME NEW k, EnqueueDelayed(k) \/ EnqueueDead(k) \/ RemoveFromDead(k)
      PROVE  InQueues(j)'
  BY <1>1, <1>3 DEF EnqueueDelayed, EnqueueDead, RemoveFromDead
<1>4. CASE Clock
  BY <1>1, <1>4 DEF Clock, BecomeDue, BecomeStuck, redisVars
<1>5. CASE Server
  <2>1. CASE \E t \in Threads : PushJob(t)
    <3>1. PICK t \in Threads : PushJob(t)
      BY <2>1
    <3>2. PICK k \in Jobs : k = sch[t].job
      BY <1>0, <3>1, StoresAssumption DEF PushJob, SchedulerTypeOK, ThreadState
    <3> QED
      BY <1>1, <1>2, <3>1, <3>2 DEF PushJob, redisVars
  <2> QED
    BY <1>1, <1>5, <2>1
       DEF Server, StopServer, StopScheduler, ExitServer, CrashServer, StartServer,
           SchedulerStep, ThreadStep, DelayedTick, RemoveDue, StuckTick, StartupScan,
           ResetJob, storeVars, redisVars
<1>6. CASE WorkersNext
  BY <1>1, <1>3, <1>6
     DEF WorkersNext, WorkerProcess, StopWorker, WorkerStopped, CrashWorker, StartWorker,
         GoroutineStep, StopLoop, PopTimeout, LoadJob, MarkRunning, CompleteJob, FailJob,
         DelayRetry, BuryJob, storeVars, redisVars
<1>7. CASE ClientsNext
  <2>1. PICK c \in Clients : ClientStep(c) \/ ClientRequest(c)
    BY <1>7 DEF ClientsNext
  <2>2. CASE CreateJob(c) \/ PlaceOrder(c) \/ ContinueOrder(c)
    BY <1>0, <1>1, <2>2, CreateSteps DEF redisVars
  <2>3. CASE PushRequest(c)
    <3>1. PICK k \in Jobs : k = cl[c].job
      BY <1>0, <2>3, StoresAssumption DEF PushRequest, ApiTypeOK, ClientState
    <3> QED
      BY <1>1, <1>2, <2>3, <3>1 DEF PushRequest, redisVars
  <2> QED
    BY <1>1, <1>3, <2>1, <2>2, <2>3
       DEF ClientStep, ClientRequest, DelayJob, ReplayCheck, ReplayReset, ReplayRemove,
           CancelCheck, CancelJob, storeVars, redisVars
<1>8. CASE UNCHANGED vars
  BY <1>1, <1>8 DEF vars, storeVars
<1> QED
  BY <1>4, <1>5, <1>6, <1>7, <1>8 DEF Next

(* A job on its way stays so until its handler has ended. *)
LEMMA NextCarries ==
  ASSUME TypeOK, GoneIsExited, WorkersDropNothing, [Next]_vars,
         NEW j \in Jobs, OnItsWay(j)
  PROVE  \/ OnItsWay(j)'
         \/ Settled(j)'
         \/ \E g \in Goroutines : Delaying(g, j)' /\ jobs'[j].attempts > 0
<1>0. WorkerTypeOK /\ ~Fault("worker_crash")
  BY DEF TypeOK, WorkersDropNothing, Fault
<1>1. CASE InQueues(j)
  <2>1. CASE \E g \in Goroutines : PollPriority(g) \/ BlockingPop(g)
    BY <1>1, <2>1, PopKeeps DEF OnItsWay
  <2>2. CASE \A g \in Goroutines : ~PollPriority(g) /\ ~BlockingPop(g)
    BY <1>1, <2>2, QueuesKeep DEF OnItsWay
  <2> QED
    BY <2>1, <2>2
<1>2. CASE \E g \in Goroutines : gor[g].pc \in {"load", "mark", "exec"} /\ gor[g].job = j
  <2>1. PICK g \in Goroutines : gor[g].pc \in {"load", "mark", "exec"} /\ gor[g].job = j
    BY <1>2
  <2>2. CASE gor'[g] = gor[g]
    BY <2>1, <2>2 DEF OnItsWay
  <2>3. CASE GoroutineStep(g)
    BY <2>1, <2>3, GoroutineCarries DEF OnItsWay
  <2>4. ASSUME NEW h \in Goroutines, h # g, GoroutineStep(h) PROVE gor'[g] = gor[g]
    BY <1>0, <2>4, OtherGoroutines
  <2>5. ASSUME NEW w \in Workers, WorkerProcess(w) PROVE gor'[g] = gor[g]
    <3>1. CASE StartWorker(w)
      <4>1. g[1] # w
        BY <2>1, <3>1 DEF StartWorker, GoneIsExited
      <4> QED
        BY <1>0, <3>1, <4>1 DEF StartWorker
    <3> QED
      BY <1>0, <2>5, <3>1 DEF WorkerProcess, StopWorker, WorkerStopped, CrashWorker
  <2> QED
    BY <2>2, <2>3, <2>4, <2>5
       DEF Next, Clock, BecomeStuck, Server, StopServer, StopScheduler, ExitServer,
           CrashServer, StartServer, WorkersNext, ClientsNext, vars, workerVars
<1> QED
  BY <1>1, <1>2 DEF OnItsWay

-----------------------------------------------------------------------------
(* Accepted jobs.  As long as no process stops and no call fails, a job    *)
(* that is neither completed nor dead has a place that leads to its run.   *)
(* Handlers that outlive the stuck timeout, overlapping recoveries, a ZREM *)
(* that fails and commands that are sent twice may all happen.             *)

NothingDropped ==
  FaultKinds \cap {"worker_crash", "worker_stop", "server_crash", "server_stop",
                   "db_error", "redis_error", "push_error", "lost_reply"} = {}

AllUp == server = "up" /\ \A w \in Workers : proc[w] = "up"

Placed(j) ==
  \/ OnItsWay(j)
  \/ delayed[j] # "no"
  \/ \E g \in Goroutines : Delaying(g, j)
  \/ \E t \in Threads : HoldsThread(t, j)
  \/ \E c \in Clients : HoldsClient(c, j)

(* A place is a delivery. *)
LEMMA PlacedIsDelivered == ASSUME NEW j, Placed(j) PROVE Deliveries(j) # {}
<1>1. CASE InQueues(j)
  <2>1. CASE \E q \in Queues : InList(q, j)
    <3>1. PICK q \in Queues : InList(q, j)
      BY <2>1
    <3>2. PICK i \in DOMAIN lists[q] : lists[q][i] = j
      BY <3>1 DEF InList
    <3>3. <<"list", q, i>> \in ListPlaces(j)
      BY <3>2 DEF ListPlaces
    <3> QED
      BY <3>3 DEF Deliveries
  <2>2. CASE \E q \in Queues : j \in prio[q]
    <3>1. PICK q \in Queues : j \in prio[q]
      BY <2>2
    <3>2. <<"prio", q>> \in Deliveries(j)
      BY <3>1 DEF Deliveries
    <3> QED
      BY <3>2
  <2> QED
    BY <1>1, <2>1, <2>2 DEF InQueues
<1>2. CASE delayed[j] # "no"
  <2>1. <<"delayed", j>> \in Deliveries(j)
    BY <1>2 DEF Deliveries
  <2> QED
    BY <2>1
<1>3. CASE \E g \in Goroutines : HoldsGoroutine(g, j)
  <2>1. PICK g \in Goroutines : HoldsGoroutine(g, j)
    BY <1>3
  <2>2. <<"goroutine", g>> \in Deliveries(j)
    BY <2>1 DEF Deliveries
  <2> QED
    BY <2>2
<1>4. CASE \E t \in Threads : HoldsThread(t, j)
  <2>1. PICK t \in Threads : HoldsThread(t, j)
    BY <1>4
  <2>2. <<"thread", t>> \in Deliveries(j)
    BY <2>1 DEF Deliveries
  <2> QED
    BY <2>2
<1>5. CASE \E c \in Clients : HoldsClient(c, j)
  <2>1. PICK c \in Clients : HoldsClient(c, j)
    BY <1>5
  <2>2. <<"client", c>> \in Deliveries(j)
    BY <2>1 DEF Deliveries
  <2> QED
    BY <2>2
<1> QED
  BY <1>1, <1>2, <1>3, <1>4, <1>5 DEF Placed, OnItsWay, Delaying, HoldsGoroutine

(* No process stops. *)
LEMMA NextAllUp ==
  ASSUME NothingDropped PROVE TypeOK /\ AllUp /\ [Next]_vars => AllUp'
<1> SUFFICES ASSUME TypeOK, AllUp, [Next]_vars PROVE AllUp'
  OBVIOUS
<1>0. WorkerTypeOK /\ \A kind \in {"worker_crash", "worker_stop", "server_crash",
                                   "server_stop"} : ~Fault(kind)
  BY DEF TypeOK, NothingDropped, Fault
<1>1. CASE UNCHANGED <<server, proc>>
  BY <1>1 DEF AllUp
<1>2. CASE Server
  BY <1>0, <1>1, <1>2
     DEF Server, StopServer, StopScheduler, ExitServer, CrashServer, StartServer,
         SchedulerStep, ThreadStep, DelayedTick, RemoveDue, StuckTick, StartupScan,
         ResetJob, PushJob, workerVars, AllUp
<1>3. CASE WorkersNext
  BY <1>0, <1>1, <1>3, OtherGoroutines
     DEF WorkersNext, WorkerProcess, StopWorker, WorkerStopped, CrashWorker, StartWorker,
         schedulerVars, AllUp
<1> QED
  BY <1>1, <1>2, <1>3
     DEF Next, Clock, BecomeStuck, ClientsNext, vars, schedulerVars, workerVars

(* The delayed set: ZREM hands what it removes to the scheduler. *)
LEMMA DelayedCarries ==
  ASSUME TypeOK, AllUp, [Next]_vars, NEW j \in Jobs, delayed[j] # "no"
  PROVE  delayed'[j] # "no" \/ HoldsThread("loop", j)'
<1>0. RedisTypeOK /\ SchedulerTypeOK /\ RowsTypeOK
  BY StoresParts DEF TypeOK
<1>1. UNCHANGED delayed => delayed'[j] # "no"
  OBVIOUS
<1>2. ASSUME NEW k, EnqueueDelayed(k) PROVE delayed'[j] # "no"
  BY <1>0, <1>2 DEF EnqueueDelayed, RedisTypeOK
<1>3. ASSUME NEW k, PushToRedis(k) \/ EnqueueDead(k) \/ RemoveFromDead(k)
      PROVE  UNCHANGED delayed
  BY <1>3 DEF PushToRedis, Enqueue, EnqueuePriority, EnqueueDead, RemoveFromDead
<1>4. CASE Clock
  BY <1>0, <1>1, <1>4 DEF Clock, BecomeDue, BecomeStuck, redisVars, RedisTypeOK
<1>5. CASE RemoveDue
  <2>1. CASE j \in sch["loop"].batch
    <3>1. PICK batch \in SUBSET Jobs : batch = sch["loop"].batch
      BY <1>0 DEF SchedulerTypeOK, ThreadState, Threads
    <3>2. sch'["loop"] = Thread("reset", "promote", batch, NoJob) /\ server' = "up"
      BY <1>0, <1>5, <3>1 DEF RemoveDue, Become, SchedulerTypeOK, Threads, AllUp
    <3> QED
      BY <2>1, <3>1, <3>2, ThreadFields DEF HoldsThread
  <2>2. CASE j \notin sch["loop"].batch
    BY <1>1, <1>5, <2>2 DEF RemoveDue
  <2> QED
    BY <2>1, <2>2
<1>6. CASE Server /\ ~RemoveDue
  BY <1>1, <1>3, <1>6
     DEF Server, StopServer, StopScheduler, ExitServer, CrashServer, StartServer,
         SchedulerStep, ThreadStep, DelayedTick, StuckTick, StartupScan,
         ResetJob, PushJob, storeVars, redisVars
<1>7. CASE WorkersNext
  BY <1>1, <1>2, <1>3, <1>7
     DEF WorkersNext, WorkerProcess, StopWorker, WorkerStopped, CrashWorker, StartWorker,
         GoroutineStep, StopLoop, PollPriority, BlockingPop, PopTimeout, LoadJob,
         MarkRunning, CompleteJob, FailJob, DelayRetry, BuryJob, storeVars, redisVars
<1>8. CASE ClientsNext
  <2>1. PICK c \in Clients : ClientStep(c) \/ ClientRequest(c)
    BY <1>8 DEF ClientsNext
  <2>2. CASE CreateJob(c) \/ PlaceOrder(c) \/ ContinueOrder(c)
    BY <1>1, <2>2, CreateSteps DEF redisVars, TypeOK
  <2> QED
    BY <1>1, <1>2, <1>3, <2>1, <2>2
       DEF ClientStep, ClientRequest, DelayJob, PushRequest, ReplayCheck, ReplayReset,
           ReplayRemove, CancelCheck, CancelJob, storeVars, redisVars
<1> QED
  BY <1>1, <1>4, <1>5, <1>6, <1>7, <1>8 DEF Next, vars, storeVars

(* A goroutine that puts a retry off does so. *)
LEMMA DelayingCarries ==
  ASSUME TypeOK, AllUp, NothingDropped, [Next]_vars, NEW j \in Jobs,
         NEW g \in Goroutines, Delaying(g, j)
  PROVE  Delaying(g, j)' \/ delayed'[j] # "no"
<1>0. /\ WorkerTypeOK /\ RedisTypeOK
      /\ \A kind \in {"worker_crash", "redis_error"} : ~Fault(kind)
  BY StoresParts DEF TypeOK, NothingDropped, Fault
<1>1. CASE gor'[g] = gor[g]
  BY <1>1 DEF Delaying
<1>2. CASE GoroutineStep(g)
  <2>1. DelayRetry(g)
    BY <1>2 DEF GoroutineStep, StopLoop, PollPriority, BlockingPop, PopTimeout, LoadJob,
                MarkRunning, CompleteJob, FailJob, BuryJob, Delaying
  <2>2. ~Cancelled(g)
    BY DEF Cancelled, AllUp, Goroutines
  <2> QED
    BY <1>0, <2>1, <2>2 DEF DelayRetry, EnqueueDelayed, RedisTypeOK, Delaying
<1>3. ASSUME NEW h \in Goroutines, h # g, GoroutineStep(h) PROVE gor'[g] = gor[g]
  BY <1>0, <1>3, OtherGoroutines
<1>4. ASSUME NEW w \in Workers, WorkerProcess(w) PROVE gor'[g] = gor[g]
  BY <1>0, <1>4
     DEF WorkerProcess, StopWorker, WorkerStopped, CrashWorker, StartWorker, AllUp
<1> QED
  BY <1>1, <1>2, <1>3, <1>4
     DEF Next, Clock, BecomeStuck, Server, StopServer, StopScheduler, ExitServer,
         CrashServer, StartServer, WorkersNext, ClientsNext, vars, workerVars

(* A thread of the scheduler pushes the job. *)
LEMMA ThreadCarries ==
  ASSUME TypeOK, AllUp, NothingDropped, [Next]_vars, NEW j \in Jobs,
         NEW t \in Threads, HoldsThread(t, j)
  PROVE  HoldsThread(t, j)' \/ InQueues(j)'
<1>0. /\ SchedulerTypeOK /\ RowsTypeOK /\ RedisTypeOK
      /\ \A kind \in {"server_stop", "server_crash", "redis_error", "db_error"} :
           ~Fault(kind)
  BY StoresParts DEF TypeOK, NothingDropped, Fault
<1>1. ASSUME sch'[t] = sch[t], UNCHANGED server PROVE HoldsThread(t, j)'
  BY <1>1 DEF HoldsThread
<1>2. ASSUME NEW u \in Threads, NEW state, Become(u, state), u # t
      PROVE  sch'[t] = sch[t]
  BY <1>0, <1>2 DEF Become, SchedulerTypeOK
<1>3. CASE DelayedTick \/ RemoveDue \/ StuckTick \/ StartupScan
  <2>1. UNCHANGED server
    BY <1>3 DEF DelayedTick, RemoveDue, StuckTick, StartupScan
  <2>2. PICK u \in Threads : /\ sch[u].pc \in {"idle", "zrem", "scan"}
                             /\ \E state : Become(u, state)
    <3>1. CASE DelayedTick \/ RemoveDue \/ StuckTick
      <4>1. sch["loop"].pc \in {"idle", "zrem"} /\ \E state : Become("loop", state)
        BY <3>1 DEF DelayedTick, RemoveDue, StuckTick
      <4> QED
        BY <4>1 DEF Threads
    <3>2. CASE StartupScan
      <4>1. sch["startup"].pc = "scan" /\ \E state : Become("startup", state)
        BY <3>2, ContinueFields DEF StartupScan, Threads
      <4> QED
        BY <4>1 DEF Threads
    <3> QED
      BY <1>3, <3>1, <3>2
  <2>3. u # t
    BY <2>2 DEF HoldsThread
  <2> QED
    BY <1>1, <1>2, <2>1, <2>2, <2>3
<1>4. ASSUME NEW u \in Threads, ResetJob(u) PROVE HoldsThread(t, j)'
  <2>1. UNCHANGED server
    BY <1>4 DEF ResetJob
  <2>2. PICK k \in sch[u].batch :
          Become(u, Thread("push", sch[u].mode, sch[u].batch \ {k}, k))
    BY <1>0, <1>4 DEF ResetJob, FailedWrite
  <2>3. CASE u = t
    <3>1. PICK state : /\ state = Thread("push", sch[t].mode, sch[t].batch \ {k}, k)
                       /\ sch'[t] = state
      BY <1>0, <2>2, <2>3 DEF Become, SchedulerTypeOK
    <3>2. state.pc = "push" /\ state.batch = sch[t].batch \ {k} /\ state.job = k
      BY <3>1, ThreadFields
    <3>3. j \in sch[t].batch
      BY <1>0, <1>4, <2>3, StoresAssumption DEF HoldsThread, ResetJob, SchedulerTypeOK
    <3> QED
      BY <2>1, <3>1, <3>2, <3>3 DEF HoldsThread
  <2> QED
    BY <1>1, <1>2, <2>1, <2>2, <2>3
<1>5. ASSUME NEW u \in Threads, PushJob(u) PROVE HoldsThread(t, j)' \/ InQueues(j)'
  <2>1. server = "up" /\ UNCHANGED server
    BY <1>5 DEF PushJob, AllUp
  <2>2. CASE UNCHANGED sch
    BY <1>1, <2>1, <2>2
  <2>3. CASE Continue(u, sch[u].mode, sch[u].batch) /\ PushToRedis(sch[u].job)
    <3>1. PICK k \in Jobs : k = sch[u].job
      BY <1>0, <1>5, StoresAssumption DEF PushJob, SchedulerTypeOK, ThreadState
    <3>2. InQueues(k)'
      BY <1>0, <2>3, <3>1, PushKeeps
    <3>3. CASE u = t /\ j # k
      <4>1. j \in sch[t].batch
        BY <3>1, <3>3 DEF HoldsThread
      <4>2. PICK batch : batch = sch[t].batch
        OBVIOUS
      <4>3. Become(t, Thread("reset", sch[t].mode, batch, NoJob))
        BY <2>3, <3>3, <4>1, <4>2 DEF Continue
      <4>4. sch'[t] = Thread("reset", sch[t].mode, batch, NoJob)
        BY <1>0, <4>3 DEF Become, SchedulerTypeOK
      <4>5. sch'[t].pc = "reset" /\ sch'[t].batch = batch
        BY <4>4, ThreadFields
      <4> QED
        BY <2>1, <4>1, <4>2, <4>5 DEF HoldsThread
    <3>4. CASE u # t
      <4>1. \E state : Become(u, state)
        BY <2>3, ContinueFields
      <4> QED
        BY <1>1, <1>2, <2>1, <3>4, <4>1
    <3> QED
      BY <3>2, <3>3, <3>4
  <2> QED
    BY <1>0, <1>5, <2>1, <2>2, <2>3 DEF PushJob
<1>6. CASE Server
  BY <1>0, <1>3, <1>4, <1>5, <1>6
     DEF Server, StopServer, StopScheduler, ExitServer, CrashServer, StartServer,
         SchedulerStep, ThreadStep, AllUp
<1> QED
  BY <1>1, <1>6
     DEF Next, Clock, BecomeStuck, WorkersNext, ClientsNext, vars, schedulerVars

(* A request pushes the job, or puts it off. *)
LEMMA ClientCarries ==
  ASSUME TypeOK, AllUp, NothingDropped, [Next]_vars, NEW j \in Jobs,
         NEW c \in Clients, HoldsClient(c, j)
  PROVE  HoldsClient(c, j)' \/ InQueues(j)' \/ delayed'[j] # "no"
<1>0. /\ ApiTypeOK /\ RowsTypeOK /\ RedisTypeOK
      /\ \A kind \in {"server_stop", "server_crash", "push_error", "db_error"} :
           ~Fault(kind)
  BY StoresParts DEF TypeOK, NothingDropped, Fault
<1>1. CASE cl'[c] = cl[c]
  BY <1>1 DEF HoldsClient
<1>2. ASSUME NEW d \in Clients, d # c, ClientStep(d) \/ ClientRequest(d)
      PROVE  cl'[c] = cl[c]
  <2>1. ASSUME NEW req, cl' = [cl EXCEPT ![d] = req] PROVE cl'[c] = cl[c]
    BY <1>0, <1>2, <2>1 DEF ApiTypeOK
  <2>2. CASE CreateJob(d) \/ PlaceOrder(d) \/ ContinueOrder(d)
    BY <1>0, <2>1, <2>2, CreateSteps DEF Create, Respond
  <2> QED
    BY <1>2, <2>1, <2>2
       DEF ClientStep, ClientRequest, DelayJob, PushRequest, Enqueued, Call, Respond,
           ReplayCheck, ReplayReset, ReplayRemove, CancelCheck, CancelJob
<1>3. CASE ClientStep(c) \/ ClientRequest(c)
  <2>1. cl[c].pc \in {"push", "delay", "remove"}
    BY DEF HoldsClient
  <2>2. PushRequest(c) \/ DelayJob(c) \/ ReplayRemove(c)
    BY <1>3, <2>1
       DEF HoldsClient, ClientStep, ClientRequest, CreateJob, PlaceOrder, ContinueOrder,
           ReplayCheck, ReplayReset, CancelCheck, CancelJob
  <2>3. CASE PushRequest(c)
    <3>1. PushToRedis(j)
      BY <1>0, <2>3 DEF PushRequest, HoldsClient
    <3> QED
      BY <1>0, <3>1, PushKeeps
  <2>4. CASE DelayJob(c)
    BY <1>0, <2>4 DEF DelayJob, EnqueueDelayed, RedisTypeOK, HoldsClient
  <2>5. CASE ReplayRemove(c)
    BY <1>0, <2>5, RequestFields DEF ReplayRemove, Call, ApiTypeOK, HoldsClient
  <2> QED
    BY <2>2, <2>3, <2>4, <2>5
<1>4. CASE Server
  BY <1>0, <1>1, <1>4
     DEF Server, StopServer, StopScheduler, ExitServer, CrashServer, StartServer,
         apiVars, AllUp
<1> QED
  BY <1>1, <1>2, <1>3, <1>4
     DEF Next, Clock, BecomeStuck, WorkersNext, ClientsNext, vars, apiVars

(* A job that has a place keeps one until it has ended. *)
LEMMA StaysPlaced ==
  ASSUME TypeOK, AllUp, NothingDropped, [Next]_vars, NEW j \in Jobs, Placed(j)
  PROVE  Placed(j)' \/ Settled(j)'
<1>1. CASE OnItsWay(j)
  <2>1. GoneIsExited /\ WorkersDropNothing
    BY DEF GoneIsExited, AllUp, NothingDropped, WorkersDropNothing
  <2> QED
    BY <1>1, <2>1, NextCarries DEF Placed
<1>2. CASE delayed[j] # "no"
  <2>1. delayed'[j] # "no" \/ HoldsThread("loop", j)'
    BY <1>2, DelayedCarries
  <2> QED
    BY <2>1 DEF Placed, Threads
<1>3. CASE \E g \in Goroutines : Delaying(g, j)
  BY <1>3, DelayingCarries DEF Placed
<1>4. CASE \E t \in Threads : HoldsThread(t, j)
  BY <1>4, ThreadCarries DEF Placed, OnItsWay
<1>5. CASE \E c \in Clients : HoldsClient(c, j)
  BY <1>5, ClientCarries DEF Placed, OnItsWay
<1> QED
  BY <1>1, <1>2, <1>3, <1>4, <1>5 DEF Placed

Conserved == AllUp /\ \A j \in Jobs : Unsettled(j) => Placed(j)

(* Every step keeps a place for every job that is to be run. *)
LEMMA NextConserved ==
  ASSUME NothingDropped PROVE TypeOK /\ Conserved /\ [Next]_vars => Conserved'
<1> SUFFICES ASSUME TypeOK, Conserved, [Next]_vars PROVE Conserved'
  OBVIOUS
<1>0. AllUp /\ ~Fault("db_error")
  BY DEF Conserved, NothingDropped, Fault
<1>1. AllUp'
  BY <1>0, NextAllUp
<1>2. ASSUME NEW j \in Jobs, Unsettled(j)' PROVE Placed(j)'
  <2>1. ~Settled(j)' /\ (Placed(j) => Placed(j)')
    BY <1>0, <1>2, StaysPlaced DEF Settled, Unsettled
  <2>2. CASE Unmoved(j)
    BY <1>2, <2>1, <2>2 DEF Unmoved, Unsettled, Conserved
  <2>3. CASE Created(j) \/ \E c \in Clients : Replayed(c, j)
    BY <1>0, <2>3 DEF Created, Replayed, Placed
  <2>4. CASE \E g \in Goroutines : Marked(g, j) \/ Finished(g, j) \/ Failed(g, j)
    BY <2>1, <2>4 DEF Marked, Finished, Failed, HoldsGoroutine, Placed, OnItsWay
  <2>5. CASE \E t \in Threads : Requeued(t, j)
    BY <1>0, <2>1, <2>5 DEF Requeued, Owns, AllUp, HoldsThread, Placed
  <2>6. CASE \E c \in Clients : Withdrawn(c, j)
    BY <1>2, <2>6 DEF Withdrawn, Unsettled
  <2> QED
    BY <2>2, <2>3, <2>4, <2>5, <2>6, RowSteps DEF RowStep
<1> QED
  BY <1>1, <1>2 DEF Conserved

(* A job that is pending or running is in a place that leads to its run, as *)
(* long as no process stops and no call fails: promotion, recovery, retry,  *)
(* replay and cancellation lose none, also when they overlap               *)
(* (Queue.Enqueue, ReplayDeadJob, Worker.processJob, Scheduler.Start).      *)
THEOREM NoJobIsLost ==
  ASSUME NothingDropped PROVE Spec => []NoJobLost
<1>1. Init => Conserved
  <2> SUFFICES ASSUME Init PROVE Conserved
    OBVIOUS
  <2>1. AllUp
    BY DEF Init, WorkerInit, SchedulerInit, AllUp
  <2>2. \A j \in Jobs : jobs[j].status = "absent"
    BY DEF Init, StoresInit, NoRow
  <2> QED
    BY <2>1, <2>2 DEF Conserved, Unsettled
<1>2. TypeOK /\ Conserved /\ [Next]_vars => Conserved'
  BY NextConserved
<1>3. Conserved => NoJobLost
  BY PlacedIsDelivered DEF Conserved, NoJobLost
<1> QED
  BY <1>1, <1>2, <1>3, TypeCorrectness, PTL DEF Spec

-----------------------------------------------------------------------------
(* Orders.  The jobs of an order are never put off when they are created   *)
(* (enqueueOrder fills in no delay), so until its first failure such a job *)
(* is in a queue or at a goroutine and no thread of the scheduler has it.  *)

NoDelay(requests) == \A i \in DOMAIN requests : requests[i].delay_seconds <= 0

OrdersAreNotPutOff == \A o \in Orders : NoDelay(o)

\* What is left of an order has no delays, and who puts a job off has no order.
PlainOrders ==
  \A c \in Clients : /\ NoDelay(order[c].rest)
                     /\ cl[c].pc = "delay" => order[c].rest = <<>>

NoReplays == \A c \in Clients : cl[c].pc # "replay"

\* A job that was put off, or is about to be.
PutOff(j) ==
  \/ delayed[j] # "no"
  \/ \E g \in Goroutines : Delaying(g, j)
  \/ \E t \in Threads : Owns(t, j)

\* A job that its order counts as created.
Ordered(j) ==
  /\ Exists(j)
  /\ \A c \in Clients : ~HoldsClient(c, j)
  /\ jobs[j].attempts = 0 => ~PutOff(j) /\ (Unsettled(j) => OnItsWay(j))

OrdersKept == \A c \in Clients : \A j \in order[c].created : Ordered(j)

(* The rest of an order. *)
LEMMA RestHasNoDelay ==
  ASSUME NEW s \in Seq(Requests), s # <<>>, NoDelay(s)
  PROVE  Head(s).delay_seconds <= 0 /\ NoDelay(Tail(s))
<1>1. Head(s) = s[1] /\ 1 \in DOMAIN s
  OBVIOUS
<1>2. \A i \in DOMAIN Tail(s) : i + 1 \in DOMAIN s /\ Tail(s)[i] = s[i + 1]
  OBVIOUS
<1> QED
  BY <1>1, <1>2 DEF NoDelay

\* A request makes its first call, or the next one for its job.
Recalled(c) ==
  \E pc, j : /\ \/ pc \in {"replay", "cancel"}
                \/ pc = "remove" /\ Replaying(c, j)
                \/ pc = "push" /\ HoldsClient(c, j)
             /\ cl'[c] = Request(pc, j) /\ order'[c] = order[c]

\* A request has inserted the row of a job, the last or the next of its order.
Inserted(c) ==
  \E r \in Requests : \E rest, j :
    /\ ~Exists(j)
    /\ cl'[c] = Request(IF r.delay_seconds > 0 THEN "delay" ELSE "push", j)
    /\ order'[c].rest = rest /\ order'[c].created = order[c].created
    /\ \/ rest = <<>>
       \/ \E o \in Orders : r = Head(o) /\ rest = Tail(o)
       \/ /\ order[c].rest # <<>>
          /\ r = Head(order[c].rest) /\ rest = Tail(order[c].rest)

\* A request counts its job as created and goes on with its order.
Counts(c) ==
  /\ DelayJob(c) \/ (PushRequest(c) /\ PushToRedis(cl[c].job))
  /\ order[c].rest # <<>> /\ cl'[c] = Request("create", NoJob)
  /\ order'[c].rest = order[c].rest
  /\ order'[c].created = order[c].created \cup {cl[c].job}

(* What a step of one request does to the orders. *)
LEMMA OrderSteps ==
  ASSUME ApiTypeOK, NEW c \in Clients, ClientStep(c) \/ ClientRequest(c)
  PROVE  /\ \A d \in Clients \ {c} : cl'[d] = cl[d] /\ order'[d] = order[d]
         /\ \/ cl'[c] = cl[c] /\ order'[c] = order[c]
            \/ cl'[c] = NoRequest /\ order'[c] = NoOrder
            \/ Recalled(c) \/ Inserted(c) \/ Counts(c)
<1> DEFINE Others == \A d \in Clients \ {c} : cl'[d] = cl[d] /\ order'[d] = order[d]
<1>0. order[c] \in OrderState
  BY DEF ApiTypeOK
<1>1. CASE UNCHANGED <<cl, order>>
  BY <1>1
<1>2. CASE Respond(c)
  BY <1>2 DEF Respond, ApiTypeOK
<1>3. ASSUME NEW pc, NEW j, Call(c, pc, j)
      PROVE  Others /\ cl'[c] = Request(pc, j) /\ order'[c] = order[c]
  BY <1>3 DEF Call, ApiTypeOK
<1>4. ASSUME NEW r \in Requests, NEW rest, Create(c, r, rest), ~Respond(c)
      PROVE  /\ Others
             /\ order'[c].rest = rest /\ order'[c].created = order[c].created
             /\ \E j : /\ ~Exists(j)
                       /\ cl'[c] = Request(IF r.delay_seconds > 0 THEN "delay" ELSE "push", j)
  <2>1. PICK j \in Jobs :
          /\ ~Exists(j)
          /\ cl' = [cl EXCEPT ![c] = Request(IF r.delay_seconds > 0 THEN "delay"
                                             ELSE "push", j)]
          /\ order' = [order EXCEPT ![c].rest = rest]
    BY <1>4 DEF Create
  <2>2. order'[c] = [order[c] EXCEPT !.rest = rest]
    BY <2>1 DEF ApiTypeOK
  <2>3. order'[c].rest = rest /\ order'[c].created = order[c].created
    BY <1>0, <2>2 DEF OrderState
  <2>4. Others /\ cl'[c] = Request(IF r.delay_seconds > 0 THEN "delay" ELSE "push", j)
    BY <2>1 DEF ApiTypeOK
  <2> QED
    BY <2>1, <2>3, <2>4
<1>5. ASSUME Enqueued(c), ~Respond(c)
      PROVE  /\ Others
             /\ order[c].rest # <<>> /\ cl'[c] = Request("create", NoJob)
             /\ order'[c].rest = order[c].rest
             /\ order'[c].created = order[c].created \cup {cl[c].job}
  <2>1. /\ order[c].rest # <<>>
        /\ cl' = [cl EXCEPT ![c] = Request("create", NoJob)]
        /\ order' = [order EXCEPT ![c].created = @ \cup {cl[c].job}]
    BY <1>5 DEF Enqueued
  <2>2. order'[c] = [order[c] EXCEPT !.created = order[c].created \cup {cl[c].job}]
    BY <2>1 DEF ApiTypeOK
  <2>3. /\ order'[c].rest = order[c].rest
        /\ order'[c].created = order[c].created \cup {cl[c].job}
    BY <1>0, <2>2 DEF OrderState
  <2> QED
    BY <2>1, <2>3 DEF ApiTypeOK
<1>6. CASE CreateJob(c) /\ ~Respond(c)
  BY <1>4, <1>6 DEF CreateJob, Inserted
<1>7. CASE PlaceOrder(c) /\ ~Respond(c)
  <2>1. PICK o \in Orders : Create(c, Head(o), Tail(o))
    BY <1>7 DEF PlaceOrder
  <2>2. Head(o) \in Requests
    BY ApiAssumption
  <2> QED
    BY <1>4, <1>7, <2>1, <2>2 DEF Inserted
<1>8. CASE ContinueOrder(c) /\ ~Respond(c)
  <2>1. /\ order[c].rest \in Seq(Requests) /\ order[c].rest # <<>>
        /\ Create(c, Head(order[c].rest), Tail(order[c].rest))
    BY <1>0, <1>8 DEF ContinueOrder, ApiTypeOK, OrderState
  <2>2. Head(order[c].rest) \in Requests
    BY <2>1
  <2> QED
    BY <1>4, <1>8, <2>1, <2>2 DEF Inserted
<1>9. CASE DelayJob(c) \/ PushRequest(c)
  <2>1. \/ UNCHANGED <<cl, order>> \/ Respond(c)
        \/ /\ DelayJob(c) \/ (PushRequest(c) /\ PushToRedis(cl[c].job))
           /\ Enqueued(c) /\ ~Respond(c)
    <3>1. DelayJob(c) => UNCHANGED <<cl, order>> \/ Respond(c) \/ Enqueued(c)
      BY DEF DelayJob
    <3>2. PushRequest(c) => \/ UNCHANGED <<cl, order>> \/ Respond(c)
                            \/ Enqueued(c) /\ PushToRedis(cl[c].job)
      BY DEF PushRequest
    <3> QED
      BY <1>9, <3>1, <3>2
  <2>2. CASE /\ DelayJob(c) \/ (PushRequest(c) /\ PushToRedis(cl[c].job))
             /\ Enqueued(c) /\ ~Respond(c)
    <3>1. /\ Others
          /\ order[c].rest # <<>> /\ cl'[c] = Request("create", NoJob)
          /\ order'[c].rest = order[c].rest
          /\ order'[c].created = order[c].created \cup {cl[c].job}
      BY <1>5, <2>2
    <3> QED
      BY <2>2, <3>1 DEF Counts
  <2> QED
    BY <1>1, <1>2, <2>1, <2>2
<1>10. CASE ReplayReset(c) \/ ReplayRemove(c) \/ CancelJob(c) \/ ReplayCheck(c) \/ CancelCheck(c)
  <2>1. \/ Respond(c)
        \/ Call(c, "remove", cl[c].job) /\ Replaying(c, cl[c].job)
        \/ Call(c, "push", cl[c].job) /\ HoldsClient(c, cl[c].job)
        \/ \E pc \in {"replay", "cancel"} : \E j : Call(c, pc, j)
    BY <1>10
       DEF ReplayReset, ReplayRemove, CancelJob, ReplayCheck, CancelCheck, Replaying,
           HoldsClient
  <2> QED
    BY <1>2, <1>3, <2>1 DEF Recalled
<1> QED
  BY <1>2, <1>6, <1>7, <1>8, <1>9, <1>10 DEF ClientStep, ClientRequest

(* What a step of the system does to the order of a client. *)
LEMMA NextOrder ==
  ASSUME TypeOK, [Next]_vars, NEW c \in Clients
  PROVE  \/ cl'[c] = cl[c] /\ order'[c] = order[c]
         \/ cl'[c] = NoRequest /\ order'[c] = NoOrder
         \/ /\ ClientStep(c) \/ ClientRequest(c)
            /\ UNCHANGED <<workerVars, schedulerVars>>
<1>0. ApiTypeOK
  BY DEF TypeOK
<1>1. CASE UNCHANGED apiVars
  BY <1>1 DEF apiVars
<1>2. CASE CrashServer
  BY <1>2 DEF CrashServer
<1>3. CASE ClientsNext
  <2>1. PICK d \in Clients : /\ ClientStep(d) \/ ClientRequest(d)
                             /\ UNCHANGED <<workerVars, schedulerVars>>
    BY <1>3 DEF ClientsNext
  <2>2. d # c => cl'[c] = cl[c] /\ order'[c] = order[c]
    BY <1>0, <2>1, OrderSteps
  <2> QED
    BY <2>1, <2>2
<1> QED
  BY <1>1, <1>2, <1>3
     DEF Next, Clock, BecomeDue, BecomeStuck, Server, StopServer, StopScheduler,
         ExitServer, StartServer, WorkersNext, vars, apiVars

(* A request that has a job before its push has just created or reset it. *)
LEMMA HeldBefore ==
  ASSUME TypeOK, [Next]_vars, NEW j \in Jobs, NEW c \in Clients, HoldsClient(c, j)'
  PROVE  HoldsClient(c, j) \/ Replaying(c, j) \/ ~Exists(j)
<1>0. ApiTypeOK /\ j # NoJob
  BY StoresAssumption DEF TypeOK
<1>1. CASE cl'[c] = cl[c]
  BY <1>1 DEF HoldsClient
<1>2. cl'[c] # NoRequest /\ \A k : cl'[c] # Request("create", k)
  BY RequestFields DEF HoldsClient
<1>3. ASSUME NEW pc, NEW k, cl'[c] = Request(pc, k)
      PROVE  k = j /\ pc \in {"push", "delay", "remove"}
  BY <1>3, RequestFields DEF HoldsClient
<1>4. CASE ClientStep(c) \/ ClientRequest(c)
  <2>1. CASE Recalled(c)
    BY <1>3, <2>1 DEF Recalled
  <2>2. CASE Inserted(c)
    BY <1>3, <2>2 DEF Inserted
  <2>3. CASE Counts(c)
    BY <1>2, <2>3 DEF Counts
  <2> QED
    BY <1>0, <1>1, <1>2, <1>4, <2>1, <2>2, <2>3, OrderSteps
<1> QED
  BY <1>1, <1>2, <1>4, NextOrder

(* A job that enters the delayed set was being put off. *)
LEMMA DelayedBefore ==
  ASSUME TypeOK, [Next]_vars, NEW j \in Jobs, delayed'[j] # "no"
  PROVE  \/ delayed[j] # "no"
         \/ \E g \in Goroutines : Delaying(g, j)
         \/ \E c \in Clients : HoldsClient(c, j)
<1>0. RedisTypeOK /\ ApiTypeOK
  BY StoresParts DEF TypeOK
<1>1. UNCHANGED delayed => delayed[j] # "no"
  OBVIOUS
<1>2. ASSUME NEW k, EnqueueDelayed(k), k # j PROVE delayed[j] # "no"
  BY <1>0, <1>2 DEF EnqueueDelayed, RedisTypeOK
<1>3. ASSUME NEW k, PushToRedis(k) \/ EnqueueDead(k) \/ RemoveFromDead(k)
      PROVE  UNCHANGED delayed
  BY <1>3 DEF PushToRedis, Enqueue, EnqueuePriority, EnqueueDead, RemoveFromDead
<1>4. CASE Clock
  BY <1>0, <1>1, <1>4 DEF Clock, BecomeDue, BecomeStuck, redisVars, RedisTypeOK
<1>5. CASE RemoveDue
  BY <1>1, <1>5 DEF RemoveDue
<1>6. CASE Server /\ ~RemoveDue
  BY <1>1, <1>3, <1>6
     DEF Server, StopServer, StopScheduler, ExitServer, CrashServer, StartServer,
         SchedulerStep, ThreadStep, DelayedTick, StuckTick, StartupScan,
         ResetJob, PushJob, storeVars, redisVars
<1>7. CASE \E g \in Goroutines : DelayRetry(g)
  BY <1>1, <1>2, <1>7 DEF DelayRetry, Delaying, redisVars
<1>8. CASE WorkersNext /\ \A g \in Goroutines : ~DelayRetry(g)
  BY <1>1, <1>3, <1>8
     DEF WorkersNext, WorkerProcess, StopWorker, WorkerStopped, CrashWorker, StartWorker,
         GoroutineStep, StopLoop, PollPriority, BlockingPop, PopTimeout, LoadJob,
         MarkRunning, CompleteJob, FailJob, BuryJob, storeVars, redisVars
<1>9. CASE ClientsNext
  <2>1. PICK c \in Clients : ClientStep(c) \/ ClientRequest(c)
    BY <1>9 DEF ClientsNext
  <2>2. CASE CreateJob(c) \/ PlaceOrder(c) \/ ContinueOrder(c)
    BY <1>0, <1>1, <2>2, CreateSteps DEF redisVars
  <2>3. CASE DelayJob(c)
    BY <1>1, <1>2, <2>3 DEF DelayJob, HoldsClient, redisVars
  <2> QED
    BY <1>1, <1>3, <2>1, <2>2, <2>3
       DEF ClientStep, ClientRequest, PushRequest, ReplayCheck, ReplayReset,
           ReplayRemove, CancelCheck, CancelJob, storeVars, redisVars
<1> QED
  BY <1>1, <1>4, <1>5, <1>6, <1>7, <1>8, <1>9 DEF Next, vars, storeVars

(* A goroutine puts off a job that has failed. *)
LEMMA DelayingBefore ==
  ASSUME TypeOK, [Next]_vars, NEW j \in Jobs, NEW g \in Goroutines, Delaying(g, j)'
  PROVE  Delaying(g, j) \/ jobs'[j].attempts > 0
<1>0. WorkerTypeOK /\ RowsTypeOK /\ gor[g] \in GoroutineState
  BY StoresParts DEF TypeOK, WorkerTypeOK
<1>1. CASE gor'[g] = gor[g]
  BY <1>1 DEF Delaying
<1>2. gor'[g] # LoopTop /\ gor'[g] # Exited
  BY IdleStates DEF Delaying
<1>3. CASE GoroutineStep(g)
  <2>1. ASSUME NEW state, Go(g, state) PROVE state.pc = "delay" /\ state.job = j
    BY <1>0, <2>1 DEF Go, WorkerTypeOK, Delaying
  <2>2. \A pc \in {"poll", "brpop", "load", "mark"} : \A i, k, n : ~Go(g, At(pc, i, k, n))
    BY <2>1 DEF At
  <2>3. ~Go(g, LoopTop) /\ ~Go(g, Exited)
    BY <2>1, IdleStates
  <2>4. CASE FailJob(g)
    <3>1. CASE Go(g, [gor[g] EXCEPT !.pc = IF Exhausted(g) THEN "bury" ELSE "delay"])
      <4>1. gor[g].job = j
        BY <1>0, <2>1, <3>1 DEF GoroutineState
      <4>2. PICK row : /\ \E status \in {"dead", "pending"} : row = FailedRow(g, status)
                       /\ WriteRow(j, row)
        BY <2>3, <2>4, <4>1 DEF FailJob
      <4>3. jobs[j] \in JobRow /\ jobs'[j] = row
        BY <1>0, <4>2, RowAfter DEF RowsTypeOK
      <4>4. row.attempts = gor[g].attempts + 1
        BY <4>1, <4>2, <4>3 DEF FailedRow, JobRow
      <4>5. gor[g].attempts \in Nat
        BY <1>0 DEF GoroutineState
      <4> QED
        BY <4>3, <4>4, <4>5
    <3> QED
      BY <2>3, <2>4, <3>1 DEF FailJob
  <2>5. CASE DelayRetry(g) \/ BuryJob(g)
    BY <1>1, <2>3, <2>5 DEF DelayRetry, BuryJob
  <2>6. CASE MarkRunning(g)
    <3>1. [gor[g] EXCEPT !.pc = "exec"].pc = "exec"
      BY <1>0 DEF GoroutineState
    <3> QED
      BY <2>1, <2>3, <2>6, <3>1 DEF MarkRunning
  <2> QED
    BY <1>3, <2>2, <2>3, <2>4, <2>5, <2>6
       DEF GoroutineStep, StopLoop, PollPriority, NextQueue, BlockingPop, PopTimeout,
           LoadJob, CompleteJob
<1>4. ASSUME NEW h \in Goroutines, h # g, GoroutineStep(h) PROVE gor'[g] = gor[g]
  BY <1>0, <1>4, OtherGoroutines
<1>5. ASSUME NEW w \in Workers, WorkerProcess(w) PROVE gor'[g] \in {gor[g], LoopTop, Exited}
  BY <1>5
     DEF WorkerProcess, StopWorker, WorkerStopped, CrashWorker, StartWorker, ExitAll
<1> QED
  BY <1>1, <1>2, <1>3, <1>4, <1>5
     DEF Next, Clock, BecomeDue, BecomeStuck, Server, StopServer, StopScheduler,
         ExitServer, CrashServer, StartServer, WorkersNext, ClientsNext, vars, workerVars

(* A thread of the scheduler owns what it has removed from the delayed set *)
(* and what it has found stuck.                                            *)
LEMMA OwnedBefore ==
  ASSUME TypeOK, [Next]_vars, NEW j \in Jobs, NEW t \in Threads, Owns(t, j)'
  PROVE  Owns(t, j) \/ Removing(j) \/ j \in StuckJobs
<1>0. SchedulerTypeOK /\ j # NoJob
  BY StoresAssumption DEF TypeOK
<1>1. CASE sch'[t] = sch[t]
  BY <1>1 DEF Owns
<1>2. \A u \in Threads : sch'[u] = ThreadExited => t # u
  BY RestingFields DEF Owns
<1>3. ASSUME NEW u \in Threads, NEW state, Become(u, state),
             \/ state.pc \notin {"reset", "push"}
             \/ j \in state.batch \cup {state.job} =>
                  Owns(u, j) \/ Removing(j) \/ j \in StuckJobs
      PROVE  Owns(t, j) \/ Removing(j) \/ j \in StuckJobs
  BY <1>0, <1>1, <1>3 DEF Become, SchedulerTypeOK, Owns
<1>4. ASSUME NEW u \in Threads, NEW m, NEW batch, Continue(u, m, batch),
             j \in batch => Owns(u, j) \/ j \in StuckJobs
      PROVE  Owns(t, j) \/ Removing(j) \/ j \in StuckJobs
  <2>1. PICK state : /\ Become(u, state)
                     /\ state.job = NoJob /\ state.batch = batch
    BY <1>4, ContinueFields
  <2> QED
    BY <1>0, <1>3, <1>4, <2>1
<1>5. "loop" \in Threads /\ "startup" \in Threads
  BY DEF Threads
<1>6. CASE DelayedTick \/ RemoveDue \/ StuckTick
  <2>1. PICK pc, m, batch, state :
          /\ state = Thread(pc, m, batch, NoJob) /\ Become("loop", state)
          /\ \/ pc = "zrem"
             \/ batch = StuckJobs
             \/ sch["loop"].pc = "zrem" /\ batch = sch["loop"].batch
    BY <1>6 DEF DelayedTick, RemoveDue, StuckTick
  <2>2. state.pc = pc /\ state.batch = batch /\ state.job = NoJob
    BY <2>1, ThreadFields
  <2> QED
    BY <1>0, <1>3, <1>5, <2>1, <2>2 DEF Removing
<1>7. CASE StartupScan
  BY <1>3, <1>4, <1>5, <1>7, RestingFields DEF StartupScan
<1>8. ASSUME NEW u \in Threads, ResetJob(u)
      PROVE  Owns(t, j) \/ Removing(j) \/ j \in StuckJobs
  <2>1. PICK k \in sch[u].batch :
          \/ Become(u, Thread("push", sch[u].mode, sch[u].batch \ {k}, k))
          \/ Continue(u, sch[u].mode, sch[u].batch \ {k})
    BY <1>8 DEF ResetJob
  <2>2. PICK batch : batch = sch[u].batch \ {k}
    OBVIOUS
  <2>3. j \in batch \cup {k} => Owns(u, j)
    BY <1>8, <2>1, <2>2 DEF ResetJob, Owns
  <2>4. CASE Become(u, Thread("push", sch[u].mode, batch, k))
    <3>1. PICK state : /\ state = Thread("push", sch[u].mode, batch, k)
                       /\ Become(u, state)
      BY <2>4
    <3>2. state.batch = batch /\ state.job = k
      BY <3>1, ThreadFields
    <3> QED
      BY <1>3, <2>3, <3>1, <3>2
  <2> QED
    BY <1>4, <2>1, <2>2, <2>3, <2>4
<1>9. ASSUME NEW u \in Threads, PushJob(u)
      PROVE  Owns(t, j) \/ Removing(j) \/ j \in StuckJobs
  <2>1. j \in sch[u].batch => Owns(u, j)
    BY <1>9 DEF PushJob, Owns
  <2> QED
    BY <1>1, <1>4, <1>9, <2>1 DEF PushJob
<1>10. CASE StopServer \/ StopScheduler \/ ExitServer \/ CrashServer \/ StartServer
  <2>1. sch'[t] \in {sch[t], ThreadExited, Idle, Scan}
    BY <1>0, <1>10
       DEF StopServer, StopScheduler, ExitServer, CrashServer, StartServer, Become,
           SchedulerTypeOK
  <2> QED
    BY <1>1, <2>1, RestingFields DEF Owns
<1> QED
  BY <1>1, <1>6, <1>7, <1>8, <1>9, <1>10
     DEF Next, Clock, BecomeDue, BecomeStuck, Server, SchedulerStep, ThreadStep,
         WorkersNext, ClientsNext, vars, schedulerVars

(* Orders are never put off, and no request that puts a job off has one. *)
LEMMA NextPlain ==
  ASSUME OrdersAreNotPutOff
  PROVE  TypeOK /\ PlainOrders /\ [Next]_vars => PlainOrders'
<1> SUFFICES ASSUME TypeOK, PlainOrders, [Next]_vars, NEW c \in Clients
             PROVE  NoDelay(order'[c].rest) /\ (cl'[c].pc = "delay" => order'[c].rest = <<>>)
  BY DEF PlainOrders, NoDelay
<1>0. /\ ApiTypeOK /\ order[c].rest \in Seq(Requests)
      /\ NoDelay(order[c].rest) /\ (cl[c].pc = "delay" => order[c].rest = <<>>)
  BY DEF TypeOK, ApiTypeOK, OrderState, PlainOrders
<1>1. NoDelay(<<>>)
  BY DEF NoDelay
<1>2. CASE cl'[c] = cl[c] /\ order'[c] = order[c]
  BY <1>0, <1>2
<1>3. CASE cl'[c] = NoRequest /\ order'[c] = NoOrder
  BY <1>1, <1>3, RequestFields DEF NoOrder
<1>4. CASE ClientStep(c) \/ ClientRequest(c)
  <2>1. ASSUME NEW pc \in {"replay", "cancel", "remove", "push"}, NEW j,
               cl'[c] = Request(pc, j), order'[c] = order[c]
        PROVE  NoDelay(order'[c].rest) /\ cl'[c].pc # "delay"
    BY <1>0, <2>1, RequestFields
  <2>2. ASSUME NEW r \in Requests, NEW rest, NEW j,
               cl'[c] = Request(IF r.delay_seconds > 0 THEN "delay" ELSE "push", j),
               order'[c].rest = rest,
               \/ rest = <<>>
               \/ \E s \in Seq(Requests) :
                    s # <<>> /\ NoDelay(s) /\ r = Head(s) /\ rest = Tail(s)
        PROVE  NoDelay(order'[c].rest) /\ (cl'[c].pc = "delay" => order'[c].rest = <<>>)
    <3>1. CASE rest = <<>>
      BY <1>1, <2>2, <3>1
    <3>2. CASE rest # <<>>
      <4>1. r.delay_seconds <= 0 /\ NoDelay(rest)
        BY <2>2, <3>2, RestHasNoDelay
      <4>2. r.delay_seconds \in Int
        BY ApiAssumption
      <4>3. cl'[c] = Request("push", j)
        BY <2>2, <4>1, <4>2
      <4> QED
        BY <2>2, <4>1, <4>3, RequestFields
    <3> QED
      BY <3>1, <3>2
  <2>3. \A o \in Orders : o \in Seq(Requests) /\ o # <<>> /\ NoDelay(o)
    BY ApiAssumption DEF OrdersAreNotPutOff
  <2>4. CASE Inserted(c)
    <3>1. PICK r \in Requests :
            \E rest, j :
               /\ cl'[c] = Request(IF r.delay_seconds > 0 THEN "delay" ELSE "push", j)
               /\ order'[c].rest = rest
               /\ \/ rest = <<>>
                  \/ \E o \in Orders : r = Head(o) /\ rest = Tail(o)
                  \/ /\ order[c].rest # <<>>
                     /\ r = Head(order[c].rest) /\ rest = Tail(order[c].rest)
      BY <2>4 DEF Inserted
    <3> QED
      BY <1>0, <2>2, <2>3, <3>1
  <2>5. CASE Counts(c)
    BY <1>0, <2>5, RequestFields DEF Counts
  <2>6. CASE Recalled(c)
    BY <2>1, <2>6 DEF Recalled
  <2> QED
    BY <1>0, <1>2, <1>3, <1>4, <2>4, <2>5, <2>6, OrderSteps
<1> QED
  BY <1>2, <1>3, <1>4, NextOrder

(* A job that is added to an order was pushed by the step that adds it. *)
LEMMA CreatedBefore ==
  ASSUME TypeOK, PlainOrders, [Next]_vars, NEW c \in Clients, NEW j \in order'[c].created
  PROVE  \/ j \in order[c].created
         \/ /\ PushRequest(c) /\ PushToRedis(j) /\ HoldsClient(c, j) /\ ~HoldsClient(c, j)'
            /\ UNCHANGED <<workerVars, schedulerVars>>
<1>0. ApiTypeOK
  BY DEF TypeOK
<1>1. CASE order'[c] = order[c]
  BY <1>1
<1>2. order'[c] # NoOrder
  BY DEF NoOrder
<1>3. CASE order'[c].created = order[c].created
  BY <1>3
<1>4. CASE Counts(c) /\ UNCHANGED <<workerVars, schedulerVars>>
  <2>1. PushRequest(c) /\ PushToRedis(cl[c].job) /\ cl[c].pc = "push"
    BY <1>4 DEF Counts, PlainOrders, DelayJob, PushRequest
  <2>2. ~HoldsClient(c, j)'
    BY <1>4, RequestFields DEF Counts, HoldsClient
  <2>3. CASE j = cl[c].job
    BY <1>4, <2>1, <2>2, <2>3 DEF HoldsClient
  <2> QED
    BY <1>4, <2>3 DEF Counts
<1>5. CASE Recalled(c) \/ Inserted(c)
  BY <1>3, <1>5 DEF Recalled, Inserted
<1>6. CASE ClientStep(c) \/ ClientRequest(c)
  BY <1>0, <1>1, <1>2, <1>3, <1>4, <1>5, <1>6, OrderSteps, NextOrder
<1> QED
  BY <1>1, <1>2, <1>6, NextOrder

(* What an order needs of the system: it is neither down nor confused about *)
(* who has which job.                                                       *)
Sound ==
  /\ TypeOK /\ RoutedIds /\ Delivered /\ GoneIsExited /\ RunningIsExecuted
  /\ NoReplays /\ PlainOrders

(* A job of an order that has not failed is not put off. *)
LEMMA NotPutOff ==
  ASSUME Sound, [Next]_vars, NEW j \in Jobs, ~PutOff(j),
         \A c \in Clients : ~HoldsClient(c, j), jobs'[j].attempts = 0
  PROVE  ~PutOff(j)'
<1>0. TypeOK /\ JobInv(j)
  BY DEF Sound, Delivered
<1>1. delayed'[j] = "no"
  BY <1>0, DelayedBefore DEF PutOff
<1>2. ASSUME NEW g \in Goroutines PROVE ~Delaying(g, j)'
  BY <1>0, DelayingBefore DEF PutOff
<1>3. ASSUME NEW t \in Threads PROVE ~Owns(t, j)'
  <2>1. ~Removing(j)
    BY <1>0 DEF PutOff, JobInv, RemovedWaits
  <2>2. j \notin StuckJobs
    <3> SUFFICES ASSUME j \in StuckJobs PROVE FALSE
      OBVIOUS
    <3>1. PICK g \in Goroutines : gor[g].pc = "exec" /\ gor[g].job = j
      BY DEF StuckJobs, Sound, RunningIsExecuted, Executing
    <3>2. HoldsGoroutine(g, j)
      BY <3>1 DEF HoldsGoroutine
    <3> QED
      BY <1>0, <3>2, GoroutineAlone DEF StuckJobs
  <2> QED
    BY <1>0, <2>1, <2>2, OwnedBefore DEF PutOff
<1> QED
  BY <1>1, <1>2, <1>3 DEF PutOff

(* A job that its order counts as created stays on its way until it fails. *)
LEMMA StaysOrdered ==
  ASSUME Sound, WorkersDropNothing, [Next]_vars, NEW j \in Jobs, Ordered(j)
  PROVE  Ordered(j)'
<1>0. /\ TypeOK /\ GoneIsExited
      /\ \A c \in Clients : ~HoldsClient(c, j) /\ ~Replaying(c, j)
      /\ Exists(j)
  BY DEF Sound, Ordered, NoReplays, Replaying
<1>1. RowStep(j)
  BY <1>0, RowSteps
<1>2. ~Created(j) /\ \A c \in Clients : ~Replayed(c, j)
  BY <1>0 DEF Created, Replayed
<1>3. Exists(j)'
  <2>1. \A g \in Goroutines : Failed(g, j) => jobs'[j].status \in {"dead", "pending"}
    BY DEF Failed
  <2> QED
    BY <1>0, <1>1, <1>2, <2>1
       DEF RowStep, Unmoved, Marked, Finished, Requeued, Withdrawn, Exists
<1>4. ASSUME NEW c \in Clients PROVE ~HoldsClient(c, j)'
  BY <1>0, HeldBefore
<1>5. ASSUME jobs'[j].attempts = 0
      PROVE  ~PutOff(j)' /\ (Unsettled(j)' => OnItsWay(j)')
  <2>1. \A g \in Goroutines : ~Failed(g, j)
    <3> SUFFICES ASSUME NEW g \in Goroutines, Failed(g, j) PROVE FALSE
      OBVIOUS
    <3>1. gor[g].attempts \in Nat
      BY <1>0 DEF TypeOK, WorkerTypeOK, GoroutineState
    <3> QED
      BY <1>5, <3>1 DEF Failed
  <2>2. jobs[j].attempts = 0
    BY <1>1, <1>2, <1>5, <2>1
       DEF RowStep, Unmoved, Marked, Finished, Requeued, Withdrawn
  <2>3. ~PutOff(j) /\ (Unsettled(j) => OnItsWay(j))
    BY <2>2 DEF Ordered
  <2>4. ~PutOff(j)'
    BY <1>0, <1>5, <2>3, NotPutOff
  <2>5. ASSUME Unsettled(j)' PROVE OnItsWay(j)'
    <3>1. OnItsWay(j)
      <4>1. \A t \in Threads : ~Requeued(t, j)
        BY <2>3 DEF Requeued, PutOff
      <4>2. CASE Unmoved(j)
        BY <2>3, <2>5, <4>2 DEF Unmoved, Unsettled
      <4>3. CASE \E g \in Goroutines : Marked(g, j)
        BY <4>3 DEF Marked, HoldsGoroutine, OnItsWay
      <4>4. (\A g \in Goroutines : ~Finished(g, j)) /\ (\A c \in Clients : ~Withdrawn(c, j))
        BY <2>5 DEF Finished, Withdrawn, Unsettled
      <4> QED
        BY <1>1, <1>2, <2>1, <4>1, <4>2, <4>3, <4>4 DEF RowStep
    <3>2. ~Settled(j)'
      BY <2>5 DEF Settled, Unsettled
    <3>3. OnItsWay(j)' \/ \E g \in Goroutines : jobs'[j].attempts > 0
      BY <1>0, <3>1, <3>2, NextCarries
    <3> QED
      BY <1>5, <3>3
  <2> QED
    BY <2>4, <2>5
<1> QED
  BY <1>3, <1>4, <1>5 DEF Ordered

(* The push of an order puts the job into a queue, and nobody puts it off. *)
LEMMA PushOrders ==
  ASSUME Sound, NEW c \in Clients, PushRequest(c), UNCHANGED <<workerVars, schedulerVars>>,
         NEW j \in Jobs, PushToRedis(j), HoldsClient(c, j), ~HoldsClient(c, j)'
  PROVE  Ordered(j)'
<1>0. /\ RowsTypeOK /\ RedisTypeOK /\ ApiTypeOK /\ RoutedIds /\ JobInv(j)
      /\ UNCHANGED jobs
  BY StoresParts DEF Sound, TypeOK, Delivered, PushRequest
<1>1. Exists(j)'
  BY <1>0, StoresAssumption DEF RoutedIds, RoutedThreads, HoldsClient, Exists
<1>2. ASSUME NEW d \in Clients PROVE ~HoldsClient(d, j)'
  <2>1. d # c => cl'[d] = cl[d]
    BY <1>0, OrderSteps DEF ClientStep
  <2>2. HoldsClient(d, j) => d = c
    BY <1>0, ClientAlone
  <2> QED
    BY <2>1, <2>2 DEF HoldsClient
<1>3. InQueues(j)'
  BY <1>0, PushKeeps
<1>4. ~PutOff(j)'
  <2>1. delayed'[j] = "no"
    BY <1>0, ClientAlone DEF PushToRedis, Enqueue, EnqueuePriority
  <2>2. /\ \A g \in Goroutines : ~Delaying(g, j)
        /\ \A t \in Threads : ~Owns(t, j)
    BY <1>0, ClientAlone DEF Delaying, HoldsGoroutine
  <2>3. /\ \A g \in Goroutines : ~Delaying(g, j)'
        /\ \A t \in Threads : ~Owns(t, j)'
    BY <2>2 DEF Delaying, Owns, workerVars, schedulerVars
  <2> QED
    BY <2>1, <2>3 DEF PutOff
<1> QED
  BY <1>1, <1>2, <1>3, <1>4 DEF Ordered, OnItsWay

(* Every step keeps the orders enqueued. *)
LEMMA NextOrdered ==
  ASSUME WorkersDropNothing
  PROVE  Sound /\ OrdersKept /\ [Next]_vars => OrdersKept'
<1> SUFFICES ASSUME Sound, OrdersKept, [Next]_vars,
                    NEW c \in Clients, NEW j \in order'[c].created
             PROVE  Ordered(j)'
  BY DEF OrdersKept
<1>0. TypeOK /\ TypeOK' /\ PlainOrders
  BY NextTypeOK DEF Sound
<1>1. j \in Jobs
  BY <1>0 DEF TypeOK, ApiTypeOK, OrderState
<1>2. CASE j \in order[c].created
  BY <1>1, <1>2, StaysOrdered DEF OrdersKept
<1>3. CASE /\ PushRequest(c) /\ PushToRedis(j) /\ HoldsClient(c, j) /\ ~HoldsClient(c, j)'
           /\ UNCHANGED <<workerVars, schedulerVars>>
  BY <1>1, <1>3, PushOrders
<1> QED
  BY <1>0, <1>2, <1>3, CreatedBefore

(* While an order is enqueued, every job that it counts as created and that *)
(* has not failed yet waits in a queue or is at a goroutine: an order never *)
(* goes on over a job it could not enqueue, also when pushes fail and the   *)
(* server or a worker is stopped (enqueueOrder, PlaceOrder, FloodOrders).   *)
THEOREM OrdersAreEnqueued ==
  ASSUME OrderlyFaults, WorkersDropNothing, OrdersAreNotPutOff, "replay" \notin Operations
  PROVE  Spec => []OrderIsEnqueued
<1>1. Init => NoReplays /\ PlainOrders /\ OrdersKept /\ GoneIsExited
  <2> SUFFICES ASSUME Init PROVE NoReplays /\ PlainOrders /\ OrdersKept /\ GoneIsExited
    OBVIOUS
  <2>1. \A c \in Clients : cl[c].pc = "idle" /\ order[c] = NoOrder
    BY RequestFields DEF Init, ApiInit
  <2>2. GoneIsExited
    BY DEF Init, WorkerInit, GoneIsExited
  <2> QED
    BY <2>1, <2>2 DEF NoReplays, PlainOrders, OrdersKept, NoOrder, NoDelay
<1>2. TypeOK /\ NoReplays /\ [Next]_vars => NoReplays'
  BY RequestCalls DEF NoReplays
<1>3. TypeOK /\ PlainOrders /\ [Next]_vars => PlainOrders'
  BY NextPlain
<1>4. TypeOK /\ GoneIsExited /\ [Next]_vars => GoneIsExited'
  BY NextGone
<1>5. Sound /\ OrdersKept /\ [Next]_vars => OrdersKept'
  BY NextOrdered
<1>6. Sound <=> /\ TypeOK /\ RoutedIds /\ Delivered /\ GoneIsExited
                /\ RunningIsExecuted /\ NoReplays /\ PlainOrders
  BY DEF Sound
<1>7. Spec => []RunningIsExecuted
  BY RunningJobsAreExecuted DEF WorkersDropNothing, HandlersFinish
<1>8. Spec => []ReplaysApart
  BY ReplaysStayApart
<1>9. Spec => []Delivered
  BY <1>8, AlwaysDelivered, PTL
<1>10. TypeOK /\ OrdersKept => OrderIsEnqueued
  <2> SUFFICES ASSUME TypeOK, OrdersKept, NEW c \in Clients, NEW j \in order[c].created,
                      Unsettled(j), jobs[j].attempts = 0
               PROVE  Deliveries(j) # {}
    BY DEF OrderIsEnqueued
  <2> QED
    BY PlacedIsDelivered DEF OrdersKept, Ordered, Placed
<1> QED
  BY <1>1, <1>2, <1>3, <1>4, <1>5, <1>6, <1>7, <1>9, <1>10, TypeCorrectness, IdsAreRouted,
     PTL DEF Spec
=============================================================================
