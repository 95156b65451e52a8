--------------------------- MODULE TaskQueueProofs ---------------------------
(***************************************************************************)
(* Theorems about TaskQueue for every value of its constants: the types of *)
(* the state, and the routing of ids.                                      *)
(***************************************************************************)
EXTENDS Delivery, TLAPS

(* The initial state has the right types. *)
LEMMA InitTypeOK == Init => TypeOK
<1> SUFFICES ASSUME Init PROVE TypeOK
  OBVIOUS
<1>1. StoresTypeOK
  <2>0. NoRow \in JobRow
    BY StoresAssumption, SMT DEF NoRow, JobRow, Statuses, StartedAt
  <2>1. jobs \in [Jobs -> JobRow]
    BY <2>0 DEF Init, StoresInit
  <2>2. lists \in [Queues -> Seq(Jobs)]
    BY DEF Init, StoresInit
  <2>3. prio \in [Queues -> SUBSET Jobs]
    BY DEF Init, StoresInit
  <2>4. delayed \in [Jobs -> {"no", "waiting", "due"}]
    BY DEF Init, StoresInit
  <2>5. deadList \in [Jobs -> Nat] /\ faults \in 0 .. MaxFaults
    BY StoresAssumption DEF Init, StoresInit
  <2> QED
    BY <2>1, <2>2, <2>3, <2>4, <2>5 DEF StoresTypeOK
<1>2. WorkerTypeOK
  BY WorkerAssumption
     DEF Init, WorkerInit, WorkerTypeOK, LoopTop, At, GoroutineState, WorkerPC
<1>3. SchedulerTypeOK
  BY DEF Init, SchedulerInit, SchedulerTypeOK, Idle, Scan, Thread, ThreadState,
         Threads
<1>4. ApiTypeOK
  BY ApiAssumption
     DEF Init, ApiInit, ApiTypeOK, NoRequest, Request, ClientState, NoOrder, OrderState
<1> QED
  BY <1>1, <1>2, <1>3, <1>4 DEF TypeOK

-----------------------------------------------------------------------------
(* The calls of the stores keep the types.                                 *)

RowsTypeOK == jobs \in [Jobs -> JobRow]

RedisTypeOK ==
  /\ lists \in [Queues -> Seq(Jobs)]
  /\ prio \in [Queues -> SUBSET Jobs]
  /\ delayed \in [Jobs -> {"no", "waiting", "due"}]
  /\ deadList \in [Jobs -> Nat]

BudgetTypeOK == faults \in 0 .. MaxFaults

(* The three parts of the type of the stores. *)
LEMMA StoresParts == StoresTypeOK <=> RowsTypeOK /\ RedisTypeOK /\ BudgetTypeOK
  BY DEF StoresTypeOK, RowsTypeOK, RedisTypeOK, BudgetTypeOK

(* The budget of faults is never overdrawn. *)
LEMMA BudgetKept ==
  ASSUME BudgetTypeOK, NoFault \/ \E kind \in FaultKinds : Fault(kind)
  PROVE  BudgetTypeOK'
  BY StoresAssumption DEF BudgetTypeOK, NoFault, Fault

(* A fault is of one of the kinds allowed. *)
LEMMA FaultIsAllowed ==
  ASSUME NEW kind, Fault(kind) PROVE \E k \in FaultKinds : Fault(k)
  BY DEF Fault

(* Writing a well typed row keeps the table well typed. *)
LEMMA WriteRowType ==
  ASSUME RowsTypeOK, NEW j \in Jobs, NEW row \in JobRow, WriteRow(j, row)
  PROVE  RowsTypeOK'
  BY DEF RowsTypeOK, WriteRow

(* So does a write that fails, and it costs one fault. *)
LEMMA FailedWriteType ==
  ASSUME RowsTypeOK, BudgetTypeOK, NEW j \in Jobs, NEW row \in JobRow,
         FailedWrite(j, row)
  PROVE  RowsTypeOK' /\ BudgetTypeOK'
<1>1. RowsTypeOK'
  BY WriteRowType DEF FailedWrite, RowsTypeOK
<1>2. BudgetTypeOK'
  BY BudgetKept, FaultIsAllowed DEF FailedWrite
<1> QED
  BY <1>1, <1>2

(* Every redis command keeps the types of the keys. *)
LEMMA RedisCallType ==
  ASSUME RedisTypeOK, RowsTypeOK, NEW j \in Jobs,
         \/ UNCHANGED redisVars
         \/ PushToRedis(j)
         \/ EnqueueDelayed(j)
         \/ EnqueueDead(j)
         \/ RemoveFromDead(j)
  PROVE  RedisTypeOK'
<1>1. CASE UNCHANGED redisVars
  BY <1>1 DEF redisVars, RedisTypeOK
<1>2. CASE PushToRedis(j)
  <2>1. jobs[j].queue \in Queues
    BY DEF RowsTypeOK, JobRow
  <2>2. CASE EnqueuePriority(jobs[j].queue, j)
    BY <2>1, <2>2 DEF EnqueuePriority, RedisTypeOK
  <2>3. CASE Enqueue(jobs[j].queue, j)
    BY <2>1, <2>3 DEF Enqueue, RedisTypeOK
  <2> QED
    BY <1>2, <2>2, <2>3 DEF PushToRedis
<1>3. CASE EnqueueDelayed(j)
  BY <1>3 DEF EnqueueDelayed, RedisTypeOK
<1>4. CASE EnqueueDead(j)
  BY <1>4 DEF EnqueueDead, RedisTypeOK
<1>5. CASE RemoveFromDead(j)
  BY <1>5 DEF RemoveFromDead, RedisTypeOK
<1> QED
  BY <1>1, <1>2, <1>3, <1>4, <1>5

-----------------------------------------------------------------------------
(* The steps of the goroutines.                                            *)

(* A goroutine may go to any well typed state in which it holds a job      *)
(* exactly where the program counter says so.                              *)
LEMMA GoType ==
  ASSUME WorkerTypeOK, proc' = proc, NEW g \in Goroutines,
         NEW state \in GoroutineState, Go(g, state),
         state.idx \in 1 .. Len(WorkerQueues),
         state.job = NoJob <=> state.pc \in {"poll", "brpop", "exited"}
  PROVE  WorkerTypeOK'
  BY DEF WorkerTypeOK, Go

(* The loop top and the end of a goroutine are such states. *)
LEMMA IdleStates ==
  /\ LoopTop \in GoroutineState /\ Exited \in GoroutineState
  /\ LoopTop.idx = 1 /\ Exited.idx = 1 /\ 1 \in 1 .. Len(WorkerQueues)
  /\ LoopTop.job = NoJob /\ Exited.job = NoJob
  /\ LoopTop.pc = "poll" /\ Exited.pc = "exited"
  BY WorkerAssumption DEF LoopTop, Exited, At, GoroutineState, WorkerPC

(* A goroutine that holds a job holds one that can have a row, and the rows *)
(* it writes are well typed.                                                *)
LEMMA HeldRows ==
  ASSUME WorkerTypeOK, RowsTypeOK, NEW g \in Goroutines,
         gor[g].pc \notin {"poll", "brpop", "exited"}
  PROVE  /\ gor[g].job \in Jobs
         /\ RunningRow(g) \in JobRow
         /\ \A s \in Statuses : FailedRow(g, s) \in JobRow
         /\ [jobs[gor[g].job] EXCEPT !.status = "completed"] \in JobRow
<1>1. gor[g].job \in Jobs /\ gor[g].attempts \in Nat
  BY DEF WorkerTypeOK, GoroutineState
<1>2. jobs[gor[g].job] \in JobRow
  BY <1>1 DEF RowsTypeOK
<1>3. g[1] \in Workers
  BY DEF Goroutines
<1>4. RunningRow(g) \in JobRow
  BY <1>2, <1>3 DEF RunningRow, JobRow, Statuses, StartedAt
<1>5. ASSUME NEW s \in Statuses PROVE FailedRow(g, s) \in JobRow
  <2>1. gor[g].attempts + 1 \in Nat
    BY <1>1
  <2> QED
    BY <1>1, <1>2, <2>1, <1>5 DEF FailedRow, JobRow
<1>6. [jobs[gor[g].job] EXCEPT !.status = "completed"] \in JobRow
  BY <1>2 DEF JobRow, Statuses
<1> QED
  BY <1>1, <1>4, <1>5, <1>6

(* Dequeue: the loop top, ZPOPMAX and BRPOP. *)
LEMMA DequeueType ==
  ASSUME StoresTypeOK, WorkerTypeOK, NEW g \in Goroutines,
         StopLoop(g) \/ PollPriority(g) \/ BlockingPop(g) \/ PopTimeout(g)
  PROVE  StoresTypeOK' /\ WorkerTypeOK'
<1> USE StoresParts
<1>0. RowsTypeOK /\ RedisTypeOK /\ BudgetTypeOK
  OBVIOUS
<1>a. ASSUME NEW j \in Jobs
      PROVE  /\ At("load", 1, j, 0) \in GoroutineState
             /\ At("load", 1, j, 0).idx = 1
             /\ At("load", 1, j, 0).job # NoJob
             /\ At("load", 1, j, 0).pc = "load"
  BY StoresAssumption DEF At, GoroutineState, WorkerPC
<1>b. ASSUME UNCHANGED storeVars PROVE StoresTypeOK'
  BY <1>b DEF storeVars, StoresTypeOK
<1>c. ASSUME UNCHANGED <<jobs, deadList, delayed>>, RedisTypeOK',
             NoFault \/ \E k \in FaultKinds : Fault(k)
      PROVE  StoresTypeOK'
  <2>1. RowsTypeOK'
    BY <1>0, <1>c DEF RowsTypeOK
  <2>2. BudgetTypeOK'
    BY <1>0, <1>c, BudgetKept
  <2> QED
    BY <2>1, <2>2, <1>c DEF StoresTypeOK, RowsTypeOK, RedisTypeOK, BudgetTypeOK
<1>1. CASE StopLoop(g)
  BY <1>1, <1>b, GoType, IdleStates DEF StopLoop
<1>2. CASE PopTimeout(g)
  <2>1. RedisTypeOK'
    BY <1>0, <1>2 DEF PopTimeout, redisVars, RedisTypeOK
  <2>2. StoresTypeOK'
    BY <1>2, <1>c, <2>1, FaultIsAllowed DEF PopTimeout, redisVars
  <2>3. WorkerTypeOK'
    BY <1>2, GoType, IdleStates DEF PopTimeout
  <2> QED
    BY <2>2, <2>3
<1>3. ASSUME proc' = proc, NextQueue(g) PROVE WorkerTypeOK'
  <2>1. gor[g].idx \in 1 .. Len(WorkerQueues)
    BY DEF WorkerTypeOK
  <2>2. CASE gor[g].idx < Len(WorkerQueues)
    <3> DEFINE next == At("poll", gor[g].idx + 1, NoJob, 0)
    <3>1. /\ next \in GoroutineState /\ next.idx \in 1 .. Len(WorkerQueues)
          /\ next.job = NoJob /\ next.pc = "poll"
      BY <2>1, <2>2, WorkerAssumption DEF At, GoroutineState, WorkerPC
    <3>2. Go(g, next)
      BY <1>3, <2>2 DEF NextQueue
    <3> HIDE DEF next
    <3> QED
      BY <1>3, <3>1, <3>2, GoType
  <2>3. CASE gor[g].idx = Len(WorkerQueues)
    <3> DEFINE block == At("brpop", 1, NoJob, 0)
    <3>1. /\ block \in GoroutineState /\ block.idx \in 1 .. Len(WorkerQueues)
          /\ block.job = NoJob /\ block.pc = "brpop"
      BY WorkerAssumption DEF At, GoroutineState, WorkerPC
    <3>2. Go(g, block)
      BY <1>3, <2>3, WorkerAssumption DEF NextQueue
    <3> HIDE DEF block
    <3> QED
      BY <1>3, <3>1, <3>2, GoType
  <2> QED
    BY <1>3, <2>2, <2>3 DEF NextQueue
<1>4. CASE PollPriority(g)
  <2> DEFINE q == WorkerQueues[gor[g].idx]
  <2>1. q \in Queues
    BY WorkerAssumption DEF WorkerTypeOK
  <2> HIDE DEF q
  <2>2. CASE \E j \in HighestPriority(q) :
               /\ prio' = [prio EXCEPT ![q] = @ \ {j}]
               /\ \/ Go(g, At("load", 1, j, 0)) /\ NoFault
                  \/ NextQueue(g) /\ Fault("lost_reply")
    <3>1. PICK j \in HighestPriority(q) :
               /\ prio' = [prio EXCEPT ![q] = @ \ {j}]
               /\ \/ Go(g, At("load", 1, j, 0)) /\ NoFault
                  \/ NextQueue(g) /\ Fault("lost_reply")
      BY <2>2
    <3>2. j \in Jobs
      BY <1>0, <2>1 DEF HighestPriority, RedisTypeOK
    <3>3. RedisTypeOK'
      BY <1>0, <1>4, <2>1, <3>1 DEF RedisTypeOK, PollPriority
    <3>4. StoresTypeOK'
      BY <1>4, <1>c, <3>1, <3>3, FaultIsAllowed DEF PollPriority
    <3>5. WorkerTypeOK'
      BY <1>4, <1>3, <1>a, <3>1, <3>2, GoType, IdleStates DEF PollPriority
    <3> QED
      BY <3>4, <3>5
  <2>3. CASE /\ (prio[q] = {} /\ NoFault) \/ Fault("redis_error")
             /\ NextQueue(g)
             /\ UNCHANGED prio
    <3>1. RedisTypeOK'
      BY <1>0, <1>4, <2>3 DEF RedisTypeOK, PollPriority
    <3>2. StoresTypeOK'
      BY <1>4, <1>c, <2>3, <3>1, FaultIsAllowed DEF PollPriority
    <3> QED
      BY <1>3, <1>4, <2>3, <3>2 DEF PollPriority
  <2> QED
    BY <1>4, <2>2, <2>3 DEF PollPriority, q
<1>5. CASE BlockingPop(g)
  <2>1. PICK i \in DOMAIN WorkerQueues :
          /\ FirstNonEmpty(i)
          /\ lists' = [lists EXCEPT ![WorkerQueues[i]] = Tail(@)]
          /\ \/ Go(g, At("load", 1, Head(lists[WorkerQueues[i]]), 0)) /\ NoFault
             \/ Go(g, LoopTop) /\ Fault("lost_reply")
    BY <1>5 DEF BlockingPop
  <2> DEFINE q == WorkerQueues[i]
  <2>2. q \in Queues
    BY WorkerAssumption
  <2>3. lists[q] \in Seq(Jobs) /\ lists[q] # <<>>
    BY <1>0, <2>1, <2>2 DEF FirstNonEmpty, RedisTypeOK
  <2>4. Head(lists[q]) \in Jobs /\ Tail(lists[q]) \in Seq(Jobs)
    BY <2>3
  <2>5. RedisTypeOK'
    BY <1>0, <1>5, <2>1, <2>2, <2>4 DEF RedisTypeOK, BlockingPop
  <2>6. StoresTypeOK'
    BY <1>5, <1>c, <2>1, <2>5, FaultIsAllowed DEF BlockingPop
  <2>7. WorkerTypeOK'
    BY <1>5, <1>a, <2>1, <2>4, GoType, IdleStates DEF BlockingPop
  <2> QED
    BY <2>6, <2>7
<1> QED
  BY <1>1, <1>2, <1>4, <1>5

(* processJob, ScheduleRetry and MoveToDeadLetter. *)
LEMMA ProcessJobType ==
  ASSUME StoresTypeOK, WorkerTypeOK, NEW g \in Goroutines,
         \/ LoadJob(g) \/ MarkRunning(g) \/ CompleteJob(g) \/ FailJob(g)
         \/ DelayRetry(g) \/ BuryJob(g)
  PROVE  StoresTypeOK' /\ WorkerTypeOK'
<1> USE StoresParts
<1>0. RowsTypeOK /\ RedisTypeOK /\ BudgetTypeOK
  OBVIOUS
<1>a. gor[g] \in GoroutineState /\ gor[g].idx \in 1 .. Len(WorkerQueues)
  BY DEF WorkerTypeOK
<1>b. /\ gor[g].job \in Jobs
      /\ RunningRow(g) \in JobRow
      /\ \A s \in Statuses : FailedRow(g, s) \in JobRow
      /\ [jobs[gor[g].job] EXCEPT !.status = "completed"] \in JobRow
  BY <1>0, HeldRows
     DEF LoadJob, MarkRunning, CompleteJob, FailJob, DelayRetry, BuryJob
<1>c. ASSUME NEW pc \in {"exec", "delay", "bury"}, proc' = proc,
             Go(g, [gor[g] EXCEPT !.pc = pc])
      PROVE  WorkerTypeOK'
  <2> DEFINE next == [gor[g] EXCEPT !.pc = pc]
  <2>1. /\ next \in GoroutineState /\ next.idx \in 1 .. Len(WorkerQueues)
        /\ next.job \in Jobs /\ next.pc \notin {"poll", "brpop", "exited"}
    BY <1>a, <1>b DEF GoroutineState, WorkerPC
  <2>2. next.job # NoJob
    BY <2>1, StoresAssumption
  <2> HIDE DEF next
  <2>3. Go(g, next)
    BY <1>c DEF next
  <2> QED
    BY <1>c, <2>1, <2>2, <2>3, GoType
<1>d. ASSUME proc' = proc, Go(g, LoopTop) PROVE WorkerTypeOK'
  BY <1>d, GoType, IdleStates
<1>1. CASE LoadJob(g)
  <2> DEFINE next == At("mark", 1, gor[g].job, jobs[gor[g].job].attempts)
  <2>1. jobs[gor[g].job] \in JobRow
    BY <1>0, <1>b DEF RowsTypeOK
  <2>2. /\ next \in GoroutineState /\ next.idx = 1
        /\ next.job \in Jobs /\ next.pc = "mark"
    BY <1>b, <2>1 DEF At, GoroutineState, WorkerPC, JobRow
  <2>3. next.job # NoJob
    BY <2>2, StoresAssumption
  <2> HIDE DEF next
  <2>4. WorkerTypeOK'
    BY <1>1, <1>d, <2>2, <2>3, GoType, IdleStates DEF LoadJob, next
  <2>5. RowsTypeOK' /\ RedisTypeOK'
    BY <1>0, <1>1, <1>b, RedisCallType DEF LoadJob, RowsTypeOK
  <2>6. BudgetTypeOK'
    BY <1>0, <1>1, BudgetKept, FaultIsAllowed DEF LoadJob
  <2> QED
    BY <2>4, <2>5, <2>6 DEF StoresTypeOK, RowsTypeOK, RedisTypeOK, BudgetTypeOK
<1>e. ASSUME NEW row \in JobRow, UNCHANGED redisVars,
             \/ WriteRow(gor[g].job, row) /\ NoFault
             \/ FailedWrite(gor[g].job, row)
      PROVE  StoresTypeOK'
  <2>1. RowsTypeOK' /\ BudgetTypeOK'
    BY <1>0, <1>b, <1>e, WriteRowType, FailedWriteType, BudgetKept
  <2>2. RedisTypeOK'
    BY <1>0, <1>b, <1>e, RedisCallType
  <2> QED
    BY <2>1, <2>2 DEF StoresTypeOK, RowsTypeOK, RedisTypeOK, BudgetTypeOK
<1>2. CASE MarkRunning(g)
  BY <1>2, <1>b, <1>c, <1>d, <1>e DEF MarkRunning
<1>3. CASE CompleteJob(g)
  BY <1>3, <1>b, <1>d, <1>e DEF CompleteJob
<1>4. CASE FailJob(g)
  <2> DEFINE status == IF Exhausted(g) THEN "dead" ELSE "pending"
  <2>1. FailedRow(g, status) \in JobRow
    BY <1>b DEF Statuses
  <2>2. StoresTypeOK'
    BY <1>4, <1>e, <2>1 DEF FailJob
  <2>3. WorkerTypeOK'
    BY <1>4, <1>c, <1>d DEF FailJob
  <2> QED
    BY <2>2, <2>3
<1>5. CASE DelayRetry(g) \/ BuryJob(g)
  <2>1. WorkerTypeOK'
    <3>1. CASE UNCHANGED workerVars
      BY <1>0, <3>1 DEF workerVars, WorkerTypeOK
    <3> QED
      BY <1>5, <1>d, <3>1 DEF DelayRetry, BuryJob, workerVars
  <2>2. RowsTypeOK' /\ RedisTypeOK'
    BY <1>0, <1>5, <1>b, RedisCallType DEF DelayRetry, BuryJob, RowsTypeOK
  <2>3. BudgetTypeOK'
    BY <1>0, <1>5, BudgetKept, FaultIsAllowed DEF DelayRetry, BuryJob
  <2> QED
    BY <2>1, <2>2, <2>3 DEF StoresTypeOK, RowsTypeOK, RedisTypeOK, BudgetTypeOK
<1> QED
  BY <1>1, <1>2, <1>3, <1>4, <1>5

-----------------------------------------------------------------------------
(* The life of the processes, and the clock.                               *)

(* StopWorker, WorkerStopped, CrashWorker and StartWorker. *)
LEMMA WorkerProcessType ==
  ASSUME StoresTypeOK, WorkerTypeOK, NEW w \in Workers, WorkerProcess(w)
  PROVE  StoresTypeOK' /\ WorkerTypeOK'
<1>1. BudgetTypeOK'
  BY StoresParts, BudgetKept, FaultIsAllowed
     DEF WorkerProcess, StopWorker, WorkerStopped, CrashWorker, StartWorker,
         NoFault, storeVars
<1>2. UNCHANGED <<jobs, redisVars>>
  BY DEF WorkerProcess, StopWorker, WorkerStopped, CrashWorker, StartWorker,
         storeVars, redisVars
<1>3. StoresTypeOK'
  BY <1>1, <1>2 DEF StoresTypeOK, BudgetTypeOK, redisVars
<1>4. proc' \in [Workers -> {"up", "stopping", "stopped", "crashed"}]
  BY DEF WorkerProcess, StopWorker, WorkerStopped, CrashWorker, StartWorker,
         WorkerTypeOK
<1>5. \/ gor' = gor
      \/ gor' = [g \in Goroutines |-> IF g[1] = w THEN Exited ELSE gor[g]]
      \/ gor' = [g \in Goroutines |-> IF g[1] = w THEN LoopTop ELSE gor[g]]
  BY DEF WorkerProcess, StopWorker, WorkerStopped, CrashWorker, StartWorker, ExitAll
<1>6. WorkerTypeOK'
  BY <1>4, <1>5, IdleStates DEF WorkerTypeOK
<1> QED
  BY <1>3, <1>6

(* BecomeDue and BecomeStuck. *)
LEMMA ClockType ==
  ASSUME StoresTypeOK, NEW j \in Jobs, BecomeDue(j) \/ BecomeStuck(j)
  PROVE  StoresTypeOK'
<1> USE StoresParts
<1>1. CASE BecomeDue(j)
  BY <1>1 DEF BecomeDue, StoresTypeOK
<1>2. CASE BecomeStuck(j)
  <2>1. jobs[j] \in JobRow
    BY DEF StoresTypeOK
  <2>2. [jobs[j] EXCEPT !.started_at = "old"] \in JobRow
    BY <2>1 DEF JobRow, StartedAt
  <2>3. RowsTypeOK'
    BY <1>2, <2>2, WriteRowType DEF BecomeStuck
  <2>4. BudgetTypeOK'
    BY <1>2, BudgetKept, FaultIsAllowed DEF BecomeStuck
  <2> QED
    BY <1>2, <2>3, <2>4
       DEF BecomeStuck, redisVars, StoresTypeOK, RowsTypeOK, BudgetTypeOK
<1> QED
  BY <1>1, <1>2

-----------------------------------------------------------------------------
(* The steps of the server.                                                *)

(* A thread may go to any well typed state in which it holds a job exactly *)
(* when it is about to push it.                                            *)
LEMMA BecomeType ==
  ASSUME SchedulerTypeOK, server' = server, NEW t \in Threads,
         NEW state \in ThreadState, Become(t, state),
         state.job = NoJob <=> state.pc # "push"
  PROVE  SchedulerTypeOK'
  BY DEF SchedulerTypeOK, Become

(* The states in which a thread holds no job. *)
LEMMA ThreadStates ==
  /\ \A s \in {Idle, Scan, ThreadExited} :
       s \in ThreadState /\ s.job = NoJob /\ s.pc # "push"
  /\ \A m \in {"promote", "recover"}, batch \in SUBSET Jobs, pc \in {"zrem", "reset"} :
       LET s == Thread(pc, m, batch, NoJob) IN
       s \in ThreadState /\ s.job = NoJob /\ s.pc # "push"
  BY DEF Idle, Scan, ThreadExited, Thread, ThreadState

(* Going on with a batch keeps the types. *)
LEMMA ContinueType ==
  ASSUME SchedulerTypeOK, server' = server, NEW t \in Threads,
         NEW m \in {"promote", "recover"}, NEW batch \in SUBSET Jobs,
         Continue(t, m, batch)
  PROVE  SchedulerTypeOK'
<1>1. CASE Become(t, Thread("reset", m, batch, NoJob))
  BY <1>1, ThreadStates, BecomeType
<1>2. CASE Become(t, IF t = "loop" THEN Idle ELSE ThreadExited)
  BY <1>2, ThreadStates, BecomeType
<1> QED
  BY <1>1, <1>2 DEF Continue

(* promoteDelayedJobs and recoverStuckJobs up to their loops. *)
LEMMA BatchType ==
  ASSUME StoresTypeOK, SchedulerTypeOK,
         DelayedTick \/ RemoveDue \/ StuckTick \/ StartupScan
  PROVE  StoresTypeOK' /\ SchedulerTypeOK'
<1> USE StoresParts
<1>0. "loop" \in Threads /\ "startup" \in Threads
  BY DEF Threads
<1>1. CASE DelayedTick
  <2>1. StoresTypeOK'
    BY <1>1 DEF DelayedTick, storeVars, StoresTypeOK
  <2>2. DueJobs \in SUBSET Jobs
    BY DEF DueJobs
  <2> QED
    BY <1>0, <1>1, <2>1, <2>2, ThreadStates, BecomeType DEF DelayedTick
<1>2. CASE RemoveDue
  <2>1. sch["loop"].batch \in SUBSET Jobs
    BY <1>0 DEF SchedulerTypeOK, ThreadState
  <2>2. SchedulerTypeOK'
    BY <1>0, <1>2, <2>1, ThreadStates, BecomeType DEF RemoveDue
  <2>3. BudgetTypeOK'
    BY <1>2, BudgetKept, FaultIsAllowed DEF RemoveDue
  <2>4. delayed' \in [Jobs -> {"no", "waiting", "due"}]
    BY <1>2 DEF RemoveDue, StoresTypeOK
  <2> QED
    BY <1>2, <2>2, <2>3, <2>4 DEF RemoveDue, StoresTypeOK, BudgetTypeOK
<1>3. CASE StuckTick \/ StartupScan
  <2>1. StuckJobs \in SUBSET Jobs
    BY DEF StuckJobs
  <2>2. SchedulerTypeOK'
    BY <1>0, <1>3, <2>1, ThreadStates, BecomeType, ContinueType
       DEF StuckTick, StartupScan
  <2>3. BudgetTypeOK'
    BY <1>3, BudgetKept, FaultIsAllowed DEF StuckTick, StartupScan
  <2> QED
    BY <1>3, <2>2, <2>3
       DEF StuckTick, StartupScan, redisVars, StoresTypeOK, BudgetTypeOK
<1> QED
  BY <1>1, <1>2, <1>3

(* The body of their loops: the reset of a row and the push of its id. *)
LEMMA ThreadStepType ==
  ASSUME StoresTypeOK, SchedulerTypeOK, NEW t \in Threads, ThreadStep(t)
  PROVE  StoresTypeOK' /\ SchedulerTypeOK'
<1> USE StoresParts
<1>0. /\ sch[t].batch \in SUBSET Jobs
      /\ sch[t].mode \in {"promote", "recover"}
  BY DEF SchedulerTypeOK, ThreadState
<1>1. CASE ResetJob(t)
  <2>1. PICK j \in sch[t].batch :
          \/ /\ WriteRow(j, ResetRow(j, sch[t].mode)) /\ NoFault
             /\ Become(t, Thread("push", sch[t].mode, sch[t].batch \ {j}, j))
          \/ /\ FailedWrite(j, ResetRow(j, sch[t].mode))
             /\ Continue(t, sch[t].mode, sch[t].batch \ {j})
    BY <1>1 DEF ResetJob
  <2>2. j \in Jobs /\ j # NoJob /\ sch[t].batch \ {j} \in SUBSET Jobs
    BY <1>0, StoresAssumption
  <2>3. ResetRow(j, sch[t].mode) \in JobRow
    <3>1. jobs[j] \in JobRow
      BY <2>2 DEF StoresTypeOK
    <3> QED
      BY <3>1 DEF ResetRow, JobRow, Statuses
  <2>4. RowsTypeOK' /\ BudgetTypeOK'
    BY <2>1, <2>2, <2>3, WriteRowType, FailedWriteType, BudgetKept
  <2>5. StoresTypeOK'
    BY <1>1, <2>4 DEF ResetJob, redisVars, StoresTypeOK, RowsTypeOK, BudgetTypeOK
  <2> DEFINE next == Thread("push", sch[t].mode, sch[t].batch \ {j}, j)
  <2>6. next \in ThreadState /\ next.job = j /\ next.pc = "push"
    BY <1>0, <2>2 DEF Thread, ThreadState
  <2>7. server' = server
    BY <1>1 DEF ResetJob
  <2>8. CASE Become(t, next)
    <3> HIDE DEF next
    <3> QED
      BY <2>2, <2>5, <2>6, <2>7, <2>8, BecomeType
  <2>9. CASE Continue(t, sch[t].mode, sch[t].batch \ {j})
    BY <1>0, <2>2, <2>5, <2>7, <2>9, ContinueType
  <2> QED
    BY <2>1, <2>8, <2>9
<1>2. CASE PushJob(t)
  <2>1. sch[t].job \in Jobs
    BY <1>2 DEF PushJob, SchedulerTypeOK, ThreadState
  <2>2. SchedulerTypeOK'
    <3>1. CASE UNCHANGED sch
      BY <1>2, <3>1 DEF PushJob, SchedulerTypeOK
    <3> QED
      BY <1>0, <1>2, <3>1, ContinueType DEF PushJob
  <2>3. RedisTypeOK'
    BY <1>2, <2>1, RedisCallType DEF PushJob
  <2>4. BudgetTypeOK'
    BY <1>2, BudgetKept, FaultIsAllowed DEF PushJob
  <2> QED
    BY <1>2, <2>2, <2>3, <2>4
       DEF PushJob, StoresTypeOK, RedisTypeOK, BudgetTypeOK
<1> QED
  BY <1>1, <1>2 DEF ThreadStep

LEMMA EmptyOrder == NoOrder \in OrderState /\ <<>> \in Seq(Requests)
BY DEF NoOrder, OrderState

(* StopServer, StopScheduler, ExitServer, CrashServer and StartServer. *)
LEMMA ServerProcessType ==
  ASSUME TypeOK,
         \/ StopServer \/ StopScheduler \/ ExitServer \/ CrashServer
         \/ StartServer
  PROVE  TypeOK'
<1> USE DEF TypeOK
<1>1. BudgetTypeOK'
  BY StoresParts, BudgetKept, FaultIsAllowed
     DEF StopServer, StopScheduler, ExitServer, CrashServer, StartServer,
         storeVars, NoFault
<1>2. StoresTypeOK'
  BY <1>1 DEF StopServer, StopScheduler, ExitServer, CrashServer, StartServer,
              storeVars, redisVars, StoresTypeOK, BudgetTypeOK
<1>3. WorkerTypeOK'
  BY DEF StopServer, StopScheduler, ExitServer, CrashServer, StartServer,
         workerVars, WorkerTypeOK
<1>4. SchedulerTypeOK'
  BY ThreadStates
     DEF StopServer, StopScheduler, ExitServer, CrashServer, StartServer, Become,
         SchedulerTypeOK, Threads
<1>5. ApiTypeOK'
  <2>1. CASE CrashServer
    <3>1. order' \in [Clients -> OrderState]
      BY <2>1, EmptyOrder DEF CrashServer
    <3>2. /\ cl' \in [Clients -> ClientState]
          /\ \A c \in Clients : cl'[c].job = NoJob /\ cl'[c].pc = "idle"
      BY <2>1 DEF CrashServer, NoRequest, Request, ClientState
    <3> QED
      BY <2>1, <3>1, <3>2 DEF CrashServer, ApiTypeOK
  <2>2. CASE StopServer \/ StopScheduler \/ ExitServer \/ StartServer
    BY <2>2 DEF StopServer, StopScheduler, ExitServer, StartServer, apiVars, ApiTypeOK
  <2> QED
    BY <2>1, <2>2
<1> QED
  BY <1>2, <1>3, <1>4, <1>5

-----------------------------------------------------------------------------
(* The steps of the handlers.                                              *)

(* A client may go to any state in which it holds a job exactly when it has *)
(* a request in progress.                                                   *)
LEMMA CallType ==
  ASSUME ApiTypeOK, replays' \in 0 .. MaxReplays, NEW c \in Clients,
         \/ Respond(c)
         \/ \E pc \in {"push", "delay", "replay", "remove", "cancel"}, j \in Jobs :
              Call(c, pc, j)
  PROVE  ApiTypeOK'
<1>1. CASE Respond(c)
  <2>1. order' \in [Clients -> OrderState]
    BY <1>1, EmptyOrder DEF Respond, ApiTypeOK
  <2>2. /\ cl' \in [Clients -> ClientState]
        /\ \A d \in Clients : cl'[d].job = NoJob <=> cl'[d].pc \in {"idle", "create"}
    BY <1>1 DEF Respond, ApiTypeOK, ClientState, NoRequest, Request
  <2>3. \A d \in Clients : cl'[d].pc = "create" => order'[d].rest # <<>>
    BY <1>1 DEF Respond, ApiTypeOK, NoRequest, Request
  <2> QED
    BY <2>1, <2>2, <2>3 DEF ApiTypeOK
<1>2. CASE \E pc \in {"push", "delay", "replay", "remove", "cancel"}, j \in Jobs :
             Call(c, pc, j)
  BY <1>2, StoresAssumption DEF ApiTypeOK, ClientState, Call, Request
<1> QED
  BY <1>1, <1>2

(* Enqueue returns, and its request answers or goes on with its order. *)
LEMMA EnqueuedType ==
  ASSUME ApiTypeOK, UNCHANGED replays, NEW c \in Clients, cl[c].job \in Jobs,
         Enqueued(c)
  PROVE  ApiTypeOK'
<1>1. CASE Respond(c)
  BY <1>1, CallType DEF ApiTypeOK
<1>2. CASE /\ order[c].rest # <<>>
           /\ cl' = [cl EXCEPT ![c] = Request("create", NoJob)]
           /\ order' = [order EXCEPT ![c].created = @ \cup {cl[c].job}]
  <2>1. cl' \in [Clients -> ClientState]
    BY <1>2 DEF ApiTypeOK, ClientState, Request
  <2>2. /\ order' \in [Clients -> OrderState]
        /\ \A d \in Clients : order'[d].rest = order[d].rest
    BY <1>2 DEF ApiTypeOK, OrderState
  <2>3. \A d \in Clients : cl'[d].job = NoJob <=> cl'[d].pc \in {"idle", "create"}
    BY <1>2 DEF ApiTypeOK, Request
  <2>4. \A d \in Clients : cl'[d].pc = "create" => order'[d].rest # <<>>
    BY <1>2, <2>2 DEF ApiTypeOK, Request
  <2> QED
    BY <2>1, <2>2, <2>3, <2>4 DEF ApiTypeOK
<1> QED
  BY <1>1, <1>2 DEF Enqueued

(* The insert of a request that has rest to enqueue after it. *)
LEMMA CreateType ==
  ASSUME ApiTypeOK, UNCHANGED replays, NEW c \in Clients,
         NEW r \in Requests, NEW rest \in Seq(Requests), Create(c, r, rest)
  PROVE  ApiTypeOK'
<1>1. CASE Respond(c)
  BY <1>1, CallType DEF ApiTypeOK
<1>2. ASSUME NEW j \in Jobs, NEW pc \in {"delay", "push"},
             cl' = [cl EXCEPT ![c] = Request(pc, j)],
             order' = [order EXCEPT ![c].rest = rest]
      PROVE  ApiTypeOK'
  <2>1. cl' \in [Clients -> ClientState]
    BY <1>2 DEF ApiTypeOK, ClientState, Request
  <2>2. /\ order' \in [Clients -> OrderState]
        /\ \A d \in Clients \ {c} : order'[d].rest = order[d].rest
    BY <1>2 DEF ApiTypeOK, OrderState
  <2>3. \A d \in Clients : cl'[d].job = NoJob <=> cl'[d].pc \in {"idle", "create"}
    BY <1>2, StoresAssumption DEF ApiTypeOK, Request
  <2>4. \A d \in Clients : cl'[d].pc = "create" => order'[d].rest # <<>>
    BY <1>2, <2>2 DEF ApiTypeOK, Request
  <2> QED
    BY <1>2, <2>1, <2>2, <2>3, <2>4 DEF ApiTypeOK
<1> QED
  BY <1>1, <1>2 DEF Create

(* CreateJob, PlaceOrder and ContinueOrder insert the row of a request. *)
LEMMA CreateSteps ==
  ASSUME ApiTypeOK, NEW c \in Clients,
         CreateJob(c) \/ PlaceOrder(c) \/ ContinueOrder(c)
  PROVE  /\ \E r \in Requests, rest \in Seq(Requests) : Create(c, r, rest)
         /\ UNCHANGED <<replays, redisVars>>
<1>1. CASE CreateJob(c)
  BY <1>1, EmptyOrder DEF CreateJob
<1>2. ASSUME NEW o \in Seq(Requests), o # <<>>
      PROVE  Head(o) \in Requests /\ Tail(o) \in Seq(Requests)
  BY <1>2
<1>3. CASE PlaceOrder(c)
  BY <1>2, <1>3, ApiAssumption DEF PlaceOrder
<1>4. CASE ContinueOrder(c)
  <2>1. order[c].rest \in Seq(Requests) /\ order[c].rest # <<>>
    BY <1>4 DEF ContinueOrder, ApiTypeOK, OrderState
  <2> QED
    BY <1>2, <1>4, <2>1 DEF ContinueOrder
<1> QED
  BY <1>1, <1>3, <1>4

(* The row of a new job is well typed. *)
LEMMA NewRowType ==
  ASSUME NEW r \in Requests PROVE NewRow(r) \in JobRow
<1>1. NoRow \in JobRow
  BY StoresAssumption, SMT DEF NoRow, JobRow, Statuses, StartedAt
<1>2. /\ r.queue \in Queues \cup {NoQueue}
      /\ r.priority \in Int /\ r.max_attempts \in Int
  BY ApiAssumption
<1>3. /\ (IF r.queue = NoQueue THEN DefaultQueue ELSE r.queue) \in Queues
      /\ (IF r.max_attempts = 0 THEN 3 ELSE r.max_attempts) \in Int
  BY <1>2, StoresAssumption
<1> QED
  BY <1>1, <1>2, <1>3 DEF NewRow, JobRow, Statuses

(* CreateJob, PlaceOrder, RetryJob and CancelJob. *)
LEMMA ClientType ==
  ASSUME StoresTypeOK, ApiTypeOK, NEW c \in Clients,
         ClientStep(c) \/ ClientRequest(c)
  PROVE  StoresTypeOK' /\ ApiTypeOK'
<1> USE StoresParts
<1>a. ASSUME NEW j \in Jobs, NEW row \in JobRow, UNCHANGED redisVars,
             (WriteRow(j, row) /\ NoFault) \/ FailedWrite(j, row)
      PROVE  StoresTypeOK'
  <2>1. RowsTypeOK' /\ BudgetTypeOK'
    BY <1>a, WriteRowType, FailedWriteType, BudgetKept
  <2> QED
    BY <1>a, <2>1 DEF redisVars, StoresTypeOK, RowsTypeOK, BudgetTypeOK
<1>b. ASSUME cl[c].pc \notin {"idle", "create"} PROVE cl[c].job \in Jobs
  BY <1>b DEF ApiTypeOK, ClientState
<1>c. replays \in 0 .. MaxReplays
  BY DEF ApiTypeOK
<1>1. CASE CreateJob(c) \/ PlaceOrder(c) \/ ContinueOrder(c)
  <2>1. PICK r \in Requests, rest \in Seq(Requests) : Create(c, r, rest)
    BY <1>1, CreateSteps
  <2>2. UNCHANGED <<replays, redisVars>>
    BY <1>1, CreateSteps
  <2>3. PICK j \in Jobs :
          \/ WriteRow(j, NewRow(r)) /\ NoFault
          \/ FailedWrite(j, NewRow(r))
    BY <2>1 DEF Create
  <2>4. StoresTypeOK'
    BY <1>a, <2>2, <2>3, NewRowType
  <2> QED
    BY <2>1, <2>2, <2>4, CreateType
<1>2. CASE DelayJob(c) \/ PushRequest(c) \/ ReplayRemove(c)
  <2>1. cl[c].job \in Jobs
    BY <1>2, <1>b DEF DelayJob, PushRequest, ReplayRemove
  <2>2. RedisTypeOK'
    BY <1>2, <2>1, RedisCallType DEF DelayJob, PushRequest, ReplayRemove
  <2>3. BudgetTypeOK'
    BY <1>2, BudgetKept, FaultIsAllowed DEF DelayJob, PushRequest, ReplayRemove
  <2>4. ApiTypeOK'
    <3>1. CASE UNCHANGED <<cl, order, replays>>
      BY <3>1 DEF ApiTypeOK
    <3> QED
      BY <1>2, <1>c, <2>1, <3>1, CallType, EnqueuedType
         DEF DelayJob, PushRequest, ReplayRemove
  <2> QED
    BY <1>2, <2>2, <2>3, <2>4
       DEF DelayJob, PushRequest, ReplayRemove, StoresTypeOK, RedisTypeOK,
           BudgetTypeOK
<1>3. CASE ReplayCheck(c) \/ CancelCheck(c)
  <2>1. StoresTypeOK'
    BY <1>3 DEF ReplayCheck, CancelCheck, storeVars, StoresTypeOK
  <2>2. replays' \in 0 .. MaxReplays
    BY <1>3, <1>c, ApiAssumption DEF ReplayCheck, CancelCheck
  <2>3. \E pc \in {"replay", "cancel"}, j \in Jobs : Call(c, pc, j)
    BY <1>3 DEF ReplayCheck, CancelCheck
  <2> QED
    BY <2>1, <2>2, <2>3, CallType
<1>4. CASE ReplayReset(c)
  <2> DEFINE row == [jobs[cl[c].job] EXCEPT !.status = "pending", !.attempts = 0,
                                            !.error = ""]
  <2>1. cl[c].job \in Jobs
    BY <1>4, <1>b DEF ReplayReset
  <2>2. row \in JobRow
    <3>1. jobs[cl[c].job] \in JobRow
      BY <2>1 DEF StoresTypeOK
    <3> QED
      BY <3>1 DEF JobRow, Statuses
  <2>3. \/ WriteRow(cl[c].job, row) /\ NoFault
        \/ FailedWrite(cl[c].job, row)
    BY <1>4 DEF ReplayReset
  <2>4. StoresTypeOK'
    BY <1>4, <1>a, <2>1, <2>2, <2>3 DEF ReplayReset
  <2>5. ApiTypeOK'
    BY <1>4, <1>c, <2>1, CallType DEF ReplayReset
  <2> QED
    BY <2>4, <2>5
<1>5. CASE CancelJob(c)
  <2> DEFINE row == [jobs[cl[c].job] EXCEPT !.status = "failed",
                                            !.error = "cancelled by user"]
  <2>1. cl[c].job \in Jobs
    BY <1>5, <1>b DEF CancelJob
  <2>2. row \in JobRow
    <3>1. jobs[cl[c].job] \in JobRow
      BY <2>1 DEF StoresTypeOK
    <3> QED
      BY <3>1 DEF JobRow, Statuses
  <2>3. \/ WriteRow(cl[c].job, row) /\ NoFault
        \/ FailedWrite(cl[c].job, row)
    BY <1>5 DEF CancelJob
  <2>4. StoresTypeOK'
    BY <1>5, <1>a, <2>1, <2>2, <2>3 DEF CancelJob
  <2>5. ApiTypeOK'
    BY <1>5, <1>c, CallType DEF CancelJob
  <2> QED
    BY <2>4, <2>5
<1> QED
  BY <1>1, <1>2, <1>3, <1>4, <1>5 DEF ClientStep, ClientRequest

-----------------------------------------------------------------------------
(* Type correctness.                                                       *)

(* Every step keeps the types. *)
LEMMA NextTypeOK == TypeOK /\ [Next]_vars => TypeOK'
<1> SUFFICES ASSUME TypeOK, [Next]_vars PROVE TypeOK'
  OBVIOUS
<1>1. StoresTypeOK /\ WorkerTypeOK /\ SchedulerTypeOK /\ ApiTypeOK
  BY DEF TypeOK
<1>2. UNCHANGED workerVars => WorkerTypeOK'
  BY <1>1 DEF workerVars, WorkerTypeOK
<1>3. UNCHANGED schedulerVars => SchedulerTypeOK'
  BY <1>1 DEF schedulerVars, SchedulerTypeOK
<1>4. UNCHANGED apiVars => ApiTypeOK'
  BY <1>1 DEF apiVars, ApiTypeOK
<1>5. CASE Clock
  BY <1>1, <1>2, <1>3, <1>4, <1>5, ClockType DEF Clock, TypeOK, BecomeStuck
<1>6. CASE Server
  <2>1. CASE SchedulerStep /\ UNCHANGED <<workerVars, apiVars>>
    BY <1>1, <1>2, <1>4, <2>1, BatchType, ThreadStepType DEF SchedulerStep, TypeOK
  <2> QED
    BY <1>6, <2>1, ServerProcessType DEF Server
<1>7. CASE WorkersNext
  <2>1. CASE \E g \in Goroutines : GoroutineStep(g)
    BY <1>1, <1>3, <1>4, <1>7, <2>1, DequeueType, ProcessJobType
       DEF WorkersNext, GoroutineStep, TypeOK
  <2>2. CASE \E w \in Workers : WorkerProcess(w)
    BY <1>1, <1>3, <1>4, <1>7, <2>2, WorkerProcessType DEF WorkersNext, TypeOK
  <2> QED
    BY <1>7, <2>1, <2>2 DEF WorkersNext
<1>8. CASE ClientsNext
  BY <1>1, <1>2, <1>3, <1>8, ClientType DEF ClientsNext, TypeOK
<1>9. CASE UNCHANGED vars
  BY <1>1, <1>2, <1>3, <1>4, <1>9 DEF vars, storeVars, StoresTypeOK, TypeOK
<1> QED
  BY <1>5, <1>6, <1>7, <1>8, <1>9 DEF Next

(* The stores, the goroutines, the threads of the scheduler and the        *)
(* requests always have their types; in particular a thread holds a job    *)
(* exactly when its program counter says so, so the row that it writes and *)
(* the id that it pushes are those of a job.                               *)
THEOREM TypeCorrectness == Spec => []TypeOK
<1>1. TypeOK /\ [Next]_vars => TypeOK'
  BY NextTypeOK
<1> QED
  BY <1>1, InitTypeOK, PTL DEF Spec

-----------------------------------------------------------------------------
(* Routing.  A row, once it is there, stays and keeps its queue and its    *)
(* priority; so an id that was put where they said is still right.         *)

RowsKept ==
  \A j \in Jobs :
    Exists(j) => /\ jobs'[j].status # "absent"
                 /\ jobs'[j].queue = jobs[j].queue
                 /\ jobs'[j].priority = jobs[j].priority

(* A row that is written over another keeps what routing reads of it. *)
LEMMA WriteKeeps ==
  ASSUME RowsTypeOK, NEW j \in Jobs, NEW row,
         Exists(j) => /\ row.status # "absent"
                      /\ row.queue = jobs[j].queue
                      /\ row.priority = jobs[j].priority,
         WriteRow(j, row) \/ FailedWrite(j, row) \/ UNCHANGED jobs
  PROVE  RowsKept
  BY DEF RowsTypeOK, WriteRow, FailedWrite, RowsKept, Exists

(* The updates the handlers, the workers and the scheduler write are such. *)
LEMMA UpdatesKeep ==
  ASSUME RowsTypeOK, NEW j \in Jobs
  PROVE  /\ \A m : LET row == ResetRow(j, m) IN
                   /\ row.status # "absent"
                   /\ row.queue = jobs[j].queue
                   /\ row.priority = jobs[j].priority
         /\ \A g \in Goroutines, s \in Statuses \ {"absent"} :
              gor[g].job = j =>
                /\ FailedRow(g, s).status # "absent"
                /\ FailedRow(g, s).queue = jobs[j].queue
                /\ FailedRow(g, s).priority = jobs[j].priority
                /\ RunningRow(g).status # "absent"
                /\ RunningRow(g).queue = jobs[j].queue
                /\ RunningRow(g).priority = jobs[j].priority
<1>1. jobs[j] \in JobRow
  BY DEF RowsTypeOK
<1> QED
  BY <1>1 DEF ResetRow, FailedRow, RunningRow, JobRow, Statuses

(* Every step keeps the rows. *)
LEMMA NextKeepsRows ==
  ASSUME TypeOK, [Next]_vars PROVE RowsKept
<1>0. RowsTypeOK /\ WorkerTypeOK /\ SchedulerTypeOK /\ ApiTypeOK
  BY StoresParts DEF TypeOK
<1>1. ASSUME UNCHANGED jobs PROVE RowsKept
  BY <1>1 DEF RowsKept, Exists
<1>2. CASE Clock
  <2>1. PICK j \in Jobs : BecomeDue(j) \/ BecomeStuck(j)
    BY <1>2 DEF Clock
  <2>2. CASE BecomeDue(j)
    BY <1>1, <2>2 DEF BecomeDue
  <2>3. CASE BecomeStuck(j)
    <3>1. jobs[j] \in JobRow
      BY <1>0 DEF RowsTypeOK
    <3> QED
      BY <1>0, <2>3, <3>1, WriteKeeps DEF BecomeStuck, JobRow
  <2> QED
    BY <2>1, <2>2, <2>3
<1>3. CASE Server
  <2>1. CASE \E t \in Threads : ResetJob(t)
    <3>1. PICK t \in Threads : ResetJob(t)
      BY <2>1
    <3>2. PICK j \in sch[t].batch :
            \/ WriteRow(j, ResetRow(j, sch[t].mode))
            \/ FailedWrite(j, ResetRow(j, sch[t].mode))
      BY <3>1 DEF ResetJob
    <3>3. j \in Jobs
      BY <1>0 DEF SchedulerTypeOK, ThreadState
    <3> QED
      BY <1>0, <3>2, <3>3, UpdatesKeep, WriteKeeps
  <2> QED
    BY <1>1, <1>3, <2>1
       DEF Server, StopServer, StopScheduler, ExitServer, CrashServer, StartServer,
           SchedulerStep, ThreadStep, DelayedTick, RemoveDue, StuckTick, StartupScan,
           PushJob, storeVars
<1>4. CASE WorkersNext
  <2>1. CASE \E g \in Goroutines : MarkRunning(g) \/ CompleteJob(g) \/ FailJob(g)
    <3>1. PICK g \in Goroutines : MarkRunning(g) \/ CompleteJob(g) \/ FailJob(g)
      BY <2>1
    <3>2. gor[g].job \in Jobs
      BY <1>0, <3>1, HeldRows DEF MarkRunning, CompleteJob, FailJob
    <3>3. jobs[gor[g].job] \in JobRow
      BY <1>0, <3>2 DEF RowsTypeOK
    <3>4. CASE MarkRunning(g)
      BY <1>0, <3>2, <3>4, UpdatesKeep, WriteKeeps DEF MarkRunning, Statuses
    <3>5. CASE CompleteJob(g)
      BY <1>0, <3>2, <3>3, <3>5, WriteKeeps DEF CompleteJob, JobRow
    <3>6. CASE FailJob(g)
      BY <1>0, <3>2, <3>6, UpdatesKeep, WriteKeeps DEF FailJob, Statuses
    <3> QED
      BY <3>1, <3>4, <3>5, <3>6
  <2> QED
    BY <1>1, <1>4, <2>1
       DEF WorkersNext, WorkerProcess, StopWorker, WorkerStopped, CrashWorker,
           StartWorker, GoroutineStep, StopLoop, PollPriority, BlockingPop,
           PopTimeout, LoadJob, DelayRetry, BuryJob, storeVars
<1>5. CASE ClientsNext
  <2>1. PICK c \in Clients : ClientStep(c) \/ ClientRequest(c)
    BY <1>5 DEF ClientsNext
  <2>2. CASE CreateJob(c) \/ PlaceOrder(c) \/ ContinueOrder(c)
    <3>1. PICK j \in Jobs, r \in Requests :
            /\ ~Exists(j)
            /\ WriteRow(j, NewRow(r)) \/ FailedWrite(j, NewRow(r))
      BY <1>0, <2>2, CreateSteps DEF Create
    <3> QED
      BY <1>0, <3>1, WriteKeeps
  <2>3. CASE ReplayReset(c) \/ CancelJob(c)
    <3>1. cl[c].job \in Jobs
      BY <1>0, <2>3 DEF ReplayReset, CancelJob, ApiTypeOK, ClientState
    <3>2. jobs[cl[c].job] \in JobRow
      BY <1>0, <3>1 DEF RowsTypeOK
    <3>3. CASE ReplayReset(c)
      BY <1>0, <3>1, <3>2, <3>3, WriteKeeps DEF ReplayReset, JobRow
    <3>4. CASE CancelJob(c)
      BY <1>0, <3>1, <3>2, <3>4, WriteKeeps DEF CancelJob, JobRow
    <3> QED
      BY <2>3, <3>3, <3>4
  <2> QED
    BY <1>1, <2>1, <2>2, <2>3
       DEF ClientStep, ClientRequest, DelayJob, PushRequest, ReplayRemove,
           ReplayCheck, CancelCheck, storeVars
<1>6. CASE UNCHANGED vars
  BY <1>1, <1>6 DEF vars, storeVars
<1> QED
  BY <1>2, <1>3, <1>4, <1>5, <1>6 DEF Next

(* The part of RoutedIds that is about redis. *)
RoutedRedis ==
  /\ RoutedQueues
  /\ \A j \in Jobs : delayed[j] # "no" => Exists(j)

\* What the next state must say of an id that waits in queue q.
PlainNext(j, q) ==
  jobs'[j].status # "absent" /\ jobs'[j].queue = q /\ jobs'[j].priority <= 0

UrgentNext(j, q) ==
  jobs'[j].status # "absent" /\ jobs'[j].queue = q /\ jobs'[j].priority > 0

(* How routing of the next state is shown: place by place. *)
LEMMA RoutedNext ==
  ASSUME \A q \in Queues : \A i \in DOMAIN lists'[q] : PlainNext(lists'[q][i], q),
         \A q \in Queues : \A j \in prio'[q] : UrgentNext(j, q)
  PROVE  RoutedQueues'
  BY DEF RoutedQueues, Exists, PlainNext, UrgentNext

(* An id that is in a list or a sorted set, and stays, stays routed. *)
LEMMA StaysRouted ==
  ASSUME RedisTypeOK, RowsKept, RoutedQueues, NEW q \in Queues
  PROVE  /\ \A i \in DOMAIN lists[q] : PlainNext(lists[q][i], q)
         /\ \A j \in prio[q] : UrgentNext(j, q)
<1>1. ASSUME NEW i \in DOMAIN lists[q] PROVE PlainNext(lists[q][i], q)
  <2>1. lists[q][i] \in Jobs
    BY DEF RedisTypeOK
  <2> QED
    BY <2>1 DEF RoutedQueues, RowsKept, Exists, PlainNext
<1>2. ASSUME NEW j \in prio[q] PROVE UrgentNext(j, q)
  <2>1. j \in Jobs
    BY DEF RedisTypeOK
  <2> QED
    BY <2>1 DEF RoutedQueues, RowsKept, Exists, UrgentNext
<1> QED
  BY <1>1, <1>2

(* Pops and calls that touch no queue keep the queues routed. *)
LEMMA ShrinkingQueues ==
  ASSUME RedisTypeOK, RowsKept, RoutedQueues,
         \A q \in Queues : lists'[q] = lists[q] \/ (lists[q] # <<>> /\ lists'[q] = Tail(lists[q])),
         \A q \in Queues : prio'[q] \subseteq prio[q]
  PROVE  RoutedQueues'
<1>1. ASSUME NEW q \in Queues, NEW i \in DOMAIN lists'[q]
      PROVE  PlainNext(lists'[q][i], q)
  <2>0. lists[q] \in Seq(Jobs)
    BY DEF RedisTypeOK
  <2>1. PICK k \in DOMAIN lists[q] : lists'[q][i] = lists[q][k]
    <3>1. CASE lists'[q] = lists[q]
      BY <1>1, <3>1
    <3>2. CASE lists[q] # <<>> /\ lists'[q] = Tail(lists[q])
      <4>1. i + 1 \in DOMAIN lists[q] /\ lists'[q][i] = lists[q][i + 1]
        BY <1>1, <2>0, <3>2
      <4> QED
        BY <4>1
    <3> QED
      BY <3>1, <3>2
  <2> QED
    BY <2>1, StaysRouted
<1>2. ASSUME NEW q \in Queues, NEW j \in prio'[q] PROVE UrgentNext(j, q)
  BY <1>2, StaysRouted
<1> QED
  BY <1>1, <1>2, RoutedNext

(* A push puts the id of an existing row where the row says.               *)
LEMMA PushIsRouted ==
  ASSUME RowsTypeOK, RedisTypeOK, RowsKept, RoutedRedis,
         NEW j \in Jobs, Exists(j), PushToRedis(j)
  PROVE  RoutedRedis'
<1> DEFINE home == jobs[j].queue
<1>1. home \in Queues /\ jobs[j].priority \in Int
  BY DEF RowsTypeOK, JobRow
<1>2. /\ jobs'[j].status # "absent" /\ jobs'[j].queue = home
      /\ jobs'[j].priority = jobs[j].priority
  BY DEF RowsKept
<1>3. \A k \in Jobs : delayed'[k] # "no" => Exists(k)'
  BY DEF PushToRedis, Enqueue, EnqueuePriority, RoutedRedis, RowsKept, Exists
<1>4. CASE jobs[j].priority > 0 /\ EnqueuePriority(home, j)
  <2>1. lists' = lists /\ prio' = [prio EXCEPT ![home] = @ \cup {j}]
    BY <1>4 DEF EnqueuePriority
  <2>2. ASSUME NEW q \in Queues, NEW k \in prio'[q] PROVE UrgentNext(k, q)
    <3>1. CASE k \in prio[q]
      BY <3>1, StaysRouted DEF RoutedRedis
    <3>2. CASE k \notin prio[q]
      <4>1. q = home /\ k = j
        BY <1>1, <2>1, <2>2, <3>2 DEF RedisTypeOK
      <4> QED
        BY <1>2, <1>4, <4>1 DEF UrgentNext
    <3> QED
      BY <3>1, <3>2
  <2>3. RoutedQueues'
    BY <2>1, <2>2, StaysRouted, RoutedNext DEF RoutedRedis
  <2> QED
    BY <1>3, <2>3 DEF RoutedRedis
<1>5. CASE jobs[j].priority <= 0 /\ Enqueue(home, j)
  <2>1. prio' = prio /\ lists' = [lists EXCEPT ![home] = Append(@, j)]
    BY <1>5 DEF Enqueue
  <2>2. ASSUME NEW q \in Queues, NEW i \in DOMAIN lists'[q]
        PROVE  PlainNext(lists'[q][i], q)
    <3>0. lists[q] \in Seq(Jobs)
      BY DEF RedisTypeOK
    <3>1. CASE i \in DOMAIN lists[q]
      <4>1. lists'[q][i] = lists[q][i]
        BY <1>1, <2>1, <3>0, <3>1 DEF RedisTypeOK
      <4> QED
        BY <3>1, <4>1, StaysRouted DEF RoutedRedis
    <3>2. CASE i \notin DOMAIN lists[q]
      <4>1. q = home /\ lists'[q] = Append(lists[q], j)
        BY <1>1, <2>1, <2>2, <3>2 DEF RedisTypeOK
      <4>2. lists'[q][i] = j
        BY <2>2, <3>0, <3>2, <4>1
      <4> QED
        BY <1>2, <1>5, <4>1, <4>2 DEF PlainNext
    <3> QED
      BY <3>1, <3>2
  <2>3. RoutedQueues'
    BY <2>1, <2>2, StaysRouted, RoutedNext DEF RoutedRedis
  <2> QED
    BY <1>3, <2>3 DEF RoutedRedis
<1> QED
  BY <1>4, <1>5 DEF PushToRedis

(* Every other redis call of a thread that has an existing job.            *)
LEMMA RedisCallIsRouted ==
  ASSUME RowsTypeOK, RedisTypeOK, RowsKept, RoutedRedis,
         NEW j \in Jobs, Exists(j),
         \/ UNCHANGED redisVars
         \/ PushToRedis(j)
         \/ EnqueueDelayed(j)
         \/ EnqueueDead(j)
         \/ RemoveFromDead(j)
  PROVE  RoutedRedis'
<1>1. CASE PushToRedis(j)
  BY <1>1, PushIsRouted
<1>2. CASE ~PushToRedis(j)
  <2>1. lists' = lists /\ prio' = prio
    BY <1>2 DEF redisVars, EnqueueDelayed, EnqueueDead, RemoveFromDead
  <2>2. RoutedQueues'
    BY <2>1, ShrinkingQueues DEF RoutedRedis
  <2>3. \A k \in Jobs : delayed'[k] # "no" => delayed[k] # "no" \/ k = j
    BY <1>2 DEF redisVars, EnqueueDelayed, EnqueueDead, RemoveFromDead, RedisTypeOK
  <2> QED
    BY <2>2, <2>3 DEF RoutedRedis, RowsKept, Exists
<1> QED
  BY <1>1, <1>2

-----------------------------------------------------------------------------
(* The ids that threads hold.                                              *)

RoutedGoroutines ==
  \A g \in Goroutines : gor[g].job # NoJob => Exists(gor[g].job)

RoutedScheduler ==
  \A t \in Threads :
    /\ \A j \in sch[t].batch : Exists(j)
    /\ sch[t].job # NoJob => Exists(sch[t].job)

RoutedClients ==
  \A c \in Clients : cl[c].job # NoJob => Exists(cl[c].job)

(* The four parts of RoutedIds. *)
LEMMA RoutedParts ==
  RoutedIds <=> RoutedRedis /\ RoutedGoroutines /\ RoutedScheduler /\ RoutedClients
  BY DEF RoutedIds, RoutedThreads, RoutedRedis, RoutedGoroutines, RoutedScheduler,
         RoutedClients

(* The same of the next state. *)
LEMMA RoutedPartsNext ==
  RoutedIds' <=>
    RoutedRedis' /\ RoutedGoroutines' /\ RoutedScheduler' /\ RoutedClients'
  BY DEF RoutedIds, RoutedThreads, RoutedRedis, RoutedGoroutines, RoutedScheduler,
         RoutedClients

(* A goroutine that keeps its job or drops it keeps one that has a row. *)
LEMMA GoroutinesKeep ==
  ASSUME WorkerTypeOK, RowsKept, RoutedGoroutines,
         \A g \in Goroutines : gor'[g].job \in {NoJob, gor[g].job}
  PROVE  RoutedGoroutines'
<1> SUFFICES ASSUME NEW g \in Goroutines, gor'[g].job # NoJob
             PROVE  jobs'[gor'[g].job].status # "absent"
  BY DEF RoutedGoroutines, Exists
<1>1. gor'[g].job = gor[g].job /\ gor[g].job \in Jobs
  BY DEF WorkerTypeOK, GoroutineState
<1> QED
  BY <1>1 DEF RoutedGoroutines, RowsKept, Exists

(* So does one that has popped the id of a row. *)
LEMMA PoppedIsRouted ==
  ASSUME WorkerTypeOK, RowsKept, RoutedGoroutines, NEW g \in Goroutines,
         NEW j \in Jobs, Exists(j), Go(g, At("load", 1, j, 0))
  PROVE  RoutedGoroutines'
<1> SUFFICES ASSUME NEW h \in Goroutines, gor'[h].job # NoJob
             PROVE  jobs'[gor'[h].job].status # "absent"
  BY DEF RoutedGoroutines, Exists
<1>1. CASE h = g
  <2>1. gor'[h].job = j
    BY <1>1 DEF WorkerTypeOK, Go, At
  <2> QED
    BY <2>1 DEF RowsKept
<1>2. CASE h # g
  <2>1. gor'[h] = gor[h] /\ gor[h].job \in Jobs
    BY <1>2 DEF WorkerTypeOK, GoroutineState, Go
  <2> QED
    BY <2>1 DEF RoutedGoroutines, RowsKept, Exists
<1> QED
  BY <1>1, <1>2

(* A thread of the scheduler that goes on with rows that exist. *)
LEMMA SchedulerKeeps ==
  ASSUME SchedulerTypeOK, RowsKept, RoutedScheduler,
         \A t \in Threads :
           /\ \A j \in sch'[t].batch : j \in Jobs /\ Exists(j)
           /\ sch'[t].job \in sch[t].batch \cup {NoJob, sch[t].job}
  PROVE  RoutedScheduler'
<1> SUFFICES ASSUME NEW t \in Threads
             PROVE  /\ \A j \in sch'[t].batch : jobs'[j].status # "absent"
                    /\ sch'[t].job # NoJob => jobs'[sch'[t].job].status # "absent"
  BY DEF RoutedScheduler, Exists
<1>1. \A j \in sch'[t].batch : jobs'[j].status # "absent"
  BY DEF RowsKept
<1>2. ASSUME sch'[t].job # NoJob PROVE jobs'[sch'[t].job].status # "absent"
  <2>1. sch'[t].job \in Jobs /\ jobs[sch'[t].job].status # "absent"
    BY <1>2 DEF SchedulerTypeOK, ThreadState, RoutedScheduler, Exists
  <2> QED
    BY <2>1 DEF RowsKept, Exists
<1> QED
  BY <1>1, <1>2

(* A client that keeps its job, drops it, or takes one that has a row. *)
LEMMA ClientsKeep ==
  ASSUME ApiTypeOK, RowsKept, RoutedClients,
         \A c \in Clients :
           \/ cl'[c].job \in {NoJob, cl[c].job}
           \/ cl'[c].job \in Jobs /\ jobs'[cl'[c].job].status # "absent"
  PROVE  RoutedClients'
<1> SUFFICES ASSUME NEW c \in Clients, cl'[c].job # NoJob
             PROVE  jobs'[cl'[c].job].status # "absent"
  BY DEF RoutedClients, Exists
<1>1. CASE cl'[c].job = cl[c].job
  <2>1. cl[c].job \in Jobs
    BY <1>1 DEF ApiTypeOK, ClientState
  <2> QED
    BY <1>1, <2>1 DEF RoutedClients, RowsKept, Exists
<1> QED
  BY <1>1

(* The steps of the worker processes. *)
LEMMA WorkersRouted ==
  ASSUME TypeOK, RowsKept, RoutedIds, WorkersNext
  PROVE  RoutedRedis' /\ RoutedGoroutines'
<1>0. /\ RowsTypeOK /\ RedisTypeOK /\ WorkerTypeOK
      /\ RoutedRedis /\ RoutedGoroutines
  BY StoresParts, RoutedParts DEF TypeOK
<1>a. ASSUME UNCHANGED redisVars PROVE RoutedRedis'
  BY <1>0, <1>a, ShrinkingQueues DEF redisVars, RoutedRedis, RowsKept, Exists
<1>b. ASSUME NEW g \in Goroutines, NEW state \in {LoopTop, Exited}, Go(g, state)
      PROVE  RoutedGoroutines'
  BY <1>0, <1>b, IdleStates, GoroutinesKeep DEF Go, WorkerTypeOK
<1>c. ASSUME NEW g \in Goroutines, NEW pc, Go(g, [gor[g] EXCEPT !.pc = pc])
      PROVE  RoutedGoroutines'
  BY <1>0, <1>c, GoroutinesKeep DEF Go, WorkerTypeOK, GoroutineState
<1>1. CASE \E w \in Workers : WorkerProcess(w)
  <2>1. UNCHANGED redisVars
    BY <1>1 DEF WorkerProcess, StopWorker, WorkerStopped, CrashWorker, StartWorker,
                storeVars, redisVars
  <2>2. \A g \in Goroutines : gor'[g].job \in {NoJob, gor[g].job}
    BY <1>1, IdleStates
       DEF WorkerProcess, StopWorker, WorkerStopped, CrashWorker, StartWorker, ExitAll
  <2> QED
    BY <1>0, <1>a, <2>1, <2>2, GoroutinesKeep
<1>2. ASSUME NEW g \in Goroutines, StopLoop(g) \/ PopTimeout(g)
      PROVE  RoutedRedis' /\ RoutedGoroutines'
  BY <1>2, <1>a, <1>b DEF StopLoop, PopTimeout, storeVars, redisVars
<1>3. ASSUME NEW g \in Goroutines, PollPriority(g)
      PROVE  RoutedRedis' /\ RoutedGoroutines'
  <2> DEFINE q == WorkerQueues[gor[g].idx]
  <2>1. q \in Queues
    BY <1>0, WorkerAssumption DEF WorkerTypeOK
  <2> HIDE DEF q
  <2>2. \A k \in Queues : prio'[k] \subseteq prio[k]
    BY <1>0, <1>3, <2>1 DEF PollPriority, RedisTypeOK, q
  <2>3. RoutedRedis'
    BY <1>0, <1>3, <2>2, ShrinkingQueues DEF PollPriority, RoutedRedis, RowsKept, Exists
  <2>4. ASSUME NextQueue(g) PROVE RoutedGoroutines'
    BY <1>0, <2>4, GoroutinesKeep DEF NextQueue, Go, At, WorkerTypeOK
  <2>5. ASSUME NEW j \in HighestPriority(q), Go(g, At("load", 1, j, 0))
        PROVE  RoutedGoroutines'
    <3>1. j \in Jobs /\ Exists(j)
      BY <1>0, <2>1 DEF HighestPriority, RedisTypeOK, RoutedRedis, RoutedQueues
    <3> QED
      BY <1>0, <2>5, <3>1, PoppedIsRouted
  <2> QED
    BY <1>3, <2>3, <2>4, <2>5 DEF PollPriority, q
<1>4. ASSUME NEW g \in Goroutines, BlockingPop(g)
      PROVE  RoutedRedis' /\ RoutedGoroutines'
  <2>1. PICK i \in DOMAIN WorkerQueues :
          /\ FirstNonEmpty(i)
          /\ lists' = [lists EXCEPT ![WorkerQueues[i]] = Tail(@)]
          /\ \/ Go(g, At("load", 1, Head(lists[WorkerQueues[i]]), 0))
             \/ Go(g, LoopTop)
    BY <1>4 DEF BlockingPop
  <2> DEFINE q == WorkerQueues[i]
  <2>2. q \in Queues
    BY WorkerAssumption
  <2>3. lists[q] \in Seq(Jobs) /\ lists[q] # <<>>
    BY <1>0, <2>1, <2>2 DEF FirstNonEmpty, RedisTypeOK
  <2>4. 1 \in DOMAIN lists[q] /\ Head(lists[q]) = lists[q][1] /\ lists[q][1] \in Jobs
    BY <2>3
  <2>5. Exists(Head(lists[q]))
    BY <1>0, <2>2, <2>4 DEF RoutedRedis, RoutedQueues
  <2>6. \A k \in Queues : \/ lists'[k] = lists[k]
                          \/ lists[k] # <<>> /\ lists'[k] = Tail(lists[k])
    BY <1>0, <2>1, <2>2, <2>3 DEF RedisTypeOK
  <2>7. RoutedRedis'
    BY <1>0, <1>4, <2>6, ShrinkingQueues DEF BlockingPop, RoutedRedis, RowsKept, Exists
  <2>8. CASE Go(g, LoopTop)
    BY <1>b, <2>7, <2>8
  <2>9. CASE Go(g, At("load", 1, Head(lists[q]), 0))
    BY <1>0, <2>4, <2>5, <2>7, <2>9, PoppedIsRouted
  <2> QED
    BY <2>1, <2>8, <2>9
<1>5. ASSUME NEW g \in Goroutines,
             LoadJob(g) \/ MarkRunning(g) \/ CompleteJob(g) \/ FailJob(g)
      PROVE  RoutedRedis' /\ RoutedGoroutines'
  <2>1. RoutedRedis'
    BY <1>5, <1>a DEF LoadJob, MarkRunning, CompleteJob, FailJob
  <2>2. CASE LoadJob(g)
    BY <1>0, <1>b, <2>1, <2>2, GoroutinesKeep DEF LoadJob, Go, At, WorkerTypeOK
  <2>3. CASE MarkRunning(g) \/ CompleteJob(g) \/ FailJob(g)
    BY <1>b, <1>c, <2>1, <2>3 DEF MarkRunning, CompleteJob, FailJob
  <2> QED
    BY <1>5, <2>2, <2>3
<1>6. ASSUME NEW g \in Goroutines, DelayRetry(g) \/ BuryJob(g)
      PROVE  RoutedRedis' /\ RoutedGoroutines'
  <2>1. gor[g].job \in Jobs /\ Exists(gor[g].job)
    BY <1>0, <1>6, HeldRows, StoresAssumption DEF DelayRetry, BuryJob, RoutedGoroutines
  <2>2. RoutedRedis'
    BY <1>0, <1>6, <2>1, RedisCallIsRouted DEF DelayRetry, BuryJob
  <2>3. CASE UNCHANGED gor
    BY <1>0, <2>2, <2>3, GoroutinesKeep
  <2> QED
    BY <1>6, <1>b, <2>2, <2>3 DEF DelayRetry, BuryJob
<1> QED
  BY <1>1, <1>2, <1>3, <1>4, <1>5, <1>6 DEF WorkersNext, GoroutineStep

(* The steps of the server and of the scheduler. *)
LEMMA ServerRouted ==
  ASSUME TypeOK, RowsKept, RoutedIds, Server
  PROVE  RoutedRedis' /\ RoutedScheduler' /\ RoutedClients'
<1>0. /\ RowsTypeOK /\ RedisTypeOK /\ SchedulerTypeOK /\ ApiTypeOK
      /\ RoutedRedis /\ RoutedScheduler /\ RoutedClients
  BY StoresParts, RoutedParts DEF TypeOK
<1>a. ASSUME UNCHANGED redisVars PROVE RoutedRedis'
  BY <1>0, <1>a, ShrinkingQueues DEF redisVars, RoutedRedis, RowsKept, Exists
<1>b. RoutedClients'
  <2>1. \A c \in Clients : cl'[c].job \in {NoJob, cl[c].job}
    BY <1>0 DEF Server, StopServer, StopScheduler, ExitServer, CrashServer, StartServer,
                apiVars, NoRequest, Request
  <2> QED
    BY <1>0, <2>1, ClientsKeep
<1>c. \A t \in Threads : sch[t].batch \in SUBSET Jobs /\ \A j \in sch[t].batch : Exists(j)
  BY <1>0 DEF SchedulerTypeOK, ThreadState, RoutedScheduler
<1>d. "loop" \in Threads /\ "startup" \in Threads
  BY DEF Threads
\* A thread that becomes a state with fewer jobs, or with other existing ones.
<1>e. ASSUME NEW t \in Threads, NEW state, Become(t, state),
             \A j \in state.batch : j \in Jobs /\ Exists(j),
             state.job \in sch[t].batch \cup {NoJob, sch[t].job}
      PROVE  RoutedScheduler'
  <2>1. \A u \in Threads :
          /\ \A j \in sch'[u].batch : j \in Jobs /\ Exists(j)
          /\ sch'[u].job \in sch[u].batch \cup {NoJob, sch[u].job}
    BY <1>0, <1>c, <1>e DEF Become, SchedulerTypeOK
  <2> QED
    BY <1>0, <2>1, SchedulerKeeps
<1>f. ASSUME NEW t \in Threads, NEW m, NEW batch,
             \A j \in batch : j \in Jobs /\ Exists(j), Continue(t, m, batch)
      PROVE  RoutedScheduler'
  BY <1>e, <1>f DEF Continue, Thread, Idle, ThreadExited
<1>1. CASE StopServer \/ StopScheduler \/ ExitServer \/ CrashServer \/ StartServer
  <2>1. UNCHANGED redisVars
    BY <1>1 DEF StopServer, StopScheduler, ExitServer, CrashServer, StartServer,
                storeVars, redisVars
  <2>2. CASE StopScheduler
    BY <1>a, <1>b, <1>d, <1>e, <2>1, <2>2 DEF StopScheduler, ThreadExited, Thread
  <2>3. CASE StopServer \/ ExitServer \/ CrashServer \/ StartServer
    <3>1. \A t \in Threads :
            /\ \A j \in sch'[t].batch : j \in Jobs /\ Exists(j)
            /\ sch'[t].job \in sch[t].batch \cup {NoJob, sch[t].job}
      BY <1>c, <2>3
         DEF StopServer, ExitServer, CrashServer, StartServer, Idle, Scan,
             ThreadExited, Thread
    <3> QED
      BY <1>0, <1>a, <1>b, <2>1, <3>1, SchedulerKeeps
  <2> QED
    BY <1>1, <2>2, <2>3
<1>2. CASE DelayedTick
  <2>1. \A j \in DueJobs : j \in Jobs /\ Exists(j)
    BY <1>0 DEF DueJobs, RoutedRedis
  <2>2. RoutedScheduler'
    BY <1>2, <1>d, <1>e, <2>1 DEF DelayedTick, Thread
  <2> QED
    BY <1>2, <1>a, <1>b, <2>2 DEF DelayedTick, storeVars, redisVars
<1>3. CASE RemoveDue
  <2>1. RoutedScheduler'
    BY <1>3, <1>c, <1>d, <1>e DEF RemoveDue, Thread
  <2>2. RoutedQueues'
    BY <1>0, <1>3, ShrinkingQueues DEF RemoveDue, RoutedRedis
  <2>3. \A j \in Jobs : delayed'[j] # "no" => delayed[j] # "no"
    BY <1>3 DEF RemoveDue
  <2> QED
    BY <1>0, <1>b, <2>1, <2>2, <2>3 DEF RoutedRedis, RowsKept, Exists
<1>4. CASE StuckTick \/ StartupScan
  <2>1. \A j \in StuckJobs : j \in Jobs /\ Exists(j)
    BY DEF StuckJobs, Exists
  <2>2. CASE StuckTick
    BY <1>a, <1>b, <1>d, <1>e, <2>1, <2>2 DEF StuckTick, Thread
  <2>3. CASE StartupScan
    <3>1. CASE Continue("startup", "recover", StuckJobs)
      BY <1>a, <1>b, <1>d, <1>f, <2>1, <2>3, <3>1 DEF StartupScan
    <3>2. CASE Become("startup", ThreadExited)
      BY <1>a, <1>b, <1>d, <1>e, <2>3, <3>2 DEF StartupScan, ThreadExited, Thread
    <3> QED
      BY <2>3, <3>1, <3>2 DEF StartupScan
  <2> QED
    BY <1>4, <2>2, <2>3
<1>5. ASSUME NEW t \in Threads, ResetJob(t)
      PROVE  RoutedRedis' /\ RoutedScheduler' /\ RoutedClients'
  <2>1. PICK j \in sch[t].batch :
          \/ Become(t, Thread("push", sch[t].mode, sch[t].batch \ {j}, j))
          \/ Continue(t, sch[t].mode, sch[t].batch \ {j})
    BY <1>5 DEF ResetJob
  <2>2. CASE Become(t, Thread("push", sch[t].mode, sch[t].batch \ {j}, j))
    BY <1>5, <1>a, <1>b, <1>c, <1>e, <2>2 DEF ResetJob, Thread
  <2>3. CASE Continue(t, sch[t].mode, sch[t].batch \ {j})
    BY <1>5, <1>a, <1>b, <1>c, <1>f, <2>3 DEF ResetJob
  <2> QED
    BY <2>1, <2>2, <2>3
<1>6. ASSUME NEW t \in Threads, PushJob(t)
      PROVE  RoutedRedis' /\ RoutedScheduler' /\ RoutedClients'
  <2>1. sch[t].job \in Jobs /\ Exists(sch[t].job)
    BY <1>0, <1>6, StoresAssumption
       DEF PushJob, SchedulerTypeOK, ThreadState, RoutedScheduler
  <2>2. RoutedRedis'
    BY <1>0, <1>6, <2>1, RedisCallIsRouted DEF PushJob
  <2>3. CASE UNCHANGED sch
    BY <1>0, <1>b, <1>c, <2>2, <2>3, SchedulerKeeps
  <2> QED
    BY <1>6, <1>b, <1>c, <1>f, <2>2, <2>3 DEF PushJob
<1> QED
  BY <1>1, <1>2, <1>3, <1>4, <1>5, <1>6 DEF Server, SchedulerStep, ThreadStep

(* The steps of the clients. *)
LEMMA ClientsRouted ==
  ASSUME TypeOK, RowsKept, RoutedIds, ClientsNext
  PROVE  RoutedRedis' /\ RoutedClients'
<1>0. /\ RowsTypeOK /\ RedisTypeOK /\ ApiTypeOK /\ RoutedRedis /\ RoutedClients
  BY StoresParts, RoutedParts DEF TypeOK
<1>a. ASSUME UNCHANGED redisVars PROVE RoutedRedis'
  BY <1>0, <1>a, ShrinkingQueues DEF redisVars, RoutedRedis, RowsKept, Exists
<1>1. PICK c \in Clients : ClientStep(c) \/ ClientRequest(c)
  BY DEF ClientsNext
<1>b. ASSUME \/ Respond(c)
             \/ \E pc, j : /\ cl' = [cl EXCEPT ![c] = Request(pc, j)]
                           /\ j = cl[c].job \/ (j \in Jobs /\ jobs'[j].status # "absent")
      PROVE  RoutedClients'
  <2>1. \A d \in Clients :
          \/ cl'[d].job \in {NoJob, cl[d].job}
          \/ cl'[d].job \in Jobs /\ jobs'[cl'[d].job].status # "absent"
    BY <1>0, <1>b DEF Respond, Call, Request, NoRequest, ApiTypeOK
  <2> QED
    BY <1>0, <2>1, ClientsKeep
<1>2. CASE CreateJob(c) \/ PlaceOrder(c) \/ ContinueOrder(c)
  <2>1. RoutedRedis'
    BY <1>0, <1>2, <1>a, CreateSteps
  <2>2. PICK j \in Jobs, r \in Requests :
          \/ /\ WriteRow(j, NewRow(r))
             /\ \E pc : cl' = [cl EXCEPT ![c] = Request(pc, j)]
          \/ Respond(c)
    BY <1>0, <1>2, CreateSteps DEF Create
  <2>3. CASE Respond(c)
    BY <1>b, <2>1, <2>3
  <2>4. CASE /\ WriteRow(j, NewRow(r))
             /\ \E pc : cl' = [cl EXCEPT ![c] = Request(pc, j)]
    <3>1. jobs'[j].status = "pending"
      BY <1>0, <2>4 DEF WriteRow, NewRow, NoRow, RowsTypeOK
    <3> QED
      BY <1>b, <2>1, <2>4, <3>1
  <2> QED
    BY <2>2, <2>3, <2>4
<1>3. CASE DelayJob(c) \/ PushRequest(c) \/ ReplayRemove(c)
  <2>1. cl[c].job \in Jobs /\ Exists(cl[c].job)
    BY <1>0, <1>3, StoresAssumption
       DEF DelayJob, PushRequest, ReplayRemove, ApiTypeOK, ClientState, RoutedClients
  <2>2. RoutedRedis'
    BY <1>0, <1>3, <2>1, RedisCallIsRouted DEF DelayJob, PushRequest, ReplayRemove
  <2>3. RoutedClients'
    <3>1. CASE UNCHANGED cl
      BY <1>0, <3>1, ClientsKeep
    <3>2. CASE ReplayRemove(c)
      BY <1>b, <3>2 DEF ReplayRemove, Call
    <3>3. CASE Enqueued(c) \/ Respond(c)
      <4>1. Respond(c) \/ cl' = [cl EXCEPT ![c] = Request("create", NoJob)]
        BY <3>3 DEF Enqueued
      <4>2. \A d \in Clients : cl'[d].job \in {NoJob, cl[d].job}
        BY <1>0, <4>1 DEF Respond, Request, NoRequest, ApiTypeOK
      <4> QED
        BY <1>0, <4>2, ClientsKeep
    <3> QED
      BY <1>3, <3>1, <3>2, <3>3 DEF DelayJob, PushRequest
  <2> QED
    BY <2>2, <2>3
<1>4. CASE ReplayReset(c) \/ CancelJob(c)
  BY <1>4, <1>a, <1>b DEF ReplayReset, CancelJob, Call
<1>5. CASE ReplayCheck(c) \/ CancelCheck(c)
  <2>1. UNCHANGED <<jobs, redisVars>>
    BY <1>5 DEF ReplayCheck, CancelCheck, storeVars, redisVars
  <2>2. \E pc, j : /\ cl' = [cl EXCEPT ![c] = Request(pc, j)]
                   /\ j \in Jobs /\ jobs'[j].status # "absent"
    BY <1>5, <2>1 DEF ReplayCheck, CancelCheck, Call
  <2> QED
    BY <1>a, <1>b, <2>1, <2>2
<1> QED
  BY <1>1, <1>2, <1>3, <1>4, <1>5 DEF ClientStep, ClientRequest

(* Every step keeps every id routed. *)
LEMMA NextRouted == TypeOK /\ RoutedIds /\ [Next]_vars => RoutedIds'
<1> SUFFICES ASSUME TypeOK, RoutedIds, [Next]_vars PROVE RoutedIds'
  OBVIOUS
<1>0. /\ RowsKept
      /\ RedisTypeOK /\ WorkerTypeOK /\ SchedulerTypeOK /\ ApiTypeOK
      /\ RoutedRedis /\ RoutedGoroutines /\ RoutedScheduler /\ RoutedClients
  BY NextKeepsRows, StoresParts, RoutedParts DEF TypeOK
<1>1. UNCHANGED workerVars => RoutedGoroutines'
  BY <1>0, GoroutinesKeep DEF workerVars
<1>2. UNCHANGED schedulerVars => RoutedScheduler'
  BY <1>0, SchedulerKeeps DEF schedulerVars, SchedulerTypeOK, ThreadState,
                              RoutedScheduler
<1>3. UNCHANGED apiVars => RoutedClients'
  BY <1>0, ClientsKeep DEF apiVars
<1>4. UNCHANGED redisVars => RoutedRedis'
  BY <1>0, ShrinkingQueues DEF redisVars, RoutedRedis, RowsKept, Exists
<1>5. CASE Clock
  <2>1. PICK j \in Jobs :
          \/ BecomeDue(j) /\ UNCHANGED <<workerVars, schedulerVars, apiVars>>
          \/ BecomeStuck(j)
    BY <1>5 DEF Clock
  <2>2. CASE BecomeDue(j)
    <3>1. RoutedQueues'
      BY <1>0, <2>2, ShrinkingQueues DEF BecomeDue, RoutedRedis
    <3>2. \A k \in Jobs : delayed'[k] # "no" => delayed[k] # "no"
      BY <1>0, <2>2 DEF BecomeDue, RedisTypeOK
    <3>3. RoutedRedis'
      BY <1>0, <3>1, <3>2 DEF RoutedRedis, RowsKept, Exists
    <3> QED
      BY <1>1, <1>2, <1>3, <2>1, <2>2, <3>3, RoutedPartsNext DEF BecomeStuck
  <2>3. CASE BecomeStuck(j)
    BY <1>1, <1>2, <1>3, <1>4, <2>3, RoutedPartsNext DEF BecomeStuck
  <2> QED
    BY <2>1, <2>2, <2>3
<1>6. CASE Server
  <2>1. UNCHANGED workerVars
    BY <1>6 DEF Server, StopServer, StopScheduler, ExitServer, CrashServer, StartServer
  <2> QED
    BY <1>1, <1>6, <2>1, ServerRouted, <1>0, RoutedPartsNext
<1>7. CASE WorkersNext
  BY <1>0, <1>2, <1>3, <1>7, WorkersRouted, RoutedPartsNext DEF WorkersNext
<1>8. CASE ClientsNext
  <2>1. UNCHANGED <<workerVars, schedulerVars>>
    BY <1>8 DEF ClientsNext
  <2> QED
    BY <1>0, <1>1, <1>2, <1>8, <2>1, ClientsRouted, RoutedPartsNext
<1>9. CASE UNCHANGED vars
  BY <1>1, <1>2, <1>3, <1>4, <1>9, RoutedPartsNext DEF vars, storeVars, redisVars
<1> QED
  BY <1>5, <1>6, <1>7, <1>8, <1>9 DEF Next

(* Every id in redis or in a thread has a row, and every id that waits in  *)
(* a list or in a sorted set waits where the queue and the priority of its *)
(* row say: so GetJob of a worker and of the scheduler never misses, and   *)
(* no job is put where no worker of its queue looks.                       *)
THEOREM IdsAreRouted == Spec => []RoutedIds
<1>1. Init => RoutedIds
  <2> SUFFICES ASSUME Init PROVE RoutedIds
    OBVIOUS
  <2>1. RoutedQueues
    BY DEF Init, StoresInit, RoutedQueues
  <2>2. RoutedThreads
    BY DEF Init, StoresInit, WorkerInit, SchedulerInit, ApiInit, RoutedThreads,
           LoopTop, At, Idle, Scan, Thread, NoRequest, Request
  <2> QED
    BY <2>1, <2>2 DEF RoutedIds
<1>2. TypeOK /\ RoutedIds /\ [Next]_vars => RoutedIds'
  BY NextRouted
<1> QED
  BY <1>1, <1>2, TypeCorrectness, PTL DEF Spec
=============================================================================
