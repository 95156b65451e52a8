---------------------------- MODULE OutcomeProofs ----------------------------
(***************************************************************************)
(* What the rows say of the jobs, for every value of the constants: that a *)
(* job which runs is recorded, that its attempts stay within their limit,  *)
(* and that every row goes through its statuses the way JobLifecycle says. *)
(* All of it rests on the invariant Delivered of DeliveryProofs: only one  *)
(* thread at a time has the job, so nobody writes the row between the read *)
(* of a thread and its write but a cancellation.                           *)
(***************************************************************************)
EXTENDS DeliveryProofs

-----------------------------------------------------------------------------
(* The steps that write the row of job j, and what they write.             *)

Unmoved(j) ==
  /\ jobs'[j].status = jobs[j].status
  /\ jobs'[j].attempts = jobs[j].attempts
  /\ jobs'[j].max_attempts = jobs[j].max_attempts
  /\ jobs'[j].worker_id = jobs[j].worker_id

\* CreateJob: the request that made the row has its id, unless it has failed.
Created(j) ==
  /\ ~Exists(j)
  /\ (\E c \in Clients : HoldsClient(c, j)') \/ Fault("db_error")
  /\ \E r \in Requests : jobs'[j] = NewRow(r)

\* UpdateJobStatus(running) of processJob: the handler runs, unless the write
\* has failed.
Marked(g, j) ==
  /\ HoldsGoroutine(g, j) /\ gor[g].pc = "mark"
  /\ (gor'[g].pc = "exec" /\ gor'[g].job = j) \/ Fault("db_error")
  /\ jobs'[j].status = "running"
  /\ jobs'[j].attempts = jobs[j].attempts
  /\ jobs'[j].max_attempts = jobs[j].max_attempts
  /\ jobs'[j].worker_id = g[1]

\* UpdateJobStatus(completed) of processJob.
Finished(g, j) ==
  /\ HoldsGoroutine(g, j) /\ gor[g].pc = "exec" /\ gor'[g].pc = "poll"
  /\ jobs'[j].status = "completed"
  /\ jobs'[j].attempts = jobs[j].attempts
  /\ jobs'[j].max_attempts = jobs[j].max_attempts

\* UpdateJobStatus of ScheduleRetry and of MoveToDeadLetter.
Failed(g, j) ==
  /\ HoldsGoroutine(g, j) /\ gor[g].pc = "exec" /\ gor'[g].pc \in {"poll", "delay", "bury"}
  /\ jobs'[j].status = IF Exhausted(g) THEN "dead" ELSE "pending"
  /\ jobs'[j].status = "dead" /\ NoFault => gor'[g].pc = "bury" /\ gor'[g].job = j
  /\ jobs'[j].attempts = gor[g].attempts + 1
  /\ jobs'[j].max_attempts = jobs[j].max_attempts

\* UpdateJobStatus(pending) of the scheduler.
Requeued(t, j) ==
  /\ Owns(t, j)
  /\ sch[t].mode = "promote" => jobs'[j].worker_id = jobs[j].worker_id
  /\ jobs'[j].status = "pending"
  /\ jobs'[j].attempts = jobs[j].attempts
  /\ jobs'[j].max_attempts = jobs[j].max_attempts

\* UpdateJobStatus(pending) of ReplayDeadJob.
Replayed(c, j) ==
  /\ Replaying(c, j)
  /\ HoldsClient(c, j)' \/ Fault("db_error")
  /\ jobs'[j].status = "pending"
  /\ jobs'[j].attempts = 0
  /\ jobs'[j].max_attempts = jobs[j].max_attempts

\* UpdateJobStatus(failed) of CancelJob.
Withdrawn(c, j) ==
  /\ cl[c].pc = "cancel" /\ cl[c].job = j
  /\ jobs'[j].status = "failed"
  /\ jobs'[j].attempts = jobs[j].attempts
  /\ jobs'[j].max_attempts = jobs[j].max_attempts
  /\ jobs'[j].worker_id = jobs[j].worker_id

RowStep(j) ==
  \/ Unmoved(j) \/ Created(j)
  \/ \E g \in Goroutines : Marked(g, j) \/ Finished(g, j) \/ Failed(g, j)
  \/ \E t \in Threads : Requeued(t, j)
  \/ \E c \in Clients : Replayed(c, j) \/ Withdrawn(c, j)

(* A row that a step does not write. *)
LEMMA Unwritten ==
  ASSUME NEW j, jobs'[j] = jobs[j] PROVE RowStep(j)
  BY DEF RowStep, Unmoved

(* The writes of the goroutines. *)
LEMMA GoroutineRows ==
  ASSUME TypeOK, NEW g \in Goroutines, MarkRunning(g) \/ CompleteJob(g) \/ FailJob(g)
  PROVE  \A j \in Jobs : RowStep(j)
<1>0. WorkerTypeOK /\ RowsTypeOK
  BY StoresParts DEF TypeOK
<1>1. PICK k \in Jobs : k = gor[g].job
  BY <1>0, HeldRows DEF MarkRunning, CompleteJob, FailJob
<1>2. jobs[k] \in JobRow
  BY <1>0 DEF RowsTypeOK
<1>3. \A j \in Jobs \ {k} : jobs'[j] = jobs[j]
  BY <1>0, <1>1, RowAfter DEF MarkRunning, CompleteJob, FailJob
<1>4. HoldsGoroutine(g, k)
  BY <1>1 DEF MarkRunning, CompleteJob, FailJob, HoldsGoroutine
<1>5. CASE jobs'[k] = jobs[k]
  BY <1>3, <1>5, Unwritten
<1>6. CASE MarkRunning(g) /\ jobs'[k] # jobs[k]
  <2>1. jobs'[k] = RunningRow(g)
    BY <1>0, <1>1, <1>6, RowAfter DEF MarkRunning
  <2>2. (gor'[g].pc = "exec" /\ gor'[g].job = k) \/ Fault("db_error")
    <3>1. gor[g] \in GoroutineState
      BY <1>0 DEF WorkerTypeOK
    <3> QED
      BY <1>0, <1>1, <1>6, <3>1 DEF MarkRunning, FailedWrite, Go, WorkerTypeOK, GoroutineState
  <2>3. Marked(g, k)
    BY <1>1, <1>2, <1>4, <1>6, <2>1, <2>2 DEF Marked, MarkRunning, RunningRow, JobRow
  <2> QED
    BY <1>3, <2>3, Unwritten DEF RowStep
<1>7. CASE CompleteJob(g) /\ jobs'[k] # jobs[k]
  <2>1. jobs'[k] = [jobs[k] EXCEPT !.status = "completed"]
    BY <1>0, <1>1, <1>7, RowAfter DEF CompleteJob
  <2>2. gor'[g].pc = "poll" /\ gor[g].pc = "exec"
    BY <1>0, <1>7, IdleStates DEF CompleteJob, Go, WorkerTypeOK
  <2>3. Finished(g, k)
    BY <1>2, <1>4, <2>1, <2>2 DEF Finished, JobRow
  <2> QED
    BY <1>3, <2>3, Unwritten DEF RowStep
<1>8. CASE FailJob(g) /\ jobs'[k] # jobs[k]
  <2> DEFINE status == IF Exhausted(g) THEN "dead" ELSE "pending"
             next == IF Exhausted(g) THEN "bury" ELSE "delay"
  <2>1. jobs'[k] = FailedRow(g, status) /\ gor[g].pc = "exec"
    BY <1>0, <1>1, <1>8, RowAfter DEF FailJob
  <2>2. /\ jobs'[k].status = status
        /\ jobs'[k].attempts = gor[g].attempts + 1
        /\ jobs'[k].max_attempts = jobs[k].max_attempts
    BY <1>1, <1>2, <2>1 DEF FailedRow, JobRow
  <2>3. /\ gor'[g].pc \in {"poll", "delay", "bury"}
        /\ NoFault => gor'[g].pc = next /\ gor'[g].job = k
    <3>1. gor[g] \in GoroutineState
      BY <1>0 DEF WorkerTypeOK
    <3>2. CASE Go(g, LoopTop) /\ Fault("db_error")
      <4>1. faults' # faults
        BY <3>2, StoresParts DEF TypeOK, BudgetTypeOK, Fault
      <4> QED
        BY <1>0, <3>2, <4>1, IdleStates DEF Go, WorkerTypeOK, NoFault
    <3>3. CASE Go(g, [gor[g] EXCEPT !.pc = next])
      BY <1>0, <1>1, <3>1, <3>3 DEF Go, WorkerTypeOK, GoroutineState
    <3> QED
      BY <1>8, <3>2, <3>3 DEF FailJob, FailedWrite
  <2>4. Failed(g, k)
    BY <1>4, <2>1, <2>2, <2>3 DEF Failed
  <2> QED
    BY <1>3, <2>4, Unwritten DEF RowStep
<1> QED
  BY <1>5, <1>6, <1>7, <1>8

(* The writes of the scheduler. *)
LEMMA SchedulerRows ==
  ASSUME TypeOK, NEW t \in Threads, ResetJob(t)
  PROVE  \A j \in Jobs : RowStep(j)
<1>0. SchedulerTypeOK /\ RowsTypeOK /\ sch[t] \in ThreadState
  BY StoresParts DEF TypeOK, SchedulerTypeOK
<1>1. sch[t].batch \subseteq Jobs
  BY <1>0 DEF ThreadState
<1>2. PICK k \in sch[t].batch :
        \/ WriteRow(k, ResetRow(k, sch[t].mode))
        \/ FailedWrite(k, ResetRow(k, sch[t].mode))
  BY DEF ResetJob
<1>3. k \in Jobs /\ Owns(t, k)
  BY <1>1 DEF Owns, ResetJob
<1>4. jobs[k] \in JobRow
  BY <1>0, <1>3 DEF RowsTypeOK
<1>5. /\ jobs'[k] \in {ResetRow(k, sch[t].mode), jobs[k]}
      /\ \A j \in Jobs \ {k} : jobs'[j] = jobs[j]
  BY <1>0, <1>2, <1>3, RowAfter
<1>6. CASE jobs'[k] = ResetRow(k, sch[t].mode)
  <2>1. Requeued(t, k)
    BY <1>3, <1>4, <1>6 DEF Requeued, ResetRow, JobRow
  <2> QED
    BY <1>5, <2>1, Unwritten DEF RowStep
<1> QED
  BY <1>5, <1>6, Unwritten

(* The writes of the requests. *)
LEMMA ClientRows ==
  ASSUME TypeOK, NEW c \in Clients,
         \/ CreateJob(c) \/ PlaceOrder(c) \/ ContinueOrder(c)
         \/ ReplayReset(c) \/ CancelJob(c)
  PROVE  \A j \in Jobs : RowStep(j)
<1>0. ApiTypeOK /\ RowsTypeOK
  BY StoresParts DEF TypeOK
<1>1. CASE CreateJob(c) \/ PlaceOrder(c) \/ ContinueOrder(c)
  <2>1. PICK k \in Jobs, r \in Requests :
          /\ ~Exists(k)
          /\ WriteRow(k, NewRow(r)) \/ FailedWrite(k, NewRow(r))
          /\ \/ \E pc \in {"push", "delay"} : cl' = [cl EXCEPT ![c] = Request(pc, k)]
             \/ Fault("db_error")
    BY <1>0, <1>1, CreateSteps DEF Create, FailedWrite
  <2>2. /\ jobs'[k] \in {NewRow(r), jobs[k]}
        /\ \A j \in Jobs \ {k} : jobs'[j] = jobs[j]
    BY <1>0, <2>1, RowAfter
  <2>3. HoldsClient(c, k)' \/ Fault("db_error")
    BY <1>0, <2>1, RequestFields DEF HoldsClient, ApiTypeOK
  <2>4. jobs'[k] = NewRow(r) => RowStep(k)
    BY <2>1, <2>3 DEF RowStep, Created
  <2> QED
    BY <2>2, <2>4, Unwritten
<1>2. CASE ReplayReset(c) \/ CancelJob(c)
  <2>1. PICK k \in Jobs : k = cl[c].job
    BY <1>0, <1>2, StoresAssumption DEF ReplayReset, CancelJob, ApiTypeOK, ClientState
  <2>2. jobs[k] \in JobRow
    BY <1>0 DEF RowsTypeOK
  <2>3. CASE ReplayReset(c)
    <3>1. PICK row : /\ row = [jobs[k] EXCEPT !.status = "pending", !.attempts = 0,
                                              !.error = ""]
                     /\ WriteRow(k, row) \/ FailedWrite(k, row)
      BY <2>1, <2>3 DEF ReplayReset
    <3>2. /\ jobs'[k] \in {row, jobs[k]}
          /\ \A j \in Jobs \ {k} : jobs'[j] = jobs[j]
      BY <1>0, <3>1, RowAfter
    <3>3. HoldsClient(c, k)' \/ Fault("db_error")
      BY <1>0, <2>1, <2>3, RequestFields
         DEF ReplayReset, FailedWrite, Call, HoldsClient, ApiTypeOK
    <3>4. jobs'[k] = row => Replayed(c, k)
      BY <2>1, <2>2, <2>3, <3>1, <3>3 DEF Replayed, Replaying, ReplayReset, JobRow
    <3> QED
      BY <3>2, <3>4, Unwritten DEF RowStep
  <2>4. CASE CancelJob(c)
    <3>1. PICK row : /\ row = [jobs[k] EXCEPT !.status = "failed",
                                              !.error = "cancelled by user"]
                     /\ WriteRow(k, row) \/ FailedWrite(k, row)
      BY <2>1, <2>4 DEF CancelJob
    <3>2. /\ jobs'[k] \in {row, jobs[k]}
          /\ \A j \in Jobs \ {k} : jobs'[j] = jobs[j]
      BY <1>0, <3>1, RowAfter
    <3>3. jobs'[k] = row => Withdrawn(c, k)
      BY <2>1, <2>2, <2>4, <3>1 DEF Withdrawn, CancelJob, JobRow
    <3> QED
      BY <3>2, <3>3, Unwritten DEF RowStep
  <2> QED
    BY <1>2, <2>3, <2>4
<1> QED
  BY <1>1, <1>2

(* Every step writes every row in one of these ways. *)
LEMMA RowSteps ==
  ASSUME TypeOK, [Next]_vars PROVE \A j \in Jobs : RowStep(j)
<1>1. ASSUME UNCHANGED jobs PROVE \A j \in Jobs : RowStep(j)
  BY <1>1, Unwritten
<1>2. CASE Clock
  <2>1. PICK k \in Jobs : BecomeDue(k) \/ BecomeStuck(k)
    BY <1>2 DEF Clock
  <2>2. CASE BecomeStuck(k)
    <3>1. RowsTypeOK
      BY StoresParts DEF TypeOK
    <3>2. jobs[k] \in JobRow
      BY <3>1 DEF RowsTypeOK
    <3>3. PICK row : row = [jobs[k] EXCEPT !.started_at = "old"] /\ WriteRow(k, row)
      BY <2>2 DEF BecomeStuck
    <3>4. jobs'[k] = row /\ \A j \in Jobs \ {k} : jobs'[j] = jobs[j]
      BY <3>1, <3>3, RowAfter
    <3>5. Unmoved(k)
      BY <3>2, <3>3, <3>4 DEF Unmoved, JobRow
    <3> QED
      BY <3>4, <3>5, Unwritten DEF RowStep
  <2> QED
    BY <1>1, <2>1, <2>2 DEF BecomeDue
<1>3. CASE Server
  BY <1>1, <1>3, SchedulerRows
     DEF Server, StopServer, StopScheduler, ExitServer, CrashServer, StartServer,
         SchedulerStep, ThreadStep, DelayedTick, RemoveDue, StuckTick, StartupScan,
         PushJob, storeVars
<1>4. CASE WorkersNext
  BY <1>1, <1>4, GoroutineRows
     DEF WorkersNext, WorkerProcess, StopWorker, WorkerStopped, CrashWorker,
         StartWorker, GoroutineStep, StopLoop, PollPriority, BlockingPop,
         PopTimeout, LoadJob, DelayRetry, BuryJob, storeVars
<1>5. CASE ClientsNext
  BY <1>1, <1>5, ClientRows
     DEF ClientsNext, ClientStep, ClientRequest, DelayJob, PushRequest, ReplayRemove,
         ReplayCheck, CancelCheck, storeVars
<1>6. CASE UNCHANGED vars
  BY <1>1, <1>6 DEF vars, storeVars
<1> QED
  BY <1>2, <1>3, <1>4, <1>5, <1>6 DEF Next

-----------------------------------------------------------------------------
(* The steps of a goroutine towards the handler.                           *)

GoroutineMove(g) ==
  \/ gor'[g] = gor[g]
  \/ gor'[g].pc \notin {"mark", "exec"}
  \/ /\ gor'[g].pc = "mark" /\ gor'[g].job = gor[g].job
     /\ gor'[g].attempts = jobs[gor[g].job].attempts /\ UNCHANGED jobs
  \/ /\ gor'[g].pc = "exec" /\ gor'[g].job = gor[g].job
     /\ gor'[g].attempts = gor[g].attempts
     /\ Marked(g, gor[g].job)

(* A step of one goroutine. *)
LEMMA OneGoroutineMoves ==
  ASSUME TypeOK, NEW g \in Goroutines, GoroutineStep(g)
  PROVE  \A h \in Goroutines : GoroutineMove(h)
<1>0. WorkerTypeOK /\ RowsTypeOK /\ gor[g] \in GoroutineState
  BY StoresParts DEF TypeOK, WorkerTypeOK
<1>1. ASSUME NEW state, Go(g, state)
      PROVE  gor'[g] = state /\ \A h \in Goroutines \ {g} : GoroutineMove(h)
  BY <1>0, <1>1 DEF Go, WorkerTypeOK, GoroutineMove
<1>2. CASE Go(g, LoopTop) \/ Go(g, Exited)
  BY <1>1, <1>2, IdleStates DEF GoroutineMove
<1>3. ASSUME NEW pc \in {"poll", "brpop", "load"}, NEW i, NEW j, NEW n,
             Go(g, At(pc, i, j, n))
      PROVE  \A h \in Goroutines : GoroutineMove(h)
  <2>1. At(pc, i, j, n).pc = pc
    BY DEF At
  <2> QED
    BY <1>1, <1>3, <2>1 DEF GoroutineMove
<1>4. CASE gor' = gor
  BY <1>4 DEF GoroutineMove
<1>5. CASE LoadJob(g) /\ ~Go(g, LoopTop)
  <2>1. Go(g, At("mark", 1, gor[g].job, jobs[gor[g].job].attempts)) /\ UNCHANGED jobs
    BY <1>5 DEF LoadJob
  <2>2. gor'[g] = At("mark", 1, gor[g].job, jobs[gor[g].job].attempts)
    BY <1>1, <2>1
  <2>3. GoroutineMove(g)
    BY <2>1, <2>2 DEF GoroutineMove, At
  <2> QED
    BY <1>1, <2>1, <2>3
<1>6. CASE MarkRunning(g) /\ ~Go(g, LoopTop)
  <2>1. /\ WriteRow(gor[g].job, RunningRow(g)) /\ Go(g, [gor[g] EXCEPT !.pc = "exec"])
        /\ gor[g].pc = "mark"
    BY <1>6 DEF MarkRunning
  <2>2. gor'[g] = [gor[g] EXCEPT !.pc = "exec"]
    BY <1>1, <2>1
  <2>3. gor'[g].pc = "exec" /\ gor'[g].job = gor[g].job /\ gor'[g].attempts = gor[g].attempts
    BY <1>0, <2>2 DEF GoroutineState
  <2>4. PICK k \in Jobs : k = gor[g].job
    BY <1>0, <2>1, HeldRows
  <2>5. jobs'[k] = RunningRow(g) /\ jobs[k] \in JobRow
    BY <1>0, <2>1, <2>4, RowAfter DEF RowsTypeOK
  <2>6. Marked(g, k)
    BY <2>1, <2>3, <2>4, <2>5 DEF Marked, RunningRow, JobRow, HoldsGoroutine
  <2>7. GoroutineMove(g)
    BY <2>3, <2>4, <2>6 DEF GoroutineMove
  <2> QED
    BY <1>1, <2>1, <2>7
<1>7. CASE FailJob(g) /\ ~Go(g, LoopTop)
  <2>1. PICK pc \in {"bury", "delay"} : Go(g, [gor[g] EXCEPT !.pc = pc])
    BY <1>7 DEF FailJob
  <2>2. gor'[g] = [gor[g] EXCEPT !.pc = pc]
    BY <1>1, <2>1
  <2>3. gor'[g].pc = pc
    BY <1>0, <2>2 DEF GoroutineState
  <2> QED
    BY <1>1, <2>1, <2>3 DEF GoroutineMove
<1>8. CASE PollPriority(g) \/ BlockingPop(g)
  BY <1>2, <1>3, <1>8 DEF PollPriority, BlockingPop, NextQueue
<1> QED
  BY <1>2, <1>4, <1>5, <1>6, <1>7, <1>8
     DEF GoroutineStep, StopLoop, PopTimeout, LoadJob, MarkRunning, CompleteJob, FailJob,
         DelayRetry, BuryJob

(* Every step moves every goroutine so. *)
LEMMA GoroutineMoves ==
  ASSUME TypeOK, [Next]_vars PROVE \A g \in Goroutines : GoroutineMove(g)
<1>1. CASE UNCHANGED gor
  BY <1>1 DEF GoroutineMove
<1>2. CASE WorkersNext
  <2>1. CASE \E w \in Workers : WorkerProcess(w)
    <3>1. \A g \in Goroutines : gor'[g] \in {gor[g], LoopTop, Exited}
      BY <2>1 DEF WorkerProcess, StopWorker, WorkerStopped, CrashWorker, StartWorker,
                  ExitAll
    <3> QED
      BY <3>1, IdleStates DEF GoroutineMove
  <2> QED
    BY <1>2, <2>1, OneGoroutineMoves DEF WorkersNext
<1>3. CASE Server
  BY <1>1, <1>3
     DEF Server, StopServer, StopScheduler, ExitServer, CrashServer, StartServer, workerVars
<1> QED
  BY <1>1, <1>2, <1>3
     DEF Next, Clock, BecomeStuck, ClientsNext, vars, workerVars

-----------------------------------------------------------------------------
(* While a goroutine has a job, its copy of the attempts agrees with the   *)
(* row, and while the handler runs the row says so.                        *)

CopyAgrees(g) ==
  gor[g].pc \in {"mark", "exec"} => gor[g].attempts = jobs[gor[g].job].attempts

RunIsRecorded(g) ==
  gor[g].pc = "exec" => /\ jobs[gor[g].job].status \in {"running", "failed"}
                        /\ jobs[gor[g].job].worker_id = g[1]

Recorded == \A g \in Goroutines : CopyAgrees(g) /\ RunIsRecorded(g)

(* At first no goroutine has a job. *)
LEMMA InitRecorded == Init => Recorded
  BY IdleStates DEF Init, WorkerInit, Recorded, CopyAgrees, RunIsRecorded

(* Every step keeps it: nobody else writes what the goroutine has read. *)
LEMMA NextRecorded ==
  TypeOK /\ RoutedIds /\ Delivered /\ Recorded /\ [Next]_vars => Recorded'
<1> SUFFICES ASSUME TypeOK, RoutedIds, Delivered, Recorded, [Next]_vars,
                    NEW g \in Goroutines, gor'[g].pc \in {"mark", "exec"}
             PROVE  CopyAgrees(g)' /\ RunIsRecorded(g)'
  BY DEF Recorded, CopyAgrees, RunIsRecorded
<1>0. WorkerTypeOK /\ RowsTypeOK
  BY StoresParts DEF TypeOK
<1>1. CopyAgrees(g) /\ RunIsRecorded(g)
  BY DEF Recorded
<1>2. GoroutineMove(g)
  BY GoroutineMoves
<1>3. CASE gor'[g] = gor[g]
  <2>1. PICK k \in Jobs : k = gor[g].job
    BY <1>0, <1>3, HeldRows
  <2>2. HoldsGoroutine(g, k)
    BY <1>3, <2>1 DEF HoldsGoroutine
  <2>3. /\ \A h \in Goroutines : HoldsGoroutine(h, k) => h = g
        /\ \A t \in Threads : ~Owns(t, k)
        /\ \A c \in Clients : ~Replaying(c, k)
    BY <2>2, GoroutineAlone DEF Delivered
  <2>4. Exists(k)
    BY <2>1, StoresAssumption DEF RoutedIds, RoutedThreads
  <2>5. RowStep(k)
    BY RowSteps
  <2>6. CASE \E c \in Clients : Withdrawn(c, k)
    BY <1>1, <1>3, <2>1, <2>6 DEF Withdrawn, CopyAgrees, RunIsRecorded
  <2>7. CASE Unmoved(k)
    BY <1>1, <1>3, <2>1, <2>7 DEF Unmoved, CopyAgrees, RunIsRecorded
  <2>8. CASE Marked(g, k)
    BY <1>1, <1>3, <2>1, <2>8 DEF Marked, CopyAgrees, RunIsRecorded
  <2>9. ~Created(k) /\ ~Finished(g, k) /\ ~Failed(g, k)
    BY <1>3, <2>4 DEF Created, Finished, Failed
  <2> QED
    BY <2>3, <2>5, <2>6, <2>7, <2>8, <2>9
       DEF RowStep, Marked, Finished, Failed, Requeued, Replayed
<1>4. CASE gor'[g].pc = "mark" /\ gor'[g] # gor[g]
  BY <1>2, <1>4 DEF GoroutineMove, CopyAgrees, RunIsRecorded
<1>5. CASE gor'[g].pc = "exec" /\ gor'[g] # gor[g]
  <2>1. /\ gor'[g].job = gor[g].job /\ gor'[g].attempts = gor[g].attempts
        /\ Marked(g, gor[g].job)
    BY <1>2, <1>5 DEF GoroutineMove
  <2> QED
    BY <1>1, <1>5, <2>1 DEF Marked, CopyAgrees, RunIsRecorded
<1> QED
  BY <1>3, <1>4, <1>5

(* It holds of every behaviour that replays no job twice at a time. *)
LEMMA AlwaysRecorded ==
  ASSUME OrderlyFaults PROVE Spec /\ []ReplaysApart => []Recorded
  BY InitRecorded, NextRecorded, TypeCorrectness, IdsAreRouted, AlwaysDelivered,
     PTL DEF Spec

(* While a handler runs, the row is running and names its worker, unless    *)
(* the job has been cancelled under it (processJob).                        *)
THEOREM ExecutionIsRecorded ==
  ASSUME OrderlyFaults PROVE Spec /\ []ReplaysApart => []ExecutingIsRecorded
<1>1. Recorded => ExecutingIsRecorded
  BY DEF Recorded, RunIsRecorded, ExecutingIsRecorded
<1> QED
  BY <1>1, AlwaysRecorded, PTL

-----------------------------------------------------------------------------
(* A job that has ended stays where it is: nowhere.                        *)

Quiet(j) == Places(j) = {} /\ \A t \in Threads : ~Owns(t, j)

(* A job that nothing takes stays quiet. *)
LEMMA LeftQuiet ==
  ASSUME NEW j \in Jobs, Quiet(j), OnlyTakes(j, Nowhere),
         \A t \in Threads : StillOwns(t, j)
  PROVE  Quiet(j)'
<1>1. Places(j)' = {}
  BY NoNewPlace DEF Quiet
<1> QED
  BY <1>1 DEF Quiet, StillOwns

(* The goroutines: what they take has a place. *)
LEMMA QuietByGoroutines ==
  ASSUME TypeOK, OrderlyFaults, NEW j \in Jobs, Quiet(j), NEW g \in Goroutines,
         GoroutineStep(g), UNCHANGED <<schedulerVars, apiVars>>
  PROVE  Quiet(j)'
<1>0. WorkerTypeOK /\ RowsTypeOK /\ RedisTypeOK /\ gor[g] \in GoroutineState
  BY StoresParts DEF TypeOK, WorkerTypeOK
<1>1. ASSUME RedisTakes(j, Nowhere), GoroutinesTake(j, Nowhere) PROVE Quiet(j)'
  BY <1>1, UnchangedTakes, UnchangedLeaves, LeftQuiet DEF OnlyTakes, apiVars, schedulerVars
<1>2. /\ \A q \in Queues : ~InList(q, j) /\ j \notin prio[q]
      /\ ~HoldsGoroutine(g, j)
  BY PlaceOf DEF Quiet
<1>3. ASSUME NEW state, Go(g, state), state.job # j PROVE GoroutinesTake(j, Nowhere)
  BY <1>0, <1>3, GoTakes DEF GoroutinesLeave
<1>4. LoopTop.job # j /\ Exited.job # j
  BY IdleStates, StoresAssumption
<1>5. CASE PollPriority(g) \/ BlockingPop(g)
  <2>1. RedisTakes(j, Nowhere)
    <3>1. CASE PollPriority(g)
      <4>1. WorkerQueues[gor[g].idx] \in Queues
        BY <1>0, WorkerAssumption DEF WorkerTypeOK
      <4> QED
        BY <1>0, <3>1, <4>1 DEF PollPriority, RedisTakes, RedisTypeOK, InList
    <3>2. CASE BlockingPop(g)
      <4>1. \A r \in Queues : \/ lists'[r] = lists[r]
                              \/ lists[r] # <<>> /\ lists'[r] = Tail(lists[r])
        BY <1>0, <3>2, WorkerAssumption DEF BlockingPop, FirstNonEmpty, RedisTypeOK
      <4> QED
        BY <1>0, <3>2, <4>1, TailTakes DEF BlockingPop, RedisTakes
    <3> QED
      BY <1>5, <3>1, <3>2
  <2>2. PICK state : Go(g, state) /\ state.job # j
    <3>1. CASE PollPriority(g) /\ ~NextQueue(g)
      <4>1. PICK k \in prio[WorkerQueues[gor[g].idx]] : Go(g, At("load", 1, k, 0))
        BY <3>1 DEF PollPriority, HighestPriority
      <4>2. WorkerQueues[gor[g].idx] \in Queues
        BY <1>0, WorkerAssumption DEF WorkerTypeOK
      <4>3. k # j
        BY <1>2, <4>1, <4>2
      <4> QED
        BY <4>1, <4>3 DEF At
    <3>2. CASE NextQueue(g)
      BY <3>2, StoresAssumption DEF NextQueue, At
    <3>3. CASE BlockingPop(g)
      <4>1. PICK i \in DOMAIN WorkerQueues :
              /\ lists[WorkerQueues[i]] # <<>>
              /\ Go(g, At("load", 1, Head(lists[WorkerQueues[i]]), 0)) \/ Go(g, LoopTop)
        BY <3>3 DEF BlockingPop, FirstNonEmpty
      <4>2. WorkerQueues[i] \in Queues
        BY WorkerAssumption
      <4>3. lists[WorkerQueues[i]] \in Seq(Jobs)
        BY <1>0, <4>2 DEF RedisTypeOK
      <4>4. PICK k : /\ k = Head(lists[WorkerQueues[i]])
                     /\ 1 \in DOMAIN lists[WorkerQueues[i]]
                     /\ k = lists[WorkerQueues[i]][1]
        BY <4>1, <4>3
      <4>5. k # j
        BY <1>2, <4>2, <4>4 DEF InList
      <4> QED
        BY <1>4, <4>1, <4>4, <4>5 DEF At
    <3> QED
      BY <1>5, <3>1, <3>2, <3>3
  <2> QED
    BY <1>1, <1>3, <2>1, <2>2
<1>6. CASE StopLoop(g) \/ PopTimeout(g)
  BY <1>1, <1>3, <1>4, <1>6, UnchangedTakes
     DEF StopLoop, PopTimeout, storeVars, redisVars
<1>7. CASE LoadJob(g) \/ MarkRunning(g) \/ CompleteJob(g) \/ FailJob(g)
  <2>1. gor[g].job # j
    BY <1>2, <1>7 DEF HoldsGoroutine, LoadJob, MarkRunning, CompleteJob, FailJob
  <2>2. PICK state : Go(g, state) /\ state.job \in {gor[g].job, NoJob}
    <3>1. \A pc : [gor[g] EXCEPT !.pc = pc].job = gor[g].job
      BY <1>0 DEF GoroutineState
    <3>2. CASE Go(g, LoopTop)
      BY <3>2, IdleStates
    <3>3. CASE LoadJob(g) /\ ~Go(g, LoopTop)
      BY <3>3 DEF LoadJob, At
    <3>4. CASE \E pc \in WorkerPC : Go(g, [gor[g] EXCEPT !.pc = pc])
      BY <3>1, <3>4
    <3> QED
      BY <1>7, <3>2, <3>3, <3>4 DEF MarkRunning, CompleteJob, FailJob, WorkerPC
  <2>3. UNCHANGED redisVars
    BY <1>7 DEF LoadJob, MarkRunning, CompleteJob, FailJob
  <2> QED
    BY <1>1, <1>3, <2>1, <2>2, <2>3, UnchangedTakes, StoresAssumption
<1>8. CASE DelayRetry(g) \/ BuryJob(g)
  <2>1. GoroutinesTake(j, Nowhere)
    BY <1>3, <1>4, <1>8, UnchangedTakes DEF DelayRetry, BuryJob
  <2>2. RedisTakes(j, Nowhere)
    <3>1. CASE DelayRetry(g)
      <4>1. PICK k \in Jobs : k = gor[g].job
        BY <1>0, <3>1, HeldRows DEF DelayRetry
      <4>2. k # j
        BY <1>2, <3>1, <4>1 DEF HoldsGoroutine, DelayRetry
      <4> QED
        BY <1>0, <3>1, <4>1, <4>2, DelayTakes, UnchangedTakes DEF DelayRetry, RedisLeaves
    <3>2. CASE BuryJob(g)
      BY <3>2, DeadListTakes DEF BuryJob, RedisLeaves
    <3> QED
      BY <1>8, <3>1, <3>2
  <2> QED
    BY <1>1, <2>1, <2>2
<1> QED
  BY <1>5, <1>6, <1>7, <1>8 DEF GoroutineStep

(* The scheduler: what it takes is delayed, running or owned. *)
LEMMA QuietByScheduler ==
  ASSUME TypeOK, Delivered, OrderlyFaults, NEW j \in Jobs, Quiet(j),
         jobs[j].status # "running", SchedulerStep, UNCHANGED <<workerVars, apiVars>>
  PROVE  Quiet(j)'
<1>0. /\ SchedulerTypeOK /\ RowsTypeOK /\ RedisTypeOK
      /\ "loop" \in Threads /\ "startup" \in Threads
  BY StoresParts DEF TypeOK, Threads
<1>1. ASSUME RedisTakes(j, Nowhere), server' = server,
             NEW t \in Threads, NEW state, Become(t, state), state.job # j,
             state.pc \notin {"reset", "push"} \/ j \notin state.batch
      PROVE  Quiet(j)'
  <2>1. ThreadsTake(j, Nowhere) /\ \A u \in Threads : StillOwns(u, j)
    BY <1>0, <1>1, BecomeTakes
  <2> QED
    BY <1>1, <2>1, UnchangedTakes, LeftQuiet DEF OnlyTakes, workerVars, apiVars
<1>2. NoJob # j
  BY StoresAssumption
<1>3. CASE DelayedTick
  BY <1>0, <1>1, <1>2, <1>3, ThreadFields, UnchangedTakes
     DEF DelayedTick, storeVars, redisVars
<1>4. CASE RemoveDue
  <2>1. j \notin sch["loop"].batch
    BY <1>4, PlaceOf DEF RemoveDue, Quiet, Delivered, JobInv, RemovedWaits, Removing
  <2>2. RedisTakes(j, Nowhere)
    BY <1>4, <2>1 DEF RemoveDue, RedisTakes, InList
  <2>3. PICK state : /\ Become("loop", state)
                     /\ state.job = NoJob /\ state.batch = sch["loop"].batch
    BY <1>4, ThreadFields DEF RemoveDue
  <2> QED
    BY <1>0, <1>1, <1>2, <1>4, <2>1, <2>2, <2>3 DEF RemoveDue
<1>5. CASE StuckTick \/ StartupScan
  <2>1. j \notin StuckJobs
    BY DEF StuckJobs
  <2>2. PICK t, state : /\ t \in Threads /\ Become(t, state)
                        /\ state.job = NoJob
                        /\ state.batch \in {StuckJobs, {}}
    <3>1. CASE StuckTick
      BY <1>0, <3>1, ThreadFields DEF StuckTick
    <3>2. CASE Become("startup", ThreadExited)
      BY <1>0, <3>2, RestingFields
    <3>3. CASE Continue("startup", "recover", StuckJobs)
      <4>1. PICK b : b = StuckJobs
        OBVIOUS
      <4> QED
        BY <1>0, <3>3, <4>1, ContinueFields
    <3> QED
      BY <1>5, <3>1, <3>2, <3>3 DEF StartupScan
  <2> QED
    BY <1>1, <1>2, <1>5, <2>1, <2>2, UnchangedTakes DEF StuckTick, StartupScan
<1>6. ASSUME NEW t \in Threads, ResetJob(t) PROVE Quiet(j)'
  <2>1. j \notin sch[t].batch
    BY <1>6 DEF Quiet, Owns, ResetJob
  <2>2. PICK k \in sch[t].batch :
          \/ Become(t, Thread("push", sch[t].mode, sch[t].batch \ {k}, k))
          \/ Continue(t, sch[t].mode, sch[t].batch \ {k})
    BY <1>6 DEF ResetJob
  <2>3. PICK b : b = sch[t].batch \ {k}
    OBVIOUS
  <2>4. PICK m : m = sch[t].mode
    OBVIOUS
  <2>5. PICK state : /\ Become(t, state)
                     /\ state.job \in {k, NoJob} /\ state.batch = b
    <3>1. CASE Become(t, Thread("push", m, b, k))
      BY <3>1, ThreadFields
    <3>2. CASE Continue(t, m, b)
      BY <3>2, ContinueFields
    <3> QED
      BY <2>2, <2>3, <2>4, <3>1, <3>2
  <2> QED
    BY <1>1, <1>2, <1>6, <2>1, <2>3, <2>5, UnchangedTakes DEF ResetJob
<1>7. ASSUME NEW t \in Threads, PushJob(t) PROVE Quiet(j)'
  <2>1. sch[t].job # j /\ j \notin sch[t].batch
    BY <1>7 DEF Quiet, Owns, PushJob
  <2>2. PICK b, m : b = sch[t].batch /\ m = sch[t].mode /\ Continue(t, m, b)
    BY <1>7, NoDisorder DEF PushJob
  <2>3. PICK state : /\ Become(t, state)
                     /\ state.job = NoJob /\ state.batch = b
    BY <2>2, ContinueFields
  <2>4. PICK k \in Jobs : k = sch[t].job
    BY <1>0, <1>7 DEF PushJob, SchedulerTypeOK, ThreadState
  <2>5. RedisTakes(j, Nowhere)
    BY <1>0, <1>7, <2>1, <2>4, PushTakes, UnchangedTakes DEF PushJob, RedisLeaves
  <2> QED
    BY <1>1, <1>2, <1>7, <2>1, <2>2, <2>3, <2>5 DEF PushJob
<1> QED
  BY <1>3, <1>4, <1>5, <1>6, <1>7 DEF SchedulerStep, ThreadStep

(* The requests: what they take is new, replayed or at a client. *)
LEMMA QuietByClients ==
  ASSUME TypeOK, OrderlyFaults, NEW j \in Jobs, Quiet(j), Exists(j), NEW c \in Clients,
         ClientStep(c) \/ ClientRequest(c), UNCHANGED <<workerVars, schedulerVars>>
  PROVE  Quiet(j)' \/ Replayed(c, j)
<1>0. ApiTypeOK /\ RowsTypeOK /\ RedisTypeOK
  BY StoresParts DEF TypeOK
<1>1. ASSUME RedisTakes(j, Nowhere), ClientsTake(j, Nowhere) PROVE Quiet(j)'
  <2>1. \A t \in Threads : StillOwns(t, j)
    BY UnchangedLeaves DEF schedulerVars
  <2> QED
    BY <1>1, <2>1, UnchangedTakes, LeftQuiet DEF OnlyTakes, workerVars
<1>2. ASSUME NEW req, cl' = [cl EXCEPT ![c] = req],
             req.job # j \/ req.pc \notin {"push", "delay", "remove"}
      PROVE  ClientsTake(j, Nowhere)
  BY <1>0, <1>2, CallTakes DEF ClientsTake, Nowhere
<1>3. NoJob # j /\ ~HoldsClient(c, j)
  BY StoresAssumption, PlaceOf DEF Quiet
<1>4. CASE CreateJob(c) \/ PlaceOrder(c) \/ ContinueOrder(c)
  <2>1. UNCHANGED redisVars
    BY <1>0, <1>4, CreateSteps
  <2>2. PICK k \in Jobs :
          /\ ~Exists(k)
          /\ \/ \E pc \in {"push", "delay"} : cl' = [cl EXCEPT ![c] = Request(pc, k)]
             \/ Respond(c)
    BY <1>0, <1>4, CreateSteps DEF Create
  <2>3. PICK req : cl' = [cl EXCEPT ![c] = req] /\ req.job \in {k, NoJob}
    BY <2>2, RequestFields DEF Respond
  <2> QED
    BY <1>1, <1>2, <1>3, <2>1, <2>2, <2>3, UnchangedTakes
<1>5. CASE DelayJob(c) \/ PushRequest(c)
  <2>1. PICK k \in Jobs : k = cl[c].job
    BY <1>0, <1>5, StoresAssumption DEF DelayJob, PushRequest, ApiTypeOK, ClientState
  <2>2. k # j
    BY <1>3, <1>5, <2>1 DEF HoldsClient, DelayJob, PushRequest
  <2>3. RedisTakes(j, Nowhere)
    BY <1>0, <1>5, <2>1, <2>2, DelayTakes, PushTakes, UnchangedTakes
       DEF DelayJob, PushRequest, RedisLeaves
  <2>4. ClientsTake(j, Nowhere)
    BY <1>0, <1>5, NoDisorder, FreeClient DEF DelayJob, PushRequest, ClientsLeave
  <2> QED
    BY <1>1, <2>3, <2>4
<1>6. CASE ReplayCheck(c) \/ CancelCheck(c)
  <2>1. PICK req : cl' = [cl EXCEPT ![c] = req] /\ req.pc \in {"replay", "cancel"}
    BY <1>6, RequestFields DEF ReplayCheck, CancelCheck, Call
  <2> QED
    BY <1>1, <1>2, <1>6, <2>1, UnchangedTakes
       DEF ReplayCheck, CancelCheck, storeVars, redisVars
<1>7. CASE ReplayReset(c)
  <2>1. UNCHANGED redisVars
    BY <1>7 DEF ReplayReset
  <2>2. PICK k \in Jobs : k = cl[c].job /\ Replaying(c, k)
    BY <1>0, <1>7, StoresAssumption DEF ReplayReset, Replaying, ApiTypeOK, ClientState
  <2>3. CASE Respond(c)
    BY <1>0, <1>1, <2>1, <2>3, FreeClient, UnchangedTakes DEF ClientsLeave
  <2>4. CASE ~Respond(c) /\ k # j
    <3>1. PICK req : cl' = [cl EXCEPT ![c] = req] /\ req.job = k
      BY <1>7, <2>2, <2>4, RequestFields DEF ReplayReset, Call
    <3> QED
      BY <1>1, <1>2, <2>1, <2>4, <3>1, UnchangedTakes
  <2>5. CASE ~Respond(c) /\ k = j
    <3>1. PICK row : /\ row = [jobs[j] EXCEPT !.status = "pending", !.attempts = 0,
                                              !.error = ""]
                     /\ WriteRow(j, row)
      BY <1>7, <2>2, <2>5 DEF ReplayReset
    <3>2. jobs'[j] = row /\ jobs[j] \in JobRow
      BY <1>0, <3>1, RowAfter DEF RowsTypeOK
    <3>3. /\ row.status = "pending" /\ row.attempts = 0
          /\ row.max_attempts = jobs[j].max_attempts
      BY <3>1, <3>2 DEF JobRow
    <3>4. HoldsClient(c, j)'
      BY <1>0, <1>7, <2>2, <2>5, RequestFields
         DEF ReplayReset, Call, HoldsClient, ApiTypeOK
    <3> QED
      BY <2>2, <2>5, <3>2, <3>3, <3>4 DEF Replayed
  <2> QED
    BY <2>3, <2>4, <2>5
<1>8. CASE ReplayRemove(c)
  <2>1. PICK req : /\ req = Request("push", cl[c].job)
                   /\ cl' = [cl EXCEPT ![c] = req]
    BY <1>8 DEF ReplayRemove, Call
  <2>2. cl[c].job # j /\ req.job = cl[c].job
    BY <1>3, <1>8, <2>1, RequestFields DEF HoldsClient, ReplayRemove
  <2>3. RedisTakes(j, Nowhere)
    BY <1>8, DeadListTakes DEF ReplayRemove, RedisLeaves
  <2> QED
    BY <1>1, <1>2, <2>1, <2>2, <2>3
<1>9. CASE CancelJob(c)
  BY <1>0, <1>1, <1>9, FreeClient, UnchangedTakes DEF CancelJob, ClientsLeave
<1> QED
  BY <1>4, <1>5, <1>6, <1>7, <1>8, <1>9 DEF ClientStep, ClientRequest

(* A job that has a row, does not run and is nowhere goes nowhere, unless   *)
(* it is replayed.                                                          *)
LEMMA StaysQuiet ==
  ASSUME TypeOK, Delivered, OrderlyFaults, [Next]_vars, NEW j \in Jobs,
         Quiet(j), jobs[j].status \notin {"absent", "running"}
  PROVE  Quiet(j)' \/ \E c \in Clients : Replayed(c, j)
<1>0. Exists(j)
  BY DEF Exists
<1>1. ASSUME UNCHANGED <<workerVars, schedulerVars, apiVars>>, RedisTakes(j, Nowhere)
      PROVE  Quiet(j)'
  BY <1>1, UnchangedTakes, UnchangedLeaves, LeftQuiet DEF OnlyTakes, workerVars, apiVars,
     schedulerVars
<1>2. CASE Clock
  <2>1. RedisTypeOK
    BY StoresParts DEF TypeOK
  <2>2. RedisTakes(j, Nowhere)
    <3>1. PICK k \in Jobs : BecomeDue(k) \/ BecomeStuck(k)
      BY <1>2 DEF Clock
    <3> QED
      BY <2>1, <3>1, UnchangedTakes
         DEF BecomeDue, BecomeStuck, RedisTakes, RedisTypeOK, InList
  <2> QED
    BY <1>1, <1>2, <2>2 DEF Clock, BecomeStuck
<1>3. CASE Server
  <2>1. CASE StopServer \/ StopScheduler \/ ExitServer \/ CrashServer \/ StartServer
    <3>1. /\ UNCHANGED <<redisVars, workerVars>>
          /\ ThreadsLeave(j) /\ ClientsLeave(j)
      BY <2>1, ServerProcessLeaves
    <3> QED
      BY <3>1, UnchangedTakes, LeftQuiet
         DEF OnlyTakes, ThreadsLeave, ClientsLeave, workerVars
  <2> QED
    BY <1>3, <2>1, QuietByScheduler DEF Server
<1>4. CASE WorkersNext
  <2>1. UNCHANGED <<schedulerVars, apiVars>>
    BY <1>4 DEF WorkersNext
  <2>2. CASE \E w \in Workers : WorkerProcess(w)
    <3>1. UNCHANGED redisVars
      BY <2>2 DEF WorkerProcess, StopWorker, WorkerStopped, CrashWorker, StartWorker,
                  storeVars, redisVars
    <3>2. \A g \in Goroutines : gor'[g] \in {gor[g], LoopTop, Exited}
      BY <2>2 DEF WorkerProcess, StopWorker, WorkerStopped, CrashWorker, StartWorker,
                  ExitAll
    <3>3. GoroutinesTake(j, Nowhere)
      BY <3>2, IdleStates DEF GoroutinesTake, HoldsGoroutine
    <3> QED
      BY <2>1, <3>1, <3>3, UnchangedTakes, UnchangedLeaves, LeftQuiet
         DEF OnlyTakes, apiVars, schedulerVars
  <2> QED
    BY <1>4, <2>1, <2>2, QuietByGoroutines DEF WorkersNext
<1>5. CASE ClientsNext
  BY <1>0, <1>5, QuietByClients DEF ClientsNext
<1>6. CASE UNCHANGED vars
  BY <1>1, <1>6, UnchangedTakes DEF vars, storeVars, redisVars
<1> QED
  BY <1>2, <1>3, <1>4, <1>5, <1>6 DEF Next

-----------------------------------------------------------------------------
(* The attempts.  A job that may still be run has one left, also when its  *)
(* row says failed because it was cancelled.                               *)

Live(j) == jobs[j].status \in {"pending", "running"} \/ ~Quiet(j)

AttemptsLeft(j) ==
  jobs[j].max_attempts >= 1 =>
    /\ jobs[j].attempts <= jobs[j].max_attempts
    /\ Live(j) => jobs[j].attempts < jobs[j].max_attempts

DeadHasNone(j) ==
  jobs[j].status = "dead" => jobs[j].attempts >= jobs[j].max_attempts

UnbornHasNone(j) == ~Exists(j) => jobs[j].max_attempts = 0

Counted == \A j \in Jobs : AttemptsLeft(j) /\ DeadHasNone(j) /\ UnbornHasNone(j)

(* At first there is no job. *)
LEMMA InitCounted == Init => Counted
<1> SUFFICES ASSUME Init, NEW j \in Jobs
             PROVE  AttemptsLeft(j) /\ DeadHasNone(j) /\ UnbornHasNone(j)
  BY DEF Counted
<1>1. jobs[j].status = "absent" /\ jobs[j].max_attempts = 0
  BY DEF Init, StoresInit, NoRow
<1> QED
  BY <1>1 DEF AttemptsLeft, DeadHasNone, UnbornHasNone, Exists

(* Every step keeps the count: a failure is counted on the copy of the     *)
(* goroutine that has the job, and the copy agrees with the row.            *)
LEMMA NextCounted ==
  ASSUME OrderlyFaults
  PROVE  /\ TypeOK /\ RoutedIds /\ Delivered /\ Delivered' /\ Recorded /\ Counted
         /\ [Next]_vars
         => Counted'
<1> SUFFICES ASSUME TypeOK, RoutedIds, Delivered, Delivered', Recorded, Counted,
                    [Next]_vars, NEW j \in Jobs
             PROVE  AttemptsLeft(j)' /\ DeadHasNone(j)' /\ UnbornHasNone(j)'
  BY DEF Counted
<1>0. /\ jobs[j].attempts \in Nat /\ jobs[j].max_attempts \in Int
      /\ AttemptsLeft(j) /\ DeadHasNone(j) /\ UnbornHasNone(j)
  BY StoresParts DEF TypeOK, RowsTypeOK, JobRow, Counted
<1>1. CASE Unmoved(j) \/ \E c \in Clients : Withdrawn(c, j)
  <2>1. /\ jobs'[j].attempts = jobs[j].attempts
        /\ jobs'[j].max_attempts = jobs[j].max_attempts
        /\ jobs'[j].status \in {jobs[j].status, "failed"}
    BY <1>1 DEF Unmoved, Withdrawn
  <2>2. UnbornHasNone(j)' /\ DeadHasNone(j)'
    BY <1>0, <2>1 DEF UnbornHasNone, DeadHasNone, Exists
  <2>3. CASE Live(j)
    BY <1>0, <2>1, <2>2, <2>3 DEF AttemptsLeft
  <2>4. CASE ~Live(j) /\ ~Exists(j)
    BY <1>0, <2>1, <2>2, <2>4 DEF AttemptsLeft, UnbornHasNone
  <2>5. CASE ~Live(j) /\ Exists(j)
    <3>1. Quiet(j)' \/ \E c \in Clients : Replayed(c, j)
      BY <2>5, StaysQuiet DEF Live, Exists
    <3>2. CASE Quiet(j)'
      <4>1. ~Live(j)'
        BY <2>1, <2>5, <3>2 DEF Live
      <4> QED
        BY <1>0, <2>1, <2>2, <4>1 DEF AttemptsLeft
    <3>3. CASE \E c \in Clients : Replayed(c, j)
      BY <1>0, <2>1, <2>2, <3>3 DEF Replayed, AttemptsLeft
    <3> QED
      BY <3>1, <3>2, <3>3
  <2> QED
    BY <2>3, <2>4, <2>5
<1>2. CASE Created(j)
  <2>1. PICK r \in Requests : jobs'[j] = NewRow(r)
    BY <1>2 DEF Created
  <2>2. jobs'[j].status = "pending" /\ jobs'[j].attempts = 0 /\ jobs'[j].max_attempts \in Int
    BY <2>1, NewRowType DEF NewRow, NoRow, JobRow
  <2> QED
    BY <2>2 DEF AttemptsLeft, DeadHasNone, UnbornHasNone, Exists
<1>3. CASE \E c \in Clients : Replayed(c, j)
  BY <1>0, <1>3 DEF Replayed, AttemptsLeft, DeadHasNone, UnbornHasNone, Exists
<1>4. CASE \E t \in Threads : Requeued(t, j)
  <2>1. Live(j)
    BY <1>4 DEF Requeued, Live, Quiet
  <2> QED
    BY <1>0, <1>4, <2>1
       DEF Requeued, AttemptsLeft, DeadHasNone, UnbornHasNone, Exists
<1>5. ASSUME NEW g \in Goroutines, Marked(g, j) \/ Finished(g, j)
      PROVE  AttemptsLeft(j)' /\ DeadHasNone(j)' /\ UnbornHasNone(j)'
  <2>1. Live(j)
    BY <1>5, PlaceOf DEF Marked, Finished, Live, Quiet
  <2> QED
    BY <1>0, <1>5, <2>1
       DEF Marked, Finished, AttemptsLeft, DeadHasNone, UnbornHasNone, Exists
<1>6. ASSUME NEW g \in Goroutines, Failed(g, j)
      PROVE  AttemptsLeft(j)' /\ DeadHasNone(j)' /\ UnbornHasNone(j)'
  <2>1. Live(j)
    BY <1>6, PlaceOf DEF Failed, Live, Quiet
  <2>2. gor[g].job = j /\ gor[g].attempts = jobs[j].attempts
    BY <1>6 DEF Failed, HoldsGoroutine, Recorded, CopyAgrees
  <2>3. /\ jobs'[j].attempts = jobs[j].attempts + 1
        /\ jobs'[j].max_attempts = jobs[j].max_attempts
        /\ jobs'[j].status = IF jobs[j].attempts + 1 >= jobs[j].max_attempts
                             THEN "dead" ELSE "pending"
    BY <1>6, <2>2 DEF Failed, Exhausted
  <2>4. jobs'[j].status = "dead" => ~Live(j)'
    BY DEF Delivered, JobInv, SettledHasNone, Settled, OwnedPlace, Live, Quiet
  <2> QED
    BY <1>0, <2>1, <2>3, <2>4 DEF AttemptsLeft, DeadHasNone, UnbornHasNone, Exists
<1>7. RowStep(j)
  BY RowSteps
<1> QED
  BY <1>1, <1>2, <1>3, <1>4, <1>5, <1>6, <1>7 DEF RowStep

(* No job is tried more often than its limit, and only a job that has been  *)
(* is dead, although each goroutine computes the attempts from the copy it  *)
(* loaded (ScheduleRetry).                                                  *)
THEOREM AttemptsStayWithinLimit ==
  ASSUME OrderlyFaults PROVE Spec /\ []ReplaysApart => []AttemptsWithinLimit
<1>1. Counted => AttemptsWithinLimit
  BY DEF Counted, AttemptsLeft, DeadHasNone, AttemptsWithinLimit
<1>2. Init => Counted
  BY InitCounted
<1>3. /\ TypeOK /\ RoutedIds /\ Delivered /\ Delivered' /\ Recorded /\ Counted
      /\ [Next]_vars
      => Counted'
  BY NextCounted
<1> QED
  BY <1>1, <1>2, <1>3, TypeCorrectness, IdsAreRouted, AlwaysDelivered, AlwaysRecorded,
     PTL DEF Spec

-----------------------------------------------------------------------------
(* The dead letter list.                                                   *)

\* As long as nothing has failed, no worker has stopped.
Unharmed == faults = 0 => \A w \in Workers : proc[w] = "up"

\* A dead job is in the list, or the goroutine that failed it will put it there.
Listed(j) ==
  (jobs[j].status = "dead" /\ faults = 0) =>
    \/ deadList[j] > 0
    \/ \E g \in Goroutines : gor[g].pc = "bury" /\ gor[g].job = j

Buried == Unharmed /\ \A j \in Jobs : Listed(j)

(* At first there is no job. *)
LEMMA InitBuried == Init => Buried
<1> SUFFICES ASSUME Init PROVE Buried
  OBVIOUS
<1>1. \A j \in Jobs : jobs[j].status # "dead"
  BY DEF Init, StoresInit, NoRow
<1> QED
  BY <1>1 DEF Buried, Unharmed, Listed, Init, WorkerInit

(* The budget of faults never grows back: a step after which nothing has    *)
(* failed is none that fails.                                               *)
LEMMA FaultsGrow ==
  ASSUME TypeOK, [Next]_vars, faults' = 0
  PROVE  NoFault /\ faults = 0 /\ \A kind : ~Fault(kind)
<1>1. faults \in Nat
  BY StoresParts DEF TypeOK, BudgetTypeOK
<1>2. \A kind : ~Fault(kind)
  BY <1>1 DEF Fault
<1>3. NoFault
  <2>1. CASE Clock
    BY <1>2, <2>1 DEF Clock, BecomeDue, BecomeStuck, NoFault
  <2>2. CASE Server
    BY <1>2, <2>2
       DEF Server, StopServer, StopScheduler, ExitServer, CrashServer, StartServer,
           SchedulerStep, ThreadStep, DelayedTick, RemoveDue, StuckTick, StartupScan,
           ResetJob, PushJob, FailedWrite, storeVars, NoFault
  <2>3. CASE WorkersNext
    <3>1. CASE \E w \in Workers : WorkerProcess(w)
      BY <1>2, <3>1
         DEF WorkerProcess, StopWorker, WorkerStopped, CrashWorker, StartWorker,
             storeVars, NoFault
    <3>2. CASE \E g \in Goroutines : GoroutineStep(g)
      BY <1>2, <3>2
         DEF GoroutineStep, StopLoop, PollPriority, BlockingPop, PopTimeout, LoadJob,
             MarkRunning, CompleteJob, FailJob, DelayRetry, BuryJob, FailedWrite,
             storeVars, NoFault
    <3> QED
      BY <2>3, <3>1, <3>2 DEF WorkersNext
  <2>4. CASE ClientsNext
    <3>1. PICK c \in Clients : ClientStep(c) \/ ClientRequest(c)
      BY <2>4 DEF ClientsNext
    <3>2. CASE CreateJob(c) \/ PlaceOrder(c) \/ ContinueOrder(c)
      <4>1. PICK r \in Requests, rest \in Seq(Requests) : Create(c, r, rest)
        BY <3>2, CreateSteps DEF TypeOK
      <4> QED
        BY <1>2, <4>1 DEF Create, FailedWrite
    <3> QED
      BY <1>2, <3>1, <3>2
         DEF ClientStep, ClientRequest, DelayJob, PushRequest, ReplayCheck, ReplayReset,
             ReplayRemove, CancelCheck, CancelJob, FailedWrite, storeVars, NoFault
  <2>5. CASE UNCHANGED vars
    BY <2>5 DEF vars, storeVars, NoFault
  <2> QED
    BY <2>1, <2>2, <2>3, <2>4, <2>5 DEF Next
<1> QED
  BY <1>2, <1>3 DEF NoFault

(* Only a replay takes a job off the dead letter list. *)
LEMMA DeadListSteps ==
  ASSUME TypeOK, [Next]_vars, NEW j \in Jobs
  PROVE  deadList'[j] >= deadList[j] \/ \E c \in Clients : HoldsClient(c, j)
<1>0. RedisTypeOK /\ deadList[j] \in Nat
  BY StoresParts DEF TypeOK, RedisTypeOK
<1>1. ASSUME UNCHANGED deadList PROVE deadList'[j] >= deadList[j]
  BY <1>0, <1>1
<1>2. ASSUME NEW k, PushToRedis(k) \/ EnqueueDelayed(k) PROVE UNCHANGED deadList
  BY <1>2 DEF PushToRedis, Enqueue, EnqueuePriority, EnqueueDelayed
<1>3. ASSUME NEW k, EnqueueDead(k) PROVE deadList'[j] >= deadList[j]
  BY <1>0, <1>3 DEF EnqueueDead, RedisTypeOK
<1>4. CASE Clock
  BY <1>1, <1>4 DEF Clock, BecomeDue, BecomeStuck, redisVars
<1>5. CASE Server
  BY <1>1, <1>2, <1>5
     DEF Server, StopServer, StopScheduler, ExitServer, CrashServer, StartServer,
         SchedulerStep, ThreadStep, DelayedTick, RemoveDue, StuckTick, StartupScan,
         ResetJob, PushJob, storeVars, redisVars
<1>6. CASE WorkersNext
  <2>1. CASE \E w \in Workers : WorkerProcess(w)
    BY <1>1, <2>1
       DEF WorkerProcess, StopWorker, WorkerStopped, CrashWorker, StartWorker,
           storeVars, redisVars
  <2>2. CASE \E g \in Goroutines : GoroutineStep(g)
    BY <1>1, <1>2, <1>3, <2>2
       DEF GoroutineStep, StopLoop, PollPriority, BlockingPop, PopTimeout, LoadJob,
           MarkRunning, CompleteJob, FailJob, DelayRetry, BuryJob, storeVars, redisVars
  <2> QED
    BY <1>6, <2>1, <2>2 DEF WorkersNext
<1>7. CASE ClientsNext
  <2>1. PICK c \in Clients : ClientStep(c) \/ ClientRequest(c)
    BY <1>7 DEF ClientsNext
  <2>2. CASE CreateJob(c) \/ PlaceOrder(c) \/ ContinueOrder(c)
    BY <1>1, <2>2, CreateSteps DEF TypeOK, redisVars
  <2>3. CASE ReplayRemove(c)
    <3>1. CASE cl[c].job = j
      BY <2>3, <3>1 DEF ReplayRemove, HoldsClient
    <3>2. CASE cl[c].job # j
      BY <1>0, <2>3, <3>2 DEF ReplayRemove, RemoveFromDead, RedisTypeOK, redisVars
    <3> QED
      BY <3>1, <3>2
  <2> QED
    BY <1>1, <1>2, <2>1, <2>2, <2>3
       DEF ClientStep, ClientRequest, DelayJob, PushRequest, ReplayCheck, ReplayReset,
           CancelCheck, CancelJob, storeVars, redisVars
<1>8. CASE UNCHANGED vars
  BY <1>1, <1>8 DEF vars, storeVars
<1> QED
  BY <1>4, <1>5, <1>6, <1>7, <1>8 DEF Next

(* A goroutine of a worker that is up puts the dead job in the list. *)
LEMMA BurySteps ==
  ASSUME TypeOK, [Next]_vars, Unharmed, faults' = 0, NEW j \in Jobs, NEW g \in Goroutines,
         gor[g].pc = "bury", gor[g].job = j
  PROVE  gor'[g] = gor[g] \/ deadList'[j] > 0
<1>0. /\ WorkerTypeOK /\ RedisTypeOK
      /\ faults = 0 /\ \A kind : ~Fault(kind)
      /\ \A w \in Workers : proc[w] = "up"
  BY StoresParts, FaultsGrow DEF TypeOK, Unharmed
<1>1. CASE \E w \in Workers : WorkerProcess(w)
  BY <1>0, <1>1 DEF WorkerProcess, StopWorker, WorkerStopped, CrashWorker, StartWorker
<1>2. ASSUME NEW h \in Goroutines, GoroutineStep(h)
      PROVE  gor'[g] = gor[g] \/ deadList'[j] > 0
  <2>1. CASE h = g
    <3>1. BuryJob(g)
      BY <1>2, <2>1
         DEF GoroutineStep, StopLoop, PollPriority, BlockingPop, PopTimeout, LoadJob,
             MarkRunning, CompleteJob, FailJob, DelayRetry
    <3>2. ~Cancelled(g)
      BY <1>0 DEF Cancelled, Goroutines
    <3>3. EnqueueDead(j)
      BY <1>0, <3>1, <3>2 DEF BuryJob
    <3> QED
      BY <1>0, <3>3 DEF EnqueueDead, RedisTypeOK
  <2>2. CASE h # g
    <3>1. \A state : Go(h, state) => gor'[g] = gor[g]
      BY <1>0, <2>2 DEF Go, WorkerTypeOK
    <3> QED
      BY <1>2, <3>1
         DEF GoroutineStep, StopLoop, PollPriority, NextQueue, BlockingPop, PopTimeout,
             LoadJob, MarkRunning, CompleteJob, FailJob, DelayRetry, BuryJob
  <2> QED
    BY <2>1, <2>2
<1>3. CASE UNCHANGED gor
  BY <1>3
<1> QED
  BY <1>1, <1>2, <1>3
     DEF Next, Clock, BecomeStuck, Server, StopServer, StopScheduler, ExitServer,
         CrashServer, StartServer, WorkersNext, ClientsNext, vars, workerVars

(* Every step keeps it. *)
LEMMA NextBuried == TypeOK /\ Delivered /\ Buried /\ [Next]_vars => Buried'
<1> SUFFICES ASSUME TypeOK, Delivered, Buried, [Next]_vars PROVE Buried'
  OBVIOUS
<1>1. Unharmed'
  <2> SUFFICES ASSUME faults' = 0, NEW w \in Workers PROVE proc'[w] = "up"
    BY DEF Unharmed
  <2>1. /\ \A kind : ~Fault(kind)
        /\ \A v \in Workers : proc[v] = "up"
    BY FaultsGrow DEF Buried, Unharmed
  <2>2. CASE \E v \in Workers : WorkerProcess(v)
    BY <2>1, <2>2 DEF WorkerProcess, StopWorker, WorkerStopped, CrashWorker, StartWorker
  <2>3. CASE \E g \in Goroutines : GoroutineStep(g)
    BY <2>1, <2>3
       DEF GoroutineStep, StopLoop, PollPriority, BlockingPop, PopTimeout, LoadJob,
           MarkRunning, CompleteJob, FailJob, DelayRetry, BuryJob
  <2> QED
    BY <2>1, <2>2, <2>3
       DEF Next, Clock, BecomeStuck, Server, StopServer, StopScheduler, ExitServer,
           CrashServer, StartServer, WorkersNext, ClientsNext, vars, workerVars
<1>2. ASSUME NEW j \in Jobs, jobs'[j].status = "dead", faults' = 0
      PROVE  \/ deadList'[j] > 0
             \/ \E g \in Goroutines : gor'[g].pc = "bury" /\ gor'[g].job = j
  <2>1. NoFault /\ faults = 0
    BY <1>2, FaultsGrow
  <2>2. RowStep(j)
    BY RowSteps
  <2>3. CASE \E g \in Goroutines : Failed(g, j)
    BY <1>2, <2>1, <2>3 DEF Failed
  <2>4. CASE Unmoved(j)
    <3>1. jobs[j].status = "dead" /\ Listed(j)
      BY <1>2, <2>4 DEF Unmoved, Buried
    <3>2. ~\E c \in Clients : HoldsClient(c, j)
      BY <3>1, PlaceOf DEF Delivered, JobInv, SettledHasNone, Settled
    <3>3. deadList'[j] >= deadList[j]
      BY <3>2, DeadListSteps
    <3>4. deadList[j] \in Nat /\ deadList'[j] \in Nat
      BY NextTypeOK DEF TypeOK, StoresTypeOK
    <3>5. CASE deadList[j] > 0
      BY <3>3, <3>4, <3>5
    <3>6. CASE \E g \in Goroutines : gor[g].pc = "bury" /\ gor[g].job = j
      <4>1. PICK g \in Goroutines : gor[g].pc = "bury" /\ gor[g].job = j
        BY <3>6
      <4>2. gor'[g] = gor[g] \/ deadList'[j] > 0
        BY <1>2, <4>1, BurySteps DEF Buried
      <4> QED
        BY <4>1, <4>2
    <3> QED
      BY <2>1, <3>1, <3>5, <3>6 DEF Listed
  <2>5. CASE Created(j)
    <3>1. PICK r \in Requests : jobs'[j] = NewRow(r)
      BY <2>5 DEF Created
    <3> QED
      BY <1>2, <3>1 DEF NewRow, NoRow
  <2> QED
    BY <1>2, <2>2, <2>3, <2>4, <2>5
       DEF RowStep, Marked, Finished, Requeued, Replayed, Withdrawn
<1> QED
  BY <1>1, <1>2 DEF Buried, Listed

(* A dead job is in the dead letter list, or about to be, as long as        *)
(* nothing stops or fails (MoveToDeadLetter).                               *)
THEOREM DeadJobsAreListed ==
  ASSUME OrderlyFaults PROVE Spec /\ []ReplaysApart => []DeadIsListed
<1>1. Buried => DeadIsListed
  BY DEF Buried, Listed, DeadIsListed
<1> QED
  BY <1>1, InitBuried, NextBuried, TypeCorrectness, AlwaysDelivered, PTL DEF Spec

-----------------------------------------------------------------------------
(* The refinement of JobLifecycle.  As long as nothing is cancelled, what  *)
(* the invariants say of the place of a job tells the status of its row    *)
(* when a thread writes it.                                                *)

Uncancelled ==
  /\ \A c \in Clients : cl[c].pc # "cancel"
  /\ \A j \in Jobs : jobs[j].status # "failed"

(* At first nothing is cancelled. *)
LEMMA InitUncancelled == Init => Uncancelled
<1> SUFFICES ASSUME Init PROVE Uncancelled
  OBVIOUS
<1>1. \A c \in Clients : cl[c].pc = "idle"
  BY RequestFields DEF Init, ApiInit
<1>2. \A j \in Jobs : jobs[j].status = "absent"
  BY DEF Init, StoresInit, NoRow
<1> QED
  BY <1>1, <1>2 DEF Uncancelled

(* Without the operation no request cancels. *)
LEMMA NextUncancelled ==
  ASSUME "cancel" \notin Operations
  PROVE  TypeOK /\ Uncancelled /\ [Next]_vars => Uncancelled'
<1> SUFFICES ASSUME TypeOK, Uncancelled, [Next]_vars PROVE Uncancelled'
  OBVIOUS
<1>1. \A c \in Clients : cl'[c].pc # "cancel"
  BY RequestCalls DEF Uncancelled
<1>2. ASSUME NEW j \in Jobs PROVE jobs'[j].status # "failed"
  <2>1. RowStep(j)
    BY RowSteps
  <2>2. ~Created(j) \/ jobs'[j].status = "pending"
    BY DEF Created, NewRow, NoRow
  <2>3. \A c \in Clients : ~Withdrawn(c, j)
    BY DEF Withdrawn, Uncancelled
  <2> QED
    BY <2>1, <2>2, <2>3
       DEF RowStep, Unmoved, Marked, Finished, Failed, Requeued, Replayed, Uncancelled
<1> QED
  BY <1>1, <1>2 DEF Uncancelled

(* A step writes one row at most. *)
LEMMA OneRow ==
  ASSUME TypeOK, [Next]_vars
  PROVE  \E k : \A j \in Jobs \ {k} : jobs'[j] = jobs[j]
<1>0. RowsTypeOK /\ ApiTypeOK
  BY StoresParts DEF TypeOK
<1>1. CASE UNCHANGED jobs
  BY <1>1
<1>2. ASSUME NEW k, NEW row, WriteRow(k, row) \/ FailedWrite(k, row)
      PROVE  \A j \in Jobs \ {k} : jobs'[j] = jobs[j]
  BY <1>0, <1>2 DEF WriteRow, FailedWrite, RowsTypeOK
<1>3. CASE Clock
  BY <1>1, <1>2, <1>3 DEF Clock, BecomeDue, BecomeStuck
<1>4. CASE Server
  BY <1>1, <1>2, <1>4
     DEF Server, StopServer, StopScheduler, ExitServer, CrashServer, StartServer,
         SchedulerStep, ThreadStep, DelayedTick, RemoveDue, StuckTick, StartupScan,
         ResetJob, PushJob, storeVars
<1>5. CASE WorkersNext
  BY <1>1, <1>2, <1>5
     DEF WorkersNext, WorkerProcess, StopWorker, WorkerStopped, CrashWorker,
         StartWorker, GoroutineStep, StopLoop, PollPriority, BlockingPop, PopTimeout,
         LoadJob, MarkRunning, CompleteJob, FailJob, DelayRetry, BuryJob, storeVars
<1>6. CASE ClientsNext
  <2>1. PICK c \in Clients : ClientStep(c) \/ ClientRequest(c)
    BY <1>6 DEF ClientsNext
  <2>2. CASE CreateJob(c) \/ PlaceOrder(c) \/ ContinueOrder(c)
    BY <1>0, <1>2, <2>2, CreateSteps DEF Create
  <2> QED
    BY <1>1, <1>2, <2>1, <2>2
       DEF ClientStep, ClientRequest, DelayJob, PushRequest, ReplayRemove, ReplayCheck,
           ReplayReset, CancelCheck, CancelJob, storeVars
<1> QED
  BY <1>1, <1>3, <1>4, <1>5, <1>6 DEF Next, vars, storeVars

\* What JobLifecycle sees of the row of job j.
Seen(j) ==
  [status |-> jobs[j].status, attempts |-> jobs[j].attempts,
   limit |-> jobs[j].max_attempts]

(* The state of JobLifecycle after a step that moves one job. *)
LEMMA SeenStep ==
  ASSUME NEW k, \A j \in Jobs \ {k} : jobs'[j] = jobs[j]
  PROVE  /\ k \notin Jobs \/ Seen(k)' = Seen(k) => LifecycleState' = LifecycleState
         /\ \A s : Seen(k)' = s => LifecycleState' = [LifecycleState EXCEPT ![k] = s]
<1>1. /\ LifecycleState = [j \in Jobs |-> Seen(j)]
      /\ LifecycleState' = [j \in Jobs |-> Seen(j)']
  BY DEF LifecycleState, Seen
<1>2. \A j \in Jobs \ {k} : Seen(j)' = Seen(j)
  BY DEF Seen
<1> HIDE DEF Seen
<1> QED
  BY <1>1, <1>2

\* After a step the row of job j has these, and the limit it had.
SeenAs(j, status, attempts) ==
  Seen(j)' = [status |-> status, attempts |-> attempts, limit |-> jobs[j].max_attempts]

(* Every step of a row is a step of JobLifecycle, or none. *)
LEMMA RowMoves ==
  ASSUME TypeOK, RoutedIds, Delivered, Recorded, Uncancelled, Uncancelled',
         NEW j \in Jobs, RowStep(j)
  PROVE  \/ Seen(j)' = Seen(j)
         \/ /\ ~Exists(j)
            /\ \E r \in Requests :
                 Seen(j)' = [status |-> "pending", attempts |-> 0,
                             limit |-> NewRow(r).max_attempts]
         \/ jobs[j].status = "pending" /\ SeenAs(j, "running", jobs[j].attempts)
         \/ jobs[j].status = "running" /\ SeenAs(j, "completed", jobs[j].attempts)
         \/ jobs[j].status = "running" /\ SeenAs(j, "pending", jobs[j].attempts)
         \/ /\ jobs[j].status = "running"
            /\ jobs[j].attempts + 1 < jobs[j].max_attempts
            /\ SeenAs(j, "pending", jobs[j].attempts + 1)
         \/ /\ jobs[j].status = "running"
            /\ jobs[j].attempts + 1 >= jobs[j].max_attempts
            /\ SeenAs(j, "dead", jobs[j].attempts + 1)
         \/ jobs[j].status = "dead" /\ SeenAs(j, "pending", 0)
<1>0. /\ WorkerTypeOK /\ jobs[j].status \in Statuses /\ jobs[j].status # "failed"
      /\ jobs[j].attempts \in Nat /\ jobs[j].max_attempts \in Int
  BY StoresParts DEF TypeOK, RowsTypeOK, JobRow, Uncancelled
<1>1. CASE Unmoved(j)
  BY <1>1 DEF Unmoved, Seen
<1>2. CASE Created(j)
  BY <1>2 DEF Created, Seen, NewRow, NoRow
<1>3. ASSUME NEW g \in Goroutines, HoldsGoroutine(g, j)
      PROVE  /\ Exists(j) /\ ~Settled(j)
             /\ gor[g].job = j
             /\ jobs[j].status = "running" <=> gor[g].pc = "exec"
             /\ gor[g].pc = "exec" => gor[g].attempts = jobs[j].attempts
  <2>1. ~Settled(j) /\ (jobs[j].status = "running" => gor[g].pc = "exec")
    BY <1>3, GoroutineAlone DEF Delivered
  <2>2. gor[g].job = j /\ Exists(j)
    BY <1>3, StoresAssumption DEF HoldsGoroutine, RoutedIds, RoutedThreads
  <2>3. gor[g].pc = "exec" => /\ jobs[j].status = "running"
                              /\ gor[g].attempts = jobs[j].attempts
    BY <2>2 DEF Recorded, CopyAgrees, RunIsRecorded, Uncancelled
  <2> QED
    BY <2>1, <2>2, <2>3
<1>4. ASSUME NEW g \in Goroutines, Marked(g, j)
      PROVE  /\ jobs[j].status = "pending"
             /\ SeenAs(j, "running", jobs[j].attempts)
  <2>1. jobs[j].status = "pending"
    BY <1>0, <1>3, <1>4 DEF Marked, Statuses, Exists, Settled
  <2> QED
    BY <1>4, <2>1 DEF Marked, Seen, SeenAs
<1>5. ASSUME NEW g \in Goroutines, Finished(g, j)
      PROVE  /\ jobs[j].status = "running"
             /\ SeenAs(j, "completed", jobs[j].attempts)
  BY <1>3, <1>5 DEF Finished, Seen, SeenAs
<1>6. ASSUME NEW g \in Goroutines, Failed(g, j)
      PROVE  /\ jobs[j].status = "running"
             /\ IF jobs[j].attempts + 1 >= jobs[j].max_attempts
                THEN SeenAs(j, "dead", jobs[j].attempts + 1)
                ELSE SeenAs(j, "pending", jobs[j].attempts + 1)
  <2>1. /\ gor[g].job = j /\ gor[g].attempts = jobs[j].attempts
        /\ jobs[j].status = "running"
    BY <1>3, <1>6 DEF Failed
  <2>2. /\ jobs'[j].status = IF jobs[j].attempts + 1 >= jobs[j].max_attempts
                             THEN "dead" ELSE "pending"
        /\ jobs'[j].attempts = jobs[j].attempts + 1
        /\ jobs'[j].max_attempts = jobs[j].max_attempts
    BY <1>6, <2>1 DEF Failed, Exhausted
  <2> QED
    BY <2>1, <2>2 DEF Seen, SeenAs
<1>7. ASSUME NEW t \in Threads, Requeued(t, j)
      PROVE  \/ Seen(j)' = Seen(j)
             \/ /\ jobs[j].status = "running"
                /\ SeenAs(j, "pending", jobs[j].attempts)
  <2>1. jobs[j].status \in {"pending", "running"}
    BY <1>0, <1>7 DEF Requeued, Delivered, JobInv, OwnedPlace
  <2> QED
    BY <1>7, <2>1 DEF Requeued, Seen, SeenAs
<1>8. ASSUME NEW c \in Clients, Replayed(c, j)
      PROVE  /\ jobs[j].status = "dead"
             /\ SeenAs(j, "pending", 0)
  <2>1. jobs[j].status = "dead"
    BY <1>0, <1>8 DEF Replayed, Delivered, JobInv, ReplayedHasNone
  <2> QED
    BY <1>8, <2>1 DEF Replayed, Seen, SeenAs
<1>9. ASSUME NEW c \in Clients PROVE ~Withdrawn(c, j)
  BY DEF Withdrawn, Uncancelled
<1> QED
  BY <1>0, <1>1, <1>2, <1>4, <1>5, <1>6, <1>7, <1>8, <1>9 DEF RowStep

(* Every step of the system is a step of JobLifecycle, or none. *)
LEMMA LifecycleStep ==
  ASSUME TypeOK, RoutedIds, Delivered, Recorded, Uncancelled, Uncancelled', [Next]_vars
  PROVE  [Lifecycle!LifecycleNext]_LifecycleState
<1>1. PICK k : \A j \in Jobs \ {k} : jobs'[j] = jobs[j]
  BY OneRow
<1>2. CASE k \notin Jobs \/ Seen(k)' = Seen(k)
  BY <1>1, <1>2, SeenStep
<1>3. CASE k \in Jobs /\ Seen(k)' # Seen(k)
  <2>1. RowStep(k) /\ LifecycleState[k] = Seen(k)
    BY <1>3, RowSteps DEF LifecycleState, Seen
  <2>2. ASSUME NEW s, Seen(k)' = s
        PROVE  LifecycleState' = [LifecycleState EXCEPT ![k] = s]
    BY <1>1, <2>2, SeenStep
  <2>3. /\ Seen(k).status = jobs[k].status
        /\ Seen(k).attempts = jobs[k].attempts
        /\ Seen(k).limit = jobs[k].max_attempts
        /\ jobs[k].attempts \in Nat /\ jobs[k].max_attempts \in Int
    BY <1>3, StoresParts DEF Seen, TypeOK, RowsTypeOK, JobRow
  <2>4. ASSUME NEW from, NEW to, NEW n, jobs[k].status = from, SeenAs(k, to, n)
        PROVE  Lifecycle!Moves(k, from, to, n)
    BY <2>1, <2>2, <2>3, <2>4 DEF Lifecycle!Moves, SeenAs
  <2>5. ASSUME ~Exists(k), NEW r \in Requests,
               Seen(k)' = [status |-> "pending", attempts |-> 0,
                           limit |-> NewRow(r).max_attempts]
        PROVE  Lifecycle!Submit(k)
    BY <2>1, <2>2, <2>3, <2>5 DEF Lifecycle!Submit, Exists
  <2>6. \/ Lifecycle!Submit(k) \/ Lifecycle!Begin(k) \/ Lifecycle!Complete(k)
        \/ Lifecycle!Requeue(k) \/ Lifecycle!Retry(k) \/ Lifecycle!Exhaust(k)
        \/ Lifecycle!Replay(k)
    BY <1>3, <2>1, <2>3, <2>4, <2>5, RowMoves
       DEF Lifecycle!Begin, Lifecycle!Complete, Lifecycle!Retry, Lifecycle!Exhaust,
           Lifecycle!Requeue, Lifecycle!Replay
  <2> QED
    BY <1>3, <2>6 DEF Lifecycle!LifecycleNext
<1> QED
  BY <1>2, <1>3

(* Without cancellations every row goes through its statuses the way        *)
(* JobLifecycle says, whatever crashes or fails between two calls: the      *)
(* system implements it.                                                    *)
THEOREM RowsImplementLifecycle ==
  ASSUME OrderlyFaults, "cancel" \notin Operations
  PROVE  Spec /\ []ReplaysApart => ImplementsLifecycle
<1>1. Init => Lifecycle!LifecycleInit
  <2> SUFFICES ASSUME Init PROVE Lifecycle!LifecycleInit
    OBVIOUS
  <2>1. \A j \in Jobs : /\ jobs[j].status = "absent" /\ jobs[j].attempts = 0
                        /\ jobs[j].max_attempts = 0
    BY DEF Init, StoresInit, NoRow
  <2> QED
    BY <2>1 DEF Lifecycle!LifecycleInit, Lifecycle!Unborn, LifecycleState
<1>2. Init => Uncancelled
  BY InitUncancelled
<1>3. TypeOK /\ Uncancelled /\ [Next]_vars => Uncancelled'
  BY NextUncancelled
<1>4. /\ TypeOK /\ RoutedIds /\ Delivered /\ Recorded /\ Uncancelled /\ Uncancelled'
      /\ [Next]_vars
      => [Lifecycle!LifecycleNext]_LifecycleState
  BY LifecycleStep
<1> QED
  BY <1>1, <1>2, <1>3, <1>4, TypeCorrectness, IdsAreRouted, AlwaysDelivered,
     AlwaysRecorded, PTL DEF Spec, ImplementsLifecycle, Lifecycle!LifecycleSpec
=============================================================================
