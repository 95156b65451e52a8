------------------------------- MODULE Worker -------------------------------
(***************************************************************************)
(* The worker processes of cmd/worker: each runs Concurrency goroutines,   *)
(* and each goroutine repeats Worker.loop: dequeue an id, load the job,    *)
(* mark it running, run its handler, and record the outcome.  A goroutine  *)
(* gives up the processor between two store calls only, so its program     *)
(* counter names the store call it makes next:                             *)
(*                                                                         *)
(*   poll    ZPOPMAX on the idx-th priority queue (idx = 1 is the loop top) *)
(*   brpop   BRPOP on all the lists                                        *)
(*   load    GetJob of the id it popped                                    *)
(*   mark    UpdateJobStatus(running)                                      *)
(*   exec    the handler runs, then the outcome is written to the row      *)
(*   delay   EnqueueDelayed of ScheduleRetry                               *)
(*   bury    EnqueueDead of MoveToDeadLetter                               *)
(*   exited  the goroutine has returned, or its process is gone            *)
(***************************************************************************)
EXTENDS Stores

CONSTANTS
  Concurrency,   \* WORKER_CONCURRENCY
  WorkerQueues   \* WORKER_QUEUES, in the order the worker tries them

ASSUME WorkerAssumption ==
  /\ Concurrency \in Nat \ {0}
  /\ WorkerQueues \in Seq(Queues)
  /\ WorkerQueues # <<>>

VARIABLES
  proc,   \* the state of each worker process
  gor     \* the state of each worker goroutine

workerVars == <<proc, gor>>

Goroutines == Workers \X (1 .. Concurrency)

WorkerPC == {"poll", "brpop", "load", "mark", "exec", "delay", "bury", "exited"}

\* attempts is the job.Attempts of the copy GetJob returned: every later step
\* of the goroutine uses the copy, never the row.
GoroutineState ==
  [pc : WorkerPC, idx : Nat, job : Jobs \cup {NoJob}, attempts : Nat]

At(pc, idx, j, attempts) ==
  [pc |-> pc, idx |-> idx, job |-> j, attempts |-> attempts]

LoopTop == At("poll", 1, NoJob, 0)
Exited == At("exited", 1, NoJob, 0)

WorkerTypeOK ==
  /\ proc \in [Workers -> {"up", "stopping", "stopped", "crashed"}]
  /\ gor \in [Goroutines -> GoroutineState]
  /\ \A g \in Goroutines :
       /\ gor[g].idx \in 1 .. Len(WorkerQueues)
       /\ gor[g].job = NoJob <=> gor[g].pc \in {"poll", "brpop", "exited"}

WorkerInit ==
  /\ proc = [w \in Workers |-> "up"]
  /\ gor = [g \in Goroutines |-> LoopTop]

Go(g, state) == gor' = [gor EXCEPT ![g] = state]

\* ctx.Done(): SIGTERM has reached the process of g.  A redis call made with
\* a cancelled context returns an error and sends nothing.
Cancelled(g) == proc[g[1]] = "stopping"

-----------------------------------------------------------------------------
(* Worker.loop and RedisStore.Dequeue.                                     *)

\* Mutant: the context is looked at between any two calls, also while the
\* goroutine has a job.
StopLoopAnywhere(g) ==
  /\ gor[g].pc # "exited"
  /\ Cancelled(g)
  /\ Go(g, Exited)
  /\ UNCHANGED <<proc, storeVars>>

\* Mutant: an error of Dequeue makes the loop go on, whatever the context.
StopLoopContinues(g) ==
  /\ gor[g].pc \in {"poll", "brpop"}
  /\ Cancelled(g)
  /\ Go(g, LoopTop)
  /\ UNCHANGED <<proc, storeVars>>

\* The context is cancelled: at the loop top, or because ZPOPMAX and then
\* BRPOP fail with it.
StopLoop(g) ==
  /\ gor[g].pc \in {"poll", "brpop"}
  /\ Cancelled(g)
  /\ Go(g, Exited)
  /\ UNCHANGED <<proc, storeVars>>

\* Mutant: the bound of the loop over the queues is off by one.
NextQueuePastEnd(g) ==
  \/ /\ gor[g].idx <= Len(WorkerQueues)
     /\ Go(g, At("poll", gor[g].idx + 1, NoJob, 0))
  \/ /\ gor[g].idx > Len(WorkerQueues)
     /\ Go(g, At("brpop", 1, NoJob, 0))

\* The priority queue is empty, or ZPOPMAX has failed: try the next one, and
\* after the last one block on the lists.
NextQueue(g) ==
  \/ /\ gor[g].idx < Len(WorkerQueues)
     /\ Go(g, At("poll", gor[g].idx + 1, NoJob, 0))
  \/ /\ gor[g].idx = Len(WorkerQueues)
     /\ Go(g, At("brpop", 1, NoJob, 0))

PollPriority(g) ==
  LET q == WorkerQueues[gor[g].idx] IN
  /\ gor[g].pc = "poll"
  /\ ~Cancelled(g)
  /\ \/ \E j \in HighestPriority(q) :
          /\ prio' = [prio EXCEPT ![q] = @ \ {j}]
          /\ \/ Go(g, At("load", 1, j, 0)) /\ NoFault
             \/ NextQueue(g) /\ Fault("lost_reply")
     \/ /\ (prio[q] = {} /\ NoFault) \/ Fault("redis_error")
        /\ NextQueue(g)
        /\ UNCHANGED prio
  /\ UNCHANGED <<proc, jobs, lists, delayed, deadList>>

\* BRPOP takes the oldest id of the first list that has one.  It was sent
\* before a SIGTERM could cancel the context, so it runs to its end.
FirstNonEmpty(i) ==
  /\ lists[WorkerQueues[i]] # <<>>
  /\ \A k \in 1 .. i - 1 : lists[WorkerQueues[k]] = <<>>

BlockingPop(g) ==
  /\ gor[g].pc = "brpop"
  /\ \E i \in DOMAIN WorkerQueues :
       LET q == WorkerQueues[i] IN
       /\ FirstNonEmpty(i)
       /\ lists' = [lists EXCEPT ![q] = Tail(@)]
       /\ \/ Go(g, At("load", 1, Head(lists[q]), 0)) /\ NoFault
          \/ Go(g, LoopTop) /\ Fault("lost_reply")
  /\ UNCHANGED <<proc, jobs, prio, delayed, deadList>>

\* BRPOP times out after 5 s (redis.Nil) or fails: loop again.
PopTimeout(g) ==
  /\ gor[g].pc = "brpop"
  /\ \/ /\ \A i \in DOMAIN WorkerQueues : lists[WorkerQueues[i]] = <<>>
        /\ NoFault
     \/ Fault("redis_error")
  /\ Go(g, LoopTop)
  /\ UNCHANGED <<proc, jobs, redisVars>>

-----------------------------------------------------------------------------
(* Worker.processJob.  Whatever its status, the job is run.  GetJob finds  *)
(* a row for every id that was popped (RoutedIds of Delivery).             *)

LoadJob(g) ==
  LET j == gor[g].job IN
  /\ gor[g].pc = "load"
  /\ \/ Go(g, At("mark", 1, j, jobs[j].attempts)) /\ NoFault
     \/ Go(g, LoopTop) /\ Fault("db_error")
  /\ UNCHANGED <<proc, jobs, redisVars>>

\* Mutant: started_at is not written.
RunningRowUndated(g) ==
  [jobs[gor[g].job] EXCEPT !.status = "running", !.worker_id = g[1]]

RunningRow(g) ==
  [jobs[gor[g].job] EXCEPT !.status = "running", !.started_at = "recent",
                           !.worker_id = g[1]]

\* Mutant: an error of the write is logged and the job is run.
MarkRunningIgnoringError(g) ==
  LET j == gor[g].job IN
  /\ gor[g].pc = "mark"
  /\ \/ WriteRow(j, RunningRow(g)) /\ NoFault
     \/ FailedWrite(j, RunningRow(g))
  /\ Go(g, [gor[g] EXCEPT !.pc = "exec"])
  /\ UNCHANGED <<proc, redisVars>>

MarkRunning(g) ==
  LET j == gor[g].job IN
  /\ gor[g].pc = "mark"
  /\ \/ /\ WriteRow(j, RunningRow(g)) /\ NoFault
        /\ Go(g, [gor[g] EXCEPT !.pc = "exec"])
     \/ FailedWrite(j, RunningRow(g)) /\ Go(g, LoopTop)
  /\ UNCHANGED <<proc, redisVars>>

\* The handler returns nil (or there is none for the type).  An error of the
\* write is ignored.
CompleteJob(g) ==
  LET j == gor[g].job
      row == [jobs[j] EXCEPT !.status = "completed"] IN
  /\ gor[g].pc = "exec"
  /\ \/ WriteRow(j, row) /\ NoFault
     \/ FailedWrite(j, row)
  /\ Go(g, LoopTop)
  /\ UNCHANGED <<proc, redisVars>>

-----------------------------------------------------------------------------
(* The handler returns an error or panics: Queue.ScheduleRetry and         *)
(* Queue.MoveToDeadLetter.                                                 *)

\* Mutant: the failure that has just happened is not counted.
ExhaustedBefore(g) == gor[g].attempts >= jobs[gor[g].job].max_attempts

Exhausted(g) == gor[g].attempts + 1 >= jobs[gor[g].job].max_attempts

FailedRow(g, status) ==
  [jobs[gor[g].job] EXCEPT !.status = status, !.attempts = gor[g].attempts + 1,
                           !.error = "handler error"]

\* Mutant: ScheduleRetry goes on after MoveToDeadLetter.
FailJobAlwaysDelays(g) ==
  LET j == gor[g].job
      row == FailedRow(g, IF Exhausted(g) THEN "dead" ELSE "pending") IN
  /\ gor[g].pc = "exec"
  /\ \/ /\ WriteRow(j, row) /\ NoFault
        /\ Go(g, [gor[g] EXCEPT !.pc = "delay"])
     \/ FailedWrite(j, row) /\ Go(g, LoopTop)
  /\ UNCHANGED <<proc, redisVars>>

FailJob(g) ==
  LET j == gor[g].job
      row == FailedRow(g, IF Exhausted(g) THEN "dead" ELSE "pending") IN
  /\ gor[g].pc = "exec"
  /\ \/ /\ WriteRow(j, row) /\ NoFault
        /\ Go(g, [gor[g] EXCEPT !.pc = IF Exhausted(g) THEN "bury" ELSE "delay"])
     \/ FailedWrite(j, row) /\ Go(g, LoopTop)
  /\ UNCHANGED <<proc, redisVars>>

\* The redis call that follows the write of the row: it fails if the
\* context is cancelled, and the error is only logged.
DelayRetry(g) ==
  /\ gor[g].pc = "delay"
  /\ \/ ~Cancelled(g) /\ EnqueueDelayed(gor[g].job) /\ NoFault /\ Go(g, LoopTop)
     \/ ~Cancelled(g) /\ EnqueueDelayed(gor[g].job) /\ Fault("resent") /\ UNCHANGED gor
     \/ Cancelled(g) /\ UNCHANGED redisVars /\ NoFault /\ Go(g, LoopTop)
     \/ UNCHANGED redisVars /\ Fault("redis_error") /\ Go(g, LoopTop)
  /\ UNCHANGED <<proc, jobs>>

BuryJob(g) ==
  /\ gor[g].pc = "bury"
  /\ \/ ~Cancelled(g) /\ EnqueueDead(gor[g].job) /\ NoFault /\ Go(g, LoopTop)
     \/ ~Cancelled(g) /\ EnqueueDead(gor[g].job) /\ Fault("resent") /\ UNCHANGED gor
     \/ Cancelled(g) /\ UNCHANGED redisVars /\ NoFault /\ Go(g, LoopTop)
     \/ UNCHANGED redisVars /\ Fault("redis_error") /\ Go(g, LoopTop)
  /\ UNCHANGED <<proc, jobs>>

GoroutineStep(g) ==
  \/ StopLoop(g) \/ PollPriority(g) \/ BlockingPop(g) \/ PopTimeout(g)
  \/ LoadJob(g) \/ MarkRunning(g) \/ CompleteJob(g) \/ FailJob(g)
  \/ DelayRetry(g) \/ BuryJob(g)

-----------------------------------------------------------------------------
(* Worker.Start and the life of the process.                               *)

ExitAll(w) == gor' = [g \in Goroutines |-> IF g[1] = w THEN Exited ELSE gor[g]]

\* SIGINT or SIGTERM cancels the context of every goroutine.
StopWorker(w) ==
  /\ proc[w] = "up"
  /\ Fault("worker_stop")
  /\ proc' = [proc EXCEPT ![w] = "stopping"]
  /\ UNCHANGED <<gor, jobs, redisVars>>

\* w.wg.Wait() returns once every goroutine has.
WorkerStopped(w) ==
  /\ proc[w] = "stopping"
  /\ \A g \in Goroutines : g[1] = w => gor[g].pc = "exited"
  /\ proc' = [proc EXCEPT ![w] = "stopped"]
  /\ UNCHANGED <<gor, storeVars>>

\* The process is killed between two store calls of its goroutines.
CrashWorker(w) ==
  /\ proc[w] \in {"up", "stopping"}
  /\ Fault("worker_crash")
  /\ proc' = [proc EXCEPT ![w] = "crashed"]
  /\ ExitAll(w)
  /\ UNCHANGED <<jobs, redisVars>>

\* docker compose starts a crashed container again (restart: unless-stopped),
\* and an operator may start a stopped one.
StartWorker(w) ==
  /\ proc[w] \in {"crashed", "stopped"}
  /\ proc' = [proc EXCEPT ![w] = "up"]
  /\ gor' = [g \in Goroutines |-> IF g[1] = w THEN LoopTop ELSE gor[g]]
  /\ UNCHANGED storeVars

=============================================================================
