------------------------------ MODULE Scheduler ------------------------------
(***************************************************************************)
(* The scheduler of the server process.  It has two threads: "loop" is     *)
(* Scheduler.Start, whose select promotes the due delayed jobs at one tick *)
(* and recovers the stuck jobs at another, never both at once; "startup"   *)
(* is the goroutine that recovers stuck jobs once when the server starts.  *)
(*                                                                         *)
(* The program counter of a thread names the call it makes next:           *)
(*   idle    the select of Start                                           *)
(*   scan    GetStuckJobs of the startup goroutine                         *)
(*   zrem    ZREM of the ids that ZRANGEBYSCORE returned                   *)
(*   reset   UpdateJobStatus(pending) of the next job of the batch         *)
(*   push    enqueueJob of that job                                        *)
(*   exited  the goroutine has returned, or its process is gone            *)
(*                                                                         *)
(* A batch is a set: the order of its jobs is that of scores the model     *)
(* does not keep.  GetJob of a promoted job is part of its "reset": the    *)
(* queue and the priority it reads never change.                           *)
(***************************************************************************)
EXTENDS Stores

VARIABLES
  server,   \* the state of the server process
  sch       \* the state of each thread of the scheduler

schedulerVars == <<server, sch>>

Threads == {"loop", "startup"}

ThreadState ==
  [pc    : {"idle", "scan", "zrem", "reset", "push", "exited"},
   mode  : {"promote", "recover"},
   batch : SUBSET Jobs,
   job   : Jobs \cup {NoJob}]

Thread(pc, mode, batch, j) ==
  [pc |-> pc, mode |-> mode, batch |-> batch, job |-> j]

SchedulerTypeOK ==
  /\ server \in {"up", "stopping", "down"}
  /\ sch \in [Threads -> ThreadState]
  /\ \A t \in Threads : sch[t].job = NoJob <=> sch[t].pc # "push"

Idle == Thread("idle", "promote", {}, NoJob)
Scan == Thread("scan", "recover", {}, NoJob)
ThreadExited == Thread("exited", "promote", {}, NoJob)

SchedulerInit ==
  /\ server = "up"
  /\ sch = [t \in Threads |-> IF t = "loop" THEN Idle ELSE Scan]

Become(t, state) == sch' = [sch EXCEPT ![t] = state]

\* The for loop over the batch: the next job, or the end of the function.
Continue(t, mode, batch) ==
  \/ batch # {} /\ Become(t, Thread("reset", mode, batch, NoJob))
  \/ batch = {} /\ Become(t, IF t = "loop" THEN Idle ELSE ThreadExited)

-----------------------------------------------------------------------------
(* The batch: Scheduler.promoteDelayedJobs with RedisStore.GetDueDelayed,  *)
(* and Scheduler.recoverStuckJobs.                                         *)

\* With a cancelled context ZRANGEBYSCORE fails and nothing is promoted.
DelayedTick ==
  /\ sch["loop"].pc = "idle"
  /\ server = "up"
  /\ DueJobs # {}
  /\ Become("loop", Thread("zrem", "promote", DueJobs, NoJob))
  /\ UNCHANGED <<server, storeVars>>

\* Mutant: what is removed is every due id, not the ids that were read.
RemoveDueByScore ==
  /\ sch["loop"].pc = "zrem"
  /\ \/ /\ delayed' = [j \in Jobs |-> IF delayed[j] = "due" THEN "no" ELSE delayed[j]]
        /\ server = "up" /\ NoFault
     \/ UNCHANGED delayed /\ Fault("zrem_error")
  /\ Become("loop", Thread("reset", "promote", sch["loop"].batch, NoJob))
  /\ UNCHANGED <<server, jobs, lists, prio, deadList>>

\* The error of ZREM is ignored: the ids are promoted all the same.
RemoveDue ==
  LET batch == sch["loop"].batch IN
  /\ sch["loop"].pc = "zrem"
  /\ \/ /\ delayed' = [j \in Jobs |-> IF j \in batch THEN "no" ELSE delayed[j]]
        /\ server = "up" /\ NoFault
     \/ UNCHANGED delayed /\ server = "stopping" /\ NoFault
     \/ UNCHANGED delayed /\ Fault("zrem_error")
  /\ Become("loop", Thread("reset", "promote", batch, NoJob))
  /\ UNCHANGED <<server, jobs, lists, prio, deadList>>

\* The first stuck tick of the loop comes 60 s after the startup pass began;
\* that the two overlap is a fault of timing.
StuckTick ==
  /\ sch["loop"].pc = "idle"
  /\ StuckJobs # {}
  /\ \/ sch["startup"].pc = "exited" /\ NoFault
     \/ sch["startup"].pc # "exited" /\ Fault("slow_startup")
  /\ Become("loop", Thread("reset", "recover", StuckJobs, NoJob))
  /\ UNCHANGED <<server, jobs, redisVars>>

StartupScan ==
  /\ sch["startup"].pc = "scan"
  /\ \/ Continue("startup", "recover", StuckJobs) /\ NoFault
     \/ Become("startup", ThreadExited) /\ Fault("db_error")
  /\ UNCHANGED <<server, jobs, redisVars>>

-----------------------------------------------------------------------------
(* Each job of the batch: its row is reset whatever its status is by now,  *)
(* then its id is pushed; an error skips the job.                          *)

ResetRow(j, mode) ==
  [jobs[j] EXCEPT !.status = "pending",
                  !.worker_id = IF mode = "recover" THEN NoWorker ELSE @]

ResetJob(t) ==
  /\ sch[t].pc = "reset"
  /\ \E j \in sch[t].batch :
       LET rest == sch[t].batch \ {j}
           row == ResetRow(j, sch[t].mode) IN
       \/ /\ WriteRow(j, row) /\ NoFault
          /\ Become(t, Thread("push", sch[t].mode, rest, j))
       \/ FailedWrite(j, row) /\ Continue(t, sch[t].mode, rest)
  /\ UNCHANGED <<server, redisVars>>

\* Once the server is stopping the context of the push is cancelled.
PushJob(t) ==
  /\ sch[t].pc = "push"
  /\ \/ /\ \/ server = "up" /\ PushToRedis(sch[t].job) /\ NoFault
           \/ server = "stopping" /\ UNCHANGED redisVars /\ NoFault
           \/ UNCHANGED redisVars /\ Fault("redis_error")
        /\ Continue(t, sch[t].mode, sch[t].batch)
     \/ /\ server = "up" /\ PushToRedis(sch[t].job) /\ Fault("resent")
        /\ UNCHANGED sch
  /\ UNCHANGED <<server, jobs>>

ThreadStep(t) == ResetJob(t) \/ PushJob(t)

SchedulerStep ==
  \/ DelayedTick \/ RemoveDue \/ StuckTick \/ StartupScan
  \/ \E t \in Threads : ThreadStep(t)

=============================================================================
