------------------------------- MODULE Stores -------------------------------
(***************************************************************************)
(* The state shared by the server and the workers: the jobs table of       *)
(* postgres and the keys of redis, with the calls of internal/store that   *)
(* change them.  Every call is one step: postgres runs each statement in   *)
(* its own transaction and redis runs its commands one at a time, and no   *)
(* code of the system groups two calls.                                    *)
(*                                                                         *)
(* Abstractions: the payload, the type and the timestamps of a job are     *)
(* left out, except for what GetStuckJobs reads of started_at.  A score of *)
(* the delayed set is only "waiting" (in the future) or "due".  An entry   *)
(* of the dead letter list is only counted.                                *)
(***************************************************************************)
EXTENDS Integers, Sequences

CONSTANTS
  Jobs,          \* the ids that uuid.New() hands out
  NoJob,         \* no id: what an idle thread holds
  Queues,        \* queue names
  DefaultQueue,  \* queue.QueueDefault
  Workers,       \* worker processes
  NoWorker,      \* the empty worker_id
  FaultKinds,    \* the faults the environment may inject
  MaxFaults      \* how many faults a behaviour may have

ASSUME StoresAssumption ==
  /\ NoJob \notin Jobs
  /\ DefaultQueue \in Queues
  /\ NoWorker \notin Workers
  /\ MaxFaults \in Nat

VARIABLES
  jobs,      \* the jobs table: one row per id
  lists,     \* the lists queue:<name>, oldest id first
  prio,      \* the sorted sets queue:priority:<name>
  delayed,   \* the sorted set queue:delayed
  deadList,  \* how many entries queue:dead has for each id
  faults     \* how many faults have happened (bounded by MaxFaults)

redisVars == <<lists, prio, delayed, deadList>>
storeVars == <<jobs, lists, prio, delayed, deadList, faults>>

Statuses == {"absent", "pending", "running", "completed", "failed", "dead"}

\* "recent": the started_at of the row is younger than the stuck timeout.
StartedAt == {"never", "recent", "old"}

JobRow ==
  [status       : Statuses,
   queue        : Queues,
   priority     : Int,
   attempts     : Nat,
   max_attempts : Int,
   error        : {"", "handler error", "cancelled by user"},
   started_at   : StartedAt,
   worker_id    : Workers \cup {NoWorker}]

NoRow ==
  [status |-> "absent", queue |-> DefaultQueue, priority |-> 0, attempts |-> 0,
   max_attempts |-> 0, error |-> "", started_at |-> "never",
   worker_id |-> NoWorker]

StoresTypeOK ==
  /\ jobs \in [Jobs -> JobRow]
  /\ lists \in [Queues -> Seq(Jobs)]
  /\ prio \in [Queues -> SUBSET Jobs]
  /\ delayed \in [Jobs -> {"no", "waiting", "due"}]
  /\ deadList \in [Jobs -> Nat]
  /\ faults \in 0 .. MaxFaults

StoresInit ==
  /\ jobs = [j \in Jobs |-> NoRow]
  /\ lists = [q \in Queues |-> <<>>]
  /\ prio = [q \in Queues |-> {}]
  /\ delayed = [j \in Jobs |-> "no"]
  /\ deadList = [j \in Jobs |-> 0]
  /\ faults = 0

-----------------------------------------------------------------------------
(* Faults of the environment: a step that needs one takes it from the      *)
(* budget, every other step leaves the budget alone.  One of them comes    *)
(* from the redis client library: it sends a command again when the reply  *)
(* is lost ("resent"), so the command takes effect and its caller is still *)
(* in the same call.                                                       *)

Fault(kind) ==
  /\ kind \in FaultKinds
  /\ faults < MaxFaults
  /\ faults' = faults + 1

NoFault == UNCHANGED faults

-----------------------------------------------------------------------------
(* Postgres.                                                               *)

Exists(j) == jobs[j].status # "absent"

\* PostgresStore.CreateJob and PostgresStore.UpdateJobStatus.
WriteRow(j, row) == jobs' = [jobs EXCEPT ![j] = row]

\* A statement that returns an error has either been rolled back, or been
\* committed with the reply lost.
FailedWrite(j, row) ==
  /\ Fault("db_error")
  /\ WriteRow(j, row) \/ UNCHANGED jobs

\* Mutant: GetStuckJobs without its condition on started_at.
StuckJobsOfAnyAge == {j \in Jobs : jobs[j].status = "running"}

\* PostgresStore.GetStuckJobs: running for longer than the timeout.
StuckJobs ==
  {j \in Jobs : jobs[j].status = "running" /\ jobs[j].started_at = "old"}

-----------------------------------------------------------------------------
(* Redis.                                                                  *)

\* RedisStore.Enqueue: LPUSH; the other end is the one BRPOP pops.
Enqueue(q, j) ==
  /\ lists' = [lists EXCEPT ![q] = Append(@, j)]
  /\ UNCHANGED <<prio, delayed, deadList>>

\* RedisStore.EnqueuePriority: ZADD; an id that is already there stays once.
EnqueuePriority(q, j) ==
  /\ prio' = [prio EXCEPT ![q] = @ \cup {j}]
  /\ UNCHANGED <<lists, delayed, deadList>>

\* Queue.pushToRedis and Scheduler.enqueueJob.
PushToRedis(j) ==
  \/ /\ jobs[j].priority > 0
     /\ EnqueuePriority(jobs[j].queue, j)
  \/ /\ jobs[j].priority <= 0
     /\ Enqueue(jobs[j].queue, j)

\* RedisStore.EnqueueDelayed: ZADD with a score in the future; the score of
\* an id that is already there is overwritten.
EnqueueDelayed(j) ==
  /\ delayed' = [delayed EXCEPT ![j] = "waiting"]
  /\ UNCHANGED <<lists, prio, deadList>>

\* RedisStore.EnqueueDead: LPUSH of a snapshot.
EnqueueDead(j) ==
  /\ deadList' = [deadList EXCEPT ![j] = @ + 1]
  /\ UNCHANGED <<lists, prio, delayed>>

\* RedisStore.RemoveFromDead: LRANGE finds the newest entry of the job and
\* LREM removes it.  One step, that of the LRANGE: entries are only counted,
\* and nothing else looks for one.
RemoveFromDead(j) ==
  /\ deadList' = [deadList EXCEPT ![j] = IF @ > 0 THEN @ - 1 ELSE @]
  /\ UNCHANGED <<lists, prio, delayed>>

\* The members that ZPOPMAX may return: those of the highest score.
HighestPriority(q) ==
  {j \in prio[q] : \A k \in prio[q] : jobs[k].priority <= jobs[j].priority}

\* What GetDueDelayed finds with ZRANGEBYSCORE 0 now.
DueJobs == {j \in Jobs : delayed[j] = "due"}

-----------------------------------------------------------------------------
(* The clock.                                                              *)

\* The time a delayed job was put off to is reached.
BecomeDue(j) ==
  /\ delayed[j] = "waiting"
  /\ delayed' = [delayed EXCEPT ![j] = "due"]
  /\ UNCHANGED <<jobs, lists, prio, deadList, faults>>

=============================================================================
