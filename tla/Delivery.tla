------------------------------ MODULE Delivery ------------------------------
(***************************************************************************)
(* What the task queue owes the jobs it has accepted: where the duty to    *)
(* run a job may be, that it is never lost and never doubled, that rows    *)
(* and lists agree with it, and that every job is settled in the end.      *)
(* Which fault breaks which of these is the subject of the runs.           *)
(***************************************************************************)
EXTENDS TaskQueue

\* The threads of the system that hold the duty to run job j: they have taken
\* its id from redis, or will push it.  A promoted id is counted in the
\* delayed set until ZREM has been called; a thread of a stopping server
\* pushes nothing.
HoldsGoroutine(g, j) ==
  gor[g].job = j /\ gor[g].pc \in {"load", "mark", "exec", "delay"}

HoldsThread(t, j) ==
  /\ server = "up"
  /\ sch[t].pc \in {"reset", "push"}
  /\ j \in sch[t].batch \cup {sch[t].job}

HoldsClient(c, j) ==
  cl[c].job = j /\ cl[c].pc \in {"push", "delay", "remove"}

ListPlaces(j) ==
  UNION {{<<"list", q, i>> : i \in {n \in DOMAIN lists[q] : lists[q][n] = j}} :
           q \in Queues}

\* Every place that has the duty to run job j.
Deliveries(j) ==
  ListPlaces(j)
    \cup {<<"prio", q>> : q \in {k \in Queues : j \in prio[k]}}
    \cup {<<"delayed", k>> : k \in {n \in {j} : delayed[n] # "no"}}
    \cup {<<"goroutine", g>> : g \in {h \in Goroutines : HoldsGoroutine(h, j)}}
    \cup {<<"thread", t>> : t \in {u \in Threads : HoldsThread(u, j)}}
    \cup {<<"client", c>> : c \in {d \in Clients : HoldsClient(d, j)}}

Unsettled(j) == jobs[j].status \in {"pending", "running"}
Settled(j) == jobs[j].status \in {"completed", "dead"}

-----------------------------------------------------------------------------
(* Safety.                                                                 *)

\* An id waits in the list or the sorted set of its own queue, in the one
\* that its priority calls for.
RoutedQueues ==
  \A q \in Queues :
    /\ \A i \in DOMAIN lists[q] :
         LET j == lists[q][i] IN
         Exists(j) /\ jobs[j].queue = q /\ jobs[j].priority <= 0
    /\ \A j \in prio[q] : Exists(j) /\ jobs[j].queue = q /\ jobs[j].priority > 0

\* Every id in redis or in a thread has a row: GetJob and UpdateJobStatus of
\* the workers and of the scheduler never miss.
RoutedThreads ==
  /\ \A j \in Jobs : delayed[j] # "no" => Exists(j)
  /\ \A g \in Goroutines : gor[g].job # NoJob => Exists(gor[g].job)
  /\ \A t \in Threads : \A j \in sch[t].batch : Exists(j)
  /\ \A t \in Threads : sch[t].job # NoJob => Exists(sch[t].job)
  /\ \A c \in Clients : cl[c].job # NoJob => Exists(cl[c].job)

\* Every id is where its row says, whatever fails (Queue.pushToRedis,
\* Scheduler.enqueueJob and RedisStore.Dequeue agree on the keys).
RoutedIds == RoutedQueues /\ RoutedThreads

\* The duty to run a job is in one place at most, so no job is run by two
\* goroutines at once: promotion, recovery, retry and replay each move it.
\* Crashes and failing calls do not double it.
SingleDelivery ==
  \A j \in Jobs : \A p, r \in Deliveries(j) : p = r

\* A job that is pending or running is in at least one place that leads to
\* its run, as long as no process dies and no call fails; handlers that
\* outlive the stuck timeout and overlapping recoveries do not lose it.
NoJobLost ==
  \A j \in Jobs : Unsettled(j) => Deliveries(j) # {}

\* A job is lost when it is pending or running and no place leads to its run.
Lost(j) == Unsettled(j) /\ Deliveries(j) = {}

\* A cancelled job cannot be lost, whatever its row is overwritten with.
Loses(j) == Lost(j)' /\ ~Lost(j) /\ jobs[j].status # "failed"

WaitsInRedis(j) == \E p \in Deliveries(j) : p[1] \in {"list", "prio", "delayed"}

\* A worker that has been told to stop is about to put the retry of job j off:
\* its context is cancelled.
RetryIsCut(j) ==
  \E g \in Goroutines :
    gor[g].pc = "delay" /\ gor[g].job = j /\ proc[g[1]] = "stopping"

\* A job is lost only in the step in which a process dies or is stopped or a
\* call fails, or as the retry of a worker that stops; and no step loses more
\* than one of the ids that wait in redis, whatever the other processes are in
\* the middle of.
LossIsConfined ==
  [][LET lost == {j \in Jobs : Loses(j)} IN
     /\ \A j \in lost : faults' > faults \/ RetryIsCut(j)
     /\ \A i, j \in lost : (WaitsInRedis(i) /\ WaitsInRedis(j)) => i = j]_vars

\* Nothing will run a job that is completed or dead.
SettledIsQuiet ==
  \A j \in Jobs : Settled(j) => Deliveries(j) = {}

\* While a handler runs, the row says so and names its worker, unless the job
\* has been cancelled under it.
ExecutingIsRecorded ==
  \A g \in Goroutines :
    gor[g].pc = "exec" =>
      /\ jobs[gor[g].job].status \in {"running", "failed"}
      /\ jobs[gor[g].job].worker_id = g[1]

\* No job is tried more often than max_attempts, and only a job that has been
\* is dead: the attempts of the row count every failure once, although each
\* goroutine computes them from the copy it loaded.
AttemptsWithinLimit ==
  \A j \in Jobs :
    /\ jobs[j].max_attempts >= 1 => jobs[j].attempts <= jobs[j].max_attempts
    /\ jobs[j].status = "dead" => jobs[j].attempts >= jobs[j].max_attempts

\* A dead job is in the dead letter list, or the worker that declared it dead
\* is about to put it there, as long as nothing stops or fails.
DeadIsListed ==
  \A j \in Jobs :
    (jobs[j].status = "dead" /\ faults = 0) =>
      \/ deadList[j] > 0
      \/ \E g \in Goroutines : gor[g].pc = "bury" /\ gor[g].job = j

\* A row is running only while a goroutine executes the job: a worker that is
\* told to stop finishes the jobs in flight and leaves no running row behind.
RunningIsExecuted ==
  \A j \in Jobs : jobs[j].status = "running" => Executing(j)

\* While an order is enqueued, every job that it counts as created and that
\* has not failed yet is waiting or being run: an order (PlaceOrder,
\* FloodOrders) never goes on over a job it could not enqueue, and a stop of
\* the server or of a worker takes none away.
OrderIsEnqueued ==
  \A c \in Clients : \A j \in order[c].created :
    (Unsettled(j) /\ jobs[j].attempts = 0) => Deliveries(j) # {}

-----------------------------------------------------------------------------
(* The life of a job, as JobLifecycle draws it.                            *)

LifecycleState ==
  [j \in Jobs |-> [status   |-> jobs[j].status,
                   attempts |-> jobs[j].attempts,
                   limit    |-> jobs[j].max_attempts]]

Lifecycle == INSTANCE JobLifecycle WITH
  Limits <- {NewRow(r).max_attempts : r \in Requests},
  state <- LifecycleState

\* Without cancellations every row goes through its statuses the way
\* JobLifecycle says, whatever crashes or fails between two calls.
ImplementsLifecycle == Lifecycle!LifecycleSpec

-----------------------------------------------------------------------------
(* What clients are told.                                                  *)

\* A cancelled job is not run (DELETE /api/jobs/:id).
CancelledNeverRuns ==
  [][\A j \in Jobs : jobs[j].status = "failed" => jobs'[j].status # "running"]_vars

-----------------------------------------------------------------------------
(* Liveness.                                                               *)

\* Every job that was accepted is completed or dead in the end, unless a
\* process was stopped or a push failed.
EveryJobSettles ==
  [](faults = 0) => \A j \in Jobs : Exists(j) ~> Settled(j)

\* A job whose row says running settles once no more process dies, also when
\* the worker that ran it is gone: the scheduler finds it and requeues it.
CrashedJobSettles ==
  \A j \in Jobs :
    (jobs[j].status = "running" /\ faults = MaxFaults) ~> Settled(j)

\* A worker that is told to stop does: its goroutines finish their job and
\* their last BRPOP.
ShutdownCompletes ==
  \A w \in Workers : proc[w] = "stopping" ~> proc[w] = "stopped"

\* A pending job is picked up in the end (the comment of Queue.Enqueue).
PendingIsPickedUp ==
  \A j \in Jobs : jobs[j].status = "pending" ~> jobs[j].status # "pending"

\* A job that has failed and may be tried again is tried again.
FailedJobIsRetried ==
  \A j \in Jobs :
    (jobs[j].status = "pending" /\ jobs[j].attempts > 0)
      ~> jobs[j].status # "pending"

=============================================================================
