--------------------------------- MODULE Api ---------------------------------
(***************************************************************************)
(* The HTTP handlers of the server that change jobs, with the methods of   *)
(* queue.Queue they call: CreateJob (Queue.Enqueue), PlaceOrder and        *)
(* FloodOrders (Queue.Enqueue for one job after the other), RetryJob       *)
(* (Queue.ReplayDeadJob) and CancelJob.  Gin runs each request on its own  *)
(* goroutine; a client of the model is one such goroutine at a time.  A    *)
(* request that is refused (400, 404) changes nothing and is no step.      *)
(*                                                                         *)
(* The program counter of a client names the call it makes next:           *)
(*   idle    no request                                                    *)
(*   push    pushToRedis, the last call of Enqueue and of ReplayDeadJob    *)
(*   delay   EnqueueDelayed of Enqueue                                     *)
(*   create  CreateJob of the next job of an order                         *)
(*   replay  UpdateJobStatus(pending) of ReplayDeadJob                     *)
(*   remove  RemoveFromDead of ReplayDeadJob                               *)
(*   cancel  UpdateJobStatus(failed) of CancelJob                          *)
(***************************************************************************)
EXTENDS Stores, FiniteSets

CONSTANTS
  Clients,      \* requests that can be in progress at the same time
  Requests,     \* the bodies of POST /api/jobs
  Orders,       \* the jobs that one order, or one flood of them, enqueues
  Operations,   \* the operations clients use
  NoQueue,      \* the empty queue name of a request
  MaxReplays    \* how many replays a behaviour may have

ASSUME ApiAssumption ==
  /\ \A r \in Requests : /\ r.queue \in Queues \cup {NoQueue}
                         /\ r.priority \in Int
                         /\ r.max_attempts \in Int
                         /\ r.delay_seconds \in Int
  /\ \A o \in Orders : o \in Seq(Requests) /\ o # <<>>
  /\ NoQueue \notin Queues
  /\ MaxReplays \in Nat

VARIABLES
  cl,       \* the request each client has in progress
  order,    \* the order it belongs to, if any
  replays   \* how many replays have begun (bounded by MaxReplays)

apiVars == <<cl, order, replays>>

ClientState ==
  [pc : {"idle", "create", "push", "delay", "replay", "remove", "cancel"},
   job : Jobs \cup {NoJob}]

\* rest: the jobs of the order that are still to be enqueued.  created: those
\* whose Enqueue has returned without an error, as enqueueOrder collects them.
OrderState == [rest : Seq(Requests), created : SUBSET Jobs]
NoOrder == [rest |-> <<>>, created |-> {}]

Request(pc, j) == [pc |-> pc, job |-> j]
NoRequest == Request("idle", NoJob)

ApiTypeOK ==
  /\ cl \in [Clients -> ClientState]
  /\ \A c \in Clients : cl[c].job = NoJob <=> cl[c].pc \in {"idle", "create"}
  /\ order \in [Clients -> OrderState]
  /\ \A c \in Clients : cl[c].pc = "create" => order[c].rest # <<>>
  /\ replays \in 0 .. MaxReplays

ApiInit ==
  /\ cl = [c \in Clients |-> NoRequest]
  /\ order = [c \in Clients |-> NoOrder]
  /\ replays = 0

Call(c, pc, j) ==
  /\ cl' = [cl EXCEPT ![c] = Request(pc, j)]
  /\ UNCHANGED order

Respond(c) ==
  /\ cl' = [cl EXCEPT ![c] = NoRequest]
  /\ order' = [order EXCEPT ![c] = NoOrder]

-----------------------------------------------------------------------------
(* POST /api/jobs: Queue.Enqueue.                                          *)

\* The row of a new job, with the defaults of Enqueue filled in.
NewRow(r) ==
  [NoRow EXCEPT !.status = "pending",
                !.queue = IF r.queue = NoQueue THEN DefaultQueue ELSE r.queue,
                !.priority = r.priority,
                !.max_attempts = IF r.max_attempts = 0 THEN 3 ELSE r.max_attempts]

\* Bound: a request begins only while there are ids for it and for what the
\* orders in progress have still to create.
IdsLeft(n) ==
  Cardinality({j \in Jobs : ~Exists(j)})
    >= n + Cardinality(UNION {{c} \X DOMAIN order[c].rest : c \in Clients})

\* Mutant: an error of the insert is logged and the id is pushed.
CreateIgnoringError(c, r, rest) ==
  \E j \in Jobs :
    /\ ~Exists(j)
    /\ \/ WriteRow(j, NewRow(r)) /\ NoFault
       \/ FailedWrite(j, NewRow(r))
    /\ cl' = [cl EXCEPT ![c] = Request(IF r.delay_seconds > 0 THEN "delay" ELSE "push", j)]
    /\ order' = [order EXCEPT ![c].rest = rest]

\* The insert of Enqueue, for a request that has rest to enqueue after it.
Create(c, r, rest) ==
  \E j \in Jobs :
    /\ ~Exists(j)
    /\ \/ /\ WriteRow(j, NewRow(r)) /\ NoFault
          /\ cl' = [cl EXCEPT ![c] = Request(IF r.delay_seconds > 0 THEN "delay" ELSE "push", j)]
          /\ order' = [order EXCEPT ![c].rest = rest]
       \/ FailedWrite(j, NewRow(r)) /\ Respond(c)

CreateJob(c) ==
  /\ "enqueue" \in Operations
  /\ cl[c].pc = "idle"
  /\ IdsLeft(1)
  /\ \E r \in Requests : Create(c, r, <<>>)
  /\ UNCHANGED <<replays, redisVars>>

\* Enqueue returns: the handler answers, or goes on with its order.
Enqueued(c) ==
  IF order[c].rest = <<>> THEN Respond(c)
  ELSE /\ cl' = [cl EXCEPT ![c] = Request("create", NoJob)]
       /\ order' = [order EXCEPT ![c].created = @ \cup {cl[c].job}]

DelayJob(c) ==
  /\ cl[c].pc = "delay"
  /\ \/ EnqueueDelayed(cl[c].job) /\ NoFault /\ Enqueued(c)
     \/ EnqueueDelayed(cl[c].job) /\ Fault("resent") /\ UNCHANGED <<cl, order>>
     \/ UNCHANGED redisVars /\ Fault("push_error") /\ Respond(c)
  /\ UNCHANGED <<replays, jobs>>

\* Mutant: an order goes on when a push has failed.
PushRequestGoesOn(c) ==
  /\ cl[c].pc = "push"
  /\ \/ PushToRedis(cl[c].job) /\ NoFault
     \/ UNCHANGED redisVars /\ Fault("push_error")
  /\ Enqueued(c)
  /\ UNCHANGED <<replays, jobs>>

\* An error of the push is returned to the client and nothing is undone: of an
\* order, the jobs that have been enqueued stay so.  The call also fails when
\* the client has gone away, which cancels the context of the request.
PushRequest(c) ==
  /\ cl[c].pc = "push"
  /\ \/ PushToRedis(cl[c].job) /\ NoFault /\ Enqueued(c)
     \/ PushToRedis(cl[c].job) /\ Fault("resent") /\ UNCHANGED <<cl, order>>
     \/ UNCHANGED redisVars /\ Fault("push_error") /\ Respond(c)
  /\ UNCHANGED <<replays, jobs>>

-----------------------------------------------------------------------------
(* POST /api/demo/order and /api/demo/flood: enqueueOrder.                 *)

PlaceOrder(c) ==
  /\ "order" \in Operations
  /\ cl[c].pc = "idle"
  /\ \E o \in Orders : IdsLeft(Len(o)) /\ Create(c, Head(o), Tail(o))
  /\ UNCHANGED <<replays, redisVars>>

\* The next job of the order, or of the next order of a flood.
ContinueOrder(c) ==
  /\ cl[c].pc = "create"
  /\ Create(c, Head(order[c].rest), Tail(order[c].rest))
  /\ UNCHANGED <<replays, redisVars>>

-----------------------------------------------------------------------------
(* POST /api/jobs/:id/retry: Queue.ReplayDeadJob.                          *)

\* Mutant: any job can be replayed.
ReplayCheckAnyStatus(c) ==
  /\ "replay" \in Operations
  /\ cl[c].pc = "idle"
  /\ replays < MaxReplays
  /\ replays' = replays + 1
  /\ \E j \in Jobs : Exists(j) /\ Call(c, "replay", j)
  /\ UNCHANGED storeVars

\* GetJob finds the job dead; the row is not read again.
ReplayCheck(c) ==
  /\ "replay" \in Operations
  /\ cl[c].pc = "idle"
  /\ replays < MaxReplays
  /\ replays' = replays + 1
  /\ \E j \in Jobs : jobs[j].status = "dead" /\ Call(c, "replay", j)
  /\ UNCHANGED storeVars

\* Mutant: the attempts are not reset.
ReplayResetKeepsAttempts(c) ==
  LET j == cl[c].job
      row == [jobs[j] EXCEPT !.status = "pending", !.error = ""] IN
  /\ cl[c].pc = "replay"
  /\ \/ WriteRow(j, row) /\ NoFault /\ Call(c, "remove", j)
     \/ FailedWrite(j, row) /\ Respond(c)
  /\ UNCHANGED <<replays, redisVars>>

ReplayReset(c) ==
  LET j == cl[c].job
      row == [jobs[j] EXCEPT !.status = "pending", !.attempts = 0, !.error = ""] IN
  /\ cl[c].pc = "replay"
  /\ \/ WriteRow(j, row) /\ NoFault /\ Call(c, "remove", j)
     \/ FailedWrite(j, row) /\ Respond(c)
  /\ UNCHANGED <<replays, redisVars>>

\* Mutant: a job that has no entry in the dead letter list is not replayed.
ReplayRemoveStrict(c) ==
  LET j == cl[c].job IN
  /\ cl[c].pc = "remove"
  /\ RemoveFromDead(j) /\ NoFault
  /\ IF deadList[j] > 0 THEN Call(c, "push", j) ELSE Respond(c)
  /\ UNCHANGED <<replays, jobs>>

\* The error of RemoveFromDead is ignored.
ReplayRemove(c) ==
  LET j == cl[c].job IN
  /\ cl[c].pc = "remove"
  /\ \/ RemoveFromDead(j) /\ NoFault
     \/ UNCHANGED redisVars /\ Fault("redis_error")
  /\ Call(c, "push", j)
  /\ UNCHANGED <<replays, jobs>>

-----------------------------------------------------------------------------
(* DELETE /api/jobs/:id: CancelJob.                                        *)

\* GetJob finds the job pending; the row is not read again.
CancelCheck(c) ==
  /\ "cancel" \in Operations
  /\ cl[c].pc = "idle"
  /\ \E j \in Jobs : jobs[j].status = "pending" /\ Call(c, "cancel", j)
  /\ UNCHANGED <<replays, storeVars>>

\* The row is marked failed; the id stays wherever it is in redis.
CancelJob(c) ==
  LET j == cl[c].job
      row == [jobs[j] EXCEPT !.status = "failed", !.error = "cancelled by user"] IN
  /\ cl[c].pc = "cancel"
  /\ \/ WriteRow(j, row) /\ NoFault
     \/ FailedWrite(j, row)
  /\ Respond(c)
  /\ UNCHANGED <<replays, redisVars>>

ClientStep(c) ==
  \/ DelayJob(c) \/ PushRequest(c) \/ ContinueOrder(c)
  \/ ReplayReset(c) \/ ReplayRemove(c)
  \/ CancelJob(c)

ClientRequest(c) ==
  CreateJob(c) \/ PlaceOrder(c) \/ ReplayCheck(c) \/ CancelCheck(c)

=============================================================================
