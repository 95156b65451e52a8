------------------------------ MODULE TaskQueue ------------------------------
(***************************************************************************)
(* The whole system: the server process (the HTTP handlers of Api and the  *)
(* threads of Scheduler) and the worker processes of Worker, which share   *)
(* nothing but the two stores of Stores.                                   *)
(*                                                                         *)
(* The server is "up", "stopping" (SIGTERM: the context of the scheduler   *)
(* is cancelled and http.Server.Shutdown lets the requests finish) or      *)
(* "down".                                                                 *)
(***************************************************************************)
EXTENDS Worker, Scheduler, Api

vars == <<storeVars, workerVars, schedulerVars, apiVars>>

TypeOK == StoresTypeOK /\ WorkerTypeOK /\ SchedulerTypeOK /\ ApiTypeOK

Init == StoresInit /\ WorkerInit /\ SchedulerInit /\ ApiInit

-----------------------------------------------------------------------------
(* The life of the server: main of cmd/server.                             *)

StopServer ==
  /\ server = "up"
  /\ Fault("server_stop")
  /\ server' = "stopping"
  /\ UNCHANGED <<sch, jobs, redisVars, workerVars, apiVars>>

\* Scheduler.Start returns at its next select.
StopScheduler ==
  /\ server = "stopping"
  /\ sch["loop"].pc = "idle"
  /\ Become("loop", ThreadExited)
  /\ UNCHANGED <<server, storeVars, workerVars, apiVars>>

\* Shutdown has let the requests finish and main returns.  It waits for no
\* thread of the scheduler: one that is still at work ends where it is.  That
\* Shutdown gives up after 10 s, with a request cut short, is a CrashServer.
ExitServer ==
  /\ server = "stopping"
  /\ \A c \in Clients : cl[c].pc = "idle"
  /\ server' = "down"
  /\ sch' = [t \in Threads |-> ThreadExited]
  /\ UNCHANGED <<storeVars, workerVars, apiVars>>

\* The process is killed between two store calls of its threads.
CrashServer ==
  /\ server \in {"up", "stopping"}
  /\ Fault("server_crash")
  /\ server' = "down"
  /\ sch' = [t \in Threads |-> ThreadExited]
  /\ cl' = [c \in Clients |-> NoRequest]
  /\ order' = [c \in Clients |-> NoOrder]
  /\ UNCHANGED <<replays, jobs, redisVars, workerVars>>

\* The container is started again, and with it a new scheduler.
StartServer ==
  /\ server = "down"
  /\ server' = "up"
  /\ sch' = [t \in Threads |-> IF t = "loop" THEN Idle ELSE Scan]
  /\ UNCHANGED <<storeVars, workerVars, apiVars>>

-----------------------------------------------------------------------------
(* The stuck timeout passes for a running job.  It is longer than a        *)
(* handler takes: that a handler outlives it is a fault of timing.         *)

Executing(j) == \E g \in Goroutines : gor[g].pc = "exec" /\ gor[g].job = j

BecomeStuck(j) ==
  /\ jobs[j].status = "running"
  /\ jobs[j].started_at = "recent"
  /\ \/ ~Executing(j) /\ NoFault
     \/ Executing(j) /\ Fault("overrun")
  /\ WriteRow(j, [jobs[j] EXCEPT !.started_at = "old"])
  /\ UNCHANGED <<redisVars, workerVars, schedulerVars, apiVars>>

-----------------------------------------------------------------------------
Clock ==
  \E j \in Jobs :
    \/ BecomeDue(j) /\ UNCHANGED <<workerVars, schedulerVars, apiVars>>
    \/ BecomeStuck(j)

Server ==
  \/ StopServer \/ StopScheduler \/ ExitServer \/ CrashServer \/ StartServer
  \/ SchedulerStep /\ UNCHANGED <<workerVars, apiVars>>

WorkerProcess(w) ==
  StopWorker(w) \/ WorkerStopped(w) \/ CrashWorker(w) \/ StartWorker(w)

WorkersNext ==
  /\ \/ \E g \in Goroutines : GoroutineStep(g)
     \/ \E w \in Workers : WorkerProcess(w)
  /\ UNCHANGED <<schedulerVars, apiVars>>

\* Requests arrive only at a server that is up; a stopping one ends them.
ClientsNext ==
  \E c \in Clients :
    /\ ClientStep(c) \/ (server = "up" /\ ClientRequest(c))
    /\ UNCHANGED <<workerVars, schedulerVars>>

Next == Clock \/ Server \/ WorkersNext \/ ClientsNext

Spec == Init /\ [][Next]_vars

-----------------------------------------------------------------------------
(* Fairness.  Threads that can take a step without a fault take one: the   *)
(* go runtime runs every goroutine and the stores answer.  The select of   *)
(* Start picks at random between the tickers that are ready, so neither    *)
(* tick is put off for ever (strong fairness).  Time passes.  Containers   *)
(* that went down are started again.  No fault, no request and no restart  *)
(* of what runs is ever owed.                                              *)

ThreadFairness ==
  /\ \A g \in Goroutines :
       WF_vars(GoroutineStep(g) /\ NoFault /\ UNCHANGED <<schedulerVars, apiVars>>)
  /\ \A c \in Clients :
       WF_vars(ClientStep(c) /\ NoFault /\ UNCHANGED <<workerVars, schedulerVars>>)
  /\ \A t \in Threads :
       WF_vars(ThreadStep(t) /\ NoFault /\ UNCHANGED <<workerVars, apiVars>>)
  /\ WF_vars((RemoveDue \/ StartupScan) /\ NoFault /\ UNCHANGED <<workerVars, apiVars>>)
  /\ SF_vars(DelayedTick /\ UNCHANGED <<workerVars, apiVars>>)
  /\ SF_vars(StuckTick /\ NoFault /\ UNCHANGED <<workerVars, apiVars>>)

ClockFairness ==
  \A j \in Jobs :
    /\ WF_vars(BecomeDue(j) /\ UNCHANGED <<workerVars, schedulerVars, apiVars>>)
    /\ WF_vars(BecomeStuck(j) /\ NoFault)

ProcessFairness ==
  /\ WF_vars(ExitServer)
  /\ WF_vars(StartServer)
  /\ \A w \in Workers :
       WF_vars((WorkerStopped(w) \/ StartWorker(w)) /\ UNCHANGED <<schedulerVars, apiVars>>)

FairSpec == Spec /\ ThreadFairness /\ ClockFairness /\ ProcessFairness

=============================================================================
