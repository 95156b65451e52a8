--------------------------- MODULE WorkerRegistry ---------------------------
(***************************************************************************)
(* The row of one worker in the workers table: registered by Worker.Start, *)
(* written by each goroutine before and after it runs a handler, by the    *)
(* heartbeat every 30 s and at the end of the shutdown, and read by        *)
(* ListWorkers.  Rows of different workers have nothing to do with each    *)
(* other.  What the goroutines do to the jobs is the subject of Worker;    *)
(* here a goroutine gets any job and runs it.                              *)
(*                                                                         *)
(* Time is counted in periods of the heartbeat: the age of last_seen.      *)
(***************************************************************************)
EXTENDS Integers

CONSTANTS
  Jobs,        \* the jobs there may be
  NoJob,       \* current_job is null; a goroutine that runs nothing
  Goroutines,  \* the goroutines of the worker
  Cutoff,      \* the periods in the two minutes of ListWorkers (4)
  FaultKinds,  \* the faults the environment may inject
  MaxFaults    \* how many of them a behaviour may have

ASSUME RegistryAssumption ==
  /\ NoJob \notin Jobs
  /\ Cutoff \in Nat \ {0}
  /\ MaxFaults \in Nat

VARIABLES
  row,     \* the row of the worker
  proc,    \* its process
  gor,     \* what each goroutine is at
  beat,    \* the heartbeat goroutine
  faults   \* how many faults have happened

vars == <<row, proc, gor, beat, faults>>

\* seen is the age of last_seen; Cutoff stands for every greater age.
WorkerRow ==
  [status  : {"absent", "active", "stopped"},
   current : Jobs \cup {NoJob},
   seen    : 0 .. Cutoff]

\* note: about to write current_job; run: the handler runs; clear: about to
\* write it back to null.
GoroutineState == [pc : {"idle", "note", "run", "clear", "exited"},
                   job : Jobs \cup {NoJob}]

At(pc, j) == [pc |-> pc, job |-> j]

RegistryTypeOK ==
  /\ row \in WorkerRow
  /\ proc \in {"down", "up", "stopping", "ending"}
  /\ gor \in [Goroutines -> GoroutineState]
  /\ \A g \in Goroutines : gor[g].job = NoJob <=> gor[g].pc \in {"idle", "exited"}
  /\ beat \in {"waiting", "due", "exited"}
  /\ faults \in 0 .. MaxFaults

AllExited == [g \in Goroutines |-> At("exited", NoJob)]

Init ==
  /\ row = [status |-> "absent", current |-> NoJob, seen |-> Cutoff]
  /\ proc = "down"
  /\ gor = AllExited
  /\ beat = "exited"
  /\ faults = 0

Fault(kind) ==
  /\ kind \in FaultKinds
  /\ faults < MaxFaults
  /\ faults' = faults + 1

NoFault == UNCHANGED faults

-----------------------------------------------------------------------------
(* The process.                                                            *)

\* UpsertWorker saves every column; then the goroutines start.  If it fails
\* main exits and nothing has changed.
Start ==
  /\ proc = "down"
  /\ row' = [status |-> "active", current |-> NoJob, seen |-> 0]
  /\ proc' = "up"
  /\ gor' = [g \in Goroutines |-> At("idle", NoJob)]
  /\ beat' = "waiting"
  /\ NoFault

\* SIGTERM cancels the context.
Stop ==
  /\ proc = "up"
  /\ Fault("stop")
  /\ proc' = "stopping"
  /\ UNCHANGED <<row, gor, beat>>

\* Mutant: the row is marked before the goroutines have returned.
MarkStoppedEarly ==
  /\ proc = "stopping"
  /\ row' = [row EXCEPT !.status = "stopped"]
  /\ proc' = "ending"
  /\ NoFault
  /\ UNCHANGED <<gor, beat>>

\* MarkWorkerStopped, once every goroutine of the pool has returned; the
\* heartbeat is not waited for.  An error is logged.
MarkStopped ==
  /\ proc = "stopping"
  /\ \A g \in Goroutines : gor[g].pc = "exited"
  /\ \/ row' = [row EXCEPT !.status = "stopped"] /\ NoFault
     \/ UNCHANGED row /\ Fault("db_error")
  /\ proc' = "ending"
  /\ UNCHANGED <<gor, beat>>

\* Start returns and with it main, or the process is killed.
Exit ==
  /\ \/ proc = "ending" /\ NoFault
     \/ proc # "down" /\ Fault("crash")
  /\ proc' = "down"
  /\ gor' = AllExited
  /\ beat' = "exited"
  /\ UNCHANGED row

-----------------------------------------------------------------------------
(* The goroutines: loop and processJob.                                    *)

\* A job has been dequeued and marked running.
Take(g) ==
  /\ gor[g].pc = "idle"
  /\ \E j \in Jobs : gor' = [gor EXCEPT ![g] = At("note", j)]
  /\ NoFault
  /\ UNCHANGED <<row, proc, beat>>

\* UpdateWorkerHeartbeat(id, current); an error is ignored.
WriteCurrent(j) ==
  \/ row' = [row EXCEPT !.current = j, !.seen = 0] /\ NoFault
  \/ UNCHANGED row /\ Fault("db_error")

Note(g) ==
  /\ gor[g].pc = "note"
  /\ WriteCurrent(gor[g].job)
  /\ gor' = [gor EXCEPT ![g].pc = "run"]
  /\ UNCHANGED <<proc, beat>>

\* The handler returns or panics.
EndRun(g) ==
  /\ gor[g].pc = "run"
  /\ gor' = [gor EXCEPT ![g].pc = "clear"]
  /\ NoFault
  /\ UNCHANGED <<row, proc, beat>>

\* Mutant: the goroutine keeps its job.
ClearKeepsJob(g) ==
  /\ gor[g].pc = "clear"
  /\ WriteCurrent(NoJob)
  /\ gor' = [gor EXCEPT ![g].pc = "idle"]
  /\ UNCHANGED <<proc, beat>>

\* current_job becomes null whatever the other goroutines run.
Clear(g) ==
  /\ gor[g].pc = "clear"
  /\ WriteCurrent(NoJob)
  /\ gor' = [gor EXCEPT ![g] = At("idle", NoJob)]
  /\ UNCHANGED <<proc, beat>>

\* The context is cancelled.
Return(g) ==
  /\ gor[g].pc = "idle"
  /\ proc = "stopping"
  /\ gor' = [gor EXCEPT ![g] = At("exited", NoJob)]
  /\ NoFault
  /\ UNCHANGED <<row, proc, beat>>

-----------------------------------------------------------------------------
(* The heartbeat and the clock.                                            *)

\* Mutant: the heartbeat writes last_seen only.
HeartbeatSeen ==
  /\ beat = "due"
  /\ \/ row' = [row EXCEPT !.seen = 0] /\ NoFault
     \/ UNCHANGED row /\ Fault("db_error")
  /\ beat' = "waiting"
  /\ UNCHANGED <<proc, gor>>

\* UpdateWorkerHeartbeat(id, nil): last_seen, and current_job becomes null.
Heartbeat ==
  /\ beat = "due"
  /\ WriteCurrent(NoJob)
  /\ beat' = "waiting"
  /\ UNCHANGED <<proc, gor>>

\* The select may choose the ticker as long as it has not chosen ctx.Done().
HeartbeatExit ==
  /\ beat # "exited"
  /\ proc \in {"stopping", "ending"}
  /\ beat' = "exited"
  /\ NoFault
  /\ UNCHANGED <<row, proc, gor>>

\* 30 s pass.  The heartbeat of the last period has been made by then.
Tick ==
  /\ beat # "due"
  /\ row' = [row EXCEPT !.seen = IF @ < Cutoff THEN @ + 1 ELSE @]
  /\ beat' = IF beat = "waiting" THEN "due" ELSE beat
  /\ NoFault
  /\ UNCHANGED <<proc, gor>>

-----------------------------------------------------------------------------
GoroutineStep(g) == Take(g) \/ Note(g) \/ EndRun(g) \/ Clear(g) \/ Return(g)

Next ==
  \/ Start \/ Stop \/ MarkStopped \/ Exit
  \/ \E g \in Goroutines : GoroutineStep(g)
  \/ Heartbeat \/ HeartbeatExit \/ Tick

Spec == Init /\ [][Next]_vars

\* Time passes and the heartbeat runs.
FairSpec == Spec /\ WF_vars(Tick) /\ WF_vars(Heartbeat /\ NoFault)

-----------------------------------------------------------------------------
\* Mutant: the list goes by the status.
ListedByStatus == row.status = "active"

\* Mutant: a worker is listed for one period.
ListedOnePeriod == row.seen < 1

\* What ListWorkers returns: the workers seen in the last two minutes.
Listed == row.seen < Cutoff

Runs(j) == \E g \in Goroutines : gor[g].job = j

\* A worker that is marked stopped runs nothing and starts nothing, although
\* the heartbeat may still write its row.
StoppedIsIdle == row.status = "stopped" => gor = AllExited

\* A worker that is up is listed, also when two heartbeats in a row fail.
LiveIsListed == proc = "up" => Listed

\* A worker that is gone drops off the list unless it is started again.
GoneIsUnlisted == proc = "down" ~> (~Listed \/ proc # "down")

\* The list does not show a job for ever that its worker does not run: a
\* failed write, a crash and a stop are made good by the next heartbeat, the
\* next start or the cutoff.
StaleJobClears ==
  \A j \in Jobs :
    (row.current = j /\ ~Runs(j)) ~> (row.current # j \/ Runs(j) \/ ~Listed)

=============================================================================
