------------------------ MODULE WorkerRegistryProofs ------------------------
(***************************************************************************)
(* Theorems about WorkerRegistry, for any number of goroutines and jobs,   *)
(* any cutoff and any number of faults.                                    *)
(***************************************************************************)
EXTENDS WorkerRegistry, TLAPS

USE RegistryAssumption

LEMMA TypeInit == Init => RegistryTypeOK
BY DEF Init, RegistryTypeOK, WorkerRow, GoroutineState, AllExited, At

\* A step that moves goroutine g to a state of its own keeps the types of all.
LEMMA MoveType ==
  ASSUME RegistryTypeOK, NEW g \in Goroutines, NEW s \in GoroutineState,
         s.job = NoJob <=> s.pc \in {"idle", "exited"},
         gor' = [gor EXCEPT ![g] = s]
  PROVE  /\ gor' \in [Goroutines -> GoroutineState]
         /\ \A h \in Goroutines : gor'[h].job = NoJob <=> gor'[h].pc \in {"idle", "exited"}
BY DEF RegistryTypeOK

LEMMA FaultType ==
  ASSUME RegistryTypeOK, NoFault \/ \E k \in FaultKinds : Fault(k)
  PROVE  faults' \in 0 .. MaxFaults
<1>1. CASE NoFault
  BY <1>1 DEF RegistryTypeOK, NoFault
<1>2. CASE \E k \in FaultKinds : Fault(k)
  <2>1. faults < MaxFaults /\ faults' = faults + 1
    BY <1>2 DEF Fault
  <2> QED
    BY <2>1 DEF RegistryTypeOK
<1> QED
  BY <1>1, <1>2

LEMMA WriteType ==
  ASSUME RegistryTypeOK, NEW j \in Jobs \cup {NoJob}, WriteCurrent(j)
  PROVE  row' \in WorkerRow /\ faults' \in 0 .. MaxFaults
<1>1. CASE row' = [row EXCEPT !.current = j, !.seen = 0] /\ NoFault
  <2>1. row \in WorkerRow /\ 0 \in 0 .. Cutoff
    BY DEF RegistryTypeOK
  <2>2. row' = [status |-> row.status, current |-> j, seen |-> 0]
    BY <1>1, <2>1 DEF WorkerRow
  <2>3. row' \in WorkerRow
    BY <2>1, <2>2 DEF WorkerRow
  <2> QED
    BY <1>1, <2>3, FaultType
<1>2. CASE UNCHANGED row /\ Fault("db_error")
  BY <1>2 DEF RegistryTypeOK, Fault
<1> QED
  BY <1>1, <1>2 DEF WriteCurrent

LEMMA GoroutineType ==
  ASSUME RegistryTypeOK, NEW g \in Goroutines, GoroutineStep(g)
  PROVE  RegistryTypeOK'
<1>1. CASE Take(g)
  <2>1. PICK j \in Jobs : gor' = [gor EXCEPT ![g] = At("note", j)]
    BY <1>1 DEF Take
  <2>2. /\ At("note", j) \in GoroutineState
        /\ At("note", j).job # NoJob /\ At("note", j).pc = "note"
    BY DEF At, GoroutineState
  <2> QED
    BY <1>1, <2>1, <2>2, MoveType DEF Take, RegistryTypeOK, NoFault
<1>2. CASE Note(g)
  <2> DEFINE s == [gor[g] EXCEPT !.pc = "run"]
  <2>1. gor[g].job \in Jobs
    BY <1>2 DEF Note, RegistryTypeOK, GoroutineState
  <2>2. s \in GoroutineState /\ s.job # NoJob /\ s.pc = "run"
    BY <2>1 DEF RegistryTypeOK, GoroutineState
  <2>3. gor' = [gor EXCEPT ![g] = s]
    BY <1>2 DEF Note, RegistryTypeOK
  <2> HIDE DEF s
  <2> QED
    BY <1>2, <2>1, <2>2, <2>3, MoveType, WriteType DEF Note, RegistryTypeOK
<1>3. CASE EndRun(g)
  <2> DEFINE s == [gor[g] EXCEPT !.pc = "clear"]
  <2>1. s \in GoroutineState /\ s.job # NoJob /\ s.pc = "clear"
    BY <1>3 DEF EndRun, RegistryTypeOK, GoroutineState
  <2>2. gor' = [gor EXCEPT ![g] = s]
    BY <1>3 DEF EndRun, RegistryTypeOK
  <2> HIDE DEF s
  <2> QED
    BY <1>3, <2>1, <2>2, MoveType DEF EndRun, RegistryTypeOK, NoFault
<1>4. CASE Clear(g)
  <2>1. /\ At("idle", NoJob) \in GoroutineState
        /\ At("idle", NoJob).job = NoJob /\ At("idle", NoJob).pc = "idle"
    BY DEF At, GoroutineState
  <2> QED
    BY <1>4, <2>1, MoveType, WriteType DEF Clear, RegistryTypeOK
<1>5. CASE Return(g)
  <2>1. /\ At("exited", NoJob) \in GoroutineState
        /\ At("exited", NoJob).job = NoJob /\ At("exited", NoJob).pc = "exited"
    BY DEF At, GoroutineState
  <2> QED
    BY <1>5, <2>1, MoveType DEF Return, RegistryTypeOK, NoFault
<1> QED
  BY <1>1, <1>2, <1>3, <1>4, <1>5 DEF GoroutineStep

LEMMA TypeNext == RegistryTypeOK /\ [Next]_vars => RegistryTypeOK'
<1> SUFFICES ASSUME RegistryTypeOK, [Next]_vars PROVE RegistryTypeOK'
  OBVIOUS
<1>1. CASE Start
  BY <1>1 DEF Start, RegistryTypeOK, WorkerRow, GoroutineState, At, NoFault
<1>2. CASE Stop
  BY <1>2 DEF Stop, RegistryTypeOK, Fault
<1>3. CASE MarkStopped
  BY <1>3, FaultType DEF MarkStopped, RegistryTypeOK, WorkerRow, Fault
<1>4. CASE Exit
  BY <1>4, FaultType
     DEF Exit, RegistryTypeOK, GoroutineState, AllExited, At, Fault
<1>5. ASSUME NEW g \in Goroutines, GoroutineStep(g) PROVE RegistryTypeOK'
  BY <1>5, GoroutineType
<1>6. CASE Heartbeat
  BY <1>6, WriteType DEF Heartbeat, RegistryTypeOK
<1>7. CASE HeartbeatExit
  BY <1>7 DEF HeartbeatExit, RegistryTypeOK, NoFault
<1>8. CASE Tick
  BY <1>8 DEF Tick, RegistryTypeOK, WorkerRow, NoFault
<1>9. CASE UNCHANGED vars
  BY <1>9 DEF vars, RegistryTypeOK
<1> QED
  BY <1>1, <1>2, <1>3, <1>4, <1>5, <1>6, <1>7, <1>8, <1>9 DEF Next

\* The row, the goroutines and the heartbeat always have their types, and a
\* goroutine holds a job exactly while it is about to note, run or clear one.
THEOREM RegistryTypeCorrectness == Spec => []RegistryTypeOK
BY TypeInit, TypeNext, PTL DEF Spec

-----------------------------------------------------------------------------
LEMMA StoppedNext ==
  RegistryTypeOK /\ StoppedIsIdle /\ [Next]_vars => StoppedIsIdle'
<1> SUFFICES ASSUME RegistryTypeOK, StoppedIsIdle, [Next]_vars, row'.status = "stopped"
             PROVE  gor' = AllExited
  BY DEF StoppedIsIdle
<1>a. \A j \in Jobs \cup {NoJob} : WriteCurrent(j) => row'.status = row.status
  BY DEF WriteCurrent, RegistryTypeOK, WorkerRow
<1>1. CASE Start
  BY <1>1 DEF Start
<1>2. CASE MarkStopped
  <2>1. \A g \in Goroutines : gor[g] = At("exited", NoJob)
    BY <1>2 DEF MarkStopped, RegistryTypeOK, GoroutineState, At
  <2> QED
    BY <1>2, <2>1 DEF MarkStopped, AllExited, RegistryTypeOK
<1>3. CASE Exit
  BY <1>3 DEF Exit
<1>4. ASSUME NEW g \in Goroutines, GoroutineStep(g) PROVE FALSE
  <2>1. gor[g].pc # "exited" /\ gor[g].job \in Jobs \cup {NoJob}
    BY <1>4 DEF GoroutineStep, Take, Note, EndRun, Clear, Return, RegistryTypeOK,
                GoroutineState
  <2>2. row'.status = row.status
    BY <1>4, <1>a, <2>1 DEF GoroutineStep, Take, Note, EndRun, Clear, Return
  <2> QED
    BY <2>1, <2>2 DEF StoppedIsIdle, AllExited, At
<1>5. CASE Stop \/ Heartbeat \/ HeartbeatExit \/ Tick \/ UNCHANGED vars
  <2>1. row'.status = row.status
    BY <1>5, <1>a DEF Stop, Heartbeat, HeartbeatExit, Tick, vars, RegistryTypeOK, WorkerRow
  <2> QED
    BY <1>5, <2>1 DEF Stop, Heartbeat, HeartbeatExit, Tick, vars, StoppedIsIdle
<1> QED
  BY <1>1, <1>2, <1>3, <1>4, <1>5 DEF Next

\* A worker whose row says stopped runs nothing, whatever its heartbeat, its
\* crashes and its failing writes do (Worker.Start waits for the pool before
\* it marks the row).
THEOREM StoppedWorkersAreIdle == Spec => []StoppedIsIdle
<1>1. Init => StoppedIsIdle
  BY DEF Init, StoppedIsIdle
<1> QED
  BY <1>1, RegistryTypeCorrectness, StoppedNext, PTL DEF Spec

-----------------------------------------------------------------------------
\* Every period in which last_seen has not been written is paid for with a
\* failed heartbeat, but for the period that is due.
SeenIsPaidFor ==
  proc = "up" => /\ beat # "exited"
                 /\ row.seen <= faults + (IF beat = "due" THEN 1 ELSE 0)

LEMMA SeenNext ==
  RegistryTypeOK /\ SeenIsPaidFor /\ [Next]_vars => SeenIsPaidFor'
<1> SUFFICES ASSUME RegistryTypeOK, SeenIsPaidFor, [Next]_vars, proc' = "up"
             PROVE  /\ beat' # "exited"
                    /\ row'.seen <= faults' + (IF beat' = "due" THEN 1 ELSE 0)
  BY DEF SeenIsPaidFor
<1>0. faults \in Nat /\ row.seen \in Nat
  BY DEF RegistryTypeOK, WorkerRow
<1>a. ASSUME NEW j \in Jobs \cup {NoJob}, WriteCurrent(j)
      PROVE  /\ faults' \in Nat
             /\ \/ row'.seen = 0
                \/ row'.seen = row.seen /\ faults' = faults + 1
  <2>1. CASE row' = [row EXCEPT !.current = j, !.seen = 0] /\ NoFault
    BY <1>0, <2>1 DEF NoFault, RegistryTypeOK, WorkerRow
  <2>2. CASE UNCHANGED row /\ Fault("db_error")
    BY <1>0, <2>2 DEF Fault
  <2> QED
    BY <1>a, <2>1, <2>2 DEF WriteCurrent
<1>1. CASE Start
  BY <1>0, <1>1 DEF Start, NoFault
<1>2. CASE Stop \/ MarkStopped \/ Exit \/ HeartbeatExit
  BY <1>2 DEF Stop, MarkStopped, Exit, HeartbeatExit
<1>3. ASSUME NEW g \in Goroutines, GoroutineStep(g)
      PROVE  /\ beat' # "exited"
             /\ row'.seen <= faults' + (IF beat' = "due" THEN 1 ELSE 0)
  <2>1. proc = "up" /\ beat' = beat /\ gor[g].job \in Jobs \cup {NoJob}
    BY <1>3 DEF GoroutineStep, Take, Note, EndRun, Clear, Return, RegistryTypeOK,
                GoroutineState
  <2>2. CASE Note(g) \/ Clear(g)
    BY <1>0, <1>a, <2>1, <2>2 DEF Note, Clear, SeenIsPaidFor
  <2>3. CASE Take(g) \/ EndRun(g) \/ Return(g)
    BY <2>1, <2>3 DEF Take, EndRun, Return, NoFault, SeenIsPaidFor
  <2> QED
    BY <1>3, <2>2, <2>3 DEF GoroutineStep
<1>4. CASE Heartbeat
  BY <1>0, <1>4, <1>a DEF Heartbeat, SeenIsPaidFor
<1>5. CASE Tick
  BY <1>0, <1>5 DEF Tick, NoFault, SeenIsPaidFor, RegistryTypeOK, WorkerRow
<1>6. CASE UNCHANGED vars
  BY <1>6 DEF vars, SeenIsPaidFor
<1> QED
  BY <1>1, <1>2, <1>3, <1>4, <1>5, <1>6 DEF Next

\* A worker that is up is in the answer of ListWorkers as long as fewer
\* database calls fail than the cutoff has periods, less one: heartbeats come
\* every 30 s and the cutoff is two minutes.
THEOREM LiveWorkersAreListed ==
  ASSUME MaxFaults + 1 < Cutoff PROVE Spec => []LiveIsListed
<1>1. Init => SeenIsPaidFor
  BY DEF Init, SeenIsPaidFor
<1>2. RegistryTypeOK /\ SeenIsPaidFor => LiveIsListed
  BY DEF RegistryTypeOK, SeenIsPaidFor, LiveIsListed, Listed, WorkerRow
<1> QED
  BY <1>1, <1>2, RegistryTypeCorrectness, SeenNext, PTL DEF Spec

=============================================================================
