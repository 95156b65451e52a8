--------------------------- MODULE JobTimingProofs ---------------------------
(***************************************************************************)
(* Theorems about JobTiming, for any timeout, periods, lag and skew of the *)
(* clocks: how early and how late stuck jobs are recovered, that each job  *)
(* lives the life of JobLifecycle, that the loop of RetryDelay computes    *)
(* what its comment promises, and how early and late delayed jobs are      *)
(* queued.                                                                 *)
(***************************************************************************)
EXTENDS JobTiming, WellFoundedInduction, TLAPS

LEMMA Parameters ==
  /\ StuckTimeout \in Nat /\ StuckPeriod \in Nat /\ MaxSkew \in Nat /\ Lag \in Nat
  /\ MaxAttempts \in Nat /\ MaxAttempts >= 1
  /\ Starts \subseteq Nat
BY TimingAssumption

-----------------------------------------------------------------------------
(* What the steps do to the rows.                                          *)

Fields == {"status", "attempts", "score", "started", "due", "begun", "since", "fits"}

\* As much of its type as recovery and the refinement depend on, which holds
\* whatever the backoff computes.
IsRow(row) ==
  /\ row = [f \in Fields |-> row[f]]
  /\ row.attempts \in Nat /\ row.started \in Int
  /\ row.begun \in Nat /\ row.since \in Nat
  /\ row.status \in {"absent", "accepted"} => row.attempts = 0
  /\ row.status = "failing" => row.attempts + 1 < MaxAttempts

Rows ==
  /\ now \in Nat /\ nextScan \in Nat
  /\ DOMAIN job = Jobs
  /\ \A j \in Jobs : IsRow(job[j])

\* From one place to another, by a step that leaves the times of an execution
\* alone.
From(old, from, new, to) == old.status = from /\ new.status = to

KeepsRun(old, new) ==
  /\ new.attempts = old.attempts /\ new.started = old.started /\ new.begun = old.begun

\* What each step of a request or a worker does to its row.
Submits(old, new) ==
  /\ old.status = "absent" /\ new.status \in {"accepted", "queued"}
  /\ new.attempts = 0

Saves(old, new) == From(old, "accepted", new, "saved") /\ new.attempts = old.attempts

PutsOff(old, new) == From(old, "saved", new, "delayed") /\ new.attempts = old.attempts

Begins(old, new) ==
  /\ From(old, "queued", new, "marking") /\ new.attempts = old.attempts
  /\ new.begun = now /\ new.started - now \in -MaxSkew .. MaxSkew

Marks(old, new) ==
  From(old, "marking", new, "running") /\ KeepsRun(old, new) /\ new.since = now

Completes(old, new) ==
  From(old, "running", new, "completed") /\ new.attempts = old.attempts

Fails(old, new) ==
  /\ From(old, "running", new, "failing") /\ KeepsRun(old, new)
  /\ new.since = old.since

Retries(old, new) ==
  /\ From(old, "failing", new, "saved") /\ new.attempts = old.attempts + 1

Buries(old, new) ==
  /\ From(old, "running", new, "dead") /\ new.attempts = old.attempts + 1
  /\ old.attempts + 1 >= MaxAttempts

Steps(old, new) ==
  \/ Submits(old, new) \/ Saves(old, new) \/ PutsOff(old, new)
  \/ Begins(old, new) \/ Marks(old, new) \/ Completes(old, new)
  \/ Fails(old, new) \/ Retries(old, new) \/ Buries(old, new)

\* The row of job j is replaced by a row that a step makes of it.
LEMMA RowReplaced ==
  ASSUME Rows, NEW j \in Jobs, NEW row, job' = [job EXCEPT ![j] = row],
         IsRow(row), Steps(job[j], row), UNCHANGED clocks
  PROVE  /\ Rows' /\ \A i \in Jobs \ {j} : job'[i] = job[i]
         /\ Steps(job[j], job'[j])
BY DEF Rows, clocks

LEMMA RowsInit == Init => Rows
BY Parameters DEF Init, Rows, IsRow, Fields, Unborn

\* A row with another score and date.
LEMMA UntilRow ==
  ASSUME NEW row, IsRow(row), NEW runAt, NEW due, NEW fits
  PROVE  LET new == Until(runAt, due, fits, row) IN
         /\ IsRow(new) /\ KeepsRun(row, new)
         /\ new.status = row.status /\ new.since = row.since
<1> DEFINE score == runAt \div Second
           new == [row EXCEPT !.score = score, !.due = due, !.fits = fits]
<1> HIDE DEF score
<1>1. /\ new = [f \in Fields |-> new[f]]
      /\ new.status = row.status /\ new.since = row.since
      /\ new.attempts = row.attempts /\ new.started = row.started
      /\ new.begun = row.begun
  BY DEF IsRow, Fields
<1>2. new = Until(runAt, due, fits, row)
  BY DEF Until, score
<1> HIDE DEF new
<1> QED
  BY <1>1, <1>2 DEF IsRow, KeepsRun

LEMMA SubmitRow ==
  ASSUME Rows, NEW j \in Jobs, Submit(j)
  PROVE  /\ Rows' /\ \A i \in Jobs \ {j} : job'[i] = job[i]
         /\ Steps(job[j], job'[j])
<1> DEFINE row(d) == IF d > 0 THEN Until(now + Duration(d), now + d * Second,
                                          d * Second < HalfRange,
                                          [Unborn EXCEPT !.status = "accepted"])
                     ELSE [Unborn EXCEPT !.status = "queued"]
<1> DEFINE accepted == [Unborn EXCEPT !.status = "accepted"]
           queued == [Unborn EXCEPT !.status = "queued"]
<1>1. /\ IsRow(accepted) /\ accepted.status = "accepted" /\ accepted.attempts = 0
      /\ IsRow(queued) /\ queued.status = "queued" /\ queued.attempts = 0
  BY DEF Unborn, IsRow, Fields
<1>2. \A d \in Delays : /\ IsRow(row(d)) /\ row(d).attempts = 0
                        /\ row(d).status \in {"accepted", "queued"}
  <2> HIDE DEF accepted, queued
  <2>1. \A runAt, due, fits :
          LET new == Until(runAt, due, fits, accepted) IN
          IsRow(new) /\ new.attempts = 0 /\ new.status = "accepted"
    BY <1>1, UntilRow DEF KeepsRun
  <2> QED
    BY <1>1, <2>1 DEF accepted, queued
<1>3. PICK d \in Delays : job' = [job EXCEPT ![j] = row(d)]
  BY DEF Submit
<1> HIDE DEF row
<1>4. Steps(job[j], row(d))
  BY <1>2 DEF Submit, Steps, Submits
<1> QED
  BY <1>2, <1>3, <1>4, RowReplaced DEF Submit

LEMMA SaveRow ==
  ASSUME Rows, NEW j \in Jobs, Save(j)
  PROVE  /\ Rows' /\ \A i \in Jobs \ {j} : job'[i] = job[i]
         /\ Steps(job[j], job'[j])
<1> DEFINE row == [job[j] EXCEPT !.status = "saved"]
<1>1. IsRow(row) /\ Saves(job[j], row)
  BY DEF Save, Saves, From, Rows, IsRow, Fields
<1> HIDE DEF row
<1> QED
  BY <1>1, RowReplaced DEF Save, Steps, row

LEMMA PutOffRow ==
  ASSUME Rows, NEW j \in Jobs, PutOff(j)
  PROVE  /\ Rows' /\ \A i \in Jobs \ {j} : job'[i] = job[i]
         /\ Steps(job[j], job'[j])
<1> DEFINE row == [job[j] EXCEPT !.status = "delayed", !.since = now]
<1>1. IsRow(row) /\ PutsOff(job[j], row)
  BY DEF PutOff, Arrives, PutsOff, From, Rows, IsRow, Fields
<1> HIDE DEF row
<1> QED
  BY <1>1, RowReplaced DEF PutOff, Arrives, Steps, row

LEMMA BeginRow ==
  ASSUME Rows, NEW j \in Jobs, Begin(j)
  PROVE  /\ Rows' /\ \A i \in Jobs \ {j} : job'[i] = job[i]
         /\ Steps(job[j], job'[j])
<1>1. PICK t \in WorkerTimes :
        job' = [job EXCEPT ![j] =
          [job[j] EXCEPT !.status = "marking", !.begun = now, !.started = t]]
  BY DEF Begin
<1>2. t \in Int /\ t - now \in -MaxSkew .. MaxSkew
  BY Parameters DEF WorkerTimes, Rows
<1> DEFINE row == [job[j] EXCEPT !.status = "marking", !.begun = now, !.started = t]
<1>3. IsRow(row) /\ Begins(job[j], row)
  BY <1>2 DEF Begin, Begins, From, Rows, IsRow, Fields
<1> HIDE DEF row
<1> QED
  BY <1>1, <1>3, RowReplaced DEF Begin, Steps, row

LEMMA MarkRow ==
  ASSUME Rows, NEW j \in Jobs, Mark(j)
  PROVE  /\ Rows' /\ \A i \in Jobs \ {j} : job'[i] = job[i]
         /\ Steps(job[j], job'[j])
<1> DEFINE row == [job[j] EXCEPT !.status = "running", !.since = now]
<1>1. IsRow(row) /\ Marks(job[j], row)
  BY DEF Mark, Arrives, Marks, From, KeepsRun, Rows, IsRow, Fields
<1> HIDE DEF row
<1> QED
  BY <1>1, RowReplaced DEF Mark, Arrives, Steps, row

LEMMA CompleteRow ==
  ASSUME Rows, NEW j \in Jobs, Complete(j)
  PROVE  /\ Rows' /\ \A i \in Jobs \ {j} : job'[i] = job[i]
         /\ Steps(job[j], job'[j])
<1> DEFINE row == [Forget(job[j]) EXCEPT !.status = "completed"]
<1>1. IsRow(row) /\ Completes(job[j], row)
  BY DEF Complete, Forget, ForgetRun, Completes, From, Rows, IsRow, Fields
<1> HIDE DEF row
<1> QED
  BY <1>1, RowReplaced DEF Complete, Steps, row

LEMMA FailRow ==
  ASSUME Rows, NEW j \in Jobs, Fail(j)
  PROVE  /\ Rows' /\ \A i \in Jobs \ {j} : job'[i] = job[i]
         /\ Steps(job[j], job'[j])
<1>1. PICK runAt, due, fits :
        job' = [job EXCEPT ![j] =
          Until(runAt, due, fits, [job[j] EXCEPT !.status = "failing"])]
  BY DEF Fail
<1> DEFINE row == Until(runAt, due, fits, [job[j] EXCEPT !.status = "failing"])
<1>2. job[j].attempts + 1 < MaxAttempts
  BY Parameters DEF Fail, Exhausted, Rows, IsRow
<1> DEFINE failing == [job[j] EXCEPT !.status = "failing"]
<1>3. /\ IsRow(failing) /\ failing.status = "failing"
      /\ KeepsRun(job[j], failing) /\ failing.since = job[j].since
  BY <1>2 DEF Rows, IsRow, Fields, KeepsRun
<1>4. IsRow(row) /\ Fails(job[j], row)
  <2> HIDE DEF failing
  <2>1. row = Until(runAt, due, fits, failing)
    BY DEF failing
  <2> HIDE DEF row
  <2>2. /\ IsRow(row) /\ row.status = "failing" /\ row.since = job[j].since
        /\ KeepsRun(failing, row)
    BY <1>3, <2>1, UntilRow
  <2>3. Fails(job[j], row)
    BY <1>3, <2>2 DEF Fail, Fails, From, KeepsRun
  <2> QED
    BY <2>2, <2>3
<1> HIDE DEF row
<1> QED
  BY <1>1, <1>4, RowReplaced DEF Fail, Steps, row

LEMMA RetryRow ==
  ASSUME Rows, NEW j \in Jobs, Retry(j)
  PROVE  /\ Rows' /\ \A i \in Jobs \ {j} : job'[i] = job[i]
         /\ Steps(job[j], job'[j])
<1> DEFINE n == job[j].attempts + 1
           row == [ForgetRun(job[j]) EXCEPT !.status = "saved", !.attempts = n]
<1>1. n \in Nat
  BY DEF Rows, IsRow
<1>2. job' = [job EXCEPT ![j] = row]
  BY DEF Retry
<1> HIDE DEF n
<1>3. IsRow(row) /\ From(job[j], "failing", row, "saved") /\ row.attempts = n
  BY <1>1 DEF Retry, ForgetRun, From, Rows, IsRow, Fields
<1> HIDE DEF row
<1>4. Steps(job[j], row)
  BY <1>3 DEF Steps, Retries, n
<1> QED
  BY <1>2, <1>3, <1>4, RowReplaced DEF Retry

LEMMA BuryRow ==
  ASSUME Rows, NEW j \in Jobs, Bury(j)
  PROVE  /\ Rows' /\ \A i \in Jobs \ {j} : job'[i] = job[i]
         /\ Steps(job[j], job'[j])
<1> DEFINE n == job[j].attempts + 1
           row == [Forget(job[j]) EXCEPT !.status = "dead", !.attempts = n]
<1>1. n \in Nat
  BY DEF Rows, IsRow
<1>2. job' = [job EXCEPT ![j] = row]
  BY DEF Bury
<1> HIDE DEF n
<1>3. IsRow(row) /\ From(job[j], "running", row, "dead") /\ row.attempts = n
  BY <1>1 DEF Bury, Forget, ForgetRun, From, Rows, IsRow, Fields
<1> HIDE DEF row
<1>4. Steps(job[j], row)
  BY <1>3 DEF Bury, Exhausted, Steps, Buries, n
<1> QED
  BY <1>2, <1>3, <1>4, RowReplaced DEF Bury

LEMMA JobStepRow ==
  ASSUME Rows, NEW j \in Jobs, JobStep(j)
  PROVE  /\ Rows' /\ \A i \in Jobs \ {j} : job'[i] = job[i]
         /\ Steps(job[j], job'[j]) /\ UNCHANGED clocks
<1>1. UNCHANGED clocks
  BY DEF JobStep, Submit, Save, PutOff, Arrives, Begin, Mark, Complete, Fail, Retry, Bury
<1> QED
  BY <1>1, SubmitRow, SaveRow, PutOffRow, BeginRow, MarkRow, CompleteRow, FailRow,
     RetryRow, BuryRow DEF JobStep

\* A pass of the scheduler, for the jobs js.
LEMMA RequeueRow ==
  ASSUME Rows, NEW js, Requeue(js), NEW j \in Jobs
  PROVE  /\ DOMAIN job' = Jobs /\ IsRow(job'[j])
         /\ job'[j] = job[j]
            \/ (j \in js /\ job'[j].status = "queued" /\ job'[j].attempts = job[j].attempts)
         /\ j \in js => job'[j].status = "queued"
BY DEF Requeue, Forget, ForgetRun, Rows, IsRow, Fields

LEMMA RowsNext == Rows /\ [Next]_vars => Rows'
<1> SUFFICES ASSUME Rows, [Next]_vars PROVE Rows'
  OBVIOUS
<1>1. CASE Promote \/ Recover
  <2>1. now' = now /\ nextScan' \in Nat
    BY <1>1, Parameters DEF Promote, Recover, Rows
  <2>2. PICK js : Requeue(js)
    BY <1>1 DEF Promote, Recover
  <2>3. DOMAIN job' = Jobs
    BY <2>2 DEF Requeue
  <2> QED
    BY <2>1, <2>2, <2>3, RequeueRow DEF Rows
<1>2. CASE Tick \/ End \/ UNCHANGED vars
  BY <1>2 DEF Tick, End, vars, Rows
<1> QED
  BY <1>1, <1>2, JobStepRow DEF Next

-----------------------------------------------------------------------------
(* How early and how late a stuck job is recovered.                        *)

\* The scheduler keeps up with its ticker for stuck jobs.
ScanInTime ==
  /\ nextScan <= now + StuckPeriod
  /\ now <= nextScan + Lag

\* The times of an execution agree up to the skew.
WellTimed(row) ==
  row.status \in {"marking", "running", "failing"} =>
    /\ row.started - row.begun \in -MaxSkew .. MaxSkew
    /\ row.begun <= now

\* No row has been running for longer than the last pass has left behind.
RunsInTime(row) ==
  row.status \in {"running", "failing"} =>
    /\ row.begun <= row.since
    /\ nextScan <= row.since + MaxSkew + StuckTimeout + StuckPeriod

RecoveryInv ==
  /\ Rows /\ ScanInTime
  /\ \A j \in Jobs : WellTimed(job[j]) /\ RunsInTime(job[j])

LEMMA RecoveryInit == Init => RecoveryInv
BY RowsInit, Parameters
   DEF Init, RecoveryInv, ScanInTime, WellTimed, RunsInTime, Unborn

LEMMA JobStepKept ==
  ASSUME RecoveryInv, NEW j \in Jobs, JobStep(j) PROVE RecoveryInv'
<1>1. /\ Rows' /\ \A i \in Jobs \ {j} : job'[i] = job[i]
      /\ Steps(job[j], job'[j]) /\ UNCHANGED clocks
  BY JobStepRow DEF RecoveryInv
<1>2. ScanInTime'
  BY <1>1 DEF RecoveryInv, ScanInTime, clocks
<1>3. \A i \in Jobs \ {j} : WellTimed(job[i])' /\ RunsInTime(job[i])'
  BY <1>1 DEF RecoveryInv, WellTimed, RunsInTime, clocks
<1> DEFINE old == job[j]  new == job'[j]
<1>4. /\ now \in Nat /\ nextScan \in Nat /\ now' = now /\ nextScan' = nextScan
      /\ old.started \in Int /\ old.begun \in Nat /\ old.since \in Nat
      /\ new.started \in Int /\ new.begun \in Nat /\ new.since \in Nat
      /\ WellTimed(old) /\ RunsInTime(old) /\ nextScan <= now + StuckPeriod
  BY <1>1 DEF RecoveryInv, Rows, IsRow, ScanInTime, clocks
<1>5. WellTimed(job[j])' /\ RunsInTime(job[j])'
  <2>1. CASE Begins(old, new)
    BY <1>4, <2>1, Parameters DEF Begins, From, WellTimed, RunsInTime
  <2>2. CASE Marks(old, new)
    BY <1>4, <2>2, Parameters DEF Marks, From, KeepsRun, WellTimed, RunsInTime
  <2>3. CASE Fails(old, new)
    BY <1>4, <2>3 DEF Fails, From, KeepsRun, WellTimed, RunsInTime
  <2>4. CASE /\ ~Begins(old, new) /\ ~Marks(old, new) /\ ~Fails(old, new)
    <3>1. new.status \notin {"marking", "running", "failing"}
      BY <1>1, <2>4 DEF Steps, From, Submits, Saves, PutsOff, Completes, Retries, Buries
    <3> QED
      BY <3>1 DEF WellTimed, RunsInTime
  <2> QED
    BY <2>1, <2>2, <2>3, <2>4
<1> QED
  BY <1>1, <1>2, <1>3, <1>5 DEF RecoveryInv

LEMMA PromoteKept ==
  ASSUME RecoveryInv, Promote PROVE RecoveryInv'
<1>1. Rows /\ Rows' /\ UNCHANGED <<now, nextScan>> /\ Requeue(DueJobs)
  BY RowsNext DEF Promote, Next, RecoveryInv
<1>2. ASSUME NEW j \in Jobs PROVE job'[j] = job[j] \/ job'[j].status = "queued"
  BY <1>1, RequeueRow
<1>3. ASSUME NEW j \in Jobs PROVE WellTimed(job[j])' /\ RunsInTime(job[j])'
  BY <1>1, <1>2 DEF RecoveryInv, WellTimed, RunsInTime
<1> QED
  BY <1>1, <1>3 DEF RecoveryInv, ScanInTime

\* A pass leaves no row running that began a timeout before the pass.
LEMMA RecoverKept == ASSUME RecoveryInv, Recover PROVE RecoveryInv'
<1>1. /\ Rows /\ Rows' /\ now' = now /\ nextScan' = nextScan + StuckPeriod
      /\ now >= nextScan /\ Requeue(StuckJobs)
  BY RowsNext DEF Recover, Next, RecoveryInv
<1>2. ScanInTime'
  BY <1>1, Parameters DEF RecoveryInv, Rows, ScanInTime
<1>3. ASSUME NEW j \in Jobs PROVE WellTimed(job[j])' /\ RunsInTime(job[j])'
  <2>1. /\ job'[j] = job[j] \/ job'[j].status = "queued"
        /\ j \in StuckJobs => job'[j].status = "queued"
    BY <1>1, RequeueRow
  <2>2. CASE job'[j].status = "queued"
    BY <2>2 DEF WellTimed, RunsInTime
  <2>3. CASE job'[j] = job[j] /\ j \notin StuckJobs
    <3>1. job[j].status \in {"running", "failing"} => job[j].started >= now - StuckTimeout
      BY <1>1, <2>3, Parameters DEF StuckJobs, RowStatus, Rows, IsRow
    <3>2. /\ now \in Nat /\ nextScan \in Nat /\ now >= nextScan
          /\ job[j].started \in Int /\ job[j].begun \in Nat /\ job[j].since \in Nat
          /\ WellTimed(job[j]) /\ RunsInTime(job[j])
      BY <1>1 DEF RecoveryInv, Rows, IsRow
    <3> QED
      BY <1>1, <2>3, <3>1, <3>2, Parameters DEF WellTimed, RunsInTime
  <2> QED
    BY <2>1, <2>2, <2>3
<1> QED
  BY <1>1, <1>2, <1>3 DEF RecoveryInv

LEMMA TickKept == ASSUME RecoveryInv, Tick PROVE RecoveryInv'
<1>1. /\ now \in Nat /\ now' = now + 1 /\ nextScan \in Nat /\ now < nextScan + Lag
      /\ UNCHANGED <<nextScan, job>>
  BY DEF Tick, RecoveryInv, Rows
<1>2. Rows' /\ ScanInTime'
  BY <1>1, Parameters DEF RecoveryInv, Rows, ScanInTime
<1>3. ASSUME NEW j \in Jobs PROVE WellTimed(job[j])' /\ RunsInTime(job[j])'
  <2>1. job[j].begun \in Nat /\ WellTimed(job[j]) /\ RunsInTime(job[j])
    BY DEF RecoveryInv, Rows, IsRow
  <2> QED
    BY <1>1, <2>1 DEF WellTimed, RunsInTime
<1> QED
  BY <1>2, <1>3 DEF RecoveryInv

LEMMA RecoveryNext == RecoveryInv /\ [Next]_vars => RecoveryInv'
<1> SUFFICES ASSUME RecoveryInv, [Next]_vars PROVE RecoveryInv'
  OBVIOUS
<1>1. CASE End \/ UNCHANGED vars
  BY <1>1 DEF End, vars, RecoveryInv, Rows, ScanInTime, WellTimed, RunsInTime
<1> QED
  BY <1>1, JobStepKept, PromoteKept, RecoverKept, TickKept DEF Next

LEMMA RecoveryInvariant == Spec => []RecoveryInv
BY RecoveryInit, RecoveryNext, PTL DEF Spec

\* A row is running no longer than the stuck timeout, a period of the ticker,
\* the lag of the scheduler and the skew of the clocks (GetStuckJobs and the
\* ticker of Scheduler.Start), for every value of these.
THEOREM StuckJobsAreRecovered == Spec => []RecoveredInTime
<1>1. RecoveryInv => RecoveredInTime
  <2> SUFFICES ASSUME RecoveryInv, NEW j \in Jobs, RowStatus(j) = "running"
               PROVE  now - job[j].since <= StuckTimeout + StuckPeriod + Lag + MaxSkew
    BY DEF RecoveredInTime
  <2>1. job[j].status \in {"running", "failing"}
    BY DEF RowStatus
  <2> QED
    BY <2>1, Parameters DEF RecoveryInv, Rows, IsRow, ScanInTime, RunsInTime
<1> QED
  BY <1>1, RecoveryInvariant, PTL

\* A row is taken for stuck only if its worker read the clock a stuck timeout
\* ago, less the skew: each execution writes a started_at of its own, and no
\* other step of the scheduler or of a worker queues a running row.
THEOREM NoJobRecoveredEarly == Spec => NeverRecoveredEarly
<1> DEFINE Late == \A j \in Jobs :
       (RowStatus(j) = "running" /\ job'[j].status = "queued")
         => now - job[j].begun > StuckTimeout - MaxSkew
<1>1. RecoveryInv /\ [Next]_vars => [Late]_vars
  <2> SUFFICES ASSUME RecoveryInv, [Next]_vars, NEW j \in Jobs,
                      RowStatus(j) = "running", job'[j].status = "queued"
               PROVE  now - job[j].begun > StuckTimeout - MaxSkew
    OBVIOUS
  <2>1. job[j].status \in {"running", "failing"}
    BY DEF RowStatus
  <2>2. CASE Recover
    <3>1. j \in StuckJobs
      BY <2>1, <2>2 DEF Recover, Requeue
    <3> QED
      BY <2>1, <3>1, Parameters DEF StuckJobs, RecoveryInv, Rows, IsRow, WellTimed
  <2>3. CASE Promote
    BY <2>1, <2>3 DEF Promote, Requeue, DueJobs
  <2>4. ASSUME NEW k \in Jobs, JobStep(k) PROVE FALSE
    <3>1. /\ \A i \in Jobs \ {k} : job'[i] = job[i]
          /\ Steps(job[k], job'[k])
      BY <2>4, JobStepRow DEF RecoveryInv
    <3>2. k = j
      BY <2>1, <3>1
    <3> QED
      BY <2>1, <3>1, <3>2
         DEF Steps, From, Submits, Saves, PutsOff, Begins, Marks, Completes, Fails,
             Retries, Buries
  <2>5. CASE Tick \/ End \/ UNCHANGED vars
    BY <2>1, <2>5 DEF Tick, End, vars
  <2> QED
    BY <2>2, <2>3, <2>4, <2>5 DEF Next
<1> QED
  BY <1>1, RecoveryInvariant, PTL DEF Spec, NeverRecoveredEarly

-----------------------------------------------------------------------------
(* The refinement.                                                         *)

\* Each step of a worker or a request on job j is a step of JobLifecycle, or
\* changes nothing that it sees.
LEMMA StepLives ==
  ASSUME Rows, NEW j \in Jobs, Rows', Steps(job[j], job'[j])
  PROVE  [Lifecycle(j)!LifecycleNext]_(LifeOf(j))
<1> DEFINE old == job[j]  new == job'[j]
<1>1. /\ old.attempts \in Nat /\ new.attempts \in Nat
      /\ old.status \in {"absent", "accepted"} => old.attempts = 0
      /\ new.status \in {"absent", "accepted"} => new.attempts = 0
      /\ old.status = "failing" => old.attempts + 1 < MaxAttempts
  BY DEF Rows, IsRow
<1>2. CASE Submits(old, new) /\ new.status = "queued"
  <2>1. Lifecycle(j)!Submit(j)
    BY <1>2 DEF Submits, Lifecycle!Submit, LifeOf, RowStatus
  <2> QED
    BY <2>1 DEF Lifecycle!LifecycleNext
<1>3. CASE Submits(old, new) /\ new.status = "accepted"
  BY <1>1, <1>3 DEF Submits, LifeOf, RowStatus
<1>4. CASE Saves(old, new)
  <2>1. Lifecycle(j)!Submit(j)
    BY <1>1, <1>4 DEF Saves, From, Lifecycle!Submit, LifeOf, RowStatus
  <2> QED
    BY <2>1 DEF Lifecycle!LifecycleNext
<1>5. CASE PutsOff(old, new)
  BY <1>5 DEF PutsOff, From, LifeOf, RowStatus
<1>6. CASE Begins(old, new)
  BY <1>6 DEF Begins, From, LifeOf, RowStatus
<1>7. CASE Marks(old, new)
  <2>1. Lifecycle(j)!Begin(j)
    BY <1>7 DEF Marks, From, KeepsRun, Lifecycle!Begin, Lifecycle!Moves, LifeOf, RowStatus
  <2> QED
    BY <2>1 DEF Lifecycle!LifecycleNext
<1>8. CASE Completes(old, new)
  <2>1. Lifecycle(j)!Complete(j)
    BY <1>8 DEF Completes, From, Lifecycle!Complete, Lifecycle!Moves, LifeOf, RowStatus
  <2> QED
    BY <2>1 DEF Lifecycle!LifecycleNext
<1>9. CASE Fails(old, new)
  BY <1>9 DEF Fails, From, KeepsRun, LifeOf, RowStatus
<1>10. CASE Retries(old, new)
  <2>1. Lifecycle(j)!Retry(j)
    BY <1>1, <1>10 DEF Retries, From, Lifecycle!Retry, Lifecycle!Moves, LifeOf, RowStatus
  <2> QED
    BY <2>1 DEF Lifecycle!LifecycleNext
<1>11. CASE Buries(old, new)
  <2>1. Lifecycle(j)!Exhaust(j)
    BY <1>11 DEF Buries, From, Lifecycle!Exhaust, Lifecycle!Moves, LifeOf, RowStatus
  <2> QED
    BY <2>1 DEF Lifecycle!LifecycleNext
<1> QED
  BY <1>2, <1>3, <1>4, <1>5, <1>6, <1>7, <1>8, <1>9, <1>10, <1>11 DEF Steps, Submits

\* A pass for delayed jobs changes nothing that JobLifecycle sees.
LEMMA PromoteLives ==
  ASSUME Rows, Promote, NEW j \in Jobs PROVE UNCHANGED LifeOf(j)
<1>1. /\ job'[j] = job[j]
         \/ (j \in DueJobs /\ job'[j].status = "queued" /\ job'[j].attempts = job[j].attempts)
  BY RequeueRow DEF Promote
<1>2. j \in DueJobs => job[j].status = "delayed"
  BY DEF DueJobs
<1> QED
  BY <1>1, <1>2 DEF LifeOf, RowStatus

\* A pass for stuck jobs requeues some of them.
LEMMA RecoverLives ==
  ASSUME Rows, Recover, NEW j \in Jobs
  PROVE  Lifecycle(j)!Requeue(j) \/ UNCHANGED LifeOf(j)
<1>1. /\ job'[j] = job[j]
         \/ (j \in StuckJobs /\ job'[j].status = "queued" /\ job'[j].attempts = job[j].attempts)
  BY RequeueRow DEF Recover
<1>2. j \in StuckJobs => job[j].status \in {"running", "failing"}
  BY DEF StuckJobs, RowStatus
<1>3. CASE job'[j] = job[j]
  BY <1>3 DEF LifeOf, RowStatus
<1>4. CASE /\ job[j].status \in {"running", "failing"} /\ job'[j].status = "queued"
           /\ job'[j].attempts = job[j].attempts
  BY <1>4 DEF Lifecycle!Requeue, Lifecycle!Moves, LifeOf, RowStatus
<1> QED
  BY <1>1, <1>2, <1>3, <1>4

LEMMA NextLives ==
  ASSUME Rows, [Next]_vars, NEW j \in Jobs
  PROVE  [Lifecycle(j)!LifecycleNext]_(LifeOf(j))
<1>1. ASSUME NEW i \in Jobs, JobStep(i)
      PROVE  [Lifecycle(j)!LifecycleNext]_(LifeOf(j))
  <2>1. /\ Rows' /\ \A k \in Jobs \ {i} : job'[k] = job[k]
        /\ Steps(job[i], job'[i])
    BY <1>1, JobStepRow
  <2>2. CASE i = j
    BY <2>1, <2>2, StepLives
  <2>3. CASE i # j
    BY <2>1, <2>3 DEF LifeOf, RowStatus
  <2> QED
    BY <2>2, <2>3
<1>2. CASE Promote
  BY <1>2, PromoteLives
<1>3. CASE Recover
  BY <1>3, RecoverLives DEF Lifecycle!LifecycleNext
<1>4. CASE Tick \/ End \/ UNCHANGED vars
  BY <1>4 DEF Tick, End, vars, LifeOf, RowStatus
<1> QED
  BY <1>1, <1>2, <1>3, <1>4 DEF Next

\* Every job, with its delays, timeouts and clocks, lives the life that
\* JobLifecycle draws (the statuses of internal/queue/job.go): each step of a
\* request, a worker or the scheduler is a step of that life, or none.
THEOREM JobsLiveTheirLives == Spec => EachLivesItsLife
<1>1. Init => \A j \in Jobs : Lifecycle(j)!LifecycleInit
  <2> SUFFICES ASSUME Init, NEW j \in Jobs PROVE Lifecycle(j)!LifecycleInit
    OBVIOUS
  <2>1. job[j].status = "absent" /\ job[j].attempts = 0
    BY DEF Init, Unborn
  <2> QED
    BY <2>1 DEF Lifecycle!LifecycleInit, Lifecycle!Unborn, LifeOf, RowStatus
<1>2. Rows /\ [Next]_vars =>
        [\A j \in Jobs : [Lifecycle(j)!LifecycleNext]_(LifeOf(j))]_vars
  BY NextLives
<1> QED
  BY <1>1, <1>2, RowsInit, RowsNext, PTL DEF Spec, EachLivesItsLife

-----------------------------------------------------------------------------
(* Arithmetic: division, the width of a Duration, and the loop of RetryDelay. *)

\* What TimingAssumption says of the numbers.
LEMMA TimeParameters ==
  /\ \A n \in {Second, Base, Factor, Cap, MaxAttempts} : n \in Nat /\ n >= 1
  /\ HalfRange \in Nat /\ MaxSkew \in Nat /\ Lag \in Nat /\ Lag < Second
  /\ Cap * Second < HalfRange
  /\ Starts \subseteq Nat /\ Delays \subseteq Nat
BY TimingAssumption

\* A time cut to whole seconds is that time, less than a second early.
LEMMA CutToSeconds ==
  ASSUME NEW t \in Int
  PROVE  /\ t \div Second \in Int
         /\ (t \div Second) * Second <= t
         /\ t < (t \div Second) * Second + Second
         /\ t >= 0 => t \div Second >= 0
BY TimeParameters

\* Of two times in seconds the later is the later in ticks.
LEMMA TimesIsMonotonic ==
  ASSUME NEW a \in Int, NEW b \in Int, NEW c \in Nat, a <= b
  PROVE  a * c <= b * c
OBVIOUS

\* A score after the second of a time lies after that time.
LEMMA LaterSecond ==
  ASSUME NEW t \in Int, NEW score \in Int, t \div Second < score
  PROVE  t < score * Second
<1>1. t \div Second + 1 <= score
  BY CutToSeconds
<1> DEFINE cut == t \div Second
<1>2. cut \in Int /\ cut + 1 \in Int /\ Second \in Nat /\ t < cut * Second + Second
  BY CutToSeconds, TimeParameters
<1> HIDE DEF cut
<1>3. (cut + 1) * Second = cut * Second + Second
  BY <1>2
<1>4. (cut + 1) * Second <= score * Second
  BY <1>1, <1>2, TimesIsMonotonic DEF cut
<1> QED
  BY <1>2, <1>3, <1>4

\* A score up to the second of a time lies up to that time.
LEMMA EarlierSecond ==
  ASSUME NEW t \in Int, NEW score \in Int, score <= t \div Second
  PROVE  score * Second <= t
<1>1. score * Second <= (t \div Second) * Second
  BY CutToSeconds, TimeParameters, TimesIsMonotonic
<1> QED
  BY <1>1, CutToSeconds, TimeParameters

\* Whatever wraps around is a time; what fits stays what it is.
LEMMA DurationIsTime ==
  ASSUME NEW d \in Nat
  PROVE  /\ Duration(d) \in Int
         /\ d * Second < HalfRange => Duration(d) = d * Second
<1>1. d * Second \in Nat /\ HalfRange >= 1
  BY TimeParameters
<1>2. (d * Second + HalfRange) % (2 * HalfRange) \in Int
  BY <1>1, TimeParameters
<1>3. d * Second < HalfRange =>
        (d * Second + HalfRange) % (2 * HalfRange) = d * Second + HalfRange
  BY <1>1, TimeParameters
<1> QED
  BY <1>1, <1>2, <1>3, TimeParameters DEF Duration

\* The laws of powers, which hold for every natural number as the standard
\* modules define ^, and which the provers do not know.
PowersOfFactor ==
  /\ Factor ^ 0 = 1
  /\ \A n \in Nat : /\ Factor ^ n \in Nat /\ Factor ^ n >= 1
                    /\ Factor ^ (n + 1) = Factor ^ n * Factor

\* A set of numbers that is not empty has a least one.
LEMMA LeastNumber ==
  ASSUME NEW T \in SUBSET Nat, T # {} PROVE \E x \in T : \A y \in T : ~(y < x)
<1> DEFINE R == {p \in Nat \X Nat : p[1] < p[2]}
<1>1. IsWellFoundedOn(OpToRel(<, Nat), Nat)
  BY NatLessThanWellFounded
<1>2. OpToRel(<, Nat) = R
  BY DEF OpToRel
<1>3. IsWellFoundedOn(R, Nat)
  BY <1>1, <1>2
<1> HIDE DEF R
<1>4. \E x \in T : \A y \in T : ~(<<y, x>> \in R)
  BY <1>3, WFMin
<1> QED
  BY <1>4 DEF R

\* The loop of RetryDelay, before the cap: by induction over its rounds, of
\* which the least that were wrong would follow one that is right.
LEMMA BackoffIsPower ==
  ASSUME PowersOfFactor PROVE \A n \in Nat : Backoff[n] = Base * Factor ^ n
<1> DEFINE Loop(f) == f = [n \in Nat |-> IF n = 0 THEN Base ELSE f[n - 1] * Factor]
           power == [n \in Nat |-> Base * Factor ^ n]
           Wrong == {n \in Nat : Backoff[n] # power[n]}
<1>1. Loop(power)
  <2> SUFFICES ASSUME NEW n \in Nat
               PROVE  power[n] = IF n = 0 THEN Base ELSE power[n - 1] * Factor
    OBVIOUS
  <2>1. CASE n = 0
    BY <2>1, TimeParameters DEF PowersOfFactor
  <2>2. CASE n # 0
    <3>1. n - 1 \in Nat /\ (n - 1) + 1 = n
      BY <2>2
    <3>2. Factor ^ n = Factor ^ (n - 1) * Factor /\ Factor ^ (n - 1) \in Nat
      BY <3>1 DEF PowersOfFactor
    <3> QED
      BY <2>2, <3>1, <3>2, TimeParameters
  <2> QED
    BY <2>1, <2>2
<1>2. Loop(Backoff)
  <2>1. Backoff = CHOOSE f : Loop(f)
    BY DEF Backoff
  <2> HIDE DEF Loop, power
  <2> QED
    BY <1>1, <2>1
<1>3. Wrong = {}
  <2> SUFFICES ASSUME Wrong # {} PROVE FALSE
    OBVIOUS
  <2>1. PICK n \in Wrong : \A m \in Wrong : ~(m < n)
    BY LeastNumber
  <2>2. CASE n = 0
    BY <1>1, <1>2, <2>1, <2>2
  <2>3. CASE n # 0
    <3>1. n - 1 \in Nat /\ n - 1 < n
      BY <2>1, <2>3
    <3>2. Backoff[n - 1] = power[n - 1]
      BY <2>1, <3>1
    <3>3. Backoff[n] = Backoff[n - 1] * Factor /\ power[n] = power[n - 1] * Factor
      BY <1>1, <1>2, <2>1, <2>3
    <3> QED
      BY <2>1, <3>2, <3>3
  <2> QED
    BY <2>2, <2>3
<1> QED
  BY <1>3

\* The loop of RetryDelay and its cap compute what the comment of RetryDelay
\* promises, for every number of attempts, base, factor and cap.
THEOREM RetryDelayIsPromised ==
  ASSUME PowersOfFactor
  PROVE  \A n \in Nat : RetryDelay(n) = Promised(n)
BY BackoffIsPower DEF RetryDelay, Promised

\* A backoff is at least a second, and fits in a Duration.
LEMMA DelayOfRetry ==
  ASSUME PowersOfFactor, NEW n \in Nat
  PROVE  /\ RetryDelay(n) = Promised(n)
         /\ Promised(n) \in Nat /\ Promised(n) >= 1
         /\ Duration(RetryDelay(n)) = Promised(n) * Second
         /\ Promised(n) * Second \in Nat
<1>1. Factor ^ n \in Nat /\ Factor ^ n >= 1
  BY DEF PowersOfFactor
<1>2. Base * Factor ^ n \in Nat /\ Base * Factor ^ n >= 1
  <2>1. ASSUME NEW a \in Nat, NEW b \in Nat, a >= 1, b >= 1
        PROVE  a * b \in Nat /\ a * b >= 1
    BY <2>1
  <2> QED
    BY <1>1, <2>1, TimeParameters
<1>3. Promised(n) \in Nat /\ Promised(n) >= 1 /\ Promised(n) <= Cap
  BY <1>2, TimeParameters DEF Promised
<1>4. Promised(n) * Second <= Cap * Second /\ Promised(n) * Second \in Nat
  BY <1>3, TimeParameters, TimesIsMonotonic
<1> QED
  BY <1>3, <1>4, RetryDelayIsPromised, DurationIsTime, TimeParameters

-----------------------------------------------------------------------------
(* How early and how late a delayed job is queued.                         *)

\* The scheduler keeps up with its ticker for delayed jobs.
PromoteInTime ==
  /\ nextPromote - Second <= now
  /\ now <= nextPromote + Lag

\* A job that can still fail has an attempt left.
AttemptLeft(row) ==
  /\ row.status \in Places \ {"failing", "completed", "dead"}
       => row.attempts < MaxAttempts
  /\ row.status = "failing" => row.attempts + 1 < MaxAttempts

\* The clock that a delay is counted by: a retry's is the clock of its worker.
Skew(row) ==
  IF row.attempts = 0 /\ row.status # "failing" THEN 0 ELSE MaxSkew

\* The score of a job that is put off, or will be, is the moment it is put off
\* to, cut to seconds and up to the skew.
ScoreWell(row) ==
  (row.status \in {"accepted", "failing", "saved", "delayed"} /\ row.fits) =>
    /\ row.score >= 0
    /\ row.score * Second <= row.due + Skew(row)
    /\ row.due - Skew(row) < row.score * Second + Second

\* A delayed job is one that the last pass had to leave, or came after it.
LeftWell(row, tick) ==
  (row.status = "delayed" /\ row.fits) =>
    \/ tick - Second < row.due + Skew(row)
    \/ tick - Second <= row.since

RowInv(row, tick) ==
  row \in JobState /\ AttemptLeft(row) /\ ScoreWell(row) /\ LeftWell(row, tick)

TimingInv ==
  /\ now \in Nat /\ nextPromote \in Nat /\ nextScan \in Nat
  /\ job \in [Jobs -> JobState]
  /\ PromoteInTime
  /\ \A j \in Jobs : RowInv(job[j], nextPromote)

\* A step that gives job k another row and leaves the clocks alone.
LEMMA OneRow ==
  ASSUME TimingInv, NEW k \in Jobs, NEW row, job' = [job EXCEPT ![k] = row],
         UNCHANGED <<now, nextPromote, nextScan>>, RowInv(row, nextPromote)
  PROVE  TimingInv'
<1>1. /\ job' \in [Jobs -> JobState]
      /\ \A j \in Jobs : job'[j] = IF j = k THEN row ELSE job[j]
  BY DEF TimingInv, RowInv
<1>2. \A j \in Jobs : RowInv(job'[j], nextPromote)
  BY <1>1 DEF TimingInv
<1> QED
  BY <1>1, <1>2 DEF TimingInv, PromoteInTime

LEMMA UnbornTyped == Unborn \in JobState /\ Unborn.attempts = 0
BY TimeParameters DEF Unborn, JobState, Places

LEMMA TimingInit == Init => TimingInv
<1> SUFFICES ASSUME Init PROVE TimingInv
  OBVIOUS
<1>1. now \in Nat /\ nextPromote \in Nat /\ nextScan \in Nat /\ PromoteInTime
  BY TimeParameters, Parameters DEF Init, PromoteInTime
<1>2. RowInv(Unborn, nextPromote)
  BY UnbornTyped, TimeParameters DEF RowInv, AttemptLeft, ScoreWell, LeftWell, Unborn
<1>3. job \in [Jobs -> JobState] /\ \A j \in Jobs : job[j] = Unborn
  BY UnbornTyped DEF Init
<1> QED
  BY <1>1, <1>2, <1>3 DEF TimingInv

\* A row that will be put off until a time that is right up to its skew.
LEMMA UntilTyped ==
  ASSUME NEW row \in JobState, row.status \in {"accepted", "failing"}, AttemptLeft(row),
         NEW runAt \in Int, NEW due \in Nat, NEW fits \in BOOLEAN, NEW tick,
         fits => runAt >= 0 /\ runAt - due \in -Skew(row) .. Skew(row)
  PROVE  RowInv(Until(runAt, due, fits, row), tick)
<1> DEFINE new == Until(runAt, due, fits, row)
<1>1. /\ new.status = row.status /\ new.attempts = row.attempts
      /\ new.score = runAt \div Second /\ new.due = due /\ new.fits = fits
  BY DEF Until, JobState
<1>2. new \in JobState
  BY CutToSeconds DEF Until, JobState
<1>3. row.attempts \in Nat /\ Skew(row) \in Nat
  BY TimeParameters DEF JobState, Skew
<1>4. AttemptLeft(new) /\ Skew(new) = Skew(row)
  BY <1>1 DEF AttemptLeft, Skew
<1>5. ASSUME fits
      PROVE  /\ new.score >= 0
             /\ new.score * Second <= due + Skew(row)
             /\ due - Skew(row) < new.score * Second + Second
  <2> DEFINE start == (runAt \div Second) * Second
  <2>1. start \in Int /\ start <= runAt /\ runAt < start + Second
        /\ runAt \div Second >= 0
    BY <1>5, CutToSeconds, TimeParameters
  <2> HIDE DEF start
  <2>2. start <= due + Skew(row) /\ due - Skew(row) < start + Second
    BY <1>3, <1>5, <2>1, TimeParameters
  <2> QED
    BY <1>1, <1>5, <2>1, <2>2 DEF start
<1> HIDE DEF new
<1>6. ScoreWell(new) /\ LeftWell(new, tick)
  BY <1>1, <1>4, <1>5 DEF ScoreWell, LeftWell
<1> QED
  BY <1>2, <1>4, <1>6 DEF RowInv, new

\* What the invariant says of the row a step looks at.
LEMMA RowOf ==
  ASSUME TimingInv, NEW j \in Jobs
  PROVE  /\ job[j] \in JobState /\ RowInv(job[j], nextPromote)
         /\ job[j].attempts \in 0 .. MaxAttempts
         /\ AttemptLeft(job[j]) /\ ScoreWell(job[j]) /\ LeftWell(job[j], nextPromote)
         /\ now \in Nat /\ nextPromote \in Nat
<1>1. RowInv(job[j], nextPromote)
  BY DEF TimingInv
<1> QED
  BY <1>1 DEF TimingInv, RowInv, JobState

\* A row that is not put off owes nothing to the ticker.
LEMMA NotPutOff ==
  ASSUME NEW row \in JobState, AttemptLeft(row), NEW tick,
         row.status \notin {"accepted", "failing", "saved", "delayed"}
  PROVE  RowInv(row, tick)
BY DEF RowInv, ScoreWell, LeftWell

\* Enqueue: a delay that fits is added to the time of the server.
LEMMA SubmitInTime == ASSUME TimingInv, NEW j \in Jobs, Submit(j) PROVE TimingInv'
<1> DEFINE accepted == [Unborn EXCEPT !.status = "accepted"]
           queued == [Unborn EXCEPT !.status = "queued"]
           row(d) == IF d > 0 THEN Until(now + Duration(d), now + d * Second,
                                          d * Second < HalfRange, accepted)
                     ELSE queued
<1>1. PICK d \in Delays : job' = [job EXCEPT ![j] = row(d)]
  BY DEF Submit
<1>2. d \in Nat /\ d * Second \in Nat /\ now \in Nat
  BY TimeParameters DEF TimingInv
<1>3. /\ accepted \in JobState /\ accepted.status = "accepted" /\ accepted.attempts = 0
      /\ queued \in JobState /\ queued.status = "queued" /\ queued.attempts = 0
  BY UnbornTyped DEF Unborn, JobState, Places
<1> HIDE DEF accepted, queued
<1>4. AttemptLeft(accepted) /\ AttemptLeft(queued) /\ Skew(accepted) = 0
  BY <1>3, TimeParameters DEF AttemptLeft, Skew
<1>5. RowInv(Until(now + Duration(d), now + d * Second, d * Second < HalfRange,
                   accepted), nextPromote)
  <2> DEFINE span == d * Second
             fits == span < HalfRange
             runAt == now + Duration(d)
             due == now + span
  <2>1. Duration(d) \in Int /\ (fits => Duration(d) = span)
    BY <1>2, DurationIsTime
  <2>2. runAt \in Int /\ due \in Nat /\ fits \in BOOLEAN
    BY <1>2, <2>1
  <2>3. fits => runAt >= 0 /\ runAt - due \in -Skew(accepted) .. Skew(accepted)
    BY <1>2, <1>4, <2>1
  <2> HIDE DEF runAt, due, fits
  <2>4. RowInv(Until(runAt, due, fits, accepted), nextPromote)
    BY <1>3, <1>4, <2>2, <2>3, UntilTyped
  <2> QED
    BY <2>4 DEF runAt, due, fits
<1>6. RowInv(queued, nextPromote)
  BY <1>3, <1>4, NotPutOff
<1>7. RowInv(row(d), nextPromote)
  BY <1>5, <1>6
<1> HIDE DEF row
<1> QED
  BY <1>1, <1>7, OneRow DEF Submit, clocks

LEMMA SaveInTime == ASSUME TimingInv, NEW j \in Jobs, Save(j) PROVE TimingInv'
<1> DEFINE row == [job[j] EXCEPT !.status = "saved"]
<1>1. /\ job[j] \in JobState /\ job[j].status = "accepted"
      /\ AttemptLeft(job[j]) /\ ScoreWell(job[j])
  BY RowOf DEF Save
<1>2. /\ row \in JobState /\ row.status = "saved" /\ row.attempts = job[j].attempts
      /\ row.score = job[j].score /\ row.due = job[j].due /\ row.fits = job[j].fits
  BY <1>1 DEF JobState, Places
<1> HIDE DEF row
<1>3. RowInv(row, nextPromote)
  BY <1>1, <1>2 DEF RowInv, AttemptLeft, ScoreWell, LeftWell, Skew, Places
<1> QED
  BY <1>3, OneRow DEF Save, row, clocks

\* EnqueueDelayed: the id comes to the delayed set after the last tick.
LEMMA PutOffInTime == ASSUME TimingInv, NEW j \in Jobs, PutOff(j) PROVE TimingInv'
<1> DEFINE row == [job[j] EXCEPT !.status = "delayed", !.since = now]
<1>1. /\ job[j] \in JobState /\ job[j].status = "saved" /\ now \in Nat
      /\ AttemptLeft(job[j]) /\ ScoreWell(job[j]) /\ nextPromote - Second <= now
  BY RowOf DEF PutOff, Arrives, TimingInv, PromoteInTime
<1>2. /\ row \in JobState /\ row.status = "delayed" /\ row.attempts = job[j].attempts
      /\ row.score = job[j].score /\ row.due = job[j].due /\ row.fits = job[j].fits
      /\ row.since = now
  BY <1>1 DEF JobState, Places
<1> HIDE DEF row
<1>3. RowInv(row, nextPromote)
  BY <1>1, <1>2 DEF RowInv, AttemptLeft, ScoreWell, LeftWell, Skew, Places
<1> QED
  BY <1>3, OneRow DEF PutOff, Arrives, row, clocks

\* Steps of a worker that put no job off.
LEMMA BeginInTime == ASSUME TimingInv, NEW j \in Jobs, Begin(j) PROVE TimingInv'
<1>1. PICK t \in WorkerTimes :
        job' = [job EXCEPT ![j] =
          [job[j] EXCEPT !.status = "marking", !.begun = now, !.started = t]]
  BY DEF Begin
<1> DEFINE row == [job[j] EXCEPT !.status = "marking", !.begun = now, !.started = t]
<1>2. t \in Int /\ now \in Nat
  BY TimeParameters DEF WorkerTimes, TimingInv
<1>3. job[j] \in JobState /\ AttemptLeft(job[j]) /\ job[j].status = "queued"
  BY RowOf DEF Begin
<1>4. row \in JobState /\ row.status = "marking" /\ row.attempts = job[j].attempts
  BY <1>2, <1>3 DEF JobState, Places
<1> HIDE DEF row
<1>5. RowInv(row, nextPromote)
  BY <1>3, <1>4, NotPutOff DEF AttemptLeft, Places
<1> QED
  BY <1>1, <1>5, OneRow DEF Begin, row, clocks

LEMMA MarkInTime == ASSUME TimingInv, NEW j \in Jobs, Mark(j) PROVE TimingInv'
<1> DEFINE row == [job[j] EXCEPT !.status = "running", !.since = now]
<1>1. /\ job[j] \in JobState /\ AttemptLeft(job[j]) /\ job[j].status = "marking"
      /\ now \in Nat
  BY RowOf DEF Mark, Arrives
<1>2. row \in JobState /\ row.status = "running" /\ row.attempts = job[j].attempts
  BY <1>1 DEF JobState, Places
<1> HIDE DEF row
<1>3. RowInv(row, nextPromote)
  BY <1>1, <1>2, NotPutOff DEF AttemptLeft, Places
<1> QED
  BY <1>3, OneRow DEF Mark, Arrives, row, clocks

\* What is left of a row whose execution is over.
LEMMA ForgetTyped ==
  ASSUME NEW row \in JobState
  PROVE  LET run == ForgetRun(row)  all == Forget(row) IN
         /\ run \in JobState /\ all \in JobState /\ all.attempts = row.attempts
         /\ run.score = row.score /\ run.due = row.due /\ run.fits = row.fits
<1> DEFINE run == ForgetRun(row)
           all(score, due, fits) ==
             [run EXCEPT !.score = score, !.due = due, !.fits = fits]
<1>1. /\ run \in JobState /\ run.attempts = row.attempts
      /\ run.score = row.score /\ run.due = row.due /\ run.fits = row.fits
  BY DEF ForgetRun, JobState
<1>2. Forget(row) = all(0, 0, TRUE)
  BY DEF Forget
<1> HIDE DEF run
<1>3. ASSUME NEW score \in Int, NEW due \in Nat, NEW fits \in BOOLEAN
      PROVE  /\ all(score, due, fits) \in JobState
             /\ all(score, due, fits).attempts = run.attempts
  BY <1>1 DEF JobState
<1>4. run = ForgetRun(row)
  BY DEF run
<1> HIDE DEF all
<1>5. 0 \in Int /\ 0 \in Nat /\ TRUE \in BOOLEAN
  OBVIOUS
<1>6. all(0, 0, TRUE) \in JobState /\ all(0, 0, TRUE).attempts = run.attempts
  BY <1>3, <1>5, Zenon
<1> QED
  BY <1>1, <1>2, <1>4, <1>6

LEMMA CompleteInTime == ASSUME TimingInv, NEW j \in Jobs, Complete(j) PROVE TimingInv'
<1> DEFINE old == Forget(job[j])
           row == [old EXCEPT !.status = "completed"]
<1>1. old \in JobState
  BY RowOf, ForgetTyped
<1>2. job' = [job EXCEPT ![j] = row]
  BY DEF Complete
<1> HIDE DEF old
<1>3. row \in JobState /\ row.status = "completed"
  BY <1>1 DEF JobState, Places
<1> HIDE DEF row
<1>4. RowInv(row, nextPromote)
  BY <1>3, NotPutOff DEF AttemptLeft
<1> QED
  BY <1>2, <1>4, OneRow DEF Complete, clocks

LEMMA BuryInTime == ASSUME TimingInv, NEW j \in Jobs, Bury(j) PROVE TimingInv'
<1> DEFINE n == job[j].attempts + 1
           old == Forget(job[j])
           row == [old EXCEPT !.status = "dead", !.attempts = n]
<1>1. job[j] \in JobState /\ old \in JobState /\ n \in 0 .. MaxAttempts
  <2>1. job[j].attempts < MaxAttempts
    BY RowOf DEF Bury, AttemptLeft, Places
  <2> QED
    BY <2>1, RowOf, ForgetTyped, TimeParameters
<1>2. job' = [job EXCEPT ![j] = row]
  BY DEF Bury
<1> HIDE DEF n, old
<1>3. row \in JobState /\ row.status = "dead"
  BY <1>1 DEF JobState, Places
<1> HIDE DEF row
<1>4. RowInv(row, nextPromote)
  BY <1>3, NotPutOff DEF AttemptLeft
<1> QED
  BY <1>2, <1>4, OneRow DEF Bury, clocks

\* ScheduleRetry: the backoff counts from the time the worker reads.
LEMMA FailInTime ==
  ASSUME PowersOfFactor, TimingInv, NEW j \in Jobs, Fail(j) PROVE TimingInv'
<1> DEFINE n == job[j].attempts
           failing == [job[j] EXCEPT !.status = "failing"]
<1>1. PICK t \in WorkerTimes :
        job' = [job EXCEPT ![j] =
          Until(t + Duration(RetryDelay(n)), now + Promised(n) * Second, TRUE, failing)]
  BY DEF Fail
<1>2. job[j] \in JobState /\ n \in Nat /\ n + 1 < MaxAttempts
  BY RowOf, TimeParameters DEF Fail, Exhausted
<1>3. failing \in JobState /\ failing.status = "failing" /\ failing.attempts = n
  <2> HIDE DEF n
  <2> QED
    BY <1>2 DEF JobState, Places, n
<1>4. t \in Nat /\ t - now \in -MaxSkew .. MaxSkew /\ now \in Nat
  BY TimeParameters DEF WorkerTimes, TimingInv
<1> DEFINE span == Promised(n) * Second
           runAt == t + Duration(RetryDelay(n))
           due == now + span
<1>5. span \in Nat /\ runAt = t + span
  BY <1>2, DelayOfRetry
<1> HIDE DEF n, failing, span, runAt
<1>6. AttemptLeft(failing) /\ Skew(failing) = MaxSkew
  BY <1>2, <1>3 DEF AttemptLeft, Skew
<1>7. /\ runAt \in Int /\ due \in Nat
      /\ runAt >= 0 /\ runAt - due \in -Skew(failing) .. Skew(failing)
  BY <1>4, <1>5, <1>6, TimeParameters
<1> HIDE DEF due
<1>8. RowInv(Until(runAt, due, TRUE, failing), nextPromote)
  BY <1>3, <1>6, <1>7, UntilTyped
<1> QED
  BY <1>1, <1>8, OneRow DEF Fail, runAt, due, span, n, failing, clocks

LEMMA RetryInTime == ASSUME TimingInv, NEW j \in Jobs, Retry(j) PROVE TimingInv'
<1> DEFINE n == job[j].attempts + 1
           old == ForgetRun(job[j])
           row == [old EXCEPT !.status = "saved", !.attempts = n]
<1>1. /\ job[j] \in JobState /\ job[j].status = "failing" /\ job[j].attempts \in Nat
      /\ AttemptLeft(job[j]) /\ ScoreWell(job[j])
  BY RowOf DEF Retry
<1>2. n \in Nat /\ n > 0 /\ n < MaxAttempts /\ n \in 0 .. MaxAttempts
  BY <1>1, TimeParameters DEF AttemptLeft
<1>3. /\ old \in JobState /\ old.score = job[j].score /\ old.due = job[j].due
      /\ old.fits = job[j].fits
  BY <1>1, ForgetTyped
<1>4. job' = [job EXCEPT ![j] = row]
  BY DEF Retry
<1> HIDE DEF n, old
<1>5. /\ row \in JobState /\ row.status = "saved" /\ row.attempts = n
      /\ row.score = old.score /\ row.due = old.due /\ row.fits = old.fits
  BY <1>2, <1>3 DEF JobState, Places
<1> HIDE DEF row
<1>6. Skew(row) = Skew(job[j])
  BY <1>1, <1>2, <1>5 DEF Skew
<1>7. RowInv(row, nextPromote)
  BY <1>1, <1>2, <1>3, <1>5, <1>6 DEF RowInv, AttemptLeft, ScoreWell, LeftWell
<1> QED
  BY <1>4, <1>7, OneRow DEF Retry, clocks

\* A row that is queued again, or left as it is.
LEMMA QueuedAgain ==
  ASSUME TimingInv, NEW js, Requeue(js), NEW j \in Jobs,
         j \in js => job[j].status \in {"delayed", "running", "failing"}
  PROVE  /\ job'[j] \in JobState /\ AttemptLeft(job'[j])
         /\ (job'[j] = job[j] /\ j \notin js) \/ job'[j].status = "queued"
<1>1. job[j] \in JobState /\ AttemptLeft(job[j]) /\ job[j].attempts \in Nat
  BY RowOf
<1>2. job'[j] = IF j \in js THEN [Forget(job[j]) EXCEPT !.status = "queued"] ELSE job[j]
  BY DEF Requeue
<1>3. CASE j \in js
  <2> DEFINE old == Forget(job[j])
             new == [old EXCEPT !.status = "queued"]
  <2>1. old \in JobState /\ old.attempts = job[j].attempts
    BY <1>1, ForgetTyped
  <2>2. job'[j] = new
    BY <1>2, <1>3
  <2> HIDE DEF old
  <2>3. new \in JobState /\ new.status = "queued" /\ new.attempts = job[j].attempts
    BY <2>1 DEF JobState, Places
  <2> HIDE DEF new
  <2>4. AttemptLeft(new)
    BY <1>1, <1>3, <2>3, TimeParameters DEF AttemptLeft, Places
  <2> QED
    BY <2>2, <2>3, <2>4
<1>4. CASE j \notin js
  BY <1>1, <1>2, <1>4
<1> QED
  BY <1>3, <1>4

\* A pass for delayed jobs leaves only those that are put off to after it.
LEMMA PromoteInTimeKept == ASSUME TimingInv, Promote PROVE TimingInv'
<1>1. /\ now \in Nat /\ nextPromote \in Nat /\ nextPromote <= now
      /\ now <= nextPromote + Lag /\ nextPromote' = nextPromote + Second
      /\ Requeue(DueJobs) /\ UNCHANGED <<now, nextScan>>
  BY DEF Promote, TimingInv, PromoteInTime
<1>2. ASSUME NEW j \in Jobs PROVE RowInv(job'[j], nextPromote + Second)
  <2>1. /\ job'[j] \in JobState /\ AttemptLeft(job'[j])
        /\ (job'[j] = job[j] /\ j \notin DueJobs) \/ job'[j].status = "queued"
    BY <1>1, QueuedAgain DEF DueJobs
  <2>2. CASE job'[j].status = "queued"
    BY <2>1, <2>2, NotPutOff
  <2>3. CASE job'[j] = job[j] /\ j \notin DueJobs
    <3>1. ScoreWell(job[j]) /\ job[j] \in JobState
      BY RowOf
    <3>2. ASSUME job[j].status = "delayed", job[j].fits
          PROVE  nextPromote < job[j].due + Skew(job[j])
      <4>1. /\ job[j].score \in Int /\ job[j].score >= 0
            /\ job[j].score * Second <= job[j].due + Skew(job[j])
            /\ job[j].due + Skew(job[j]) \in Int
        BY <3>1, <3>2, TimeParameters DEF ScoreWell, JobState, Skew
      <4>2. now \div Second < job[j].score
        BY <1>1, <2>3, <3>2, <4>1, CutToSeconds DEF DueJobs
      <4>3. now < job[j].score * Second
        BY <1>1, <4>1, <4>2, LaterSecond
      <4> DEFINE start == job[j].score * Second
                 end == job[j].due + Skew(job[j])
      <4>4. start \in Int
        BY <4>1, TimeParameters
      <4> HIDE DEF start, end
      <4>5. nextPromote < end
        BY <1>1, <4>1, <4>3, <4>4 DEF start, end
      <4> QED
        BY <4>5 DEF end
    <3>3. (nextPromote + Second) - Second = nextPromote
      BY <1>1, TimeParameters
    <3>4. LeftWell(job[j], nextPromote + Second)
      BY <3>2, <3>3 DEF LeftWell
    <3> QED
      BY <2>1, <2>3, <3>1, <3>4 DEF RowInv
  <2> QED
    BY <2>1, <2>2, <2>3
<1>3. PromoteInTime' /\ nextPromote' \in Nat
  BY <1>1, TimeParameters DEF PromoteInTime
<1>4. \A j \in Jobs : RowInv(job'[j], nextPromote')
  BY <1>1, <1>2
<1>5. job' \in [Jobs -> JobState]
  BY <1>1, <1>2 DEF Requeue, RowInv
<1> QED
  BY <1>1, <1>3, <1>4, <1>5 DEF TimingInv

LEMMA RecoverInTimeKept == ASSUME TimingInv, Recover PROVE TimingInv'
<1>1. /\ UNCHANGED <<now, nextPromote>> /\ nextScan' = nextScan + StuckPeriod
      /\ Requeue(StuckJobs)
  BY DEF Recover
<1>2. ASSUME NEW j \in Jobs PROVE RowInv(job'[j], nextPromote)
  <2>1. j \in StuckJobs => job[j].status \in {"running", "failing"}
    BY DEF StuckJobs, RowStatus
  <2>2. /\ job'[j] \in JobState /\ AttemptLeft(job'[j])
        /\ job'[j] = job[j] \/ job'[j].status = "queued"
    BY <1>1, <2>1, QueuedAgain
  <2>3. CASE job'[j].status = "queued"
    BY <2>2, <2>3, NotPutOff
  <2>4. CASE job'[j] = job[j]
    BY <2>4, RowOf
  <2> QED
    BY <2>2, <2>3, <2>4
<1>3. job' \in [Jobs -> JobState]
  BY <1>1, <1>2 DEF Requeue, RowInv
<1> QED
  BY <1>1, <1>2, <1>3, Parameters DEF TimingInv, PromoteInTime

LEMMA TickInTime == ASSUME TimingInv, Tick PROVE TimingInv'
BY Parameters, TimeParameters DEF Tick, TimingInv, PromoteInTime

LEMMA TimingNext ==
  ASSUME PowersOfFactor PROVE TimingInv /\ [Next]_vars => TimingInv'
<1> SUFFICES ASSUME TimingInv, [Next]_vars PROVE TimingInv'
  OBVIOUS
<1>1. ASSUME NEW j \in Jobs, JobStep(j) PROVE TimingInv'
  BY <1>1, SubmitInTime, SaveInTime, PutOffInTime, BeginInTime, MarkInTime,
     CompleteInTime, FailInTime, RetryInTime, BuryInTime DEF JobStep
<1>2. CASE End \/ UNCHANGED vars
  BY <1>2 DEF End, vars, TimingInv, PromoteInTime
<1> QED
  BY <1>1, <1>2, PromoteInTimeKept, RecoverInTimeKept, TickInTime DEF Next

LEMMA TimingInvariant == ASSUME PowersOfFactor PROVE Spec => []TimingInv
BY TimingInit, TimingNext, PTL DEF Spec

\* Attempts stay in their range and every time is one: a score that has wrapped
\* around is a number all the same, and the backoff never does.
THEOREM TimingTypeCorrectness ==
  ASSUME PowersOfFactor PROVE Spec => []TimingTypeOK
<1>1. TimingInv => TimingTypeOK
  BY DEF TimingInv, TimingTypeOK
<1> QED
  BY <1>1, TimingInvariant, PTL

\* No delayed job waits for longer than a period of delayedTicker and the lag
\* of the scheduler after the moment it was put off to (up to the skew) or after
\* it came to the delayed set, for all delays that fit, all backoffs, all clocks
\* and however long the calls of Enqueue and ScheduleRetry take.
THEOREM DelayedJobsAreNotLate ==
  ASSUME PowersOfFactor PROVE Spec => []NeverLate
<1>1. TimingInv => NeverLate
  <2> SUFFICES ASSUME TimingInv, NEW j \in Jobs, job[j].status = "delayed", job[j].fits
               PROVE  \/ now < job[j].due + Second + Lag + SkewOf(j)
                      \/ now <= job[j].since + Second + Lag
    BY DEF NeverLate
  <2>1. /\ \/ nextPromote - Second < job[j].due + SkewOf(j)
           \/ nextPromote - Second <= job[j].since
        /\ job[j].due \in Nat /\ job[j].since \in Nat /\ SkewOf(j) \in Nat
    BY RowOf, TimeParameters DEF LeftWell, Skew, SkewOf, JobState
  <2>2. /\ now \in Nat /\ nextPromote \in Nat /\ now <= nextPromote + Lag
    BY DEF TimingInv, PromoteInTime
  <2> QED
    BY <2>1, <2>2, TimeParameters
<1> QED
  BY <1>1, TimingInvariant, PTL

\* No delayed job is queued more than a second, and the skew, before the moment
\* it was put off to: only GetDueDelayed takes jobs from the delayed set, and
\* what it takes has a score up to the second it runs in.
THEOREM DelayedJobsAreNotEarly ==
  ASSUME PowersOfFactor PROVE Spec => NeverEarly
<1> DEFINE Early(j) == job[j].status = "delayed" /\ job[j].fits /\ job'[j].status = "queued"
           InTime == \A j \in Jobs :
             (job[j].status = "delayed" /\ job[j].fits /\ job'[j].status = "queued")
               => job[j].due < now + Second + SkewOf(j)
<1>1. Rows /\ TimingInv /\ [Next]_vars => [InTime]_vars
  <2> SUFFICES ASSUME Rows, TimingInv, [Next]_vars, NEW j \in Jobs, Early(j)
               PROVE  job[j].due < now + Second + SkewOf(j)
    OBVIOUS
  <2>1. job[j] \in JobState /\ ScoreWell(job[j])
    BY RowOf
  <2>2. CASE Promote
    <3>1. job[j].score \in 0 .. now \div Second /\ now \in Nat
      BY <2>2 DEF Promote, Requeue, DueJobs, TimingInv
    <3>2. /\ job[j].score \in Int /\ job[j].due \in Nat /\ SkewOf(j) \in Nat
          /\ job[j].due - SkewOf(j) < job[j].score * Second + Second
      BY <2>1, TimeParameters DEF ScoreWell, Skew, SkewOf, JobState
    <3>3. job[j].score * Second <= now
      BY <3>1, <3>2, CutToSeconds, EarlierSecond
    <3> DEFINE start == job[j].score * Second
    <3>4. start \in Int
      BY <3>2, TimeParameters
    <3> HIDE DEF start
    <3> QED
      BY <3>1, <3>2, <3>3, <3>4, TimeParameters DEF start
  <2>3. CASE Recover
    BY <2>3 DEF Recover, Requeue, StuckJobs, RowStatus
  <2>4. ASSUME NEW k \in Jobs, JobStep(k) PROVE FALSE
    <3>1. /\ \A i \in Jobs \ {k} : job'[i] = job[i]
          /\ Steps(job[k], job'[k])
      BY <2>4, JobStepRow
    <3>2. k = j
      BY <3>1
    <3> QED
      BY <3>1, <3>2
         DEF Steps, From, Submits, Saves, PutsOff, Begins, Marks, Completes, Fails,
             Retries, Buries
  <2>5. CASE Tick \/ End \/ UNCHANGED vars
    BY <2>5 DEF Tick, End, vars
  <2> QED
    BY <2>2, <2>3, <2>4, <2>5 DEF Next
<1> QED
  BY <1>1, RowsInit, RowsNext, TimingInvariant, PTL DEF Spec, NeverEarly
=============================================================================
