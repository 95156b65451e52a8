------------------------------ MODULE JobTiming ------------------------------
(***************************************************************************)
(* When things happen: the delays of requests, the backoff of retries and  *)
(* the stuck timeout, with the clocks that measure them.  TaskQueue only   *)
(* knows that a job is due or stuck; here a job has timestamps.            *)
(*                                                                         *)
(* The server and the workers run on different machines: a worker reads a  *)
(* time that is up to MaxSkew away from that of the server, which is the   *)
(* time now of the model.  Time is counted in ticks, Second of them to a   *)
(* second, since 1970.  A pass of the scheduler is one step and comes up   *)
(* to Lag ticks after its ticker fired (Scheduler has its single calls).   *)
(* Between the moment a request or a worker reads the clock and the write  *)
(* it reads it for, any time may pass.  Of a job whose row the scheduler   *)
(* has taken from running, the old execution is not followed.              *)
(***************************************************************************)
EXTENDS Integers

CONSTANTS
  Jobs,
  Second,        \* the ticks in a second
  Starts,        \* when the scheduler may have been started
  Horizon,       \* bound: the last moment of a behaviour
  Delays,        \* the delay_seconds of requests
  HalfRange,     \* a time.Duration is less than this, in ticks (int64 of ns)
  Base, Factor, Cap,   \* the backoff of RetryDelay, in seconds
  MaxAttempts,   \* max_attempts of every job
  StuckTimeout,  \* STUCK_JOB_TIMEOUT_MINUTES, in ticks
  StuckPeriod,   \* the period of the ticker for stuck jobs, in ticks
  MaxSkew,       \* how far the clock of a worker may be from the server's
  Lag            \* how late a pass of the scheduler may be

ASSUME TimingAssumption ==
  /\ \A n \in {Second, Base, Factor, Cap, MaxAttempts, StuckTimeout,
               StuckPeriod} : n \in Nat \ {0}
  /\ \A n \in {HalfRange, MaxSkew, Lag, Horizon} : n \in Nat
  /\ \A n \in Starts \cup Delays : n \in Nat
  /\ Lag < Second
  /\ Cap * Second < HalfRange

VARIABLES
  now,          \* the time of the server
  nextPromote,  \* when delayedTicker fires next
  nextScan,     \* when stuckTicker fires next
  job           \* the row of each job, its score, and the true times

clocks == <<now, nextPromote, nextScan>>

vars == <<now, nextPromote, nextScan, job>>

\* Where a job is, by the calls that have been made for it: accepted, Enqueue
\* has read the clock and saves the row; saved, the row is pending and its id
\* on its way to the delayed set; marking, a worker has popped the id and read
\* the clock, and marks the row; failing, ScheduleRetry has read the clock, and
\* the row is running still.
Places == {"absent", "accepted", "saved", "delayed", "queued", "marking",
           "running", "failing", "completed", "dead"}

\* score, started: what the code has computed for the delayed set and for the
\* started_at of the row.  The true times, which no code knows: due, the moment
\* a delayed job was put off to; begun, the moment its last worker read the
\* clock; since, the moment its id came to the delayed set or its row became
\* running, whichever was last.  fits: its delay is in the range of
\* time.Duration.
JobState ==
  [status   : Places,
   attempts : 0 .. MaxAttempts,
   score    : Int,
   started  : Int,
   due      : Nat,
   begun    : Nat,
   since    : Nat,
   fits     : BOOLEAN]

TimingTypeOK ==
  /\ now \in Nat /\ nextPromote \in Nat /\ nextScan \in Nat
  /\ job \in [Jobs -> JobState]

Unborn == [status |-> "absent", attempts |-> 0, score |-> 0, started |-> 0,
           due |-> 0, begun |-> 0, since |-> 0, fits |-> TRUE]

Init ==
  /\ now \in Starts
  /\ nextPromote = now + Second
  /\ nextScan = now + StuckPeriod
  /\ job = [j \in Jobs |-> Unborn]

-----------------------------------------------------------------------------
(* Durations and clocks.                                                   *)

\* The loop of RetryDelay, and its cap.
Backoff[n \in Nat] == IF n = 0 THEN Base ELSE Backoff[n - 1] * Factor

\* Mutant: the loop runs once too often.
RetryDelayLonger(n) == IF Backoff[n + 1] > Cap THEN Cap ELSE Backoff[n + 1]

RetryDelay(n) == IF Backoff[n] > Cap THEN Cap ELSE Backoff[n]

\* Mutant: the seconds are taken for a Duration.
DurationUnscaled(seconds) == seconds

\* time.Duration(seconds) * time.Second, which wraps around.
Duration(seconds) ==
  ((seconds * Second + HalfRange) % (2 * HalfRange)) - HalfRange

\* What a worker reads when it asks for the time.
WorkerTimes == {t \in now - MaxSkew .. now + MaxSkew : t >= 0}

\* Job j arrives at a place where its time counts.
Arrives(j, from, to) ==
  /\ job[j].status = from
  /\ job' = [job EXCEPT ![j] = [job[j] EXCEPT !.status = to, !.since = now]]
  /\ UNCHANGED clocks

\* Bound: the times that say nothing any more once an execution is over, or a
\* job waits for a worker or is done, are 0.
ForgetRun(row) == [row EXCEPT !.begun = 0, !.since = 0]
Forget(row) == [ForgetRun(row) EXCEPT !.score = 0, !.due = 0, !.fits = TRUE]

\* The row of a job that will be put off: EnqueueDelayed takes the time in
\* whole seconds.
Until(runAt, due, fits, row) ==
  [row EXCEPT !.score = runAt \div Second, !.due = due, !.fits = fits]

-----------------------------------------------------------------------------
(* Requests and workers.                                                   *)

\* Enqueue: a request with a delay reads the clock.
Submit(j) ==
  /\ job[j].status = "absent"
  /\ \E d \in Delays :
       job' = [job EXCEPT ![j] =
         IF d > 0 THEN Until(now + Duration(d), now + d * Second,
                             d * Second < HalfRange,
                             [Unborn EXCEPT !.status = "accepted"])
         ELSE [Unborn EXCEPT !.status = "queued"]]
  /\ UNCHANGED clocks

\* CreateJob of a request with a delay.
Save(j) ==
  /\ job[j].status = "accepted"
  /\ job' = [job EXCEPT ![j] = [job[j] EXCEPT !.status = "saved"]]
  /\ UNCHANGED clocks

\* EnqueueDelayed, of a request or of a retry.
PutOff(j) == Arrives(j, "saved", "delayed")

\* Mutant: started_at is set by the first execution only.
BeginKeepsStarted(j) ==
  /\ job[j].status = "queued"
  /\ \E t \in WorkerTimes :
       job' = [job EXCEPT ![j] =
         [job[j] EXCEPT !.status = "marking", !.begun = now,
                        !.started = IF job[j].started = 0 THEN t ELSE job[j].started]]
  /\ UNCHANGED clocks

\* A worker has popped and loaded the job, and reads the clock.
Begin(j) ==
  /\ job[j].status = "queued"
  /\ \E t \in WorkerTimes :
       job' = [job EXCEPT ![j] =
         [job[j] EXCEPT !.status = "marking", !.begun = now, !.started = t]]
  /\ UNCHANGED clocks

\* It writes running and that time to the row.
Mark(j) == Arrives(j, "marking", "running")

Complete(j) ==
  /\ job[j].status = "running"
  /\ job' = [job EXCEPT ![j] = [Forget(job[j]) EXCEPT !.status = "completed"]]
  /\ UNCHANGED clocks

\* What the comment of RetryDelay promises: 10s * 10^attempt, capped.
Promised(n) == IF Base * Factor ^ n > Cap THEN Cap ELSE Base * Factor ^ n

\* Mutant: the failure that has just happened is not counted.
ExhaustedBefore(j) == job[j].attempts >= MaxAttempts

Exhausted(j) == job[j].attempts + 1 >= MaxAttempts

\* ScheduleRetry: the delay is added to the time the worker reads.
Fail(j) ==
  /\ job[j].status = "running"
  /\ ~Exhausted(j)
  /\ \E t \in WorkerTimes :
       LET n == job[j].attempts IN
       job' = [job EXCEPT ![j] =
         Until(t + Duration(RetryDelay(n)), now + Promised(n) * Second, TRUE,
               [job[j] EXCEPT !.status = "failing"])]
  /\ UNCHANGED clocks

\* Its row goes back to pending, one attempt further.
Retry(j) ==
  /\ job[j].status = "failing"
  /\ job' = [job EXCEPT ![j] =
       [ForgetRun(job[j]) EXCEPT !.status = "saved", !.attempts = job[j].attempts + 1]]
  /\ UNCHANGED clocks

Bury(j) ==
  /\ job[j].status = "running"
  /\ Exhausted(j)
  /\ job' = [job EXCEPT ![j] =
       [Forget(job[j]) EXCEPT !.status = "dead", !.attempts = job[j].attempts + 1]]
  /\ UNCHANGED clocks

-----------------------------------------------------------------------------
(* The scheduler: the two tickers of Start.                                *)

Requeue(js) ==
  job' = [j \in Jobs |->
            IF j \in js THEN [Forget(job[j]) EXCEPT !.status = "queued"] ELSE job[j]]

\* GetDueDelayed: ZRANGEBYSCORE from 0 to the time in whole seconds.
DueJobs ==
  {j \in Jobs : job[j].status = "delayed" /\ job[j].score \in 0 .. now \div Second}

\* Mutant: the select waits with time.After instead of a ticker, so a pass
\* for the delayed jobs starts the wait for the stuck ones anew.
PromoteStartsAnew ==
  /\ now >= nextPromote
  /\ Requeue(DueJobs)
  /\ nextPromote' = nextPromote + Second
  /\ nextScan' = now + StuckPeriod
  /\ UNCHANGED now

Promote ==
  /\ now >= nextPromote
  /\ Requeue(DueJobs)
  /\ nextPromote' = nextPromote + Second
  /\ UNCHANGED <<now, nextScan>>

\* What the row of a job says.
RowStatus(j) ==
  CASE job[j].status \in {"absent", "accepted"} -> "absent"
    [] job[j].status \in {"saved", "delayed", "queued", "marking"} -> "pending"
    [] job[j].status \in {"running", "failing"} -> "running"
    [] OTHER -> job[j].status

\* Mutant: the query leaves out the status.
StuckJobsOfAnyStatus ==
  {j \in Jobs : RowStatus(j) # "absent" /\ job[j].started < now - StuckTimeout}

\* GetStuckJobs compares with the clock of the server.
StuckJobs ==
  {j \in Jobs : RowStatus(j) = "running" /\ job[j].started < now - StuckTimeout}

Recover ==
  /\ now >= nextScan
  /\ Requeue(StuckJobs)
  /\ nextScan' = nextScan + StuckPeriod
  /\ UNCHANGED <<now, nextPromote>>

\* Time passes, up to the moment by which a pass that is due has been made.
Tick ==
  /\ now < Horizon
  /\ now < nextPromote + Lag
  /\ now < nextScan + Lag
  /\ now' = now + 1
  /\ UNCHANGED <<nextPromote, nextScan, job>>

\* The end of the bounded history.
End == now = Horizon /\ UNCHANGED vars

-----------------------------------------------------------------------------
JobStep(j) ==
  \/ Submit(j) \/ Save(j) \/ PutOff(j)
  \/ Begin(j) \/ Mark(j) \/ Complete(j)
  \/ Fail(j) \/ Retry(j) \/ Bury(j)

Next ==
  \/ \E j \in Jobs : JobStep(j)
  \/ Promote \/ Recover \/ Tick \/ End

Spec == Init /\ [][Next]_vars

-----------------------------------------------------------------------------
(* What the other modules say of the same jobs.                            *)

LifeOf(j) ==
  [k \in {j} |-> [status   |-> RowStatus(k),
                 attempts |-> job[k].attempts,
                 limit    |-> IF RowStatus(k) = "absent" THEN 0 ELSE MaxAttempts]]

Lifecycle(j) == INSTANCE JobLifecycle WITH
  Jobs <- {j}, Limits <- {MaxAttempts}, state <- LifeOf(j)

\* Each job, with its delays and timeouts, lives the life of JobLifecycle, as
\* it does in TaskQueue: the two views of the system fit together.  This is
\* Lifecycle(j)!LifecycleSpec for every job j, written for TLC.
EachLivesItsLife ==
  /\ \A j \in Jobs : Lifecycle(j)!LifecycleInit
  /\ [][\A j \in Jobs : [Lifecycle(j)!LifecycleNext]_(LifeOf(j))]_vars

-----------------------------------------------------------------------------
\* Only retries are put off by the clock of a worker.
SkewOf(j) == IF job[j].attempts = 0 THEN 0 ELSE MaxSkew

\* A delayed job is queued at most a second (its score is cut to seconds) and
\* the skew of the clocks before the moment it was put off to, by a request
\* or by the backoff that RetryDelay documents.
NeverEarly ==
  [][\A j \in Jobs :
       (job[j].status = "delayed" /\ job[j].fits /\ job'[j].status = "queued")
         => job[j].due < now + Second + SkewOf(j)]_vars

\* No job is in the delayed set for longer than a period of the ticker and the
\* lag of the scheduler, after that moment (and the skew) or, when its id came
\* there later than that, after it came.
NeverLate ==
  \A j \in Jobs :
    (job[j].status = "delayed" /\ job[j].fits)
      => \/ now < job[j].due + Second + Lag + SkewOf(j)
         \/ now <= job[j].since + Second + Lag

\* A job is taken for stuck only if its worker read the clock a stuck timeout
\* ago, less the skew: the scheduler compares that time with its own.
NeverRecoveredEarly ==
  [][\A j \in Jobs :
       (RowStatus(j) = "running" /\ job'[j].status = "queued")
         => now - job[j].begun > StuckTimeout - MaxSkew]_vars

\* A row is running no longer than the stuck timeout, a period of the ticker,
\* the lag and the skew, whatever has become of its worker.
RecoveredInTime ==
  \A j \in Jobs :
    RowStatus(j) = "running"
      => now - job[j].since <= StuckTimeout + StuckPeriod + Lag + MaxSkew

=============================================================================
