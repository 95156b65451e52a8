# Specification of the distributed task queue

TLA+ modules for the task queue in this repository (`src/`): the server, the
workers, postgres and redis between them, and the live dashboard. TLC checks the
modules on small instances, TLAPS proves the safety properties for every
instance.

```
tlc -config SingleDelivery.cfg MCDelivery      # one run; see "Runs"
tlapm TaskQueueProofs.tla                      # one proof module; see "Proofs"
```

## 1. The system

| Component | Code | State it keeps | Operations |
|---|---|---|---|
| Stores | `internal/store/postgres.go`, `redis.go` | the tables `jobs` and `workers`; the lists `queue:<name>`, the sorted sets `queue:priority:<name>` and `queue:delayed`, the list `queue:dead` | one statement or command per call |
| Queue | `internal/queue/queue.go` | none of its own | `Enqueue`, `ScheduleRetry`, `MoveToDeadLetter`, `ReplayDeadJob` |
| Worker | `internal/worker/worker.go`, `cmd/worker` | one goroutine per unit of concurrency, each with a copy of its job; one heartbeat goroutine | `loop`, `Dequeue`, `processJob`, `heartbeat`, shutdown |
| Scheduler | `internal/scheduler/scheduler.go` | a loop and a startup goroutine, each with a batch | `promoteDelayedJobs`, `recoverStuckJobs` |
| HTTP API | `internal/api/handlers.go` | one goroutine per request | `CreateJob`, `PlaceOrder` and `FloodOrders`, `RetryJob`, `CancelJob`, `StreamEvents`, reads |
| SSE broadcaster | `internal/api/sse.go` | the set of clients, a channel of 32 events each, a read-write mutex | `Register`, cleanup, `Broadcast` |
| Server process | `cmd/server/main.go` | its context, two tickers | start, graceful stop, polling every 500 ms, queue depths every 5 s |
| Dashboard | `dashboard/src/App.tsx`, `useSSE.ts` | the jobs as last shown, the connection | fetch once, apply events, reconnect after 3 s |
| Worker registry | `worker.go`, `postgres.go` | one row per worker | register, heartbeat, current job, stopped, `ListWorkers` |

Server and workers share the two stores and nothing else. A job is a row in
postgres and an id in redis; no transaction covers both, and nobody locks a row.
That is where the hard behaviours come from:

* *two stores, several calls*: each operation is a series of calls, any of which
  may fail or be the last one before a crash (`Enqueue`, `ScheduleRetry`,
  `ReplayDeadJob`, `GetDueDelayed` with `promoteDelayedJobs`);
* *check, then act*: `CancelJob`, `ReplayDeadJob`, `ScheduleRetry` and
  `recoverStuckJobs` decide on a row they have read and write it later;
* *destructive pops*: BRPOP and ZPOPMAX remove the id before the worker has
  recorded that it has it;
* *timeouts and clocks*: a job that runs for longer than
  `STUCK_JOB_TIMEOUT_MINUTES` is taken to be lost; its `started_at` is a time of the
  worker, the cutoff one of the server; delays are cut to whole seconds and may
  overflow;
* *commands sent twice*: go-redis repeats a command whose reply is lost, and LPUSH
  is not idempotent;
* *half an order*: a demo order enqueues its jobs one after the other;
* *shutdown*: the context that is cancelled is the one that the calls of the job
  in flight use;
* *lossy events*: full buffers drop events, a poll looks at a window of time, a
  fetch overwrites what events have brought.

What makes the components correct: an id is where its row says (`RoutedIds`); the
duty to run a job is in exactly one place while it is unsettled and in none
afterwards (`SingleDelivery`, `NoJobLost`, `SettledIsQuiet`); what fails loses only what
it had in hand (`LossIsConfined`); rows agree with what
goroutines do (`ExecutingIsRecorded`, `RunningIsExecuted`, `StoppedIsIdle`);
attempts are counted (`AttemptsWithinLimit`); jobs settle and shutdowns end
(`EveryJobSettles`, `CrashedJobSettles`, `ShutdownCompletes`); an order that fails
stops where it is (`OrderIsEnqueued`); nothing is retried or taken for stuck too
early or too late (`NeverEarly`, `NeverLate`, `NeverRecoveredEarly`,
`RecoveredInTime`); the dashboard ends up
with the truth (`FeedConverges`), and nobody sends on a closed channel
(`NoSendOnClosed`). None of these holds under *every* fault; each run names the
faults under which it is claimed, and the violation runs show where a comment of
the code promises more than the code does.

## 2. The modules

```
Stores <--- Worker    \
       <--- Scheduler  >--- TaskQueue <--- Delivery <--- MCDelivery
       <--- Api       /          ^            |
                                 |            +- INSTANCE JobLifecycle
                          TaskQueueProofs (also EXTENDS Delivery), and see section 4

JobLifecycle, Broadcaster <--- EventFeed <--- MCFeed
JobTiming (INSTANCE JobLifecycle)
WorkerRegistry
```

(`A <--- B`: B EXTENDS A.)

**Stores** has the variables of the two stores and one operator per call that
changes them. A row is a record with the columns that code decides on; payload,
type and most timestamps are left out, `started_at` is only `never`, `recent` or
`old` (older than the stuck timeout), a score of the delayed set only `waiting` or
`due`, and the entries of the dead letter list are counted. A list is a sequence,
oldest id first. A call that returns an error is a fault (`Fault(kind)`), taken from
a budget of `MaxFaults`; a failing write may have been committed (`FailedWrite`), a
failing pop may have popped (`lost_reply`), a push may be sent twice by the client
library (`resent`).

**Worker** models the goroutines. The program counter names the store call that
comes next: `poll` (ZPOPMAX on one priority queue after the other), `brpop`, `load`
(`GetJob`), `mark` (`UpdateJobStatus(running)`), `exec` (the handler, and the write of
the outcome), `delay` or `bury` (the redis call that follows it). `attempts` is the
number in the copy of the job that `load` made. `StopWorker` is SIGTERM,
`CrashWorker` a kill between any two calls, `StartWorker` the restart.

**Scheduler** models the loop and the startup goroutine as two threads; `zrem`,
`reset` and `push` are separate steps, `batch` is what is left to do.

**Api** models the requests that change jobs. A client is a request in progress. An
order (`PlaceOrder`, or `FloodOrders` with several of them in a row) is a sequence of
bodies of which `order[c].rest` is still to be enqueued; it takes the steps of
`CreateJob` for one after the other, and ends at the first error.

**TaskQueue** composes the four, adds the life of the server and the clock, and
states fairness.

**JobLifecycle** is the abstract specification: statuses, attempts and limits, with
no stores, threads or faults. `Delivery!ImplementsLifecycle` maps each row to its
state and claims the refinement.

**Delivery** has the properties. `Deliveries(j)` is the set of all places that have
the duty to run job `j`: list positions, priority sets, the delayed set, and the
threads that have popped the id or are going to push it.

**Broadcaster** models `sse.go`: the critical sections of the write lock are one
step each; a `Broadcast` is one step per client, and holds the read lock meanwhile.

**JobTiming** gives the same jobs timestamps, which TaskQueue has abstracted to
"due" and "stuck". Time is counted in ticks (`Second` of them to a second); a worker
reads a clock that is up to `MaxSkew` away from that of the server. `RetryDelay` is the
loop of the code as a recursive function, `Promised` what its comment says; `Duration`
wraps around as an int64 does; `Until` cuts the time to whole seconds. A job goes from
place to place (`Places`) as its calls are made: a request or a worker reads the clock in
one step (`Submit`, `Begin`, `Fail`) and makes its writes in later ones (`Save`, `Retry`,
`PutOff`; `Mark`), after any time, during which the scheduler runs. Each pass of
the scheduler is one step here (Scheduler has its single calls). `EachLivesItsLife`
maps each job with its times to JobLifecycle, the specification that TaskQueue
implements too, so the two views cannot disagree on what a job may do.

**EventFeed** puts jobs that live as in JobLifecycle, the poller, the requests that
announce jobs, the goroutine that sends `queue.stats`, the Broadcaster and one dashboard page
together. `CancelJob` is a check and a write (`cancelling`, `cancelled`): the row says
failed, whatever has become of the job in between, until a worker or the scheduler writes
its status again; `Promote` does so for a delayed job that was cancelled. Time is counted in
periods of the poller; `age` is the age of the newest timestamp of a row, `stamped`
that of a timestamp that is taken but not committed.

**WorkerRegistry** models the row of one worker, written by its goroutines, its
heartbeat and its main goroutine, and the list that `ListWorkers` returns. Time is
counted in periods of the heartbeat.

`PROJECT.json` maps every definition to its source lines. Definitions whose comment
begins with "Mutant:" are versions of another definition with a plausible bug; each
property is broken by one of them, so none holds by the shape of the model.

## 3. Runs

| Run | Properties | What it shows |
|---|---|---|
| `single_delivery` | `SingleDelivery`, `SettledIsQuiet`, `ExecutingIsRecorded`, `AttemptsWithinLimit`, `DeadIsListed`, `LossIsConfined` | 2 workers, 2 jobs, one client that enqueues, replays and cancels; one fault of eight kinds. A job is never in two places; a dead job is listed until something fails; a job is lost only in the step that fails, and of the ids waiting in redis at most one with it |
| `no_job_lost` | `NoJobLost` | two clients, two workers; handlers that outlive the timeout, overlapping recoveries, failing ZREMs, commands sent twice. Doubled deliveries happen here, lost ones do not |
| `crash_recovery` | `TypeOK`, `RoutedIds`, `ImplementsLifecycle`, `CrashedJobSettles`, `EveryJobSettles` | two queues, all kinds of jobs, also with a negative limit, a replay, two faults of six kinds. A running job of a dead worker settles, rows move as JobLifecycle allows, and without a fault every job settles, replayed or not |
| `every_job_settles` | `RunningIsExecuted`, `OrderIsEnqueued`, `EveryJobSettles`, `ShutdownCompletes` | two jobs, of one order or two requests, on two goroutines, with at most one SIGTERM of the worker or of the server or one failed push. Orders stop at an error, jobs settle, the worker finishes what it runs and stops |
| `timing` | `TimingTypeOK`, `NeverLate`, `RecoveredInTime`, `NeverEarly`, `NeverRecoveredEarly`, `EachLivesItsLife` | one job with every delay, retry, timeout and clock reading, and any time between reading a clock and the write. How early and how late it can be queued |
| `feed` | `FeedTypeOK`, `NoSendOnClosed`, `FeedConverges` | one job with a retry and a replay, a requeue or a cancellation, two connections, one fault of the poll, the fetch or the connection, or one `queue.stats` event |
| `registry` | `RegistryTypeOK`, `StoppedIsIdle`, `LiveIsListed`, `GoneIsUnlisted`, `StaleJobClears` | two goroutines, two jobs, two of stop, crash and failing writes |
| `failed_push` (violation) | `PendingIsPickedUp` | the comment at `queue.go:83` ("scheduler will eventually pick it up") does not hold |
| `stop_during_retry` (violation) | `FailedJobIsRetried` | a job that fails after SIGTERM is pending and in no queue |
| `cancel_is_ignored` (violation) | `CancelledNeverRuns` | a cancelled job runs: the worker never looks at the status |
| `replay_race` (violation) | `AttemptsWithinLimit` | two replays of one dead job deliver it twice; one goroutine takes the deliveries one after the other, and the second counts on from the attempts that the first has used up |
| `feed_drop` (violation) | `FeedCatchesUp` | an event dropped by a full buffer is never made up for |

The first seven pass. In `single_delivery` there is one client, so no two replays
overlap (that is `replay_race`); failing ZREMs (`zrem_error`), handlers that outlive
the timeout (`overrun`) and a startup recovery that lasts for a minute
(`slow_startup`) and a command that is sent twice (`resent`) do double a delivery and
belong to `no_job_lost`. `DeadIsListed` and `EveryJobSettles` speak of behaviours
without a fault (so far) only and say so in their formulas, which lets them share a
run with properties that need faults. Deadlock is checked everywhere.

In `replay_race` the order matters: two goroutines that load the row together would both
write the same count and stay within the limit.

`LossIsConfined` is about a system in which jobs may be lost, as they are when a process
dies between a pop and the write that records it. It says what a loss may be: the step
that loses a job is the fault itself, so no later step of another process
completes it, and the other ids in redis stay. The one loss without a
fault is a retry whose ZADD is refused because the worker is stopping (`RetryIsCut`, the
run `stop_during_retry`). A cancelled job owes no run and cannot be lost; when a promotion
that is then cut off overwrites its row with pending, that is not counted.

### Bounds

* `MaxFaults` is 1 or 2. Every crossing of one fault with every interleaving is
  explored; `crash_recovery` has two, so that a fault can hit the recovery of
  another. `MaxReplays` bounds the only source of unbounded histories besides
  faults: without replays every job makes at most `max_attempts` runs.
* One or two jobs. The code has no operation on two jobs at once except the batches
  of the scheduler and the order of a queue; two jobs are enough for a batch with a
  rest and a list with two positions. Runs about one job's protocol use one.
* Two workers, or one with two goroutines: enough for two executions of one job.
  Priority queues and lists: two queues suffice for the order of polling.
* `EventFeed` scales the buffer of 32 events down to 1, so that one slow client can
  fill it; two jobs then exceed it in one poll as 33 jobs do in the code. `Overlap`
  is 2 periods (1 s of 500 ms periods) as in the code, `CommitDelay` is 1.
  The page fetches at most 100 jobs; the model has fewer. `queue.stats` comes every 5 s,
  that is, at most once in any three polls: its event takes one place, and one poll's
  worth of outcomes is repeated by the next two. `MaxFeedFaults` is 1 for that reason.
  `MaxReturns` (`Return`) bounds the replays, requeues and cancellations of a behaviour.
* `Cutoff` of `WorkerRegistry` is 4 periods of 30 s, as in the code (2 minutes).
* `Timing.cfg`: a second is two ticks, so that cutting to seconds loses something;
  the scheduler starts on a whole second or between two; timeout, ticker period and
  cap are a few seconds and time ends some 25 ticks after the start, long enough for four attempts, a
  recovery after a retry, and the cap. `Delays` has 11 s and 17 s, which wrap around
  `HalfRange` to a time in the past and to a short delay. `Forget` and `ForgetRun` set the
  times that say nothing any more to 0. The backoff is 1, 2, then the
  cap of 3 s, instead of 10, 100, ... and 100 000 s. One job: passes of the scheduler
  treat jobs one by one. Every bound of the properties is tight: TLC finds each of
  them violated when it is made one tick smaller.
* `Orders` is one order of two jobs: an error can hit the first, or the second with
  one behind it in the queue. Four jobs, or 50 orders, repeat the same steps.
* The only symmetry reduction is in `single_delivery` (jobs and workers), which has
  no liveness property.

### Fairness

`FairSpec` of TaskQueue says that a thread that can take a step without a fault
takes one (the go runtime schedules every goroutine, the stores answer), that time
passes, and that containers that went down are started again
(`restart: unless-stopped`). The two ticks of the scheduler are strongly fair: the
select of `Start` chooses at random between the tickers that are ready, so a tick
that is ready again and again is chosen. Faults, requests and signals are never
owed. A goroutine that has a choice between the outcomes of a handler owes only
*some* outcome, so a job may fail as often as it likes.

`EventFeed` assumes one thing of time, the operator `Prompt`: within a period of
500 ms a request makes its broadcast, the page connects and its fetch returns, and
the stream empties the channel of the page; a write commits within `CommitDelay`
periods of its timestamp. `Prompt` models no code: nothing in `main.go` makes the ticker
wait for any of this. Without it no window of one second can be enough. The
violation run shows that even with it a full buffer loses an outcome.

`JobTiming` has no fairness: its properties bound time itself. `Tick` lets no time pass
beyond `Lag` after a ticker has fired, which is how late the scheduler may be (the
other ticker's pass, or the go runtime, may hold it up); `Lag` is less than a second,
so no tick of the one-second ticker is dropped.

`WorkerRegistry` owes ticks of the clock and heartbeats that do not fail; a
goroutine owes nothing.

### Assumptions about libraries

A go-redis call whose context is cancelled before it begins sends nothing; one that
has been sent (the BRPOP of a worker) runs to its end. After a network error go-redis
sends a command again by itself: the push happens twice (`resent`), which a ZADD does
not notice and an LPUSH does. Each gorm statement is a
transaction of its own. A request whose client goes away has its context cancelled:
its redis calls fail, which are the faults `push_error` and `redis_error`.

## 4. Proofs

The theorems are in eight modules, checked by TLAPS from the assumptions named in the
modules (`StoresAssumption`, `WorkerAssumption`, `ApiAssumption`, `FeedAssumption`,
`EventsAssumption`, `RegistryAssumption`, `LimitsAssumption`, `TimingAssumption`) and
from the hypotheses that a theorem states. They hold for any number of jobs, workers,
goroutines, clients, queues and faults. Every safety invariant and action property of
the passing runs but `LossIsConfined` is a theorem, and so are both refinements of
JobLifecycle, `ImplementsLifecycle` and `EachLivesItsLife`.

```
TaskQueueProofs <--- DeliveryProofs <--- OutcomeProofs <--- ConservationProofs
JobLifecycleProofs <--- EventFeedProofs
JobTimingProofs     WorkerRegistryProofs
```

### The task queue

`TaskQueueProofs`: `Spec => []TypeOK` and `Spec => []RoutedIds`. TypeOK is
inductive because it ties "holds a job" to the program counter of every thread:
without that, `jobs[gor[g].job]` of an idle goroutine would have no type.
`RoutedIds` needs that the queue and the priority of a row never change once it
exists and that rows never disappear; the lemmas say so of each step (`RowsKept`),
and one step per action does the rest. The proof covers every fault of the model,
also those that double or lose a delivery: ids are never in the wrong queue.

`DeliveryProofs`: `[]SingleDelivery` and `[]SettledIsQuiet`. SingleDelivery is far
from inductive. The invariant is `Delivered`, and this is why it has the parts it has:

* `OnePlace`: every job has at most one place. `Places` counts a list once and
  `NoRepeats` says that a list repeats no id, since a pop shifts all positions.
* `SettledHasNone`: a row that is completed or dead has no place, so a replay adds the
  first one; `ReplayedHasNone`: nor has a job that a request is replaying, so the
  second half of that replay adds the first one as well.
* `RunningPlace`: the only place of a running job is the goroutine that executes it,
  and, once its row is old (so that `GetStuckJobs` returns it), the thread that recovers
  it; so a recovery adds the first one.
* `OwnedPlace`: a job that a thread has read has no place but that thread, or the
  delayed set when the server was stopped before the ZREM; `RemovedWaits` says that what
  the ZREM removes is there, `ThreadsApart` that the two threads do not recover at the
  same time.

Each action has a lemma that says what it takes from a place and what it gives to one
(`OnlyTakes`, `RedisLeaves`, ...); the lemma `Alone` then shows that the receiver is the
only place. Two hypotheses are needed. `OrderlyFaults`: no handler outlives the stuck
timeout, the pass at startup ends before the first tick, ZREM does not fail, and no
command is sent twice; `no_job_lost` has exactly these four faults, and deliveries do
double there. Every other fault of the model is allowed, any number of times.
`[]ReplaysApart`: no two requests replay one job at a time, because `replay_race` shows
what happens then. `ReplaysStayApart` proves that a system with one client or without
replays never does so, hence the hypothesis takes no behaviour from those.

`OutcomeProofs`, from the same hypotheses: `[]ExecutingIsRecorded`,
`[]AttemptsWithinLimit`, `[]DeadIsListed`, and `ImplementsLifecycle`. They rest on
`Delivered`: since only one thread has the job, nobody but a cancellation writes the
row between the moment a goroutine loads it and the moment it writes its outcome.
`RowSteps` is the list of the writes there are (`Created`, `Marked`, `Finished`,
`Failed`, `Requeued`, `Replayed`, `Withdrawn`), one for each statement of the code;
each theorem goes through that list. The copy of a goroutine has the attempts of the
row (`Recorded`), so no failure is counted twice; a job that may still be run, which
includes a cancelled one that is in a queue, has an attempt left (`Counted`). The refinement maps each of the seven
to the step of JobLifecycle of that meaning; `Withdrawn` (CancelJob) has none, so it is
claimed without cancellations, as in the run.

`ConservationProofs`: what is not lost. Each theorem names the faults it excludes, and
those faults do lose it (two of the ways are the runs `stop_during_retry` and
`failed_push`):

* `[]RunningIsExecuted` if no worker is killed and no database write fails
  (`HandlersFinish`): a worker that is told to stop lets its goroutines finish.
* `[]NoJobLost` if no process stops and no call fails (`NothingDropped`), but with the
  four faults that OrderlyFaults excludes and any number of clients that replay: what
  doubles a delivery never loses one.
* `[]OrderIsEnqueued` if goroutines drop nothing and faults are orderly, also with
  failing pushes and stops of workers and server. `OrdersAreNotPutOff` says that no job of
  an order has a delay: `enqueueOrder` (`handlers.go`) fills in none. There are no
  replays in it, because a replay sets the attempts to 0, and when its push then fails
  the job looks like one the order has skipped; the run has none either.

`JobLifecycleProofs`: `[]AttemptsBounded` for the abstract life cycle; an unsettled
job has an attempt left, which makes it inductive.

### Times, feed and registry

`JobTimingProofs`. `[]RecoveredInTime` and `NeverRecoveredEarly` by `RecoveryInv`: the
scheduler is at most a period ahead of its ticker and a lag behind it, the
`started_at` of a row is within the skew of the moment its worker read the clock
(`begun`), that moment is not after the one at which the row became running (`since`),
and no row has been running for longer than the last pass has left behind. The two
theorems measure from different moments for that reason: a worker that is slow to mark
its row has used up a part of the timeout already. `EachLivesItsLife`: every step of a job
is one of those of JobLifecycle or none (`StepLives`), a promotion is none
(`PromoteLives`), a pass for stuck jobs is `Requeue` or none (`RecoverLives`).

`RetryDelayIsPromised`: the loop of `RetryDelay` and its cap compute what the comment
promises, for any number of attempts. This is an induction over the rounds of the loop,
done through the least round that would be wrong (`LeastNumber`, from the library's
theorem that `<` is well-founded on the naturals). It and the next three have the
hypothesis `PowersOfFactor`: the laws of powers (`Factor ^ 0 = 1` and so on). These are
facts of arithmetic, true for every factor that `TimingAssumption` allows, but the
provers have no rule for `^`.

`[]TimingTypeOK`, `[]NeverLate` and `NeverEarly` by `TimingInv`: the score of a job that is
put off is its moment, cut to seconds and up to the skew (`ScoreWell`), and that moment,
or the one at which the id came to the delayed set, lies after the last tick
(`LeftWell`), because a pass takes everything that is there and due before it. That is why
NeverLate has two bounds: an Enqueue or a ScheduleRetry whose calls take longer than
the delay brings an id that is overdue already, and the bound then counts from its
arrival. Attempts stay in range because a job that can still fail has one left
(`AttemptLeft`).

`EventFeedProofs`: `[]NoSendOnClosed` by `LockInv`: closed channels belong to clients
that have left the map, and every call of `Broadcast` under way has all its remaining
clients in the map. `[]FeedTypeOK` by `FeedInv`, which adds that a row that does not exist
has no recent timestamp and no cancellation: otherwise a poll would report it with a status that no event
has. The jobs of EventFeed take the steps of JobLifecycle by definition, and cancellations
leave that life alone, so no theorem says so.

`WorkerRegistryProofs`: `[]RegistryTypeOK`; `[]StoppedIsIdle`; and `[]LiveIsListed`
if `MaxFaults + 1 < Cutoff`. The last rests on `SeenIsPaidFor`: while the worker is
up, the age of `last_seen` is at most the number of faults so far, plus one while a
heartbeat is due. With a cutoff of 2 minutes and a heartbeat every 30 s, two failed
heartbeats in a row are harmless and three are not.

### What stays with TLC

Liveness: `CrashedJobSettles`, `EveryJobSettles`, `ShutdownCompletes`, `FeedConverges`,
`GoneIsUnlisted` and `StaleJobClears`. TLAPS has no rules for fairness and
ENABLED. `LossIsConfined` is a safety property and has no proof yet.

## 5. Where code and docs differ

Five differences have runs of their own (section 3, `PROJECT.json` "findings").
Others were met while modelling and have none:

* `redis.go:146` says "remove them atomically" of a ZREM that follows a separate
  ZRANGEBYSCORE and whose error is ignored: after a failure the same ids are
  promoted again (the fault `zrem_error` of `no_job_lost`).
* `handlers.go:156`: a job may be marked running between the check and the write of
  `CancelJob`, which then marks a running job failed; `ExecutingIsRecorded` says
  exactly this much.
* The heartbeat (`worker.go:236`) writes `current_job` as null while jobs run, and the
  goroutines of a worker share the column. The dashboard takes it for the job in hand:
  `App.tsx:22` polls "so current_job stays live", and `WorkerStatus.tsx:93` shows
  "idle — waiting for jobs" for a null. `StaleJobClears` is about the other direction, a
  job that is shown when none runs.
* `worker.go:144`: `started_at` is read before the row is marked, so a slow write takes
  its time from the stuck timeout of the job (`NeverRecoveredEarly` counts from there).
* `README.md:146` of the repository says that heartbeats come every 10 seconds;
  `worker.go:227` and its comment say 30. The comments at `main.go:87` and
  `handlers.go:339` say that the status poll comes every 2 s; the ticker is 500 ms.
* `handlers.go:345`: a job that goes back to `pending`, to be retried, has no event, so
  the page shows it as running until the retry runs, which may be hours; README.md:3
  speaks of a dashboard that "shows everything happening in real time". `FeedConverges`
  speaks of outcomes only.
* A cancelled job ends as `failed`, and a job without a handler as `completed`; the
  picture of the life cycle in the repository's README has no arrow for either.
  Conversely no job that a handler has failed ever has the status `failed`: it goes
  back to `pending` at once.

* `redis.go:57` says "we use BZPOPMAX"; `Dequeue` uses ZPOPMAX, which does not block, and
  then blocks on the lists for up to 5 s: an urgent job that arrives meanwhile waits.
* `queue.go:65`: a delay of more than about 292 years overflows `time.Duration`. The job
  is then due at once, or, when the sum is before 1970, never: the range of
  `GetDueDelayed` begins at 0. JobTiming models the wrap; `NeverEarly` and `NeverLate`
  are about delays that fit.
* `main.go:131`: `Shutdown` waits for the SSE streams, which end only with their pages;
  with a dashboard open the server always takes the 10 s and ends by force
  (`CrashServer`).

## 6. Not modelled

* `ListJobs` filters and paging, `GetJob`, `GetQueueStats`, `GetThroughput` and the
  contents of `queue.stats`: they read and change nothing. (That a `queue.stats` event
  takes a place in the buffers is modelled.)
* Formatting of SSE messages, logging, configuration parsing, routes and CORS.
* Payloads and the demo handlers of `cmd/worker`: they sleep, log, and one fails at
  random; a handler of the model returns nil or an error.
* The components of the dashboard, which render, and the lists of workers and depths
  in App.tsx, which are replaced by whatever was fetched last.
* The loss of the data of postgres or redis.
* Fairness between queues: BRPOP serves its keys in order, and nothing promises more.

## 7. Plan

Done, in this order: Stores, Worker, Scheduler, Api, TaskQueue, JobLifecycle,
Delivery with its runs; TypeOK and RoutedIds proved; Broadcaster and EventFeed;
WorkerRegistry and its proofs; orders, failed and repeated pushes; JobTiming and its
proofs; the `queue.stats` events; the proofs of Delivery, of its refinement, of the
delays and of the types of EventFeed; cancellations in EventFeed; the time that calls
take in JobTiming; `LossIsConfined`.

Next:

1. *Hypotheses.* `ExecutingIsRecorded` and `AttemptsWithinLimit` with `[]ReplaysApart` for
   the job in question only, and `OrderIsEnqueued` with replays of other jobs.
2. *Implication.* `AttemptsWithinLimit` from `RowsImplementLifecycle` and
   `AttemptsAreBounded`, as a second way to the same theorem.
3. *Proof.* `LossIsConfined`, for every fault but those that double a delivery.
4. *Model.* A second process of the same worker id (a pid that is reused) in
   WorkerRegistry.
