------------------------------ MODULE EventFeed ------------------------------
(***************************************************************************)
(* How a dashboard comes to know the status of the jobs: the poller of the *)
(* server (BroadcastJobUpdates, every 500 ms), the requests that announce  *)
(* what they have enqueued, the Broadcaster, StreamEvents, and the state   *)
(* that App.tsx keeps of them.  The jobs live as JobLifecycle says, which  *)
(* TaskQueue implements (run crash_recovery).  CancelJob is no part of     *)
(* that life: it overwrites the status of the row, and the job goes on.    *)
(*                                                                         *)
(* Time is counted in periods of the poller.  The rows it reports are      *)
(* those that have a started_at, completed_at or failed_at after the last  *)
(* poll minus one second.  A worker takes such a timestamp before it       *)
(* writes the row, so a row may be older than it has been visible.  What   *)
(* is assumed of time is the operator Prompt, and nothing else is.         *)
(*                                                                         *)
(* Senders of the Broadcaster are the poller, the goroutine that sends the *)
(* depths of the queues and, for each job, the request that has created or *)
(* replayed it last.                                                       *)
(***************************************************************************)
EXTENDS JobLifecycle, Broadcaster

CONSTANTS
  Poller,        \* the goroutine that polls
  Stats,         \* the goroutine that broadcasts queue.stats
  NoClient,      \* no connection
  Overlap,       \* the periods in the second by which polls overlap (2)
  CommitDelay,   \* the periods a write may take from timestamp to commit
  FeedFaults,    \* the faults the environment may inject, and "stats"
  MaxFeedFaults, \* how many of them a behaviour may have
  MaxReturns     \* how many replays, requeues and cancellations it may have

VARIABLES
  stamped,    \* for each job, the age of the timestamp a worker has taken
              \* for a write that is not committed yet, or NoStamp
  age,        \* the age of the newest timestamp of the row
  cancelled,  \* the jobs whose row says failed: CancelJob wrote it last
  cancelling, \* the jobs that CancelJob has found pending and will write
  batch,      \* the events the poller has still to broadcast
  announced,  \* the jobs whose request has still to broadcast job.created
  page,       \* the dashboard
  feedFaults, \* how many faults have happened
  returns     \* how many replays, requeues and cancellations there were

cancelVars == <<cancelled, cancelling>>
sourceVars == <<stamped, age, cancelVars, batch, announced>>
boundVars == <<feedFaults, returns>>
feedVars == <<sourceVars, page, boundVars>>
vars == <<state, broadcasterVars, feedVars>>

ASSUME FeedAssumption ==
  /\ Poller \notin Jobs /\ Stats \notin Jobs \cup {Poller}
  /\ NoClient \notin Clients
  /\ Senders = Jobs \cup {Poller, Stats}
  /\ BufferSize \in Nat \ {0}
  /\ {Overlap, CommitDelay, MaxFeedFaults, MaxReturns} \subseteq Nat

NoStamp == -1
Old == Overlap + 1   \* older than any poll looks

Event(j, status) == [job |-> j, status |-> status]

JobEvents ==
  [job : Jobs, status : {"pending", "running", "completed", "failed", "dead"}]

\* It says nothing of any job; the page keeps the depths apart from the jobs.
StatsEvent == Event(Stats, "stats")

Statuses ==
  [Jobs -> {"absent", "pending", "running", "completed", "failed", "dead"}]

\* link: "none" before the first connection of the page, "lost" when it has
\* broken.  kept: no fetch of the page has failed and its connection has never
\* broken.  view is the status of each job that the page shows.
Page ==
  [link   : {"none", "connecting", "open", "lost"},
   kept   : BOOLEAN,
   client : Clients \cup {NoClient},
   fetch  : {"none", "asked", "read"},
   answer : Statuses,
   view   : Statuses]

ASSUME EventsAssumption == Events = JobEvents \cup {StatsEvent}

Nothing == [j \in Jobs |-> "absent"]

\* What the row of job j says.
RowStatus(j) == IF j \in cancelled THEN "failed" ELSE state[j].status

CurrentStatuses == [j \in Jobs |-> RowStatus(j)]

FeedTypeOK ==
  /\ LifecycleTypeOK
  /\ BroadcasterTypeOK
  /\ stamped \in [Jobs -> NoStamp .. CommitDelay]
  /\ age \in [Jobs -> 0 .. Old]
  /\ cancelled \in SUBSET Jobs
  /\ cancelling \in SUBSET Jobs
  /\ batch \in SUBSET JobEvents
  /\ announced \in SUBSET Jobs
  /\ page \in Page
  /\ feedFaults \in 0 .. MaxFeedFaults
  /\ returns \in 0 .. MaxReturns

Init ==
  /\ LifecycleInit
  /\ BroadcasterInit
  /\ stamped = [j \in Jobs |-> NoStamp]
  /\ age = [j \in Jobs |-> Old]
  /\ cancelled = {}
  /\ cancelling = {}
  /\ batch = {}
  /\ announced = {}
  /\ page = [link |-> "none", kept |-> TRUE, client |-> NoClient,
             fetch |-> "none", answer |-> Nothing, view |-> Nothing]
  /\ feedFaults = 0
  /\ returns = 0

FeedFault(kind) ==
  /\ kind \in FeedFaults
  /\ feedFaults < MaxFeedFaults
  /\ feedFaults' = feedFaults + 1

-----------------------------------------------------------------------------
(* The jobs.                                                               *)

\* Bound: a replay, a requeue or a cancellation is counted, so that a behaviour
\* has finitely many.
Return == returns < MaxReturns /\ returns' = returns + 1

\* Whoever writes the status of job j overwrites a cancellation.
Overwrite(j) == cancelled' = cancelled \ {j} /\ UNCHANGED cancelling

\* A timestamp that was taken "stamp" periods ago is in the row.  It is the
\* newest one, or another column has a newer one: CancelJob and a worker may
\* write the row in another order than they took their times.
Date(j, stamp) ==
  \E newest \in {a \in {stamp, age[j]} : a <= stamp} :
    age' = [age EXCEPT ![j] = IF newest < Old THEN newest ELSE Old]

\* Enqueue and ReplayDeadJob: the row is written (and the id pushed); the
\* request has still to broadcast job.created.  One request per job at a time.
\* The row was dead when ReplayDeadJob read it; it may be cancelled by now.
Accept(j) ==
  /\ \/ Submit(j) /\ UNCHANGED returns
     \/ Replay(j) /\ Return
  /\ j \notin announced /\ ~Sends(j)
  /\ announced' = announced \cup {j}
  /\ Overwrite(j)
  /\ UNCHANGED <<broadcasterVars, stamped, age, batch, page, feedFaults>>

\* CreateJob and RetryJob broadcast the job as they have written it.
Announce(j) ==
  /\ j \in announced
  /\ Broadcast(j, Event(j, "pending"))
  /\ announced' = announced \ {j}
  /\ UNCHANGED <<state, stamped, age, cancelVars, batch, page, boundVars>>

\* recoverStuckJobs takes the job back, cancelled or not since GetStuckJobs has
\* found it running, and writes no timestamp.
TakeBack(j) ==
  /\ Requeue(j)
  /\ Return
  /\ Overwrite(j)
  /\ UNCHANGED <<broadcasterVars, stamped, age, batch, announced, page, feedFaults>>

\* promoteDelayedJobs writes pending whatever the row says, so a delayed job
\* that has been cancelled is pending again.
Promote(j) ==
  /\ j \in cancelled /\ state[j].status = "pending"
  /\ Overwrite(j)
  /\ UNCHANGED <<state, broadcasterVars, stamped, age, batch, announced, page,
                 boundVars>>

\* A worker takes the time of a change it is about to write.
Stamp(j) ==
  /\ state[j].status \in {"pending", "running"}
  /\ stamped[j] = NoStamp
  /\ stamped' = [stamped EXCEPT ![j] = 0]
  /\ UNCHANGED <<state, broadcasterVars, age, cancelVars, batch, announced, page,
                 boundVars>>

\* The write is committed: started_at, completed_at or failed_at is in the
\* row, with the time that was taken.  No worker looks at the status.
Commit(j) ==
  /\ stamped[j] # NoStamp
  /\ Begin(j) \/ Complete(j) \/ Retry(j) \/ Exhaust(j)
  /\ Date(j, stamped[j])
  /\ stamped' = [stamped EXCEPT ![j] = NoStamp]
  /\ Overwrite(j)
  /\ UNCHANGED <<broadcasterVars, batch, announced, page, boundVars>>

\* CancelJob finds the row pending, one request per job at a time,
CancelCheck(j) ==
  /\ RowStatus(j) = "pending"
  /\ j \notin cancelling
  /\ Return
  /\ cancelling' = cancelling \cup {j}
  /\ UNCHANGED <<state, broadcasterVars, stamped, age, cancelled, batch, announced,
                 page, feedFaults>>

\* and writes it, whatever has become of the job meanwhile, with a failed_at that
\* is as old as a write may be.  It broadcasts nothing.
CancelJob(j) ==
  /\ j \in cancelling
  /\ \E stamp \in 0 .. CommitDelay : Date(j, stamp)
  /\ cancelled' = cancelled \cup {j}
  /\ cancelling' = cancelling \ {j}
  /\ UNCHANGED <<state, broadcasterVars, stamped, batch, announced, page, boundVars>>

-----------------------------------------------------------------------------
(* The poller: the ticker of main and BroadcastJobUpdates.                 *)

\* Mutant: polls do not overlap.
ReportedWithoutOverlap ==
  {Event(j, RowStatus(j)) :
     j \in {k \in Jobs : age[k] = 0 /\ RowStatus(k) # "pending"}}

\* GetRecentlyUpdatedJobs, less the jobs whose status has no event.
Reported ==
  {Event(j, RowStatus(j)) :
     j \in {k \in Jobs : age[k] <= Overlap /\ RowStatus(k) # "pending"}}

\* What is assumed of time, and the code does not guarantee: in one period a
\* request makes its broadcast, the page connects and gets the answer of its
\* fetch, and StreamEvents empties the channel of the page; a write takes
\* CommitDelay periods at most.
Prompt ==
  /\ announced = {}
  /\ WriteLock
  /\ \A j \in Jobs : stamped[j] < CommitDelay
  /\ page.client # NoClient => ch[page.client] = <<>>
  /\ page.link # "connecting"
  /\ page.fetch = "none"

\* A tick.  When the query fails nothing is broadcast, but lastPoll has been
\* set already.
Poll ==
  /\ batch = {}
  /\ Prompt
  /\ \/ batch' = Reported /\ UNCHANGED feedFaults
     \/ batch' = {} /\ FeedFault("poll_error")
  /\ age' = [j \in Jobs |-> IF age[j] < Old THEN age[j] + 1 ELSE Old]
  /\ stamped' = [j \in Jobs |-> IF stamped[j] = NoStamp THEN NoStamp
                                ELSE stamped[j] + 1]
  /\ UNCHANGED <<state, broadcasterVars, cancelVars, announced, page, returns>>

PollBroadcast ==
  /\ \E event \in batch :
       /\ Broadcast(Poller, event)
       /\ batch' = batch \ {event}
  /\ UNCHANGED <<state, stamped, age, cancelVars, announced, page, boundVars>>

\* BroadcastQueueStats, whatever of the depths it could read.  Its ticker is
\* ten times slower than that of the polls: MaxFeedFaults bounds the ticks.
StatsTick ==
  /\ FeedFault("stats")
  /\ Broadcast(Stats, StatsEvent)
  /\ UNCHANGED <<state, sourceVars, page, returns>>

SendNext ==
  /\ \E s \in Senders, c \in Clients : Send(s, c)
  /\ UNCHANGED <<state, feedVars>>

-----------------------------------------------------------------------------
(* The page: App.tsx, useSSE.ts and the StreamEvents goroutine.            *)

\* The page is opened, or loaded again: it fetches the jobs and connects.
Load ==
  /\ page.link \in {"none", "lost"}
  /\ page.fetch = "none"
  /\ page' = [link |-> "connecting", kept |-> TRUE, client |-> NoClient,
              fetch |-> "asked", answer |-> Nothing, view |-> Nothing]
  /\ UNCHANGED <<state, broadcasterVars, sourceVars, boundVars>>

\* ListJobs.  The page ignores an error and shows what it has.
ReadJobs ==
  /\ page.fetch = "asked"
  /\ \/ /\ page' = [page EXCEPT !.fetch = "read", !.answer = CurrentStatuses]
        /\ UNCHANGED feedFaults
     \/ /\ FeedFault("fetch_error")
        /\ page' = [page EXCEPT !.fetch = "none", !.kept = FALSE]
  /\ UNCHANGED <<state, broadcasterVars, sourceVars, returns>>

\* setJobs(data.jobs): the answer replaces whatever the page has shown.
ShowJobs ==
  /\ page.fetch = "read"
  /\ page' = [page EXCEPT !.fetch = "none", !.answer = Nothing,
                          !.view = page.answer]
  /\ UNCHANGED <<state, broadcasterVars, sourceVars, boundVars>>

Connect(c) ==
  /\ page.link = "connecting"
  /\ Register(c)
  /\ page' = [page EXCEPT !.link = "open", !.client = c]
  /\ UNCHANGED <<state, sourceVars, boundVars>>

\* The connection breaks; the EventSource is closed.
Lose ==
  /\ page.link = "open"
  /\ FeedFault("disconnect")
  /\ page' = [page EXCEPT !.link = "lost", !.kept = FALSE, !.client = NoClient]
  /\ UNCHANGED <<state, broadcasterVars, sourceVars, returns>>

\* StreamEvents of a connection that the page has closed returns.
Retire(c) ==
  /\ c # page.client
  /\ Cleanup(c)
  /\ UNCHANGED <<state, feedVars>>

\* After 3 s the page connects again; it fetches nothing.
Reconnect ==
  /\ page.link = "lost"
  /\ page' = [page EXCEPT !.link = "connecting"]
  /\ UNCHANGED <<state, broadcasterVars, sourceVars, boundVars>>

\* An event reaches the page, unless the page has closed this connection.
Stream(c) ==
  /\ Receive(c)
  /\ LET event == Head(ch[c]) IN
     page' = IF c = page.client /\ event \in JobEvents
             THEN [page EXCEPT !.view[event.job] = event.status]
             ELSE page
  /\ UNCHANGED <<state, sourceVars, boundVars>>

-----------------------------------------------------------------------------
JobStep(j) ==
  \/ Accept(j) \/ Announce(j) \/ TakeBack(j) \/ Promote(j)
  \/ Stamp(j) \/ Commit(j)
  \/ CancelCheck(j) \/ CancelJob(j)

ClientStep(c) == Connect(c) \/ Retire(c) \/ Stream(c)

Next ==
  \/ \E j \in Jobs : JobStep(j)
  \/ Poll \/ PollBroadcast \/ StatsTick \/ SendNext
  \/ Load \/ ReadJobs \/ ShowJobs \/ Lose \/ Reconnect
  \/ \E c \in Clients : ClientStep(c)

Spec == Init /\ [][Next]_vars

\* What has begun ends: requests, writes, calls of Broadcast and what the page
\* waits for.  The ticker goes on, and the mutex is free in the end for whoever
\* waits for it.  No submission, execution or page is ever owed.
FairSpec ==
  /\ Spec
  /\ \A j \in Jobs :
       WF_vars(Announce(j)) /\ WF_vars(Commit(j)) /\ WF_vars(CancelJob(j))
  /\ WF_vars(Poll /\ feedFaults' = feedFaults)
  /\ WF_vars(PollBroadcast) /\ WF_vars(SendNext)
  /\ WF_vars(ReadJobs /\ feedFaults' = feedFaults) /\ WF_vars(ShowJobs)
  /\ WF_vars(Reconnect)
  /\ \A c \in Clients :
       WF_vars(Connect(c)) /\ WF_vars(Retire(c)) /\ WF_vars(Stream(c))

-----------------------------------------------------------------------------
\* The page shows status s of job j for ever, from some time on.
Shows(j, s) == <>[](page.view[j] = s)

\* A page whose connection holds shows the outcome of every job in the end,
\* although writes commit late, polls fail, requests announce jobs that have
\* moved on, cancellations overwrite rows, and the answer of the fetch
\* overwrites what events have shown: the overlap of the polls makes up for all
\* of that ("1s overlap to avoid missing events" in main).
FeedConverges ==
  \A j \in Jobs, s \in {"completed", "failed", "dead"} :
    <>[](RowStatus(j) = s /\ page.link = "open" /\ page.kept) => Shows(j, s)

\* A page that is connected shows the outcome of every job in the end, also
\* one that has missed events or lost its connection ("it'll catch up on the
\* next event or reconnect" in Broadcast).
FeedCatchesUp ==
  \A j \in Jobs, s \in {"completed", "failed", "dead"} :
    <>[](RowStatus(j) = s /\ page.link = "open") => Shows(j, s)

=============================================================================
