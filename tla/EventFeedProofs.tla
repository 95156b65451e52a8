--------------------------- MODULE EventFeedProofs ---------------------------
(***************************************************************************)
(* Theorems about EventFeed, for any jobs, connections, buffer sizes and   *)
(* delays, and any number of faults.                                       *)
(***************************************************************************)
EXTENDS EventFeed, JobLifecycleProofs, TLAPS

\* A channel is closed only when its client has left the map, and whoever
\* sends took the read lock with all its clients in the map.
LockInv ==
  /\ DOMAIN sending = Senders
  /\ registered \cap closed = {}
  /\ \A s \in Senders : sending[s].to \subseteq registered

LEMMA LockInit == Init => LockInv
BY DEF Init, BroadcasterInit, LockInv, NoCall, Call

LEMMA LockKept == LockInv /\ UNCHANGED <<registered, closed, sending>> => LockInv'
BY DEF LockInv

\* Whoever has the write lock sees no call of Broadcast under way.
LEMMA NobodySends ==
  ASSUME LockInv, WriteLock PROVE \A s \in Senders : sending[s].to = {}
BY DEF WriteLock, Sends

LEMMA RegisterKept ==
  ASSUME LockInv, NEW c \in Clients, Register(c) PROVE LockInv'
BY NobodySends DEF Register, LockInv

LEMMA CleanupKept ==
  ASSUME LockInv, NEW c \in Clients, Cleanup(c) PROVE LockInv'
BY NobodySends DEF Cleanup, LockInv

LEMMA BroadcastKept ==
  ASSUME LockInv, NEW s \in Senders, NEW e, Broadcast(s, e) PROVE LockInv'
<1>1. \A r \in Senders :
        sending'[r].to = IF r = s THEN registered ELSE sending[r].to
  BY DEF Broadcast, LockInv, NoCall, Call
<1> QED
  BY <1>1 DEF Broadcast, LockInv

LEMMA SendKept ==
  ASSUME LockInv, NEW s \in Senders, NEW c \in Clients, Send(s, c)
  PROVE  LockInv'
<1>1. \A r \in Senders : sending'[r].to \subseteq sending[r].to
  BY DEF Send, LockInv, NoCall, Call
<1> QED
  BY <1>1 DEF Send, LockInv

LEMMA LockNext == LockInv /\ [Next]_vars => LockInv'
<1> SUFFICES ASSUME LockInv, [Next]_vars PROVE LockInv'
  OBVIOUS
<1> USE FeedAssumption
<1>1. ASSUME NEW j \in Jobs, JobStep(j) PROVE LockInv'
  <2>1. CASE Announce(j)
    BY <2>1, BroadcastKept DEF Announce
  <2>2. CASE \/ Accept(j) \/ TakeBack(j) \/ Promote(j) \/ Stamp(j) \/ Commit(j)
             \/ CancelCheck(j) \/ CancelJob(j)
    BY <2>2, LockKept DEF Accept, TakeBack, Promote, Stamp, Commit, CancelCheck,
                          CancelJob, broadcasterVars
  <2> QED
    BY <1>1, <2>1, <2>2 DEF JobStep
<1>2. CASE PollBroadcast
  <2>1. PICK e \in batch : Broadcast(Poller, e)
    BY <1>2 DEF PollBroadcast
  <2> QED
    BY <2>1, BroadcastKept
<1>3. CASE SendNext
  BY <1>3, SendKept DEF SendNext
<1>4. ASSUME NEW c \in Clients, ClientStep(c) PROVE LockInv'
  <2>1. CASE Connect(c)
    BY <2>1, RegisterKept DEF Connect
  <2>2. CASE Retire(c)
    BY <2>2, CleanupKept DEF Retire
  <2>3. CASE Stream(c)
    BY <2>3, LockKept DEF Stream, Receive
  <2> QED
    BY <1>4, <2>1, <2>2, <2>3 DEF ClientStep
<1>6. CASE StatsTick
  BY <1>6, BroadcastKept DEF StatsTick
<1>5. CASE Poll \/ Load \/ ReadJobs \/ ShowJobs \/ Lose \/ Reconnect \/ UNCHANGED vars
  BY <1>5, LockKept
     DEF Poll, Load, ReadJobs, ShowJobs, Lose, Reconnect, vars, broadcasterVars
<1> QED
  BY <1>1, <1>2, <1>3, <1>4, <1>5, <1>6 DEF Next

\* No goroutine sends on a closed channel, which would be a panic: Broadcast
\* holds the read lock from the first client to the last, and the cleanup
\* function closes under the write lock.
THEOREM NobodySendsOnClosed == Spec => []NoSendOnClosed
<1>1. LockInv => NoSendOnClosed
  BY DEF LockInv, NoSendOnClosed
<1> QED
  BY <1>1, LockInit, LockNext, PTL DEF Spec

-----------------------------------------------------------------------------
(* Types.  The rows keep theirs because they live as JobLifecycle says; the *)
(* rest has one invariant per component.                                    *)

\* Every step of the feed is a step of the life of one job, or of none.
LEMMA FeedStepLives == [Next]_vars => [LifecycleNext]_state
<1> SUFFICES ASSUME [Next]_vars PROVE [LifecycleNext]_state
  OBVIOUS
<1>1. ASSUME NEW j \in Jobs, JobStep(j) PROVE [LifecycleNext]_state
  BY <1>1 DEF JobStep, Accept, Announce, TakeBack, Promote, Stamp, Commit,
              CancelCheck, CancelJob, LifecycleNext
<1>2. ASSUME NEW c \in Clients, ClientStep(c) PROVE UNCHANGED state
  BY <1>2 DEF ClientStep, Connect, Retire, Stream
<1>3. CASE \/ Poll \/ PollBroadcast \/ StatsTick \/ SendNext
           \/ Load \/ ReadJobs \/ ShowJobs \/ Lose \/ Reconnect
  BY <1>3 DEF Poll, PollBroadcast, StatsTick, SendNext, Load, ReadJobs,
              ShowJobs, Lose, Reconnect
<1> QED
  BY <1>1, <1>2, <1>3 DEF Next, vars

\* The jobs that CancelJob has written, or is about to.
Withdrawn == cancelled \cup cancelling

\* A row that does not exist has no timestamp and is not cancelled, so no poll
\* reports it: what makes the type of the poller's batch inductive.
AbsentIsOld ==
  \A j \in Jobs : state[j].status = "absent" => age[j] = Old /\ j \notin Withdrawn

SourceTypeOK ==
  /\ stamped \in [Jobs -> NoStamp .. CommitDelay]
  /\ age \in [Jobs -> 0 .. Old]
  /\ cancelled \in SUBSET Jobs /\ cancelling \in SUBSET Jobs
  /\ batch \in SUBSET JobEvents
  /\ announced \in SUBSET Jobs

BoundsOK == feedFaults \in 0 .. MaxFeedFaults /\ returns \in 0 .. MaxReturns

FeedInv ==
  /\ AttemptsInv /\ AbsentIsOld
  /\ BroadcasterTypeOK /\ SourceTypeOK /\ page \in Page /\ BoundsOK

\* What FeedAssumption says of the numbers.
LEMMA Periods ==
  /\ BufferSize \in Nat /\ BufferSize >= 1
  /\ Overlap \in Nat /\ CommitDelay \in Nat
  /\ MaxFeedFaults \in Nat /\ MaxReturns \in Nat
  /\ Old \in Nat /\ Overlap < Old
BY FeedAssumption DEF Old

\* What a request, the poller or the statistics may broadcast.
LEMMA Broadcastable ==
  /\ \A j \in Jobs : Event(j, "pending") \in Events
  /\ JobEvents \subseteq Events
  /\ StatsEvent \in Events
BY EventsAssumption DEF JobEvents, Event, StatsEvent

\* The critical sections and the sends of sse.go keep the Broadcaster's types.
LEMMA BroadcastTyped ==
  ASSUME BroadcasterTypeOK, NEW s \in Senders, NEW e \in Events, Broadcast(s, e)
  PROVE  BroadcasterTypeOK'
BY DEF Broadcast, BroadcasterTypeOK, NoCall, Call

LEMMA RegisterTyped ==
  ASSUME BroadcasterTypeOK, NEW c \in Clients, Register(c)
  PROVE  BroadcasterTypeOK'
BY DEF Register, BroadcasterTypeOK

LEMMA CleanupTyped ==
  ASSUME BroadcasterTypeOK, NEW c \in Clients, Cleanup(c)
  PROVE  BroadcasterTypeOK'
BY Periods DEF Cleanup, BroadcasterTypeOK

\* A channel never holds more than its buffer: a full one drops the event.
LEMMA SendTyped ==
  ASSUME BroadcasterTypeOK, NEW s \in Senders, NEW c \in Clients, Send(s, c)
  PROVE  BroadcasterTypeOK'
<1>1. PICK e \in sending[s].events :
        ch' = [ch EXCEPT ![c] = IF Len(@) < BufferSize THEN Append(@, e) ELSE @]
  BY DEF Send
<1>2. e \in Events
  BY <1>1 DEF BroadcasterTypeOK
<1>3. /\ ch' \in [Clients -> Seq(Events)]
      /\ \A k \in Clients : Len(ch'[k]) <= BufferSize
  <2>1. ch[c] \in Seq(Events) /\ Append(ch[c], e) \in Seq(Events)
    BY <1>2 DEF BroadcasterTypeOK
  <2>2. Len(Append(ch[c], e)) = Len(ch[c]) + 1 /\ Len(ch[c]) \in Nat
    BY <2>1
  <2> QED
    BY <1>1, <2>1, <2>2, Periods DEF BroadcasterTypeOK
<1>4. sending' \in [Senders -> [to : SUBSET Clients, events : SUBSET Events]]
  BY DEF Send, BroadcasterTypeOK, NoCall, Call
<1> QED
  BY <1>3, <1>4 DEF Send, BroadcasterTypeOK

LEMMA ReceiveTyped ==
  ASSUME BroadcasterTypeOK, NEW c \in Clients, Receive(c)
  PROVE  BroadcasterTypeOK' /\ Head(ch[c]) \in Events
<1>1. ch[c] \in Seq(Events) /\ ch[c] # <<>> /\ Len(ch[c]) <= BufferSize
  BY DEF Receive, BroadcasterTypeOK
<1>2. /\ Tail(ch[c]) \in Seq(Events) /\ Head(ch[c]) \in Events
      /\ Len(Tail(ch[c])) = Len(ch[c]) - 1 /\ Len(ch[c]) \in Nat
  BY <1>1
<1> QED
  BY <1>1, <1>2, Periods DEF Receive, BroadcasterTypeOK

LEMMA BroadcasterKept ==
  BroadcasterTypeOK /\ UNCHANGED broadcasterVars => BroadcasterTypeOK'
BY DEF BroadcasterTypeOK, broadcasterVars

\* What a step leaves alone, and the two counters, keep their types.
LEMMA SourceKept == SourceTypeOK /\ UNCHANGED sourceVars => SourceTypeOK'
BY DEF SourceTypeOK, sourceVars, cancelVars

LEMMA BoundsKept == BoundsOK /\ UNCHANGED boundVars => BoundsOK'
BY DEF BoundsOK, boundVars

LEMMA FaultTyped ==
  ASSUME BoundsOK, NEW kind, FeedFault(kind), UNCHANGED returns PROVE BoundsOK'
BY Periods DEF FeedFault, BoundsOK

LEMMA ReturnTyped ==
  ASSUME BoundsOK, Return, UNCHANGED feedFaults PROVE BoundsOK'
BY Periods DEF Return, BoundsOK

\* A row that exists goes on existing.
LEMMA NoneVanishes ==
  ASSUME AttemptsInv, [LifecycleNext]_state, NEW j \in Jobs,
         state'[j].status = "absent"
  PROVE  state[j].status = "absent"
<1>1. state \in [Jobs -> JobState]
  BY InvByJob
<1>2. CASE UNCHANGED state
  BY <1>2
<1>3. ASSUME NEW k \in Jobs,
             \/ Submit(k) \/ Begin(k) \/ Complete(k) \/ Retry(k) \/ Exhaust(k)
             \/ Requeue(k) \/ Replay(k)
      PROVE  state[j].status = "absent"
  BY <1>1, <1>3 DEF Submit, Begin, Complete, Retry, Exhaust, Requeue, Replay, Moves
<1> QED
  BY <1>2, <1>3 DEF LifecycleNext

\* The rows, and the timestamps of those that exist.
LEMMA RowsTyped ==
  ASSUME FeedInv, [Next]_vars,
         \A j \in Jobs : state'[j].status = "absent" =>
           /\ age'[j] = age[j] \/ age'[j] = Old
           /\ j \in Withdrawn' => j \in Withdrawn
  PROVE  AttemptsInv' /\ AbsentIsOld'
<1>1. AttemptsInv'
  BY FeedStepLives, AttemptsNext DEF FeedInv
<1>2. AbsentIsOld'
  BY FeedStepLives, NoneVanishes DEF FeedInv, AbsentIsOld
<1> QED
  BY <1>1, <1>2

\* One lemma per action.
LEMMA AcceptTyped ==
  ASSUME FeedInv, NEW j \in Jobs, Accept(j) PROVE FeedInv'
<1>1. AttemptsInv' /\ AbsentIsOld'
  <2>1. [Next]_vars /\ UNCHANGED age /\ Withdrawn' \subseteq Withdrawn
    BY DEF Accept, Overwrite, Withdrawn, Next, JobStep
  <2> QED
    BY <2>1, RowsTyped
<1>2. BoundsOK'
  BY ReturnTyped, BoundsKept DEF Accept, FeedInv, boundVars
<1>3. SourceTypeOK'
  BY DEF Accept, Overwrite, FeedInv, SourceTypeOK
<1> QED
  BY <1>1, <1>2, <1>3, BroadcasterKept DEF Accept, FeedInv

LEMMA AnnounceTyped ==
  ASSUME FeedInv, NEW j \in Jobs, Announce(j) PROVE FeedInv'
<1>1. AttemptsInv' /\ AbsentIsOld'
  <2>1. [Next]_vars /\ UNCHANGED <<age, Withdrawn>>
    BY DEF Announce, cancelVars, Withdrawn, Next, JobStep
  <2> QED
    BY <2>1, RowsTyped
<1>2. BroadcasterTypeOK'
  BY BroadcastTyped, Broadcastable, FeedAssumption DEF Announce, FeedInv
<1>3. SourceTypeOK'
  BY DEF Announce, cancelVars, FeedInv, SourceTypeOK
<1> QED
  BY <1>1, <1>2, <1>3, BoundsKept DEF Announce, FeedInv

LEMMA TakeBackTyped ==
  ASSUME FeedInv, NEW j \in Jobs, TakeBack(j) PROVE FeedInv'
<1>1. AttemptsInv' /\ AbsentIsOld'
  <2>1. [Next]_vars /\ UNCHANGED age /\ Withdrawn' \subseteq Withdrawn
    BY DEF TakeBack, Overwrite, Withdrawn, Next, JobStep
  <2> QED
    BY <2>1, RowsTyped
<1>2. SourceTypeOK'
  BY DEF TakeBack, Overwrite, FeedInv, SourceTypeOK
<1> QED
  BY <1>1, <1>2, BroadcasterKept, ReturnTyped DEF TakeBack, FeedInv

LEMMA PromoteTyped ==
  ASSUME FeedInv, NEW j \in Jobs, Promote(j) PROVE FeedInv'
<1>1. AttemptsInv' /\ AbsentIsOld'
  <2>1. [Next]_vars /\ UNCHANGED age /\ Withdrawn' \subseteq Withdrawn
    BY DEF Promote, Overwrite, Withdrawn, Next, JobStep
  <2> QED
    BY <2>1, RowsTyped
<1>2. SourceTypeOK'
  BY DEF Promote, Overwrite, FeedInv, SourceTypeOK
<1> QED
  BY <1>1, <1>2, BroadcasterKept, BoundsKept DEF Promote, FeedInv

\* A row that is pending exists, so what is cancelled exists.
LEMMA CancelCheckTyped ==
  ASSUME FeedInv, NEW j \in Jobs, CancelCheck(j) PROVE FeedInv'
<1>1. AttemptsInv' /\ AbsentIsOld'
  <2>1. [Next]_vars /\ UNCHANGED <<state, age>> /\ Withdrawn' = Withdrawn \cup {j}
    BY DEF CancelCheck, Withdrawn, Next, JobStep
  <2>2. state[j].status # "absent"
    BY DEF CancelCheck, RowStatus
  <2> QED
    BY <2>1, <2>2, RowsTyped
<1>2. SourceTypeOK'
  BY DEF CancelCheck, FeedInv, SourceTypeOK
<1> QED
  BY <1>1, <1>2, BroadcasterKept, ReturnTyped DEF CancelCheck, FeedInv

\* The newest of two timestamps is one of them.
LEMMA DateTyped ==
  ASSUME age \in [Jobs -> 0 .. Old], NEW j \in Jobs, NEW stamp \in Nat, Date(j, stamp)
  PROVE  /\ age' \in [Jobs -> 0 .. Old]
         /\ \A i \in Jobs \ {j} : age'[i] = age[i]
<1>1. PICK newest \in {stamp, age[j]} :
        age' = [age EXCEPT ![j] = IF newest < Old THEN newest ELSE Old]
  BY DEF Date
<1>2. (IF newest < Old THEN newest ELSE Old) \in 0 .. Old
  BY Periods
<1> QED
  BY <1>1, <1>2

LEMMA CancelJobTyped ==
  ASSUME FeedInv, NEW j \in Jobs, CancelJob(j) PROVE FeedInv'
<1>1. PICK stamp \in 0 .. CommitDelay : Date(j, stamp)
  BY DEF CancelJob
<1>2. /\ age' \in [Jobs -> 0 .. Old]
      /\ \A i \in Jobs \ {j} : age'[i] = age[i]
  BY <1>1, Periods, DateTyped DEF FeedInv, SourceTypeOK
<1>3. AttemptsInv' /\ AbsentIsOld'
  <2>1. [Next]_vars /\ UNCHANGED state /\ Withdrawn' = Withdrawn \cup {j}
    BY DEF CancelJob, Withdrawn, Next, JobStep
  <2>2. state[j].status # "absent"
    BY DEF CancelJob, FeedInv, AbsentIsOld, Withdrawn
  <2> QED
    BY <1>2, <2>1, <2>2, RowsTyped
<1>4. SourceTypeOK'
  BY <1>2 DEF CancelJob, FeedInv, SourceTypeOK
<1> QED
  BY <1>3, <1>4, BroadcasterKept, BoundsKept DEF CancelJob, FeedInv

LEMMA StampTyped ==
  ASSUME FeedInv, NEW j \in Jobs, Stamp(j) PROVE FeedInv'
<1>1. AttemptsInv' /\ AbsentIsOld'
  <2>1. [Next]_vars /\ UNCHANGED <<age, Withdrawn>>
    BY DEF Stamp, cancelVars, Withdrawn, Next, JobStep
  <2> QED
    BY <2>1, RowsTyped
<1>2. SourceTypeOK'
  BY Periods DEF Stamp, cancelVars, FeedInv, SourceTypeOK, NoStamp
<1> QED
  BY <1>1, <1>2, BroadcasterKept, BoundsKept DEF Stamp, FeedInv

\* What is committed has a row, and a timestamp that is old at most.
LEMMA CommitTyped ==
  ASSUME FeedInv, NEW j \in Jobs, Commit(j) PROVE FeedInv'
<1>1. state[j].status # "absent"
  BY DEF Commit, Begin, Complete, Retry, Exhaust, Moves
<1>2. /\ age' \in [Jobs -> 0 .. Old]
      /\ \A i \in Jobs \ {j} : age'[i] = age[i]
  <2>1. stamped[j] \in 0 .. CommitDelay
    BY Periods DEF Commit, FeedInv, SourceTypeOK, NoStamp
  <2> QED
    BY <2>1, Periods, DateTyped DEF Commit, FeedInv, SourceTypeOK
<1>3. AttemptsInv' /\ AbsentIsOld'
  <2>1. [Next]_vars /\ Withdrawn' \subseteq Withdrawn
    BY DEF Commit, Overwrite, Withdrawn, Next, JobStep
  <2>2. state'[j].status # "absent"
    BY <1>1, <2>1, FeedStepLives, NoneVanishes DEF FeedInv
  <2> QED
    BY <1>2, <2>1, <2>2, RowsTyped
<1>4. SourceTypeOK'
  <2>1. stamped' \in [Jobs -> NoStamp .. CommitDelay]
    BY Periods DEF Commit, FeedInv, SourceTypeOK, NoStamp
  <2> QED
    BY <1>2, <2>1 DEF Commit, Overwrite, FeedInv, SourceTypeOK
<1> QED
  BY <1>3, <1>4, BroadcasterKept, BoundsKept DEF Commit, FeedInv

\* The poller and the page leave the rows alone, and all but a tick their ages.
LEMMA RestTyped ==
  ASSUME FeedInv, [Next]_vars, UNCHANGED <<state, age, cancelVars>>,
         BroadcasterTypeOK', SourceTypeOK', page' \in Page, BoundsOK'
  PROVE  FeedInv'
BY RowsTyped DEF FeedInv, cancelVars, Withdrawn

\* What a poll reports exists, is not pending, and so has an event.
LEMMA RowStatusTyped ==
  ASSUME FeedInv, NEW k \in Jobs
  PROVE  RowStatus(k) \in {"absent", "pending", "running", "completed", "failed", "dead"}
<1>1. state[k] \in JobState
  BY InvByJob DEF FeedInv
<1> QED
  BY <1>1 DEF JobState, RowStatus

LEMMA ReportedTyped == ASSUME FeedInv PROVE Reported \in SUBSET JobEvents
<1> SUFFICES ASSUME NEW k \in Jobs, age[k] <= Overlap, RowStatus(k) # "pending"
             PROVE  Event(k, RowStatus(k)) \in JobEvents
  BY DEF Reported
<1>1. RowStatus(k) # "absent"
  BY Periods DEF FeedInv, AbsentIsOld, RowStatus
<1> QED
  BY <1>1, RowStatusTyped DEF Event, JobEvents

\* Prompt lets no period pass over a write that is due to be committed.
LEMMA PollTyped == ASSUME FeedInv, Poll PROVE FeedInv'
<1>1. /\ age' = [j \in Jobs |-> IF age[j] < Old THEN age[j] + 1 ELSE Old]
      /\ stamped' = [j \in Jobs |-> IF stamped[j] = NoStamp THEN NoStamp
                                    ELSE stamped[j] + 1]
      /\ \A j \in Jobs : stamped[j] < CommitDelay
      /\ UNCHANGED <<state, broadcasterVars, cancelVars, announced, page, returns>>
  BY DEF Poll, Prompt
<1>2. /\ age \in [Jobs -> 0 .. Old] /\ stamped \in [Jobs -> NoStamp .. CommitDelay]
      /\ announced \in SUBSET Jobs
      /\ cancelled \in SUBSET Jobs /\ cancelling \in SUBSET Jobs
  BY DEF FeedInv, SourceTypeOK
<1>3. AttemptsInv' /\ AbsentIsOld'
  <2>1. [Next]_vars /\ UNCHANGED Withdrawn
    BY <1>1 DEF Next, cancelVars, Withdrawn
  <2>2. \A j \in Jobs : state[j].status = "absent" => age'[j] = Old
    BY <1>1, Periods DEF FeedInv, AbsentIsOld
  <2> QED
    BY <1>1, <2>1, <2>2, RowsTyped
<1>4. SourceTypeOK'
  <2>1. age' \in [Jobs -> 0 .. Old]
    BY <1>1, <1>2, Periods
  <2>2. stamped' \in [Jobs -> NoStamp .. CommitDelay]
    BY <1>1, <1>2, Periods DEF NoStamp
  <2>3. batch' \in SUBSET JobEvents
    BY ReportedTyped DEF Poll
  <2> QED
    BY <1>1, <1>2, <2>1, <2>2, <2>3 DEF SourceTypeOK, cancelVars
<1>5. BoundsOK'
  BY FaultTyped, BoundsKept DEF Poll, FeedInv, boundVars
<1> QED
  BY <1>1, <1>3, <1>4, <1>5, BroadcasterKept DEF FeedInv

LEMMA PollBroadcastTyped == ASSUME FeedInv, PollBroadcast PROVE FeedInv'
<1>1. PICK e \in batch : Broadcast(Poller, e) /\ batch' = batch \ {e}
  BY DEF PollBroadcast
<1>2. e \in Events
  BY <1>1, Broadcastable DEF FeedInv, SourceTypeOK
<1>3. BroadcasterTypeOK'
  BY <1>1, <1>2, BroadcastTyped, FeedAssumption DEF FeedInv
<1>4. SourceTypeOK'
  BY <1>1 DEF PollBroadcast, cancelVars, FeedInv, SourceTypeOK
<1> QED
  BY <1>3, <1>4, RestTyped, BoundsKept DEF PollBroadcast, FeedInv, Next

LEMMA StatsTickTyped == ASSUME FeedInv, StatsTick PROVE FeedInv'
<1>1. BroadcasterTypeOK'
  BY BroadcastTyped, Broadcastable, FeedAssumption DEF StatsTick, FeedInv
<1>2. BoundsOK'
  BY FaultTyped DEF StatsTick, FeedInv
<1> QED
  BY <1>1, <1>2, RestTyped, SourceKept DEF StatsTick, FeedInv, Next, sourceVars

LEMMA SendNextTyped == ASSUME FeedInv, SendNext PROVE FeedInv'
<1>1. BroadcasterTypeOK'
  BY SendTyped DEF SendNext, FeedInv
<1> QED
  BY <1>1, RestTyped, SourceKept, BoundsKept
     DEF SendNext, FeedInv, Next, feedVars, sourceVars

\* What the page reads and shows are statuses of rows.
LEMMA StatusesTyped == Nothing \in Statuses /\ (FeedInv => CurrentStatuses \in Statuses)
BY RowStatusTyped DEF Nothing, Statuses, CurrentStatuses

\* The page loads, loses its connection, or tries again: no other component
\* takes part.
LEMMA PageTyped ==
  ASSUME FeedInv, Load \/ ReadJobs \/ ShowJobs \/ Lose \/ Reconnect
  PROVE  FeedInv'
<1>1. page' \in Page
  <2>1. page \in Page
    BY DEF FeedInv
  <2>2. CASE Load
    BY <2>2, StatusesTyped DEF Load, Page
  <2>3. CASE ReadJobs
    BY <2>1, <2>3, StatusesTyped DEF ReadJobs, Page
  <2>4. CASE ShowJobs
    BY <2>1, <2>4, StatusesTyped DEF ShowJobs, Page
  <2>5. CASE Lose
    BY <2>1, <2>5 DEF Lose, Page
  <2>6. CASE Reconnect
    BY <2>1, <2>6 DEF Reconnect, Page
  <2> QED
    BY <2>2, <2>3, <2>4, <2>5, <2>6
<1>2. BoundsOK'
  BY FaultTyped, BoundsKept
     DEF FeedInv, Load, ReadJobs, ShowJobs, Lose, Reconnect, boundVars
<1>3. UNCHANGED <<state, broadcasterVars, sourceVars>>
  BY DEF Load, ReadJobs, ShowJobs, Lose, Reconnect
<1>4. [Next]_vars /\ UNCHANGED <<age, cancelVars>>
  BY <1>3 DEF Next, sourceVars
<1> QED
  BY <1>1, <1>2, <1>3, <1>4, RestTyped, BroadcasterKept, SourceKept DEF FeedInv

LEMMA ClientStepTyped ==
  ASSUME FeedInv, NEW c \in Clients, ClientStep(c) PROVE FeedInv'
<1>1. page \in Page
  BY DEF FeedInv
<1>2. BroadcasterTypeOK'
  BY RegisterTyped, CleanupTyped, ReceiveTyped
     DEF FeedInv, ClientStep, Connect, Retire, Stream
<1>3. page' \in Page
  <2>1. CASE Connect(c)
    BY <1>1, <2>1 DEF Connect, Page
  <2>2. CASE Retire(c)
    BY <1>1, <2>2 DEF Retire, feedVars
  <2>3. CASE Stream(c)
    <3> DEFINE event == Head(ch[c])
    <3>1. ASSUME event \in JobEvents
          PROVE  [page EXCEPT !.view[event.job] = event.status] \in Page
      BY <1>1, <3>1 DEF Page, Statuses, JobEvents
    <3> QED
      BY <1>1, <2>3, <3>1 DEF Stream
  <2> QED
    BY <2>1, <2>2, <2>3 DEF ClientStep
<1>4. UNCHANGED <<state, sourceVars, boundVars>>
  BY DEF ClientStep, Connect, Retire, Stream, feedVars
<1>5. [Next]_vars /\ UNCHANGED <<age, cancelVars>>
  BY <1>4 DEF Next, sourceVars
<1> QED
  BY <1>2, <1>3, <1>4, <1>5, RestTyped, SourceKept, BoundsKept DEF FeedInv

LEMMA FeedInit == Init => FeedInv
<1> SUFFICES ASSUME Init PROVE FeedInv
  OBVIOUS
<1>1. AttemptsInv /\ AbsentIsOld
  BY AttemptsInit DEF Init, AbsentIsOld, Withdrawn
<1>2. BroadcasterTypeOK
  BY Periods DEF Init, BroadcasterInit, BroadcasterTypeOK, NoCall, Call
<1>3. SourceTypeOK
  BY Periods DEF Init, SourceTypeOK, NoStamp
<1>4. page \in Page
  BY StatusesTyped DEF Init, Page
<1>5. BoundsOK
  BY Periods DEF Init, BoundsOK
<1> QED
  BY <1>1, <1>2, <1>3, <1>4, <1>5 DEF FeedInv

LEMMA FeedNext == FeedInv /\ [Next]_vars => FeedInv'
<1> SUFFICES ASSUME FeedInv, [Next]_vars PROVE FeedInv'
  OBVIOUS
<1>1. ASSUME NEW j \in Jobs, JobStep(j) PROVE FeedInv'
  BY <1>1, AcceptTyped, AnnounceTyped, TakeBackTyped, PromoteTyped, StampTyped,
     CommitTyped, CancelCheckTyped, CancelJobTyped
     DEF JobStep
<1>2. CASE UNCHANGED vars
  BY <1>2, RestTyped, BroadcasterKept, SourceKept, BoundsKept
     DEF FeedInv, vars, feedVars, sourceVars
<1> QED
  BY <1>1, <1>2, PollTyped, PollBroadcastTyped, StatsTickTyped, SendNextTyped,
     PageTyped, ClientStepTyped DEF Next

\* The feed keeps its types: no channel of sse.go ever holds more than its
\* buffer, no closed channel belongs to a client in the map, and the poller
\* broadcasts only events that the page understands (BroadcastJobUpdates leaves
\* out a status that has none).
THEOREM FeedTypeCorrectness == Spec => []FeedTypeOK
<1>1. FeedInv => FeedTypeOK
  BY DEF FeedInv, FeedTypeOK, SourceTypeOK, BoundsOK, AttemptsInv
<1> QED
  BY <1>1, FeedInit, FeedNext, PTL DEF Spec
=============================================================================
