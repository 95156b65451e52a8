------------------------- MODULE JobLifecycleProofs -------------------------
(***************************************************************************)
(* Theorems about JobLifecycle, for any jobs and any limits.               *)
(***************************************************************************)
EXTENDS JobLifecycle, TLAPS

USE LimitsAssumption

AttemptsInv == LifecycleTypeOK /\ AttemptsBounded /\ UnsettledHasAttempt

\* What the invariant says of one job.
JobInv(s) ==
  /\ s.limit >= 1 => s.attempts <= s.limit
  /\ s.status = "dead" => s.attempts >= s.limit
  /\ s.status \in {"pending", "running"} /\ s.limit >= 1 => s.attempts < s.limit

LEMMA InvByJob ==
  AttemptsInv <=> /\ state \in [Jobs -> JobState]
                  /\ \A j \in Jobs : JobInv(state[j])
BY DEF AttemptsInv, LifecycleTypeOK, AttemptsBounded, UnsettledHasAttempt, JobInv

LEMMA AttemptsInit == LifecycleInit => AttemptsInv
<1>1. Unborn \in JobState /\ JobInv(Unborn)
  BY DEF Unborn, JobState, JobInv
<1> QED
  BY <1>1, InvByJob DEF LifecycleInit

\* A step that gives one job a state that satisfies the invariant keeps it.
LEMMA OneJob ==
  ASSUME AttemptsInv, NEW j \in Jobs, NEW s \in JobState, JobInv(s),
         state' = [state EXCEPT ![j] = s]
  PROVE  AttemptsInv'
<1>1. state \in [Jobs -> JobState] /\ \A k \in Jobs : JobInv(state[k])
  BY InvByJob
<1>2. state' \in [Jobs -> JobState] /\ \A k \in Jobs : JobInv(state'[k])
  BY <1>1
<1> QED
  BY <1>2 DEF AttemptsInv, LifecycleTypeOK, AttemptsBounded, UnsettledHasAttempt, JobInv

\* A move whose new attempts fit the new status.
LEMMA OneMove ==
  ASSUME AttemptsInv, NEW j \in Jobs, NEW from,
         NEW to \in {"pending", "running", "completed", "dead"}, NEW n \in Nat,
         Moves(j, from, to, n),
         LET limit == state[j].limit IN
         /\ limit >= 1 => n <= limit
         /\ to = "dead" => n >= limit
         /\ to \in {"pending", "running"} /\ limit >= 1 => n < limit
  PROVE  AttemptsInv'
<1> DEFINE s == [status |-> to, attempts |-> n, limit |-> state[j].limit]
<1>1. state \in [Jobs -> JobState]
  BY InvByJob
<1>2. s \in JobState /\ JobInv(s)
  BY <1>1 DEF JobState, JobInv
<1>3. state' = [state EXCEPT ![j] = s]
  BY <1>1 DEF Moves
<1> HIDE DEF s
<1> QED
  BY <1>2, <1>3, OneJob

LEMMA AttemptsNext == AttemptsInv /\ [LifecycleNext]_state => AttemptsInv'
<1> SUFFICES ASSUME AttemptsInv, [LifecycleNext]_state PROVE AttemptsInv'
  OBVIOUS
<1>1. CASE UNCHANGED state
  BY <1>1 DEF AttemptsInv, LifecycleTypeOK, AttemptsBounded, UnsettledHasAttempt
<1>2. ASSUME NEW j \in Jobs,
             \/ Submit(j) \/ Begin(j) \/ Complete(j) \/ Retry(j) \/ Exhaust(j)
             \/ Requeue(j) \/ Replay(j)
      PROVE  AttemptsInv'
  <2>0. /\ state[j].attempts \in Nat /\ state[j].limit \in Int
        /\ JobInv(state[j])
    <3>1. state[j] \in JobState /\ JobInv(state[j])
      BY InvByJob
    <3>2. state[j].attempts \in Nat /\ state[j].limit \in Limits \cup {0}
      BY <3>1 DEF JobState
    <3> QED
      BY <3>1, <3>2
  <2>1. CASE Submit(j)
    <3>1. PICK limit \in Limits :
            state' = [state EXCEPT ![j] = [status |-> "pending", attempts |-> 0,
                                           limit |-> limit]]
      BY <2>1 DEF Submit
    <3> DEFINE s == [status |-> "pending", attempts |-> 0, limit |-> limit]
    <3>2. s \in JobState /\ JobInv(s)
      BY DEF JobState, JobInv
    <3> HIDE DEF s
    <3> QED
      BY <3>1, <3>2, OneJob DEF s
  <2>2. CASE Begin(j)
    BY <2>0, <2>2, OneMove DEF Begin, Moves, JobInv
  <2>3. CASE Complete(j)
    BY <2>0, <2>3, OneMove DEF Complete, Moves, JobInv
  <2>4. CASE Retry(j)
    <3>1. Moves(j, "running", "pending", state[j].attempts + 1)
      BY <2>4 DEF Retry
    <3>2. state[j].status = "running" /\ state[j].attempts + 1 \in Nat
      BY <2>0, <3>1 DEF Moves
    <3>3. state[j].limit >= 1 => state[j].attempts + 1 <= state[j].limit
      BY <2>0, <3>2 DEF JobInv
    <3>4. state[j].attempts + 1 < state[j].limit
      BY <2>4 DEF Retry
    <3> QED
      BY <3>1, <3>2, <3>3, <3>4, OneMove
  <2>5. CASE Exhaust(j)
    <3>1. Moves(j, "running", "dead", state[j].attempts + 1)
      BY <2>5 DEF Exhaust
    <3>2. state[j].status = "running" /\ state[j].attempts + 1 \in Nat
      BY <2>0, <3>1 DEF Moves
    <3>3. state[j].limit >= 1 => state[j].attempts + 1 <= state[j].limit
      BY <2>0, <3>2 DEF JobInv
    <3>4. state[j].attempts + 1 >= state[j].limit
      BY <2>5 DEF Exhaust
    <3> QED
      BY <3>1, <3>2, <3>3, <3>4, OneMove
  <2>6. CASE Requeue(j)
    BY <2>0, <2>6, OneMove DEF Requeue, Moves, JobInv
  <2>7. CASE Replay(j)
    BY <2>0, <2>7, OneMove DEF Replay, JobInv
  <2> QED
    BY <1>2, <2>1, <2>2, <2>3, <2>4, <2>5, <2>6, <2>7
<1> QED
  BY <1>1, <1>2 DEF LifecycleNext

\* No job fails more often than its limit allows, and a dead job has used up
\* every attempt: what Queue.ScheduleRetry and Queue.ReplayDeadJob keep as
\* long as their steps are those of JobLifecycle (run crash_recovery).
THEOREM AttemptsAreBounded == LifecycleSpec => []AttemptsBounded
<1>1. AttemptsInv => AttemptsBounded
  BY DEF AttemptsInv
<1> QED
  BY <1>1, AttemptsInit, AttemptsNext, PTL DEF LifecycleSpec

=============================================================================
