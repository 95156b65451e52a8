---------------------------- MODULE JobLifecycle ----------------------------
(***************************************************************************)
(* What the task queue promises of the life of a job, as the README and    *)
(* the statuses of internal/queue/job.go draw it:                          *)
(*                                                                         *)
(*   pending -> running -> completed                                       *)
(*                      -> pending again, with one more attempt            *)
(*                      -> dead, when the last attempt has failed          *)
(*                                                                         *)
(* with two ways back: a job whose worker is gone is requeued, and a dead  *)
(* job can be replayed.  There are no stores, threads or messages here.    *)
(***************************************************************************)
EXTENDS Integers

CONSTANTS
  Jobs,    \* the jobs there may be
  Limits   \* the limits of attempts a job may be submitted with

ASSUME LimitsAssumption == \A limit \in Limits : limit \in Int

VARIABLE state   \* for each job its status, its attempts and their limit

JobState ==
  [status   : {"absent", "pending", "running", "completed", "dead"},
   attempts : Nat,
   limit    : Limits \cup {0}]

LifecycleTypeOK == state \in [Jobs -> JobState]

Unborn == [status |-> "absent", attempts |-> 0, limit |-> 0]

LifecycleInit == state = [j \in Jobs |-> Unborn]

\* Job j goes from the status "from" to the status "to".
Moves(j, from, to, attempts) ==
  /\ state[j].status = from
  /\ state' = [state EXCEPT ![j] = [status |-> to, attempts |-> attempts,
                                    limit |-> @.limit]]

Submit(j) ==
  /\ state[j].status = "absent"
  /\ \E limit \in Limits :
       state' = [state EXCEPT ![j] = [status |-> "pending", attempts |-> 0,
                                      limit |-> limit]]

Begin(j) == Moves(j, "pending", "running", state[j].attempts)

Complete(j) == Moves(j, "running", "completed", state[j].attempts)

Retry(j) ==
  /\ state[j].attempts + 1 < state[j].limit
  /\ Moves(j, "running", "pending", state[j].attempts + 1)

Exhaust(j) ==
  /\ state[j].attempts + 1 >= state[j].limit
  /\ Moves(j, "running", "dead", state[j].attempts + 1)

Requeue(j) == Moves(j, "running", "pending", state[j].attempts)

Replay(j) == Moves(j, "dead", "pending", 0)

LifecycleNext ==
  \E j \in Jobs :
    \/ Submit(j) \/ Begin(j) \/ Complete(j) \/ Retry(j) \/ Exhaust(j)
    \/ Requeue(j) \/ Replay(j)

LifecycleSpec == LifecycleInit /\ [][LifecycleNext]_state

-----------------------------------------------------------------------------
\* No job fails more often than its limit allows, and a dead job has used up
\* every attempt it had.
AttemptsBounded ==
  \A j \in Jobs :
    /\ state[j].limit >= 1 => state[j].attempts <= state[j].limit
    /\ state[j].status = "dead" => state[j].attempts >= state[j].limit

\* A job that can still fail has an attempt left: what makes AttemptsBounded
\* inductive.
UnsettledHasAttempt ==
  \A j \in Jobs :
    state[j].status \in {"pending", "running"} /\ state[j].limit >= 1
      => state[j].attempts < state[j].limit
=============================================================================
