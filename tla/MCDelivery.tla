----------------------------- MODULE MCDelivery -----------------------------
(***************************************************************************)
(* The instances of Delivery that TLC checks.  A .cfg chooses the faults,  *)
(* the requests, the operations and the number of threads.                 *)
(***************************************************************************)
EXTENDS Delivery, TLC

CONSTANTS qDefault, qCritical

MCQueues == {qDefault, qCritical}
MCWorkerQueues == <<qDefault, qCritical>>
OneQueue == {qDefault}
OneWorkerQueue == <<qDefault>>

Body(queue, priority, delay, attempts) ==
  [queue |-> queue, priority |-> priority, delay_seconds |-> delay,
   max_attempts |-> attempts]

\* A job of the default queue that may fail once.
Plain == Body(NoQueue, 0, 0, 2)
\* A job that dies at its first failure.
Fragile == Body(NoQueue, 0, 0, 1)
\* A prioritised job that may fail twice (max_attempts left out).
Urgent == Body(qDefault, 5, 0, 0)
\* A prioritised job of another queue, put off.
Later == Body(qCritical, 1, 60, 1)

\* A job whose max_attempts is negative: nothing refuses it.
Negative == Body(NoQueue, 0, 0, -1)

\* An order of two jobs (enqueueOrder: another queue for each but the last
\* two, priority 0, max_attempts left out); the bound on attempts is 2 here.
TwoPlain == {<<Plain, Plain>>}
NoOrders == {}

PlainAndUrgent == {Plain, Urgent}
PlainOnly == {Plain}
PlainOrPutOff == {Plain, [Plain EXCEPT !.delay_seconds = 60]}
FragileOnly == {Fragile}
AllBodies == {Plain, Fragile, Urgent, Later, Negative}

Interchangeable == Permutations(Jobs) \cup Permutations(Workers)
=============================================================================
