--------------------------- MODULE DeliveryProofs ---------------------------
(***************************************************************************)
(* The duty to run a job is in one place at most, for every value of the   *)
(* constants: any number of workers, goroutines, jobs, queues and clients, *)
(* and any number of crashes, stops and failing calls.  Two things must    *)
(* hold, and the runs ReplayRace and NoJobLost show what happens when they *)
(* do not:                                                                 *)
(*                                                                         *)
(*   OrderlyFaults  no handler outlives the stuck timeout, no startup pass *)
(*                  outlives the first tick, ZREM does not fail and redis  *)
(*                  commands are not sent twice;                           *)
(*   ReplaysApart   no two requests replay one job at the same time.       *)
(***************************************************************************)
EXTENDS TaskQueueProofs

OrderlyFaults ==
  FaultKinds \cap {"overrun", "slow_startup", "zrem_error", "resent"} = {}

Replaying(c, j) == cl[c].pc = "replay" /\ cl[c].job = j

ReplaysApart ==
  \A j \in Jobs : \A c, d \in Clients : Replaying(c, j) /\ Replaying(d, j) => c = d

-----------------------------------------------------------------------------
(* The places of Delivery, with one place for a list instead of one for    *)
(* each of its positions: a pop shifts the positions.                      *)

InList(q, j) == \E i \in DOMAIN lists[q] : lists[q][i] = j

Places(j) ==
  {<<"list", q>> : q \in {k \in Queues : InList(k, j)}}
    \cup {<<"prio", q>> : q \in {k \in Queues : j \in prio[k]}}
    \cup {<<"delayed", k>> : k \in {n \in {j} : delayed[n] # "no"}}
    \cup {<<"goroutine", g>> : g \in {h \in Goroutines : HoldsGoroutine(h, j)}}
    \cup {<<"thread", t>> : t \in {u \in Threads : HoldsThread(u, j)}}
    \cup {<<"client", c>> : c \in {d \in Clients : HoldsClient(d, j)}}

Nowhere == <<"nowhere", NoJob>>

(* Where the places of a job are. *)
LEMMA PlaceKinds ==
  ASSUME NEW j, NEW p \in Places(j)
  PROVE  \/ \E q \in Queues : p = <<"list", q>> /\ InList(q, j)
         \/ \E q \in Queues : p = <<"prio", q>> /\ j \in prio[q]
         \/ p = <<"delayed", j>> /\ delayed[j] # "no"
         \/ \E g \in Goroutines : p = <<"goroutine", g>> /\ HoldsGoroutine(g, j)
         \/ \E t \in Threads : p = <<"thread", t>> /\ HoldsThread(t, j)
         \/ \E c \in Clients : p = <<"client", c>> /\ HoldsClient(c, j)
  BY DEF Places

(* Whoever has the id of a job is a place of it. *)
LEMMA PlaceOf ==
  ASSUME NEW j
  PROVE  /\ \A q \in Queues : InList(q, j) => <<"list", q>> \in Places(j)
         /\ \A q \in Queues : j \in prio[q] => <<"prio", q>> \in Places(j)
         /\ delayed[j] # "no" => <<"delayed", j>> \in Places(j)
         /\ \A g \in Goroutines : HoldsGoroutine(g, j) => <<"goroutine", g>> \in Places(j)
         /\ \A t \in Threads : HoldsThread(t, j) => <<"thread", t>> \in Places(j)
         /\ \A c \in Clients : HoldsClient(c, j) => <<"client", c>> \in Places(j)
  BY DEF Places

(* The same of the next state. *)
LEMMA PlaceKindsNext ==
  ASSUME NEW j, NEW p \in Places(j)'
  PROVE  \/ \E q \in Queues : p = <<"list", q>> /\ InList(q, j)'
         \/ \E q \in Queues : p = <<"prio", q>> /\ j \in prio'[q]
         \/ p = <<"delayed", j>> /\ delayed'[j] # "no"
         \/ \E g \in Goroutines : p = <<"goroutine", g>> /\ HoldsGoroutine(g, j)'
         \/ \E t \in Threads : p = <<"thread", t>> /\ HoldsThread(t, j)'
         \/ \E c \in Clients : p = <<"client", c>> /\ HoldsClient(c, j)'
  BY DEF Places

(* The kinds of places are told apart. *)
LEMMA PlacesDiffer ==
  ASSUME NEW j, NEW x, NEW y
  PROVE  /\ <<"list", x>> \notin {<<"prio", y>>, <<"delayed", y>>, <<"goroutine", y>>,
                                  <<"thread", y>>, <<"client", y>>}
         /\ <<"prio", x>> \notin {<<"delayed", y>>, <<"goroutine", y>>,
                                  <<"thread", y>>, <<"client", y>>}
         /\ <<"delayed", x>> \notin {<<"goroutine", y>>, <<"thread", y>>, <<"client", y>>}
         /\ <<"goroutine", x>> \notin {<<"thread", y>>, <<"client", y>>}
         /\ <<"thread", x>> # <<"client", y>>
         /\ Nowhere \notin Places(j)
         /\ Nowhere \notin Places(j)'
  BY DEF Nowhere, Places

-----------------------------------------------------------------------------
(* What a step gives to a place.                                           *)

\* No key of redis takes job j, unless it is the target.
RedisTakes(j, target) ==
  /\ \A q \in Queues : InList(q, j)' => InList(q, j) \/ target = <<"list", q>>
  /\ \A q \in Queues : j \in prio'[q] => j \in prio[q] \/ target = <<"prio", q>>
  /\ delayed'[j] # "no" => delayed[j] # "no" \/ target = <<"delayed", j>>

GoroutinesTake(j, target) ==
  \A g \in Goroutines :
    HoldsGoroutine(g, j)' => HoldsGoroutine(g, j) \/ target = <<"goroutine", g>>

ThreadsTake(j, target) ==
  \A t \in Threads :
    HoldsThread(t, j)' => HoldsThread(t, j) \/ target = <<"thread", t>>

ClientsTake(j, target) ==
  \A c \in Clients :
    HoldsClient(c, j)' => HoldsClient(c, j) \/ target = <<"client", c>>

OnlyTakes(j, target) ==
  /\ RedisTakes(j, target) /\ GoroutinesTake(j, target)
  /\ ThreadsTake(j, target) /\ ClientsTake(j, target)

(* If nothing but the target takes a job, the target is its only new place. *)
LEMMA NewPlace ==
  ASSUME NEW j, NEW target, OnlyTakes(j, target)
  PROVE  Places(j)' \subseteq Places(j) \cup {target}
<1> SUFFICES ASSUME NEW p \in Places(j)', p # target
             PROVE  p \in Places(j)
  OBVIOUS
<1>1. CASE \E q \in Queues : p = <<"list", q>> /\ InList(q, j)'
  BY <1>1, PlaceOf DEF OnlyTakes, RedisTakes
<1>2. CASE \E q \in Queues : p = <<"prio", q>> /\ j \in prio'[q]
  BY <1>2, PlaceOf DEF OnlyTakes, RedisTakes
<1>3. CASE p = <<"delayed", j>> /\ delayed'[j] # "no"
  BY <1>3, PlaceOf DEF OnlyTakes, RedisTakes
<1>4. CASE \E g \in Goroutines : p = <<"goroutine", g>> /\ HoldsGoroutine(g, j)'
  BY <1>4, PlaceOf DEF OnlyTakes, GoroutinesTake
<1>5. CASE \E t \in Threads : p = <<"thread", t>> /\ HoldsThread(t, j)'
  BY <1>5, PlaceOf DEF OnlyTakes, ThreadsTake
<1>6. CASE \E c \in Clients : p = <<"client", c>> /\ HoldsClient(c, j)'
  BY <1>6, PlaceOf DEF OnlyTakes, ClientsTake
<1> QED
  BY <1>1, <1>2, <1>3, <1>4, <1>5, <1>6, PlaceKindsNext

(* If nothing takes it, it has no new place. *)
LEMMA NoNewPlace ==
  ASSUME NEW j, OnlyTakes(j, Nowhere)
  PROVE  Places(j)' \subseteq Places(j)
  BY NewPlace, PlacesDiffer

(* What is left alone takes nothing. *)
LEMMA UnchangedTakes ==
  ASSUME NEW j, NEW target
  PROVE  /\ UNCHANGED redisVars => RedisTakes(j, target)
         /\ UNCHANGED gor => GoroutinesTake(j, target)
         /\ UNCHANGED schedulerVars => ThreadsTake(j, target)
         /\ UNCHANGED cl => ClientsTake(j, target)
  BY DEF redisVars, schedulerVars, RedisTakes, GoroutinesTake, ThreadsTake, ClientsTake,
         InList, HoldsGoroutine, HoldsThread, HoldsClient

-----------------------------------------------------------------------------
(* The inductive invariant.  A thread owns the jobs that it has still to   *)
(* reset or to push, also when the server is stopping and it will push     *)
(* none of them.                                                           *)

Owns(t, j) == sch[t].pc \in {"reset", "push"} /\ j \in sch[t].batch \cup {sch[t].job}

Removing(j) == sch["loop"].pc = "zrem" /\ j \in sch["loop"].batch

OnePlace(j) == \A p, r \in Places(j) : p = r

SettledHasNone(j) == Settled(j) => Places(j) = {}

\* A running job is at the goroutine that executes it, or nowhere; once its
\* row is old it is at the thread that recovers it, or nowhere.
RunningPlace(j) ==
  jobs[j].status = "running" =>
    \A p \in Places(j) :
      IF jobs[j].started_at = "old"
      THEN \E t \in Threads : p = <<"thread", t>> /\ sch[t].mode = "recover"
      ELSE \E g \in Goroutines : p = <<"goroutine", g>> /\ gor[g].pc = "exec"

\* A job that a thread owns is nowhere else, except that it stays in the
\* delayed set when the server was stopped before ZREM.  Its row has been
\* reset when it is pushed.
OwnedPlace(j) ==
  \A t \in Threads :
    Owns(t, j) => /\ jobs[j].status \in {"pending", "running", "failed"}
                  /\ sch[t].job = j => jobs[j].status # "running"
                  /\ Places(j) \subseteq {<<"thread", t>>, <<"delayed", j>>}

ReplayedHasNone(j) ==
  \A c \in Clients :
    Replaying(c, j) => /\ Places(j) = {}
                       /\ jobs[j].status \in {"dead", "failed"}
                       /\ \A t \in Threads : ~Owns(t, j)

RemovedWaits(j) == Removing(j) => delayed[j] # "no"

JobInv(j) ==
  /\ OnePlace(j) /\ SettledHasNone(j) /\ RunningPlace(j)
  /\ OwnedPlace(j) /\ ReplayedHasNone(j) /\ RemovedWaits(j)

NoRepeats ==
  \A q \in Queues : \A i, k \in DOMAIN lists[q] : lists[q][i] = lists[q][k] => i = k

\* The two threads never recover at the same time, and a thread has nothing
\* more to do with the job it pushes.
ThreadsApart ==
  /\ sch["loop"].mode = "recover" => sch["startup"].pc = "exited"
  /\ sch["startup"].pc # "exited" => sch["startup"].mode = "recover"
  /\ \A t \in Threads : sch[t].job \notin sch[t].batch

Delivered == (\A j \in Jobs : JobInv(j)) /\ NoRepeats /\ ThreadsApart

-----------------------------------------------------------------------------
(* A step that leaves a job alone keeps what the invariant says of it.     *)

RowLeaves(j) ==
  jobs'[j].status = jobs[j].status /\ jobs'[j].started_at = jobs[j].started_at

RedisLeaves(j) ==
  RedisTakes(j, Nowhere) /\ (delayed[j] # "no" => delayed'[j] # "no")

GoroutinesLeave(j) ==
  /\ GoroutinesTake(j, Nowhere)
  /\ \A g \in Goroutines : HoldsGoroutine(g, j)' /\ gor[g].pc = "exec" => gor'[g].pc = "exec"

\* Thread t owns job j after a step only as it did before.
StillOwns(t, j) ==
  Owns(t, j)' => /\ Owns(t, j) /\ sch'[t].mode = sch[t].mode
                 /\ sch'[t].job = j => sch[t].job = j

ThreadsLeave(j) ==
  /\ ThreadsTake(j, Nowhere)
  /\ \A t \in Threads : StillOwns(t, j)
  /\ Removing(j)' => Removing(j)

ClientsLeave(j) ==
  ClientsTake(j, Nowhere) /\ \A c \in Clients : Replaying(c, j)' => Replaying(c, j)

(* What no step touches is left alone. *)
LEMMA UnchangedLeaves ==
  ASSUME NEW j
  PROVE  /\ UNCHANGED jobs => RowLeaves(j)
         /\ UNCHANGED redisVars => RedisLeaves(j)
         /\ UNCHANGED gor => GoroutinesLeave(j)
         /\ UNCHANGED sch => \A t \in Threads : StillOwns(t, j)
         /\ UNCHANGED sch => (Removing(j)' => Removing(j))
         /\ UNCHANGED schedulerVars => ThreadsLeave(j)
         /\ UNCHANGED cl => ClientsLeave(j)
<1>1. UNCHANGED jobs => RowLeaves(j)
  BY DEF RowLeaves
<1>2. UNCHANGED redisVars => RedisLeaves(j)
  BY UnchangedTakes DEF RedisLeaves, redisVars
<1>3. UNCHANGED gor => GoroutinesLeave(j)
  BY UnchangedTakes DEF GoroutinesLeave
<1>4. UNCHANGED sch => \A t \in Threads : StillOwns(t, j)
  BY DEF StillOwns, Owns
<1>5. UNCHANGED sch => (Removing(j)' => Removing(j))
  BY DEF Removing
<1>6. UNCHANGED schedulerVars => ThreadsLeave(j)
  BY <1>4, <1>5, UnchangedTakes DEF ThreadsLeave, schedulerVars
<1>7. UNCHANGED cl => ClientsLeave(j)
  BY UnchangedTakes DEF ClientsLeave, Replaying
<1> QED
  BY <1>1, <1>2, <1>3, <1>4, <1>5, <1>6, <1>7

(* A job that no place takes, but that a thread may be about to remove. *)
LEMMA Untaken ==
  ASSUME NEW j \in Jobs, JobInv(j), RowLeaves(j), RedisTakes(j, Nowhere),
         GoroutinesLeave(j), ThreadsTake(j, Nowhere),
         \A t \in Threads : StillOwns(t, j),
         ClientsLeave(j), RemovedWaits(j)'
  PROVE  JobInv(j)'
<1>1. Places(j)' \subseteq Places(j)
  BY NoNewPlace DEF OnlyTakes, GoroutinesLeave, ClientsLeave
<1>2. OnePlace(j)' /\ SettledHasNone(j)'
  BY <1>1 DEF JobInv, OnePlace, SettledHasNone, Settled, RowLeaves
<1>3. RunningPlace(j)'
  <2> SUFFICES ASSUME jobs'[j].status = "running", NEW p \in Places(j)'
               PROVE  IF jobs'[j].started_at = "old"
                      THEN \E t \in Threads : p = <<"thread", t>> /\ sch'[t].mode = "recover"
                      ELSE \E g \in Goroutines : p = <<"goroutine", g>> /\ gor'[g].pc = "exec"
    BY DEF RunningPlace
  <2>1. p \in Places(j) /\ jobs[j].status = "running"
    BY <1>1 DEF RowLeaves
  <2>2. CASE jobs'[j].started_at = "old"
    <3>1. PICK t \in Threads : p = <<"thread", t>> /\ sch[t].mode = "recover"
      BY <2>1, <2>2 DEF JobInv, RunningPlace, RowLeaves
    <3>2. HoldsThread(t, j)'
      BY <3>1, PlaceKindsNext, PlacesDiffer
    <3>3. Owns(t, j)'
      BY <3>2 DEF HoldsThread, Owns
    <3> QED
      BY <2>2, <3>1, <3>3 DEF StillOwns
  <2>3. CASE jobs'[j].started_at # "old"
    <3>1. PICK g \in Goroutines : p = <<"goroutine", g>> /\ gor[g].pc = "exec"
      BY <2>1, <2>3 DEF JobInv, RunningPlace, RowLeaves
    <3>2. HoldsGoroutine(g, j)'
      BY <3>1, PlaceKindsNext, PlacesDiffer
    <3> QED
      BY <2>3, <3>1, <3>2 DEF GoroutinesLeave
  <2> QED
    BY <2>2, <2>3
<1>4. OwnedPlace(j)'
  BY <1>1 DEF JobInv, OwnedPlace, StillOwns, RowLeaves
<1>5. ReplayedHasNone(j)'
  BY <1>1 DEF JobInv, ReplayedHasNone, StillOwns, ClientsLeave, RowLeaves
<1> QED
  BY <1>2, <1>3, <1>4, <1>5 DEF JobInv

(* A job that every part of the system leaves alone. *)
LEMMA Undisturbed ==
  ASSUME NEW j \in Jobs, JobInv(j), RowLeaves(j), RedisLeaves(j), GoroutinesLeave(j),
         ThreadsLeave(j), ClientsLeave(j)
  PROVE  JobInv(j)'
<1>1. RemovedWaits(j)'
  BY DEF JobInv, RemovedWaits, ThreadsLeave, RedisLeaves
<1> QED
  BY <1>1, Untaken DEF RedisLeaves, ThreadsLeave

-----------------------------------------------------------------------------
(* What it means to be the place of a job.                                 *)

(* A place of a job excludes every other, and whoever could make another. *)
LEMMA Alone ==
  ASSUME NEW j \in Jobs, JobInv(j), NEW p \in Places(j)
  PROVE  /\ Places(j) = {p}
         /\ ~Settled(j)
         /\ \A c \in Clients : ~Replaying(c, j)
         /\ \A t \in Threads : Owns(t, j) => p \in {<<"thread", t>>, <<"delayed", j>>}
         /\ Removing(j) => p = <<"delayed", j>>
  BY PlaceOf
     DEF JobInv, OnePlace, SettledHasNone, ReplayedHasNone, OwnedPlace, RemovedWaits

(* No key of redis has a job whose place is not there. *)
LEMMA NotInRedis ==
  ASSUME NEW j \in Jobs, NEW p, Places(j) \subseteq {p},
         \A q \in Queues : p # <<"list", q>> /\ p # <<"prio", q>>,
         p # <<"delayed", j>>
  PROVE  /\ \A q \in Queues : ~InList(q, j) /\ j \notin prio[q]
         /\ delayed[j] = "no"
  BY PlaceOf

(* A goroutine that holds a job. *)
LEMMA GoroutineAlone ==
  ASSUME NEW j \in Jobs, JobInv(j), NEW g \in Goroutines, HoldsGoroutine(g, j)
  PROVE  /\ Places(j) = {<<"goroutine", g>>}
         /\ ~Settled(j)
         /\ \A q \in Queues : ~InList(q, j) /\ j \notin prio[q]
         /\ delayed[j] = "no"
         /\ \A h \in Goroutines : HoldsGoroutine(h, j) => h = g
         /\ \A t \in Threads : ~Owns(t, j)
         /\ \A c \in Clients : ~Replaying(c, j) /\ ~HoldsClient(c, j)
         /\ ~Removing(j)
         /\ jobs[j].status = "running" => gor[g].pc = "exec" /\ jobs[j].started_at # "old"
<1>1. <<"goroutine", g>> \in Places(j)
  BY PlaceOf
<1>2. /\ Places(j) = {<<"goroutine", g>>} /\ ~Settled(j)
      /\ \A t \in Threads : ~Owns(t, j)
      /\ \A c \in Clients : ~Replaying(c, j)
      /\ ~Removing(j)
  BY <1>1, Alone, PlacesDiffer
<1>3. /\ \A q \in Queues : ~InList(q, j) /\ j \notin prio[q]
      /\ delayed[j] = "no"
  BY <1>2, NotInRedis, PlacesDiffer
<1>4. /\ \A h \in Goroutines : HoldsGoroutine(h, j) => h = g
      /\ \A c \in Clients : ~HoldsClient(c, j)
  BY <1>2, PlaceOf, PlacesDiffer
<1>5. ASSUME jobs[j].status = "running"
      PROVE  gor[g].pc = "exec" /\ jobs[j].started_at # "old"
  BY <1>1, <1>5, PlacesDiffer DEF JobInv, RunningPlace
<1> QED
  BY <1>2, <1>3, <1>4, <1>5

(* A request that holds a job. *)
LEMMA ClientAlone ==
  ASSUME NEW j \in Jobs, JobInv(j), NEW c \in Clients, HoldsClient(c, j)
  PROVE  /\ Places(j) = {<<"client", c>>}
         /\ ~Settled(j) /\ jobs[j].status # "running"
         /\ \A q \in Queues : ~InList(q, j) /\ j \notin prio[q]
         /\ delayed[j] = "no"
         /\ \A g \in Goroutines : ~HoldsGoroutine(g, j)
         /\ \A t \in Threads : ~Owns(t, j)
         /\ \A d \in Clients : ~Replaying(d, j) /\ (HoldsClient(d, j) => d = c)
         /\ ~Removing(j)
<1>1. <<"client", c>> \in Places(j)
  BY PlaceOf
<1>2. /\ Places(j) = {<<"client", c>>} /\ ~Settled(j)
      /\ \A t \in Threads : ~Owns(t, j)
      /\ \A d \in Clients : ~Replaying(d, j)
      /\ ~Removing(j)
  BY <1>1, Alone, PlacesDiffer
<1>3. /\ \A q \in Queues : ~InList(q, j) /\ j \notin prio[q]
      /\ delayed[j] = "no"
  BY <1>2, NotInRedis, PlacesDiffer
<1>4. /\ \A g \in Goroutines : ~HoldsGoroutine(g, j)
      /\ \A d \in Clients : HoldsClient(d, j) => d = c
  BY <1>2, PlaceOf, PlacesDiffer
<1>5. jobs[j].status # "running"
  BY <1>1, PlacesDiffer DEF JobInv, RunningPlace
<1> QED
  BY <1>2, <1>3, <1>4, <1>5

(* A thread of a server that is up and that owns a job. *)
LEMMA ThreadAlone ==
  ASSUME NEW j \in Jobs, JobInv(j), NEW t \in Threads, Owns(t, j), server = "up"
  PROVE  /\ Places(j) = {<<"thread", t>>}
         /\ \A q \in Queues : ~InList(q, j) /\ j \notin prio[q]
         /\ delayed[j] = "no"
         /\ \A g \in Goroutines : ~HoldsGoroutine(g, j)
         /\ \A u \in Threads : Owns(u, j) => u = t
         /\ \A c \in Clients : ~Replaying(c, j) /\ ~HoldsClient(c, j)
         /\ ~Removing(j)
<1>1. <<"thread", t>> \in Places(j)
  BY PlaceOf DEF Owns, HoldsThread
<1>2. /\ Places(j) = {<<"thread", t>>}
      /\ \A u \in Threads : Owns(u, j) => u = t
      /\ \A c \in Clients : ~Replaying(c, j)
      /\ ~Removing(j)
  BY <1>1, Alone, PlacesDiffer
<1>3. /\ \A q \in Queues : ~InList(q, j) /\ j \notin prio[q]
      /\ delayed[j] = "no"
  BY <1>2, NotInRedis, PlacesDiffer
<1>4. /\ \A g \in Goroutines : ~HoldsGoroutine(g, j)
      /\ \A c \in Clients : ~HoldsClient(c, j)
  BY <1>2, PlaceOf, PlacesDiffer
<1> QED
  BY <1>2, <1>3, <1>4

(* A key of redis that has a job which no thread is about to remove. *)
LEMMA RedisAlone ==
  ASSUME NEW j \in Jobs, JobInv(j), NEW q \in Queues,
         NEW p \in {<<"list", q>>, <<"prio", q>>}, p \in Places(j)
  PROVE  /\ Places(j) = {p}
         /\ ~Settled(j) /\ jobs[j].status # "running"
         /\ \A t \in Threads : ~Owns(t, j)
         /\ \A c \in Clients : ~Replaying(c, j)
         /\ ~Removing(j)
<1>1. /\ Places(j) = {p} /\ ~Settled(j)
      /\ \A t \in Threads : ~Owns(t, j)
      /\ \A c \in Clients : ~Replaying(c, j)
      /\ ~Removing(j)
  BY Alone, PlacesDiffer
<1>2. jobs[j].status # "running"
  BY PlacesDiffer DEF JobInv, RunningPlace
<1> QED
  BY <1>1, <1>2

(* A job that has at most one place after a step, that nobody owns, removes *)
(* or replays.                                                              *)
LEMMA Moved ==
  ASSUME NEW j \in Jobs, NEW target, Places(j)' \subseteq {target},
         Settled(j)' => Places(j)' = {},
         RunningPlace(j)',
         \A t \in Threads : ~Owns(t, j)',
         \A c \in Clients : ~Replaying(c, j)',
         ~Removing(j)'
  PROVE  JobInv(j)'
  BY DEF JobInv, OnePlace, SettledHasNone, OwnedPlace, ReplayedHasNone, RemovedWaits

-----------------------------------------------------------------------------
(* What the calls do to the places.                                        *)

(* The four faults that are excluded do not happen. *)
LEMMA NoDisorder ==
  ASSUME OrderlyFaults
  PROVE  /\ ~Fault("overrun") /\ ~Fault("slow_startup")
         /\ ~Fault("zrem_error") /\ ~Fault("resent")
  BY DEF OrderlyFaults, Fault

(* A push puts the job in one place and leaves the other jobs alone. *)
LEMMA PushTakes ==
  ASSUME RowsTypeOK, RedisTypeOK, NEW k \in Jobs, PushToRedis(k)
  PROVE  /\ \E q \in Queues : \E target :
              /\ target \in {<<"list", q>>, <<"prio", q>>}
              /\ RedisTakes(k, target)
         /\ \A j \in Jobs \ {k} : RedisLeaves(j)
         /\ delayed' = delayed
<1> DEFINE home == jobs[k].queue
<1>0. home \in Queues
  BY DEF RowsTypeOK, JobRow
<1>1. delayed' = delayed
  BY DEF PushToRedis, Enqueue, EnqueuePriority
<1>2. CASE EnqueuePriority(home, k)
  <2>1. lists' = lists /\ prio' = [prio EXCEPT ![home] = @ \cup {k}]
    BY <1>2 DEF EnqueuePriority
  <2>2. RedisTakes(k, <<"prio", home>>)
    BY <1>0, <1>1, <2>1 DEF RedisTakes, RedisTypeOK, InList
  <2>3. ASSUME NEW j \in Jobs \ {k} PROVE RedisLeaves(j)
    BY <1>0, <1>1, <2>1 DEF RedisLeaves, RedisTakes, RedisTypeOK, InList
  <2> QED
    BY <1>0, <1>1, <2>2, <2>3
<1>3. CASE Enqueue(home, k)
  <2>1. prio' = prio /\ lists' = [lists EXCEPT ![home] = Append(@, k)]
    BY <1>3 DEF Enqueue
  <2>2. ASSUME NEW j \in Jobs, NEW q \in Queues, InList(q, j)'
        PROVE  InList(q, j) \/ (j = k /\ q = home)
    <3>0. lists[q] \in Seq(Jobs)
      BY DEF RedisTypeOK
    <3>1. PICK i \in DOMAIN lists'[q] : lists'[q][i] = j
      BY <2>2 DEF InList
    <3>2. CASE q = home
      <4>1. lists'[q] = Append(lists[q], k)
        BY <2>1, <3>2 DEF RedisTypeOK
      <4>2. CASE i \in DOMAIN lists[q]
        BY <3>0, <3>1, <4>1, <4>2 DEF InList
      <4>3. CASE i \notin DOMAIN lists[q]
        BY <3>0, <3>1, <3>2, <4>1, <4>3
      <4> QED
        BY <4>2, <4>3
    <3>3. CASE q # home
      BY <2>1, <3>1, <3>3 DEF InList, RedisTypeOK
    <3> QED
      BY <3>2, <3>3
  <2>3. RedisTakes(k, <<"list", home>>)
    BY <1>1, <2>1, <2>2 DEF RedisTakes
  <2>4. ASSUME NEW j \in Jobs \ {k} PROVE RedisLeaves(j)
    BY <1>1, <2>1, <2>2 DEF RedisLeaves, RedisTakes
  <2> QED
    BY <1>0, <1>1, <2>3, <2>4
<1> QED
  BY <1>2, <1>3 DEF PushToRedis

(* A push of a job that is in no list repeats none. *)
LEMMA PushRepeatsNone ==
  ASSUME RowsTypeOK, RedisTypeOK, NoRepeats, NEW k \in Jobs, PushToRedis(k),
         \A q \in Queues : ~InList(q, k)
  PROVE  NoRepeats'
<1> DEFINE home == jobs[k].queue
<1>0. home \in Queues
  BY DEF RowsTypeOK, JobRow
<1>1. CASE EnqueuePriority(home, k)
  BY <1>1 DEF EnqueuePriority, NoRepeats
<1>2. CASE Enqueue(home, k)
  <2>1. lists' = [lists EXCEPT ![home] = Append(@, k)]
    BY <1>2 DEF Enqueue
  <2>2. ASSUME NEW q \in Queues, NEW i \in DOMAIN lists'[q], NEW n \in DOMAIN lists'[q],
               lists'[q][i] = lists'[q][n]
        PROVE  i = n
    <3>0. lists[q] \in Seq(Jobs)
      BY DEF RedisTypeOK
    <3>1. CASE q = home
      <4>1. lists'[q] = Append(lists[q], k)
        BY <2>1, <3>1 DEF RedisTypeOK
      <4>2. \A m \in DOMAIN lists[q] : lists[q][m] # k
        BY <1>0, <3>1 DEF InList
      <4>3. CASE i \in DOMAIN lists[q] /\ n \in DOMAIN lists[q]
        BY <2>2, <3>0, <4>1, <4>3 DEF NoRepeats
      <4>4. CASE i \notin DOMAIN lists[q] \/ n \notin DOMAIN lists[q]
        BY <2>2, <3>0, <4>1, <4>2, <4>4
      <4> QED
        BY <4>3, <4>4
    <3>2. CASE q # home
      BY <2>1, <2>2, <3>2 DEF NoRepeats, RedisTypeOK
    <3> QED
      BY <3>1, <3>2
  <2> QED
    BY <2>2 DEF NoRepeats
<1> QED
  BY <1>1, <1>2 DEF PushToRedis

(* EnqueueDelayed, and the calls on the dead letter list. *)
LEMMA DelayTakes ==
  ASSUME RedisTypeOK, NEW k \in Jobs, EnqueueDelayed(k)
  PROVE  /\ RedisTakes(k, <<"delayed", k>>)
         /\ \A j \in Jobs \ {k} : RedisLeaves(j)
         /\ lists' = lists
  BY DEF EnqueueDelayed, RedisTakes, RedisLeaves, RedisTypeOK, InList

(* The dead letter list has no duty to run anything. *)
LEMMA DeadListTakes ==
  ASSUME NEW k, EnqueueDead(k) \/ RemoveFromDead(k) \/ UNCHANGED redisVars
  PROVE  lists' = lists /\ \A j \in Jobs : RedisLeaves(j)
  BY DEF EnqueueDead, RemoveFromDead, redisVars, RedisTakes, RedisLeaves, InList

(* A list that is not written, or one that was popped, repeats no id. *)
LEMMA PopRepeatsNone ==
  ASSUME RedisTypeOK, NoRepeats,
         \A q \in Queues :
           lists'[q] = lists[q] \/ (lists[q] # <<>> /\ lists'[q] = Tail(lists[q]))
  PROVE  NoRepeats'
<1>1. ASSUME NEW q \in Queues, NEW i \in DOMAIN lists'[q], NEW n \in DOMAIN lists'[q],
             lists'[q][i] = lists'[q][n]
      PROVE  i = n
  <2>0. lists[q] \in Seq(Jobs)
    BY DEF RedisTypeOK
  <2>1. CASE lists'[q] = lists[q]
    BY <1>1, <2>1 DEF NoRepeats
  <2>2. CASE lists[q] # <<>> /\ lists'[q] = Tail(lists[q])
    <3>1. /\ i + 1 \in DOMAIN lists[q] /\ lists'[q][i] = lists[q][i + 1]
          /\ n + 1 \in DOMAIN lists[q] /\ lists'[q][n] = lists[q][n + 1]
          /\ i \in Int /\ n \in Int
      BY <1>1, <2>0, <2>2
    <3>2. i + 1 = n + 1
      BY <1>1, <3>1 DEF NoRepeats
    <3> QED
      BY <3>1, <3>2
  <2> QED
    BY <2>1, <2>2
<1> QED
  BY <1>1 DEF NoRepeats

(* What is in a list after a pop was there before. *)
LEMMA TailTakes ==
  ASSUME RedisTypeOK,
         \A q \in Queues :
           lists'[q] = lists[q] \/ (lists[q] # <<>> /\ lists'[q] = Tail(lists[q])),
         NEW j, NEW r \in Queues, InList(r, j)'
  PROVE  InList(r, j)
<1>0. lists[r] \in Seq(Jobs)
  BY DEF RedisTypeOK
<1>1. PICK n \in DOMAIN lists'[r] : lists'[r][n] = j
  BY DEF InList
<1>2. CASE lists'[r] = lists[r]
  BY <1>1, <1>2 DEF InList
<1>3. CASE lists[r] # <<>> /\ lists'[r] = Tail(lists[r])
  <2>1. n + 1 \in DOMAIN lists[r] /\ lists[r][n + 1] = j
    BY <1>0, <1>1, <1>3
  <2> QED
    BY <2>1 DEF InList
<1> QED
  BY <1>2, <1>3

(* A list that no step writes repeats no id. *)
LEMMA ListsRepeatNone ==
  ASSUME NoRepeats, lists' = lists PROVE NoRepeats'
  BY DEF NoRepeats

(* A goroutine that goes to another state. *)
LEMMA GoTakes ==
  ASSUME WorkerTypeOK, NEW g \in Goroutines, NEW state, Go(g, state), NEW j \in Jobs
  PROVE  /\ GoroutinesTake(j, <<"goroutine", g>>)
         /\ (\/ state.job # j
             \/ state.pc \notin {"load", "mark", "exec", "delay"}
             \/ HoldsGoroutine(g, j) /\ gor[g].pc # "exec") => GoroutinesLeave(j)
         /\ (state.job # j \/ state.pc \notin {"load", "mark", "exec", "delay"})
               => ~HoldsGoroutine(g, j)'
<1>1. gor'[g] = state /\ \A h \in Goroutines \ {g} : gor'[h] = gor[h]
  BY DEF Go, WorkerTypeOK
<1> QED
  BY <1>1 DEF GoroutinesTake, GoroutinesLeave, HoldsGoroutine

-----------------------------------------------------------------------------
(* The steps of the goroutines.                                            *)

(* The goroutines that have no job, the one that loads a job and the one   *)
(* that buries a dead one leave the places as they are.                    *)
LEMMA QuietGoroutine ==
  ASSUME TypeOK, Delivered, NEW g \in Goroutines, UNCHANGED <<schedulerVars, apiVars>>,
         StopLoop(g) \/ PopTimeout(g) \/ LoadJob(g) \/ BuryJob(g)
  PROVE  Delivered'
<1>0. WorkerTypeOK
  BY DEF TypeOK
<1>1. UNCHANGED jobs /\ lists' = lists
  BY DeadListTakes
     DEF StopLoop, PopTimeout, LoadJob, BuryJob, storeVars, redisVars
<1>2. ASSUME NEW j \in Jobs PROVE JobInv(j)'
  <2>1. RedisLeaves(j)
    BY DeadListTakes
       DEF StopLoop, PopTimeout, LoadJob, BuryJob, storeVars, redisVars
  <2>2. GoroutinesLeave(j)
    <3>1. CASE Go(g, LoopTop) \/ Go(g, Exited)
      BY <1>0, <3>1, GoTakes, IdleStates
    <3>2. CASE gor' = gor
      BY <3>2, UnchangedLeaves
    <3>3. CASE LoadJob(g)
      <4> DEFINE next == At("mark", 1, gor[g].job, jobs[gor[g].job].attempts)
      <4>1. next.pc = "mark" /\ next.job = gor[g].job
        BY DEF At
      <4>2. gor[g].pc = "load"
        BY <3>3 DEF LoadJob
      <4>3. CASE Go(g, next)
        <5> HIDE DEF next
        <5>1. next.job # j \/ (HoldsGoroutine(g, j) /\ gor[g].pc # "exec")
          BY <4>1, <4>2 DEF HoldsGoroutine
        <5> QED
          BY <1>0, <4>3, <5>1, GoTakes
      <4> QED
        BY <3>1, <3>3, <4>3 DEF LoadJob
    <3> QED
      BY <3>1, <3>2, <3>3 DEF StopLoop, PopTimeout, BuryJob
  <2> QED
    BY <1>1, <2>1, <2>2, UnchangedLeaves, Undisturbed DEF Delivered, apiVars
<1> QED
  BY <1>1, <1>2, ListsRepeatNone DEF Delivered, ThreadsApart, schedulerVars

(* ZPOPMAX and BRPOP hand a job from a key of redis to a goroutine. *)
LEMMA PopMoves ==
  ASSUME TypeOK, Delivered, NEW g \in Goroutines,
         UNCHANGED <<jobs, schedulerVars, apiVars>>,
         NEW k \in Jobs, NEW q \in Queues, NEW p \in {<<"list", q>>, <<"prio", q>>},
         p \in Places(k), p \notin Places(k)',
         \A j \in Jobs : RedisLeaves(j),
         Go(g, At("load", 1, k, 0))
  PROVE  \A j \in Jobs : JobInv(j)'
<1> DEFINE popped == At("load", 1, k, 0)
<1>1. popped.pc = "load" /\ popped.job = k
  BY DEF At
<1>2. Go(g, popped)
  OBVIOUS
<1> HIDE DEF popped
<1>3. WorkerTypeOK
  BY DEF TypeOK
<1>4. ASSUME NEW j \in Jobs, j # k PROVE JobInv(j)'
  <2>1. GoroutinesLeave(j)
    BY <1>1, <1>2, <1>3, <1>4, GoTakes
  <2> QED
    BY <2>1, UnchangedLeaves, Undisturbed DEF Delivered, apiVars
<1>5. JobInv(k)'
  <2>1. JobInv(k)
    BY DEF Delivered
  <2>2. /\ Places(k) = {p} /\ ~Settled(k) /\ jobs[k].status # "running"
        /\ \A t \in Threads : ~Owns(t, k)
        /\ \A c \in Clients : ~Replaying(c, k)
        /\ ~Removing(k)
    BY <2>1, RedisAlone
  <2>3. OnlyTakes(k, <<"goroutine", g>>)
    <3>1. RedisTakes(k, <<"goroutine", g>>)
      BY DEF RedisLeaves, RedisTakes, Nowhere
    <3> QED
      BY <1>2, <1>3, <3>1, GoTakes, UnchangedTakes DEF OnlyTakes, apiVars
  <2>4. Places(k)' \subseteq {<<"goroutine", g>>}
    BY <2>2, <2>3, NewPlace
  <2>5. /\ ~Settled(k)' /\ jobs'[k].status # "running"
        /\ \A t \in Threads : ~Owns(t, k)'
        /\ \A c \in Clients : ~Replaying(c, k)'
        /\ ~Removing(k)'
    BY <2>2, UnchangedLeaves
       DEF Settled, ThreadsLeave, StillOwns, ClientsLeave, apiVars
  <2> QED
    BY <2>4, <2>5, Moved DEF RunningPlace
<1> QED
  BY <1>4, <1>5

(* ZPOPMAX of Dequeue: the id goes from a priority queue to the goroutine. *)
LEMMA PollDelivers ==
  ASSUME TypeOK, Delivered, NEW g \in Goroutines, UNCHANGED <<schedulerVars, apiVars>>,
         PollPriority(g)
  PROVE  Delivered'
<1>0. WorkerTypeOK /\ RedisTypeOK
  BY StoresParts DEF TypeOK
<1> DEFINE q == WorkerQueues[gor[g].idx]
<1>1. q \in Queues
  BY <1>0, WorkerAssumption DEF WorkerTypeOK
<1>2. /\ UNCHANGED <<jobs, lists, delayed>>
      /\ \/ \E k \in HighestPriority(q) :
              /\ prio' = [prio EXCEPT ![q] = @ \ {k}]
              /\ Go(g, At("load", 1, k, 0)) \/ NextQueue(g)
         \/ NextQueue(g) /\ prio' = prio
  BY DEF PollPriority
<1> HIDE DEF q
<1>3. NoRepeats' /\ ThreadsApart'
  BY <1>2, ListsRepeatNone DEF Delivered, ThreadsApart, schedulerVars
<1>4. \A j \in Jobs : RedisLeaves(j)
  BY <1>0, <1>1, <1>2 DEF RedisLeaves, RedisTakes, RedisTypeOK, InList
<1>5. CASE NextQueue(g)
  <2>1. PICK state : Go(g, state) /\ state.job = NoJob
    BY <1>5 DEF NextQueue, At
  <2>2. ASSUME NEW j \in Jobs PROVE JobInv(j)'
    <3>1. state.job # j
      BY <2>1, StoresAssumption
    <3>2. GoroutinesLeave(j)
      BY <1>0, <2>1, <3>1, GoTakes
    <3> QED
      BY <1>2, <1>4, <3>2, UnchangedLeaves, Undisturbed DEF Delivered, apiVars
  <2> QED
    BY <1>3, <2>2 DEF Delivered
<1>6. CASE \E k \in HighestPriority(q) :
             /\ prio' = [prio EXCEPT ![q] = @ \ {k}]
             /\ Go(g, At("load", 1, k, 0))
  <2>1. PICK k \in HighestPriority(q) :
             /\ prio' = [prio EXCEPT ![q] = @ \ {k}]
             /\ Go(g, At("load", 1, k, 0))
    BY <1>6
  <2>2. k \in Jobs /\ k \in prio[q] /\ k \notin prio'[q]
    BY <1>0, <1>1, <2>1 DEF HighestPriority, RedisTypeOK
  <2>3. <<"prio", q>> \in Places(k)
    BY <1>1, <2>2, PlaceOf
  <2>4. <<"prio", q>> \notin Places(k)'
    BY <2>2, PlaceKindsNext, PlacesDiffer
  <2> QED
    BY <1>1, <1>2, <1>3, <1>4, <2>1, <2>2, <2>3, <2>4, PopMoves DEF Delivered
<1> QED
  BY <1>2, <1>5, <1>6

(* BRPOP of Dequeue: the id goes from a list to the goroutine. *)
LEMMA BlockingPopDelivers ==
  ASSUME TypeOK, Delivered, NEW g \in Goroutines, UNCHANGED <<schedulerVars, apiVars>>,
         BlockingPop(g)
  PROVE  Delivered'
<1>0. WorkerTypeOK /\ RedisTypeOK
  BY StoresParts DEF TypeOK
<1>1. PICK i \in DOMAIN WorkerQueues :
        /\ FirstNonEmpty(i)
        /\ lists' = [lists EXCEPT ![WorkerQueues[i]] = Tail(@)]
        /\ \/ Go(g, At("load", 1, Head(lists[WorkerQueues[i]]), 0))
           \/ Go(g, LoopTop)
  BY DEF BlockingPop
<1> DEFINE q == WorkerQueues[i]
<1>2. q \in Queues
  BY WorkerAssumption
<1>3. lists[q] \in Seq(Jobs) /\ lists[q] # <<>>
  BY <1>0, <1>1, <1>2 DEF FirstNonEmpty, RedisTypeOK
<1>4. PICK k \in Jobs : 1 \in DOMAIN lists[q] /\ k = lists[q][1] /\ k = Head(lists[q])
  BY <1>3
<1>5. \A r \in Queues : \/ lists'[r] = lists[r]
                        \/ lists[r] # <<>> /\ lists'[r] = Tail(lists[r])
  BY <1>0, <1>1, <1>2, <1>3 DEF RedisTypeOK
<1>6. lists'[q] = Tail(lists[q])
  BY <1>0, <1>1, <1>2 DEF RedisTypeOK
<1>7. UNCHANGED <<jobs, prio, delayed>>
  BY DEF BlockingPop
<1>8. Go(g, At("load", 1, k, 0)) \/ Go(g, LoopTop)
  BY <1>1, <1>4
<1> HIDE DEF q
<1>9. NoRepeats' /\ ThreadsApart'
  BY <1>0, <1>5, PopRepeatsNone DEF Delivered, ThreadsApart, schedulerVars
<1>10. ASSUME NEW j \in Jobs PROVE RedisLeaves(j)
  <2> QED
    BY <1>0, <1>5, <1>7, TailTakes DEF RedisLeaves, RedisTakes
<1>11. CASE Go(g, LoopTop)
  <2>1. ASSUME NEW j \in Jobs PROVE GoroutinesLeave(j)
    BY <1>0, <1>11, GoTakes, IdleStates
  <2>2. ASSUME NEW j \in Jobs PROVE JobInv(j)'
    BY <1>7, <1>10, <2>1, UnchangedLeaves, Undisturbed DEF Delivered, apiVars
  <2> QED
    BY <1>9, <2>2 DEF Delivered
<1>12. CASE Go(g, At("load", 1, k, 0))
  <2>1. <<"list", q>> \in Places(k)
    BY <1>2, <1>4, PlaceOf DEF InList
  <2>2. ~InList(q, k)'
    <3> SUFFICES ASSUME NEW n \in DOMAIN lists'[q], lists'[q][n] = k
                 PROVE  FALSE
      BY DEF InList
    <3>1. n + 1 \in DOMAIN lists[q] /\ lists[q][n + 1] = k /\ n + 1 # 1
      BY <1>3, <1>6
    <3> QED
      BY <1>2, <1>4, <3>1 DEF Delivered, NoRepeats
  <2>3. <<"list", q>> \notin Places(k)'
    BY <2>2, PlaceKindsNext, PlacesDiffer
  <2> QED
    BY <1>2, <1>4, <1>7, <1>9, <1>10, <1>12, <2>1, <2>3, PopMoves DEF Delivered
<1> QED
  BY <1>8, <1>11, <1>12

(* A goroutine that writes the row of its job and goes on, or gives the    *)
(* job up.                                                                 *)
LEMMA OutcomeMoves ==
  ASSUME TypeOK, Delivered, NEW g \in Goroutines,
         UNCHANGED <<schedulerVars, apiVars, redisVars>>,
         NEW k \in Jobs, HoldsGoroutine(g, k),
         \A j \in Jobs \ {k} : jobs'[j] = jobs[j],
         NEW state, Go(g, state), state.job \in {k, NoJob},
         \/ ~HoldsGoroutine(g, k)'
         \/ /\ ~Settled(k)'
            /\ jobs'[k].status = "running" => state.pc = "exec" /\ jobs'[k].started_at # "old"
  PROVE  Delivered'
<1>0. WorkerTypeOK
  BY DEF TypeOK
<1>1. ASSUME NEW j \in Jobs \ {k} PROVE JobInv(j)'
  <2>1. state.job # j
    BY StoresAssumption
  <2>2. GoroutinesLeave(j)
    BY <1>0, <2>1, GoTakes
  <2>3. RowLeaves(j)
    BY DEF RowLeaves
  <2> QED
    BY <2>2, <2>3, UnchangedLeaves, Undisturbed DEF Delivered, apiVars
<1>2. JobInv(k)'
  <2>1. /\ Places(k) = {<<"goroutine", g>>}
        /\ \A t \in Threads : ~Owns(t, k)
        /\ \A c \in Clients : ~Replaying(c, k)
        /\ ~Removing(k)
    BY GoroutineAlone DEF Delivered
  <2>2. OnlyTakes(k, <<"goroutine", g>>)
    BY <1>0, GoTakes, UnchangedTakes DEF OnlyTakes, apiVars
  <2>3. Places(k)' \subseteq {<<"goroutine", g>>}
    BY <2>1, <2>2, NewPlace
  <2>4. ~HoldsGoroutine(g, k)' => Places(k)' = {}
    BY <2>3, PlaceKindsNext, PlacesDiffer
  <2>5. gor'[g] = state
    BY <1>0 DEF Go, WorkerTypeOK
  <2>6. (Settled(k)' => Places(k)' = {}) /\ RunningPlace(k)'
    BY <2>3, <2>4, <2>5 DEF RunningPlace
  <2>7. /\ \A t \in Threads : ~Owns(t, k)'
        /\ \A c \in Clients : ~Replaying(c, k)'
        /\ ~Removing(k)'
    BY <2>1, UnchangedLeaves DEF ThreadsLeave, StillOwns, ClientsLeave, apiVars
  <2> QED
    BY <2>3, <2>6, <2>7, Moved
<1>3. NoRepeats' /\ ThreadsApart'
  BY ListsRepeatNone DEF Delivered, ThreadsApart, schedulerVars, redisVars
<1> QED
  BY <1>1, <1>2, <1>3 DEF Delivered

(* What a write of a row, done or failed, leaves in the table. *)
LEMMA RowAfter ==
  ASSUME RowsTypeOK, NEW k \in Jobs, NEW row, WriteRow(k, row) \/ FailedWrite(k, row)
  PROVE  /\ jobs'[k] \in {row, jobs[k]}
         /\ WriteRow(k, row) => jobs'[k] = row
         /\ \A j \in Jobs \ {k} : jobs'[j] = jobs[j]
  BY DEF RowsTypeOK, WriteRow, FailedWrite

(* The outcome of the handler, and the write before it. *)
LEMMA OutcomeDelivers ==
  ASSUME TypeOK, Delivered, NEW g \in Goroutines, UNCHANGED <<schedulerVars, apiVars>>,
         MarkRunning(g) \/ CompleteJob(g) \/ FailJob(g)
  PROVE  Delivered'
<1>0. WorkerTypeOK /\ RowsTypeOK
  BY StoresParts DEF TypeOK
<1>1. PICK k \in Jobs : k = gor[g].job
  BY <1>0, HeldRows DEF MarkRunning, CompleteJob, FailJob
<1>2. HoldsGoroutine(g, k) /\ gor[g].pc \in {"mark", "exec"}
  BY <1>1 DEF MarkRunning, CompleteJob, FailJob, HoldsGoroutine
<1>3. jobs[k] \in JobRow
  BY <1>0 DEF RowsTypeOK
<1>4. UNCHANGED redisVars
  BY DEF MarkRunning, CompleteJob, FailJob
<1>5. \A j \in Jobs \ {k} : jobs'[j] = jobs[j]
  BY <1>0, <1>1, RowAfter DEF MarkRunning, CompleteJob, FailJob
<1>6. CASE Go(g, LoopTop)
  <2>1. ~HoldsGoroutine(g, k)'
    BY <1>0, <1>6, GoTakes, IdleStates
  <2> QED
    BY <1>2, <1>4, <1>5, <1>6, <2>1, IdleStates, OutcomeMoves
<1>7. ASSUME NEW pc \in {"exec", "delay", "bury"}, Go(g, [gor[g] EXCEPT !.pc = pc]),
             \/ pc = "bury"
             \/ /\ ~Settled(k)'
                /\ jobs'[k].status = "running" => pc = "exec" /\ jobs'[k].started_at # "old"
      PROVE  Delivered'
  <2>1. PICK state : state = [gor[g] EXCEPT !.pc = pc]
    OBVIOUS
  <2>2. state.pc = pc /\ state.job = k
    BY <1>0, <1>1, <2>1 DEF WorkerTypeOK, GoroutineState
  <2>3. Go(g, state)
    BY <1>7, <2>1
  <2>4. pc = "bury" => ~HoldsGoroutine(g, k)'
    BY <1>0, <2>2, <2>3, GoTakes
  <2> QED
    BY <1>2, <1>4, <1>5, <1>7, <2>2, <2>3, <2>4, OutcomeMoves
<1>8. CASE MarkRunning(g) /\ ~Go(g, LoopTop)
  <2>1. WriteRow(k, RunningRow(g)) /\ Go(g, [gor[g] EXCEPT !.pc = "exec"])
    BY <1>1, <1>8 DEF MarkRunning
  <2>2. jobs'[k] = RunningRow(g)
    BY <1>0, <2>1, RowAfter
  <2>3. jobs'[k].status = "running" /\ jobs'[k].started_at = "recent"
    BY <1>1, <1>3, <2>2 DEF RunningRow, JobRow
  <2> QED
    BY <1>7, <2>1, <2>3 DEF Settled
<1>9. CASE FailJob(g) /\ ~Go(g, LoopTop)
  <2> DEFINE status == IF Exhausted(g) THEN "dead" ELSE "pending"
             next == IF Exhausted(g) THEN "bury" ELSE "delay"
  <2>1. WriteRow(k, FailedRow(g, status)) /\ Go(g, [gor[g] EXCEPT !.pc = next])
    BY <1>1, <1>9 DEF FailJob
  <2>2. jobs'[k] = FailedRow(g, status)
    BY <1>0, <2>1, RowAfter
  <2>3. jobs'[k].status = status
    BY <1>1, <1>3, <2>2 DEF FailedRow, JobRow
  <2>4. CASE Exhausted(g)
    BY <1>7, <2>1, <2>4
  <2>5. CASE ~Exhausted(g)
    BY <1>7, <2>1, <2>3, <2>5 DEF Settled
  <2> QED
    BY <2>4, <2>5
<1> QED
  BY <1>6, <1>8, <1>9 DEF CompleteJob

(* A job that a call of redis takes from the thread that made it. *)
LEMMA PlacedInRedis ==
  ASSUME NEW k \in Jobs, JobInv(k), NEW source, Places(k) = {source},
         NEW target, Places(k)' \subseteq {source, target}, source \notin Places(k)',
         ~Settled(k), jobs[k].status # "running", UNCHANGED jobs,
         \A t \in Threads : ~Owns(t, k)',
         \A c \in Clients : ~Replaying(c, k)',
         ~Removing(k)'
  PROVE  JobInv(k)'
<1>1. Places(k)' \subseteq {target}
  OBVIOUS
<1>2. ~Settled(k)' /\ RunningPlace(k)'
  BY DEF Settled, RunningPlace
<1> QED
  BY <1>1, <1>2, Moved

(* ScheduleRetry hands the job to the delayed set, or loses it. *)
LEMMA DelayRetryDelivers ==
  ASSUME TypeOK, Delivered, OrderlyFaults, NEW g \in Goroutines,
         UNCHANGED <<schedulerVars, apiVars>>, DelayRetry(g)
  PROVE  Delivered'
<1>0. WorkerTypeOK /\ RowsTypeOK /\ RedisTypeOK
  BY StoresParts DEF TypeOK
<1>1. PICK k \in Jobs : k = gor[g].job
  BY <1>0, HeldRows DEF DelayRetry
<1>2. HoldsGoroutine(g, k) /\ gor[g].pc = "delay"
  BY <1>1 DEF DelayRetry, HoldsGoroutine
<1>3. Go(g, LoopTop) /\ UNCHANGED jobs
  BY NoDisorder DEF DelayRetry
<1>4. ~HoldsGoroutine(g, k)'
  BY <1>0, <1>3, GoTakes, IdleStates
<1>5. CASE UNCHANGED redisVars
  BY <1>2, <1>3, <1>4, <1>5, OutcomeMoves, IdleStates
<1>6. CASE EnqueueDelayed(k)
  <2>1. /\ RedisTakes(k, <<"delayed", k>>)
        /\ \A j \in Jobs \ {k} : RedisLeaves(j)
        /\ lists' = lists
    BY <1>0, <1>6, DelayTakes
  <2>2. \A j \in Jobs : GoroutinesLeave(j)
    BY <1>0, <1>3, GoTakes, IdleStates
  <2>3. ASSUME NEW j \in Jobs \ {k} PROVE JobInv(j)'
    BY <1>3, <2>1, <2>2, UnchangedLeaves, Undisturbed DEF Delivered, apiVars
  <2>4. /\ Places(k) = {<<"goroutine", g>>} /\ ~Settled(k) /\ JobInv(k)
        /\ \A t \in Threads : ~Owns(t, k)
        /\ \A c \in Clients : ~Replaying(c, k)
        /\ ~Removing(k) /\ jobs[k].status # "running"
    BY <1>2, GoroutineAlone DEF Delivered
  <2>5. OnlyTakes(k, <<"delayed", k>>)
    BY <2>1, <2>2, UnchangedTakes DEF OnlyTakes, GoroutinesLeave, GoroutinesTake,
       Nowhere, apiVars
  <2>6. Places(k)' \subseteq {<<"goroutine", g>>, <<"delayed", k>>}
    BY <2>4, <2>5, NewPlace
  <2>7. <<"goroutine", g>> \notin Places(k)'
    BY <1>4, PlaceKindsNext, PlacesDiffer
  <2>8. /\ \A t \in Threads : ~Owns(t, k)'
        /\ \A c \in Clients : ~Replaying(c, k)'
        /\ ~Removing(k)'
    BY <2>4, UnchangedLeaves DEF ThreadsLeave, StillOwns, ClientsLeave, apiVars
  <2>9. JobInv(k)'
    BY <1>3, <2>4, <2>6, <2>7, <2>8, PlacedInRedis
  <2> QED
    BY <2>1, <2>3, <2>9, ListsRepeatNone DEF Delivered, ThreadsApart, schedulerVars
<1> QED
  BY <1>1, <1>5, <1>6, NoDisorder DEF DelayRetry

(* The workers: their goroutines, and the life of their processes. *)
LEMMA WorkersDeliver ==
  ASSUME TypeOK, Delivered, OrderlyFaults, WorkersNext
  PROVE  Delivered'
<1>0. UNCHANGED <<schedulerVars, apiVars>>
  BY DEF WorkersNext
<1>1. CASE \E g \in Goroutines : GoroutineStep(g)
  BY <1>0, <1>1, QuietGoroutine, PollDelivers, BlockingPopDelivers, OutcomeDelivers,
     DelayRetryDelivers
     DEF GoroutineStep
<1>2. CASE \E w \in Workers : WorkerProcess(w)
  <2>1. UNCHANGED <<jobs, redisVars>>
    BY <1>2 DEF WorkerProcess, StopWorker, WorkerStopped, CrashWorker, StartWorker,
                storeVars, redisVars
  <2>2. \A g \in Goroutines : gor'[g] \in {gor[g], LoopTop, Exited}
    BY <1>2 DEF WorkerProcess, StopWorker, WorkerStopped, CrashWorker, StartWorker,
                ExitAll
  <2>3. \A j \in Jobs : GoroutinesLeave(j)
    BY <2>2, IdleStates DEF GoroutinesLeave, GoroutinesTake, HoldsGoroutine
  <2>4. ASSUME NEW j \in Jobs PROVE JobInv(j)'
    BY <1>0, <2>1, <2>3, UnchangedLeaves, Undisturbed DEF Delivered, apiVars
  <2> QED
    BY <1>0, <2>1, <2>4, ListsRepeatNone
       DEF Delivered, ThreadsApart, schedulerVars, redisVars
<1> QED
  BY <1>1, <1>2 DEF WorkersNext

-----------------------------------------------------------------------------
(* The steps of the requests.                                              *)

(* A request that goes to another state. *)
LEMMA CallTakes ==
  ASSUME ApiTypeOK, NEW c \in Clients, NEW req, cl' = [cl EXCEPT ![c] = req],
         NEW j \in Jobs
  PROVE  /\ ClientsTake(j, <<"client", c>>)
         /\ \A d \in Clients \ {c} : Replaying(d, j)' => Replaying(d, j)
         /\ (\/ req.job # j
             \/ req.pc \notin {"push", "delay", "remove", "replay"}
             \/ HoldsClient(c, j) /\ req.pc # "replay") => ClientsLeave(j)
         /\ (req.job # j \/ req.pc \notin {"push", "delay", "remove"})
               => ~HoldsClient(c, j)'
         /\ (req.job # j \/ req.pc # "replay") => ~Replaying(c, j)'
<1>1. cl'[c] = req /\ \A d \in Clients \ {c} : cl'[d] = cl[d]
  BY DEF ApiTypeOK
<1> QED
  BY <1>1 DEF ClientsTake, ClientsLeave, HoldsClient, Replaying

(* What a request that is written out in full consists of. *)
LEMMA RequestFields ==
  /\ NoRequest.pc = "idle" /\ NoRequest.job = NoJob
  /\ \A pc, j : Request(pc, j).pc = pc /\ Request(pc, j).job = j
  BY DEF NoRequest, Request

(* A request that ends, or that goes on with its order, has no job. *)
LEMMA FreeClient ==
  ASSUME ApiTypeOK, NEW c \in Clients, Respond(c) \/ Enqueued(c), NEW j \in Jobs
  PROVE  ClientsLeave(j) /\ ~HoldsClient(c, j)' /\ ~Replaying(c, j)'
<1>1. PICK req \in {NoRequest, Request("create", NoJob)} : cl' = [cl EXCEPT ![c] = req]
  BY DEF Respond, Enqueued
<1>2. req.job # j /\ req.pc \notin {"push", "delay", "remove", "replay"}
  BY <1>1, RequestFields, StoresAssumption
<1> QED
  BY <1>1, <1>2, CallTakes

(* The first check of a cancellation, and RemoveFromDead of a replay. *)
LEMMA QuietClient ==
  ASSUME TypeOK, Delivered, NEW c \in Clients, UNCHANGED <<workerVars, schedulerVars>>,
         CancelCheck(c) \/ ReplayRemove(c)
  PROVE  Delivered'
<1>0. ApiTypeOK
  BY DEF TypeOK
<1>1. /\ UNCHANGED jobs /\ lists' = lists
      /\ \A j \in Jobs : RedisLeaves(j)
  BY DeadListTakes DEF CancelCheck, ReplayRemove, storeVars, redisVars
<1>2. ASSUME NEW j \in Jobs PROVE ClientsLeave(j)
  <2>1. CASE CancelCheck(c)
    <3>1. PICK req : req.pc = "cancel" /\ cl' = [cl EXCEPT ![c] = req]
      BY <2>1, RequestFields DEF CancelCheck, Call
    <3> QED
      BY <1>0, <3>1, CallTakes
  <2>2. CASE ReplayRemove(c)
    <3>1. PICK req : /\ req = Request("push", cl[c].job)
                     /\ cl' = [cl EXCEPT ![c] = req]
      BY <2>2 DEF ReplayRemove, Call
    <3>2. req.pc = "push" /\ req.job = cl[c].job
      BY <3>1, RequestFields
    <3>3. req.job # j \/ HoldsClient(c, j)
      BY <2>2, <3>2 DEF ReplayRemove, HoldsClient
    <3> QED
      BY <1>0, <3>1, <3>2, <3>3, CallTakes
  <2> QED
    BY <2>1, <2>2
<1>3. ASSUME NEW j \in Jobs PROVE JobInv(j)'
  BY <1>1, <1>2, UnchangedLeaves, Undisturbed DEF Delivered, workerVars
<1> QED
  BY <1>1, <1>3, ListsRepeatNone DEF Delivered, ThreadsApart, schedulerVars

(* A job without a row is nowhere. *)
LEMMA AbsentNowhere ==
  ASSUME TypeOK, RoutedIds, NEW k \in Jobs, ~Exists(k)
  PROVE  /\ Places(k) = {}
         /\ \A t \in Threads : ~Owns(t, k)
         /\ \A c \in Clients : ~Replaying(c, k)
         /\ ~Removing(k)
<1>1. \A q \in Queues : ~InList(q, k) /\ k \notin prio[q]
  BY DEF RoutedIds, RoutedQueues, InList
<1>2. /\ delayed[k] = "no"
      /\ \A g \in Goroutines : gor[g].job # k
      /\ \A t \in Threads : k \notin sch[t].batch /\ sch[t].job # k
      /\ \A c \in Clients : cl[c].job # k
  BY StoresAssumption DEF RoutedIds, RoutedThreads
<1>3. Places(k) = {}
  BY <1>1, <1>2, PlaceKinds DEF HoldsGoroutine, HoldsThread, HoldsClient
<1>4. "loop" \in Threads
  BY DEF Threads
<1> QED
  BY <1>2, <1>3, <1>4 DEF Owns, Replaying, Removing

(* The insert of Enqueue, done or failed. *)
LEMMA CreateDelivers ==
  ASSUME TypeOK, RoutedIds, Delivered, NEW c \in Clients,
         UNCHANGED <<workerVars, schedulerVars>>,
         CreateJob(c) \/ PlaceOrder(c) \/ ContinueOrder(c)
  PROVE  Delivered'
<1>0. RowsTypeOK /\ ApiTypeOK
  BY StoresParts DEF TypeOK
<1>1. UNCHANGED redisVars
  BY <1>0, CreateSteps
<1>2. PICK k \in Jobs, r \in Requests :
        /\ ~Exists(k)
        /\ \/ /\ WriteRow(k, NewRow(r))
              /\ \E pc \in {"push", "delay"} : cl' = [cl EXCEPT ![c] = Request(pc, k)]
           \/ FailedWrite(k, NewRow(r)) /\ Respond(c)
  BY <1>0, CreateSteps DEF Create
<1>3. /\ jobs'[k] \in {NewRow(r), jobs[k]}
      /\ \A j \in Jobs \ {k} : jobs'[j] = jobs[j]
  BY <1>0, <1>2, RowAfter
<1>4. NewRow(r).status = "pending"
  BY DEF NewRow, NoRow
<1>5. jobs'[k].status \in {"pending", "absent"}
  BY <1>2, <1>3, <1>4 DEF Exists
<1>6. PICK req : /\ cl' = [cl EXCEPT ![c] = req]
                 /\ req.job \in {k, NoJob} /\ req.pc # "replay"
  BY <1>2, RequestFields DEF Respond
<1>7. ASSUME NEW j \in Jobs \ {k} PROVE JobInv(j)'
  <2>1. req.job # j
    BY <1>6, StoresAssumption
  <2>2. ClientsLeave(j)
    BY <1>0, <1>6, <2>1, CallTakes
  <2>3. RowLeaves(j)
    BY <1>3 DEF RowLeaves
  <2> QED
    BY <1>1, <2>2, <2>3, UnchangedLeaves, Undisturbed DEF Delivered, workerVars
<1>8. JobInv(k)'
  <2>1. /\ Places(k) = {}
        /\ \A t \in Threads : ~Owns(t, k)
        /\ \A d \in Clients : ~Replaying(d, k)
        /\ ~Removing(k)
    BY <1>2, AbsentNowhere
  <2>2. OnlyTakes(k, <<"client", c>>)
    BY <1>0, <1>1, <1>6, CallTakes, UnchangedTakes DEF OnlyTakes, workerVars
  <2>3. Places(k)' \subseteq {<<"client", c>>}
    BY <2>1, <2>2, NewPlace
  <2>4. ~Settled(k)' /\ RunningPlace(k)'
    BY <1>5 DEF Settled, RunningPlace
  <2>5. /\ \A t \in Threads : ~Owns(t, k)'
        /\ \A d \in Clients : ~Replaying(d, k)'
        /\ ~Removing(k)'
    BY <1>0, <1>6, <2>1, CallTakes, UnchangedLeaves DEF ThreadsLeave, StillOwns
  <2> QED
    BY <2>3, <2>4, <2>5, Moved
<1> QED
  BY <1>1, <1>7, <1>8, ListsRepeatNone DEF Delivered, ThreadsApart, schedulerVars, redisVars

(* The last call of a request hands the job to redis, or loses it. *)
LEMMA RequestDelivers ==
  ASSUME TypeOK, Delivered, OrderlyFaults, NEW c \in Clients,
         UNCHANGED <<workerVars, schedulerVars>>, DelayJob(c) \/ PushRequest(c)
  PROVE  Delivered'
<1>0. ApiTypeOK /\ RowsTypeOK /\ RedisTypeOK
  BY StoresParts DEF TypeOK
<1>1. PICK k \in Jobs : k = cl[c].job
  BY <1>0, StoresAssumption DEF DelayJob, PushRequest, ApiTypeOK, ClientState
<1>2. HoldsClient(c, k)
  BY <1>1 DEF DelayJob, PushRequest, HoldsClient
<1>3. (Enqueued(c) \/ Respond(c)) /\ UNCHANGED jobs
  BY NoDisorder DEF DelayJob, PushRequest
<1>4. \A j \in Jobs : ClientsLeave(j) /\ ~HoldsClient(c, j)'
  BY <1>0, <1>3, FreeClient
<1>5. CASE UNCHANGED redisVars
  <2>1. ASSUME NEW j \in Jobs PROVE JobInv(j)'
    BY <1>3, <1>4, <1>5, UnchangedLeaves, Undisturbed DEF Delivered, workerVars
  <2> QED
    BY <1>5, <2>1, ListsRepeatNone
       DEF Delivered, ThreadsApart, schedulerVars, redisVars
<1>6. CASE EnqueueDelayed(k) \/ PushToRedis(k)
  <2>1. /\ Places(k) = {<<"client", c>>} /\ ~Settled(k) /\ jobs[k].status # "running"
        /\ \A q \in Queues : ~InList(q, k)
        /\ \A t \in Threads : ~Owns(t, k)
        /\ \A d \in Clients : ~Replaying(d, k)
        /\ ~Removing(k) /\ JobInv(k)
    BY <1>2, ClientAlone DEF Delivered
  <2>2. PICK target : /\ RedisTakes(k, target)
                      /\ target # <<"client", c>>
                      /\ \A j \in Jobs \ {k} : RedisLeaves(j)
    BY <1>0, <1>6, DelayTakes, PushTakes, PlacesDiffer
  <2>3. ASSUME NEW j \in Jobs \ {k} PROVE JobInv(j)'
    BY <1>3, <1>4, <2>2, UnchangedLeaves, Undisturbed DEF Delivered, workerVars
  <2>4. OnlyTakes(k, target)
    BY <1>4, <2>2, UnchangedTakes DEF OnlyTakes, ClientsLeave, ClientsTake, Nowhere, workerVars,
       HoldsClient
  <2>5. Places(k)' \subseteq {<<"client", c>>, target}
    BY <2>1, <2>4, NewPlace
  <2>6. <<"client", c>> \notin Places(k)'
    BY <1>4, PlaceKindsNext, PlacesDiffer
  <2>7. /\ \A t \in Threads : ~Owns(t, k)'
        /\ \A d \in Clients : ~Replaying(d, k)'
        /\ ~Removing(k)'
    BY <1>4, <2>1, UnchangedLeaves DEF ThreadsLeave, StillOwns, ClientsLeave
  <2>8. JobInv(k)'
    BY <1>3, <2>1, <2>5, <2>6, <2>7, PlacedInRedis
  <2>9. NoRepeats'
    BY <1>0, <1>6, <2>1, DelayTakes, PushRepeatsNone, ListsRepeatNone DEF Delivered
  <2> QED
    BY <2>3, <2>8, <2>9 DEF Delivered, ThreadsApart, schedulerVars
<1> QED
  BY <1>1, <1>5, <1>6, NoDisorder DEF DelayJob, PushRequest

(* A replay begins only for a dead job, which is nowhere. *)
LEMMA ReplayCheckDelivers ==
  ASSUME TypeOK, Delivered, NEW c \in Clients, UNCHANGED <<workerVars, schedulerVars>>,
         ReplayCheck(c)
  PROVE  Delivered'
<1>0. ApiTypeOK
  BY DEF TypeOK
<1>1. UNCHANGED <<jobs, redisVars>>
  BY DEF ReplayCheck, storeVars, redisVars
<1>2. PICK k \in Jobs : /\ jobs[k].status = "dead"
                        /\ cl' = [cl EXCEPT ![c] = Request("replay", k)]
  BY DEF ReplayCheck, Call
<1>3. PICK req : /\ req.job = k /\ req.pc = "replay"
                 /\ cl' = [cl EXCEPT ![c] = req]
  BY <1>2, RequestFields
<1>4. ASSUME NEW j \in Jobs \ {k} PROVE JobInv(j)'
  <2>1. ClientsLeave(j)
    BY <1>0, <1>3, CallTakes
  <2> QED
    BY <1>1, <2>1, UnchangedLeaves, Undisturbed DEF Delivered, workerVars
<1>5. JobInv(k)'
  <2>1. JobInv(k) /\ Places(k) = {} /\ \A t \in Threads : ~Owns(t, k)
    BY <1>2 DEF Delivered, JobInv, SettledHasNone, Settled, OwnedPlace
  <2>2. OnlyTakes(k, <<"client", c>>) /\ ~HoldsClient(c, k)'
    BY <1>0, <1>1, <1>3, CallTakes, UnchangedTakes DEF OnlyTakes, workerVars
  <2>3. Places(k)' = {}
    BY <2>1, <2>2, NewPlace, PlaceKindsNext, PlacesDiffer
  <2>4. /\ \A t \in Threads : ~Owns(t, k)'
        /\ ~Removing(k)'
    BY <2>1, UnchangedLeaves, PlaceOf DEF ThreadsLeave, StillOwns, JobInv, RemovedWaits
  <2>5. jobs'[k].status = "dead"
    BY <1>1, <1>2
  <2> QED
    BY <2>3, <2>4, <2>5
       DEF JobInv, OnePlace, SettledHasNone, RunningPlace, OwnedPlace,
           ReplayedHasNone, RemovedWaits
<1> QED
  BY <1>1, <1>4, <1>5, ListsRepeatNone
     DEF Delivered, ThreadsApart, schedulerVars, redisVars

(* ReplayDeadJob resets the row of a job that is nowhere, and has it then. *)
LEMMA ReplayResetDelivers ==
  ASSUME TypeOK, Delivered, ReplaysApart, NEW c \in Clients,
         UNCHANGED <<workerVars, schedulerVars>>, ReplayReset(c)
  PROVE  Delivered'
<1>0. ApiTypeOK /\ RowsTypeOK
  BY StoresParts DEF TypeOK
<1>1. PICK k \in Jobs : k = cl[c].job
  BY <1>0, StoresAssumption DEF ReplayReset, ApiTypeOK, ClientState
<1>2. Replaying(c, k)
  BY <1>1 DEF ReplayReset, Replaying
<1>3. PICK row : /\ row = [jobs[k] EXCEPT !.status = "pending", !.attempts = 0, !.error = ""]
                 /\ WriteRow(k, row) \/ FailedWrite(k, row)
  BY <1>1 DEF ReplayReset
<1>4. /\ jobs'[k] \in {row, jobs[k]}
      /\ \A j \in Jobs \ {k} : jobs'[j] = jobs[j]
  BY <1>0, <1>3, RowAfter
<1>5. row.status = "pending"
  <2>1. jobs[k] \in JobRow
    BY <1>0 DEF RowsTypeOK
  <2> QED
    BY <1>3, <2>1 DEF JobRow
<1>6. UNCHANGED redisVars
  BY DEF ReplayReset
<1>7. PICK req : /\ req.job \in {k, NoJob} /\ req.pc \in {"remove", "idle"}
                 /\ req.pc = "remove" => jobs'[k] = row
                 /\ req.pc = "idle" => req.job = NoJob
                 /\ cl' = [cl EXCEPT ![c] = req]
  <2>1. \/ WriteRow(k, row) /\ cl' = [cl EXCEPT ![c] = Request("remove", k)]
        \/ cl' = [cl EXCEPT ![c] = NoRequest]
    BY <1>1, <1>3 DEF ReplayReset, Call, Respond
  <2> QED
    BY <1>0, <2>1, RequestFields, RowAfter
<1>8. ASSUME NEW j \in Jobs \ {k} PROVE JobInv(j)'
  <2>1. req.job # j
    BY <1>7, StoresAssumption
  <2>2. ClientsLeave(j)
    BY <1>0, <1>7, <2>1, CallTakes
  <2>3. RowLeaves(j)
    BY <1>4 DEF RowLeaves
  <2> QED
    BY <1>6, <2>2, <2>3, UnchangedLeaves, Undisturbed DEF Delivered, workerVars
<1>9. JobInv(k)'
  <2>1. /\ JobInv(k) /\ Places(k) = {} /\ jobs[k].status \in {"dead", "failed"}
        /\ \A t \in Threads : ~Owns(t, k)
    BY <1>2 DEF Delivered, JobInv, ReplayedHasNone
  <2>2. \A d \in Clients \ {c} : ~Replaying(d, k)
    BY <1>2 DEF ReplaysApart
  <2>3. OnlyTakes(k, <<"client", c>>)
    BY <1>0, <1>6, <1>7, CallTakes, UnchangedTakes DEF OnlyTakes, workerVars
  <2>4. Places(k)' \subseteq {<<"client", c>>}
    BY <2>1, <2>3, NewPlace
  <2>5. /\ \A t \in Threads : ~Owns(t, k)'
        /\ ~Removing(k)'
    BY <2>1, UnchangedLeaves, PlaceOf DEF ThreadsLeave, StillOwns, JobInv, RemovedWaits
  <2>6. \A d \in Clients : ~Replaying(d, k)'
    BY <1>0, <1>7, <2>2, CallTakes
  <2>7. CASE req.pc = "remove"
    <3>1. jobs'[k].status = "pending"
      BY <1>5, <1>7, <2>7
    <3>2. ~Settled(k)' /\ RunningPlace(k)'
      BY <3>1 DEF Settled, RunningPlace
    <3> QED
      BY <2>4, <2>5, <2>6, <3>2, Moved
  <2>8. CASE req.pc = "idle"
    <3>1. ~HoldsClient(c, k)'
      BY <1>0, <1>7, <2>8, CallTakes
    <3>2. Places(k)' = {}
      BY <2>4, <3>1, PlaceKindsNext, PlacesDiffer
    <3>3. RunningPlace(k)'
      BY <3>2 DEF RunningPlace
    <3> QED
      BY <2>4, <2>5, <2>6, <3>2, <3>3, Moved
  <2> QED
    BY <1>7, <2>7, <2>8
<1> QED
  BY <1>6, <1>8, <1>9, ListsRepeatNone
     DEF Delivered, ThreadsApart, schedulerVars, redisVars

(* A cancellation marks the row and leaves the job where it is. *)
LEMMA CancelDelivers ==
  ASSUME TypeOK, Delivered, NEW c \in Clients, UNCHANGED <<workerVars, schedulerVars>>,
         CancelJob(c)
  PROVE  Delivered'
<1>0. ApiTypeOK /\ RowsTypeOK
  BY StoresParts DEF TypeOK
<1>1. PICK k \in Jobs : k = cl[c].job
  BY <1>0, StoresAssumption DEF CancelJob, ApiTypeOK, ClientState
<1>2. PICK row : /\ row = [jobs[k] EXCEPT !.status = "failed", !.error = "cancelled by user"]
                 /\ WriteRow(k, row) \/ FailedWrite(k, row)
  BY <1>1 DEF CancelJob
<1>3. row.status = "failed"
  <2>1. jobs[k] \in JobRow
    BY <1>0 DEF RowsTypeOK
  <2> QED
    BY <1>2, <2>1 DEF JobRow
<1>4. /\ jobs'[k] \in {row, jobs[k]}
      /\ \A j \in Jobs \ {k} : jobs'[j] = jobs[j]
  BY <1>0, <1>2, RowAfter
<1>5. UNCHANGED redisVars /\ Respond(c)
  BY DEF CancelJob
<1>6. \A j \in Jobs : ClientsLeave(j)
  BY <1>0, <1>5, FreeClient
<1>7. ASSUME NEW j \in Jobs, jobs'[j] = jobs[j] PROVE JobInv(j)'
  <2>1. RowLeaves(j)
    BY <1>7 DEF RowLeaves
  <2> QED
    BY <1>5, <1>6, <2>1, UnchangedLeaves, Undisturbed DEF Delivered, workerVars
<1>8. CASE jobs'[k] = row
  <2>1. JobInv(k) /\ jobs'[k].status = "failed"
    BY <1>3, <1>8 DEF Delivered
  <2>2. /\ RedisLeaves(k) /\ GoroutinesLeave(k) /\ ThreadsLeave(k) /\ ClientsLeave(k)
    BY <1>5, <1>6, UnchangedLeaves DEF workerVars
  <2>3. Places(k)' \subseteq Places(k)
    BY <2>2, NoNewPlace
       DEF OnlyTakes, RedisLeaves, GoroutinesLeave, ThreadsLeave, ClientsLeave
  <2>4. OnePlace(k)' /\ SettledHasNone(k)' /\ RunningPlace(k)'
    BY <2>1, <2>3 DEF JobInv, OnePlace, SettledHasNone, Settled, RunningPlace
  <2>5. OwnedPlace(k)' /\ ReplayedHasNone(k)' /\ RemovedWaits(k)'
    BY <2>1, <2>2, <2>3
       DEF JobInv, OwnedPlace, ReplayedHasNone, RemovedWaits, ThreadsLeave, StillOwns, ClientsLeave,
           RedisLeaves
  <2>6. JobInv(k)'
    BY <2>4, <2>5 DEF JobInv
  <2> QED
    BY <1>4, <1>5, <1>7, <2>6, ListsRepeatNone
       DEF Delivered, ThreadsApart, schedulerVars, redisVars
<1>9. CASE jobs'[k] = jobs[k]
  BY <1>4, <1>5, <1>7, <1>9, ListsRepeatNone
     DEF Delivered, ThreadsApart, schedulerVars, redisVars
<1> QED
  BY <1>4, <1>8, <1>9

(* The requests. *)
LEMMA ClientsDeliver ==
  ASSUME TypeOK, RoutedIds, Delivered, OrderlyFaults, ReplaysApart, ClientsNext
  PROVE  Delivered'
<1>1. PICK c \in Clients : /\ ClientStep(c) \/ ClientRequest(c)
                           /\ UNCHANGED <<workerVars, schedulerVars>>
  BY DEF ClientsNext
<1> QED
  BY <1>1, CreateDelivers, RequestDelivers, ReplayCheckDelivers, ReplayResetDelivers,
     QuietClient, CancelDelivers
     DEF ClientStep, ClientRequest

-----------------------------------------------------------------------------
(* The clock.                                                              *)

(* Time makes a delayed job due, and the row of a running job old if       *)
(* nobody executes it.                                                     *)
LEMMA ClockDelivers ==
  ASSUME TypeOK, Delivered, OrderlyFaults, Clock
  PROVE  Delivered'
<1>0. RowsTypeOK /\ RedisTypeOK
  BY StoresParts DEF TypeOK
<1>1. UNCHANGED <<workerVars, schedulerVars, apiVars>> /\ lists' = lists
  BY DEF Clock, BecomeDue, BecomeStuck, redisVars
<1>2. NoRepeats' /\ ThreadsApart'
  BY <1>1, ListsRepeatNone DEF Delivered, ThreadsApart, schedulerVars
<1>3. PICK k \in Jobs : BecomeDue(k) \/ BecomeStuck(k)
  BY DEF Clock
<1>4. \A j \in Jobs : RedisLeaves(j)
  BY <1>0, <1>3, UnchangedLeaves
     DEF BecomeDue, BecomeStuck, RedisLeaves, RedisTakes, RedisTypeOK, InList
<1>5. ASSUME NEW j \in Jobs, jobs'[j] = jobs[j] PROVE JobInv(j)'
  <2>1. RowLeaves(j)
    BY <1>5 DEF RowLeaves
  <2> QED
    BY <1>1, <1>4, <2>1, UnchangedLeaves, Undisturbed DEF Delivered, workerVars, apiVars
<1>6. CASE BecomeDue(k)
  BY <1>2, <1>5, <1>6 DEF BecomeDue, Delivered
<1>7. CASE BecomeStuck(k)
  <2>1. /\ jobs[k].status = "running" /\ jobs[k].started_at = "recent" /\ ~Executing(k)
        /\ WriteRow(k, [jobs[k] EXCEPT !.started_at = "old"])
    BY <1>7, NoDisorder DEF BecomeStuck
  <2>2. jobs[k] \in JobRow
    BY <1>0 DEF RowsTypeOK
  <2>3. /\ jobs'[k].status = "running"
        /\ \A j \in Jobs \ {k} : jobs'[j] = jobs[j]
    BY <1>0, <2>1, <2>2 DEF WriteRow, RowsTypeOK, JobRow
  <2>4. JobInv(k)
    BY DEF Delivered
  <2>5. Places(k) = {}
    <3> SUFFICES ASSUME NEW p \in Places(k) PROVE FALSE
      OBVIOUS
    <3>1. PICK g \in Goroutines : p = <<"goroutine", g>> /\ gor[g].pc = "exec"
      BY <2>1, <2>4 DEF JobInv, RunningPlace
    <3>2. gor[g].job = k
      BY <3>1, PlaceKinds, PlacesDiffer DEF HoldsGoroutine
    <3> QED
      BY <2>1, <3>1, <3>2 DEF Executing
  <2>6. /\ GoroutinesLeave(k) /\ ThreadsLeave(k) /\ ClientsLeave(k) /\ RedisLeaves(k)
    BY <1>1, <1>4, UnchangedLeaves DEF workerVars, apiVars
  <2>7. Places(k)' = {}
    BY <2>5, <2>6, NoNewPlace
       DEF OnlyTakes, RedisLeaves, GoroutinesLeave, ThreadsLeave, ClientsLeave
  <2>8. OnePlace(k)' /\ SettledHasNone(k)' /\ RunningPlace(k)'
    BY <2>7 DEF OnePlace, SettledHasNone, RunningPlace
  <2>11. OwnedPlace(k)'
    BY <2>1, <2>3, <2>4, <2>6, <2>7 DEF JobInv, OwnedPlace, ThreadsLeave, StillOwns
  <2>9. ReplayedHasNone(k)' /\ RemovedWaits(k)'
    <3>1. \A c \in Clients : ~Replaying(c, k)
      BY <2>1, <2>4 DEF JobInv, ReplayedHasNone
    <3>2. ~Removing(k)
      BY <2>4, <2>5, PlaceOf DEF JobInv, RemovedWaits
    <3> QED
      BY <2>6, <3>1, <3>2 DEF ReplayedHasNone, RemovedWaits, ThreadsLeave, ClientsLeave
  <2>10. JobInv(k)'
    BY <2>8, <2>9, <2>11 DEF JobInv
  <2> QED
    BY <1>2, <1>5, <2>3, <2>10 DEF Delivered
<1> QED
  BY <1>3, <1>6, <1>7

-----------------------------------------------------------------------------
(* The server and its scheduler.                                           *)

(* A thread that goes to another state. *)
LEMMA BecomeTakes ==
  ASSUME SchedulerTypeOK, server' = server, NEW t \in Threads, NEW state,
         Become(t, state), NEW j \in Jobs
  PROVE  /\ sch'[t] = state
         /\ \A u \in Threads \ {t} : sch'[u] = sch[u]
         /\ ThreadsTake(j, <<"thread", t>>)
         /\ \A u \in Threads \ {t} : StillOwns(u, j)
         /\ state.pc # "zrem" => (Removing(j)' => Removing(j))
         /\ (\/ state.pc \notin {"reset", "push"}
             \/ j \notin state.batch \cup {state.job})
               => /\ ThreadsTake(j, Nowhere)
                  /\ \A u \in Threads : StillOwns(u, j)
                  /\ ~Owns(t, j)'
         /\ (\/ state.pc \notin {"zrem", "reset", "push"}
             \/ state.pc # "zrem" /\ j \notin state.batch \cup {state.job}
             \/ state.pc # "zrem" /\ Owns(t, j) /\ state.mode = sch[t].mode /\ state.job # j)
               => ThreadsLeave(j)
<1>1. sch'[t] = state /\ \A u \in Threads \ {t} : sch'[u] = sch[u]
  BY DEF Become, SchedulerTypeOK
<1>2. ThreadsTake(j, <<"thread", t>>)
  BY <1>1 DEF ThreadsTake, HoldsThread
<1>3. \A u \in Threads \ {t} : StillOwns(u, j)
  BY <1>1 DEF StillOwns, Owns
<1>4. state.pc # "zrem" => (Removing(j)' => Removing(j))
  BY <1>1 DEF Removing, Threads
<1>5. ASSUME state.pc \notin {"reset", "push"} \/ j \notin state.batch \cup {state.job}
      PROVE  /\ ThreadsTake(j, Nowhere)
             /\ \A u \in Threads : StillOwns(u, j)
             /\ ~Owns(t, j)'
  <2>1. ~Owns(t, j)'
    BY <1>1, <1>5 DEF Owns
  <2>2. ~HoldsThread(t, j)'
    BY <2>1 DEF Owns, HoldsThread
  <2> QED
    BY <1>1, <1>3, <2>1, <2>2 DEF ThreadsTake, HoldsThread, StillOwns
<1>6. ASSUME state.pc # "zrem" /\ Owns(t, j) /\ state.mode = sch[t].mode /\ state.job # j
      PROVE  ThreadsLeave(j)
  <2>1. ThreadsTake(j, Nowhere)
    BY <1>1, <1>6 DEF ThreadsTake, HoldsThread, Owns
  <2>2. StillOwns(t, j)
    BY <1>1, <1>6 DEF StillOwns
  <2> QED
    BY <1>3, <1>4, <1>6, <2>1, <2>2 DEF ThreadsLeave
<1> QED
  BY <1>1, <1>2, <1>3, <1>4, <1>5, <1>6 DEF ThreadsLeave

(* The fields of the states of a thread. *)
LEMMA ThreadFields ==
  ASSUME NEW pc, NEW m, NEW batch, NEW j, NEW state, state = Thread(pc, m, batch, j)
  PROVE  state.pc = pc /\ state.mode = m /\ state.batch = batch /\ state.job = j
  BY DEF Thread

(* The states that have no batch. *)
LEMMA RestingFields ==
  /\ Idle.pc = "idle" /\ Idle.mode = "promote" /\ Idle.batch = {} /\ Idle.job = NoJob
  /\ Scan.pc = "scan" /\ Scan.mode = "recover" /\ Scan.batch = {} /\ Scan.job = NoJob
  /\ ThreadExited.pc = "exited" /\ ThreadExited.mode = "promote"
  /\ ThreadExited.batch = {} /\ ThreadExited.job = NoJob
  BY DEF Idle, Scan, ThreadExited, Thread

(* The next job of a batch, or its end. *)
LEMMA ContinueFields ==
  ASSUME NEW t \in Threads, NEW m, NEW batch, Continue(t, m, batch)
  PROVE  \E state :
           /\ Become(t, state)
           /\ state.job = NoJob /\ state.batch = batch
           /\ \/ state.pc = "reset" /\ state.mode = m
              \/ state.pc = "idle" /\ state.mode = "promote" /\ t = "loop"
              \/ state.pc = "exited" /\ state.mode = "promote" /\ t # "loop"
<1>1. CASE Become(t, Thread("reset", m, batch, NoJob))
  BY <1>1, ThreadFields
<1>2. CASE batch = {} /\ Become(t, IF t = "loop" THEN Idle ELSE ThreadExited)
  BY <1>2, RestingFields
<1> QED
  BY <1>1, <1>2 DEF Continue

(* The life of the server process takes no job. *)
LEMMA ServerProcessLeaves ==
  ASSUME TypeOK,
         StopServer \/ StopScheduler \/ ExitServer \/ CrashServer \/ StartServer
  PROVE  /\ UNCHANGED <<jobs, redisVars, workerVars>> /\ lists' = lists
         /\ \A j \in Jobs : ThreadsLeave(j) /\ ClientsLeave(j)
<1>0. SchedulerTypeOK
  BY DEF TypeOK
<1>1. UNCHANGED <<jobs, redisVars, workerVars>> /\ lists' = lists
  BY DEF StopServer, StopScheduler, ExitServer, CrashServer, StartServer, storeVars,
         redisVars
<1>2. ASSUME NEW j \in Jobs PROVE ThreadsLeave(j)
  <2>1. CASE StopServer
    BY <2>1 DEF StopServer, ThreadsLeave, ThreadsTake, HoldsThread, StillOwns, Owns, Removing
  <2>2. CASE StopScheduler
    <3>1. "loop" \in Threads
      BY DEF Threads
    <3> QED
      BY <1>0, <2>2, <3>1, BecomeTakes, RestingFields DEF StopScheduler
  <2>3. CASE ExitServer \/ CrashServer \/ StartServer
    <3>1. \A t \in Threads : sch'[t].pc \notin {"zrem", "reset", "push"}
      BY <2>3, RestingFields DEF ExitServer, CrashServer, StartServer
    <3>2. "loop" \in Threads
      BY DEF Threads
    <3> QED
      BY <3>1, <3>2 DEF ThreadsLeave, ThreadsTake, HoldsThread, StillOwns, Owns, Removing
  <2> QED
    BY <2>1, <2>2, <2>3
<1>3. ASSUME NEW j \in Jobs PROVE ClientsLeave(j)
  <2>1. CASE CrashServer
    <3>1. \A c \in Clients : cl'[c].job = NoJob
      BY <2>1, RequestFields DEF CrashServer
    <3>2. NoJob # j
      BY StoresAssumption
    <3> QED
      BY <3>1, <3>2 DEF ClientsLeave, ClientsTake, HoldsClient, Replaying
  <2>2. CASE cl' = cl
    BY <2>2, UnchangedLeaves
  <2> QED
    BY <2>1, <2>2 DEF StopServer, StopScheduler, ExitServer, StartServer, apiVars
<1> QED
  BY <1>1, <1>2, <1>3

(* It keeps the invariant. *)
LEMMA ServerProcessDelivers ==
  ASSUME TypeOK, Delivered,
         StopServer \/ StopScheduler \/ ExitServer \/ CrashServer \/ StartServer
  PROVE  Delivered'
<1>0. SchedulerTypeOK
  BY DEF TypeOK
<1>1. /\ UNCHANGED <<jobs, redisVars, workerVars>> /\ lists' = lists
      /\ \A j \in Jobs : ThreadsLeave(j) /\ ClientsLeave(j)
  BY ServerProcessLeaves
<1>4. ASSUME NEW j \in Jobs PROVE JobInv(j)'
  BY <1>1, UnchangedLeaves, Undisturbed DEF Delivered, workerVars
<1>5. ThreadsApart'
  <2>1. CASE StopServer
    BY <2>1 DEF StopServer, Delivered, ThreadsApart
  <2>2. CASE StopScheduler
    <3>1. sch'["loop"] = ThreadExited /\ sch'["startup"] = sch["startup"]
      BY <1>0, <2>2 DEF StopScheduler, Become, SchedulerTypeOK, Threads
    <3> QED
      BY <3>1, RestingFields DEF Delivered, ThreadsApart, Threads
  <2>3. CASE ExitServer \/ CrashServer
    BY <2>3, RestingFields DEF ExitServer, CrashServer, ThreadsApart, Threads
  <2>4. CASE StartServer
    BY <2>4, RestingFields DEF StartServer, ThreadsApart, Threads
  <2> QED
    BY <2>1, <2>2, <2>3, <2>4
<1> QED
  BY <1>1, <1>4, <1>5, ListsRepeatNone DEF Delivered

(* GetDueDelayed gives the loop a batch of jobs that are still delayed. *)
LEMMA DelayedTickDelivers ==
  ASSUME TypeOK, Delivered, DelayedTick, UNCHANGED <<workerVars, apiVars>>
  PROVE  Delivered'
<1>0. SchedulerTypeOK /\ "loop" \in Threads
  BY DEF TypeOK, Threads
<1>1. UNCHANGED <<jobs, redisVars, server>> /\ lists' = lists
  BY DEF DelayedTick, storeVars, redisVars
<1>2. PICK state : /\ Become("loop", state)
                   /\ state.pc = "zrem" /\ state.mode = "promote"
                   /\ state.batch = DueJobs /\ state.job = NoJob
  BY ThreadFields DEF DelayedTick
<1>3. sch'["loop"] = state /\ \A u \in Threads \ {"loop"} : sch'[u] = sch[u]
  BY <1>0, <1>1, <1>2 DEF Become, SchedulerTypeOK
<1>4. ASSUME NEW j \in Jobs PROVE JobInv(j)'
  <2>1. ThreadsTake(j, Nowhere) /\ \A u \in Threads : StillOwns(u, j)
    BY <1>0, <1>1, <1>2, BecomeTakes
  <2>2. RemovedWaits(j)'
    BY <1>1, <1>2, <1>3 DEF RemovedWaits, Removing, DueJobs, redisVars
  <2>3. /\ RowLeaves(j) /\ RedisTakes(j, Nowhere) /\ GoroutinesLeave(j) /\ ClientsLeave(j)
    BY <1>1, UnchangedLeaves DEF RedisLeaves, workerVars, apiVars
  <2> QED
    BY <2>1, <2>2, <2>3, Untaken DEF Delivered
<1>5. ThreadsApart'
  BY <1>2, <1>3, StoresAssumption DEF Delivered, ThreadsApart, Threads, DueJobs
<1> QED
  BY <1>1, <1>4, <1>5, ListsRepeatNone DEF Delivered

(* ZREM hands the batch from the delayed set to the loop; the loop of a     *)
(* server that is stopping leaves it there.                                 *)
LEMMA RemoveDueDelivers ==
  ASSUME TypeOK, RoutedIds, Delivered, OrderlyFaults, RemoveDue,
         UNCHANGED <<workerVars, apiVars>>
  PROVE  Delivered'
<1>0. /\ SchedulerTypeOK /\ "loop" \in Threads /\ RowsTypeOK /\ RedisTypeOK
      /\ sch["loop"].batch \subseteq Jobs
  BY StoresParts DEF TypeOK, Threads, SchedulerTypeOK, ThreadState
<1>1. UNCHANGED <<jobs, lists, prio, deadList, server>>
  BY DEF RemoveDue
<1>2. sch["loop"].pc = "zrem"
  BY DEF RemoveDue
<1>3. PICK state : /\ Become("loop", state)
                   /\ state.pc = "reset" /\ state.mode = "promote"
                   /\ state.batch = sch["loop"].batch /\ state.job = NoJob
  BY ThreadFields DEF RemoveDue
<1>4. sch'["loop"] = state /\ \A u \in Threads \ {"loop"} : sch'[u] = sch[u]
  BY <1>0, <1>1, <1>3 DEF Become, SchedulerTypeOK
<1>5. \/ /\ \A j \in Jobs : delayed'[j] = IF j \in sch["loop"].batch THEN "no" ELSE delayed[j]
         /\ server = "up"
      \/ delayed' = delayed /\ server = "stopping"
  BY NoDisorder DEF RemoveDue
<1>6. \A j \in Jobs : RedisTakes(j, Nowhere)
  BY <1>1, <1>5 DEF RedisTakes, InList
<1>7. ASSUME NEW j \in Jobs, j \notin sch["loop"].batch PROVE JobInv(j)'
  <2>1. ThreadsLeave(j)
    BY <1>0, <1>1, <1>3, <1>7, BecomeTakes, StoresAssumption
  <2>2. RedisLeaves(j)
    BY <1>5, <1>6, <1>7 DEF RedisLeaves
  <2> QED
    BY <1>1, <2>1, <2>2, UnchangedLeaves, Undisturbed DEF Delivered, workerVars, apiVars
<1>8. ASSUME NEW j \in Jobs, j \in sch["loop"].batch PROVE JobInv(j)'
  <2>1. JobInv(j) /\ Removing(j)
    BY <1>2, <1>8 DEF Delivered, Removing
  <2>2. <<"delayed", j>> \in Places(j) /\ delayed[j] # "no"
    BY <2>1, PlaceOf DEF JobInv, RemovedWaits
  <2>3. /\ Places(j) = {<<"delayed", j>>} /\ ~Settled(j)
        /\ \A c \in Clients : ~Replaying(c, j)
    BY <2>1, <2>2, Alone
  <2>4. jobs[j].status \in {"pending", "failed"}
    <3>1. jobs[j].status \in Statuses /\ jobs[j].status # "absent"
      BY <1>0, <2>2 DEF RowsTypeOK, JobRow, RoutedIds, RoutedThreads, Exists
    <3>2. jobs[j].status # "running"
      BY <2>1, <2>2, PlacesDiffer DEF JobInv, RunningPlace
    <3> QED
      BY <2>3, <3>1, <3>2 DEF Statuses, Settled
  <2>5. OnlyTakes(j, <<"thread", "loop">>)
    <3>1. RedisTakes(j, <<"thread", "loop">>)
      BY <1>6 DEF RedisTakes, Nowhere
    <3> QED
      BY <1>0, <1>1, <1>3, <3>1, BecomeTakes, UnchangedTakes
         DEF OnlyTakes, workerVars, apiVars
  <2>6. Places(j)' \subseteq {<<"delayed", j>>, <<"thread", "loop">>}
    BY <2>3, <2>5, NewPlace
  <2>7. /\ \/ Places(j)' \subseteq {<<"thread", "loop">>}
           \/ Places(j)' \subseteq {<<"delayed", j>>} /\ server = "stopping"
        /\ \A t \in Threads : Owns(t, j)' =>
             Places(j)' \subseteq {<<"thread", t>>, <<"delayed", j>>}
    <3>1. CASE server = "up"
      <4>1. <<"delayed", j>> \notin Places(j)'
        BY <1>5, <1>8, <3>1, PlaceKindsNext, PlacesDiffer
      <4>2. ASSUME NEW t \in Threads, Owns(t, j)' PROVE t = "loop"
        <5>1. \A u \in Threads : ~Owns(u, j)
          BY <2>1, <3>1, ThreadAlone
        <5> QED
          BY <1>4, <4>2, <5>1 DEF Owns
      <4> QED
        BY <2>6, <4>1, <4>2
    <3>2. CASE server = "stopping"
      <4>1. <<"thread", "loop">> \notin Places(j)'
        BY <1>1, <3>2, PlaceKindsNext, PlacesDiffer DEF HoldsThread
      <4> QED
        BY <2>6, <3>2, <4>1
    <3> QED
      BY <1>5, <3>1, <3>2
  <2>8. OnePlace(j)' /\ SettledHasNone(j)' /\ RunningPlace(j)'
    BY <1>1, <2>3, <2>4, <2>7 DEF OnePlace, SettledHasNone, Settled, RunningPlace
  <2>9. OwnedPlace(j)'
    BY <1>1, <2>4, <2>7 DEF OwnedPlace
  <2>10. ReplayedHasNone(j)'
    BY <2>3, UnchangedLeaves DEF ReplayedHasNone, ClientsLeave, apiVars
  <2>11. RemovedWaits(j)'
    BY <1>3, <1>4 DEF RemovedWaits, Removing
  <2> QED
    BY <2>8, <2>9, <2>10, <2>11 DEF JobInv
<1>9. ThreadsApart'
  BY <1>0, <1>3, <1>4, StoresAssumption DEF Delivered, ThreadsApart, Threads
<1> QED
  BY <1>1, <1>7, <1>8, <1>9, ListsRepeatNone DEF Delivered

(* GetStuckJobs: a job whose row is old is nowhere, and goes to the thread. *)
LEMMA StuckTaken ==
  ASSUME TypeOK, Delivered, UNCHANGED <<jobs, redisVars, server, workerVars, apiVars>>,
         NEW t \in Threads, sch[t].pc \in {"idle", "scan"},
         \A u \in Threads \ {t} : sch[u].mode = "recover" => sch[u].pc = "exited",
         NEW state, Become(t, state),
         state.pc = "reset", state.mode = "recover", state.batch = StuckJobs,
         state.job = NoJob
  PROVE  \A j \in Jobs : JobInv(j)'
<1>0. SchedulerTypeOK
  BY DEF TypeOK
<1>1. sch'[t] = state /\ \A u \in Threads \ {t} : sch'[u] = sch[u]
  BY <1>0 DEF Become, SchedulerTypeOK
<1>2. ASSUME NEW j \in Jobs, j \notin StuckJobs PROVE JobInv(j)'
  <2>1. ThreadsLeave(j)
    BY <1>0, <1>2, BecomeTakes, StoresAssumption
  <2> QED
    BY <2>1, UnchangedLeaves, Undisturbed DEF Delivered, workerVars, apiVars
<1>3. ASSUME NEW j \in StuckJobs PROVE JobInv(j)'
  <2>1. j \in Jobs /\ jobs[j].status = "running" /\ jobs[j].started_at = "old"
    BY DEF StuckJobs
  <2>2. JobInv(j)
    BY <2>1 DEF Delivered
  <2>3. Places(j) = {}
    <3> SUFFICES ASSUME NEW p \in Places(j) PROVE FALSE
      OBVIOUS
    <3>1. PICK u \in Threads : p = <<"thread", u>> /\ sch[u].mode = "recover"
      BY <2>1, <2>2 DEF JobInv, RunningPlace
    <3>2. HoldsThread(u, j)
      BY <3>1, PlaceKinds, PlacesDiffer
    <3> QED
      BY <3>1, <3>2 DEF HoldsThread
  <2>4. ~Removing(j) /\ \A c \in Clients : ~Replaying(c, j)
    BY <2>1, <2>2, <2>3, PlaceOf DEF JobInv, RemovedWaits, ReplayedHasNone
  <2>5. OnlyTakes(j, <<"thread", t>>)
    BY <1>0, <2>1, BecomeTakes, UnchangedTakes DEF OnlyTakes, workerVars, apiVars
  <2>6. Places(j)' \subseteq {<<"thread", t>>}
    BY <2>3, <2>5, NewPlace
  <2>7. ASSUME NEW u \in Threads, Owns(u, j)', u # t
        PROVE  /\ sch'[u].job # j
               /\ Places(j)' \subseteq {<<"thread", u>>}
    <3>1. Owns(u, j) /\ sch'[u].job = sch[u].job
      BY <1>1, <2>7 DEF Owns
    <3>2. server # "up"
      BY <2>1, <2>2, <2>3, <3>1, ThreadAlone
    <3>3. Places(j)' = {}
      BY <2>6, <3>2, PlaceKindsNext, PlacesDiffer DEF HoldsThread
    <3> QED
      BY <2>1, <2>2, <3>1, <3>3 DEF JobInv, OwnedPlace
  <2>8. OwnedPlace(j)'
    BY <1>1, <2>1, <2>6, <2>7, StoresAssumption DEF OwnedPlace
  <2>9. OnePlace(j)' /\ SettledHasNone(j)' /\ RunningPlace(j)'
    BY <1>1, <2>1, <2>6 DEF OnePlace, SettledHasNone, Settled, RunningPlace
  <2>10. ReplayedHasNone(j)' /\ RemovedWaits(j)'
    BY <1>0, <2>1, <2>4, BecomeTakes, UnchangedLeaves
       DEF ReplayedHasNone, RemovedWaits, ClientsLeave, apiVars
  <2> QED
    BY <2>8, <2>9, <2>10 DEF JobInv
<1> QED
  BY <1>2, <1>3

(* The two passes of recoverStuckJobs. *)
LEMMA RecoveryDelivers ==
  ASSUME TypeOK, Delivered, OrderlyFaults, StuckTick \/ StartupScan,
         UNCHANGED <<workerVars, apiVars>>
  PROVE  Delivered'
<1>0. SchedulerTypeOK /\ Threads = {"loop", "startup"}
  BY DEF TypeOK, Threads
<1>1. lists' = lists
  BY DEF StuckTick, StartupScan, redisVars
<1>2. CASE StuckTick
  <2>1. sch["startup"].pc = "exited" /\ sch["loop"].pc = "idle"
    BY <1>2, NoDisorder DEF StuckTick
  <2>2. PICK state : /\ Become("loop", state)
                     /\ state.pc = "reset" /\ state.mode = "recover"
                     /\ state.batch = StuckJobs /\ state.job = NoJob
    BY <1>2, ThreadFields DEF StuckTick
  <2>3. sch'["loop"] = state /\ sch'["startup"] = sch["startup"]
    BY <1>0, <2>2 DEF Become, SchedulerTypeOK
  <2>4. ThreadsApart'
    BY <1>0, <2>1, <2>2, <2>3, StoresAssumption
       DEF Delivered, ThreadsApart, StuckJobs
  <2>5. \A j \in Jobs : JobInv(j)'
    BY <1>0, <1>2, <2>1, <2>2, StuckTaken DEF StuckTick
  <2> QED
    BY <1>1, <2>4, <2>5, ListsRepeatNone DEF Delivered
<1>3. CASE StartupScan
  <2>1. sch["startup"].pc = "scan" /\ sch["loop"].mode # "recover"
    BY <1>0, <1>3 DEF StartupScan, Delivered, ThreadsApart
  <2>2. PICK state : /\ Become("startup", state)
                     /\ state.job = NoJob
                     /\ \/ state.pc = "exited" /\ state.batch = {}
                        \/ /\ state.pc = "reset" /\ state.mode = "recover"
                           /\ state.batch = StuckJobs
    <3>1. CASE Become("startup", Thread("reset", "recover", StuckJobs, NoJob))
      BY <3>1, ThreadFields
    <3>2. CASE Become("startup", ThreadExited)
      BY <3>2, RestingFields
    <3> QED
      BY <1>3, <3>1, <3>2 DEF StartupScan, Continue
  <2>3. sch'["startup"] = state /\ sch'["loop"] = sch["loop"]
    BY <1>0, <2>2 DEF Become, SchedulerTypeOK
  <2>4. ThreadsApart'
    BY <1>0, <2>1, <2>2, <2>3, StoresAssumption
       DEF Delivered, ThreadsApart, StuckJobs
  <2>5. ASSUME NEW j \in Jobs PROVE JobInv(j)'
    <3>1. CASE state.pc = "exited"
      <4>1. ThreadsLeave(j)
        BY <1>0, <1>3, <2>2, <3>1, BecomeTakes DEF StartupScan
      <4> QED
        BY <1>3, <4>1, UnchangedLeaves, Undisturbed
           DEF StartupScan, Delivered, workerVars, apiVars
    <3>2. CASE state.pc = "reset"
      BY <1>0, <1>3, <2>1, <2>2, <3>2, StuckTaken DEF StartupScan
    <3> QED
      BY <2>2, <3>1, <3>2
  <2> QED
    BY <1>1, <2>4, <2>5, ListsRepeatNone DEF Delivered
<1> QED
  BY <1>2, <1>3

(* The row of a job is reset for the push, or the job is given up. *)
LEMMA ResetDelivers ==
  ASSUME TypeOK, Delivered, NEW t \in Threads, ResetJob(t), UNCHANGED <<workerVars, apiVars>>
  PROVE  Delivered'
<1>0. /\ SchedulerTypeOK /\ RowsTypeOK /\ Threads = {"loop", "startup"}
      /\ sch[t] \in ThreadState
  BY StoresParts DEF TypeOK, Threads, SchedulerTypeOK
<1>1. UNCHANGED <<redisVars, server>> /\ lists' = lists
  BY DEF ResetJob, redisVars
<1>2. sch[t].pc = "reset" /\ sch[t].batch \subseteq Jobs
  BY <1>0 DEF ResetJob, ThreadState
<1>3. PICK k \in sch[t].batch :
        LET rest == sch[t].batch \ {k}
            row == ResetRow(k, sch[t].mode) IN
        \/ WriteRow(k, row) /\ Become(t, Thread("push", sch[t].mode, rest, k))
        \/ FailedWrite(k, row) /\ Continue(t, sch[t].mode, rest)
  BY DEF ResetJob
<1>4. k \in Jobs /\ Owns(t, k) /\ JobInv(k)
  BY <1>2 DEF Owns, Delivered
<1>5. PICK row : row = ResetRow(k, sch[t].mode)
  OBVIOUS
<1>6. row.status = "pending"
  <2>1. jobs[k] \in JobRow
    BY <1>0, <1>4 DEF RowsTypeOK
  <2> QED
    BY <1>5, <2>1 DEF ResetRow, JobRow
<1>7. /\ jobs'[k] \in {row, jobs[k]}
      /\ \A j \in Jobs \ {k} : jobs'[j] = jobs[j]
  BY <1>0, <1>3, <1>4, <1>5, RowAfter
<1>8. PICK state : /\ Become(t, state)
                   /\ state.batch = sch[t].batch \ {k}
                   /\ \/ /\ state.pc = "push" /\ state.mode = sch[t].mode
                         /\ state.job = k /\ jobs'[k] = row
                      \/ /\ state.pc = "reset" /\ state.mode = sch[t].mode
                         /\ state.job = NoJob
                      \/ /\ state.pc = "idle" /\ state.mode = "promote" /\ t = "loop"
                         /\ state.job = NoJob
                      \/ /\ state.pc = "exited" /\ state.mode = "promote" /\ t # "loop"
                         /\ state.job = NoJob
  <2>1. CASE WriteRow(k, row) /\ Become(t, Thread("push", sch[t].mode, sch[t].batch \ {k}, k))
    <3>1. jobs'[k] = row
      BY <1>0, <1>4, <2>1 DEF WriteRow, RowsTypeOK
    <3> QED
      BY <2>1, <3>1, ThreadFields
  <2>2. CASE Continue(t, sch[t].mode, sch[t].batch \ {k})
    <3>1. PICK next : /\ Become(t, next)
                      /\ next.job = NoJob /\ next.batch = sch[t].batch \ {k}
                      /\ \/ next.pc = "reset" /\ next.mode = sch[t].mode
                         \/ next.pc = "idle" /\ next.mode = "promote" /\ t = "loop"
                         \/ next.pc = "exited" /\ next.mode = "promote" /\ t # "loop"
      BY <2>2, ContinueFields
    <3> QED
      BY <3>1
  <2> QED
    BY <1>3, <1>5, <2>1, <2>2
<1>9. sch'[t] = state /\ \A u \in Threads \ {t} : sch'[u] = sch[u]
  BY <1>0, <1>8 DEF Become, SchedulerTypeOK
<1>10. ThreadsApart'
  <2>1. state.job \notin state.batch
    BY <1>2, <1>8, StoresAssumption
  <2> QED
    BY <1>0, <1>2, <1>8, <1>9, <2>1 DEF Delivered, ThreadsApart
<1>11. ASSUME NEW j \in Jobs \ {k} PROVE JobInv(j)'
  <2>1. ThreadsLeave(j)
    <3>1. j \in state.batch \cup {state.job} => Owns(t, j)
      BY <1>2, <1>8, StoresAssumption DEF Owns
    <3>2. state.job # j
      BY <1>8, StoresAssumption
    <3> QED
      BY <1>0, <1>1, <1>8, <3>1, <3>2, BecomeTakes
  <2>2. RowLeaves(j)
    BY <1>7 DEF RowLeaves
  <2> QED
    BY <1>1, <2>1, <2>2, UnchangedLeaves, Undisturbed DEF Delivered, workerVars, apiVars
<1>12. JobInv(k)'
  <2>1. /\ ThreadsTake(k, Nowhere)
        /\ \A u \in Threads : Owns(u, k)' => Owns(u, k)
        /\ Removing(k)' => Removing(k)
    <3>1. \A u \in Threads : Owns(u, k)' => Owns(u, k)
      BY <1>4, <1>9 DEF Owns
    <3>2. ThreadsTake(k, Nowhere)
      BY <1>1, <3>1 DEF ThreadsTake, HoldsThread, Owns
    <3> QED
      BY <1>0, <1>1, <1>4, <1>8, <3>1, <3>2, BecomeTakes
  <2>2. RedisLeaves(k) /\ GoroutinesLeave(k) /\ ClientsLeave(k)
    BY <1>1, UnchangedLeaves DEF workerVars, apiVars
  <2>3. CASE jobs'[k] = row
    <3>1. jobs'[k].status = "pending"
      BY <1>6, <2>3
    <3>2. Places(k)' \subseteq Places(k)
      BY <2>1, <2>2, NoNewPlace DEF OnlyTakes, RedisLeaves, GoroutinesLeave, ClientsLeave
    <3>3. OnePlace(k)' /\ SettledHasNone(k)' /\ RunningPlace(k)'
      BY <1>4, <3>1, <3>2
         DEF JobInv, OnePlace, SettledHasNone, Settled, RunningPlace
    <3>4. OwnedPlace(k)'
      BY <1>4, <2>1, <3>1, <3>2 DEF JobInv, OwnedPlace
    <3>5. ReplayedHasNone(k)'
      BY <1>4, <2>2 DEF JobInv, ReplayedHasNone, ClientsLeave
    <3>6. RemovedWaits(k)'
      BY <1>4, <2>1, <2>2 DEF JobInv, RemovedWaits, RedisLeaves
    <3> QED
      BY <3>3, <3>4, <3>5, <3>6 DEF JobInv
  <2>4. CASE state.job # k
    <3>1. ThreadsLeave(k)
      BY <1>0, <1>1, <1>4, <1>8, <2>4, BecomeTakes
    <3>2. CASE jobs'[k] = jobs[k]
      <4>1. RowLeaves(k)
        BY <3>2 DEF RowLeaves
      <4> QED
        BY <1>4, <2>2, <3>1, <4>1, Undisturbed
    <3> QED
      BY <1>7, <2>3, <3>2
  <2> QED
    BY <1>4, <1>8, <2>3, <2>4, StoresAssumption
<1> QED
  BY <1>1, <1>10, <1>11, <1>12, ListsRepeatNone DEF Delivered

(* enqueueJob hands the job from the thread to a key of redis, or loses it. *)
LEMMA PushDelivers ==
  ASSUME TypeOK, Delivered, OrderlyFaults, NEW t \in Threads, PushJob(t),
         UNCHANGED <<workerVars, apiVars>>
  PROVE  Delivered'
<1>0. /\ SchedulerTypeOK /\ RowsTypeOK /\ RedisTypeOK /\ Threads = {"loop", "startup"}
      /\ sch[t] \in ThreadState
  BY StoresParts DEF TypeOK, Threads, SchedulerTypeOK
<1>1. UNCHANGED <<jobs, server>> /\ sch[t].pc = "push"
  BY DEF PushJob
<1>2. PICK k \in Jobs : k = sch[t].job
  BY <1>0, <1>1 DEF SchedulerTypeOK, ThreadState
<1>3. Owns(t, k) /\ JobInv(k) /\ k \notin sch[t].batch
  BY <1>0, <1>1, <1>2 DEF Owns, Delivered, ThreadsApart
<1>4. /\ Continue(t, sch[t].mode, sch[t].batch)
      /\ (server = "up" /\ PushToRedis(k)) \/ UNCHANGED redisVars
  BY <1>2, NoDisorder DEF PushJob
<1>5. PICK state : /\ Become(t, state)
                   /\ state.job = NoJob /\ state.batch = sch[t].batch
                   /\ \/ state.pc = "reset" /\ state.mode = sch[t].mode
                      \/ state.pc = "idle" /\ state.mode = "promote" /\ t = "loop"
                      \/ state.pc = "exited" /\ state.mode = "promote" /\ t # "loop"
  <2>1. PICK b \in SUBSET Jobs : b = sch[t].batch
    BY <1>0 DEF ThreadState
  <2> QED
    BY <1>4, <2>1, ContinueFields
<1>6. sch'[t] = state /\ \A u \in Threads \ {t} : sch'[u] = sch[u]
  BY <1>0, <1>5 DEF Become, SchedulerTypeOK
<1>7. ThreadsApart'
  <2>1. state.job \notin state.batch
    BY <1>0, <1>5, StoresAssumption DEF ThreadState
  <2> QED
    BY <1>0, <1>1, <1>5, <1>6, <2>1 DEF Delivered, ThreadsApart
<1>8. \A j \in Jobs : ThreadsLeave(j)
  <2>1. ASSUME NEW j \in Jobs PROVE ThreadsLeave(j)
    <3>1. j \in state.batch \cup {state.job} => Owns(t, j)
      BY <1>1, <1>5, StoresAssumption DEF Owns
    <3>2. state.job # j
      BY <1>5, StoresAssumption
    <3> QED
      BY <1>0, <1>1, <1>5, <3>1, <3>2, BecomeTakes
  <2> QED
    BY <2>1
<1>9. CASE UNCHANGED redisVars
  <2>1. \A j \in Jobs : JobInv(j)'
    BY <1>1, <1>8, <1>9, UnchangedLeaves, Undisturbed DEF Delivered, workerVars, apiVars
  <2> QED
    BY <1>7, <1>9, <2>1, ListsRepeatNone DEF Delivered, redisVars
<1>10. CASE server = "up" /\ PushToRedis(k)
  <2>1. PICK q, target :
          /\ q \in Queues
          /\ target \in {<<"list", q>>, <<"prio", q>>}
          /\ RedisTakes(k, target)
    BY <1>0, <1>10, PushTakes
  <2>2. \A j \in Jobs \ {k} : RedisLeaves(j)
    BY <1>0, <1>10, PushTakes
  <2>3. ASSUME NEW j \in Jobs \ {k} PROVE JobInv(j)'
    BY <1>1, <1>8, <2>2, UnchangedLeaves, Undisturbed DEF Delivered, workerVars, apiVars
  <2>4. /\ Places(k) = {<<"thread", t>>}
        /\ \A n \in Queues : ~InList(n, k)
        /\ \A u \in Threads : Owns(u, k) => u = t
        /\ \A c \in Clients : ~Replaying(c, k)
        /\ ~Removing(k)
    BY <1>3, <1>10, ThreadAlone
  <2>5. /\ ~Settled(k) /\ jobs[k].status # "running"
    BY <1>2, <1>3 DEF JobInv, OwnedPlace, Settled
  <2>6. OnlyTakes(k, target)
    BY <1>8, <2>1, UnchangedTakes
       DEF OnlyTakes, ThreadsLeave, ThreadsTake, Nowhere, workerVars, apiVars
  <2>7. Places(k)' \subseteq {<<"thread", t>>, target}
    BY <2>4, <2>6, NewPlace
  <2>8. ~Owns(t, k)'
    BY <1>3, <1>5, <1>6, StoresAssumption DEF Owns
  <2>9. <<"thread", t>> \notin Places(k)'
    BY <2>8, PlaceKindsNext, PlacesDiffer DEF Owns, HoldsThread
  <2>10. /\ \A u \in Threads : ~Owns(u, k)'
         /\ \A c \in Clients : ~Replaying(c, k)'
         /\ ~Removing(k)'
    BY <1>8, <2>4, <2>8, UnchangedLeaves DEF ThreadsLeave, StillOwns, ClientsLeave, apiVars
  <2>11. JobInv(k)'
    BY <1>1, <1>3, <2>4, <2>5, <2>7, <2>9, <2>10, PlacedInRedis
  <2>12. NoRepeats'
    BY <1>0, <1>10, <2>4, PushRepeatsNone DEF Delivered
  <2> QED
    BY <1>7, <2>3, <2>11, <2>12 DEF Delivered
<1> QED
  BY <1>4, <1>9, <1>10

(* The server. *)
LEMMA ServerDelivers ==
  ASSUME TypeOK, RoutedIds, Delivered, OrderlyFaults, Server
  PROVE  Delivered'
<1>1. ASSUME SchedulerStep, UNCHANGED <<workerVars, apiVars>> PROVE Delivered'
  BY <1>1, DelayedTickDelivers, RemoveDueDelivers, RecoveryDelivers, ResetDelivers,
     PushDelivers
     DEF SchedulerStep, ThreadStep
<1> QED
  BY <1>1, ServerProcessDelivers DEF Server

-----------------------------------------------------------------------------
(* The theorems.                                                           *)

(* At first there is no job, and so no place. *)
LEMMA InitDelivered == Init => Delivered
<1> SUFFICES ASSUME Init PROVE Delivered
  OBVIOUS
<1>1. /\ TypeOK /\ \A q \in Queues : lists[q] = <<>>
      /\ \A j \in Jobs : jobs[j].status = "absent"
  BY InitTypeOK DEF Init, StoresInit, NoRow
<1>2. NoRepeats
  BY <1>1 DEF NoRepeats
<1>3. /\ Threads = {"loop", "startup"}
      /\ sch["loop"] = Idle /\ sch["startup"] = Scan
  BY DEF Init, SchedulerInit, Threads
<1>4. ThreadsApart
  BY <1>3, RestingFields DEF ThreadsApart
<1>5. ASSUME NEW j \in Jobs PROVE JobInv(j)
  <2>1. \A q \in Queues : ~InList(q, j) /\ j \notin prio[q]
    BY DEF Init, StoresInit, InList
  <2>2. delayed[j] = "no"
    BY DEF Init, StoresInit
  <2>3. \A g \in Goroutines : ~HoldsGoroutine(g, j)
    BY StoresAssumption DEF Init, WorkerInit, HoldsGoroutine, LoopTop, At
  <2>4. \A t \in Threads : ~Owns(t, j) /\ ~HoldsThread(t, j)
    BY <1>3, RestingFields DEF Owns, HoldsThread
  <2>5. \A c \in Clients : ~HoldsClient(c, j) /\ ~Replaying(c, j)
    BY RequestFields DEF Init, ApiInit, HoldsClient, Replaying
  <2>6. Places(j) = {}
    BY <2>1, <2>2, <2>3, <2>4, <2>5, PlaceKinds
  <2>7. ~Removing(j)
    BY <1>3, RestingFields DEF Removing
  <2> QED
    BY <2>4, <2>5, <2>6, <2>7
       DEF JobInv, OnePlace, SettledHasNone, RunningPlace, OwnedPlace, ReplayedHasNone,
           RemovedWaits
<1> QED
  BY <1>2, <1>4, <1>5 DEF Delivered

(* Every step keeps the invariant. *)
LEMMA NextDelivered ==
  ASSUME OrderlyFaults
  PROVE  TypeOK /\ RoutedIds /\ ReplaysApart /\ Delivered /\ [Next]_vars => Delivered'
<1> SUFFICES ASSUME TypeOK, RoutedIds, ReplaysApart, Delivered, [Next]_vars
             PROVE  Delivered'
  OBVIOUS
<1>1. CASE UNCHANGED vars
  <2>1. /\ UNCHANGED <<jobs, redisVars, gor, schedulerVars, cl>> /\ lists' = lists
    BY <1>1 DEF vars, storeVars, redisVars, workerVars, schedulerVars, apiVars
  <2>2. \A j \in Jobs : JobInv(j)'
    BY <2>1, UnchangedLeaves, Undisturbed DEF Delivered
  <2> QED
    BY <2>1, <2>2, ListsRepeatNone DEF Delivered, ThreadsApart, schedulerVars
<1> QED
  BY <1>1, ClockDelivers, ServerDelivers, WorkersDeliver, ClientsDeliver DEF Next

(* The invariant allows one delivery of each job, and none of a settled     *)
(* one.                                                                     *)
LEMMA OneDelivery == Delivered => SingleDelivery /\ SettledIsQuiet
<1> SUFFICES ASSUME Delivered PROVE SingleDelivery /\ SettledIsQuiet
  OBVIOUS
<1>1. ASSUME NEW j \in Jobs, NEW p \in Deliveries(j)
      PROVE  \/ p \in Places(j) /\ \A q \in Queues : p # <<"list", q>>
             \/ \E q \in Queues : \E i \in DOMAIN lists[q] :
                  p = <<"list", q, i>> /\ lists[q][i] = j
  BY DEF Deliveries, ListPlaces, Places
<1>2. ASSUME NEW j \in Jobs, NEW q \in Queues, NEW i \in DOMAIN lists[q], lists[q][i] = j
      PROVE  <<"list", q>> \in Places(j)
  BY <1>2, PlaceOf DEF InList
<1>3. \A j \in Jobs : \A p, r \in Places(j) : p = r
  BY DEF Delivered, JobInv, OnePlace
<1>4. ASSUME NEW j \in Jobs, NEW p \in Deliveries(j), NEW r \in Deliveries(j)
      PROVE  p = r
  <2>1. CASE p \in Places(j) /\ r \in Places(j)
    BY <1>3, <2>1
  <2>2. ASSUME NEW q \in Queues, NEW i \in DOMAIN lists[q], lists[q][i] = j,
               NEW s \in Deliveries(j)
        PROVE  s = <<"list", q, i>>
    <3>1. <<"list", q>> \in Places(j)
      BY <1>2, <2>2
    <3>2. CASE s \in Places(j) /\ \A n \in Queues : s # <<"list", n>>
      BY <1>3, <3>1, <3>2
    <3>3. CASE \E n \in Queues : \E m \in DOMAIN lists[n] :
                 s = <<"list", n, m>> /\ lists[n][m] = j
      <4>1. PICK n \in Queues : \E m \in DOMAIN lists[n] :
              s = <<"list", n, m>> /\ lists[n][m] = j
        BY <3>3
      <4>2. PICK m \in DOMAIN lists[n] : s = <<"list", n, m>> /\ lists[n][m] = j
        BY <4>1
      <4>3. n = q
        <5>1. <<"list", n>> \in Places(j)
          BY <1>2, <4>2
        <5>2. <<"list", n>> = <<"list", q>>
          BY <1>3, <3>1, <5>1
        <5> QED
          BY <5>2
      <4> QED
        BY <2>2, <4>2, <4>3 DEF Delivered, NoRepeats
    <3> QED
      BY <1>1, <3>2, <3>3
  <2> QED
    BY <1>1, <2>1, <2>2
<1>5. ASSUME NEW j \in Jobs, Settled(j) PROVE Deliveries(j) = {}
  <2>1. Places(j) = {}
    BY <1>5 DEF Delivered, JobInv, SettledHasNone
  <2> QED
    BY <1>1, <1>2, <2>1
<1> QED
  BY <1>4, <1>5 DEF SingleDelivery, SettledIsQuiet

(* The invariant holds of every behaviour that replays no job twice at a    *)
(* time.                                                                    *)
LEMMA AlwaysDelivered ==
  ASSUME OrderlyFaults PROVE Spec /\ []ReplaysApart => []Delivered
<1>1. Init => Delivered
  BY InitDelivered
<1>2. TypeOK /\ RoutedIds /\ ReplaysApart /\ Delivered /\ [Next]_vars => Delivered'
  BY NextDelivered
<1> QED
  BY <1>1, <1>2, TypeCorrectness, IdsAreRouted, PTL DEF Spec

(* Whatever crashes, stops and fails, the duty to run a job is in one place *)
(* at most: promotion, recovery, retry and replay move it and never double  *)
(* it (Scheduler.promoteDelayedJobs and recoverStuckJobs, Worker, and       *)
(* Queue.ReplayDeadJob).                                                    *)
THEOREM DeliveryIsSingle ==
  ASSUME OrderlyFaults PROVE Spec /\ []ReplaysApart => []SingleDelivery
  BY AlwaysDelivered, OneDelivery, PTL

(* Nothing will run a job that is completed or dead. *)
THEOREM SettledJobsAreQuiet ==
  ASSUME OrderlyFaults PROVE Spec /\ []ReplaysApart => []SettledIsQuiet
  BY AlwaysDelivered, OneDelivery, PTL

-----------------------------------------------------------------------------
(* When replays are apart: where a client never replays, and where one     *)
(* request runs at a time.                                                 *)

(* Only clients that use these operations replay or cancel. *)
LEMMA RequestCalls ==
  ASSUME TypeOK, [Next]_vars, NEW c \in Clients
  PROVE  /\ cl'[c].pc = "replay" => cl[c].pc = "replay" \/ "replay" \in Operations
         /\ cl'[c].pc = "cancel" => cl[c].pc = "cancel" \/ "cancel" \in Operations
<1> DEFINE Goal == /\ cl'[c].pc = "replay" => cl[c].pc = "replay" \/ "replay" \in Operations
                   /\ cl'[c].pc = "cancel" => cl[c].pc = "cancel" \/ "cancel" \in Operations
<1>0. ApiTypeOK
  BY DEF TypeOK
<1>1. CASE UNCHANGED cl
  BY <1>1
<1>2. CASE cl' = [d \in Clients |-> NoRequest]
  BY <1>2, RequestFields
<1>3. ASSUME NEW d \in Clients, NEW req, cl' = [cl EXCEPT ![d] = req],
             /\ req.pc = "replay" => "replay" \in Operations
             /\ req.pc = "cancel" => "cancel" \in Operations
      PROVE  Goal
  BY <1>0, <1>3 DEF ApiTypeOK
<1>4. ASSUME NEW d \in Clients, ClientStep(d) \/ ClientRequest(d)
      PROVE  Goal
  <2>1. CASE CreateJob(d) \/ PlaceOrder(d) \/ ContinueOrder(d)
    <3>1. PICK req : req.pc \in {"delay", "push", "idle"} /\ cl' = [cl EXCEPT ![d] = req]
      BY <1>0, <2>1, CreateSteps, RequestFields DEF Create, Respond
    <3> QED
      BY <1>3, <3>1
  <2>2. CASE DelayJob(d) \/ PushRequest(d)
    BY <1>1, <1>3, <2>2, RequestFields DEF DelayJob, PushRequest, Enqueued, Respond
  <2>3. CASE ReplayReset(d) \/ ReplayRemove(d) \/ CancelJob(d)
    BY <1>3, <2>3, RequestFields DEF ReplayReset, ReplayRemove, CancelJob, Call, Respond
  <2>4. CASE ReplayCheck(d) \/ CancelCheck(d)
    BY <1>3, <2>4, RequestFields DEF ReplayCheck, CancelCheck, Call
  <2> QED
    BY <1>4, <2>1, <2>2, <2>3, <2>4 DEF ClientStep, ClientRequest
<1> HIDE DEF Goal
<1> QED
  <2>1. Goal
    BY <1>1, <1>2, <1>4
       DEF Next, Clock, BecomeStuck, Server, StopServer, StopScheduler, ExitServer,
           CrashServer, StartServer, WorkersNext, ClientsNext, vars, apiVars, Goal
  <2> QED
    BY <2>1 DEF Goal

(* Two requests that replay one job at a time need two requests and the     *)
(* operation: without either, no behaviour of the system is excluded by     *)
(* ReplaysApart (RetryJob of handlers.go).                                  *)
THEOREM ReplaysStayApart ==
  ASSUME "replay" \notin Operations \/ \A c, d \in Clients : c = d
  PROVE  Spec => []ReplaysApart
<1> DEFINE Unused == "replay" \notin Operations => \A c \in Clients : cl[c].pc # "replay"
<1>1. Init => Unused
  BY RequestFields DEF Init, ApiInit
<1>2. TypeOK /\ Unused /\ [Next]_vars => Unused'
  BY RequestCalls
<1>3. Unused => ReplaysApart
  BY DEF ReplaysApart, Replaying
<1> HIDE DEF Unused
<1> QED
  BY <1>1, <1>2, <1>3, TypeCorrectness, PTL DEF Spec
=============================================================================
