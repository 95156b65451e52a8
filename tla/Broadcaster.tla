----------------------------- MODULE Broadcaster -----------------------------
(***************************************************************************)
(* The Broadcaster of internal/api/sse.go: the set of connected clients,   *)
(* each with a buffered channel, behind a read-write mutex.  Any goroutine *)
(* of the server broadcasts; Broadcast holds the read lock while it goes   *)
(* through the clients, so several can be at it at once.  Register and     *)
(* the cleanup function take the write lock.                               *)
(*                                                                         *)
(* The critical sections of the write lock are one step each: they need    *)
(* that nobody holds the read lock.  Broadcast is one step per client it   *)
(* sends to, and a goroutine holds the read lock as long as it has a       *)
(* client to go.                                                           *)
(***************************************************************************)
EXTENDS Integers, Sequences

CONSTANTS
  Clients,     \* the connections there may be at a time
  Senders,     \* the goroutines that broadcast
  Events,      \* what they broadcast
  BufferSize   \* the capacity of a channel (32 in the code)

VARIABLES
  registered,   \* b.clients
  closed,       \* the clients whose channel has been closed
  ch,           \* the channel of each client, oldest event first
  sending       \* the Broadcast call of each sender: the event, and the
                \* clients it has still to be sent to

broadcasterVars == <<registered, closed, ch, sending>>

Call(to, events) == [to |-> to, events |-> events]
NoCall == Call({}, {})

BroadcasterTypeOK ==
  /\ registered \in SUBSET Clients
  /\ closed \in SUBSET Clients
  /\ registered \cap closed = {}
  /\ ch \in [Clients -> Seq(Events)]
  /\ \A c \in Clients : Len(ch[c]) <= BufferSize
  /\ sending \in [Senders -> [to : SUBSET Clients, events : SUBSET Events]]

BroadcasterInit ==
  /\ registered = {}
  /\ closed = {}
  /\ ch = [c \in Clients |-> <<>>]
  /\ sending = [s \in Senders |-> NoCall]

Sends(s) == sending[s].to # {}

\* No goroutine holds the read lock: the write lock can be taken.
WriteLock == \A s \in Senders : ~Sends(s)

-----------------------------------------------------------------------------
\* A new client with an empty channel; it may have the name of one that is
\* gone.
Register(c) ==
  /\ c \notin registered
  /\ WriteLock
  /\ registered' = registered \cup {c}
  /\ closed' = closed \ {c}
  /\ UNCHANGED <<ch, sending>>

\* Mutant: the channel is closed without the lock.
CleanupUnlocked(c) ==
  /\ c \in registered
  /\ registered' = registered \ {c}
  /\ closed' = closed \cup {c}
  /\ ch' = [ch EXCEPT ![c] = <<>>]
  /\ UNCHANGED sending

\* The function that Register returns.  Its goroutine has stopped receiving:
\* what is left in the channel is lost.
Cleanup(c) ==
  /\ c \in registered
  /\ WriteLock
  /\ registered' = registered \ {c}
  /\ closed' = closed \cup {c}
  /\ ch' = [ch EXCEPT ![c] = <<>>]
  /\ UNCHANGED sending

\* Broadcast takes the read lock; with no client it returns at once.
Broadcast(s, event) ==
  /\ ~Sends(s)
  /\ sending' = [sending EXCEPT
       ![s] = IF registered = {} THEN NoCall ELSE Call(registered, {event})]
  /\ UNCHANGED <<registered, closed, ch>>

\* Mutant: the channel has no capacity limit.
SendUnbounded(s, c) ==
  /\ c \in sending[s].to
  /\ \E event \in sending[s].events : ch' = [ch EXCEPT ![c] = Append(@, event)]
  /\ sending' = [sending EXCEPT
       ![s] = IF @.to = {c} THEN NoCall ELSE Call(@.to \ {c}, @.events)]
  /\ UNCHANGED <<registered, closed>>

\* The next client of the loop: its event is dropped if its buffer is full.
Send(s, c) ==
  /\ c \in sending[s].to
  /\ \E event \in sending[s].events :
       ch' = [ch EXCEPT ![c] = IF Len(@) < BufferSize THEN Append(@, event) ELSE @]
  /\ sending' = [sending EXCEPT
       ![s] = IF @.to = {c} THEN NoCall ELSE Call(@.to \ {c}, @.events)]
  /\ UNCHANGED <<registered, closed>>

\* The goroutine that serves client c receives the next event.
Receive(c) ==
  /\ ch[c] # <<>>
  /\ ch' = [ch EXCEPT ![c] = Tail(@)]
  /\ UNCHANGED <<registered, closed, sending>>

-----------------------------------------------------------------------------
\* Nobody sends on a closed channel (which would panic, and in the poller end
\* the server): Broadcast and the cleanup function exclude each other.
NoSendOnClosed == \A s \in Senders : sending[s].to \cap closed = {}

=============================================================================
