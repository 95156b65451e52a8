------------------------------- MODULE MCFeed -------------------------------
(* The instances of EventFeed that TLC checks. *)
EXTENDS EventFeed

MCSenders == Jobs \cup {Poller, Stats}
MCEvents == JobEvents \cup {StatsEvent}
=============================================================================
