SPECIFICATION FairSpec
CONSTANTS
  Jobs = {j1}
  Limits = {2}
  Clients = {k1, k2}
  Senders <- MCSenders
  Events <- MCEvents
  BufferSize = 1
  Poller = poller
  Stats = stats
  NoClient = noClient
  Overlap = 2
  CommitDelay = 1
  FeedFaults = {"poll_error", "disconnect", "fetch_error", "stats"}
  MaxFeedFaults = 1
  MaxReturns = 1
INVARIANTS
  FeedTypeOK
  NoSendOnClosed
PROPERTY
  FeedConverges
