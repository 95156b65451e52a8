SPECIFICATION FairSpec
CONSTANTS
  Jobs = {j1, j2}
  Limits = {1}
  Clients = {k1}
  Senders <- MCSenders
  Events <- MCEvents
  BufferSize = 1
  Poller = poller
  Stats = stats
  NoClient = noClient
  Overlap = 2
  CommitDelay = 1
  FeedFaults = {}
  MaxFeedFaults = 0
  MaxReturns = 0
PROPERTY
  FeedCatchesUp
