SPECIFICATION FeedSpec
CONSTANTS
  c1 = c1
  Conn <- MCConn
  NoConn = NoConn
  Published <- MCPublished
  Attempts = 1
  Buffer = 2
  MaxFrames = 1
  MaxTimers = 1
  MaxMounts = 1
PROPERTIES
  OrderUpdatesStreamed
CHECK_DEADLOCK FALSE
