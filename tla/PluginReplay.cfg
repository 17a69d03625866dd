SPECIFICATION ReplaySpec
CONSTANTS
  c1 = c1
  Channel <- MCChannel
  NoChannel = NoChannel
  MaxSock = 2
  Priority <- MCPriority
  QueueCapacity = 2
  QueueLimit = 2
  OfflineLimit = 2
  MaxItem = 3
INVARIANTS
  ReplayTypeOK
  OfflineItemNotLost
  ProcessingWasSent
PROPERTY NoResendOnceSent
CHECK_DEADLOCK FALSE
