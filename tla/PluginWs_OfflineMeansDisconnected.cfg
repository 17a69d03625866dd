SPECIFICATION Spec
CONSTANTS
  c1 = c1
  c2 = c2
  Channel <- MCChannel
  NoChannel = NoChannel
  MaxSock = 4
INVARIANT OfflineMeansDisconnected
CHECK_DEADLOCK FALSE
