SPECIFICATION Spec
CONSTANTS
  c1 = c1
  c2 = c2
  Channel <- MCChannel
  NoChannel = NoChannel
  MaxSock = 4
INVARIANTS
  OnlineIsLiveOnceFresh
  OfflineIsUnreachable
  ReconnectingHasTimer
  PushGoesToNewest
PROPERTY GoneGoesOffline
CHECK_DEADLOCK FALSE
