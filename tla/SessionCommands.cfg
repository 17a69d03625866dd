SPECIFICATION CmdSpec
CONSTANTS
  c1 = c1
  s1 = s1
  s2 = s2
  Channel <- MCChannel
  Sender <- MCSender
  PendingLimit = 1
  MaxCmd = 4
  MaxAck = 2
INVARIANTS
  CmdTypeOK
  CurrentMatchesPlugin
PROPERTIES
  CurrentNeverGoesBack
  PendingGetsSettled
CHECK_DEADLOCK FALSE
