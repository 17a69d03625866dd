SPECIFICATION MsgSpec
CONSTANTS
  c1 = c1
  d1 = d1
  DedupId <- MCDedupId
  NoDedup = NoDedup
  DedupWindow = 0
  DedupLimit = 1
  Channel <- MCChannel
  NoChannel = NoChannel
  PageLimit = 1
  MaxMsg = 3
  MaxNow = 2
INVARIANTS
  MsgTypeOK
  CursorSkipsOnlyTies
  AckedIsFinal
  DuplicatesAreFar
PROPERTY EventuallySettled
CHECK_DEADLOCK FALSE
