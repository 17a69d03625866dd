SPECIFICATION FrontSpec
CONSTANTS
  c1 = c1
  t1 = t1
  t2 = t2
  m1 = m1
  Channel <- MCChannel
  NoChannel = NoChannel
  MaxSock = 2
  Tab <- MCTab
  Message <- MCMessage
  MsgChannel <- MCMsgChannel
  Fact <- MCFact
INVARIANTS
  FrontTypeOK
  SubscribersAreLive
  TabShowsTable
  StatusShownIsColumn
CHECK_DEADLOCK FALSE
SYMMETRY MCTabSymmetry
