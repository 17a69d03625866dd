SPECIFICATION TabSpec
CONSTANTS
  c1 = c1
  c2 = c2
  k1 = k1
  m1 = m1
  m2 = m2
  Channel <- MCChannel
  Global = Global
  Client <- MCClient
  SlotOf <- MCSlotOf
  MessageId <- MCMessageId
  ChannelOf <- MCChannelOf
  MaxBufferEntries = 2
  MaxSeq = 5
  MaxSeqNo = 1
  MaxLog = 3
  None = None
INVARIANTS
  TabTypeOK
  TabShowsReply
PROPERTY FeedSpec
CHECK_DEADLOCK FALSE
