SPECIFICATION StreamSpec
CONSTANTS
  m1 = m1
  m2 = m2
  MessageId <- MCMessageId
  MaxSeqNo = 1
  MaxLog = 6
INVARIANTS
  DoneIsWhatWasShown
  EveryPieceHasOneFate
SYMMETRY MCStreamSymmetry
CHECK_DEADLOCK FALSE
