SPECIFICATION RegSpec
CONSTANTS
  k1 = k1
  k2 = k2
  q = q
  i1 = i1
  i2 = i2
  Key <- MCKey
  Name <- MCName
  QuickName <- MCQuickName
  Ip <- MCIp
  NoKey = NoKey
  RateWindow = 2
  RateMax = 1
  MaxChannel = 2
  MaxTask = 2
  MaxPass = 2
  MaxClock = 3
INVARIANTS
  RegTypeOK
  ActiveNotDisconnected
  RateLimited
PROPERTY SameAnswer
SYMMETRY MCRegSymmetry
CHECK_DEADLOCK FALSE
