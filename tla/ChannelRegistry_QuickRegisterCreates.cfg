SPECIFICATION RegSpec
CONSTANTS
  k1 = k1
  k2 = k2
  q = q
  i1 = i1
  i2 = i2
  Key <- MCKey
  Name <- MCPlainName
  QuickName <- MCQuickName
  Ip <- MCIp
  NoKey = NoKey
  RateWindow = 1
  RateMax = 2
  MaxChannel = 2
  MaxTask = 1
  MaxPass = 2
  MaxClock = 1
PROPERTY QuickRegisterCreates
CHECK_DEADLOCK FALSE
