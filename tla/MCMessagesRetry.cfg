CONSTANTS
  NoUser = NoUser
  NoId = NoId
  NoConv = NoConv
  Users = {u1}
  Convs = {c1}
  MsgIds = {k1}
  Requests = {r1, r2}
  MaxSystem = 0
  Slots = {a1, a2}
  Sends = {s1, s2}
  MaxAttempts = 2
  MaxRetries = 1
  MaxCrashes = 1
  None = None
  x1 = x1
  x2 = x2
  Browsers = {x1, x2, x3}
  Tabs = {t1, t2}
  BrowserOf <- OneBrowser
  UserOf <- TwoPeople
  MaxPerUser = 2
  MaxDevices = 1
  MaxKeys = 2
  MaxSends = 2
  Leaving = {x1}
SPECIFICATION MessagesSpec
INVARIANT RetryFindsOriginal
CHECK_DEADLOCK FALSE
