CONSTANTS
  u1 = u1  u2 = u2
  ann = ann  ben = ben
  a1 = a1  b1 = b1  b2 = b2  k1 = k1  w1 = w1
  t1 = t1  f1 = f1  r1 = r1  n1 = n1
  NoUser = NoUser  NoCall = NoCall  NoConn = NoConn
  NoToken = NoToken  NoFamily = NoFamily  NoNode = NoNode  NoState = NoState
  None = None
  People = {u1, u2}
  Emojis = {"e", "f"}
  MaxDistinct = 1
  Texts = {"a", "b"}
  MaxChanges = 2
  MaxCrashes = 1
CHECK_DEADLOCK FALSE
SPECIFICATION ProgressSpec
 
PROPERTIES
  CallsResolve
  MediaFlows
  RefusedForGood
  Drains
