CONSTANTS
  ann = ann  ben = ben  cat = cat
  a1 = a1  a2 = a2  b1 = b1  c1 = c1
  k1 = k1  k2 = k2  w1 = w1  w2 = w2
  NoUser = NoUser  NoCall = NoCall  NoConn = NoConn
  Users = {ann,ben}
  Owner <- MCOwner
  Blockable <- Nobody
  Conns = {a1,b1}
  Calls = {k1}
  Workers = {w1,w2}
  MaxCrashes = 0
CHECK_DEADLOCK FALSE
SPECIFICATION UnboundSpec
INVARIANT CutOffIsMarked
