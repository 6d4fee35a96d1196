CONSTANTS
  NoToken = NoToken  NoFamily = NoFamily  NoNode = NoNode  NoState = NoState
  NoEmail = NoEmail  NoUser = NoUser  NoId = NoId
  t1 = t1  t2 = t2  t3 = t3  u2 = u2  n1 = n1  n2 = n2  x1 = x1  x2 = x2
  Tokens = {t1, t2, t3}
  Families = {f1}
  Requests = {r1, r2}
  Nodes = {n1}
  MaxChanges = 1
  Entrants = {r1, r2}
  Emails = {e1}
  MaxFailures = 2
  Threshold = 1
  PerWindow = 1
  MaxAttempts = 4
  Users = {u1, u2, u3, u4}
  Founders = {u1, u2}
  Creator = u1
  Operation = q1
  Listeners = {u2}
  ApiNodes = {n1, n2}
  ServedBy <- OnOneNode
  SocketNode <- ListenersElsewhere
  MaxMembers = 3
  MaxAdds = 2
  Handlers = {r1, r2}
  MaxCrashes = 1
  Moderators = {u1, u2}
  Reports = {q1}
  Visits = {f1}
  MaxFilings = 2
  MaxTime = 1
  Days = 1
  Conns = {x1, x2}
  Hosts = {n1, n2}
  NodeOf <- OnTwoNodes
  MaxDeaths = 1
  MaxSettings = 1
  Accounts = {u1, u2}
  MaxLogins = 2
  MaxPushes = 1
SPECIFICATION AccountsSpec
SYMMETRY Symmetry
INVARIANTS
  TypeOK OneHeir GuessesBounded 
PROPERTIES DeadSessionsStayDead PhoneAccountSound
CHECK_DEADLOCK FALSE
