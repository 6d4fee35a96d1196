CONSTANTS
  u1 = u1  u2 = u2  u3 = u3  r1 = r1  r2 = r2  n1 = n1  n2 = n2
  c1 = c1  c2 = c2  k1 = k1  NoUser = NoUser  NoId = NoId  NoConv = NoConv
  Users = {u1, u2, u3}
  Creator = u1
  Nodes = {n1, n2}
  ServedBy <- AllOnOne
  SocketNode <- HereAndThere
  Online = {u2}
  Founders = {u1,u2}
  Requests = {r1}
  MaxMembers = 3
  MaxAdds = 0
SPECIFICATION MembersSpec
INVARIANT RemovedHearNothing
CHECK_DEADLOCK FALSE
