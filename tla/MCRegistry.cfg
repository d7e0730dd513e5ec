SPECIFICATION Spec
CONSTANTS
  n1 = n1  n2 = n2
  p1 = p1  p2 = p2
  s1 = s1  s2 = s2  s3 = s3
  c1 = c1
  Nodes = {n1}
  Routers = {p1, p2}
  Sockets = {s1, s2}
  NodeOf <- TwiceAndOnce
  RouterOf <- MovesOn
  Reporting = {s1}
  Calls = {c1}
  Marked <- MarkFirst
  MayCrash = {p1}
  NoSocket = NoSocket
  NoRouter = NoRouter
  NoNode = NoNode
INVARIANTS
  TypeOK
  LocalIsLive
  UndisturbedIsListed
  ListedIsConnected
PROPERTIES
  ForgottenStaysForgotten
