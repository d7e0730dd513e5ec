SPECIFICATION Spec
CONSTANTS
  n1 = n1  n2 = n2
  p1 = p1  p2 = p2
  s1 = s1  s2 = s2  s3 = s3
  c1 = c1
  Nodes = {n1, n2}
  Routers = {p1}
  Sockets = {s1, s3}
  NodeOf <- TwiceAndOnce
  RouterOf <- ComesBack
  Reporting = {}
  Calls = {}
  Marked <- MarkFirst
  MayCrash = {}
  NoSocket = NoSocket
  NoRouter = NoRouter
  NoNode = NoNode
PROPERTIES
  SilentIsEvicted
