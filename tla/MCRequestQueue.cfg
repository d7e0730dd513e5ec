SPECIFICATION Spec
CONSTANTS
  r1 = r1  r2 = r2  r3 = r3
  n1 = n1  n2 = n2
  m1 = m1  m2 = m2
  rt1 = rt1  rt2 = rt2
  Requests = {r1, r2}
  Nodes = {n1}
  Models = {m1}
  Routers = {rt1}
  ModelOf <- OneModel
  RouterOf <- OneRouter
  Challenges <- Challenge
  MaxQueue = 1
  MaxRetries = 1
  Beats = {"idle"}
  Offline = Offline
  NoNode = NoNode
  NoRequest = NoRequest
INVARIANTS
  TypeOK
  QueueBound
  NoLostRequest
PROPERTIES
  EveryRequestEnds
  AnsweredOnce
