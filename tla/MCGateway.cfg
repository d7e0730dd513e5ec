SPECIFICATION Spec
CHECK_DEADLOCK FALSE
CONSTANTS
  r1 = r1  r2 = r2  r3 = r3  r4 = r4
  n1 = n1  n2 = n2
  Requests = {r1, r2, r3, r4}
  Streaming = {r2, r3}
  Nodes = {n1}
  MaxRetries = 1
  Chunks <- TwoOneNone
  MaxConnections = 2
  Together <- AloneOrPair
  Leaving = {r2}
  NoNode = NoNode
  NoRequest = NoRequest
INVARIANTS
  TypeOK
  ActiveIsTracked
  TrackedIsCurrent
  ChunksInOrder
  FirstAttemptIsWhole
  UnansweredIsRetriedStream
PROPERTIES
  NothingAfterTheEnd
  SuccessIsWhole
  AcquiresInTurn
  EveryHandlerReturns
