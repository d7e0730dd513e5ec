SPECIFICATION Spec
CHECK_DEADLOCK FALSE
CONSTANTS
  r1 = r1  r2 = r2  r3 = r3  r4 = r4
  n1 = n1  n2 = n2
  Requests = {r1, r2}
  Streaming = {r1}
  Nodes = {n1, n2}
  MaxRetries = 1
  Chunks <- OneChunk
  MaxConnections = 2
  Together <- AllTogether
  Leaving = {r1, r2}
  NoNode = NoNode
  NoRequest = NoRequest
SYMMETRY AlikeNodes
INVARIANTS
  CompleteResponse
