SPECIFICATION FairSpec
CONSTANTS
  Client = {c1, c2}
  Method = {"settag", "search"}
  Env = {"quit", "crash"}
  Chunk = 3
  MaxResponse = 3
  RequestLen = {4}
  ListLen = {1, 3}
  NoFd = NoFd
  MaxCalls = 2
  MaxDeaths = 1
INVARIANTS
  
  OwnAnswer
  Truth
PROPERTIES
  RpcSpec
  EveryToolEnds
  EveryThreadEnds
CHECK_DEADLOCK FALSE
