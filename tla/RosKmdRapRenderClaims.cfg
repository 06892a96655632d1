\* Claims that the code does not keep (README, section 7).
SPECIFICATION SafetySpec
CONSTANTS
  h1 = h1
  h2 = h2
  s1 = s1
  Buffers <- MCBuffers
  PagingBuffers <- MCPaging
  SwBuffers <- MCSw
  NoBuffer = NoBuffer
  PoolSize = 3
  MaxPending = 2
  MaxFence = 3
INVARIANT ReadyMeansMapped
