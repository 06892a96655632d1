\* Claims that the code does not keep (README, section 7).
\* One at a time: TLC stops at the first counterexample.
SPECIFICATION SafetySpec
CONSTANTS
  r1 = r1
  p1 = p1
  Buffers <- MCBuffers
  PagingBuffers <- MCPaging
  NoBuffer = NoBuffer
  PoolSize = 3
  MaxPending = 2
  Triggers <- AllTriggers
  MaxFence = 3
PROPERTY AbortedIsUncompleted
\* INVARIANT RecordedPreemptionIsAnswered
