SPECIFICATION Spec
CONSTANTS
  r1 = r1
  p1 = p1
  Buffers <- MCBuffers
  PagingBuffers <- MCPaging
  NoBuffer = NoBuffer
  PoolSize = 3
  MaxPending = 2
  Triggers <- AllTriggers
  MaxFence = 3
PROPERTY KeepsContract
PROPERTY SubmissionEnds
PROPERTY DdiReturns
INVARIANT PoolConserved
INVARIANT FreeEntryAvailable
INVARIANT InFlightIsOutstanding
INVARIANT HangPersists
INVARIANT ResetQuiesces
