SPECIFICATION Spec
CONSTANTS
  dummy = dummy
  t1 = t1
  t2 = t2
  d1 = d1
  spare = spare
  Resources <- MCResources
  dummyBuffer = dummy
  SwapChain <- MCSwapChain
  Dynamic <- MCDynamic
  Allocations <- MCAllocations
  FirstAllocation <- MCFirstAllocation
  NoTarget = NoTarget
  Unwritten = Unwritten
  CommandBufferSize = 10
  AllocationListSize = 7
  PatchLocationListSize = 8
  CommandThreshold = 1
  AllocationThreshold = 1
  PatchThreshold = 1
  HeaderSize = 1
  CopySize = 2
  DrawSize = 2
  EpilogSize = 1
  MaxStateCommands = 3
  MaxAllocationsUsed = 3
  MaxPatchLocations = 3
  StateSizes <- MCStateSizes
  MaxFence = 3
INVARIANT ListsNotOverrun
INVARIANT PatchesResolve
INVARIANT OneTarget
INVARIANT MappedIsNotQueued
INVARIANT ClearPrecedesDraws
PROPERTY NothingLost
SYMMETRY MCSymmetry
