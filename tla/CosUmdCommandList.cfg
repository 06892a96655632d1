SPECIFICATION Spec
CONSTANTS
  a1 = a1
  a2 = a2
  NoAllocation = NoAllocation
  Allocations <- MCAllocations
  Signatures <- MCSignatures
  ShaderSizes <- MCShaderSizes
  TensorBindings <- MCTensorBindings
  HeapSize = 2
  RootSignatureSize = 5
  CommandBufferSize = 72
  AllocationListSize = 5
  PatchLocationListSize = 5
  MaxCommandBuffers = 2
  MaxCommands = 2
INVARIANT PatchesNameTheirAllocation
INVARIANT ListsWithinBuffer
INVARIANT BuffersAccountedFor
INVARIANT RecordedInOrder
CHECK_DEADLOCK FALSE
SYMMETRY Symmetry
