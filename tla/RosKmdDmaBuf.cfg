SPECIFICATION Spec
CONSTANTS
  a1 = a1
  a2 = a2
  p1 = p1
  p2 = p2
  d1 = d1
  d2 = d2
  g1 = g1
  o1 = o1
  o2 = o2
  None = None
  Allocations <- MCAllocations
  Places <- MCPlaces
  RenderBuffers <- MCRenderBuffers
  PagingBuffers <- MCPagingBuffers
  ApertureOffsets <- MCApertureOffsets
  Commands <- MCCommands
  MaxSelfRef = 1
  PagingCapacity = 1
INVARIANT ExecutesOnOwnData
INVARIANT SelfReferencesAreOwn
INVARIANT PrivateDataIsOwn
INVARIANT NoDataLost
SYMMETRY Symmetry
