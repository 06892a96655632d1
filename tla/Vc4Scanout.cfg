SPECIFICATION Spec
CONSTANTS
  b0 = b0
  b1 = b1
  b2 = b2
  Buffers <- MCBuffers
  FirstBuffer = b0
  Bios = Bios
  None = None
INVARIANT FreeIsNotScanned
INVARIANT StartFindsBios
PROPERTY FlipIsReported
