SPECIFICATION Spec
CONSTANTS
  PixelShaders <- MCPixelShaders
  Pairs <- MCPairs
  SwappedTarget = TRUE
  SwappedTextures = {1}
INVARIANT PixelComputed
INVARIANT VertexComputed
CHECK_DEADLOCK FALSE
