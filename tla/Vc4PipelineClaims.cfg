\* Claims that the code does not keep (README, section 7).
\* One at a time: TLC stops at the first counterexample.
SPECIFICATION Spec
CONSTANTS
  PixelShaders <- MCPixelShaders
  Pairs <- MCPairs
  SwappedTarget = TRUE
  SwappedTextures = {1}
CHECK_DEADLOCK FALSE
INVARIANT DotProductComputed
\* INVARIANT PositionIsFound
