\* Claims that the code does not keep (README, section 7).
\* One at a time: TLC stops at the first counterexample.
SPECIFICATION Spec
CONSTANTS
  t1 = t1
  t2 = t2
  p1 = p1
  Textures = {t1, t2}
  Pictures = {p1}
  Junk = Junk
  Sizes <- MCSizes
  Padding <- MCPadding
  MicroTileWidth = 2
  MicroTileHeight = 1
  SubTileSide = 2
  BinningTiles = 2
INVARIANT CopyAssertions
\* PROPERTY OneTextureWritten
\* INVARIANT CopyKeepsImage     with Padding = {0}
