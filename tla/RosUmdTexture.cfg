SPECIFICATION Spec
CONSTANTS
  t1 = t1
  t2 = t2
  p1 = p1
  Textures = {t1, t2}
  Pictures = {p1}
  Junk = Junk
  Sizes <- MCSizes
  Padding <- MCPadding
  MicroTileWidth = 2
  MicroTileHeight = 1
  SubTileSide = 2
  BinningTiles = 2
INVARIANT ImageKept
INVARIANT TiledReadsInBounds
