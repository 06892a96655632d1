---------------------------- MODULE RosUmdTexture ----------------------------
(***************************************************************************)
(* How rosumd lays out two-dimensional textures in memory and copies them  *)
(* (rosumd/RosUmdResource.cpp, ResourceCopy and CreateResource of          *)
(* rosumd/RosUmdDevice.cpp).  The bind flags of a texture decide its       *)
(* layout: rows one after the other (Linear), or the T-format of the VC4   *)
(* (Tiled), and how its width and height are rounded up.                   *)
(*                                                                         *)
(* The driver knows the T-format twice: ConvertBitmapTo4kTileBlocks writes *)
(* it in the order of memory, TileCoord finds the place of a micro-tile.   *)
(* A texture in T-format is a sequence of tiles, left to right in even     *)
(* rows of tiles and right to left in odd ones; a tile is four sub-tiles   *)
(* in an order that depends on the row; a sub-tile is SubTileSide rows of  *)
(* SubTileSide micro-tiles; a micro-tile is MicroTileHeight lines.         *)
(*                                                                         *)
(* The unit of memory is a pixel (32 bits, the only format of the tiled    *)
(* mode).  The lengths are constants because the tile of the hardware, 32  *)
(* by 32 pixels, would only make the instance larger.                      *)
(*                                                                         *)
(* Two of the driver's memcpys do not look at the size of what they write  *)
(* to.  What goes past the end of an allocation is not dropped: it lands   *)
(* at the beginning of another texture, or where no texture lies.          *)
(***************************************************************************)
EXTENDS Naturals

CONSTANTS
    Textures,
    Pictures,           \* what an application may put into a texture
    Sizes,              \* [w, h] in pixels of the textures of a behaviour
    Padding,            \* what SysMemPitch may exceed the width by
    MicroTileWidth,     \* 4 pixels, 16 bytes
    MicroTileHeight,    \* 4
    SubTileSide,        \* 4 micro-tiles
    BinningTiles,       \* side of a binning tile in tiles: 64 / 32
    Junk

ASSUME LengthsAssumption ==
    /\ {MicroTileWidth, MicroTileHeight, SubTileSide, BinningTiles}
          \subseteq Nat \ {0}
    /\ Sizes \subseteq [w : Nat \ {0}, h : Nat \ {0}]
    /\ Padding \subseteq Nat

\* AlignValue clears bits: it rounds up to multiples of powers of two.
ASSUME AlignmentsAssumption ==
    {MicroTileWidth, MicroTileHeight, SubTileSide, BinningTiles}
        \subseteq {2 ^ k : k \in 0 .. 15}

SubTileWidth == SubTileSide * MicroTileWidth
SubTileHeight == SubTileSide * MicroTileHeight
TileWidth == 2 * SubTileWidth
TileHeight == 2 * SubTileHeight
MicroTileSize == MicroTileWidth * MicroTileHeight
SubTileSize == SubTileSide * SubTileSide * MicroTileSize
TileSize == 4 * SubTileSize

VARIABLES
    size,       \* of every texture: CopyResource wants equal ones
    texture,    \* [Textures -> kind, or "none"]
    memory,     \* the allocation of a texture: its place to what it holds
    picture,    \* what Direct3D says a texture shows
    lost        \* the picture is gone: filled by a plain copy from another
                \* layout, or written over from the end of another texture

vars == <<size, texture, memory, picture, lost>>

-----------------------------------------------------------------------------
(* CalculateMemoryLayout *)

\* (value + (alignment - 1)) & ~(alignment - 1), by AlignmentsAssumption.
AlignValue(value, alignment) ==
    ((value + alignment - 1) \div alignment) * alignment

\* Kinds of texture, by bind flags and usage.
Kinds == {"staging",        \* no bind flags, usage STAGING
          "renderTarget",   \* RENDER_TARGET, with or without SHADER_RESOURCE
          "displayable",    \* the same with PRESENT
          "shaderResource", \* SHADER_RESOURCE or DEPTH_STENCIL
          "dynamic",        \* SHADER_RESOURCE with usage DYNAMIC
          "present"}        \* PRESENT only

IsDefault(k) == k \notin {"staging", "dynamic"}

Get2dTextureLayoutRequirements(k) ==
    [layout |-> IF k = "renderTarget" THEN "Tiled" ELSE "Linear",
     pitchAlign |-> CASE k = "staging" -> MicroTileWidth
                      [] k \in {"renderTarget", "displayable"} ->
                            BinningTiles * TileWidth
                      [] k \in {"shaderResource", "dynamic"} -> TileWidth
                      [] k = "present" -> 1,
     heightAlign |-> CASE k \in {"staging", "present"} -> 1
                       [] k \in {"renderTarget", "displayable"} ->
                             BinningTiles * TileHeight
                       [] k \in {"shaderResource", "dynamic"} -> TileHeight]

Layout(k) == Get2dTextureLayoutRequirements(k).layout
Pitch(k) == AlignValue(size.w, Get2dTextureLayoutRequirements(k).pitchAlign)
HwHeight(k) == AlignValue(size.h, Get2dTextureLayoutRequirements(k).heightAlign)
HwSize(k) == Pitch(k) * HwHeight(k)
Places(k) == 0 .. HwSize(k) - 1

\* mutant
WidthInTilesRoundedDown ==
    IF size.w < TileWidth THEN 1 ELSE size.w \div TileWidth

WidthInTiles == AlignValue(size.w, TileWidth) \div TileWidth
HeightInTiles == AlignValue(size.h, TileHeight) \div TileHeight

-----------------------------------------------------------------------------
(* TileCoord: the place of a pixel in a texture in T-format *)

EvenRow(ym) == (ym \div (2 * SubTileSide)) % 2 = 0

ComputeT(xm, ym, w) ==
    LET column == xm \div (2 * SubTileSide)
        row == ym \div (2 * SubTileSide)
    IN  w * row + (IF EvenRow(ym) THEN column ELSE w - 1 - column)

ComputeS(xm, ym) ==
    LET xs == (xm % (2 * SubTileSide)) \div SubTileSide
        ys == (ym % (2 * SubTileSide)) \div SubTileSide
        lut == IF EvenRow(ym) THEN <<<<0, 1>>, <<3, 2>>>>
                              ELSE <<<<2, 3>>, <<1, 0>>>>
    IN  lut[xs + 1][ys + 1]

ComputeM(xm, ym) == (xm % SubTileSide) + (ym % SubTileSide) * SubTileSide

ByteOffset(xm, ym, w) ==
    ComputeT(xm, ym, w) * TileSize + ComputeS(xm, ym) * SubTileSize
        + ComputeM(xm, ym) * MicroTileSize

\* The source of one pixel in the loop of CopyTFormatToLinear.
TiledPlace(x, y) ==
    ByteOffset(x \div MicroTileWidth, y \div MicroTileHeight, WidthInTiles)
        + (y % MicroTileHeight) * MicroTileWidth + (x % MicroTileWidth)

-----------------------------------------------------------------------------
(* ConvertBitmapTo4kTileBlocks: the pixel that is written to a place *)

\* Form1kSubTileBlock: where the n-th pixel of a sub-tile comes from.
Form1kSubTileBlock(n) ==
    LET micro == n \div MicroTileSize
        line == (n % MicroTileSize) \div MicroTileWidth
    IN  [x |-> (micro % SubTileSide) * MicroTileWidth + (n % MicroTileWidth),
         y |-> (micro \div SubTileSide) * MicroTileHeight + line]

\* Form4kTileBlock: the blocks A, B, C, D lie [A D; B C] in even rows and
\* [C B; D A] in odd ones.
Form4kTileBlock(n, oddRow) ==
    LET corners == IF oddRow THEN <<<<1, 1>>, <<1, 0>>, <<0, 0>>, <<0, 1>>>>
                             ELSE <<<<0, 0>>, <<0, 1>>, <<1, 1>>, <<1, 0>>>>
        corner == corners[n \div SubTileSize + 1]
        in == Form1kSubTileBlock(n % SubTileSize)
    IN  [x |-> corner[1] * SubTileWidth + in.x,
         y |-> corner[2] * SubTileHeight + in.y]

ConvertBitmapTo4kTileBlocks(n) ==
    LET block == n \div TileSize
        k == block \div WidthInTiles
        i == block % WidthInTiles
        column == IF k % 2 = 1 THEN WidthInTiles - 1 - i ELSE i
        in == Form4kTileBlock(n % TileSize, k % 2 = 1)
    IN  [x |-> column * TileWidth + in.x, y |-> k * TileHeight + in.y]

-----------------------------------------------------------------------------
(* Textures *)

\* A pixel of a picture; what lies outside of the bitmap is anything.
Pixel(p, x, y) ==
    IF p # Junk /\ x < size.w /\ y < size.h THEN <<p, x, y>> ELSE Junk

Init ==
    /\ size \in Sizes
    /\ texture = [t \in Textures |-> "none"]
    /\ memory = [t \in Textures |-> [n \in {} |-> Junk]]
    /\ picture = [t \in Textures |-> Junk]
    /\ lost = [t \in Textures |-> FALSE]

\* What a write of content makes of the textures: t, a texture of kind k, takes
\* what fits; what does not fit goes to the texture that lies behind t, if one
\* does.  The others keep what they hold.
Fill(t, k, content, p, gone) ==
    LET past == DOMAIN content \ Places(k)
    IN  \E behind \in Textures :
            /\ memory' = [u \in Textures |->
                  IF u = t THEN [n \in Places(k) |-> content[n]]
                  ELSE IF u = behind
                  THEN [n \in DOMAIN memory[u] |->
                          IF HwSize(k) + n \in past THEN content[HwSize(k) + n]
                                                    ELSE memory[u][n]]
                  ELSE memory[u]]
            /\ lost' = [u \in Textures |->
                  IF u = t THEN gone
                  ELSE lost[u] \/ (u = behind /\ texture[u] # "none" /\ past # {})]
            /\ texture' = [texture EXCEPT ![t] = k]
            /\ picture' = [picture EXCEPT ![t] = p]
            /\ UNCHANGED size

\* Initial data row by row: SysMemPitch pixels of each, so that a row spills
\* into the next one, which is written after it, and the last one into what
\* follows, past the end of the texture if there are no more rows.
LinearInitialData(k, p, sysMemPitch) ==
    [n \in Places(k) \cup 0 .. (size.h - 1) * Pitch(k) + sysMemPitch - 1 |->
        LET row == n \div Pitch(k)
            y == IF row < size.h THEN row ELSE size.h - 1
            x == n - y * Pitch(k)
        IN  IF x < sysMemPitch THEN Pixel(p, x, y) ELSE Junk]

TiledInitialData(k, p) ==
    [n \in Places(k) |->
        IF n < WidthInTiles * HeightInTiles * TileSize
        THEN LET from == ConvertBitmapTo4kTileBlocks(n)
             IN  Pixel(p, from.x, from.y)
        ELSE Junk]

CreateResource(t, k, p) ==
    /\ texture[t] = "none"
    /\ \/ /\ p = Junk       \* no initial data
          /\ Fill(t, k, [n \in Places(k) |-> Junk], p, FALSE)
       \/ /\ p # Junk /\ Layout(k) = "Tiled"
          /\ Fill(t, k, TiledInitialData(k, p), p, FALSE)
       \/ /\ p # Junk /\ Layout(k) = "Linear"
          /\ \E pad \in Padding :
                Fill(t, k, LinearInitialData(k, p, size.w + pad), p, FALSE)

\* Where the pixels of a texture are looked for: by the GPU, by the display,
\* or by an application that was given the pitch by Map.
PlaceOf(k, x, y) ==
    IF Layout(k) = "Tiled" THEN TiledPlace(x, y) ELSE y * Pitch(k) + x

\* The GPU renders p into a target.
Render(t, p) ==
    /\ texture[t] \in {"renderTarget", "displayable"}
    /\ picture[t] # p
    /\ LET image == [xy \in (0 .. size.w - 1) \X (0 .. size.h - 1) |->
                        PlaceOf(texture[t], xy[1], xy[2])]
       IN  memory' = [memory EXCEPT ![t] =
               [n \in DOMAIN memory[t] |->
                   IF \E xy \in DOMAIN image : image[xy] = n
                   THEN LET xy == CHOOSE xy \in DOMAIN image : image[xy] = n
                        IN  Pixel(p, xy[1], xy[2])
                   ELSE memory[t][n]]]
    /\ picture' = [picture EXCEPT ![t] = p]
    /\ lost' = [lost EXCEPT ![t] = FALSE]
    /\ UNCHANGED <<size, texture>>

\* memcpy: what lies behind the end of the source is anything.
Copied(d, s, length) ==
    [n \in DOMAIN memory[d] \cup 0 .. length - 1 |->
        IF n >= length THEN memory[d][n]
        ELSE IF n \in DOMAIN memory[s] THEN memory[s][n] ELSE Junk]

CopyTFormatToLinear(d, s) ==
    [n \in DOMAIN memory[d] |->
        LET y == n \div Pitch(texture[d])
            x == n % Pitch(texture[d])
        IN  IF y < size.h THEN memory[s][TiledPlace(x, y)] ELSE memory[d][n]]

\* mutant
ConvertsNothing(d, s) == FALSE

\* The one combination that ResourceCopy converts.
Converts(d, s) ==
    /\ IsDefault(texture[s]) /\ texture[d] = "staging"
    /\ Layout(texture[s]) # Layout(texture[d])

\* The length of a plain copy: that of the destination where the GPU copies
\* and from DEFAULT to STAGING, that of the source into or out of others.
CopyLength(d, s) ==
    IF IsDefault(texture[s]) /\ (IsDefault(texture[d]) \/ texture[d] = "staging")
    THEN HwSize(texture[d]) ELSE HwSize(texture[s])

SameLayout(d, s) ==
    /\ Layout(texture[d]) = Layout(texture[s])
    /\ Pitch(texture[d]) = Pitch(texture[s])

\* The picture comes along: between equal layouts, and from the T-format to a
\* staging texture.
KeepsPicture(d, s) ==
    \/ SameLayout(d, s)
    \/ Layout(texture[s]) = "Tiled" /\ texture[d] = "staging"

ResourceCopy(d, s) ==
    /\ d # s
    /\ texture[d] # "none" /\ texture[s] # "none"
    /\ Fill(d, texture[d],
            IF Converts(d, s) THEN CopyTFormatToLinear(d, s)
                              ELSE Copied(d, s, CopyLength(d, s)),
            picture[s], lost[s] \/ ~ KeepsPicture(d, s))

Next ==
    \E t \in Textures :
        \/ \E k \in Kinds, p \in Pictures \cup {Junk} : CreateResource(t, k, p)
        \/ \E p \in Pictures : Render(t, p)
        \/ \E s \in Textures : ResourceCopy(t, s)

Spec == Init /\ [][Next]_vars

-----------------------------------------------------------------------------
(* Properties *)

\* Every pixel of t, looked for where the layout of t says it is.
Shows(t, p) ==
    \A x \in 0 .. size.w - 1, y \in 0 .. size.h - 1 :
        memory[t][PlaceOf(texture[t], x, y)] = Pixel(p, x, y)

\* A texture shows what was put into it as initial data, by the GPU, or by
\* any sequence of copies between equal layouts and from the T-format to a
\* staging texture: the descriptions of the T-format by the order of memory and by
\* the place of a micro-tile agree, and so do those of the rows by their pitch.
\* Of the textures that something is written over from the end of another one
\* nothing is claimed: CopyAssertions and OneTextureWritten are about them.
ImageKept ==
    \A t \in Textures :
        texture[t] # "none" /\ picture[t] # Junk /\ ~ lost[t]
        => Shows(t, picture[t])

\* The two assertions of CopyTFormatToLinear, for every staging texture it may
\* be asked to fill from a render target, and what its caller takes for
\* granted: all that is read lies in the tiles, the tiles lie in the
\* allocation, and no two pixels are read from one place.
TiledReadsInBounds ==
    LET read == (0 .. Pitch("staging") - 1) \X (0 .. size.h - 1)
        places == {TiledPlace(xy[1], xy[2]) : xy \in read}
        tiles == 0 .. WidthInTiles * HeightInTiles * TileSize - 1
    IN  /\ places \subseteq tiles
        /\ tiles \subseteq Places("renderTarget")
        /\ \A xy \in read :
              LET from == ConvertBitmapTo4kTileBlocks(TiledPlace(xy[1], xy[2]))
              IN  from = [x |-> xy[1], y |-> xy[2]]

-----------------------------------------------------------------------------
(* Claims that the code does not keep *)

\* The assertions of ResourceCopy on the sizes of a plain copy on the CPU: out
\* of a texture of usage DEFAULT the source is as large as the destination, in
\* the last branch the destination is as large as the source.
CopyAssertions ==
    \A d, s \in Textures :
        /\ d # s /\ texture[d] # "none" /\ texture[s] # "none"
        /\ ~ (IsDefault(texture[d]) /\ IsDefault(texture[s]))
        /\ ~ Converts(d, s)
        => IF IsDefault(texture[s]) /\ texture[d] = "staging"
           THEN HwSize(texture[s]) >= HwSize(texture[d])
           ELSE HwSize(texture[s]) <= HwSize(texture[d])

\* Creating, rendering and copying write to one texture.
OneTextureWritten ==
    [][\E t \in Textures : \A u \in Textures \ {t} : memory'[u] = memory[u]]_vars

\* "no swizzling necessary": from a DEFAULT to a STAGING texture of the same
\* layout the bytes may be copied as they are, and the staging texture shows
\* what the other one shows.
CopyKeepsImage ==
    (\A s \in Textures : texture[s] \in {"none", "staging"} \/
         (IsDefault(texture[s]) /\ Layout(texture[s]) = "Linear"))
    => \A t \in Textures :
          texture[t] = "staging" /\ picture[t] # Junk => Shows(t, picture[t])
=============================================================================
