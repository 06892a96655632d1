------------------------- MODULE RosUmdTextureProofs -------------------------
(***************************************************************************)
(* For every size of a texture and every length of the T-format, the two   *)
(* descriptions that rosumd has of it are inverse to each other, the tiles *)
(* lie in the allocation, and a texture shows what was put into it through *)
(* every sequence of creations, renderings and copies.                     *)
(*                                                                         *)
(* The places are numbers with mixed digits: a pixel is found by quotients *)
(* and remainders, and written by sums of products.  The first part states *)
(* what quotients and remainders are, so that the rest never has to reason *)
(* about them with multiplication at hand.                                 *)
(***************************************************************************)
EXTENDS RosUmdTexture, TLAPS

-----------------------------------------------------------------------------
(* Quotients and remainders. *)

(* Multiplication keeps the order of numbers. *)
LEMMA Multiples ==
  ASSUME NEW j \in Nat, NEW k \in Nat, NEW d \in Nat, j <= k
  PROVE  j * d \in Nat /\ k * d \in Nat /\ j * d <= k * d
<1>1. PICK m \in Nat : k = j + m
  <2>1. k - j \in Nat /\ k = j + (k - j)
    OBVIOUS
  <2> QED
    BY <2>1
<1>2. k * d = j * d + m * d
  BY <1>1
<1>3. m * d \in Nat /\ j * d \in Nat
  OBVIOUS
<1> QED
  BY <1>2, <1>3

(* A number has a quotient and a remainder, *)
LEMMA Digits ==
  ASSUME NEW n \in Nat, NEW d \in Nat \ {0}
  PROVE  /\ n \div d \in Nat /\ n % d \in Nat /\ n % d < d
         /\ n = (n \div d) * d + (n % d)
  OBVIOUS

(* and only one of each. *)
LEMMA TheDigits ==
  ASSUME NEW q \in Nat, NEW r \in Nat, NEW d \in Nat \ {0}, r < d
  PROVE  (q * d + r) \div d = q /\ (q * d + r) % d = r
<1>1. PICK n \in Nat : n = q * d + r
  OBVIOUS
<1>2. PICK p \in Nat, s \in Nat : p = n \div d /\ s = n % d
  BY Digits
<1>3. s < d /\ n = p * d + s
  BY <1>2, Digits
<1>4. ~ (p + 1 <= q)
  <2> SUFFICES ASSUME p + 1 <= q
               PROVE  FALSE
    OBVIOUS
  <2>1. (p + 1) * d <= q * d
    BY Multiples
  <2>2. (p + 1) * d = p * d + d
    OBVIOUS
  <2>3. p * d \in Nat /\ q * d \in Nat
    OBVIOUS
  <2> HIDE <1>2
  <2> QED
    BY <1>1, <1>3, <2>1, <2>2, <2>3
<1>5. ~ (q + 1 <= p)
  <2> SUFFICES ASSUME q + 1 <= p
               PROVE  FALSE
    OBVIOUS
  <2>1. (q + 1) * d <= p * d
    BY Multiples
  <2>2. (q + 1) * d = q * d + d
    OBVIOUS
  <2>3. p * d \in Nat /\ q * d \in Nat
    OBVIOUS
  <2> QED
    BY <1>1, <1>3, <2>1, <2>2, <2>3
<1>6. p = q
  BY <1>4, <1>5
<1>7. s = r
  <2>1. q * d \in Nat
    OBVIOUS
  <2> QED
    BY <1>1, <1>3, <1>6, <2>1
<1> QED
  BY <1>1, <1>2, <1>6, <1>7

(* A number with a quotient below m is below m times the divisor. *)
LEMMA Below ==
  ASSUME NEW q \in Nat, NEW r \in Nat, NEW d \in Nat, NEW m \in Nat, q < m, r < d
  PROVE  q * d + r \in Nat /\ q * d + r < m * d
<1>1. (q + 1) * d <= m * d
  BY Multiples
<1>2. (q + 1) * d = q * d + d /\ q * d \in Nat /\ m * d \in Nat
  OBVIOUS
<1> QED
  BY <1>1, <1>2

-----------------------------------------------------------------------------
(* Rounding up. *)

(* AlignValue gives the least multiple that is large enough. *)
LEMMA Aligned ==
  ASSUME NEW value \in Nat, NEW d \in Nat \ {0}
  PROVE  /\ AlignValue(value, d) \in Nat /\ AlignValue(value, d) >= value
         /\ AlignValue(value, d) \div d \in Nat
         /\ AlignValue(value, d) = (AlignValue(value, d) \div d) * d
         /\ \A m \in Nat : value <= m * d => AlignValue(value, d) <= m * d
<1>1. PICK n \in Nat : n = value + d - 1
  OBVIOUS
<1>2. PICK q \in Nat, r \in Nat : q = n \div d /\ r < d /\ n = q * d + r
  BY Digits
<1>3. AlignValue(value, d) = q * d
  BY <1>1, <1>2 DEF AlignValue
<1>4. q * d \in Nat /\ (q * d) \div d = q
  <2>1. (q * d + 0) \div d = q
    BY TheDigits
  <2> QED
    BY <2>1
<1>5. q * d >= value
  BY <1>1, <1>2, <1>4
<1>6. ASSUME NEW m \in Nat, value <= m * d
      PROVE  q * d <= m * d
  <2>1. ~ (m + 1 <= q)
    <3> SUFFICES ASSUME m + 1 <= q
                 PROVE  FALSE
      OBVIOUS
    <3>1. (m + 1) * d <= q * d
      BY Multiples
    <3>2. (m + 1) * d = m * d + d /\ m * d \in Nat
      OBVIOUS
    <3> QED
      BY <3>1, <3>2, <1>1, <1>2, <1>4, <1>6
  <2> QED
    BY <2>1, Multiples
<1> QED
  BY <1>3, <1>4, <1>5, <1>6

(* The lengths of the layout. *)
LEMMA Lengths ==
  /\ MicroTileWidth \in Nat \ {0} /\ MicroTileHeight \in Nat \ {0}
  /\ SubTileSide \in Nat \ {0} /\ BinningTiles \in Nat \ {0}
  /\ SubTileWidth \in Nat \ {0} /\ SubTileHeight \in Nat \ {0}
  /\ TileWidth \in Nat \ {0} /\ TileHeight \in Nat \ {0}
  /\ MicroTileSize \in Nat \ {0} /\ SubTileSize \in Nat \ {0} /\ TileSize \in Nat \ {0}
<1>1. \A j, k \in Nat \ {0} : j * k \in Nat \ {0}
  OBVIOUS
<1>2. /\ MicroTileWidth \in Nat \ {0} /\ MicroTileHeight \in Nat \ {0}
      /\ SubTileSide \in Nat \ {0} /\ BinningTiles \in Nat \ {0}
  BY LengthsAssumption
<1>3. /\ SubTileWidth \in Nat \ {0} /\ SubTileHeight \in Nat \ {0}
      /\ MicroTileSize \in Nat \ {0} /\ SubTileSide * SubTileSide \in Nat \ {0}
  BY <1>1, <1>2 DEF SubTileWidth, SubTileHeight, MicroTileSize
<1>4. TileWidth \in Nat \ {0} /\ TileHeight \in Nat \ {0}
  BY <1>3 DEF TileWidth, TileHeight
<1>5. SubTileSize \in Nat \ {0}
  BY <1>1, <1>3 DEF SubTileSize
<1>6. TileSize \in Nat \ {0}
  BY <1>5 DEF TileSize
<1> QED
  BY <1>2, <1>3, <1>4, <1>5, <1>6

(* The sizes of a behaviour. *)
IsSize == size.w \in Nat \ {0} /\ size.h \in Nat \ {0}

(* A texture takes so many tiles. *)
LEMMA Tiles ==
  ASSUME IsSize
  PROVE  /\ WidthInTiles \in Nat \ {0} /\ HeightInTiles \in Nat \ {0}
         /\ AlignValue(size.w, TileWidth) = WidthInTiles * TileWidth
         /\ AlignValue(size.h, TileHeight) = HeightInTiles * TileHeight
         /\ size.w <= WidthInTiles * TileWidth /\ size.h <= HeightInTiles * TileHeight
<1>1. ASSUME NEW n \in Nat \ {0}, NEW d \in Nat \ {0}
      PROVE  /\ AlignValue(n, d) \div d \in Nat \ {0}
             /\ AlignValue(n, d) = (AlignValue(n, d) \div d) * d /\ n <= AlignValue(n, d)
  <2>1. PICK v, q \in Nat : v = AlignValue(n, d) /\ q = v \div d
    BY Aligned
  <2>2. v = q * d /\ n <= v
    BY <2>1, Aligned
  <2>3. q # 0
    BY <2>2
  <2> QED
    BY <2>1, <2>2, <2>3
<1>2. /\ size.w \in Nat \ {0} /\ size.h \in Nat \ {0}
      /\ TileWidth \in Nat \ {0} /\ TileHeight \in Nat \ {0}
  BY Lengths DEF IsSize
<1>3. /\ AlignValue(size.w, TileWidth) \div TileWidth \in Nat \ {0}
      /\ AlignValue(size.w, TileWidth)
           = (AlignValue(size.w, TileWidth) \div TileWidth) * TileWidth
      /\ size.w <= AlignValue(size.w, TileWidth)
  BY <1>1, <1>2
<1>4. /\ AlignValue(size.h, TileHeight) \div TileHeight \in Nat \ {0}
      /\ AlignValue(size.h, TileHeight)
           = (AlignValue(size.h, TileHeight) \div TileHeight) * TileHeight
      /\ size.h <= AlignValue(size.h, TileHeight)
  BY <1>1, <1>2
<1> QED
  BY <1>3, <1>4 DEF WidthInTiles, HeightInTiles

-----------------------------------------------------------------------------
(* The place of a pixel and the pixel of a place. *)

(* A coordinate consists of a tile, a half of the tile, a micro-tile and a *)
(* pixel; the side of a micro-tile is a.                                   *)
Column(m) == m \div (2 * SubTileSide)
Half(m) == (m % (2 * SubTileSide)) \div SubTileSide
LiesAt(x, a, c, g, i, p) ==
  /\ c = Column(x \div a) /\ g = Half(x \div a) /\ i = (x \div a) % SubTileSide /\ p = x % a
  /\ i < SubTileSide /\ p < a
  /\ x = c * (2 * (SubTileSide * a)) + (g * (SubTileSide * a) + (i * a + p))

LEMMA Coordinate ==
  ASSUME NEW x \in Nat, NEW a \in Nat \ {0}
  PROVE  \E c \in Nat, g \in {0, 1}, i \in Nat, p \in Nat : LiesAt(x, a, c, g, i, p)
<1>1. PICK s \in Nat \ {0}, m \in Nat : s = SubTileSide /\ m = x \div a
  BY Lengths, Digits
<1>2. /\ x % a \in Nat /\ x % a < a /\ x = m * a + (x % a)
  BY <1>1, Digits
<1>3. PICK c \in Nat, n \in Nat : /\ c = m \div (2 * s) /\ n = m % (2 * s)
                               /\ n < 2 * s /\ m = c * (2 * s) + n
  <2>1. PICK e \in Nat \ {0} : e = 2 * s
    OBVIOUS
  <2>2. /\ m \div e \in Nat /\ m % e \in Nat /\ m % e < e
        /\ m = (m \div e) * e + (m % e)
    BY <1>2, Digits
  <2> QED
    BY <2>1, <2>2
<1>4. PICK h \in Nat, i \in Nat : h = n \div s /\ i < s /\ n = h * s + i
  BY Digits
<1>5. h \in {0, 1}
  <2>1. ~ (2 <= h)
    <3> SUFFICES ASSUME 2 <= h
                 PROVE  FALSE
      OBVIOUS
    <3>1. 2 * s <= h * s /\ h * s \in Nat
      BY Multiples
    <3> QED
      BY <3>1, <1>3, <1>4
  <2> QED
    BY <2>1
<1>6. m % s = i
  <2>1. m = (c * 2 + h) * s + i
    <3>1. c * (2 * s) + (h * s + i) = (c * 2 + h) * s + i
      OBVIOUS
    <3> QED
      BY <3>1, <1>3, <1>4
  <2>2. PICK k \in Nat : k = c * 2 + h
    OBVIOUS
  <2>3. (k * s + i) % s = i
    BY <1>4, TheDigits
  <2> QED
    BY <2>1, <2>2, <2>3
<1>7. m * a = c * (2 * (s * a)) + (h * (s * a) + i * a)
  <2>1. m = c * (2 * s) + (h * s + i)
    BY <1>3, <1>4
  <2>2. (c * (2 * s) + (h * s + i)) * a = c * (2 * (s * a)) + (h * (s * a) + i * a)
    OBVIOUS
  <2> QED
    BY <2>1, <2>2
<1>8. /\ c * (2 * (s * a)) \in Nat /\ h * (s * a) \in Nat /\ i * a \in Nat
  OBVIOUS
<1>9. x = c * (2 * (s * a)) + (h * (s * a) + (i * a + (x % a)))
  <2>1. PICK t \in Nat, k \in Nat, l \in Nat, p \in Nat :
          t = c * (2 * (s * a)) /\ k = h * (s * a) /\ l = i * a /\ p = x % a
    BY <1>2, <1>8
  <2>2. x = (t + (k + l)) + p
    BY <2>1, <1>2, <1>7
  <2>3. (t + (k + l)) + p = t + (k + (l + p))
    OBVIOUS
  <2> QED
    BY <2>1, <2>2, <2>3
<1> QED
  <2>1. c = Column(m) /\ h = Half(m)
    BY <1>1, <1>3, <1>4 DEF Column, Half
  <2>2. LiesAt(x, a, c, h, i, x % a)
    BY <2>1, <1>1, <1>2, <1>4, <1>6, <1>9 DEF LiesAt
  <2> QED
    BY <2>2, <1>2, <1>5

(* The two layouts of the sub-tiles of a tile are the same one. *)
Corners(row) ==
  IF row % 2 = 1 THEN <<<<1, 1>>, <<1, 0>>, <<0, 0>>, <<0, 1>>>>
                 ELSE <<<<0, 0>>, <<0, 1>>, <<1, 1>>, <<1, 0>>>>

LEMMA SubTilesAgree ==
  ASSUME NEW xm, NEW ym, NEW g \in {0, 1}, NEW h \in {0, 1}, NEW row \in Nat,
         g = Half(xm), h = Half(ym), row = Column(ym)
  PROVE  /\ ComputeS(xm, ym) \in 0 .. 3
         /\ Corners(row)[ComputeS(xm, ym) + 1] = <<g, h>>
<1>1. CASE row % 2 = 0
  <2>1. EvenRow(ym)
    BY <1>1 DEF EvenRow, Column
  <2>2. ComputeS(xm, ym) = <<<<0, 1>>, <<3, 2>>>>[g + 1][h + 1]
    BY <2>1 DEF ComputeS, Half
  <2>3. Corners(row) = <<<<0, 0>>, <<0, 1>>, <<1, 1>>, <<1, 0>>>>
    BY <1>1 DEF Corners
  <2> QED
    BY <2>2, <2>3
<1>2. CASE row % 2 = 1
  <2>1. ~ EvenRow(ym)
    BY <1>2 DEF EvenRow, Column
  <2>2. ComputeS(xm, ym) = <<<<2, 3>>, <<1, 0>>>>[g + 1][h + 1]
    BY <2>1 DEF ComputeS, Half
  <2>3. Corners(row) = <<<<1, 1>>, <<1, 0>>, <<0, 0>>, <<0, 1>>>>
    BY <1>2 DEF Corners
  <2> QED
    BY <2>2, <2>3
<1> QED
  BY <1>1, <1>2

(* The place of a pixel in a sub-tile. *)
InSubTile(i, j, x, y) ==
  (i + j * SubTileSide) * MicroTileSize + (y * MicroTileWidth + x)

(* Form1kSubTileBlock finds a pixel of a sub-tile where ComputeM and the   *)
(* loop of CopyTFormatToLinear place it.                                   *)
LEMMA SubTilePixel ==
  ASSUME NEW i \in Nat, NEW j \in Nat, i < SubTileSide, j < SubTileSide,
         NEW x \in Nat, NEW y \in Nat, x < MicroTileWidth, y < MicroTileHeight,
         NEW n, n = InSubTile(i, j, x, y)
  PROVE  /\ n \in Nat /\ n < SubTileSize
         /\ Form1kSubTileBlock(n) = [x |-> i * MicroTileWidth + x, y |-> j * MicroTileHeight + y]
<1>1. PICK a \in Nat \ {0}, b \in Nat \ {0}, s \in Nat \ {0} :
        a = MicroTileWidth /\ b = MicroTileHeight /\ s = SubTileSide
  BY Lengths
<1>2. PICK r \in Nat : r = y * a + x /\ r < b * a /\ r \div a = y
  <2>0. x < a /\ y < b
    BY <1>1
  <2>1. y * a + x \in Nat /\ y * a + x < b * a
    BY <2>0, Below
  <2>2. (y * a + x) \div a = y
    BY <2>0, TheDigits
  <2> QED
    BY <2>1, <2>2
<1>3. PICK m \in Nat : /\ m = j * s + i /\ m < s * s
                      /\ m \div s = j /\ m % s = i
  <2>0. i < s /\ j < s
    BY <1>1
  <2>1. j * s + i \in Nat /\ j * s + i < s * s
    BY <2>0, Below
  <2>2. (j * s + i) \div s = j /\ (j * s + i) % s = i
    BY <2>0, TheDigits
  <2> QED
    BY <2>1, <2>2
<1>4. PICK t \in Nat \ {0} : t = MicroTileSize /\ t = a * b /\ t = b * a
  BY <1>1, Lengths DEF MicroTileSize
<1>5. n = m * t + r
  BY <1>1, <1>2, <1>3, <1>4 DEF InSubTile
<1>6. n \in Nat /\ n < (s * s) * t
  <2>1. PICK u \in Nat : u = s * s
    OBVIOUS
  <2>2. m < u /\ r < t
    BY <2>1, <1>2, <1>3, <1>4
  <2>3. m * t + r \in Nat /\ m * t + r < u * t
    BY <2>2, Below
  <2>4. u * t = (s * s) * t
    BY <2>1
  <2>5. n \in Nat /\ n < u * t
    BY <2>3, <1>5
  <2> QED
    BY <2>4, <2>5
<1>7. n \div t = m /\ n % t = r
  <2>1. r < t
    BY <1>2, <1>4
  <2>2. (m * t + r) \div t = m /\ (m * t + r) % t = r
    BY <2>1, TheDigits
  <2> QED
    BY <2>2, <1>5
<1>8. n % a = x
  <2>1. n = (m * b + y) * a + x
    BY <1>2, <1>4, <1>5
  <2>2. PICK k \in Nat : k = m * b + y
    OBVIOUS
  <2>3. (k * a + x) % a = x
    BY <1>1, TheDigits
  <2> QED
    BY <2>1, <2>2, <2>3
<1>9. SubTileSize = (s * s) * t
  BY <1>1, <1>4 DEF SubTileSize
<1>10. Form1kSubTileBlock(n) = [x |-> (m % s) * a + (n % a), y |-> (m \div s) * b + (r \div a)]
  BY <1>1, <1>4, <1>7 DEF Form1kSubTileBlock
<1> QED
  BY <1>1, <1>2, <1>3, <1>6, <1>8, <1>9, <1>10

(* The place of a pixel in a tile, and what the inverse makes of it. *)
InTile(n, S, i, j, x, y) == n = S * SubTileSize + InSubTile(i, j, x, y)
FoundInTile(n, row, g, h, i, j, x, y) ==
  /\ n \in Nat /\ n < TileSize
  /\ Form4kTileBlock(n, row % 2 = 1) = [x |-> g * SubTileWidth + (i * MicroTileWidth + x),
                                        y |-> h * SubTileHeight + (j * MicroTileHeight + y)]

(* Form4kTileBlock finds a pixel of a tile where TileCoord places it. *)
LEMMA TilePixel ==
  ASSUME NEW i \in Nat, NEW j \in Nat, i < SubTileSide, j < SubTileSide,
         NEW x \in Nat, NEW y \in Nat, x < MicroTileWidth, y < MicroTileHeight,
         NEW S \in 0 .. 3, NEW row \in Nat, NEW g, NEW h, Corners(row)[S + 1] = <<g, h>>,
         NEW n, InTile(n, S, i, j, x, y)
  PROVE  FoundInTile(n, row, g, h, i, j, x, y)
<1>1. PICK r : r = InSubTile(i, j, x, y)
  OBVIOUS
<1>2. /\ r \in Nat /\ r < SubTileSize
      /\ Form1kSubTileBlock(r) = [x |-> i * MicroTileWidth + x, y |-> j * MicroTileHeight + y]
  BY <1>1, SubTilePixel
<1>3. PICK t \in Nat \ {0} : t = SubTileSize
  BY Lengths
<1>4. n = S * t + r
  BY <1>1, <1>3 DEF InTile
<1>5. S \in Nat /\ S < 4
  OBVIOUS
<1>6. n \div t = S /\ n % t = r
  <2>1. (S * t + r) \div t = S /\ (S * t + r) % t = r
    BY <1>2, <1>3, <1>5, TheDigits
  <2> QED
    BY <2>1, <1>4
<1>7. n \in Nat /\ n < 4 * t
  <2>1. S * t + r \in Nat /\ S * t + r < 4 * t
    BY <1>2, <1>3, <1>5, Below
  <2> QED
    BY <2>1, <1>4
<1>8. Form4kTileBlock(n, row % 2 = 1) =
        [x |-> Corners(row)[S + 1][1] * SubTileWidth + Form1kSubTileBlock(r).x,
         y |-> Corners(row)[S + 1][2] * SubTileHeight + Form1kSubTileBlock(r).y]
  BY <1>3, <1>6 DEF Form4kTileBlock, Corners
<1>9. <<g, h>>[1] = g /\ <<g, h>>[2] = h
  OBVIOUS
<1> QED
  BY <1>2, <1>3, <1>7, <1>8, <1>9 DEF TileSize, FoundInTile

(* The two descriptions of the T-format agree: ConvertBitmapTo4kTileBlocks *)
(* writes to a place the pixel that TileCoord looks for there.             *)
LEMMA FormatsAgree ==
  ASSUME IsSize, NEW x \in Nat, NEW y \in Nat,
         x < WidthInTiles * TileWidth, y < HeightInTiles * TileHeight
  PROVE  /\ TiledPlace(x, y) \in 0 .. WidthInTiles * HeightInTiles * TileSize - 1
         /\ ConvertBitmapTo4kTileBlocks(TiledPlace(x, y)) = [x |-> x, y |-> y]
<1>1. PICK a \in Nat \ {0}, b \in Nat \ {0}, s \in Nat \ {0}, w \in Nat \ {0}, k \in Nat \ {0} :
        /\ a = MicroTileWidth /\ b = MicroTileHeight /\ s = SubTileSide
        /\ w = WidthInTiles /\ k = HeightInTiles
  BY Lengths, Tiles
<1>2. PICK xm, ym : xm = x \div a /\ ym = y \div b
  OBVIOUS
<1>3. PICK c \in Nat, g \in {0, 1}, i \in Nat, p \in Nat : LiesAt(x, a, c, g, i, p)
  BY Coordinate
<1>4. /\ c = Column(xm) /\ g = Half(xm) /\ i = xm % s /\ i < s /\ p = x % a /\ p < a
      /\ x = c * (2 * (s * a)) + (g * (s * a) + (i * a + p))
  BY <1>3, <1>1, <1>2 DEF LiesAt
<1>5. PICK r \in Nat, h \in {0, 1}, j \in Nat, q \in Nat : LiesAt(y, b, r, h, j, q)
  BY Coordinate
<1>6. /\ r = Column(ym) /\ h = Half(ym) /\ j = ym % s /\ j < s /\ q = y % b /\ q < b
      /\ y = r * (2 * (s * b)) + (h * (s * b) + (j * b + q))
  BY <1>5, <1>1, <1>2 DEF LiesAt
<1>7. c < w
  <2>1. PICK t \in Nat : t = TileWidth /\ t = 2 * (s * a)
    BY <1>1, Lengths DEF TileWidth, SubTileWidth
  <2>2. PICK d \in Nat : d = g * (s * a) + (i * a + p)
    OBVIOUS
  <2>3. x = c * t + d /\ x < w * t
    BY <1>1, <1>4, <2>1, <2>2
  <2>4. w <= c => w * t <= c * t
    BY Multiples
  <2>5. w * t \in Nat /\ c * t \in Nat
    OBVIOUS
  <2> QED
    BY <2>3, <2>4, <2>5
<1>8. r < k
  <2>1. PICK t \in Nat : t = TileHeight /\ t = 2 * (s * b)
    BY <1>1, Lengths DEF TileHeight, SubTileHeight
  <2>2. PICK d \in Nat : d = h * (s * b) + (j * b + q)
    OBVIOUS
  <2>3. y = r * t + d /\ y < k * t
    BY <1>1, <1>6, <2>1, <2>2
  <2>4. k <= r => k * t <= r * t
    BY Multiples
  <2>5. k * t \in Nat /\ r * t \in Nat
    OBVIOUS
  <2> QED
    BY <2>3, <2>4, <2>5
<1>9. PICK S \in 0 .. 3 : S = ComputeS(xm, ym) /\ Corners(r)[S + 1] = <<g, h>>
  <2>1. ComputeS(xm, ym) \in 0 .. 3 /\ Corners(r)[ComputeS(xm, ym) + 1] = <<g, h>>
    <3>1. g = Half(xm) /\ h = Half(ym) /\ r = Column(ym)
      BY <1>4, <1>6
    <3> QED
      BY <3>1, SubTilesAgree
  <2> QED
    BY <2>1
<1>10. r % 2 \in {0, 1}
  OBVIOUS
<1>11. EvenRow(ym) <=> ~ (r % 2 = 1)
  BY <1>6, <1>10 DEF EvenRow, Column
<1>12. PICK n : n = S * SubTileSize + InSubTile(i, j, p, q)
  OBVIOUS
<1>13. /\ n \in Nat /\ n < TileSize
       /\ Form4kTileBlock(n, r % 2 = 1) =
            [x |-> g * SubTileWidth + (i * MicroTileWidth + p),
             y |-> h * SubTileHeight + (j * MicroTileHeight + q)]
  <2>1. i < SubTileSide /\ j < SubTileSide /\ p < MicroTileWidth /\ q < MicroTileHeight
    BY <1>1, <1>4, <1>6
  <2>2. Corners(r)[S + 1] = <<g, h>>
    BY <1>9
  <2>3. InTile(n, S, i, j, p, q)
    BY <1>12 DEF InTile
  <2>4. FoundInTile(n, r, g, h, i, j, p, q)
    BY <2>1, <2>2, <2>3, TilePixel, Zenon
  <2> QED
    BY <2>4 DEF FoundInTile
<1>14. PICK e \in Nat : e = (IF r % 2 = 1 THEN w - 1 - c ELSE c) /\ e < w
  <2>1. CASE r % 2 = 1
    BY <2>1, <1>7
  <2>2. CASE ~ (r % 2 = 1)
    BY <2>2, <1>7
  <2> QED
    BY <2>1, <2>2
<1>15. (IF r % 2 = 1 THEN w - 1 - e ELSE e) = c
  BY <1>7, <1>14
<1>16. PICK t \in Nat \ {0} : t = TileSize
  BY Lengths
<1>17. PICK T \in Nat : T = r * w + e /\ T < k * w /\ T \div w = r /\ T % w = e
  <2>1. r * w + e \in Nat /\ r * w + e < k * w
    BY <1>8, <1>14, Below
  <2>2. e < w
    BY <1>14
  <2>3. (r * w + e) \div w = r /\ (r * w + e) % w = e
    BY <2>2, TheDigits
  <2> QED
    BY <2>1, <2>3
<1>18. ComputeT(xm, ym, w) = T
  <2>1. ComputeT(xm, ym, w) = w * r + (IF r % 2 = 1 THEN w - 1 - c ELSE c)
    BY <1>1, <1>4, <1>6, <1>11 DEF ComputeT, Column
  <2>2. w * r = r * w
    OBVIOUS
  <2> QED
    BY <2>1, <2>2, <1>14, <1>17
<1>19. ComputeM(xm, ym) = i + j * s
  BY <1>1, <1>4, <1>6 DEF ComputeM
<1>20. TiledPlace(x, y) = T * t + n
  <2>1. TiledPlace(x, y) = (T * t + S * SubTileSize + (i + j * s) * MicroTileSize) + q * a + p
    BY <1>1, <1>2, <1>4, <1>6, <1>9, <1>16, <1>18, <1>19 DEF TiledPlace, ByteOffset
  <2>2. /\ T * t \in Nat /\ S * SubTileSize \in Nat /\ (i + j * s) * MicroTileSize \in Nat
        /\ q * a \in Nat
    BY Lengths
  <2> QED
    BY <2>1, <2>2, <1>1, <1>12 DEF InSubTile
<1>21. TiledPlace(x, y) \in Nat /\ TiledPlace(x, y) < (k * w) * t
  <2>1. PICK u \in Nat : u = k * w
    OBVIOUS
  <2>2. T * t + n \in Nat /\ T * t + n < u * t
    BY <2>1, <1>13, <1>16, <1>17, Below
  <2>3. u * t = (k * w) * t
    BY <2>1
  <2> QED
    BY <2>2, <2>3, <1>20
<1>22. TiledPlace(x, y) \in 0 .. WidthInTiles * HeightInTiles * TileSize - 1
  <2>1. (k * w) * t = WidthInTiles * HeightInTiles * TileSize
    BY <1>1, <1>16
  <2> QED
    BY <2>1, <1>21
<1>23. TiledPlace(x, y) \div t = T /\ TiledPlace(x, y) % t = n
  <2>1. n < t
    BY <1>13, <1>16
  <2>2. (T * t + n) \div t = T /\ (T * t + n) % t = n
    BY <2>1, <1>13, TheDigits
  <2> QED
    BY <2>2, <1>20
<1>24. ConvertBitmapTo4kTileBlocks(TiledPlace(x, y)) =
         [x |-> c * TileWidth + (g * SubTileWidth + (i * MicroTileWidth + p)),
          y |-> r * TileHeight + (h * SubTileHeight + (j * MicroTileHeight + q))]
  <2>1. ConvertBitmapTo4kTileBlocks(TiledPlace(x, y)) =
          [x |-> (IF r % 2 = 1 THEN w - 1 - e ELSE e) * TileWidth + Form4kTileBlock(n, r % 2 = 1).x,
           y |-> r * TileHeight + Form4kTileBlock(n, r % 2 = 1).y]
    BY <1>1, <1>16, <1>17, <1>23 DEF ConvertBitmapTo4kTileBlocks
  <2> QED
    BY <2>1, <1>13, <1>15
<1>25. /\ c * TileWidth + (g * SubTileWidth + (i * MicroTileWidth + p)) = x
       /\ r * TileHeight + (h * SubTileHeight + (j * MicroTileHeight + q)) = y
  BY <1>1, <1>4, <1>6 DEF TileWidth, TileHeight, SubTileWidth, SubTileHeight
<1> QED
  BY <1>22, <1>24, <1>25

-----------------------------------------------------------------------------
(* Textures of each kind. *)

(* Get2dTextureLayoutRequirements, case by case. *)
PitchAlign(k) == Get2dTextureLayoutRequirements(k).pitchAlign
HeightAlign(k) == Get2dTextureLayoutRequirements(k).heightAlign

LEMMA Requirements ==
  ASSUME NEW k \in Kinds
  PROVE  /\ PitchAlign(k) \in Nat \ {0} /\ HeightAlign(k) \in Nat \ {0}
         /\ Layout(k) = IF k = "renderTarget" THEN "Tiled" ELSE "Linear"
<1>1. PICK pw \in Nat \ {0}, ph \in Nat \ {0}, a \in Nat \ {0}, tw \in Nat \ {0}, th \in Nat \ {0} :
        /\ pw = BinningTiles * TileWidth /\ ph = BinningTiles * TileHeight
        /\ a = MicroTileWidth /\ tw = TileWidth /\ th = TileHeight
  <2>1. \A l, m \in Nat \ {0} : l * m \in Nat \ {0}
    OBVIOUS
  <2> QED
    BY <2>1, Lengths
<1>2. Layout(k) = IF k = "renderTarget" THEN "Tiled" ELSE "Linear"
  BY DEF Layout, Get2dTextureLayoutRequirements
<1>3. PitchAlign(k) = CASE k = "staging" -> a
                        [] k \in {"renderTarget", "displayable"} -> pw
                        [] k \in {"shaderResource", "dynamic"} -> tw
                        [] k = "present" -> 1
  BY <1>1 DEF PitchAlign, Get2dTextureLayoutRequirements
<1>4. HeightAlign(k) = CASE k \in {"staging", "present"} -> 1
                         [] k \in {"renderTarget", "displayable"} -> ph
                         [] k \in {"shaderResource", "dynamic"} -> th
  BY <1>1 DEF HeightAlign, Get2dTextureLayoutRequirements
<1>5. PitchAlign(k) \in Nat \ {0}
  BY <1>3 DEF Kinds
<1>6. HeightAlign(k) \in Nat \ {0}
  BY <1>4 DEF Kinds
<1> QED
  BY <1>2, <1>5, <1>6

(* A row holds the width of the texture, and the rows its height. *)
LEMMA Rows ==
  ASSUME IsSize, NEW k \in Kinds
  PROVE  /\ Pitch(k) \in Nat \ {0} /\ Pitch(k) >= size.w
         /\ HwHeight(k) \in Nat /\ HwHeight(k) >= size.h
         /\ HwSize(k) \in Nat
<1>1. /\ Pitch(k) = AlignValue(size.w, PitchAlign(k))
      /\ HwHeight(k) = AlignValue(size.h, HeightAlign(k))
  BY DEF Pitch, HwHeight, PitchAlign, HeightAlign
<1>2. /\ size.w \in Nat /\ size.w > 0 /\ size.h \in Nat
      /\ PitchAlign(k) \in Nat \ {0} /\ HeightAlign(k) \in Nat \ {0}
  BY Requirements DEF IsSize
<1>3. /\ AlignValue(size.w, PitchAlign(k)) \in Nat
      /\ AlignValue(size.w, PitchAlign(k)) >= size.w
  BY <1>2, Aligned
<1>4. /\ AlignValue(size.h, HeightAlign(k)) \in Nat
      /\ AlignValue(size.h, HeightAlign(k)) >= size.h
  BY <1>2, Aligned
<1>5. PICK p \in Nat, h \in Nat : p = Pitch(k) /\ h = HwHeight(k)
  BY <1>1, <1>3, <1>4
<1>6. HwSize(k) = p * h /\ p * h \in Nat
  BY <1>5 DEF HwSize
<1> QED
  BY <1>1, <1>2, <1>3, <1>4, <1>6

(* The tiles of a texture lie in a render target: CalculateMemoryLayout    *)
(* rounds up to binning tiles, which consist of tiles.                     *)
LEMMA TilesFit ==
  ASSUME IsSize
  PROVE  0 .. WidthInTiles * HeightInTiles * TileSize - 1 \subseteq Places("renderTarget")
<1>1. PICK w \in Nat, h \in Nat, tw \in Nat \ {0}, th \in Nat \ {0}, b \in Nat \ {0} :
        /\ w = WidthInTiles /\ h = HeightInTiles /\ tw = TileWidth /\ th = TileHeight
        /\ b = BinningTiles
  BY Tiles, Lengths
<1>2. PICK p \in Nat, k \in Nat : p = Pitch("renderTarget") /\ k = HwHeight("renderTarget")
  BY Rows DEF Kinds
<1>3. ASSUME NEW n \in Nat, NEW d \in Nat \ {0}
      PROVE  AlignValue(n, d) <= AlignValue(n, b * d)
  <2>1. PICK e \in Nat \ {0} : e = b * d
    OBVIOUS
  <2>2. PICK v, q \in Nat : v = AlignValue(n, e) /\ q = v \div e
    BY Aligned
  <2>3. n <= v /\ v = q * e
    BY <2>2, Aligned
  <2>4. PICK m \in Nat : m = q * b
    OBVIOUS
  <2>5. v = m * d
    BY <2>1, <2>3, <2>4
  <2>6. AlignValue(n, d) <= m * d
    BY <2>3, <2>5, Aligned
  <2> QED
    BY <2>1, <2>2, <2>5, <2>6
<1>4. w * tw <= p
  <2>1. AlignValue(size.w, tw) <= AlignValue(size.w, b * tw)
    BY <1>3 DEF IsSize
  <2>2. AlignValue(size.w, tw) = w * tw
    BY <1>1, Tiles
  <2>3. AlignValue(size.w, b * tw) = p
    BY <1>1, <1>2 DEF Pitch, Get2dTextureLayoutRequirements
  <2> QED
    BY <2>1, <2>2, <2>3
<1>5. h * th <= k
  <2>1. AlignValue(size.h, th) <= AlignValue(size.h, b * th)
    BY <1>3 DEF IsSize
  <2>2. AlignValue(size.h, th) = h * th
    BY <1>1, Tiles
  <2>3. AlignValue(size.h, b * th) = k
    BY <1>1, <1>2 DEF HwHeight, Get2dTextureLayoutRequirements
  <2> QED
    BY <2>1, <2>2, <2>3
<1>6. TileSize = tw * th
  <2>1. PICK a \in Nat, c \in Nat, s \in Nat :
          a = MicroTileWidth /\ c = MicroTileHeight /\ s = SubTileSide
    BY Lengths
  <2>2. tw = 2 * (s * a) /\ th = 2 * (s * c)
    BY <2>1, <1>1 DEF TileWidth, TileHeight, SubTileWidth, SubTileHeight
  <2>3. TileSize = 4 * (s * s * (a * c))
    BY <2>1 DEF TileSize, SubTileSize, MicroTileSize
  <2>4. 4 * (s * s * (a * c)) = (2 * (s * a)) * (2 * (s * c))
    OBVIOUS
  <2> QED
    BY <2>2, <2>3, <2>4
<1>7. w * h * (tw * th) <= p * k
  <2>1. PICK u \in Nat, v \in Nat : u = w * tw /\ v = h * th
    OBVIOUS
  <2>2. w * h * (tw * th) = u * v
    BY <2>1
  <2>3. u * v <= p * v
    BY <2>1, <1>4, Multiples
  <2>4. v * p <= k * p
    BY <2>1, <1>5, Multiples
  <2>5. p * v = v * p /\ p * k = k * p /\ u * v \in Nat /\ p * v \in Nat /\ p * k \in Nat
    OBVIOUS
  <2> QED
    BY <2>2, <2>3, <2>4, <2>5
<1>8. HwSize("renderTarget") = p * k /\ p * k \in Nat /\ w * h * (tw * th) \in Nat
  BY <1>2 DEF HwSize
<1> QED
  BY <1>1, <1>6, <1>7, <1>8 DEF Places

(* What CopyTFormatToLinear reads for a row of a staging texture lies in   *)
(* the tiles.                                                              *)
LEMMA StagingPitch ==
  ASSUME IsSize
  PROVE  Pitch("staging") <= WidthInTiles * TileWidth
<1>1. PICK a \in Nat \ {0}, s \in Nat \ {0}, w \in Nat, n \in Nat :
        a = MicroTileWidth /\ s = SubTileSide /\ w = WidthInTiles /\ n = size.w
  BY Lengths, Tiles DEF IsSize
<1>2. w * TileWidth = (w * (2 * s)) * a
  <2>1. TileWidth = 2 * (s * a)
    BY <1>1 DEF TileWidth, SubTileWidth
  <2>2. w * (2 * (s * a)) = (w * (2 * s)) * a
    OBVIOUS
  <2> QED
    BY <2>1, <2>2
<1>3. PICK m \in Nat : m = w * (2 * s)
  OBVIOUS
<1>4. n <= m * a
  BY <1>1, <1>2, <1>3, Tiles
<1>5. AlignValue(n, a) <= m * a
  BY <1>4, Aligned
<1>6. Pitch("staging") = AlignValue(n, a)
  BY <1>1 DEF Pitch, Get2dTextureLayoutRequirements
<1> QED
  BY <1>1, <1>2, <1>3, <1>5, <1>6

(* What CopyTFormatToLinear reads is found in the tiles, and the pixel that *)
(* ConvertBitmapTo4kTileBlocks wrote there is the one it wants.             *)
LEMMA ReadsInBounds ==
  ASSUME IsSize
  PROVE  TiledReadsInBounds
<1> DEFINE read == (0 .. Pitch("staging") - 1) \X (0 .. size.h - 1)
           tiles == 0 .. WidthInTiles * HeightInTiles * TileSize - 1
<1>1. ASSUME NEW xy \in read
      PROVE  /\ TiledPlace(xy[1], xy[2]) \in tiles
             /\ ConvertBitmapTo4kTileBlocks(TiledPlace(xy[1], xy[2])) = [x |-> xy[1], y |-> xy[2]]
  <2>1. PICK x \in 0 .. Pitch("staging") - 1, y \in 0 .. size.h - 1 : xy[1] = x /\ xy[2] = y
    BY <1>1
  <2>2. /\ Pitch("staging") \in Nat /\ Pitch("staging") <= WidthInTiles * TileWidth
        /\ size.h \in Nat /\ size.h <= HeightInTiles * TileHeight
        /\ WidthInTiles * TileWidth \in Nat /\ HeightInTiles * TileHeight \in Nat
    <3>1. "staging" \in Kinds
      BY DEF Kinds
    <3>2. \A k, l \in Nat : k * l \in Nat
      OBVIOUS
    <3> QED
      BY <3>1, <3>2, Rows, StagingPitch, Tiles, Lengths DEF IsSize
  <2>3. /\ x \in Nat /\ y \in Nat /\ x < WidthInTiles * TileWidth
        /\ y < HeightInTiles * TileHeight
    BY <2>2
  <2> QED
    BY <2>1, <2>3, FormatsAgree
<1> HIDE DEF read, tiles
<1>2. {TiledPlace(xy[1], xy[2]) : xy \in read} \subseteq tiles
  BY <1>1
<1>3. tiles \subseteq Places("renderTarget")
  BY TilesFit DEF tiles
<1>4. TiledReadsInBounds <=>
        /\ {TiledPlace(xy[1], xy[2]) : xy \in read} \subseteq tiles
        /\ tiles \subseteq Places("renderTarget")
        /\ \A xy \in read :
             ConvertBitmapTo4kTileBlocks(TiledPlace(xy[1], xy[2])) = [x |-> xy[1], y |-> xy[2]]
  BY DEF TiledReadsInBounds, read, tiles
<1> QED
  BY <1>1, <1>2, <1>3, <1>4

-----------------------------------------------------------------------------
(* Pictures. *)

(* A memory m laid out for a texture of kind k shows p. *)
Image(m, k, p) ==
  \A x \in 0 .. size.w - 1, y \in 0 .. size.h - 1 : m[PlaceOf(k, x, y)] = Pixel(p, x, y)

(* Each pixel has a place in the allocation, no two the same one. *)
LEMMA PlaceOfPixel ==
  ASSUME IsSize, NEW k \in Kinds, NEW x \in 0 .. size.w - 1, NEW y \in 0 .. size.h - 1
  PROVE  /\ PlaceOf(k, x, y) \in Places(k)
         /\ Layout(k) = "Linear" =>
              /\ PlaceOf(k, x, y) \in Nat /\ PlaceOf(k, x, y) = y * Pitch(k) + x
              /\ PlaceOf(k, x, y) \div Pitch(k) = y /\ PlaceOf(k, x, y) % Pitch(k) = x
         /\ Layout(k) = "Tiled" =>
              /\ PlaceOf(k, x, y) = TiledPlace(x, y)
              /\ TiledPlace(x, y) \in 0 .. WidthInTiles * HeightInTiles * TileSize - 1
              /\ ConvertBitmapTo4kTileBlocks(TiledPlace(x, y)) = [x |-> x, y |-> y]
<1>1. /\ x \in Nat /\ y \in Nat /\ x < size.w /\ y < size.h
      /\ size.w \in Nat /\ size.h \in Nat
  BY DEF IsSize
<1>2. CASE Layout(k) = "Linear"
  <2>1. PICK p \in Nat \ {0}, h \in Nat : /\ p = Pitch(k) /\ h = HwHeight(k)
                                        /\ x < p /\ y < h
    BY <1>1, Rows
  <2>2. PlaceOf(k, x, y) = y * p + x
    BY <1>2, <2>1 DEF PlaceOf
  <2>3. y * p + x \in Nat /\ y * p + x < h * p
    BY <1>1, <2>1, Below
  <2>4. (y * p + x) \div p = y /\ (y * p + x) % p = x
    BY <1>1, <2>1, TheDigits
  <2>5. HwSize(k) = h * p /\ h * p \in Nat
    BY <2>1 DEF HwSize
  <2>6. PlaceOf(k, x, y) \in Places(k)
    BY <2>2, <2>3, <2>5 DEF Places
  <2> QED
    BY <1>2, <2>1, <2>2, <2>3, <2>4, <2>6
<1>3. CASE Layout(k) = "Tiled"
  <2>1. k = "renderTarget"
    BY <1>3, Requirements
  <2>2. PlaceOf(k, x, y) = TiledPlace(x, y)
    BY <1>3 DEF PlaceOf
  <2>3. x < WidthInTiles * TileWidth /\ y < HeightInTiles * TileHeight
    <3>1. PICK w \in Nat, h \in Nat : w = WidthInTiles * TileWidth /\ h = HeightInTiles * TileHeight
      <4>1. \A j, l \in Nat : j * l \in Nat
        OBVIOUS
      <4> QED
        BY <4>1, Tiles, Lengths
    <3> QED
      BY <3>1, <1>1, Tiles
  <2>4. /\ TiledPlace(x, y) \in 0 .. WidthInTiles * HeightInTiles * TileSize - 1
        /\ ConvertBitmapTo4kTileBlocks(TiledPlace(x, y)) = [x |-> x, y |-> y]
    BY <1>1, <2>3, FormatsAgree
  <2>5. TiledPlace(x, y) \in Places(k)
    BY <2>1, <2>4, TilesFit
  <2> QED
    BY <1>3, <2>2, <2>4, <2>5
<1>4. Layout(k) \in {"Linear", "Tiled"}
  BY Requirements
<1> QED
  BY <1>2, <1>3, <1>4

(* FormatsAgree tells tiled places apart, quotient and remainder by the    *)
(* pitch linear ones.                                                      *)
LEMMA PixelsApart ==
  ASSUME IsSize, NEW k \in Kinds,
         NEW x \in 0 .. size.w - 1, NEW y \in 0 .. size.h - 1,
         NEW u \in 0 .. size.w - 1, NEW v \in 0 .. size.h - 1,
         PlaceOf(k, x, y) = PlaceOf(k, u, v)
  PROVE  x = u /\ y = v
<1>1. CASE Layout(k) = "Linear"
  BY <1>1, PlaceOfPixel
<1>2. CASE Layout(k) = "Tiled"
  <2>1. /\ ConvertBitmapTo4kTileBlocks(TiledPlace(x, y)) = [x |-> x, y |-> y]
        /\ ConvertBitmapTo4kTileBlocks(TiledPlace(u, v)) = [x |-> u, y |-> v]
        /\ TiledPlace(x, y) = TiledPlace(u, v)
    BY <1>2, PlaceOfPixel
  <2>2. [x |-> x, y |-> y] = [x |-> u, y |-> v]
    BY <2>1
  <2> QED
    BY <2>2
<1>3. Layout(k) \in {"Linear", "Tiled"}
  BY Requirements
<1> QED
  BY <1>1, <1>2, <1>3

(* Initial data, in the order of memory or row by row. *)
LEMMA TiledDataShows ==
  ASSUME IsSize, NEW k \in Kinds, Layout(k) = "Tiled", NEW p
  PROVE  Image(TiledInitialData(k, p), k, p)
<1> SUFFICES ASSUME NEW x \in 0 .. size.w - 1, NEW y \in 0 .. size.h - 1
             PROVE  TiledInitialData(k, p)[PlaceOf(k, x, y)] = Pixel(p, x, y)
  BY DEF Image
<1>1. PICK n : n = TiledPlace(x, y)
  OBVIOUS
<1>2. /\ n = PlaceOf(k, x, y) /\ n \in Places(k)
      /\ n < WidthInTiles * HeightInTiles * TileSize
      /\ ConvertBitmapTo4kTileBlocks(n) = [x |-> x, y |-> y]
  <2>1. PICK t \in Nat : t = WidthInTiles * HeightInTiles * TileSize
    <3>1. \A j, l, m \in Nat : j * l * m \in Nat
      OBVIOUS
    <3> QED
      BY <3>1, Tiles, Lengths
  <2>2. n \in 0 .. t - 1
    BY <1>1, <2>1, PlaceOfPixel
  <2>3. n < t
    BY <2>2
  <2> QED
    BY <1>1, <2>1, <2>3, PlaceOfPixel
<1> QED
  BY <1>2 DEF TiledInitialData

(* A row of the bitmap that is longer than that of the texture spills into *)
(* the next one, which is written after it.                                *)
LEMMA LinearDataShows ==
  ASSUME IsSize, NEW k \in Kinds, Layout(k) = "Linear", NEW p, NEW pad \in Nat
  PROVE  Image(LinearInitialData(k, p, size.w + pad), k, p)
<1> SUFFICES ASSUME NEW x \in 0 .. size.w - 1, NEW y \in 0 .. size.h - 1
             PROVE  LinearInitialData(k, p, size.w + pad)[PlaceOf(k, x, y)] = Pixel(p, x, y)
  BY DEF Image
<1>1. PICK n \in Nat, q \in Nat :
        /\ n = PlaceOf(k, x, y) /\ n \in Places(k) /\ q = Pitch(k)
        /\ n = y * q + x /\ n \div q = y
  <2>1. /\ PlaceOf(k, x, y) \in Places(k) /\ PlaceOf(k, x, y) \in Nat
        /\ PlaceOf(k, x, y) = y * Pitch(k) + x /\ PlaceOf(k, x, y) \div Pitch(k) = y
    BY PlaceOfPixel
  <2>2. Pitch(k) \in Nat
    BY Rows
  <2>3. PICK q \in Nat : q = Pitch(k)
    BY <2>2
  <2>4. PICK n \in Nat : n = PlaceOf(k, x, y)
    BY <2>1
  <2>5. n = y * q + x /\ n \div q = y /\ n \in Places(k)
    BY <2>1, <2>3, <2>4
  <2> QED
    BY <2>3, <2>4, <2>5
<1>2. /\ x \in Nat /\ y \in Nat /\ y < size.h /\ x < size.w + pad
  BY DEF IsSize
<1>3. n - y * q = x
  <2>1. y * q \in Nat
    BY <1>2
  <2> QED
    BY <2>1, <1>1, <1>2
<1>4. LinearInitialData(k, p, size.w + pad)[n] =
        LET row == n \div q
            v == IF row < size.h THEN row ELSE size.h - 1
            u == n - v * q
        IN  IF u < size.w + pad THEN Pixel(p, u, v) ELSE Junk
  BY <1>1 DEF LinearInitialData
<1> QED
  BY <1>1, <1>2, <1>3, <1>4

(* What the GPU writes. *)
Rendered(m, k, p) ==
  LET image == [xy \in (0 .. size.w - 1) \X (0 .. size.h - 1) |-> PlaceOf(k, xy[1], xy[2])]
  IN  [n \in DOMAIN m |->
         IF \E xy \in DOMAIN image : image[xy] = n
         THEN LET xy == CHOOSE xy \in DOMAIN image : image[xy] = n
              IN  Pixel(p, xy[1], xy[2])
         ELSE m[n]]

(* No pixel that the GPU writes replaces another one. *)
LEMMA RenderedShows ==
  ASSUME IsSize, NEW k \in Kinds, NEW p, NEW m, DOMAIN m = Places(k)
  PROVE  Image(Rendered(m, k, p), k, p)
<1> SUFFICES ASSUME NEW x \in 0 .. size.w - 1, NEW y \in 0 .. size.h - 1
             PROVE  Rendered(m, k, p)[PlaceOf(k, x, y)] = Pixel(p, x, y)
  BY DEF Image
<1> DEFINE pixels == (0 .. size.w - 1) \X (0 .. size.h - 1)
           image == [xy \in pixels |-> PlaceOf(k, xy[1], xy[2])]
<1>1. PICK n : n = PlaceOf(k, x, y) /\ n \in DOMAIN m
  BY PlaceOfPixel
<1>2. <<x, y>> \in DOMAIN image /\ image[<<x, y>>] = n
  BY <1>1
<1>3. PICK xy \in DOMAIN image : xy = (CHOOSE z \in DOMAIN image : image[z] = n) /\ image[xy] = n
  BY <1>2
<1>4. PICK u \in 0 .. size.w - 1, v \in 0 .. size.h - 1 : xy = <<u, v>>
  <2>1. xy \in (0 .. size.w - 1) \X (0 .. size.h - 1)
    BY <1>3
  <2>2. xy[1] \in 0 .. size.w - 1 /\ xy[2] \in 0 .. size.h - 1 /\ xy = <<xy[1], xy[2]>>
    BY <2>1
  <2> QED
    BY <2>2, Zenon
<1>5. PlaceOf(k, u, v) = n
  <2>1. image[<<u, v>>] = PlaceOf(k, u, v)
    OBVIOUS
  <2> HIDE DEF image
  <2> QED
    BY <2>1, <1>3, <1>4
<1>6. u = x /\ v = y
  BY <1>1, <1>5, PixelsApart
<1>7. Rendered(m, k, p)[n] = Pixel(p, xy[1], xy[2])
  <2>1. Rendered(m, k, p) = [i \in DOMAIN m |->
          IF \E z \in DOMAIN image : image[z] = i
          THEN Pixel(p, (CHOOSE z \in DOMAIN image : image[z] = i)[1],
                        (CHOOSE z \in DOMAIN image : image[z] = i)[2])
          ELSE m[i]]
    BY DEF Rendered
  <2> HIDE DEF image
  <2> QED
    BY <1>1, <1>2, <1>3, <2>1
<1> QED
  BY <1>1, <1>4, <1>6, <1>7

(* A staging texture filled from the T-format shows what the target does. *)
LEMMA ConvertedShows ==
  ASSUME IsSize, NEW d, NEW t, texture[d] = "staging", texture[t] = "renderTarget",
         DOMAIN memory[d] = Places("staging"), NEW p, Image(memory[t], "renderTarget", p)
  PROVE  Image(CopyTFormatToLinear(d, t), "staging", p)
<1> SUFFICES ASSUME NEW x \in 0 .. size.w - 1, NEW y \in 0 .. size.h - 1
             PROVE  CopyTFormatToLinear(d, t)[PlaceOf("staging", x, y)] = Pixel(p, x, y)
  BY DEF Image
<1>1. /\ "staging" \in Kinds /\ "renderTarget" \in Kinds
      /\ Layout("staging") = "Linear" /\ Layout("renderTarget") = "Tiled"
  BY Requirements DEF Kinds
<1>2. PICK n, q : /\ n = PlaceOf("staging", x, y) /\ n \in DOMAIN memory[d] /\ q = Pitch("staging")
                  /\ n \div q = y /\ n % q = x
  BY <1>1, PlaceOfPixel
<1>3. y < size.h
  BY DEF IsSize
<1>4. CopyTFormatToLinear(d, t)[n] = memory[t][TiledPlace(x, y)]
  BY <1>2, <1>3 DEF CopyTFormatToLinear
<1>5. memory[t][TiledPlace(x, y)] = Pixel(p, x, y)
  <2>1. PlaceOf("renderTarget", x, y) = TiledPlace(x, y)
    BY <1>1, PlaceOfPixel
  <2> QED
    BY <2>1 DEF Image
<1> QED
  BY <1>2, <1>4, <1>5

(* So does the target of a plain copy between equal layouts: the length of *)
(* the copy covers the places of all pixels.                               *)
LEMMA CopiedShows ==
  ASSUME IsSize, NEW d, NEW t, texture[d] \in Kinds, texture[t] \in Kinds, SameLayout(d, t),
         DOMAIN memory[d] = Places(texture[d]), DOMAIN memory[t] = Places(texture[t]),
         NEW p, Image(memory[t], texture[t], p)
  PROVE  Image(Copied(d, t, CopyLength(d, t)), texture[d], p)
<1> SUFFICES ASSUME NEW x \in 0 .. size.w - 1, NEW y \in 0 .. size.h - 1
             PROVE  Copied(d, t, CopyLength(d, t))[PlaceOf(texture[d], x, y)] = Pixel(p, x, y)
  BY DEF Image
<1>1. PICK n : n = PlaceOf(texture[d], x, y) /\ n \in Places(texture[d])
  BY PlaceOfPixel
<1>2. n = PlaceOf(texture[t], x, y) /\ n \in Places(texture[t])
  <2>1. PlaceOf(texture[d], x, y) = PlaceOf(texture[t], x, y)
    BY DEF PlaceOf, SameLayout
  <2> QED
    BY <2>1, <1>1, PlaceOfPixel
<1>3. CopyLength(d, t) \in {HwSize(texture[d]), HwSize(texture[t])}
  BY DEF CopyLength
<1>4. ~ (n >= CopyLength(d, t))
  <2>1. PICK l \in Nat : l = CopyLength(d, t) /\ n \in 0 .. l - 1
    BY <1>1, <1>2, <1>3, Rows DEF Places
  <2> QED
    BY <2>1
<1>5. Copied(d, t, CopyLength(d, t))[n] = memory[t][n]
  BY <1>1, <1>2, <1>4 DEF Copied
<1> QED
  BY <1>1, <1>2, <1>5 DEF Image

-----------------------------------------------------------------------------
(* The invariant: the allocation of a texture is as large as its kind      *)
(* wants it, and a texture that did not lose its picture shows it.         *)
Allocated(t) == texture[t] # "none" => DOMAIN memory[t] = Places(texture[t])
Kept(t) ==
  texture[t] # "none" /\ picture[t] # Junk /\ ~ lost[t]
    => Image(memory[t], texture[t], picture[t])
TextureInv ==
  /\ size \in Sizes
  /\ texture \in [Textures -> Kinds \cup {"none"}]
  /\ DOMAIN memory = Textures /\ memory = [t \in Textures |-> memory[t]]
  /\ DOMAIN picture = Textures /\ picture = [t \in Textures |-> picture[t]]
  /\ lost \in [Textures -> BOOLEAN]
  /\ \A t \in Textures : Allocated(t) /\ Kept(t)

(* Every size the behaviour starts with is the size of a texture. *)
LEMMA SizeIsOne ==
  ASSUME size \in Sizes
  PROVE  IsSize
  BY LengthsAssumption DEF IsSize

(* No size changes: places are what they were. *)
LEMMA SamePlaces ==
  ASSUME size' = size
  PROVE  /\ \A k : Places(k)' = Places(k)
         /\ \A m, k, p : Image(m, k, p)' <=> Image(m, k, p)
<1>1. WidthInTiles' = WidthInTiles
  BY DEF WidthInTiles
<1>2. ASSUME NEW k
      PROVE  Pitch(k)' = Pitch(k) /\ HwHeight(k)' = HwHeight(k)
  BY DEF Pitch, HwHeight
<1>3. ASSUME NEW k
      PROVE  Places(k)' = Places(k)
  BY <1>2 DEF Places, HwSize
<1>4. ASSUME NEW x, NEW y
      PROVE  TiledPlace(x, y)' = TiledPlace(x, y)
  BY <1>1 DEF TiledPlace
<1>5. ASSUME NEW k, NEW x, NEW y
      PROVE  PlaceOf(k, x, y)' = PlaceOf(k, x, y)
  BY <1>2, <1>4 DEF PlaceOf
<1>6. ASSUME NEW p, NEW x, NEW y
      PROVE  Pixel(p, x, y)' = Pixel(p, x, y)
  BY DEF Pixel
<1>7. ASSUME NEW m, NEW k, NEW p
      PROVE  Image(m, k, p)' <=> Image(m, k, p)
  BY <1>5, <1>6 DEF Image
<1> QED
  BY <1>3, <1>7

(* A picture is looked for in the allocation only: what was written past   *)
(* its end is not missed.                                                  *)
LEMMA SameImage ==
  ASSUME IsSize, NEW k \in Kinds, NEW p, NEW m, NEW n, Image(m, k, p),
         \A i \in Places(k) : n[i] = m[i]
  PROVE  Image(n, k, p)
<1> SUFFICES ASSUME NEW x \in 0 .. size.w - 1, NEW y \in 0 .. size.h - 1
             PROVE  n[PlaceOf(k, x, y)] = Pixel(p, x, y)
  BY DEF Image
<1>1. PlaceOf(k, x, y) \in Places(k)
  BY PlaceOfPixel
<1> QED
  BY <1>1 DEF Image

(* Another texture keeps its place, and what it holds or its claim to show *)
(* a picture.                                                              *)
Alone(u) == \A i \in DOMAIN memory[u] : memory'[u][i] = memory[u][i]
KeptOrLost(u) ==
  /\ DOMAIN memory'[u] = DOMAIN memory[u]
  /\ texture[u] = "none" \/ lost'[u] \/ (lost'[u] = lost[u] /\ Alone(u))

(* A step that gives one texture new contents keeps the invariant if it    *)
(* leaves the others alone or knows that it does not.                      *)
LEMMA OneChanges ==
  ASSUME TextureInv, size' = size, NEW t \in Textures, NEW k \in Kinds, NEW m, NEW p,
         texture' = [texture EXCEPT ![t] = k], picture' = [picture EXCEPT ![t] = p],
         DOMAIN memory' = Textures, memory' = [u \in Textures |-> memory'[u]],
         lost' \in [Textures -> BOOLEAN], memory'[t] = m,
         \A u \in Textures \ {t} : KeptOrLost(u),
         DOMAIN m = Places(k), p # Junk /\ ~ lost'[t] => Image(m, k, p)
  PROVE  TextureInv'
<1>0. IsSize
  BY SizeIsOne DEF TextureInv
<1>1. /\ size' \in Sizes
      /\ texture' \in [Textures -> Kinds \cup {"none"}]
      /\ DOMAIN picture' = Textures /\ picture' = [u \in Textures |-> picture'[u]]
  BY DEF TextureInv
<1>2. ASSUME NEW u \in Textures
      PROVE  Allocated(u)' /\ Kept(u)'
  <2>1. CASE u = t
    <3>1. texture'[u] = k /\ memory'[u] = m /\ picture'[u] = p
      BY <2>1 DEF TextureInv
    <3>2. Places(k)' = Places(k) /\ (Image(m, k, p)' <=> Image(m, k, p))
      BY SamePlaces
    <3> QED
      BY <3>1, <3>2, <2>1 DEF Allocated, Kept
  <2>2. CASE u # t
    <3>1. texture'[u] = texture[u] /\ picture'[u] = picture[u] /\ KeptOrLost(u)
      BY <2>2 DEF TextureInv
    <3>2. Allocated(u) /\ Kept(u)
      BY DEF TextureInv
    <3>3. Allocated(u)'
      BY <3>1, <3>2, SamePlaces DEF Allocated, KeptOrLost
    <3>4. ASSUME texture[u] # "none", picture[u] # Junk, ~ lost'[u]
          PROVE  Image(memory'[u], texture[u], picture[u])
      <4>1. lost'[u] = lost[u] /\ Alone(u)
        BY <3>1, <3>4 DEF KeptOrLost
      <4>2. texture[u] \in Kinds /\ DOMAIN memory[u] = Places(texture[u])
        BY <3>2, <3>4 DEF Allocated, TextureInv
      <4>3. Image(memory[u], texture[u], picture[u])
        BY <3>2, <3>4, <4>1 DEF Kept
      <4>4. \A i \in Places(texture[u]) : memory'[u][i] = memory[u][i]
        BY <4>1, <4>2 DEF Alone
      <4> QED
        BY <4>2, <4>3, <4>4, <1>0, SameImage
    <3>5. Kept(u)'
      BY <3>1, <3>4, SamePlaces DEF Kept
    <3> QED
      BY <3>3, <3>5
  <2> QED
    BY <2>1, <2>2
<1> QED
  BY <1>1, <1>2 DEF TextureInv

(* Writing a texture past its end or not keeps the invariant.              *)
LEMMA FillStep ==
  ASSUME TextureInv, NEW t \in Textures, NEW k \in Kinds, NEW content, NEW p,
         NEW gone \in BOOLEAN, Fill(t, k, content, p, gone),
         p # Junk /\ ~ gone => Image(content, k, p)
  PROVE  TextureInv'
<1>1. IsSize
  BY SizeIsOne DEF TextureInv
<1> DEFINE past == DOMAIN content \ Places(k)
           m == [n \in Places(k) |-> content[n]]
<1>2. PICK behind \in Textures :
        /\ memory' = [u \in Textures |->
              IF u = t THEN m
              ELSE IF u = behind
              THEN [n \in DOMAIN memory[u] |->
                      IF HwSize(k) + n \in past THEN content[HwSize(k) + n] ELSE memory[u][n]]
              ELSE memory[u]]
        /\ lost' = [u \in Textures |->
              IF u = t THEN gone
              ELSE lost[u] \/ (u = behind /\ texture[u] # "none" /\ past # {})]
        /\ texture' = [texture EXCEPT ![t] = k]
        /\ picture' = [picture EXCEPT ![t] = p]
        /\ size' = size
  BY DEF Fill
<1>3. /\ DOMAIN memory' = Textures /\ memory' = [u \in Textures |-> memory'[u]]
      /\ lost' \in [Textures -> BOOLEAN] /\ memory'[t] = m /\ lost'[t] = gone
  BY <1>2 DEF TextureInv
<1>4. ASSUME NEW u \in Textures \ {t}
      PROVE  KeptOrLost(u)
  <2>1. CASE u # behind
    <3>1. memory'[u] = memory[u]
      BY <2>1, <1>2
    <3>3. Alone(u)
      BY <3>1 DEF Alone
    <3>2. lost'[u] = lost[u]
      BY <2>1, <1>2 DEF TextureInv
    <3> QED
      BY <3>1, <3>2, <3>3 DEF KeptOrLost
  <2>2. CASE u = behind
    <3>1. memory'[u] = [n \in DOMAIN memory[u] |->
            IF HwSize(k) + n \in past THEN content[HwSize(k) + n] ELSE memory[u][n]]
      BY <2>2, <1>2
    <3>2. DOMAIN memory'[u] = DOMAIN memory[u]
      BY <3>1
    <3>3. CASE past # {}
      <4>1. texture[u] = "none" \/ lost'[u]
        BY <3>3, <2>2, <1>2
      <4> QED
        BY <3>2, <4>1 DEF KeptOrLost
    <3>4. CASE past = {}
      <4>1. Alone(u)
        BY <3>1, <3>4 DEF Alone
      <4>2. lost'[u] = lost[u]
        BY <3>4, <1>2 DEF TextureInv
      <4> QED
        BY <3>2, <4>1, <4>2 DEF KeptOrLost
    <3> QED
      BY <3>3, <3>4
  <2> QED
    BY <2>1, <2>2
<1>5. p # Junk /\ ~ lost'[t] => Image(m, k, p)
  BY <1>1, <1>3, SameImage
<1>6. DOMAIN m = Places(k)
  OBVIOUS
<1> HIDE DEF m
<1> QED
  BY <1>2, <1>3, <1>4, <1>5, <1>6, OneChanges

(* No texture, no claim. *)
LEMMA TextureInit == Init => TextureInv
  BY DEF Init, TextureInv, Allocated, Kept

(* Initial data is shown, in either layout. *)
LEMMA CreateStep ==
  ASSUME TextureInv, NEW t \in Textures, NEW k \in Kinds, NEW p, CreateResource(t, k, p)
  PROVE  TextureInv'
<1>1. IsSize
  BY SizeIsOne DEF TextureInv
<1>2. CASE p = Junk
  <2>1. PICK content : Fill(t, k, content, p, FALSE)
    BY <1>2 DEF CreateResource
  <2> QED
    BY <2>1, <1>2, FillStep
<1>3. CASE p # Junk /\ Layout(k) = "Tiled"
  <2>1. Fill(t, k, TiledInitialData(k, p), p, FALSE)
    BY <1>3 DEF CreateResource
  <2>2. Image(TiledInitialData(k, p), k, p)
    BY <1>1, <1>3, TiledDataShows
  <2> QED
    BY <2>1, <2>2, FillStep
<1>4. CASE p # Junk /\ Layout(k) = "Linear"
  <2>1. PICK pad \in Padding : Fill(t, k, LinearInitialData(k, p, size.w + pad), p, FALSE)
    BY <1>4 DEF CreateResource
  <2>2. pad \in Nat
    BY LengthsAssumption
  <2>3. Image(LinearInitialData(k, p, size.w + pad), k, p)
    BY <2>2, <1>1, <1>4, LinearDataShows
  <2> QED
    BY <2>1, <2>3, FillStep
<1> QED
  BY <1>2, <1>3, <1>4, Requirements

(* What the GPU renders is shown, in either layout. *)
LEMMA RenderStep ==
  ASSUME TextureInv, NEW t \in Textures, NEW p, Render(t, p)
  PROVE  TextureInv'
<1>1. IsSize
  BY SizeIsOne DEF TextureInv
<1>2. PICK k \in Kinds : k = texture[t]
  BY DEF Render, Kinds
<1>3. PICK m : m = Rendered(memory[t], k, p)
  OBVIOUS
<1>4. DOMAIN memory[t] = Places(k)
  BY <1>2 DEF TextureInv, Allocated, Kinds
<1>5. DOMAIN m = Places(k)
  BY <1>3, <1>4 DEF Rendered
<1>6. Image(m, k, p)
  BY <1>1, <1>3, <1>4, RenderedShows
<1>7. /\ size' = size /\ picture' = [picture EXCEPT ![t] = p]
      /\ lost' = [lost EXCEPT ![t] = FALSE]
      /\ memory' = [memory EXCEPT ![t] = m]
  BY <1>2, <1>3 DEF Render, Rendered
<1>8. texture' = [texture EXCEPT ![t] = k]
  BY <1>2 DEF Render, TextureInv
<1>9. /\ DOMAIN memory' = Textures /\ memory' = [u \in Textures |-> memory'[u]]
      /\ lost' \in [Textures -> BOOLEAN] /\ memory'[t] = m
  BY <1>7 DEF TextureInv
<1>10. ASSUME NEW u \in Textures \ {t}
       PROVE  KeptOrLost(u)
  <2>1. memory'[u] = memory[u] /\ lost'[u] = lost[u]
    BY <1>7 DEF TextureInv
  <2> QED
    BY <2>1 DEF KeptOrLost, Alone
<1> QED
  BY <1>5, <1>6, <1>7, <1>8, <1>9, <1>10, OneChanges

(* A copy moves the picture with its pixels, or loses it. *)
LEMMA CopyStep ==
  ASSUME TextureInv, NEW d \in Textures, NEW t \in Textures, ResourceCopy(d, t)
  PROVE  TextureInv'
<1>1. IsSize
  BY SizeIsOne DEF TextureInv
<1>2. texture[d] \in Kinds /\ texture[t] \in Kinds
  BY DEF ResourceCopy, TextureInv
<1>3. DOMAIN memory[d] = Places(texture[d]) /\ DOMAIN memory[t] = Places(texture[t])
  BY DEF ResourceCopy, TextureInv, Allocated
<1>4. PICK m : m = IF Converts(d, t) THEN CopyTFormatToLinear(d, t)
                                     ELSE Copied(d, t, CopyLength(d, t))
  OBVIOUS
<1>5. PICK r \in BOOLEAN : r = (lost[t] \/ ~ KeepsPicture(d, t))
  OBVIOUS
<1>6. Fill(d, texture[d], m, picture[t], r)
  BY <1>4, <1>5 DEF ResourceCopy
<1>7. ASSUME picture[t] # Junk, ~ r
      PROVE  Image(m, texture[d], picture[t])
  <2>1. /\ ~ lost[t]
        /\ SameLayout(d, t) \/ (Layout(texture[t]) = "Tiled" /\ texture[d] = "staging")
    BY <1>5, <1>7, ZenonT(30) DEF KeepsPicture
  <2>2. Image(memory[t], texture[t], picture[t])
    BY <1>7, <2>1 DEF ResourceCopy, TextureInv, Kept
  <2>3. CASE SameLayout(d, t)
    <3>1. ~ Converts(d, t)
      BY <2>3 DEF SameLayout, Converts
    <3> QED
      BY <3>1, <2>2, <2>3, <1>1, <1>2, <1>3, <1>4, CopiedShows
  <2>4. CASE Layout(texture[t]) = "Tiled" /\ texture[d] = "staging"
    <3>1. texture[t] = "renderTarget" /\ Layout(texture[d]) = "Linear"
      BY <2>4, <1>2, Requirements
    <3>2. Converts(d, t)
      BY <2>4, <3>1 DEF Converts, IsDefault
    <3> QED
      BY <3>1, <3>2, <2>2, <2>4, <1>1, <1>3, <1>4, ConvertedShows
  <2> QED
    BY <2>1, <2>3, <2>4
<1> QED
  BY <1>2, <1>6, <1>7, FillStep

(* The invariant is inductive. *)
LEMMA TextureStep ==
  ASSUME TextureInv, [Next]_vars
  PROVE  TextureInv'
<1>1. CASE UNCHANGED vars
  <2>1. /\ size' = size /\ texture' = texture /\ memory' = memory
        /\ picture' = picture /\ lost' = lost
    BY <1>1 DEF vars
  <2>2. ASSUME NEW t \in Textures
        PROVE  Allocated(t)' /\ Kept(t)'
    <3>1. Allocated(t) /\ Kept(t)
      BY DEF TextureInv
    <3> QED
      BY <3>1, <2>1, SamePlaces DEF Allocated, Kept
  <2> QED
    BY <2>1, <2>2 DEF TextureInv
<1>2. CASE Next
  BY <1>2, CreateStep, RenderStep, CopyStep DEF Next
<1> QED
  BY <1>1, <1>2

(* The layouts and the copies keep the invariant. *)
LEMMA TextureInvariant == Spec => []TextureInv
  BY TextureInit, TextureStep, PTL DEF Spec

(* CopyTFormatToLinear for every size of a texture and every length of the *)
(* T-format: what it reads for a staging texture lies in the tiles of the  *)
(* render target and the tiles in its allocation, and TileCoord is the     *)
(* inverse of the order in which ConvertBitmapTo4kTileBlocks writes.       *)
THEOREM FormatsAreInverse == Spec => []TiledReadsInBounds
<1>1. TextureInv => TiledReadsInBounds
  BY SizeIsOne, ReadsInBounds DEF TextureInv
<1> QED
  BY <1>1, TextureInvariant, PTL

(* CreateResource, rendering and ResourceCopy in any order: a texture      *)
(* shows what was put into it, in either layout, through every sequence of *)
(* copies between equal layouts and from the T-format to staging textures. *)
THEOREM TexturesKeepPictures == Spec => []ImageKept
<1>1. TextureInv => ImageKept
  BY DEF TextureInv, ImageKept, Kept, Shows, Image
<1> QED
  BY <1>1, TextureInvariant, PTL
=============================================================================
