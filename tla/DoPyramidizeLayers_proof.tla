---------------------- MODULE DoPyramidizeLayers_proof ----------------------
(***************************************************************************)
(* The layers that DoPyramidize makes are complete and show the plane's    *)
(* own pixels, and a second run finds nothing to add to them: for all      *)
(* documents whose regions have room around them in the range of the       *)
(* integers (DocsHaveRoom), all tile sizes and integer widths.             *)
(***************************************************************************)
EXTENDS DoPyramidize_proof, PyramidizeThenCheck, FiniteSetTheorems

-----------------------------------------------------------------------------
(* Documents with room: every layer covers its plane.                      *)

\* What the room around a region gives: the tiling of the layer is around the
\* region, and its cells are all over the tiling.
TilingHasRoom(factor) ==
  /\ Tiling(factor) \in IntRect /\ IsOnGrid(Tiling(factor), factor) /\ InRange(Tiling(factor))
  /\ Contains(Tiling(factor), rect)
  /\ \A no \in Nat : no < NumberOfCells(factor) => Cell(factor, no) \in IntRect
  /\ \A x, y \in Int : InRect(Tiling(factor), x, y) =>
       \E no \in 0 .. NumberOfCells(factor) - 1 : InRect(Cell(factor, no), x, y)

\* How many cells lie side by side.
LEMMA CellsPerSide ==
  ASSUME NEW f \in Nat \ {0}, NEW q \in Nat \ {0}, NEW size \in Nat,
         NEW w \in Nat, w < size + 2 * f
  PROVE  (w + q * f - 1) \div (q * f) < size \div q + 4
<1>1. PICK c \in Nat \ {0} : c = q * f
  OBVIOUS
<1>2. f <= c /\ q <= c
  <2>1. 1 * f <= q * f /\ q * 1 <= q * f
    OBVIOUS
  <2> QED BY <1>1, <2>1
<1>3. PICK perRow \in Int : perRow = (w + c - 1) \div c
  <2>1. w + c - 1 \in Int
    OBVIOUS
  <2> QED BY <2>1, DivMod
<1>4. perRow * c <= w + c - 1
  <2>1. w + c - 1 \in Int
    OBVIOUS
  <2> QED BY <1>3, <2>1, FloorIsGreatest
<1>5. PICK k \in Int : k = size \div q
  BY DivMod
<1>6. size < k * q + q /\ 0 <= k
  <2>1. size < (size \div q) * q + q
    BY FloorIsGreatest
  <2>2. ASSUME k <= -1 PROVE FALSE
    <3>1. k * q <= (-1) * q
      BY <2>2
    <3>2. k * q \in Int
      OBVIOUS
    <3> QED BY <1>5, <2>1, <3>1, <3>2
  <2> QED BY <1>5, <2>1, <2>2
<1>7. k * q <= k * c
  BY <1>2, <1>6
<1>8. k * q \in Int /\ k * c \in Int /\ perRow * c \in Int /\ (k + 4) * c = k * c + 4 * c
  OBVIOUS
<1>9. perRow * c < (k + 4) * c
  BY <1>2, <1>4, <1>6, <1>7, <1>8
<1>10. perRow < k + 4
  <2> SUFFICES ASSUME k + 4 <= perRow PROVE FALSE
    OBVIOUS
  <2>1. (k + 4) * c <= perRow * c
    OBVIOUS
  <2> QED BY <1>8, <1>9, <2>1
<1> QED BY <1>1, <1>3, <1>5, <1>10

\* A product of numbers that are not negative grows with both.
LEMMA ProductGrows ==
  ASSUME NEW a \in Nat, NEW b \in Nat, NEW c \in Nat, NEW d \in Nat, a <= c, b <= d
  PROVE  a * b <= c * d
<1>1. a * b <= a * d
  OBVIOUS
<1>2. a * d <= c * d
  OBVIOUS
<1> QED BY <1>1, <1>2

\* A layer on top of a needed one has room.
LEMMA LayerHasRoom ==
  ASSUME NEW n \in Nat, NEW g, g = PowerOfTwo[n],
         IsStoredRect(rect), IsNonEmpty(rect), HasRoom(rect), IsAdditionalLayerNeeded(g)
  PROVE  IsLayerFactor(2 * g) /\ TilingHasRoom(2 * g)
<1>1. g \in Nat \ {0}
  BY PowerPositive
<1>2. PICK f \in Nat \ {0} : f = 2 * g
  BY <1>1
<1>3. IsLayerFactor(f) /\ IsFactor(f)
  BY <1>2, NeededFactor, LayerFactors
<1>4. PICK x0 \in Int, y0 \in Int, w \in Nat \ {0}, h \in Nat \ {0} :
         /\ rect \in IntRect /\ rect.x = x0 /\ rect.y = y0 /\ rect.w = w /\ rect.h = h
         /\ IntMin <= x0 /\ IntMin <= y0
  BY DEF IsStoredRect, IntRect, IsNonEmpty
<1>5. PICK q \in Nat \ {0} : q = PyramidTileSize
  BY DoPyramidizeAssumption
<1>6. PICK size \in Nat : size = Greater(w, h) /\ w <= size /\ h <= size
  BY DEF Greater
<1>7. PICK half \in Nat \ {0} : UintModulus = 2 * half /\ IntMax = half - 1
  BY SignedRange
<1>8. /\ 5 * size <= IntMax /\ x0 + 2 * size <= IntMax /\ y0 + 2 * size <= IntMax
      /\ (w \div q + 4) * (h \div q + 4) < UintModulus
  <2>1. HasRoom(rect) /\ size = Greater(rect.w, rect.h)
    BY <1>4, <1>6
  <2> QED BY <1>4, <1>5, <2>1, Zenon DEF HasRoom
<1>9. g * q + g <= size
  <2>1. w \div g > q \/ h \div g > q
    BY <1>4, <1>5 DEF IsAdditionalLayerNeeded, IsAbovePyramidThreshold
  <2>2. PICK side \in Nat : side <= size /\ side \div g > q
    BY <1>6, <2>1
  <2>3. PICK k \in Int, rest \in Nat : k = side \div g /\ side = g * k + rest
    <3>1. side \in Int
      BY <2>2
    <3>2. /\ side \div g \in Int /\ side % g \in Nat
          /\ side = g * (side \div g) + (side % g)
      BY <1>1, <3>1, DivMod
    <3>3. PICK a \in Int, rest \in Nat : a = side \div g /\ rest = side % g
      BY <3>2
    <3> QED BY <3>2, <3>3
  <2>4. g * k <= side
    <3>1. g * k \in Int
      BY <1>1, <2>3
    <3> QED BY <2>2, <2>3, <3>1
  <2>5. g * (q + 1) <= g * k
    <3>1. q + 1 <= k
      BY <2>2, <2>3
    <3>2. q + 1 \in Nat /\ k \in Nat /\ g \in Nat /\ g <= g
      BY <1>1, <2>3, <3>1
    <3> QED BY <3>1, <3>2, ProductGrows
  <2>6. g * (q + 1) = g * q + g /\ g * q \in Int /\ g * k \in Int
    BY <1>1, <2>3
  <2> QED BY <1>1, <2>2, <2>4, <2>5, <2>6
<1>10. PICK c \in Nat \ {0} : c = q * f
  OBVIOUS
<1>11. f <= size /\ c <= 2 * size
  <2>1. g * 1 <= g * q /\ g * q \in Nat
    BY <1>1
  <2>2. c = 2 * (g * q)
    BY <1>1, <1>2, <1>10
  <2> QED BY <1>1, <1>2, <1>9, <2>1, <2>2
<1>12. PICK t \in IntRect : /\ t = Tiling(f) /\ IsOnGrid(t, f) /\ InRange(t) /\ IsNonEmpty(t)
                           /\ Contains(t, rect)
                           /\ t.w < w + 2 * f /\ t.h < h + 2 * f
  <2>1. x0 + w + f - 1 <= IntMax /\ y0 + h + f - 1 <= IntMax
    BY <1>4, <1>6, <1>7, <1>8, <1>11
  <2> QED BY <1>3, <1>4, <2>1, TilingWithRoom DEF Tiling, IsNonEmpty
<1>13. CellSize(f) = c
  <2>1. f * PyramidTileSize = c
    BY <1>5, <1>10
  <2>2. c < UintModulus
    BY <1>7, <1>8, <1>11
  <2> QED BY <1>7, <2>1, <2>2 DEF CellSize, ToUint
<1>14. t.w \in Nat \ {0} /\ t.h \in Nat \ {0}
  BY <1>12 DEF IntRect, IsNonEmpty
<1>15. t.w + c - 1 <= IntMax /\ t.h + c - 1 <= IntMax
  BY <1>4, <1>6, <1>7, <1>8, <1>11, <1>12, <1>14
<1>16. ToUint(t.w + c - 1) = t.w + c - 1 /\ ToUint(t.h + c - 1) = t.h + c - 1
  BY <1>7, <1>14, <1>15 DEF ToUint
<1>17. TilesPerRow(t, c) * (ToUint(t.h + c - 1) \div c) < UintModulus
  <2>1. PICK perRow \in Int, rows \in Int : /\ perRow = (t.w + c - 1) \div c
                                            /\ rows = (t.h + c - 1) \div c
    <3>1. t.w + c - 1 \in Int /\ t.h + c - 1 \in Int
      BY <1>14
    <3> QED BY <3>1, DivMod
  <2>2. PICK k \in Int, l \in Int : k = w \div q /\ l = h \div q
    <3>1. w \in Int /\ h \in Int
      OBVIOUS
    <3> QED BY <3>1, DivMod
  <2>3. perRow < k + 4 /\ rows < l + 4
    BY <1>4, <1>10, <1>12, <1>14, <2>1, <2>2, CellsPerSide
  <2>4. 0 <= perRow /\ 0 <= rows
    <3>1. ASSUME NEW v \in Nat \ {0}, NEW p \in Int, p = (v + c - 1) \div c PROVE 0 <= p
      <4>1. v + c - 1 \in Int
        OBVIOUS
      <4>2. v + c - 1 < p * c + c
        BY <3>1, <4>1, FloorIsGreatest
      <4> SUFFICES ASSUME p <= -1 PROVE FALSE
        OBVIOUS
      <4>3. p * c <= (-1) * c
        OBVIOUS
      <4>4. p * c \in Int
        OBVIOUS
      <4> QED BY <4>2, <4>3, <4>4
    <3> QED BY <1>14, <2>1, <3>1
  <2>5. (k + 4) * (l + 4) < UintModulus
    BY <1>8, <2>2
  <2>6. perRow * rows <= (k + 4) * (l + 4)
    <3>1. perRow \in Nat /\ rows \in Nat /\ k + 4 \in Nat /\ l + 4 \in Nat
      BY <2>3, <2>4
    <3>2. perRow <= k + 4 /\ rows <= l + 4
      BY <2>3
    <3> QED BY <3>1, <3>2, ProductGrows
  <2>7. perRow * rows < UintModulus
    <3>1. PICK a \in Int, b \in Int : a = perRow * rows /\ b = (k + 4) * (l + 4)
      OBVIOUS
    <3> QED BY <1>7, <2>5, <2>6, <3>1
  <2> QED BY <1>16, <2>1, <2>7 DEF TilesPerRow
<1>18. ASSUME NEW x \in Int, NEW y \in Int, InRect(t, x, y)
       PROVE  \E no \in 0 .. NumberOfCells(f) - 1 : InRect(Cell(f, no), x, y)
  <2>1. \E no \in 0 .. GetNumberOfTiles(t, c, c) - 1 : InRect(GetRoi(t, c, c, no), x, y)
    BY <1>15, <1>17, <1>18, CellOfPoint
  <2> QED BY <1>12, <1>13, <2>1 DEF NumberOfCells, Cell
<1>19. ASSUME NEW no \in Nat, no < NumberOfCells(f) PROVE Cell(f, no) \in IntRect
  BY <1>12, <1>13, <1>19, GetRoiType DEF NumberOfCells, Cell
<1>20. TilingHasRoom(f)
  BY <1>12, <1>18, <1>19 DEF TilingHasRoom
<1> QED BY <1>2, <1>3, <1>20

\* The tile of a cell: on the grid and within the tiling; it covers what the
\* rectangles below cover of the cell.
LEMMA CellIsCovered ==
  ASSUME NEW f, IsFactor(f), TilingHasRoom(f), tile_no \in Nat, tile_no < NumberOfCells(f),
         NEW below \in SUBSET IntRect, \A t \in below : Contains(Tiling(f), t)
  PROVE  /\ \A r \in MinimalTileLatched(below, f) :
              /\ r \in IntRect /\ IsOnGrid(r, f) /\ IsNonEmpty(r) /\ Contains(Tiling(f), r)
              /\ \A s \in MinimalTileLatched(below, f) : r = s
         /\ \A x, y \in Int :
              InRect(Cell(f, tile_no), x, y) /\ (\E t \in below : InRect(t, x, y))
                => \E r \in MinimalTileLatched(below, f) : InRect(r, x, y)
<1>1. PICK tiling \in IntRect : tiling = Tiling(f) /\ IsOnGrid(tiling, f) /\ InRange(tiling)
  BY DEF TilingHasRoom
<1>2. PICK cell \in IntRect : cell = Cell(f, tile_no)
  BY DEF TilingHasRoom
<1>3. PICK minimal : minimal = GetMinimalRectForRoi(below, cell)
  OBVIOUS
<1>4. MinimalTileLatched(below, f) = {EnlargeAndLatch(m, f) : m \in {u \in {minimal} : IsNonEmpty(u)}}
  BY <1>2, <1>3 DEF MinimalTileLatched
<1>5. \A t \in below : Contains(tiling, t)
  BY <1>1
<1>6. IsNonEmpty(minimal) =>
        LET tile == EnlargeAndLatch(minimal, f)
        IN  tile \in IntRect /\ IsOnGrid(tile, f) /\ IsNonEmpty(tile) /\ Contains(tiling, tile)
  BY <1>1, <1>3, <1>5, TileWithinTiling
<1>7. ASSUME NEW x \in Int, NEW y \in Int, InRect(cell, x, y), \E t \in below : InRect(t, x, y)
      PROVE  IsNonEmpty(minimal) /\ InRect(EnlargeAndLatch(minimal, f), x, y)
  BY <1>1, <1>3, <1>5, <1>7, TileCoversCell
<1>8. ASSUME NEW r \in MinimalTileLatched(below, f)
      PROVE  r = EnlargeAndLatch(minimal, f) /\ IsNonEmpty(minimal)
  BY <1>4
<1>9. IsNonEmpty(minimal) => EnlargeAndLatch(minimal, f) \in MinimalTileLatched(below, f)
  BY <1>4
<1>10. ASSUME NEW r \in MinimalTileLatched(below, f)
       PROVE  /\ r \in IntRect /\ IsOnGrid(r, f) /\ IsNonEmpty(r) /\ Contains(Tiling(f), r)
              /\ \A s \in MinimalTileLatched(below, f) : r = s
  BY <1>1, <1>6, <1>8
<1>11. ASSUME NEW x \in Int, NEW y \in Int,
              InRect(Cell(f, tile_no), x, y), \E t \in below : InRect(t, x, y)
       PROVE  \E r \in MinimalTileLatched(below, f) : InRect(r, x, y)
  BY <1>2, <1>7, <1>9, <1>11
<1> QED BY <1>10, <1>11

-----------------------------------------------------------------------------
(* Pixels.                                                                 *)

\* A sub-block of the plane has the point.
HasData(plane, x, y) ==
  \E b \in Layer0Blocks(plane) : InRect(doc.subBlocks[b].rect, x, y)

\* Pixel (i, j) of a tile, whose pixels are factor apart, is that of the plane's
\* mosaic.
IsFaithful(t, plane, factor) ==
  \A i \in 0 .. t.bitmap.w - 1, j \in 0 .. t.bitmap.h - 1 :
     t.bitmap.pixel[i][j] =
       MosaicPixel(doc, Layer0Blocks(plane), t.rect.x + i * factor, t.rect.y + j * factor)

\* Two rectangles that share a point meet.
LEMMA SharedPoint ==
  ASSUME NEW a \in IntRect, NEW b \in IntRect, NEW x \in Int, NEW y \in Int,
         InRect(a, x, y), InRect(b, x, y)
  PROVE  IsNonEmpty(Intersect(a, b))
BY DEF InRect, IsNonEmpty, Intersect, IntRect, Greater, Lesser

\* The sub-blocks that libCZI is asked to draw for a region.
BlocksDrawn(roi) ==
  IF ContainsSceneIndex(plane_coordinate)
  THEN {b \in EnumSubset(doc, [d \in DOMAIN plane_coordinate \ {"S"} |-> plane_coordinate[d]], roi) :
          /\ ContainsSceneIndex(doc.subBlocks[b].coordinate)
          /\ doc.subBlocks[b].coordinate["S"] = plane_coordinate["S"]}
  ELSE EnumSubset(doc, plane_coordinate, roi)

\* Those that cover a point of the region are the plane's own that cover it.
LEMMA DrawnBlocks ==
  ASSUME doc \in Docs, plane_coordinate \in Planes(bounds), NEW roi \in IntRect,
         NEW x \in Int, NEW y \in Int, InRect(roi, x, y)
  PROVE  {b \in BlocksDrawn(roi) : InRect(doc.subBlocks[b].rect, x, y)}
           = {b \in Layer0Blocks(plane_coordinate) : InRect(doc.subBlocks[b].rect, x, y)}
<1>1. IsBounds(bounds) /\ IsDocument(doc)
  BY DocBounds, DoPyramidizeAssumption
<1>2. ASSUME NEW b \in DOMAIN doc.subBlocks
      PROVE  doc.subBlocks[b].coordinate \in Planes(bounds) /\ doc.subBlocks[b].rect \in IntRect
  BY <1>1 DEF IsDocument, bounds, IsStoredRect
<1>3. ASSUME NEW b \in DOMAIN doc.subBlocks
      PROVE  doc.subBlocks[b].coordinate = plane_coordinate <=>
               IF ContainsSceneIndex(plane_coordinate)
               THEN /\ Selects([d \in DOMAIN plane_coordinate \ {"S"} |-> plane_coordinate[d]],
                               doc.subBlocks[b].coordinate)
                    /\ ContainsSceneIndex(doc.subBlocks[b].coordinate)
                    /\ doc.subBlocks[b].coordinate["S"] = plane_coordinate["S"]
               ELSE Selects(plane_coordinate, doc.subBlocks[b].coordinate)
  <2>1. PICK q \in Planes(bounds) : q = doc.subBlocks[b].coordinate
    BY <1>2
  <2>2. q \in [DOMAIN bounds -> Int] /\ plane_coordinate \in [DOMAIN bounds -> Int]
    BY <1>1, PlaneType
  <2> QED BY <2>1, <2>2 DEF Selects, ContainsSceneIndex
<1>4. ASSUME NEW b \in DOMAIN doc.subBlocks, InRect(doc.subBlocks[b].rect, x, y)
      PROVE  IsNonEmpty(Intersect(doc.subBlocks[b].rect, roi))
  <2>1. PICK r \in IntRect : r = doc.subBlocks[b].rect
    BY <1>2
  <2> QED BY <1>4, <2>1, SharedPoint
<1>5. ASSUME NEW b \in DOMAIN doc.subBlocks, InRect(doc.subBlocks[b].rect, x, y)
      PROVE  b \in BlocksDrawn(roi) <=> doc.subBlocks[b].layer0 /\ doc.subBlocks[b].coordinate = plane_coordinate
  BY <1>3, <1>4, <1>5 DEF EnumSubset, BlocksDrawn
<1>6. BlocksDrawn(roi) \subseteq DOMAIN doc.subBlocks
  BY DEF EnumSubset, BlocksDrawn
<1> QED BY <1>5, <1>6 DEF Layer0Blocks

\* The mosaic's pixel depends on the sub-blocks that cover it.
LEMMA SameMosaic ==
  ASSUME NEW S, NEW T, NEW x, NEW y,
         {b \in S : InRect(doc.subBlocks[b].rect, x, y)}
           = {b \in T : InRect(doc.subBlocks[b].rect, x, y)}
  PROVE  MosaicPixel(doc, S, x, y) = MosaicPixel(doc, T, x, y)
<1> DEFINE Top(C) == IF C = {} THEN Background
                     ELSE CHOOSE b \in C :
                            \A c \in C : doc.subBlocks[c].mIndex <= doc.subBlocks[b].mIndex
<1>1. /\ MosaicPixel(doc, S, x, y) = Top({b \in S : InRect(doc.subBlocks[b].rect, x, y)})
      /\ MosaicPixel(doc, T, x, y) = Top({b \in T : InRect(doc.subBlocks[b].rect, x, y)})
  BY DEF MosaicPixel
<1> HIDE DEF Top
<1> QED BY <1>1

\* Which pixels a decimation keeps.
LEMMA DecimatedPixel ==
  ASSUME NEW source,
         NEW i \in 0 .. (source.w \div 2) - 1, NEW j \in 0 .. (source.h \div 2) - 1
  PROVE  Decimate(source).pixel[i][j] = source.pixel[2 * i][2 * j]
BY DEF Decimate

\* A tile of the first layer is faithful.
LEMMA Layer0Pixels ==
  ASSUME doc \in Docs, plane_coordinate \in Planes(bounds), NEW roi \in IntRect, NEW t,
         t.rect = roi, t.bitmap = GeneratePyramidTile(roi)
  PROVE  IsFaithful(t, plane_coordinate, 2)
<1>1. PICK blocks : blocks = BlocksDrawn(roi) /\ t.bitmap = Decimate(Draw(doc, roi, blocks))
  BY DEF GeneratePyramidTile, GetTile, GetTileOfScene, BlocksDrawn
<1>2. ASSUME NEW x \in Int, NEW y \in Int, InRect(roi, x, y)
      PROVE  {b \in blocks : InRect(doc.subBlocks[b].rect, x, y)}
               = {b \in Layer0Blocks(plane_coordinate) : InRect(doc.subBlocks[b].rect, x, y)}
  BY <1>1, <1>2, DrawnBlocks
<1>3. PICK w \in Int, h \in Int, x0 \in Int, y0 \in Int :
         roi.w = w /\ roi.h = h /\ roi.x = x0 /\ roi.y = y0
  BY DEF IntRect
<1>4. t.bitmap.w = w \div 2 /\ t.bitmap.h = h \div 2
  BY <1>1, <1>3 DEF Decimate, Draw
<1> SUFFICES ASSUME NEW i \in 0 .. (w \div 2) - 1, NEW j \in 0 .. (h \div 2) - 1
             PROVE  t.bitmap.pixel[i][j] =
                      MosaicPixel(doc, Layer0Blocks(plane_coordinate), x0 + i * 2, y0 + j * 2)
  BY <1>3, <1>4 DEF IsFaithful
<1>5. 2 * i \in 0 .. w - 1 /\ 2 * j \in 0 .. h - 1
  OBVIOUS
<1>6. PICK x \in Int, y \in Int : x = x0 + 2 * i /\ y = y0 + 2 * j
  BY <1>5
<1>7. InRect(roi, x, y)
  BY <1>3, <1>5, <1>6 DEF InRect
<1>8. t.bitmap.pixel[i][j] = Draw(doc, roi, blocks).pixel[2 * i][2 * j]
  <2>1. Draw(doc, roi, blocks).w = w /\ Draw(doc, roi, blocks).h = h
    BY <1>3 DEF Draw
  <2> QED BY <1>1, <2>1 DEF Decimate
<1>9. Draw(doc, roi, blocks).pixel[2 * i][2 * j] = MosaicPixel(doc, blocks, x, y)
  BY <1>3, <1>5, <1>6 DEF Draw
<1>10. MosaicPixel(doc, blocks, x, y) = MosaicPixel(doc, Layer0Blocks(plane_coordinate), x, y)
  BY <1>2, <1>7, SameMosaic
<1>11. x = x0 + i * 2 /\ y = y0 + j * 2
  BY <1>6
<1> QED BY <1>8, <1>9, <1>10, <1>11

\* One side of a composition: a tile's place among the pixels of the layer below.
LEMMA SideOfItem ==
  ASSUME NEW g \in Nat \ {0}, NEW start, IsMultiple(start, g), NEW origin, IsMultiple(origin, g),
         NEW size \in Int, NEW a \in Int, NEW at, at = (start - origin) \div g
  PROVE  /\ at \in Int
         /\ at <= a <=> start <= origin + a * g
         /\ a < at + size <=> origin + a * g < start + size * g
<1>1. PICK k \in Int : start = k * g
  BY DEF IsMultiple
<1>2. PICK l \in Int : origin = l * g
  BY DEF IsMultiple
<1>3. PICK d \in Int : d = k - l
  OBVIOUS
<1>4. start - origin = d * g
  BY <1>1, <1>2, <1>3
<1>5. at = d
  BY <1>4, QuotientOfMultiple
<1>6. ASSUME NEW u \in Int, NEW v \in Int PROVE u <= v <=> u * g <= v * g
  <2>1. ASSUME u <= v PROVE u * g <= v * g
    BY <2>1
  <2>2. ASSUME v + 1 <= u PROVE v * g < u * g
    <3>1. (v + 1) * g <= u * g
      BY <2>2
    <3>2. (v + 1) * g = v * g + g /\ v * g \in Int /\ u * g \in Int
      OBVIOUS
    <3> QED BY <3>1, <3>2
  <2>3. u * g \in Int /\ v * g \in Int
    OBVIOUS
  <2> QED BY <2>1, <2>2, <2>3
<1>7. PICK p \in Int, s \in Int, u \in Int : p = a * g /\ s = size * g /\ u = d * g
  OBVIOUS
<1>8. start = origin + u /\ origin \in Int
  BY <1>2, <1>4, <1>7, <1>1
<1>9. d <= a <=> u <= p
  BY <1>6, <1>7
<1>10. d + size <= a <=> u + s <= p
  <2>1. (d + size) * g = u + s /\ d + size \in Int
    BY <1>7
  <2> QED BY <1>6, <1>7, <2>1
<1> QED BY <1>3, <1>5, <1>7, <1>8, <1>9, <1>10

\* And the pixel of its own that it has at a place.
LEMMA PlaceOfItem ==
  ASSUME NEW g \in Nat \ {0}, NEW start, IsMultiple(start, g), NEW origin, IsMultiple(origin, g),
         NEW a \in Int, NEW at, at = (start - origin) \div g
  PROVE  start + (a - at) * g = origin + a * g
<1>1. PICK k \in Int : start = k * g
  BY DEF IsMultiple
<1>2. PICK l \in Int : origin = l * g
  BY DEF IsMultiple
<1>3. start - origin = (k - l) * g /\ k - l \in Int
  BY <1>1, <1>2
<1>4. at = k - l
  BY <1>3, QuotientOfMultiple
<1>5. k * g + (a - (k - l)) * g = l * g + a * g
  OBVIOUS
<1> QED BY <1>1, <1>2, <1>4, <1>5

\* A tile among the items of a composition covers a pixel if it has the pixel's
\* place, and shows there its own pixel of that place.
LEMMA ItemCovers ==
  ASSUME NEW g \in Nat \ {0}, NEW tile, IsTile(tile, g), IsOnGrid(tile.rect, g),
         NEW x0, IsMultiple(x0, g), NEW y0, IsMultiple(y0, g), NEW a \in Int, NEW b \in Int
  PROVE  LET atX == (tile.rect.x - x0) \div g
             atY == (tile.rect.y - y0) \div g
         IN  /\ atX \in Int /\ atY \in Int
             /\ InRect([x |-> atX, y |-> atY, w |-> tile.bitmap.w, h |-> tile.bitmap.h], a, b)
                  <=> InRect(tile.rect, x0 + a * g, y0 + b * g)
             /\ InRect(tile.rect, x0 + a * g, y0 + b * g) =>
                  a - atX \in 0 .. tile.bitmap.w - 1 /\ b - atY \in 0 .. tile.bitmap.h - 1
             /\ tile.rect.x + (a - atX) * g = x0 + a * g
             /\ tile.rect.y + (b - atY) * g = y0 + b * g
<1>1. PICK m \in 1 .. PyramidTileSize, n \in 1 .. PyramidTileSize :
         /\ tile.bitmap.w = m /\ tile.bitmap.h = n
         /\ tile.rect.w = m * g /\ tile.rect.h = n * g
  BY DEF IsTile
<1>2. m \in Int /\ n \in Int
  BY DoPyramidizeAssumption
<1>3. PICK tx \in Int, ty \in Int : tile.rect.x = tx /\ tile.rect.y = ty
  BY DEF IsTile, IntRect
<1>4. IsMultiple(tx, g) /\ IsMultiple(ty, g)
  BY <1>3 DEF IsOnGrid
<1>5. PICK atX, atY : atX = (tx - x0) \div g /\ atY = (ty - y0) \div g
  OBVIOUS
<1>6. /\ atX \in Int
      /\ atX <= a <=> tx <= x0 + a * g
      /\ a < atX + m <=> x0 + a * g < tx + m * g
      /\ tx + (a - atX) * g = x0 + a * g
  <2>1. IsMultiple(tx, g) /\ m \in Int /\ atX = (tx - x0) \div g
    BY <1>2, <1>4, <1>5
  <2>2. atX \in Int
    BY <2>1, SideOfItem
  <2>3. atX <= a <=> tx <= x0 + a * g
    BY <2>1, SideOfItem
  <2>4. a < atX + m <=> x0 + a * g < tx + m * g
    BY <2>1, SideOfItem
  <2>5. tx + (a - atX) * g = x0 + a * g
    BY <2>1, PlaceOfItem
  <2> QED BY <2>2, <2>3, <2>4, <2>5
<1>7. /\ atY \in Int
      /\ atY <= b <=> ty <= y0 + b * g
      /\ b < atY + n <=> y0 + b * g < ty + n * g
      /\ ty + (b - atY) * g = y0 + b * g
  <2>1. IsMultiple(ty, g) /\ n \in Int /\ atY = (ty - y0) \div g
    BY <1>2, <1>4, <1>5
  <2>2. atY \in Int
    BY <2>1, SideOfItem
  <2>3. atY <= b <=> ty <= y0 + b * g
    BY <2>1, SideOfItem
  <2>4. b < atY + n <=> y0 + b * g < ty + n * g
    BY <2>1, SideOfItem
  <2>5. ty + (b - atY) * g = y0 + b * g
    BY <2>1, PlaceOfItem
  <2> QED BY <2>2, <2>3, <2>4, <2>5
<1>8. InRect([x |-> atX, y |-> atY, w |-> tile.bitmap.w, h |-> tile.bitmap.h], a, b)
        <=> InRect(tile.rect, x0 + a * g, y0 + b * g)
  BY <1>1, <1>3, <1>6, <1>7, Zenon DEF InRect
<1>9. InRect(tile.rect, x0 + a * g, y0 + b * g) => atX <= a /\ a < atX + m /\ atY <= b /\ b < atY + n
  BY <1>1, <1>3, <1>6, <1>7, Zenon DEF InRect
<1>10. InRect(tile.rect, x0 + a * g, y0 + b * g) => a - atX \in 0 .. m - 1 /\ b - atY \in 0 .. n - 1
  <2> SUFFICES ASSUME atX <= a, a < atX + m, atY <= b, b < atY + n
               PROVE  a - atX \in 0 .. m - 1 /\ b - atY \in 0 .. n - 1
    BY <1>9
  <2> QED BY <1>2, <1>6, <1>7
<1>11. /\ atX = (tile.rect.x - x0) \div g /\ atY = (tile.rect.y - y0) \div g
       /\ tile.rect.x + (a - atX) * g = x0 + a * g /\ tile.rect.y + (b - atY) * g = y0 + b * g
  BY <1>3, <1>5, <1>6, <1>7
<1> QED BY <1>1, <1>6, <1>7, <1>8, <1>10, <1>11, Zenon

\* One side of a tile: its pixels, before the decimation, lie within it.
LEMMA SideOfPixels ==
  ASSUME NEW g \in Nat \ {0}, NEW size \in Int, NEW a \in 0 .. (size \div g) - 1
  PROVE  0 <= a * g /\ a * g < size
<1>1. PICK n \in Int : n = size \div g
  BY DivMod
<1>2. n * g <= size
  BY <1>1, FloorIsGreatest
<1>3. a \in Nat /\ a + 1 <= n
  BY <1>1
<1>4. (a + 1) * g <= n * g
  BY <1>3
<1>5. PICK p \in Nat : p = a * g
  BY <1>3
<1>6. (a + 1) * g = p + g
  BY <1>3, <1>5
<1>7. n * g \in Int
  OBVIOUS
<1> QED BY <1>2, <1>4, <1>5, <1>6, <1>7

\* The tiles of the layer below, as the sources of a layer.
AreSources(seq, plane, g) ==
  /\ \E S : seq \in Seq(S)
  /\ \A k \in DOMAIN seq :
       IsTile(seq[k], g) /\ IsOnGrid(seq[k].rect, g) /\ IsFaithful(seq[k], plane, g)
  /\ \A x, y \in Int : HasData(plane, x, y) => \E k \in DOMAIN seq : InRect(seq[k].rect, x, y)

\* Where a layer below covers the plane's data, each tile made from it is
\* faithful: the topmost of its tiles at a place shows what the mosaic shows
\* there, and where it has no tile there is no data.
LEMMA UpperPixels ==
  ASSUME NEW g \in Nat \ {0}, NEW plane, AreSources(tiles, plane, g),
         NEW roi \in IntRect, IsOnGrid(roi, g),
         NEW t, t.rect = roi, t.bitmap = CreatePyramidTile(tiles, roi, g * 2)
  PROVE  IsFaithful(t, plane, g * 2)
<1> DEFINE ItemOf(k) == [bitmap |-> tiles[k].bitmap,
                         x |-> (tiles[k].rect.x - roi.x) \div g,
                         y |-> (tiles[k].rect.y - roi.y) \div g]
           items == [k \in GetTilesIntersecting(tiles, roi) |-> ItemOf(k)]
           Covering(a, b) == {k \in DOMAIN items :
                                InRect([x |-> items[k].x, y |-> items[k].y,
                                        w |-> items[k].bitmap.w, h |-> items[k].bitmap.h], a, b)}
           w == roi.w \div g
           h == roi.h \div g
<1>1. ASSUME NEW k \in DOMAIN tiles
      PROVE  IsTile(tiles[k], g) /\ IsOnGrid(tiles[k].rect, g) /\ IsFaithful(tiles[k], plane, g)
  BY DEF AreSources
<1>2. DOMAIN tiles \in SUBSET Int /\ Len(tiles) \in Int /\ \A k \in DOMAIN tiles : k <= Len(tiles)
  BY DEF AreSources
<1>3. DOMAIN items = GetTilesIntersecting(tiles, roi) /\ DOMAIN items \subseteq DOMAIN tiles
  BY DEF GetTilesIntersecting
<1>4. \A k \in DOMAIN items : items[k] = ItemOf(k)
  OBVIOUS
<1>5. t.bitmap = Decimate(Compose(w, h, items))
  <2>1. (g * 2) \div 2 = g
    BY HalfOfDouble
  <2> QED BY <2>1 DEF CreatePyramidTile, ScaleByPyramidLayerMinusOne
<1>6. ASSUME NEW a \in 0 .. w - 1, NEW b \in 0 .. h - 1
      PROVE  Compose(w, h, items).pixel[a][b] =
               IF Covering(a, b) = {} THEN Background
               ELSE LET top == items[CHOOSE k \in Covering(a, b) : \A l \in Covering(a, b) : l <= k]
                    IN  top.bitmap.pixel[a - top.x][b - top.y]
  BY DEF Compose
<1>7. Compose(w, h, items).w = w /\ Compose(w, h, items).h = h
  BY DEF Compose
<1> HIDE DEF items
<1>8. /\ t.bitmap.w = w \div 2 /\ t.bitmap.h = h \div 2
      /\ \A i \in 0 .. (w \div 2) - 1, j \in 0 .. (h \div 2) - 1 :
           t.bitmap.pixel[i][j] = Compose(w, h, items).pixel[2 * i][2 * j]
  <2>1. PICK source : source = Compose(w, h, items)
    OBVIOUS
  <2>2. source.w = w /\ source.h = h /\ t.bitmap = Decimate(source)
    BY <1>5, <1>7, <2>1
  <2> HIDE DEF w, h
  <2>3. t.bitmap.w = w \div 2 /\ t.bitmap.h = h \div 2
    BY <2>2 DEF Decimate
  <2>4. \A i \in 0 .. (source.w \div 2) - 1, j \in 0 .. (source.h \div 2) - 1 :
          t.bitmap.pixel[i][j] = source.pixel[2 * i][2 * j]
    BY <2>2, DecimatedPixel
  <2> QED BY <2>1, <2>2, <2>3, <2>4
<1>9. PICK x0 \in Int, y0 \in Int : /\ roi.x = x0 /\ roi.y = y0
                                    /\ IsMultiple(x0, g) /\ IsMultiple(y0, g)
  BY DEF IntRect, IsOnGrid
<1>10. w \in Int /\ h \in Int
  <2>1. roi.w \in Int /\ roi.h \in Int
    BY DEF IntRect
  <2> QED BY <2>1, DivMod
<1>11. ASSUME NEW a \in 0 .. w - 1, NEW b \in 0 .. h - 1,
              NEW x \in Int, NEW y \in Int, x = x0 + a * g, y = y0 + b * g
       PROVE  Compose(w, h, items).pixel[a][b] = MosaicPixel(doc, Layer0Blocks(plane), x, y)
  <2>1. a \in Int /\ b \in Int
    BY <1>10
  <2>2. InRect(roi, x, y)
    <3>1. PICK u \in Int, v \in Int : roi.w = u /\ roi.h = v
      BY DEF IntRect
    <3>2. 0 <= a * g /\ a * g < u /\ 0 <= b * g /\ b * g < v
      BY <3>1, SideOfPixels
    <3>3. PICK p \in Int, s \in Int : p = a * g /\ s = b * g
      BY <2>1
    <3> HIDE DEF w, h
    <3> QED BY <1>9, <1>11, <3>1, <3>2, <3>3 DEF InRect
  <2> HIDE DEF w, h
  <2>3. ASSUME NEW k \in DOMAIN tiles
        PROVE  /\ InRect([x |-> ItemOf(k).x, y |-> ItemOf(k).y,
                          w |-> ItemOf(k).bitmap.w, h |-> ItemOf(k).bitmap.h], a, b)
                    <=> InRect(tiles[k].rect, x, y)
               /\ InRect(tiles[k].rect, x, y) =>
                    /\ a - ItemOf(k).x \in 0 .. tiles[k].bitmap.w - 1
                    /\ b - ItemOf(k).y \in 0 .. tiles[k].bitmap.h - 1
               /\ tiles[k].rect.x + (a - ItemOf(k).x) * g = x
               /\ tiles[k].rect.y + (b - ItemOf(k).y) * g = y
    <3>1. PICK tile : tile = tiles[k]
      OBVIOUS
    <3>2. IsTile(tile, g) /\ IsOnGrid(tile.rect, g)
      BY <1>1, <3>1
    <3>3. /\ ItemOf(k).x = (tile.rect.x - x0) \div g /\ ItemOf(k).y = (tile.rect.y - y0) \div g
          /\ ItemOf(k).bitmap = tile.bitmap
      BY <1>9, <3>1
    <3> HIDE DEF ItemOf
    <3> QED BY <1>9, <1>11, <2>1, <3>1, <3>2, <3>3, ItemCovers
  <2>4. Covering(a, b) = {k \in DOMAIN tiles : InRect(tiles[k].rect, x, y)}
    <3>1. ASSUME NEW k \in DOMAIN tiles, InRect(tiles[k].rect, x, y)
          PROVE  k \in DOMAIN items
      <4>1. PICK r \in IntRect : r = tiles[k].rect
        BY <1>1 DEF IsTile
      <4>2. IsNonEmpty(Intersect(r, roi))
        BY <2>2, <3>1, <4>1, SharedPoint
      <4> QED BY <1>3, <4>1, <4>2 DEF GetTilesIntersecting
    <3> HIDE DEF ItemOf
    <3>2. ASSUME NEW k \in DOMAIN items
          PROVE  InRect([x |-> items[k].x, y |-> items[k].y,
                         w |-> items[k].bitmap.w, h |-> items[k].bitmap.h], a, b)
                   <=> InRect(tiles[k].rect, x, y)
      <4>1. k \in DOMAIN tiles /\ items[k] = ItemOf(k)
        BY <1>3, <1>4
      <4> QED BY <2>3, <4>1
    <3> QED BY <1>3, <3>1, <3>2
  <2> HIDE DEF ItemOf, Covering
  <2>5. CASE Covering(a, b) = {}
    <3>1. ~HasData(plane, x, y)
      BY <2>4, <2>5 DEF AreSources
    <3>2. MosaicPixel(doc, Layer0Blocks(plane), x, y) = Background
      BY <3>1 DEF MosaicPixel, HasData
    <3> QED BY <1>6, <2>5, <3>2
  <2>6. CASE Covering(a, b) # {}
    <3>1. PICK K : K = Covering(a, b)
      OBVIOUS
    <3>2. K \subseteq DOMAIN tiles /\ K # {}
      BY <2>4, <2>6, <3>1
    <3>3. PICK k \in K : k = CHOOSE m \in K : \A l \in K : l <= m
      <4>1. \E m \in K : \A l \in K : m >= l
        BY <1>2, <3>2, GreatestExists
      <4>2. \E m \in K : \A l \in K : l <= m
        BY <1>2, <3>2, <4>1
      <4> QED BY <4>2
    <3>4. Compose(w, h, items).pixel[a][b] = items[k].bitmap.pixel[a - items[k].x][b - items[k].y]
      BY <1>6, <2>6, <3>1, <3>3
    <3>5. k \in DOMAIN tiles /\ k \in DOMAIN items /\ InRect(tiles[k].rect, x, y)
      BY <2>4, <3>1, <3>2 DEF Covering
    <3>6. items[k] = ItemOf(k) /\ ItemOf(k).bitmap = tiles[k].bitmap
      BY <1>4, <3>5 DEF ItemOf
    <3>7. PICK i, j : i = a - ItemOf(k).x /\ j = b - ItemOf(k).y
      OBVIOUS
    <3>8. /\ i \in 0 .. tiles[k].bitmap.w - 1 /\ j \in 0 .. tiles[k].bitmap.h - 1
          /\ tiles[k].rect.x + i * g = x /\ tiles[k].rect.y + j * g = y
      BY <2>3, <3>5, <3>7
    <3>9. tiles[k].bitmap.pixel[i][j] = MosaicPixel(doc, Layer0Blocks(plane), x, y)
      BY <1>1, <3>5, <3>8 DEF IsFaithful
    <3> QED BY <3>4, <3>6, <3>7, <3>9
  <2> QED BY <2>5, <2>6
<1> HIDE DEF w, h
<1>12. ASSUME NEW i \in 0 .. (w \div 2) - 1, NEW j \in 0 .. (h \div 2) - 1
       PROVE  t.bitmap.pixel[i][j] =
                MosaicPixel(doc, Layer0Blocks(plane), x0 + i * (g * 2), y0 + j * (g * 2))
  <2>1. i \in Int /\ j \in Int /\ 2 * i \in 0 .. w - 1 /\ 2 * j \in 0 .. h - 1
    BY <1>10
  <2>2. PICK a \in 0 .. w - 1, b \in 0 .. h - 1 : a = 2 * i /\ b = 2 * j
    BY <2>1
  <2>3. PICK x \in Int, y \in Int : x = x0 + a * g /\ y = y0 + b * g
    BY <2>1, <2>2
  <2>4. a * g = i * (g * 2) /\ b * g = j * (g * 2)
    BY <2>1, <2>2
  <2>5. t.bitmap.pixel[i][j] = Compose(w, h, items).pixel[a][b]
    BY <1>8, <2>2
  <2> QED BY <1>11, <2>3, <2>4, <2>5
<1> QED BY <1>8, <1>9, <1>12, Zenon DEF IsFaithful

\* A rectangle on a grid is at least one cell of the grid wide and high, which
\* are two of a grid half as wide.
LEMMA AtLeastOneFactor ==
  ASSUME NEW f, IsFactor(f), NEW r \in IntRect, IsOnGrid(r, f), IsNonEmpty(r)
  PROVE  r.w >= f /\ r.h >= f
<1>1. f \in Nat \ {0}
  BY DEF IsFactor
<1>2. PICK x \in Int, y \in Int, x2 \in Int, y2 \in Int :
         /\ r.x = x /\ r.y = y /\ r.x + r.w = x2 /\ r.y + r.h = y2
         /\ r.w = x2 - x /\ r.h = y2 - y /\ x < x2 /\ y < y2
  BY DEF IntRect, IsNonEmpty
<1>3. x + f <= x2 /\ y + f <= y2
  BY <1>1, <1>2, MultiplesApart DEF IsOnGrid
<1> QED BY <1>1, <1>2, <1>3

\* Twice a number has it as a quotient at least twice.
LEMMA AtLeastTwoHalves ==
  ASSUME NEW g \in Nat \ {0}, NEW w \in Int, w >= g * 2
  PROVE  w \div g >= 2
<1>1. PICK q \in Int : q = w \div g
  BY DivMod
<1>2. w < q * g + g
  BY <1>1, FloorIsGreatest
<1> SUFFICES ASSUME q <= 1 PROVE FALSE
  BY <1>1
<1>3. q * g <= 1 * g
  OBVIOUS
<1>4. PICK p \in Int : p = q * g
  OBVIOUS
<1> QED BY <1>2, <1>3, <1>4

\* A grid is part of one half as wide.
LEMMA CoarserGrid ==
  ASSUME NEW g \in Nat \ {0}, NEW r, IsOnGrid(r, g * 2)
  PROVE  IsOnGrid(r, g)
<1>1. ASSUME NEW v, IsMultiple(v, g * 2) PROVE IsMultiple(v, g)
  <2>1. PICK k \in Int : v = k * (g * 2)
    BY <1>1 DEF IsMultiple
  <2>2. k * (g * 2) = (k * 2) * g /\ k * 2 \in Int
    OBVIOUS
  <2> QED BY <2>1, <2>2 DEF IsMultiple
<1> QED BY <1>1 DEF IsOnGrid

-----------------------------------------------------------------------------
(* The invariant.                                                          *)

\* The number of the layer in work; layer 0 are the plane's own sub-blocks.
Layer == number_of_pyramid_layers + 1

\* A layer of a plane is complete: its tiles are wherever the plane has data.
LayerCovered(plane, n) ==
  \A x, y \in Int : HasData(plane, x, y) =>
    \E k \in DOMAIN written : /\ written[k].coordinate = plane
                              /\ Scale(written[k]) = PowerOfTwo[n]
                              /\ InRect(written[k].rect, x, y)

\* No layer of the plane lies above the n-th.
NoLayersAbove(plane, n) ==
  \A k \in DOMAIN written : written[k].coordinate = plane =>
    \E m \in 1 .. n : Scale(written[k]) = PowerOfTwo[m]

PlaneDone(plane) ==
  /\ LayersNeeded(plane) \in 0 .. 30
  /\ \A m \in 1 .. LayersNeeded(plane) : LayerCovered(plane, m)
  /\ NoLayersAbove(plane, LayersNeeded(plane))

\* What Execute has consolidated of the planes done.
SceneOf(plane) == IF ContainsSceneIndex(plane) THEN plane["S"] ELSE IntMin

InfoInv ==
  /\ DOMAIN pyramid_region_info = {SceneOf(p) : p \in visited}
  /\ \A p \in visited : LayersNeeded(p) <= pyramid_region_info[SceneOf(p)]
  /\ \A s \in DOMAIN pyramid_region_info :
       \E p \in visited : SceneOf(p) = s /\ pyramid_region_info[s] = LayersNeeded(p)

\* The tiles kept for the next layer are those written.
IsWritten(tile) ==
  \E l \in DOMAIN written : /\ written[l].coordinate = plane_coordinate
                            /\ written[l].rect = tile.rect /\ written[l].bitmap = tile.bitmap

AreTilesOfLayer(seq, factor) ==
  \A k \in DOMAIN seq :
    IsTile(seq[k], factor) /\ IsOnGrid(seq[k].rect, factor) /\ IsWritten(seq[k])

AreWithin(seq, factor) == \A k \in DOMAIN seq : Contains(Tiling(factor), seq[k].rect)

\* Rectangles wherever the plane has data, in the first cells or everywhere.
CoversCells(seq, factor, cells) ==
  \A x, y \in Int : \A no \in 0 .. cells - 1 :
     HasData(plane_coordinate, x, y) /\ InRect(Cell(factor, no), x, y)
       => \E k \in DOMAIN seq : InRect(seq[k].rect, x, y)

Covers(seq) ==
  \A x, y \in Int : HasData(plane_coordinate, x, y)
       => \E k \in DOMAIN seq : InRect(seq[k].rect, x, y)

\* The layers of the plane in work: all below the one in work are needed and
\* complete, and that one is complete as far as its cells are done.
LayersInv ==
  /\ minification_factor = PowerOfTwo[Layer]
  /\ phase = "layer0" => number_of_pyramid_layers = 0
  /\ \A m \in 0 .. number_of_pyramid_layers : IsAdditionalLayerNeeded(PowerOfTwo[m])
  /\ \A m \in 1 .. number_of_pyramid_layers : LayerCovered(plane_coordinate, m)
  /\ NoLayersAbove(plane_coordinate, Layer)
  /\ AreTilesOfLayer(next_layer_tiles, minification_factor)
  /\ AreWithin(next_layer_tiles, minification_factor)
  /\ CoversCells(next_layer_tiles, minification_factor, tile_no)
  /\ phase = "upper" =>
       /\ Layer0Blocks(plane_coordinate) # {}
       /\ AreTilesOfLayer(tiles, PowerOfTwo[number_of_pyramid_layers])
       /\ AreWithin(tiles, minification_factor)
       /\ Covers(tiles)
  /\ Layer0Blocks(plane_coordinate) = {} =>
       /\ next_layer_tiles = <<>>
       /\ \A k \in DOMAIN written : written[k].coordinate # plane_coordinate

CoverInv ==
  /\ \A plane \in visited : PlaneDone(plane)
  /\ InfoInv
  /\ phase = "copy" => number_of_pyramid_layers = 0
  /\ \A k \in DOMAIN written : IsFaithful(written[k], written[k].coordinate, Scale(written[k]))
  /\ InLayer => LayersInv

-----------------------------------------------------------------------------
(* What the layer in work rests on.                                        *)

\* The plane in work, while a layer is.
LEMMA PlaneOfLayer ==
  ASSUME LoopInv, InLayer
  PROVE  /\ doc \in Docs /\ plane_coordinate \in Planes(bounds) /\ plane_coordinate \notin visited
         /\ Enumerable(doc.statistics) /\ IsStoredRect(rect)
         /\ GetSubBlockIndicesForPlane = Layer0Blocks(plane_coordinate)
         /\ \A b \in Layer0Blocks(plane_coordinate) :
              /\ IsStoredRect(doc.subBlocks[b].rect) /\ IsNonEmpty(doc.subBlocks[b].rect)
              /\ Contains(rect, doc.subBlocks[b].rect)
<1>1. InPlane
  BY DEF InLayer, InPlane
<1>2. IsStoredRect(rect) /\ plane_coordinate \notin visited
  BY <1>1, PlaneInWork
<1>3. doc \in Docs /\ plane_coordinate \in Planes(bounds) /\ Enumerable(doc.statistics)
  BY <1>1, DocBounds, WalkIsFresh DEF LoopInv, InPlane, AtEnd, ReachablePlanes
<1>4. GetSubBlockIndicesForPlane = Layer0Blocks(plane_coordinate)
  BY <1>3, SubBlocksOfPlane
<1>5. IsDocument(doc)
  BY <1>3, DoPyramidizeAssumption
<1>6. ASSUME NEW b \in Layer0Blocks(plane_coordinate)
      PROVE  /\ IsStoredRect(doc.subBlocks[b].rect) /\ IsNonEmpty(doc.subBlocks[b].rect)
             /\ Contains(rect, doc.subBlocks[b].rect)
  BY <1>5 DEF IsDocument, Layer0Blocks, rect
<1> QED BY <1>2, <1>3, <1>4, <1>6

\* A rectangle within one within another, and a point within one of them.
LEMMA ContainsTransitive ==
  ASSUME NEW a \in IntRect, NEW b \in IntRect, NEW c \in IntRect, Contains(a, b), Contains(b, c)
  PROVE  /\ Contains(a, c)
         /\ \A x, y \in Int : InRect(b, x, y) => InRect(a, x, y)
BY DEF Contains, InRect, IntRect

\* Where the plane has data, the layer in work has room, and all of the plane's
\* sub-blocks lie within its tiling.
LEMMA RoomOfLayer ==
  ASSUME DocsHaveRoom, LoopInv, LayerInv, LayersInv, InLayer,
         Layer0Blocks(plane_coordinate) # {}
  PROVE  /\ IsLayerFactor(minification_factor) /\ IsFactor(minification_factor)
         /\ minification_factor = 2 * PowerOfTwo[number_of_pyramid_layers]
         /\ TilingHasRoom(minification_factor)
         /\ \A b \in Layer0Blocks(plane_coordinate) :
              /\ doc.subBlocks[b].rect \in IntRect
              /\ Contains(Tiling(minification_factor), doc.subBlocks[b].rect)
<1>1. PICK n \in Nat : n = number_of_pyramid_layers
  BY DEF LayerInv
<1>2. minification_factor = 2 * PowerOfTwo[n]
  BY <1>1, PowerRecursion DEF LayersInv, Layer
<1>3. IsStoredRect(rect) /\ HasRoom(rect)
  BY PlaneOfLayer DEF DocsHaveRoom, rect, bounds
<1>4. PICK r \in IntRect : r = rect
  BY <1>3 DEF IsStoredRect
<1>5. ASSUME NEW b \in Layer0Blocks(plane_coordinate)
      PROVE  doc.subBlocks[b].rect \in IntRect /\ Contains(r, doc.subBlocks[b].rect)
  BY <1>4, PlaneOfLayer DEF IsStoredRect
<1>6. IsNonEmpty(r)
  <2>1. PICK b \in Layer0Blocks(plane_coordinate) : IsNonEmpty(doc.subBlocks[b].rect)
    BY PlaneOfLayer
  <2>2. PICK s \in IntRect : s = doc.subBlocks[b].rect
    BY <1>5
  <2> QED BY <1>5, <2>1, <2>2 DEF IsNonEmpty, Contains, IntRect
<1>7. IsAdditionalLayerNeeded(PowerOfTwo[n])
  BY <1>1 DEF LayersInv
<1>8. IsLayerFactor(minification_factor) /\ TilingHasRoom(minification_factor)
  BY <1>2, <1>3, <1>4, <1>6, <1>7, LayerHasRoom
<1>9. PICK tiling \in IntRect : tiling = Tiling(minification_factor) /\ Contains(tiling, r)
  BY <1>4, <1>8 DEF TilingHasRoom
<1>10. ASSUME NEW b \in Layer0Blocks(plane_coordinate)
       PROVE  Contains(tiling, doc.subBlocks[b].rect)
  BY <1>5, <1>9, ContainsTransitive
<1> QED BY <1>1, <1>2, <1>5, <1>8, <1>9, <1>10, LayerFactors

\* A tile that stands for what the plane has in the current cell.
IsCoverOfCell(tile) ==
  /\ IsTile(tile, minification_factor) /\ IsOnGrid(tile.rect, minification_factor)
  /\ Contains(Tiling(minification_factor), tile.rect)
  /\ IsFaithful(tile, plane_coordinate, minification_factor)
  /\ \A x, y \in Int :
       HasData(plane_coordinate, x, y) /\ InRect(Cell(minification_factor, tile_no), x, y)
         => InRect(tile.rect, x, y)

\* The plane has nothing in the current cell.
CellIsEmpty ==
  \A x, y \in Int :
    HasData(plane_coordinate, x, y) => ~InRect(Cell(minification_factor, tile_no), x, y)

\* A plane without sub-blocks gets no tile.
LEMMA NothingOfNothing ==
  ASSUME NEW factor
  PROVE  MinimalTileLatched({}, factor) = {}
<1>1. GetMinimalRectForRoi({}, Cell(factor, tile_no)) = EmptyRect
  BY DEF GetMinimalRectForRoi, BoundingBox
<1> QED BY <1>1 DEF MinimalTileLatched, IsNonEmpty, EmptyRect

\* The first layer: a cell's tile stands for it, and a cell gets none only if it
\* is empty.
LEMMA Layer0Covered ==
  ASSUME DocsHaveRoom, LoopInv, LayerInv, TilesInv, LayersInv,
         phase = "layer0", tile_no < NumberOfCells(2)
  PROVE  /\ \A tile \in Layer0Tile : IsCoverOfCell(tile)
         /\ Layer0Tile = {} => CellIsEmpty
         /\ Layer0Blocks(plane_coordinate) = {} => Layer0Tile = {}
<1>1. minification_factor = 2 /\ InLayer /\ tile_no \in Nat
  BY DEF LayerInv, InLayer
<1>2. PICK below : below = {doc.subBlocks[b].rect : b \in Layer0Blocks(plane_coordinate)}
  OBVIOUS
<1>3. Layer0Tile = {[rect |-> roi, bitmap |-> GeneratePyramidTile(roi)] :
                      roi \in {r \in MinimalTileLatched(below, 2) : r.w >= 2 /\ r.h >= 2}}
  BY <1>1, <1>2, PlaneOfLayer DEF Layer0Tile
<1>4. CASE Layer0Blocks(plane_coordinate) = {}
  <2>1. below = {} /\ CellIsEmpty
    BY <1>2, <1>4 DEF CellIsEmpty, HasData
  <2>2. Layer0Tile = {}
    BY <1>3, <2>1, NothingOfNothing
  <2> QED BY <2>1, <2>2
<1>5. CASE Layer0Blocks(plane_coordinate) # {}
  <2>1. /\ IsFactor(2) /\ TilingHasRoom(2)
        /\ below \in SUBSET IntRect /\ \A t \in below : Contains(Tiling(2), t)
    BY <1>1, <1>2, <1>5, RoomOfLayer
  <2>2. ASSUME NEW r \in MinimalTileLatched(below, 2)
        PROVE  /\ r \in IntRect /\ IsOnGrid(r, 2) /\ IsNonEmpty(r) /\ Contains(Tiling(2), r)
               /\ \A s \in MinimalTileLatched(below, 2) : r = s
    BY <1>1, <2>1, CellIsCovered
  <2>3. ASSUME NEW x \in Int, NEW y \in Int,
               HasData(plane_coordinate, x, y), InRect(Cell(2, tile_no), x, y)
        PROVE  \E r \in MinimalTileLatched(below, 2) : InRect(r, x, y)
    <3>1. \E t \in below : InRect(t, x, y)
      BY <1>2, <2>3 DEF HasData
    <3> QED BY <1>1, <2>1, <2>3, <3>1, CellIsCovered
  <2>4. ASSUME NEW r \in MinimalTileLatched(below, 2) PROVE r.w >= 2 /\ r.h >= 2
    BY <2>1, <2>2, AtLeastOneFactor
  <2>5. ASSUME NEW tile \in Layer0Tile PROVE IsCoverOfCell(tile)
    <3>1. PICK r \in MinimalTileLatched(below, 2) :
             tile = [rect |-> r, bitmap |-> GeneratePyramidTile(r)]
      BY <1>3
    <3>2. tile.rect = r /\ tile.bitmap = GeneratePyramidTile(r)
      BY <3>1
    <3>3. IsFaithful(tile, plane_coordinate, 2)
      BY <1>1, <2>2, <3>2, PlaneOfLayer, Layer0Pixels
    <3>4. IsTile(tile, 2)
      BY <1>1, Layer0TileOfCell DEF IsTileOfCell
    <3>5. ASSUME NEW x \in Int, NEW y \in Int,
                 HasData(plane_coordinate, x, y), InRect(Cell(2, tile_no), x, y)
          PROVE  InRect(r, x, y)
      BY <2>2, <2>3, <3>5
    <3> QED BY <1>1, <2>2, <3>2, <3>3, <3>4, <3>5 DEF IsCoverOfCell
  <2>6. ASSUME Layer0Tile = {} PROVE CellIsEmpty
    <3>1. MinimalTileLatched(below, 2) = {}
      BY <1>3, <2>4, <2>6
    <3> QED BY <1>1, <2>3, <3>1 DEF CellIsEmpty
  <2> QED BY <1>5, <2>5, <2>6
<1> QED BY <1>4, <1>5

\* The layers above, in the same way: no tile is discarded as too small.
LEMMA UpperCovered ==
  ASSUME DocsHaveRoom, LoopInv, LayerInv, TilesInv, LayersInv,
         \A k \in DOMAIN written :
           IsFaithful(written[k], written[k].coordinate, Scale(written[k])),
         phase = "upper", tile_no < NumberOfCells(minification_factor)
  PROVE  /\ \A tile \in UpperTile : IsCoverOfCell(tile)
         /\ UpperTile = {} => CellIsEmpty
<1>1. PICK n \in Nat, g \in Nat \ {0}, f \in Nat \ {0} :
         /\ n = number_of_pyramid_layers /\ g = PowerOfTwo[n] /\ f = g * 2
         /\ f = minification_factor
  <2>1. number_of_pyramid_layers \in Nat
    BY DEF LayerInv
  <2>2. PowerOfTwo[number_of_pyramid_layers] \in Nat \ {0}
    BY <2>1, PowerPositive
  <2>3. minification_factor = 2 * PowerOfTwo[number_of_pyramid_layers]
    BY RoomOfLayer DEF InLayer, LayersInv
  <2> QED BY <2>1, <2>2, <2>3
<1>2. InLayer /\ tile_no \in Nat
  BY DEF LayerInv, InLayer
<1>3. /\ IsFactor(f) /\ TilingHasRoom(f) /\ IsFactor(g)
  <2>1. IsFactor(f) /\ TilingHasRoom(f) /\ IsLayerFactor(f)
    BY <1>1, <1>2, RoomOfLayer DEF LayersInv
  <2>2. g <= IntMax
    BY <1>1, <2>1, ConversionsAreInts DEF IsLayerFactor
  <2> QED BY <1>1, <2>1, <2>2, PowersAreFactors
<1>4. PICK below : below = {tiles[k].rect : k \in DOMAIN tiles}
  OBVIOUS
<1>5. below \in SUBSET IntRect /\ \A t \in below : Contains(Tiling(f), t)
  BY <1>1, <1>4 DEF LayersInv, AreTilesOfLayer, IsTile, AreWithin
<1>6. UpperTile = {[rect |-> roi, bitmap |-> CreatePyramidTile(tiles, roi, f)] :
                     roi \in {r \in MinimalTileLatched(below, f) : ~TooSmallForTile(r, f)}}
  BY <1>1, <1>4 DEF UpperTile
<1>7. ASSUME NEW r \in MinimalTileLatched(below, f)
      PROVE  /\ r \in IntRect /\ IsOnGrid(r, f) /\ IsNonEmpty(r) /\ Contains(Tiling(f), r)
             /\ \A s \in MinimalTileLatched(below, f) : r = s
  BY <1>1, <1>2, <1>3, <1>5, CellIsCovered
<1>8. ASSUME NEW x \in Int, NEW y \in Int,
             HasData(plane_coordinate, x, y), InRect(Cell(f, tile_no), x, y)
      PROVE  \E r \in MinimalTileLatched(below, f) : InRect(r, x, y)
  <2>1. \E t \in below : InRect(t, x, y)
    BY <1>4, <1>8 DEF LayersInv, Covers
  <2> QED BY <1>1, <1>2, <1>3, <1>5, <1>8, <2>1, CellIsCovered
<1>9. ASSUME NEW r \in MinimalTileLatched(below, f) PROVE ~TooSmallForTile(r, f)
  <2>1. PICK w \in Int, h \in Int : r.w = w /\ r.h = h
    BY <1>7 DEF IntRect
  <2>2. w >= f /\ h >= f
    BY <1>3, <1>7, <2>1, AtLeastOneFactor
  <2>3. f \div 2 = g
    BY <1>1, HalfOfDouble
  <2>4. w \div g >= 2 /\ h \div g >= 2
    BY <1>1, <2>2, AtLeastTwoHalves
  <2>5. ~(w \div g < 2) /\ ~(h \div g < 2)
    <3>1. w \div g \in Int /\ h \div g \in Int
      BY DivMod
    <3> QED BY <2>4, <3>1
  <2> QED BY <2>1, <2>3, <2>5 DEF TooSmallForTile, ScaleByPyramidLayerMinusOne
<1>10. AreSources(tiles, plane_coordinate, g)
  <2>1. \E S : tiles \in Seq(S)
    BY DEF LayerInv, HasRects
  <2>2. ASSUME NEW k \in DOMAIN tiles
        PROVE  /\ IsTile(tiles[k], g) /\ IsOnGrid(tiles[k].rect, g)
               /\ IsFaithful(tiles[k], plane_coordinate, g)
    <3>1. IsTile(tiles[k], g) /\ IsOnGrid(tiles[k].rect, g) /\ IsWritten(tiles[k])
      BY <1>1 DEF LayersInv, AreTilesOfLayer
    <3>2. PICK l \in DOMAIN written : /\ written[l].coordinate = plane_coordinate
                                      /\ written[l].rect = tiles[k].rect
                                      /\ written[l].bitmap = tiles[k].bitmap
      BY <3>1 DEF IsWritten
    <3>3. Scale(written[l]) = g
      BY <3>1, <3>2, TileScale DEF Scale
    <3>4. IsFaithful(written[l], plane_coordinate, g)
      BY <3>2, <3>3
    <3> QED BY <3>1, <3>2, <3>4 DEF IsFaithful
  <2> QED BY <2>1, <2>2 DEF AreSources, LayersInv, Covers
<1>11. ASSUME NEW tile \in UpperTile PROVE IsCoverOfCell(tile)
  <2>1. PICK r \in MinimalTileLatched(below, f) :
           tile = [rect |-> r, bitmap |-> CreatePyramidTile(tiles, r, f)]
    BY <1>6
  <2>2. tile.rect = r /\ tile.bitmap = CreatePyramidTile(tiles, r, g * 2)
    BY <1>1, <2>1
  <2>3. r \in IntRect /\ IsOnGrid(r, f)
    BY <1>7
  <2>4. IsOnGrid(r, g)
    BY <1>1, <2>3, CoarserGrid
  <2>5. IsFaithful(tile, plane_coordinate, g * 2)
    BY <1>10, <2>2, <2>3, <2>4, UpperPixels
  <2>6. IsTile(tile, f)
    BY <1>1, UpperTileOfCell DEF IsTileOfCell
  <2>7. ASSUME NEW x \in Int, NEW y \in Int,
               HasData(plane_coordinate, x, y), InRect(Cell(f, tile_no), x, y)
        PROVE  InRect(r, x, y)
    BY <1>7, <1>8, <2>7
  <2> QED BY <1>1, <1>7, <2>2, <2>5, <2>6, <2>7 DEF IsCoverOfCell
<1>12. ASSUME UpperTile = {} PROVE CellIsEmpty
  <2>1. MinimalTileLatched(below, f) = {}
    BY <1>6, <1>9, <1>12
  <2> QED BY <1>1, <1>8, <2>1 DEF CellIsEmpty
<1> QED BY <1>11, <1>12

-----------------------------------------------------------------------------
(* What a step leaves as it is.                                            *)

\* A plane has the same sub-blocks and pixels, and needs the same layers, as
\* long as the document is the same.
LEMMA SameDocument ==
  ASSUME UNCHANGED doc, NEW plane, NEW x, NEW y, NEW t, NEW factor
  PROVE  /\ Layer0Blocks(plane)' = Layer0Blocks(plane)
         /\ LayersNeeded(plane)' = LayersNeeded(plane)
         /\ HasData(plane, x, y)' <=> HasData(plane, x, y)
         /\ IsFaithful(t, plane, factor)' <=> IsFaithful(t, plane, factor)
<1>1. Layer0Blocks(plane)' = Layer0Blocks(plane)
  BY DEF Layer0Blocks
<1>2. LayersNeeded(plane)' = LayersNeeded(plane)
  BY <1>1 DEF LayersNeeded
<1>3. HasData(plane, x, y)' <=> HasData(plane, x, y)
  BY <1>1 DEF HasData
<1>4. IsFaithful(t, plane, factor)' <=> IsFaithful(t, plane, factor)
  BY <1>1 DEF IsFaithful
<1> QED BY <1>1, <1>2, <1>3, <1>4

\* The layers of the plane in work have the same tilings and cells, and are
\* needed as before, as long as the plane is the same.
LEMMA SameCells ==
  ASSUME UNCHANGED <<doc, plane_coordinate>>, NEW factor, NEW no
  PROVE  /\ Tiling(factor)' = Tiling(factor)
         /\ Cell(factor, no)' = Cell(factor, no)
         /\ IsAdditionalLayerNeeded(factor)' <=> IsAdditionalLayerNeeded(factor)
<1>1. rect' = rect
  BY DEF rect
<1>2. Tiling(factor)' = Tiling(factor)
  BY <1>1 DEF Tiling
<1> QED BY <1>1, <1>2 DEF Cell, CellSize, IsAdditionalLayerNeeded

\* What was written stays.
KeepsWritten ==
  /\ DOMAIN written \subseteq DOMAIN written'
  /\ \A k \in DOMAIN written : written'[k] = written[k]

\* A layer that is complete stays so.
LEMMA CoveredStaysCovered ==
  ASSUME UNCHANGED doc, KeepsWritten, NEW plane, NEW n, LayerCovered(plane, n)
  PROVE  LayerCovered(plane, n)'
<1> SUFFICES ASSUME NEW x \in Int, NEW y \in Int, HasData(plane, x, y)'
             PROVE  \E k \in DOMAIN written' : /\ written'[k].coordinate = plane
                                               /\ Scale(written'[k]) = PowerOfTwo[n]
                                               /\ InRect(written'[k].rect, x, y)
  BY DEF LayerCovered
<1>1. HasData(plane, x, y)
  BY SameDocument
<1>2. PICK k \in DOMAIN written : /\ written[k].coordinate = plane
                                  /\ Scale(written[k]) = PowerOfTwo[n]
                                  /\ InRect(written[k].rect, x, y)
  BY <1>1 DEF LayerCovered
<1> QED BY <1>2 DEF KeepsWritten

\* So does a plane that is done, if no tile is added to it.
LEMMA DoneStaysDone ==
  ASSUME UNCHANGED doc, KeepsWritten, NEW plane, PlaneDone(plane),
         \A k \in DOMAIN written' \ DOMAIN written : written'[k].coordinate # plane
  PROVE  PlaneDone(plane)'
<1>1. PICK n : n = LayersNeeded(plane) /\ LayersNeeded(plane)' = n
  BY SameDocument
<1>2. n \in 0 .. 30 /\ \A m \in 1 .. n : LayerCovered(plane, m)
  BY <1>1 DEF PlaneDone
<1>3. ASSUME NEW m \in 1 .. n PROVE LayerCovered(plane, m)'
  BY <1>2, CoveredStaysCovered
<1>4. NoLayersAbove(plane, n)'
  BY <1>1 DEF PlaneDone, NoLayersAbove, KeepsWritten
<1> QED BY <1>1, <1>2, <1>3, <1>4 DEF PlaneDone

\* The result is of the same planes as long as there are no others.
LEMMA SameInfo ==
  ASSUME InfoInv, UNCHANGED <<doc, visited, pyramid_region_info>>
  PROVE  InfoInv'
<1>1. \A p : LayersNeeded(p)' = LayersNeeded(p)
  BY SameDocument
<1> QED BY <1>1 DEF InfoInv

\* What has been written stays faithful.
LEMMA SamePixels ==
  ASSUME CoverInv, UNCHANGED doc, KeepsWritten, NEW k \in DOMAIN written
  PROVE  IsFaithful(written[k], written[k].coordinate, Scale(written[k]))'
<1>1. PICK t, p, s : t = written[k] /\ p = t.coordinate /\ s = Scale(t)
  OBVIOUS
<1>2. IsFaithful(t, p, s)
  BY <1>1 DEF CoverInv
<1>3. IsFaithful(t, p, s)'
  BY <1>2, SameDocument
<1>4. written'[k] = t
  BY <1>1 DEF KeepsWritten
<1>5. written'[k].coordinate = p /\ Scale(written'[k]) = s
  BY <1>1, <1>4
<1> QED BY <1>3, <1>4, <1>5 DEF IsFaithful

-----------------------------------------------------------------------------
(* The steps.                                                              *)

\* Nothing is written at first.
LEMMA InitCover == Init => CoverInv
BY DEF Init, CoverInv, InfoInv, InLayer

\* A step that is outside of the layers, or leaves them for good.
LEMMA OutsideCover ==
  ASSUME CoverInv, UNCHANGED <<doc, written, visited, pyramid_region_info>>, ~InLayer',
         phase' = "copy" => number_of_pyramid_layers' = 0
  PROVE  CoverInv'
<1>1. KeepsWritten /\ DOMAIN written' = DOMAIN written
  BY DEF KeepsWritten
<1>2. ASSUME NEW plane \in visited' PROVE PlaneDone(plane)'
  BY <1>1, <1>2, DoneStaysDone DEF CoverInv
<1>3. InfoInv'
  BY SameInfo DEF CoverInv
<1>4. ASSUME NEW k \in DOMAIN written'
      PROVE  IsFaithful(written[k], written[k].coordinate, Scale(written[k]))'
  BY <1>1, <1>4, SamePixels
<1> QED BY <1>2, <1>3, <1>4 DEF CoverInv

\* A plane gets its first layer.
LEMMA FirstCover ==
  ASSUME LoopInv, TilesInv, CoverInv, phase = "copy", IsAdditionalLayerNeeded(1),
         UNCHANGED <<doc, loop, written, pyramid_region_info, number_of_pyramid_layers>>,
         phase' = "layer0", minification_factor' = 2, tile_no' = 0, next_layer_tiles' = <<>>
  PROVE  CoverInv'
<1> USE DEF loop
<1>1. plane_coordinate \notin visited /\ number_of_pyramid_layers = 0
  BY PlaneInWork DEF InPlane, CoverInv
<1>2. \A k \in DOMAIN written : written[k].coordinate # plane_coordinate
  BY <1>1 DEF TilesInv, InLayer
<1>3. KeepsWritten /\ DOMAIN written' = DOMAIN written
  BY DEF KeepsWritten
<1>4. ASSUME NEW plane \in visited' PROVE PlaneDone(plane)'
  BY <1>3, <1>4, DoneStaysDone DEF CoverInv
<1>5. InfoInv'
  BY SameInfo DEF CoverInv
<1>6. ASSUME NEW k \in DOMAIN written'
      PROVE  IsFaithful(written[k], written[k].coordinate, Scale(written[k]))'
  BY <1>3, <1>6, SamePixels
<1>7. LayersInv'
  <2>1. PowerOfTwo[0] = 1 /\ PowerOfTwo[0 + 1] = 2
    <3>1. 0 \in Nat /\ PowerOfTwo[0] = 1
      BY PowerRecursion
    <3>2. PowerOfTwo[0 + 1] = 2 * PowerOfTwo[0]
      BY <3>1, PowerRecursion
    <3> QED BY <3>1, <3>2
  <2>2. minification_factor' = PowerOfTwo[Layer']
    BY <1>1, <2>1 DEF Layer
  <2>3. \A m \in 0 .. number_of_pyramid_layers' : IsAdditionalLayerNeeded(PowerOfTwo[m])'
    <3>1. IsAdditionalLayerNeeded(PowerOfTwo[0])'
      BY <2>1, SameCells
    <3> QED BY <1>1, <3>1
  <2>4. \A m \in 1 .. number_of_pyramid_layers' : LayerCovered(plane_coordinate, m)'
    BY <1>1
  <2>5. NoLayersAbove(plane_coordinate, Layer)'
    BY <1>2 DEF NoLayersAbove
  <2>6. DOMAIN next_layer_tiles' = {}
    OBVIOUS
  <2>7. /\ AreTilesOfLayer(next_layer_tiles, minification_factor)'
        /\ AreWithin(next_layer_tiles, minification_factor)'
    BY <2>6 DEF AreTilesOfLayer, AreWithin
  <2>8. CoversCells(next_layer_tiles, minification_factor, tile_no)'
    BY DEF CoversCells
  <2> QED BY <1>1, <1>2, <2>2, <2>3, <2>4, <2>5, <2>7, <2>8 DEF LayersInv
<1> QED BY <1>4, <1>5, <1>6, <1>7 DEF CoverInv

\* A cell is done without a tile because the plane has nothing there, or nothing
\* happens at all.
LEMMA CoverWithoutTile ==
  ASSUME LayerInv, CoverInv,
         tile_no' = tile_no \/ (tile_no' = tile_no + 1 /\ (InLayer => CellIsEmpty)),
         UNCHANGED <<doc, phase, loop, minification_factor, tiles, next_layer_tiles,
                     number_of_pyramid_layers, pyramid_region_info, written>>
  PROVE  CoverInv'
<1> USE DEF loop
<1>1. KeepsWritten /\ DOMAIN written' = DOMAIN written
  BY DEF KeepsWritten
<1>2. ASSUME NEW plane \in visited' PROVE PlaneDone(plane)'
  BY <1>1, <1>2, DoneStaysDone DEF CoverInv
<1>3. InfoInv'
  BY SameInfo DEF CoverInv
<1>4. ASSUME NEW k \in DOMAIN written'
      PROVE  IsFaithful(written[k], written[k].coordinate, Scale(written[k]))'
  BY <1>1, <1>4, SamePixels
<1>5. ASSUME InLayer PROVE LayersInv'
  <2>1. LayersInv
    BY <1>5 DEF CoverInv
  <2>2. \A m \in 0 .. number_of_pyramid_layers' : IsAdditionalLayerNeeded(PowerOfTwo[m])'
    BY <2>1, SameCells DEF LayersInv
  <2>3. \A m \in 1 .. number_of_pyramid_layers' : LayerCovered(plane_coordinate, m)'
    <3> SUFFICES ASSUME NEW m \in 1 .. number_of_pyramid_layers
                 PROVE  LayerCovered(plane_coordinate, m)'
      OBVIOUS
    <3>1. PICK plane : plane = plane_coordinate
      OBVIOUS
    <3>2. LayerCovered(plane, m)'
      BY <1>1, <2>1, <3>1, CoveredStaysCovered DEF LayersInv
    <3> QED BY <3>1, <3>2 DEF LayerCovered
  <2>4. /\ minification_factor' = PowerOfTwo[Layer']
        /\ NoLayersAbove(plane_coordinate, Layer)'
        /\ \A factor : AreTilesOfLayer(tiles, factor) => AreTilesOfLayer(tiles, factor)'
        /\ AreTilesOfLayer(next_layer_tiles, minification_factor)'
    BY <2>1 DEF LayersInv, NoLayersAbove, Layer, AreTilesOfLayer, IsWritten
  <2>5. /\ AreWithin(next_layer_tiles, minification_factor)'
        /\ AreWithin(tiles, minification_factor) => AreWithin(tiles, minification_factor)'
    BY <2>1, SameCells DEF LayersInv, AreWithin
  <2>6. CoversCells(next_layer_tiles, minification_factor, tile_no)'
    <3> SUFFICES ASSUME NEW x \in Int, NEW y \in Int, NEW no \in 0 .. tile_no' - 1,
                        HasData(plane_coordinate, x, y)',
                        InRect(Cell(minification_factor, no), x, y)'
                 PROVE  \E k \in DOMAIN next_layer_tiles : InRect(next_layer_tiles[k].rect, x, y)
      BY DEF CoversCells
    <3>1. HasData(plane_coordinate, x, y) /\ InRect(Cell(minification_factor, no), x, y)
      BY SameDocument, SameCells
    <3>2. no \in 0 .. tile_no - 1
      <4>1. ASSUME no = tile_no, tile_no' # tile_no PROVE FALSE
        BY <1>5, <3>1, <4>1 DEF CellIsEmpty
      <4> QED BY <4>1 DEF LayerInv
    <3> QED BY <2>1, <3>1, <3>2 DEF LayersInv, CoversCells
  <2>7. Covers(tiles) => Covers(tiles)'
    BY SameDocument DEF Covers
  <2>8. Layer0Blocks(plane_coordinate)' = Layer0Blocks(plane_coordinate)
    BY SameDocument
  <2> QED BY <2>1, <2>2, <2>3, <2>4, <2>5, <2>6, <2>7, <2>8 DEF LayersInv
<1> QED BY <1>2, <1>3, <1>4, <1>5 DEF CoverInv, InLayer

\* A cell is done with a tile that stands for it.
LEMMA CoverWithTile ==
  ASSUME LoopInv, LayerInv, TilesInv, CoverInv, InLayer,
         Layer0Blocks(plane_coordinate) # {},
         NEW tile, IsCoverOfCell(tile), OutputTile(tile), tile_no' = tile_no + 1,
         UNCHANGED <<doc, phase, loop, minification_factor, tiles, number_of_pyramid_layers,
                     pyramid_region_info>>
  PROVE  CoverInv'
<1> USE DEF loop
<1> DEFINE new == [coordinate |-> plane_coordinate, rect |-> tile.rect, bitmap |-> tile.bitmap]
<1>1. LayersInv
  BY DEF CoverInv
<1>2. PICK f \in Nat \ {0} : f = minification_factor /\ f = PowerOfTwo[Layer]
  BY <1>1, LayerFactors DEF TilesInv, LayersInv
<1>3. PICK last : /\ DOMAIN written' = DOMAIN written \cup {last}
                  /\ last \notin DOMAIN written /\ written'[last] = new
                  /\ \A k \in DOMAIN written : written'[k] = written[k]
  BY AppendElements DEF LayerInv, OutputTile
<1>4. PICK next : /\ DOMAIN next_layer_tiles' = DOMAIN next_layer_tiles \cup {next}
                  /\ next_layer_tiles'[next] = tile
                  /\ \A k \in DOMAIN next_layer_tiles :
                       next_layer_tiles'[k] = next_layer_tiles[k]
  BY AppendElements DEF LayerInv, OutputTile
<1>5. /\ new.coordinate = plane_coordinate /\ new.rect = tile.rect /\ new.bitmap = tile.bitmap
      /\ Scale(new) = f
  <2>1. IsTile(new, f)
    BY <1>2 DEF IsCoverOfCell, IsTile
  <2> QED BY <2>1, TileScale
<1> HIDE DEF new
<1>6. KeepsWritten
  BY <1>3 DEF KeepsWritten
<1>7. ASSUME NEW plane \in visited' PROVE PlaneDone(plane)'
  <2>1. plane # plane_coordinate
    BY <1>7, PlaneInWork DEF InPlane, InLayer
  <2>2. \A k \in DOMAIN written' \ DOMAIN written : written'[k].coordinate # plane
    BY <1>3, <1>5, <2>1
  <2>3. PlaneDone(plane)
    BY <1>7 DEF CoverInv
  <2> QED BY <1>6, <2>2, <2>3, DoneStaysDone
<1>8. InfoInv'
  BY SameInfo DEF CoverInv
<1>9. ASSUME NEW k \in DOMAIN written'
      PROVE  IsFaithful(written[k], written[k].coordinate, Scale(written[k]))'
  <2>1. CASE k \in DOMAIN written
    BY <1>6, <2>1, SamePixels
  <2>2. CASE k = last
    <3>1. IsFaithful(new, plane_coordinate, f)
      BY <1>2, <1>5 DEF IsCoverOfCell, IsFaithful
    <3>2. PICK t, plane : t = new /\ plane = plane_coordinate
      OBVIOUS
    <3>3. IsFaithful(t, plane, f)'
      BY <3>1, <3>2, SameDocument
    <3>4. written'[k] = t /\ written'[k].coordinate = plane /\ Scale(written'[k]) = f
      BY <1>3, <1>5, <2>2, <3>2
    <3> QED BY <3>3, <3>4 DEF IsFaithful
  <2> QED BY <1>3, <2>1, <2>2
<1>10. Layer' = Layer /\ Layer \in 1 .. Layer /\ Layer \in Nat
  BY DEF Layer, LayerInv
<1>11. \A m \in 0 .. number_of_pyramid_layers' : IsAdditionalLayerNeeded(PowerOfTwo[m])'
  BY <1>1, SameCells DEF LayersInv
<1>12. ASSUME NEW m \in 1 .. number_of_pyramid_layers
       PROVE  LayerCovered(plane_coordinate, m)'
  <2>1. PICK plane : plane = plane_coordinate
    OBVIOUS
  <2>2. LayerCovered(plane, m)'
    BY <1>1, <1>6, <1>12, <2>1, CoveredStaysCovered DEF LayersInv
  <2> QED BY <2>1, <2>2 DEF LayerCovered
<1>13. NoLayersAbove(plane_coordinate, Layer)'
  <2> SUFFICES ASSUME NEW k \in DOMAIN written', written'[k].coordinate = plane_coordinate
               PROVE  \E m \in 1 .. Layer : Scale(written'[k]) = PowerOfTwo[m]
    BY <1>10 DEF NoLayersAbove
  <2>1. CASE k \in DOMAIN written
    BY <1>1, <1>3, <2>1 DEF LayersInv, NoLayersAbove
  <2>2. CASE k = last
    BY <1>2, <1>3, <1>5, <1>10, <2>2
  <2> QED BY <1>3, <2>1, <2>2
<1>14. ASSUME NEW t, IsWritten(t) PROVE IsWritten(t)'
  BY <1>6, <1>14 DEF IsWritten, KeepsWritten
<1>15. IsWritten(tile)'
  BY <1>3, <1>5 DEF IsWritten
<1>16. AreTilesOfLayer(next_layer_tiles, minification_factor)'
  <2>1. ASSUME NEW k \in DOMAIN next_layer_tiles
        PROVE  /\ IsTile(next_layer_tiles[k], minification_factor)
               /\ IsOnGrid(next_layer_tiles[k].rect, minification_factor)
               /\ IsWritten(next_layer_tiles[k])
    BY <1>1 DEF LayersInv, AreTilesOfLayer
  <2>2. ASSUME NEW k \in DOMAIN next_layer_tiles'
        PROVE  \E t : /\ t = next_layer_tiles'[k]
                      /\ IsTile(t, minification_factor) /\ IsOnGrid(t.rect, minification_factor)
                      /\ IsWritten(t)'
    <3>1. CASE k \in DOMAIN next_layer_tiles
      <4>1. PICK t : t = next_layer_tiles[k]
        OBVIOUS
      <4> QED BY <1>4, <1>14, <2>1, <3>1, <4>1
    <3>2. CASE k = next
      BY <1>4, <1>15, <3>2 DEF IsCoverOfCell
    <3> QED BY <1>4, <3>1, <3>2
  <2> QED BY <2>2 DEF AreTilesOfLayer, IsWritten
<1>17. AreWithin(next_layer_tiles, minification_factor)'
  <2>1. Tiling(f)' = Tiling(f)
    BY SameCells
  <2> QED BY <1>1, <1>2, <1>4, <2>1 DEF LayersInv, AreWithin, IsCoverOfCell
<1>18. CoversCells(next_layer_tiles, minification_factor, tile_no)'
  <2> SUFFICES ASSUME NEW x \in Int, NEW y \in Int, NEW no \in 0 .. tile_no' - 1,
                      HasData(plane_coordinate, x, y)',
                      InRect(Cell(minification_factor, no), x, y)'
               PROVE  \E k \in DOMAIN next_layer_tiles' : InRect(next_layer_tiles'[k].rect, x, y)
    BY DEF CoversCells
  <2>1. HasData(plane_coordinate, x, y) /\ InRect(Cell(minification_factor, no), x, y)
    BY SameDocument, SameCells
  <2>2. CASE no = tile_no
    BY <1>4, <2>1, <2>2 DEF IsCoverOfCell
  <2>3. CASE no \in 0 .. tile_no - 1
    BY <1>1, <1>4, <2>1, <2>3 DEF LayersInv, CoversCells
  <2>4. no = tile_no \/ no \in 0 .. tile_no - 1
    BY DEF LayerInv
  <2> QED BY <2>2, <2>3, <2>4
<1>19. Layer0Blocks(plane_coordinate)' = Layer0Blocks(plane_coordinate)
  BY SameDocument
<1>20. phase = "upper" =>
         /\ AreTilesOfLayer(tiles, PowerOfTwo[number_of_pyramid_layers])'
         /\ AreWithin(tiles, minification_factor)'
         /\ Covers(tiles)'
  <2> SUFFICES ASSUME phase = "upper"
               PROVE  /\ AreTilesOfLayer(tiles, PowerOfTwo[number_of_pyramid_layers])'
                      /\ AreWithin(tiles, minification_factor)'
                      /\ Covers(tiles)'
    OBVIOUS
  <2>1. /\ AreTilesOfLayer(tiles, PowerOfTwo[number_of_pyramid_layers])
        /\ AreWithin(tiles, minification_factor) /\ Covers(tiles)
    BY <1>1 DEF LayersInv
  <2>2. AreTilesOfLayer(tiles, PowerOfTwo[number_of_pyramid_layers])'
    BY <1>6, <2>1 DEF AreTilesOfLayer, IsWritten, KeepsWritten
  <2>3. AreWithin(tiles, minification_factor)'
    BY <2>1, SameCells DEF AreWithin
  <2>4. Covers(tiles)'
    BY <2>1, SameDocument DEF Covers
  <2> QED BY <2>2, <2>3, <2>4
<1>21. LayersInv'
  BY <1>1, <1>10, <1>11, <1>12, <1>13, <1>16, <1>17, <1>18, <1>19, <1>20 DEF LayersInv
<1> QED BY <1>7, <1>8, <1>9, <1>21 DEF CoverInv

\* When all cells are done, the layer is complete.
LEMMA LayerComplete ==
  ASSUME DocsHaveRoom, LoopInv, LayerInv, LayersInv, InLayer,
         tile_no = NumberOfCells(minification_factor)
  PROVE  Covers(next_layer_tiles) /\ LayerCovered(plane_coordinate, Layer)
<1>1. ASSUME NEW x \in Int, NEW y \in Int, HasData(plane_coordinate, x, y)
      PROVE  \E k \in DOMAIN next_layer_tiles : InRect(next_layer_tiles[k].rect, x, y)
  <2>1. PICK b \in Layer0Blocks(plane_coordinate) : InRect(doc.subBlocks[b].rect, x, y)
    BY <1>1 DEF HasData
  <2>2. TilingHasRoom(minification_factor)
    BY <2>1, RoomOfLayer
  <2>3. doc.subBlocks[b].rect \in IntRect /\ Contains(Tiling(minification_factor), doc.subBlocks[b].rect)
    BY <2>1, RoomOfLayer
  <2>4. InRect(Tiling(minification_factor), x, y)
    BY <2>1, <2>2, <2>3, ContainsTransitive DEF TilingHasRoom, Contains, InRect, IntRect
  <2>5. PICK no \in 0 .. tile_no - 1 : InRect(Cell(minification_factor, no), x, y)
    BY <2>2, <2>4 DEF TilingHasRoom
  <2> QED BY <1>1, <2>5 DEF LayersInv, CoversCells
<1>2. ASSUME NEW x \in Int, NEW y \in Int, HasData(plane_coordinate, x, y)
      PROVE  \E k \in DOMAIN written : /\ written[k].coordinate = plane_coordinate
                                       /\ Scale(written[k]) = PowerOfTwo[Layer]
                                       /\ InRect(written[k].rect, x, y)
  <2>1. PICK k \in DOMAIN next_layer_tiles : InRect(next_layer_tiles[k].rect, x, y)
    BY <1>1, <1>2
  <2>2. IsTile(next_layer_tiles[k], minification_factor) /\ IsWritten(next_layer_tiles[k])
    BY DEF LayersInv, AreTilesOfLayer
  <2>3. PICK l \in DOMAIN written : /\ written[l].coordinate = plane_coordinate
                                    /\ written[l].rect = next_layer_tiles[k].rect
                                    /\ written[l].bitmap = next_layer_tiles[k].bitmap
    BY <2>2 DEF IsWritten
  <2>4. Scale(written[l]) = minification_factor
    <3>1. minification_factor \in Nat \ {0}
      BY DEF LayerInv
    <3> QED BY <2>2, <2>3, <3>1, TileScale DEF Scale
  <2> QED BY <2>1, <2>3, <2>4 DEF LayersInv
<1> QED BY <1>1, <1>2 DEF Covers, LayerCovered

\* A coarser tiling is around a finer one.
LEMMA CoarserTiling ==
  ASSUME DocsHaveRoom, LoopInv, LayerInv, LayersInv, InLayer,
         Layer0Blocks(plane_coordinate) # {}, IsAdditionalLayerNeeded(minification_factor)
  PROVE  /\ IsLayerFactor(2 * minification_factor)
         /\ Tiling(2 * minification_factor) \in IntRect /\ Tiling(minification_factor) \in IntRect
         /\ Contains(Tiling(2 * minification_factor), Tiling(minification_factor))
<1>1. PICK f : f = minification_factor /\ f = PowerOfTwo[Layer] /\ Layer \in Nat
  BY DEF LayersInv, Layer, LayerInv
<1>2. f \in Nat \ {0} /\ f * 2 = 2 * f /\ IsFactor(f)
  <2>1. IsFactor(f) /\ f \in Nat \ {0}
    BY <1>1, RoomOfLayer, PowerPositive
  <2> QED BY <2>1
<1>3. IsStoredRect(rect) /\ HasRoom(rect)
  BY PlaneOfLayer DEF DocsHaveRoom, rect, bounds
<1>4. PICK r \in IntRect : r = rect
  BY <1>3 DEF IsStoredRect
<1>5. IsNonEmpty(r)
  <2>1. PICK b \in Layer0Blocks(plane_coordinate) :
           IsStoredRect(doc.subBlocks[b].rect) /\ IsNonEmpty(doc.subBlocks[b].rect)
    BY PlaneOfLayer
  <2>2. PICK s \in IntRect : s = doc.subBlocks[b].rect
    BY <2>1 DEF IsStoredRect
  <2>3. Contains(r, s)
    BY <1>4, <2>1, <2>2, PlaneOfLayer
  <2> QED BY <2>1, <2>2, <2>3 DEF IsNonEmpty, Contains, IntRect
<1>6. IsLayerFactor(2 * f) /\ TilingHasRoom(2 * f)
  BY <1>1, <1>3, <1>4, <1>5, LayerHasRoom
<1>7. TilingHasRoom(f)
  BY <1>1, RoomOfLayer
<1>8. PICK box \in IntRect : /\ box = Tiling(2 * f)
                             /\ IsOnGrid(box, 2 * f) /\ InRange(box) /\ Contains(box, r)
  BY <1>4, <1>6 DEF TilingHasRoom
<1>9. IsOnGrid(box, f)
  BY <1>2, <1>8, CoarserGrid
<1>10. Contains(box, EnlargeAndLatch(r, f))
  BY <1>2, <1>5, <1>8, <1>9, EnlargedInBox
<1> QED BY <1>1, <1>4, <1>6, <1>7, <1>8, <1>10 DEF Tiling, TilingHasRoom

\* The tiles move on to the next layer.
LEMMA UpperCover ==
  ASSUME DocsHaveRoom, LoopInv, LayerInv, TilesInv, CoverInv, InLayer,
         tile_no = NumberOfCells(minification_factor),
         next_layer_tiles # <<>>, IsAdditionalLayerNeeded(minification_factor),
         UNCHANGED <<doc, loop, pyramid_region_info, written>>,
         phase' = "upper", number_of_pyramid_layers' = number_of_pyramid_layers + 1,
         minification_factor' = 2 * minification_factor,
         tiles' = next_layer_tiles, next_layer_tiles' = <<>>, tile_no' = 0
  PROVE  CoverInv'
<1> USE DEF loop
<1>1. LayersInv
  BY DEF CoverInv
<1>2. PICK n \in Nat : n = number_of_pyramid_layers
  BY DEF LayerInv
<1>3. Layer = n + 1 /\ Layer' = n + 2 /\ number_of_pyramid_layers' = n + 1
  BY <1>2 DEF Layer
<1>4. PICK f \in Nat \ {0} : f = minification_factor /\ f = PowerOfTwo[n + 1]
  BY <1>1, <1>3 DEF LayersInv, LayerInv
<1>5. 2 * f = PowerOfTwo[n + 2]
  <2>1. n + 1 \in Nat /\ (n + 1) + 1 = n + 2
    OBVIOUS
  <2> QED BY <1>4, <2>1, PowerRecursion
<1>6. Layer0Blocks(plane_coordinate) # {}
  BY <1>1 DEF LayersInv
<1>7. KeepsWritten /\ DOMAIN written' = DOMAIN written
  BY DEF KeepsWritten
<1>8. ASSUME NEW plane \in visited' PROVE PlaneDone(plane)'
  BY <1>7, <1>8, DoneStaysDone DEF CoverInv
<1>9. InfoInv'
  BY SameInfo DEF CoverInv
<1>10. ASSUME NEW k \in DOMAIN written'
       PROVE  IsFaithful(written[k], written[k].coordinate, Scale(written[k]))'
  BY <1>7, <1>10, SamePixels
<1>11. \A m \in 0 .. n + 1 : IsAdditionalLayerNeeded(PowerOfTwo[m])'
  <2> SUFFICES ASSUME NEW m \in 0 .. n + 1 PROVE IsAdditionalLayerNeeded(PowerOfTwo[m])
    BY SameCells
  <2>1. m \in 0 .. n \/ m = n + 1
    OBVIOUS
  <2> QED BY <1>1, <1>2, <1>4, <2>1 DEF LayersInv
<1>12. ASSUME NEW m \in 1 .. n + 1 PROVE LayerCovered(plane_coordinate, m)'
  <2>1. PICK plane : plane = plane_coordinate
    OBVIOUS
  <2>2. LayerCovered(plane, m)
    <3>1. m \in 1 .. n \/ m = n + 1
      OBVIOUS
    <3>2. CASE m \in 1 .. n
      BY <1>1, <1>2, <2>1, <3>2 DEF LayersInv
    <3>3. CASE m = n + 1
      BY <1>1, <1>3, <2>1, <3>3, LayerComplete
    <3> QED BY <3>1, <3>2, <3>3
  <2>3. LayerCovered(plane, m)'
    BY <1>7, <2>2, CoveredStaysCovered
  <2> QED BY <2>1, <2>3 DEF LayerCovered
<1>13. NoLayersAbove(plane_coordinate, Layer)'
  <2> SUFFICES ASSUME NEW k \in DOMAIN written, written[k].coordinate = plane_coordinate
               PROVE  \E m \in 1 .. n + 2 : Scale(written[k]) = PowerOfTwo[m]
    BY <1>3 DEF NoLayersAbove
  <2>1. PICK m \in 1 .. n + 1 : Scale(written[k]) = PowerOfTwo[m]
    BY <1>1, <1>3 DEF LayersInv, NoLayersAbove
  <2>2. m \in 1 .. n + 2
    OBVIOUS
  <2> QED BY <2>1, <2>2
<1>14. DOMAIN next_layer_tiles' = {}
  OBVIOUS
<1>15. /\ AreTilesOfLayer(next_layer_tiles, minification_factor)'
       /\ AreWithin(next_layer_tiles, minification_factor)'
  BY <1>14 DEF AreTilesOfLayer, AreWithin
<1>16. CoversCells(next_layer_tiles, minification_factor, tile_no)'
  BY DEF CoversCells
<1>17. AreTilesOfLayer(tiles, PowerOfTwo[number_of_pyramid_layers])'
  BY <1>1, <1>3, <1>4 DEF LayersInv, AreTilesOfLayer, IsWritten
<1>18. AreWithin(tiles, minification_factor)'
  <2>1. Tiling(2 * f)' = Tiling(2 * f)
    BY SameCells
  <2>2. ASSUME NEW k \in DOMAIN next_layer_tiles
        PROVE  Contains(Tiling(2 * f), next_layer_tiles[k].rect)
    <3>1. next_layer_tiles[k].rect \in IntRect /\ Contains(Tiling(f), next_layer_tiles[k].rect)
      BY <1>1, <1>4 DEF LayersInv, AreTilesOfLayer, IsTile, AreWithin
    <3>2. /\ Tiling(2 * f) \in IntRect /\ Tiling(f) \in IntRect
          /\ Contains(Tiling(2 * f), Tiling(f))
      BY <1>1, <1>4, <1>6, CoarserTiling
    <3> QED BY <3>1, <3>2, ContainsTransitive
  <2> QED BY <1>4, <2>1, <2>2 DEF AreWithin
<1>19. Covers(tiles)'
  <2>1. Covers(next_layer_tiles)
    BY <1>1, LayerComplete
  <2> QED BY <2>1, SameDocument DEF Covers
<1>20. Layer0Blocks(plane_coordinate)' # {}
  BY <1>6, SameDocument
<1>21. minification_factor' = PowerOfTwo[Layer']
  BY <1>3, <1>4, <1>5
<1>22. LayersInv'
  BY <1>3, <1>11, <1>12, <1>13, <1>15, <1>16, <1>17, <1>18, <1>19, <1>20, <1>21 DEF LayersInv
<1> QED BY <1>8, <1>9, <1>10, <1>22 DEF CoverInv

\* Halving until no longer above the threshold ends at one number of layers.
LEMMA LeastEnough ==
  ASSUME IsStoredRect(rect), Layer0Blocks(plane_coordinate) # {},
         NEW n \in 0 .. 30, ~IsAdditionalLayerNeeded(PowerOfTwo[n]),
         \A m \in 0 .. n - 1 : IsAdditionalLayerNeeded(PowerOfTwo[m])
  PROVE  LayersNeeded(plane_coordinate) = n
<1> DEFINE Enough(m) == /\ rect.w \div PowerOfTwo[m] <= PyramidTileSize
                        /\ rect.h \div PowerOfTwo[m] <= PyramidTileSize
<1>1. LayersNeeded(plane_coordinate) =
        CHOOSE k \in 0 .. 30 : Enough(k) /\ \A m \in 0 .. k - 1 : ~Enough(m)
  BY DEF LayersNeeded, rect
<1>2. ASSUME NEW m \in Nat PROVE Enough(m) <=> ~IsAdditionalLayerNeeded(PowerOfTwo[m])
  <2>1. PICK w \in Int, h \in Int : /\ w = rect.w \div PowerOfTwo[m]
                                    /\ h = rect.h \div PowerOfTwo[m]
    <3>1. rect.w \in Int /\ rect.h \in Int
      BY DEF IsStoredRect, IntRect
    <3> QED BY <3>1, PowerPositive, DivMod
  <2>2. PyramidTileSize \in Int
    BY DoPyramidizeAssumption
  <2>3. (w <= PyramidTileSize /\ h <= PyramidTileSize)
          <=> ~(w > PyramidTileSize \/ h > PyramidTileSize)
    BY <2>1, <2>2
  <2> QED BY <2>1, <2>3 DEF IsAdditionalLayerNeeded, IsAbovePyramidThreshold
<1> HIDE DEF Enough
<1>3. Enough(n) /\ \A m \in 0 .. n - 1 : ~Enough(m)
  BY <1>2
<1>4. ASSUME NEW k \in 0 .. 30, Enough(k), \A m \in 0 .. k - 1 : ~Enough(m) PROVE k = n
  <2>1. ~(k < n) /\ ~(n < k)
    BY <1>3, <1>4
  <2> QED BY <2>1
<1> QED BY <1>1, <1>3, <1>4

\* DoPlane returns the number of layers that the plane needs, and they are
\* complete.
LEMMA PlaneLeft ==
  ASSUME LayerInv, CoverInv, UNCHANGED <<doc, written>>, PlaneDone(plane_coordinate),
         LeavePlane(LayersNeeded(plane_coordinate))
  PROVE  CoverInv'
<1>1. PICK plane, s, layers : /\ plane = plane_coordinate /\ s = SceneOf(plane)
                              /\ layers = LayersNeeded(plane)
  OBVIOUS
<1>2. /\ pyramid_region_info' =
           [t \in DOMAIN pyramid_region_info \cup {s} |->
              IF t # s THEN pyramid_region_info[t]
              ELSE IF s \in DOMAIN pyramid_region_info
                   THEN Greater(pyramid_region_info[s], layers) ELSE layers]
      /\ visited' = visited \cup {plane} /\ phase' = "plane"
  BY <1>1 DEF LeavePlane, SceneOf
<1>3. KeepsWritten /\ DOMAIN written' = DOMAIN written
  BY DEF KeepsWritten
<1>4. ASSUME NEW p \in visited' PROVE PlaneDone(p)'
  <2>1. PlaneDone(p)
    BY <1>1, <1>2, <1>4 DEF CoverInv
  <2> QED BY <1>3, <2>1, DoneStaysDone
<1>5. ASSUME NEW k \in DOMAIN written'
      PROVE  IsFaithful(written[k], written[k].coordinate, Scale(written[k]))'
  BY <1>3, <1>5, SamePixels
<1>6. \A p : LayersNeeded(p)' = LayersNeeded(p)
  BY SameDocument
<1>7. InfoInv /\ layers \in Nat
  BY <1>1 DEF CoverInv, PlaneDone
<1>8. \A t \in DOMAIN pyramid_region_info : pyramid_region_info[t] \in Nat
  BY DEF LayerInv
<1>9. DOMAIN pyramid_region_info' = {SceneOf(p) : p \in visited'}
  BY <1>1, <1>2, <1>7 DEF InfoInv
<1>10. ASSUME NEW p \in visited' PROVE LayersNeeded(p) <= pyramid_region_info'[SceneOf(p)]
  <2>1. CASE SceneOf(p) # s
    BY <1>1, <1>2, <1>7, <1>10, <2>1 DEF InfoInv
  <2>2. CASE SceneOf(p) = s
    <3>1. p = plane \/ (p \in visited /\ s \in DOMAIN pyramid_region_info)
      BY <1>2, <1>7, <1>10, <2>2 DEF InfoInv
    <3>2. pyramid_region_info'[s] = IF s \in DOMAIN pyramid_region_info
                                    THEN Greater(pyramid_region_info[s], layers) ELSE layers
      BY <1>2
    <3>3. CASE p = plane
      BY <1>1, <1>7, <1>8, <2>2, <3>2, <3>3 DEF Greater
    <3>4. CASE p \in visited /\ s \in DOMAIN pyramid_region_info
      <4>1. PICK a \in Nat : a = pyramid_region_info[s]
        BY <1>8, <3>4
      <4>2. LayersNeeded(p) <= a /\ LayersNeeded(p) \in Nat
        BY <1>7, <2>2, <3>4, <4>1 DEF InfoInv, CoverInv, PlaneDone
      <4>3. pyramid_region_info'[s] = Greater(a, layers)
        BY <3>2, <3>4, <4>1
      <4> QED BY <1>7, <2>2, <4>2, <4>3 DEF Greater
    <3> QED BY <3>1, <3>3, <3>4
  <2> QED BY <2>1, <2>2
<1>11. ASSUME NEW t \in DOMAIN pyramid_region_info'
       PROVE  \E p \in visited' : SceneOf(p) = t /\ pyramid_region_info'[t] = LayersNeeded(p)
  <2>1. CASE t # s
    BY <1>2, <1>7, <1>11, <2>1 DEF InfoInv
  <2>2. CASE t = s
    <3>1. pyramid_region_info'[s] = layers
          \/ (s \in DOMAIN pyramid_region_info
              /\ pyramid_region_info'[s] = pyramid_region_info[s])
      BY <1>2 DEF Greater
    <3> QED BY <1>1, <1>2, <1>7, <2>2, <3>1 DEF InfoInv
  <2> QED BY <2>1, <2>2
<1>12. InfoInv'
  BY <1>6, <1>9, <1>10, <1>11 DEF InfoInv
<1> QED BY <1>2, <1>4, <1>5, <1>12 DEF CoverInv, InLayer

\* A plane that is not above the threshold is done without a layer.
LEMMA DoneWithoutLayers ==
  ASSUME LoopInv, TilesInv, phase = "copy", ~IsAdditionalLayerNeeded(1)
  PROVE  LayersNeeded(plane_coordinate) = 0 /\ PlaneDone(plane_coordinate)
<1>1. IsStoredRect(rect) /\ plane_coordinate \notin visited
  BY PlaneInWork DEF InPlane
<1>2. \A k \in DOMAIN written : written[k].coordinate # plane_coordinate
  BY <1>1 DEF TilesInv, InLayer
<1>3. PICK n \in 0 .. 30 : n = 0
  OBVIOUS
<1>4. LayersNeeded(plane_coordinate) = 0
  <2>1. CASE Layer0Blocks(plane_coordinate) = {}
    BY <2>1 DEF LayersNeeded
  <2>2. CASE Layer0Blocks(plane_coordinate) # {}
    <3>1. PowerOfTwo[n] = 1 /\ \A m \in 0 .. n - 1 : FALSE
      BY <1>3, PowerRecursion
    <3>2. LayersNeeded(plane_coordinate) = n
      BY <1>1, <2>2, <3>1, LeastEnough
    <3> QED BY <1>3, <3>2
  <2> QED BY <2>1, <2>2
<1> QED BY <1>2, <1>4 DEF PlaneDone, NoLayersAbove

\* When DoPlane returns after a layer, that layer was the last one needed; it
\* has no tiles only if the plane has no sub-blocks.
LEMMA DoneWithLayers ==
  ASSUME DocsHaveRoom, LoopInv, LayerInv, LayersInv, InLayer,
         tile_no = NumberOfCells(minification_factor),
         ~(next_layer_tiles # <<>> /\ IsAdditionalLayerNeeded(minification_factor))
  PROVE  /\ PlaneDone(plane_coordinate)
         /\ LayersNeeded(plane_coordinate) =
              number_of_pyramid_layers + (IF next_layer_tiles = <<>> THEN 0 ELSE 1)
<1>1. PICK n \in Nat : n = number_of_pyramid_layers /\ Layer = n + 1
  BY DEF LayerInv, Layer
<1>2. CASE next_layer_tiles = <<>>
  <2>1. Layer0Blocks(plane_coordinate) = {}
    <3> SUFFICES ASSUME NEW b \in Layer0Blocks(plane_coordinate) PROVE FALSE
      OBVIOUS
    <3>1. PICK r \in IntRect : r = doc.subBlocks[b].rect /\ IsNonEmpty(r)
      BY PlaneOfLayer DEF IsStoredRect
    <3>2. PICK x \in Int, y \in Int : InRect(r, x, y)
      <4>1. r.x \in Int /\ r.y \in Int /\ r.w \in Int /\ r.h \in Int
        BY DEF IntRect
      <4>2. r.w > 0 /\ r.h > 0
        BY <3>1 DEF IsNonEmpty
      <4>3. r.x < r.x + r.w /\ r.y < r.y + r.h
        BY <4>1, <4>2
      <4>4. InRect(r, r.x, r.y)
        BY <4>1, <4>3 DEF InRect
      <4> QED BY <4>1, <4>4
    <3>3. HasData(plane_coordinate, x, y)
      BY <3>1, <3>2 DEF HasData
    <3>4. \E k \in DOMAIN next_layer_tiles : InRect(next_layer_tiles[k].rect, x, y)
      BY <3>3, LayerComplete DEF Covers
    <3> QED BY <1>2, <3>4
  <2>2. LayersNeeded(plane_coordinate) = 0
    BY <2>1 DEF LayersNeeded
  <2>3. \A k \in DOMAIN written : written[k].coordinate # plane_coordinate
    BY <2>1 DEF LayersInv
  <2>4. n = 0
    BY <1>1, <2>1 DEF LayersInv, InLayer
  <2> QED BY <1>1, <1>2, <2>2, <2>3, <2>4 DEF PlaneDone, NoLayersAbove
<1>3. CASE next_layer_tiles # <<>>
  <2>1. Layer0Blocks(plane_coordinate) # {} /\ ~IsAdditionalLayerNeeded(minification_factor)
    BY <1>3 DEF LayersInv
  <2>2. minification_factor = PowerOfTwo[n + 1]
    BY <1>1 DEF LayersInv
  <2>3. n + 1 \in 0 .. 30
    <3>1. PowerOfTwo[n + 1] <= IntMax /\ n + 1 \in Nat
      BY <2>1, <2>2, RoomOfLayer DEF IsLayerFactor
    <3> QED BY <3>1, PowersAreFactors
  <2>4. \A m \in 0 .. (n + 1) - 1 : IsAdditionalLayerNeeded(PowerOfTwo[m])
    BY <1>1 DEF LayersInv
  <2>5. IsStoredRect(rect)
    BY PlaneOfLayer
  <2>6. LayersNeeded(plane_coordinate) = n + 1
    BY <2>1, <2>2, <2>3, <2>4, <2>5, LeastEnough
  <2>7. ASSUME NEW m \in 1 .. n + 1 PROVE LayerCovered(plane_coordinate, m)
    <3>1. CASE m \in 1 .. n
      BY <1>1, <3>1 DEF LayersInv
    <3>2. CASE m = n + 1
      BY <1>1, <3>2, LayerComplete
    <3>3. m \in 1 .. n \/ m = n + 1
      OBVIOUS
    <3> QED BY <3>1, <3>2, <3>3
  <2>8. NoLayersAbove(plane_coordinate, n + 1)
    BY <1>1 DEF LayersInv
  <2> QED BY <1>1, <1>3, <2>3, <2>6, <2>7, <2>8 DEF PlaneDone
<1> QED BY <1>2, <1>3

\* Every step keeps the invariant of the layers.
LEMMA NextCover ==
  DocsHaveRoom /\ LoopInv /\ CopyInv /\ LayerInv /\ TilesInv /\ CoverInv /\ [Next]_vars => CoverInv'
<1> SUFFICES ASSUME DocsHaveRoom, LoopInv, CopyInv, LayerInv, TilesInv, CoverInv, [Next]_vars
             PROVE  CoverInv'
  OBVIOUS
<1> USE DEF loop, region
<1>1. CASE Construct
  <2>1. /\ UNCHANGED <<doc, written, visited, pyramid_region_info>>
        /\ phase' \in {"plane", "failed"}
    BY <1>1 DEF Construct
  <2> QED BY <2>1, OutsideCover DEF InLayer
<1>2. CASE EnterPlane
  <2>1. /\ UNCHANGED <<doc, written, visited, pyramid_region_info>>
        /\ phase' = "copy" /\ number_of_pyramid_layers' = 0
    BY <1>2 DEF EnterPlane
  <2> QED BY <2>1, OutsideCover DEF InLayer
<1>3. ASSUME NEW b \in sub_blocks_of_plane, CopySubBlock(b) PROVE CoverInv'
  <2>1. /\ UNCHANGED <<doc, written, visited, pyramid_region_info>>
        /\ phase' = "copy" /\ number_of_pyramid_layers' = 0
    BY <1>3 DEF CopySubBlock, CoverInv
  <2> QED BY <2>1, OutsideCover DEF InLayer
<1>4. CASE CopyDone
  <2>1. phase = "copy" /\ UNCHANGED <<doc, written, number_of_pyramid_layers>>
    BY <1>4 DEF CopyDone
  <2>2. CASE IsAdditionalLayerNeeded(1)
    BY <1>4, <2>1, <2>2, FirstCover DEF CopyDone
  <2>3. CASE ~IsAdditionalLayerNeeded(1)
    <3>1. LeavePlane(0)
      BY <1>4, <2>3 DEF CopyDone
    <3> QED BY <2>1, <2>3, <3>1, DoneWithoutLayers, PlaneLeft
  <2> QED BY <2>2, <2>3
<1>5. CASE Layer0Cell
  <2>1. /\ phase = "layer0" /\ InLayer /\ LayersInv
        /\ tile_no < NumberOfCells(2) /\ tile_no' = tile_no + 1
        /\ UNCHANGED <<doc, phase, loop, minification_factor, tiles, number_of_pyramid_layers,
                       pyramid_region_info>>
    BY <1>5 DEF Layer0Cell, InLayer, CoverInv
  <2>2. CASE Layer0Tile = {}
    <3>1. CellIsEmpty
      BY <2>1, <2>2, Layer0Covered
    <3> QED BY <1>5, <2>1, <2>2, <3>1, CoverWithoutTile DEF Layer0Cell
  <2>3. CASE Layer0Tile # {}
    <3>1. PICK tile \in Layer0Tile : OutputTile(tile)
      BY <1>5, <2>3 DEF Layer0Cell
    <3>2. IsCoverOfCell(tile) /\ Layer0Blocks(plane_coordinate) # {}
      BY <2>1, <2>3, Layer0Covered
    <3> QED BY <2>1, <3>1, <3>2, CoverWithTile
  <2> QED BY <2>2, <2>3
<1>6. CASE UpperCell
  <2>1. /\ phase = "upper" /\ InLayer /\ LayersInv
        /\ tile_no < NumberOfCells(minification_factor) /\ tile_no' = tile_no + 1
        /\ UNCHANGED <<doc, phase, loop, minification_factor, tiles, number_of_pyramid_layers,
                       pyramid_region_info>>
    BY <1>6 DEF UpperCell, InLayer, CoverInv
  <2>2. \A tile \in UpperTile : IsCoverOfCell(tile)
    BY <2>1, UpperCovered DEF CoverInv
  <2>3. UpperTile = {} => CellIsEmpty
    BY <2>1, UpperCovered DEF CoverInv
  <2>4. CASE UpperTile = {}
    BY <1>6, <2>1, <2>3, <2>4, CoverWithoutTile DEF UpperCell
  <2>5. CASE UpperTile # {}
    <3>1. PICK tile \in UpperTile : OutputTile(tile)
      BY <1>6, <2>5 DEF UpperCell
    <3>2. IsCoverOfCell(tile) /\ Layer0Blocks(plane_coordinate) # {}
      BY <2>1, <2>2, <3>1 DEF LayersInv
    <3> QED BY <2>1, <3>1, <3>2, CoverWithTile
  <2> QED BY <2>4, <2>5
<1>7. CASE LayerDone
  <2>1. /\ InLayer /\ LayersInv /\ UNCHANGED <<doc, written>>
        /\ tile_no = NumberOfCells(minification_factor)
    BY <1>7 DEF LayerDone, InLayer, CoverInv
  <2>2. CASE next_layer_tiles # <<>> /\ IsAdditionalLayerNeeded(minification_factor)
    <3>1. IsStoredRect(rect) /\ minification_factor \in Nat \ {0}
      BY <2>1, PlaneInWork DEF LayerInv, InLayer, InPlane
    <3>2. ToUint(2 * minification_factor) = 2 * minification_factor
      BY <2>2, <3>1, NeededLayerFits
    <3>3. /\ phase' = "upper" /\ minification_factor' = 2 * minification_factor
          /\ number_of_pyramid_layers' = number_of_pyramid_layers + 1
          /\ tile_no' = 0 /\ tiles' = next_layer_tiles /\ next_layer_tiles' = <<>>
          /\ UNCHANGED <<loop, pyramid_region_info>>
      BY <1>7, <2>2, <3>2 DEF LayerDone
    <3> QED BY <2>1, <2>2, <3>3, UpperCover
  <2>3. CASE ~(next_layer_tiles # <<>> /\ IsAdditionalLayerNeeded(minification_factor))
    <3>1. LeavePlane(number_of_pyramid_layers + (IF next_layer_tiles = <<>> THEN 0 ELSE 1))
      BY <1>7, <2>3 DEF LayerDone
    <3>2. /\ PlaneDone(plane_coordinate)
          /\ LayersNeeded(plane_coordinate) =
               number_of_pyramid_layers + (IF next_layer_tiles = <<>> THEN 0 ELSE 1)
      BY <2>1, <2>3, DoneWithLayers
    <3>3. LeavePlane(LayersNeeded(plane_coordinate))
      BY <3>1, <3>2
    <3> QED BY <2>1, <3>2, <3>3, PlaneLeft
  <2> QED BY <2>2, <2>3
<1>8. CASE Throw
  <2>1. /\ UNCHANGED <<doc, written, visited, pyramid_region_info>> /\ phase' = "failed"
    BY <1>8 DEF Throw
  <2> QED BY <2>1, OutsideCover DEF InLayer
<1>9. CASE Return
  <2>1. /\ UNCHANGED <<doc, written, visited, pyramid_region_info>> /\ phase' = "done"
    BY <1>9 DEF Return
  <2> QED BY <2>1, OutsideCover DEF InLayer
<1>10. CASE UNCHANGED vars
  BY <1>10, CoverWithoutTile DEF vars
<1> QED BY <1>1, <1>2, <1>3, <1>4, <1>5, <1>6, <1>7, <1>8, <1>9, <1>10 DEF Next, Progress

\* In documents with room, the invariant of the layers holds in every reachable
\* state.
LEMMA CoverInvariant ==
  ASSUME DocsHaveRoom
  PROVE  Spec => [](LoopInv /\ CoverInv)
<1>1. Init => LoopInv /\ CopyInv /\ LayerInv /\ TilesInv /\ CoverInv
  BY InitLoop, InitCopy, InitLayer, InitTiles, InitCover
<1>2. LoopInv /\ CopyInv /\ LayerInv /\ TilesInv /\ CoverInv /\ [Next]_vars
        => (LoopInv /\ CopyInv /\ LayerInv /\ TilesInv /\ CoverInv)'
  BY NextLoop, NextCopy, NextLayer, NextTiles, NextCover
<1> QED BY <1>1, <1>2, PTL DEF Spec, Safety

\* In documents with room, every plane that is done has exactly the layers its
\* size calls for, and each of them covers every pixel of its sub-blocks: no tile
\* is discarded as too small, and none is missed between two cells.
THEOREM LayersCoverPlanes ==
  ASSUME DocsHaveRoom
  PROVE  Spec => []PlanesCovered
<1>1. LoopInv /\ CoverInv => PlanesCovered
  <2> SUFFICES ASSUME LoopInv, CoverInv, NEW plane \in visited
               PROVE  LET ofPlane == {t \in WrittenTiles : t.coordinate = plane}
                      IN  /\ {Scale(t) : t \in ofPlane} =
                               {PowerOfTwo[n] : n \in 1 .. LayersNeeded(plane)}
                          /\ \A b \in Layer0Blocks(plane), n \in 1 .. LayersNeeded(plane) :
                               LET r == doc.subBlocks[b].rect
                               IN  \A x \in r.x .. r.x + r.w - 1, y \in r.y .. r.y + r.h - 1 :
                                     \E t \in ofPlane :
                                       Scale(t) = PowerOfTwo[n] /\ InRect(t.rect, x, y)
    BY DEF PlanesCovered
  <2> DEFINE ofPlane == {t \in WrittenTiles : t.coordinate = plane}
  <2>1. PICK N \in 0 .. 30 : /\ N = LayersNeeded(plane)
                             /\ \A m \in 1 .. N : LayerCovered(plane, m)
                             /\ NoLayersAbove(plane, N)
    BY DEF CoverInv, PlaneDone
  <2>2. ASSUME NEW b \in Layer0Blocks(plane)
        PROVE  IsStoredRect(doc.subBlocks[b].rect) /\ IsNonEmpty(doc.subBlocks[b].rect)
    BY DoPyramidizeAssumption DEF LoopInv, IsDocument, Layer0Blocks
  <2>3. ASSUME NEW n \in 1 .. N, NEW x \in Int, NEW y \in Int, HasData(plane, x, y)
        PROVE  \E t \in ofPlane : Scale(t) = PowerOfTwo[n] /\ InRect(t.rect, x, y)
    BY <2>1, <2>3 DEF LayerCovered, WrittenTiles
  <2>4. ASSUME NEW b \in Layer0Blocks(plane), NEW n \in 1 .. N,
               NEW x \in Int, NEW y \in Int, InRect(doc.subBlocks[b].rect, x, y)
        PROVE  \E t \in ofPlane : Scale(t) = PowerOfTwo[n] /\ InRect(t.rect, x, y)
    <3>1. HasData(plane, x, y)
      BY <2>4 DEF HasData
    <3> QED BY <2>3, <3>1
  <2>5. ASSUME NEW t \in ofPlane PROVE \E n \in 1 .. N : Scale(t) = PowerOfTwo[n]
    BY <2>1 DEF NoLayersAbove, WrittenTiles
  <2>6. ASSUME NEW n \in 1 .. N PROVE \E t \in ofPlane : Scale(t) = PowerOfTwo[n]
    <3>1. PICK b : b \in Layer0Blocks(plane)
      <4>1. N # 0
        BY <2>1
      <4>2. Layer0Blocks(plane) = {} => N = 0
        BY <2>1 DEF LayersNeeded
      <4> QED BY <4>1, <4>2
    <3>2. PICK r \in IntRect : r = doc.subBlocks[b].rect /\ IsNonEmpty(r)
      BY <2>2, <3>1 DEF IsStoredRect
    <3>3. r.x \in Int /\ r.y \in Int /\ InRect(r, r.x, r.y)
      BY <3>2 DEF IntRect, IsNonEmpty, InRect
    <3> QED BY <2>4, <3>1, <3>2, <3>3
  <2>7. ASSUME NEW b \in Layer0Blocks(plane), NEW n \in 1 .. N,
               NEW x \in doc.subBlocks[b].rect.x ..
                         doc.subBlocks[b].rect.x + doc.subBlocks[b].rect.w - 1,
               NEW y \in doc.subBlocks[b].rect.y ..
                         doc.subBlocks[b].rect.y + doc.subBlocks[b].rect.h - 1
        PROVE  \E t \in ofPlane : Scale(t) = PowerOfTwo[n] /\ InRect(t.rect, x, y)
    <3>1. PICK r \in IntRect : r = doc.subBlocks[b].rect
      BY <2>2 DEF IsStoredRect
    <3>2. x \in Int /\ y \in Int /\ InRect(r, x, y)
      BY <3>1 DEF IntRect, InRect
    <3> QED BY <2>4, <3>1, <3>2
  <2> HIDE DEF ofPlane
  <2>8. {Scale(t) : t \in ofPlane} = {PowerOfTwo[n] : n \in 1 .. N}
    BY <2>5, <2>6
  <2> USE DEF ofPlane
  <2> QED BY <2>1, <2>7, <2>8
<1> QED BY <1>1, CoverInvariant, PTL

\* In documents with room, the result names each scene with the greatest number
\* of layers that a plane of it calls for.
THEOREM ResultReportsLayers ==
  ASSUME DocsHaveRoom
  PROVE  Spec => []LayersReported
<1>1. LoopInv /\ CoverInv => LayersReported
  BY DEF CoverInv, InfoInv, SceneOf, LayersReported
<1> QED BY <1>1, CoverInvariant, PTL

\* In documents with room, every pixel of every tile is that of the plane's
\* mosaic at the pixel's place, however many layers it went through.
THEOREM TilesShowMosaic ==
  ASSUME DocsHaveRoom
  PROVE  Spec => []PixelsFaithful
<1>1. LoopInv /\ CoverInv => PixelsFaithful
  BY DEF CoverInv, IsFaithful, PixelsFaithful, WrittenTiles
<1> QED BY <1>1, CoverInvariant, PTL
-----------------------------------------------------------------------------
(* The destination, looked at by a second run.                             *)

\* The region of every plane of an accepted document is a rectangle of ints.
LEMMA RegionOfPlane ==
  ASSUME doc \in Docs, Enumerable(doc.statistics), NEW plane \in Planes(bounds)
  PROVE  IsStoredRect(RegionRect(doc.statistics, plane))
<1>1. IsDocument(doc)
  BY DoPyramidizeAssumption
<1>2. CASE ContainsSceneIndex(plane)
  <2>1. "S" \in DOMAIN bounds
    BY <1>1, <1>2, PlaneType DEF IsDocument, ContainsSceneIndex, bounds
  <2>2. plane["S"] \in bounds["S"].start .. Last(bounds, "S")
    BY <2>1 DEF Planes
  <2>3. plane["S"] \in DOMAIN doc.statistics.sceneBoundingBoxes
    BY <2>1, <2>2 DEF Enumerable, bounds
  <2> QED BY <1>1, <1>2, <2>3 DEF IsDocument, RegionRect
<1>3. CASE ~ContainsSceneIndex(plane)
  BY <1>1, <1>3 DEF IsDocument, RegionRect
<1> QED BY <1>2, <1>3

\* Halving a signed integer thirty times leaves at most 1.
LEMMA ThirtyHalves ==
  ASSUME NEW v \in Int, v <= IntMax
  PROVE  v \div PowerOfTwo[30] <= 1
<1>1. PICK p \in Nat \ {0} : p = PowerOfTwo[30]
  BY PowerPositive
<1>2. IntMax < 2 * p
  <2>1. PICK width \in 1 .. 32 : UintModulus = PowerOfTwo[width]
    BY UintWidthAssumption
  <2>2. PICK n \in Nat, m \in Nat : width = n + 1 /\ n + m = 31
    <3>1. width - 1 \in Nat /\ 32 - width \in Nat
      BY <2>1
    <3>2. width = (width - 1) + 1 /\ (width - 1) + (32 - width) = 31
      BY <2>1
    <3> QED BY <3>1, <3>2
  <2>3. PICK a \in Nat \ {0} : a = PowerOfTwo[n] /\ UintModulus = 2 * a
    <3>1. PowerOfTwo[n] \in Nat \ {0} /\ PowerOfTwo[n + 1] = 2 * PowerOfTwo[n]
      BY PowerPositive, PowerRecursion
    <3> QED BY <2>1, <2>2, <3>1
  <2>4. PICK k \in Nat \ {0} : PowerOfTwo[31] = k * a
    <3>1. \E k \in Nat \ {0} : PowerOfTwo[n + m] = k * PowerOfTwo[n]
      BY PowerDivides
    <3> QED BY <2>2, <2>3, <3>1
  <2>5. PowerOfTwo[31] = 2 * p
    <3>1. 30 \in Nat /\ 30 + 1 = 31
      OBVIOUS
    <3> QED BY <1>1, <3>1, PowerRecursion
  <2>6. 1 * a <= k * a /\ 1 * a = a
    OBVIOUS
  <2>7. PICK half \in Nat \ {0} : UintModulus = 2 * half /\ IntMax = half - 1
    BY SignedRange
  <2>8. a <= 2 * p
    BY <2>4, <2>5, <2>6
  <2> QED BY <2>3, <2>7, <2>8
<1>3. PICK q \in Int : q = v \div p
  BY <1>1, DivMod
<1>4. q * p <= v
  BY <1>3, FloorIsGreatest
<1>5. ASSUME 2 <= q PROVE FALSE
  <2>1. 2 * p <= q * p
    BY <1>5
  <2>2. IntMax \in Int /\ q * p \in Int
    BY ConversionsAreInts
  <2> QED BY <1>2, <1>4, <2>1, <2>2
<1> QED BY <1>1, <1>3, <1>5

\* The number of layers a plane needs is well defined: its region, halved often
\* enough, is no larger than a tile.
LEMMA LayersNeededIsLeast ==
  ASSUME doc \in Docs, Enumerable(doc.statistics), NEW plane \in Planes(bounds),
         Layer0Blocks(plane) # {}
  PROVE  LET box == RegionRect(doc.statistics, plane)
             n   == LayersNeeded(plane)
         IN  /\ n \in 0 .. 30
             /\ box.w \div PowerOfTwo[n] <= PyramidTileSize
             /\ box.h \div PowerOfTwo[n] <= PyramidTileSize
<1>1. PICK box \in IntRect : /\ box = RegionRect(doc.statistics, plane)
                             /\ box.w <= IntMax /\ box.h <= IntMax
  BY RegionOfPlane DEF IsStoredRect
<1> DEFINE Enough(m) == /\ box.w \div PowerOfTwo[m] <= PyramidTileSize
                        /\ box.h \div PowerOfTwo[m] <= PyramidTileSize
           S == {m \in 0 .. 30 : Enough(m)}
<1>2. LayersNeeded(plane) = CHOOSE n \in 0 .. 30 : Enough(n) /\ \A m \in 0 .. n - 1 : ~Enough(m)
  BY <1>1 DEF LayersNeeded
<1>3. 30 \in S
  <2>1. /\ box.w \in Int /\ box.h \in Int
        /\ box.w \div PowerOfTwo[30] \in Int /\ box.h \div PowerOfTwo[30] \in Int
    BY PowerPositive, DivMod DEF IntRect
  <2>2. box.w \div PowerOfTwo[30] <= 1 /\ box.h \div PowerOfTwo[30] <= 1
    BY <1>1, <2>1, ThirtyHalves
  <2> QED BY <2>1, <2>2, DoPyramidizeAssumption
<1>4. PICK n \in S : \A u \in S : n <= u
  <2>1. S \in SUBSET Int /\ S # {} /\ \A v \in S : 0 <= v
    BY <1>3
  <2> HIDE DEF S
  <2> QED BY <2>1, LeastExists
<1>5. n \in 0 .. 30 /\ Enough(n) /\ \A m \in 0 .. n - 1 : ~Enough(m)
  <2>1. n \in 0 .. 30 /\ Enough(n)
    BY <1>4
  <2>2. ASSUME NEW m \in 0 .. n - 1, Enough(m) PROVE FALSE
    <3>1. m \in S
      BY <2>1, <2>2
    <3>2. n <= m
      BY <1>4, <3>1
    <3> QED BY <2>1, <3>2
  <2> QED BY <2>1, <2>2
<1> HIDE DEF Enough
<1>6. LayersNeeded(plane) \in 0 .. 30 /\ Enough(LayersNeeded(plane))
  BY <1>2, <1>5
<1> QED BY <1>1, <1>6 DEF Enough

\* A key of the destination is that of a sub-block copied from a plane done, or
\* that of a tile.
LEMMA DestinationKey ==
  ASSUME LoopInv, CopyInv, phase = "done", NEW key \in DestinationKeys
  PROVE  \/ \E b \in DOMAIN doc.subBlocks :
              /\ key = <<"copied", b>> /\ DestinationSubBlocks[key] = doc.subBlocks[b]
              /\ doc.subBlocks[b].layer0 /\ doc.subBlocks[b].coordinate \in visited
         \/ \E k \in DOMAIN written :
              /\ key = <<"written", k>> /\ ~DestinationSubBlocks[key].layer0
              /\ DestinationSubBlocks[key].coordinate = written[k].coordinate
<1>1. CASE \E b \in {c \in DOMAIN doc.subBlocks : copied[c] > 0} : key = <<"copied", b>>
  <2>1. PICK b \in DOMAIN doc.subBlocks : copied[b] > 0 /\ key = <<"copied", b>>
    BY <1>1
  <2>2. InDestination(b)
    BY <2>1 DEF CopyInv
  <2>3. key[1] = "copied" /\ key[2] = b
    BY <2>1
  <2>4. DestinationSubBlocks[key] = doc.subBlocks[b]
    BY <2>3 DEF DestinationSubBlocks
  <2> QED BY <2>1, <2>2, <2>4 DEF InDestination, InPlane
<1>2. CASE \E k \in DOMAIN written : key = <<"written", k>>
  <2>1. PICK k \in DOMAIN written : key = <<"written", k>>
    BY <1>2
  <2>2. key[1] # "copied" /\ key[2] = k
    BY <2>1
  <2>3. DestinationSubBlocks[key] =
          [coordinate |-> written[k].coordinate, rect |-> written[k].rect, mIndex |-> 0,
           layer0 |-> FALSE]
    BY <2>2 DEF DestinationSubBlocks
  <2> QED BY <2>1, <2>3
<1> QED BY <1>1, <1>2 DEF DestinationKeys

\* Where the sub-blocks of a region reach further than the threshold, a tile of
\* one of their planes is in the destination.
LEMMA RegionAboveHasTile ==
  ASSUME LoopInv, CoverInv, phase = "done", NEW box,
         NEW blocks \in SUBSET DOMAIN doc.subBlocks,
         \A b \in blocks :
            /\ doc.subBlocks[b].layer0 /\ doc.subBlocks[b].coordinate \in visited
            /\ RegionRect(doc.statistics, doc.subBlocks[b].coordinate) = box,
         NEW threshold \in PyramidTileSize .. IntMax,
         IsRectangleAboveThreshold(BoundingBox({doc.subBlocks[b].rect : b \in blocks}), threshold)
  PROVE  \E b \in blocks, k \in DOMAIN written :
            written[k].coordinate = doc.subBlocks[b].coordinate
<1> DEFINE rects == {doc.subBlocks[b].rect : b \in blocks}
<1>1. PyramidTileSize \in Nat /\ threshold \in Int /\ PyramidTileSize <= threshold
  BY DoPyramidizeAssumption
<1>2. PICK b \in blocks : TRUE
  <2> SUFFICES ASSUME blocks = {} PROVE FALSE
    OBVIOUS
  <2>1. BoundingBox(rects) = EmptyRect
    BY DEF BoundingBox
  <2> QED BY <1>1, <2>1 DEF IsRectangleAboveThreshold, EmptyRect
<1>3. /\ doc \in Docs /\ IsDocument(doc) /\ Enumerable(doc.statistics)
      /\ visited \subseteq Planes(bounds)
  BY DoPyramidizeAssumption DEF LoopInv
<1> box \in IntRect
  BY <1>2, <1>3, RegionOfPlane DEF IsStoredRect
<1>4. ASSUME NEW c \in blocks
      PROVE  LET r == doc.subBlocks[c].rect
             IN  r \in IntRect /\ IsNonEmpty(r) /\ Contains(box, r)
  BY <1>3 DEF IsDocument, IsStoredRect
<1>5. PICK bb \in IntRect : bb = BoundingBox(rects) /\ Contains(box, bb)
  <2>1. rects \in SUBSET IntRect /\ rects # {} /\ \A r \in rects : IsNonEmpty(r) /\ Contains(box, r)
    BY <1>2, <1>4
  <2> HIDE DEF rects
  <2> QED BY <2>1, BoundingBoxIsLeast
<1>6. box.w > PyramidTileSize \/ box.h > PyramidTileSize
  <2>1. /\ box.w \in Int /\ box.h \in Int /\ bb.w \in Int /\ bb.h \in Int
        /\ box.x \in Int /\ box.y \in Int /\ bb.x \in Int /\ bb.y \in Int
    BY DEF IntRect
  <2>2. bb.w <= box.w /\ bb.h <= box.h
    BY <1>5, <2>1 DEF Contains
  <2>3. bb.w > threshold \/ bb.h > threshold
    BY <1>5 DEF IsRectangleAboveThreshold
  <2> QED BY <1>1, <2>1, <2>2, <2>3
<1> DEFINE plane == doc.subBlocks[b].coordinate
<1>7. b \in Layer0Blocks(plane) /\ plane \in visited
  BY <1>2 DEF Layer0Blocks
<1>8. PICK n \in 0 .. 30 : /\ n = LayersNeeded(plane)
                           /\ box.w \div PowerOfTwo[n] <= PyramidTileSize
                           /\ box.h \div PowerOfTwo[n] <= PyramidTileSize
  BY <1>2, <1>3, <1>7, LayersNeededIsLeast
<1>9. n # 0
  <2> SUFFICES ASSUME n = 0 PROVE FALSE
    OBVIOUS
  <2>1. PowerOfTwo[n] = 1
    BY PowerRecursion
  <2>2. box.w \in Int /\ box.h \in Int /\ box.w \div 1 = box.w /\ box.h \div 1 = box.h
    BY DEF IntRect
  <2> QED BY <1>1, <1>6, <1>8, <2>1, <2>2
<1>10. LayerCovered(plane, 1)
  <2>1. 1 \in 1 .. LayersNeeded(plane)
    BY <1>8, <1>9
  <2> QED BY <1>7, <2>1 DEF CoverInv, PlaneDone
<1>11. PICK x \in Int, y \in Int : HasData(plane, x, y)
  <2> DEFINE r == doc.subBlocks[b].rect
  <2>1. r.x \in Int /\ r.y \in Int /\ r.w \in Int /\ r.h \in Int /\ r.w > 0 /\ r.h > 0
    BY <1>4 DEF IntRect, IsNonEmpty
  <2> HIDE DEF r
  <2>2. InRect(r, r.x, r.y)
    BY <2>1 DEF InRect
  <2> QED BY <1>7, <2>1, <2>2 DEF HasData, r
<1> QED BY <1>10, <1>11 DEF LayerCovered

\* The coordinate of every sub-block of the destination is that of a plane done.
LEMMA DestinationIsVisited ==
  ASSUME LoopInv, CopyInv, TilesInv, phase = "done", NEW key \in DestinationKeys
  PROVE  DestinationSubBlocks[key].coordinate \in visited
<1>1. \A k \in DOMAIN written : written[k].coordinate \in visited
  BY DEF TilesInv, InLayer
<1> QED BY <1>1, DestinationKey

\* The same for the sub-blocks of some of the planes, which share a region.
LEMMA PlanesAboveHaveTile ==
  ASSUME LoopInv, CopyInv, CoverInv, phase = "done", NEW box,
         NEW planes \in SUBSET visited,
         \A p \in planes : RegionRect(doc.statistics, p) = box,
         NEW threshold \in PyramidTileSize .. IntMax,
         NEW keys, keys = {key \in DestinationKeys : DestinationSubBlocks[key].coordinate \in planes},
         IsRectangleAboveThreshold(
            BoundingBox({DestinationSubBlocks[b].rect :
                           b \in {c \in keys : DestinationSubBlocks[c].layer0}}), threshold)
  PROVE  \E k \in DOMAIN written : written[k].coordinate \in planes
<1> DEFINE blocks == {b \in DOMAIN doc.subBlocks : /\ <<"copied", b>> \in keys
                                                   /\ doc.subBlocks[b].layer0
                                                   /\ doc.subBlocks[b].coordinate \in planes}
           layer0 == {c \in keys : DestinationSubBlocks[c].layer0}
<1>1. \A b \in blocks : /\ <<"copied", b>> \in layer0
                        /\ DestinationSubBlocks[<<"copied", b>>] = doc.subBlocks[b]
  <2> SUFFICES ASSUME NEW b \in blocks
               PROVE  /\ <<"copied", b>> \in layer0
                      /\ DestinationSubBlocks[<<"copied", b>>] = doc.subBlocks[b]
    OBVIOUS
  <2>1. <<"copied", b>> \in DestinationKeys
    OBVIOUS
  <2>2. <<"copied", b>>[1] = "copied" /\ <<"copied", b>>[2] = b
    OBVIOUS
  <2>3. DestinationSubBlocks[<<"copied", b>>] = doc.subBlocks[b]
    BY <2>1, <2>2 DEF DestinationSubBlocks
  <2> QED BY <2>3
<1>2. \A key \in layer0 : \E b \in blocks : DestinationSubBlocks[key] = doc.subBlocks[b]
  BY DestinationKey
<1>3. {DestinationSubBlocks[b].rect : b \in layer0} = {doc.subBlocks[b].rect : b \in blocks}
  <2> HIDE DEF blocks, layer0
  <2>1. \A b \in blocks : \E key \in layer0 : DestinationSubBlocks[key].rect = doc.subBlocks[b].rect
    BY <1>1
  <2>2. \A key \in layer0 : \E b \in blocks : DestinationSubBlocks[key].rect = doc.subBlocks[b].rect
    BY <1>2
  <2> QED BY <2>1, <2>2
<1>4. /\ blocks \in SUBSET DOMAIN doc.subBlocks
      /\ \A b \in blocks :
            /\ doc.subBlocks[b].layer0 /\ doc.subBlocks[b].coordinate \in planes
            /\ doc.subBlocks[b].coordinate \in visited
            /\ RegionRect(doc.statistics, doc.subBlocks[b].coordinate) = box
  OBVIOUS
<1>5. IsRectangleAboveThreshold(BoundingBox({doc.subBlocks[b].rect : b \in blocks}), threshold)
  BY <1>3
<1> HIDE DEF blocks
<1> QED BY <1>4, <1>5, RegionAboveHasTile

\* A plane with a tile in the destination has a pyramid layer in its statistics.
LEMMA TileIsInStatistics ==
  ASSUME CopyInv, LayerInv, TilesInv, NEW k \in DOMAIN written,
         NEW scene, scene = IF ContainsSceneIndex(written[k].coordinate)
                            THEN written[k].coordinate["S"] ELSE IntMax
  PROVE  LET statistics == PyramidStatisticsOf(DestinationSubBlocks, LayerOfDestination)
         IN  /\ scene \in DOMAIN statistics
             /\ DoesContainPyramidLayer(statistics[scene])
<1> DEFINE key == <<"written", k>>
           SceneIn(b) == IF ContainsSceneIndex(DestinationSubBlocks[b].coordinate)
                         THEN DestinationSubBlocks[b].coordinate["S"] ELSE IntMax
           l == LayerOfDestination[key]
           Counted == {b \in DOMAIN DestinationSubBlocks :
                         SceneIn(b) = scene /\ LayerOfDestination[b] = l}
           Written == {<<"written", m>> : m \in DOMAIN written}
<1>1. /\ key \in DestinationKeys /\ DOMAIN DestinationSubBlocks = DestinationKeys
      /\ DestinationSubBlocks[key].coordinate = written[k].coordinate
  <2>1. key \in DestinationKeys /\ key[1] # "copied" /\ key[2] = k
    BY DEF DestinationKeys
  <2> QED BY <2>1 DEF DestinationSubBlocks
<1>2. l \in 1 .. 30
  <2>1. PICK factor \in Nat \ {0} : IsLayerFactor(factor) /\ IsTile(written[k], factor)
    BY DEF TilesInv
  <2>2. \E n \in 1 .. 30 : Scale(written[k]) = PowerOfTwo[n]
    BY <2>1, TileScale DEF IsLayerFactor
  <2>3. l = CHOOSE n \in 1 .. 30 : Scale(written[k]) = PowerOfTwo[n]
    <3>1. key[1] # "copied" /\ key[2] = k
      OBVIOUS
    <3> QED BY <1>1, <3>1 DEF LayerOfDestination
  <2> QED BY <2>2, <2>3
<1>3. key \in Counted
  BY <1>1
<1>4. Counted \subseteq Written
  <2> SUFFICES ASSUME NEW c \in Counted, c \notin Written PROVE FALSE
    OBVIOUS
  <2>1. c \in DestinationKeys /\ LayerOfDestination[c] = l
    BY <1>1
  <2>2. PICK b \in DOMAIN doc.subBlocks : c = <<"copied", b>>
    BY <2>1 DEF DestinationKeys
  <2>3. c[1] = "copied"
    BY <2>2
  <2>4. LayerOfDestination[c] = 0
    BY <2>1, <2>3 DEF LayerOfDestination
  <2> QED BY <1>2, <2>1, <2>4
<1> HIDE DEF l, Counted
<1>5. IsFiniteSet(Written)
  <2> DEFINE f == [m \in DOMAIN written |-> <<"written", m>>]
  <2>1. f \in Surjection(DOMAIN written, Written)
    BY DEF Surjection
  <2>2. IsFiniteSet(DOMAIN written)
    <3>1. PICK S : written \in Seq(S)
      BY DEF LayerInv, HasRects
    <3>2. PICK n \in Nat : n = Len(written) /\ DOMAIN written = 1 .. n
      BY <3>1
    <3> QED BY <3>2, FS_Interval
  <2> HIDE DEF f, Written
  <2> QED BY <2>1, <2>2, FS_Surjection
<1>6. IsFiniteSet(Counted) /\ Cardinality(Counted) > 0
  <2>1. IsFiniteSet(Counted)
    BY <1>4, <1>5, FS_Subset
  <2>2. Cardinality(Counted) \in Nat /\ Cardinality(Counted) # 0
    BY <1>3, <2>1, FS_EmptySet, FS_CardinalityType
  <2> QED BY <2>1, <2>2
<1> DEFINE statistics == PyramidStatisticsOf(DestinationSubBlocks, LayerOfDestination)
           layers == {[layer |-> n, count |-> Cardinality({b \in DOMAIN DestinationSubBlocks :
                                                             SceneIn(b) = scene /\ LayerOfDestination[b] = n})] :
                        n \in {LayerOfDestination[b] :
                                 b \in {c \in DOMAIN DestinationSubBlocks : SceneIn(c) = scene}}}
<1>7. scene \in DOMAIN statistics /\ statistics[scene] = layers
  <2>1. SceneIn(key) = scene
    BY <1>1
  <2>2. scene \in {SceneIn(b) : b \in DOMAIN DestinationSubBlocks}
    BY <1>1, <2>1
  <2> QED BY <2>2 DEF PyramidStatisticsOf
<1>8. [layer |-> l, count |-> Cardinality(Counted)] \in layers
  <2>1. key \in {c \in DOMAIN DestinationSubBlocks : SceneIn(c) = scene}
    BY <1>1
  <2> QED BY <2>1 DEF l, Counted
<1>9. DoesContainPyramidLayer(layers)
  <2> HIDE DEF layers
  <2> QED BY <1>2, <1>6, <1>8 DEF DoesContainPyramidLayer
<1> QED BY <1>7, <1>9

\* In documents with room, the destination has the pyramid it needs once Execute
\* has returned: CheckForPyramid, as a second run calls it, finds nothing to do
\* for any threshold that is not below the tile size.
THEOREM SecondRunFindsPyramid ==
  ASSUME DocsHaveRoom
  PROVE  Spec => []DestinationNeedsNoPyramid
<1>1. LoopInv /\ CopyInv /\ LayerInv /\ TilesInv /\ CoverInv => DestinationNeedsNoPyramid
  <2> DEFINE statistics == StatisticsOf(DestinationSubBlocks)
             pyramidStatistics == PyramidStatisticsOf(DestinationSubBlocks, LayerOfDestination)
  <2> SUFFICES ASSUME LoopInv, CopyInv, LayerInv, TilesInv, CoverInv, phase = "done",
                      NEW threshold \in PyramidTileSize .. IntMax
               PROVE  CheckIfPyramidIsPresent(statistics, pyramidStatistics, threshold)
    BY DEF DestinationNeedsNoPyramid, NeedsPyramid
  <2>1. /\ DOMAIN DestinationSubBlocks = DestinationKeys
        /\ \A key \in DestinationKeys : DestinationSubBlocks[key].coordinate \in visited
    BY DestinationIsVisited DEF DestinationSubBlocks
  <2> DEFINE InScene(s) == {b \in DestinationKeys :
                              /\ "S" \in DOMAIN DestinationSubBlocks[b].coordinate
                              /\ DestinationSubBlocks[b].coordinate["S"] = s}
             BoxOf(keys) == BoundingBox({DestinationSubBlocks[b].rect :
                                           b \in {c \in keys : DestinationSubBlocks[c].layer0}})
  <2>2. statistics.sceneBoundingBoxes =
          [s \in {DestinationSubBlocks[b].coordinate["S"] :
                    b \in {c \in DestinationKeys : "S" \in DOMAIN DestinationSubBlocks[c].coordinate}}
             |-> BoxOf(InScene(s))]
    BY <2>1 DEF StatisticsOf
  <2>3. statistics.boundingBoxLayer0Only = BoxOf(DestinationKeys)
    BY <2>1 DEF StatisticsOf
  <2> HIDE DEF statistics
  <2>4. CASE HasScenes(statistics)
    <3> SUFFICES ASSUME NEW s \in ScenesAboveThreshold(statistics, threshold)
                 PROVE  s \in DOMAIN pyramidStatistics /\ DoesContainPyramidLayer(pyramidStatistics[s])
      BY <2>4 DEF CheckIfPyramidIsPresent
    <3> DEFINE planes == {p \in visited : ContainsSceneIndex(p) /\ p["S"] = s}
    <3>1. IsRectangleAboveThreshold(BoxOf(InScene(s)), threshold)
      BY <2>2 DEF ScenesAboveThreshold
    <3>2. InScene(s) = {key \in DestinationKeys : DestinationSubBlocks[key].coordinate \in planes}
      BY <2>1 DEF ContainsSceneIndex
    <3>3. \A p \in planes : RegionRect(doc.statistics, p) = doc.statistics.sceneBoundingBoxes[s]
      BY DEF RegionRect
    <3>4. PICK k \in DOMAIN written : written[k].coordinate \in planes
      <4> HIDE DEF planes
      <4> PICK keys : keys = InScene(s)
        OBVIOUS
      <4> PICK box : box = doc.statistics.sceneBoundingBoxes[s]
        OBVIOUS
      <4>1. IsRectangleAboveThreshold(BoxOf(keys), threshold)
        BY <3>1
      <4>2. planes \in SUBSET visited
        BY DEF planes
      <4> HIDE DEF InScene
      <4> QED BY <3>2, <3>3, <4>1, <4>2, PlanesAboveHaveTile
    <3>5. s = IF ContainsSceneIndex(written[k].coordinate) THEN written[k].coordinate["S"] ELSE IntMax
      BY <3>4
    <3> QED BY <3>5, TileIsInStatistics
  <2>5. CASE ~HasScenes(statistics)
    <3> SUFFICES ASSUME IsRectangleAboveThreshold(BoxOf(DestinationKeys), threshold)
                 PROVE  /\ IntMax \in DOMAIN pyramidStatistics
                        /\ DoesContainPyramidLayer(pyramidStatistics[IntMax])
      BY <2>3, <2>5 DEF CheckIfPyramidIsPresent, CheckOverallBoundingBoxForNecessityOfPyramid
    <3> DEFINE planes == {p \in visited : ~ContainsSceneIndex(p)}
    <3>1. \A key \in DestinationKeys : DestinationSubBlocks[key].coordinate \in planes
      <4> SUFFICES ASSUME NEW key \in DestinationKeys,
                          "S" \in DOMAIN DestinationSubBlocks[key].coordinate
                   PROVE  FALSE
        BY <2>1 DEF ContainsSceneIndex
      <4> HIDE DEF BoxOf, InScene
      <4>1. DestinationSubBlocks[key].coordinate["S"] \in DOMAIN statistics.sceneBoundingBoxes
        BY <2>2
      <4> QED BY <2>5, <4>1 DEF HasScenes
    <3>2. \A p \in planes : RegionRect(doc.statistics, p) = doc.statistics.boundingBoxLayer0Only
      BY DEF RegionRect
    <3>3. PICK k \in DOMAIN written : written[k].coordinate \in planes
      <4> HIDE DEF planes
      <4> PICK box : box = doc.statistics.boundingBoxLayer0Only
        OBVIOUS
      <4>1. DestinationKeys = {key \in DestinationKeys : DestinationSubBlocks[key].coordinate \in planes}
        BY <3>1
      <4>2. planes \in SUBSET visited
        BY DEF planes
      <4>3. PICK keys : keys = DestinationKeys
        OBVIOUS
      <4>4. IsRectangleAboveThreshold(BoxOf(keys), threshold)
        BY <4>3
      <4> QED BY <3>2, <4>1, <4>2, <4>3, <4>4, PlanesAboveHaveTile
    <3>4. IntMax = IF ContainsSceneIndex(written[k].coordinate) THEN written[k].coordinate["S"] ELSE IntMax
      BY <3>3
    <3> QED BY <3>4, TileIsInStatistics
  <2> QED BY <2>4, <2>5
<1>2. Init => LoopInv /\ CopyInv /\ LayerInv /\ TilesInv /\ CoverInv
  BY InitLoop, InitCopy, InitLayer, InitTiles, InitCover
<1>3. LoopInv /\ CopyInv /\ LayerInv /\ TilesInv /\ CoverInv /\ [Next]_vars
        => (LoopInv /\ CopyInv /\ LayerInv /\ TilesInv /\ CoverInv)'
  BY NextLoop, NextCopy, NextLayer, NextTiles, NextCover
<1> QED BY <1>1, <1>2, <1>3, PTL DEF Spec, Safety
=============================================================================
